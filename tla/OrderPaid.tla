------------------------------ MODULE OrderPaid ------------------------------
(***************************************************************************)
(* What follows the payment of an order that is not versioned              *)
(* (apps/api/src/queue: order-event-outbox.service, domain-event and       *)
(* order.processor, fulfillment.processor; modules/payments and orders).   *)
(*                                                                         *)
(* The payment leaves a row in an outbox; the tick of some process leases  *)
(* it and publishes the event under a fixed job id; the event's job adds   *)
(* the job that confirms the shops' orders and credits the sellers; that   *)
(* one adds a job per shop which places orders with print providers.       *)
(* Jobs are tried again a few times; a stalled one is given to a second    *)
(* worker while the first goes on.  Meanwhile administrators cancel,       *)
(* archive or refund the order or set its status, and the provider reports *)
(* failed attempts and refunds of the payment.                             *)
(***************************************************************************)
EXTENDS Integers, FiniteSets

CONSTANTS
    Processes,      \* processes that run the tick of the outbox
    Workers,        \* workers that run CONFIRM_STORE_ORDERS
    Shops,          \* the shops of the order
    Digital,        \* is it an order of digital products?
    Connections,    \* print providers each shop's items are mapped to
    Edits,          \* statuses administrators set
    None,           \* no process, no worker, no shop, no connection
    MaxAttempts,    \* attempts of the jobs of an event
    MaxPushes,      \* attempts of a PUSH_STORE_ORDER
    MaxChanges      \* bound: what administrators and the provider do to it

ASSUME OrderPaidParameters ==
    /\ Digital \in BOOLEAN
    /\ None \notin Processes \cup Workers \cup Shops \cup Connections
    /\ Edits \subseteq {"PENDING_PAYMENT", "CONFIRMED", "IN_PRODUCTION", "DELIVERED",
                        "REFUND_REQUESTED", "REFUNDED", "DISPUTED"}
    /\ MaxAttempts \in Nat \ {0} /\ MaxPushes \in Nat \ {0} /\ MaxChanges \in Nat

Jobs == {"event", "confirm"} \cup Shops     \* a shop: its PUSH_STORE_ORDER

Closed == {"CANCELLED", "REFUNDED"}

VARIABLES
    order,          \* status of the order
    payment,        \* status of its Payment
    archived,       \* adminArchivedAt is set
    shop,           \* per shop: status of its StoreOrder
    read,           \* requests that read the order and have not written yet
    changes,        \* how many changes administrators and the provider began
    row,            \* state of the ORDER_PAID row
    lease,          \* process that holds its leaseToken
    expired,        \* leaseUntil has passed
    tick,           \* per process: where its tick is
    late,           \* steps of dispatches given up that may still be made
    job,            \* per job: its state in the queue
    tries,          \* per job: attempts made
    owner,          \* worker that holds the lock of the confirm job
    stalled,        \* the confirm job stalled once
    todo,           \* per worker: shops it has to confirm, None when idle
    at,             \* per worker: shop it is confirming
    credits,        \* history: per shop, credits of the seller
    sent,           \* per shop: connections done in this attempt
    posting,        \* per shop: connection that made the order just now
    fulfillment,    \* per shop and connection: its StoreOrderFulfillment
    posts           \* history: per shop and connection, createOrder calls

orderVars  == <<order, payment, archived, shop, read, changes>>
outboxVars == <<row, lease, expired, tick, late>>
jobVars    == <<job, tries>>
runVars    == <<owner, stalled, todo, at, credits>>
pushVars   == <<sent, posting, fulfillment, posts>>
vars == <<orderVars, outboxVars, jobVars, runVars, pushVars>>

Init ==
    /\ order = "PENDING_PAYMENT"
    /\ payment = "PENDING"
    /\ archived = FALSE
    /\ shop = [s \in Shops |-> "PENDING_PAYMENT"]
    /\ read = {}
    /\ changes = 0
    /\ row = "none"
    /\ lease = None
    /\ expired = FALSE
    /\ tick = [p \in Processes |-> "idle"]
    /\ late = {}
    /\ job = [j \in Jobs |-> "none"]
    /\ tries = [j \in Jobs |-> 0]
    /\ owner = None
    /\ stalled = FALSE
    /\ todo = [w \in Workers |-> {None}]
    /\ at = [w \in Workers |-> None]
    /\ credits = [s \in Shops |-> 0]
    /\ sent = [s \in Shops |-> {}]
    /\ posting = [s \in Shops |-> None]
    /\ fulfillment = [s \in Shops |-> [k \in Connections |-> "none"]]
    /\ posts = [s \in Shops |-> [k \in Connections |-> 0]]

(***************************************************************************)
(* The order.                                                              *)
(***************************************************************************)

\* The payment and the outbox row, unless there is one, are written by one
\* transaction.  A digital order has no stages to go through, but captureOrder
\* of PayPal confirms it like any other.
Pay ==
    /\ order = "PENDING_PAYMENT" /\ payment = "PENDING" /\ ~archived
    /\ payment' = "PAID"
    /\ order' \in IF Digital THEN {"COMPLETED", "CONFIRMED"} ELSE {"CONFIRMED"}
    /\ row' = IF row = "none" THEN "PENDING" ELSE row
    /\ UNCHANGED <<changes, archived, shop, read, lease, expired, tick, late,
                   jobVars, runVars, pushVars>>

Change == changes < MaxChanges /\ changes' = changes + 1

\* payment_intent.payment_failed and CAPTURE.DENIED, charge.refunded: whatever
\* the order and the payment are by then.
PaymentReported(status) ==
    /\ payment' = status
    /\ Change
    /\ UNCHANGED <<order, archived, shop, read, outboxVars, jobVars, runVars,
                   pushVars>>

Reported == {"FAILED", "PARTIALLY_REFUNDED", "REFUNDED"}

\* PAYMENT.CAPTURE.REFUNDED of PayPal, which knows a booked capture.
CaptureRefunded ==
    /\ row # "none"
    /\ payment' = "REFUNDED"
    /\ order' = "REFUNDED"
    /\ Change
    /\ UNCHANGED <<archived, shop, read, outboxVars, jobVars, runVars,
                   pushVars>>

Cancel ==
    /\ order' = "CANCELLED"
    /\ shop' = [s \in Shops |-> "CANCELLED"]
    /\ Change
    /\ UNCHANGED <<payment, archived, read, outboxVars, jobVars, runVars,
                   pushVars>>

\* permanentlyDeleteCancelledOrder keeps an order that has a payment.
Archive ==
    /\ order = "CANCELLED"
    /\ archived' = TRUE
    /\ UNCHANGED <<order, payment, shop, read, changes, outboxVars, jobVars,
                   runVars, pushVars>>

\* Three requests look at the order or its payment first, and write without
\* looking again: updateStatus, createRefund and createOrder of PayPal, the
\* last two after an answer of the provider.
Read(request) ==
    /\ request \notin read
    /\ CASE request = "status" -> order # "CANCELLED" /\ ~archived
         [] request = "refund" -> payment \in {"PAID", "PARTIALLY_REFUNDED"}
         [] request = "paypal" -> order = "PENDING_PAYMENT"
    /\ read' = read \cup {request}
    /\ Change
    /\ UNCHANGED <<order, payment, archived, shop, outboxVars, jobVars, runVars,
                   pushVars>>

Progress == {"CONFIRMED", "IN_PRODUCTION", "DELIVERED"}

\* The transaction of updateStatus sets the status of the order, and of its
\* shops where that is a stage of their progress.
WriteStatus(status) ==
    /\ "status" \in read
    /\ read' = read \ {"status"}
    /\ order' = status
    /\ shop' = IF status \in Progress THEN [s \in Shops |-> status] ELSE shop
    /\ UNCHANGED <<changes, payment, archived, outboxVars, jobVars, runVars, pushVars>>

\* Only a full refund closes the order.
WriteRefund ==
    /\ "refund" \in read
    /\ read' = read \ {"refund"}
    /\ \/ payment' = "REFUNDED" /\ order' = "REFUNDED"
       \/ payment' = "PARTIALLY_REFUNDED" /\ order' = order
    /\ UNCHANGED <<changes, archived, shop, outboxVars, jobVars, runVars, pushVars>>

\* The PayPal order takes the payment over, which waits for it.
WritePaypal ==
    /\ "paypal" \in read
    /\ read' = read \ {"paypal"}
    /\ payment' = "PENDING"
    /\ UNCHANGED <<changes, order, archived, shop, outboxVars, jobVars, runVars, pushVars>>

(***************************************************************************)
(* The tick of the outbox.                                                 *)
(***************************************************************************)
LeaseExpires ==
    /\ lease # None
    /\ expired' = TRUE
    /\ UNCHANGED <<orderVars, row, lease, tick, late, jobVars, runVars,
                   pushVars>>

Claim(p) ==
    /\ tick[p] = "idle"
    /\ row = "PENDING" /\ (lease = None \/ expired)
    /\ lease' = p
    /\ expired' = FALSE
    /\ tick' = [tick EXCEPT ![p] = "dispatch"]
    /\ UNCHANGED <<orderVars, row, late, jobVars, runVars, pushVars>>

\* What dispatch finds in the way of the event.
Unwanted ==
    \/ archived
    \/ order \in {"CANCELLED", "REFUNDED", "REFUND_REQUESTED", "DISPUTED"}
    \/ payment # "PAID"

\* dispatch: an order that is not to be fulfilled any more is skipped.
Dispatch(p) ==
    /\ tick[p] = "dispatch"
    /\ tick' = [tick EXCEPT ![p] =
                  IF Unwanted THEN "skip" ELSE "publish"]
    /\ UNCHANGED <<orderVars, row, lease, expired, late, jobVars, runVars,
                   pushVars>>

\* Adding a job whose id exists changes nothing.
Add(j) == job' = [job EXCEPT ![j] = IF @ = "none" THEN "waiting" ELSE @]

\* Whatever is published later is there already.
Publish(p) ==
    /\ tick[p] = "publish"
    /\ Add("event")
    /\ late' = {}
    /\ tick' = [tick EXCEPT ![p] = "queued"]
    /\ UNCHANGED <<orderVars, row, lease, expired, tries, runVars,
                   pushVars>>

\* No answer in time, or an error.  The dispatch goes on all the same, which
\* changes nothing if the job is there already.
TimeOut(p) ==
    /\ tick[p] \in {"dispatch", "publish"}
    /\ late' = IF job["event"] = "none" THEN late \cup {tick[p]} ELSE {}
    /\ tick' = [tick EXCEPT ![p] = "release"]
    /\ UNCHANGED <<orderVars, row, lease, expired, jobVars, runVars, pushVars>>

LatePublish ==
    /\ \/ "publish" \in late
       \/ "dispatch" \in late /\ ~Unwanted
    /\ late' = {}
    /\ Add("event")
    /\ UNCHANGED <<orderVars, row, lease, expired, tick, tries, runVars,
                   pushVars>>

\* Mutant of Finish: what was given up is taken for published.
FinishAnyway(p) ==
    /\ tick[p] \in {"queued", "skip", "release"}
    /\ tick' = [tick EXCEPT ![p] = "idle"]
    /\ IF row = "PENDING" /\ lease = p
       THEN /\ row' = CASE tick[p] = "queued"  -> "QUEUED"
                        [] tick[p] = "skip"    -> "SKIPPED"
                        [] tick[p] = "release" -> "QUEUED"
            /\ lease' = None
            /\ expired' = FALSE
       ELSE UNCHANGED <<row, lease, expired>>
    /\ UNCHANGED <<orderVars, late, jobVars, runVars, pushVars>>

Finish(p) ==
    /\ tick[p] \in {"queued", "skip", "release"}
    /\ tick' = [tick EXCEPT ![p] = "idle"]
    /\ IF row = "PENDING" /\ lease = p
       THEN /\ row' = CASE tick[p] = "queued"  -> "QUEUED"
                        [] tick[p] = "skip"    -> "SKIPPED"
                        [] tick[p] = "release" -> "PENDING"
            /\ lease' = None
            /\ expired' = FALSE
       ELSE UNCHANGED <<row, lease, expired>>
    /\ UNCHANGED <<orderVars, late, jobVars, runVars, pushVars>>

Crash(p) ==
    /\ tick[p] # "idle"
    /\ tick' = [tick EXCEPT ![p] = "idle"]
    /\ UNCHANGED <<orderVars, row, lease, expired, late, jobVars, runVars,
                   pushVars>>

(***************************************************************************)
(* The jobs.  A job that fails is tried again while it has attempts left.  *)
(***************************************************************************)
Retry(j) ==
    LET most == IF j \in Shops THEN MaxPushes ELSE MaxAttempts IN
    /\ tries' = [tries EXCEPT ![j] = @ + 1]
    /\ job' = [job EXCEPT ![j] =
                 IF tries[j] + 1 < most THEN "waiting" ELSE "failed"]

\* The event's job adds the jobs of its subscribers.
FanOut ==
    /\ job["event"] = "waiting"
    /\ job' = [job EXCEPT !["event"] = "done",
                          !["confirm"] = IF @ = "none" THEN "waiting" ELSE @]
    /\ tries' = [tries EXCEPT !["event"] = 0]
    /\ UNCHANGED <<orderVars, outboxVars, runVars, pushVars>>

FanOutFails ==
    /\ job["event"] = "waiting"
    /\ Retry("event")
    /\ UNCHANGED <<orderVars, outboxVars, runVars, pushVars>>

(***************************************************************************)
(* handleConfirmStoreOrders.  A worker that lost the lock of its job goes  *)
(* on, only the end of the job is not its own any more.                    *)
(***************************************************************************)
ConfirmStart(w) ==
    /\ todo[w] = {None}
    /\ job["confirm"] = "waiting"
    /\ job' = [job EXCEPT !["confirm"] = "active"]
    /\ owner' = w
    /\ todo' = [todo EXCEPT ![w] =
                  IF archived \/ order \in Closed THEN {}
                  ELSE {s \in Shops : shop[s] \notin Closed}]
    /\ UNCHANGED <<stalled, at, credits, tries, orderVars, outboxVars, pushVars>>

\* Mutant of Credit: the seller is credited whatever the status.
CreditUnchecked(w, s) ==
    /\ at[w] = None
    /\ s \in todo[w] \ {None}
    /\ at' = [at EXCEPT ![w] = s]
    /\ shop' = [shop EXCEPT ![s] = "CONFIRMED"]
    /\ credits' = [credits EXCEPT ![s] = @ + 1]
    /\ UNCHANGED <<order, payment, archived, read, changes, owner, stalled, todo,
                   outboxVars, jobVars, pushVars>>

\* The status decides in the WHERE clause whether the seller is credited.
Credit(w, s) ==
    /\ at[w] = None
    /\ s \in todo[w] \ {None}
    /\ at' = [at EXCEPT ![w] = s]
    /\ IF shop[s] = "PENDING_PAYMENT" /\ order = "CONFIRMED" /\ ~archived
       THEN /\ shop' = [shop EXCEPT ![s] = "CONFIRMED"]
            /\ credits' = [credits EXCEPT ![s] = @ + 1]
       ELSE UNCHANGED <<shop, credits>>
    /\ UNCHANGED <<order, payment, archived, read, changes, owner, stalled, todo,
                   outboxVars, jobVars, pushVars>>

EnqueuePush(w) ==
    /\ at[w] # None
    /\ Add(at[w])
    /\ todo' = [todo EXCEPT ![w] = @ \ {at[w]}]
    /\ at' = [at EXCEPT ![w] = None]
    /\ UNCHANGED <<owner, stalled, credits, tries, orderVars, outboxVars,
                   pushVars>>

\* The worker is idle again; the end of the job counts if the lock is its own.
Leave(w) ==
    /\ todo' = [todo EXCEPT ![w] = {None}]
    /\ at' = [at EXCEPT ![w] = None]
    /\ owner' = IF owner = w THEN None ELSE owner
    /\ UNCHANGED <<stalled, credits, orderVars, outboxVars, pushVars>>

ConfirmDone(w) ==
    /\ todo[w] = {}
    /\ Leave(w)
    /\ IF owner = w
       THEN /\ job' = [job EXCEPT !["confirm"] = "done"]
            /\ tries' = [tries EXCEPT !["confirm"] = 0]
       ELSE UNCHANGED jobVars

ConfirmFails(w) ==
    /\ todo[w] # {None}
    /\ Leave(w)
    /\ IF owner = w THEN Retry("confirm") ELSE UNCHANGED jobVars

\* The process of the worker stops, and with it the renewal of the lock.
WorkerStops(w) ==
    /\ todo[w] # {None}
    /\ todo' = [todo EXCEPT ![w] = {None}]
    /\ at' = [at EXCEPT ![w] = None]
    /\ UNCHANGED <<owner, stalled, credits, orderVars, outboxVars, jobVars,
                   pushVars>>

\* BullMQ takes the lock of a worker that is late; the second time it gives up.
Stall ==
    /\ owner # None
    /\ job' = [job EXCEPT !["confirm"] = IF stalled THEN "failed" ELSE "waiting"]
    /\ stalled' = TRUE
    /\ owner' = None
    /\ UNCHANGED <<todo, at, credits, tries, orderVars, outboxVars, pushVars>>

(***************************************************************************)
(* handlePushStoreOrder, once per connection.  A digital order has nothing *)
(* to print.                                                               *)
(***************************************************************************)
ToPush == IF Digital THEN {} ELSE Connections

PushStart(s) ==
    /\ job[s] = "waiting"
    /\ job' = [job EXCEPT ![s] = "active"]
    /\ sent' = [sent EXCEPT ![s] = {}]
    /\ UNCHANGED <<tries, posting, fulfillment, posts, orderVars, outboxVars,
                   runVars>>

\* The row is made unless there is one, and createOrder is called.
PushPost(s, k) ==
    /\ job[s] = "active" /\ posting[s] = None
    /\ k \in ToPush \ sent[s]
    /\ posting' = [posting EXCEPT ![s] = k]
    /\ fulfillment' = [fulfillment EXCEPT ![s][k] =
                         IF @ = "none" THEN "PENDING" ELSE @]
    /\ posts' = [posts EXCEPT ![s][k] = @ + 1]
    /\ UNCHANGED <<sent, orderVars, outboxVars, jobVars, runVars>>

PushRecord(s) ==
    /\ job[s] = "active" /\ posting[s] # None
    /\ fulfillment' = [fulfillment EXCEPT ![s][posting[s]] = "SUBMITTED"]
    /\ sent' = [sent EXCEPT ![s] = @ \cup {posting[s]}]
    /\ posting' = [posting EXCEPT ![s] = None]
    /\ UNCHANGED <<posts, orderVars, outboxVars, jobVars, runVars>>

\* onFailed gives the rows up that are still pending after the last attempt.
PushFails(s) ==
    /\ job[s] = "active"
    /\ Retry(s)
    /\ posting' = [posting EXCEPT ![s] = None]
    /\ fulfillment' = [fulfillment EXCEPT ![s] =
         [k \in Connections |->
            IF job'[s] = "failed" /\ @[k] = "PENDING" THEN "FAILED" ELSE @[k]]]
    /\ UNCHANGED <<sent, posts, orderVars, outboxVars, runVars>>

PushDone(s) ==
    /\ job[s] = "active" /\ posting[s] = None
    /\ ToPush \subseteq sent[s]
    /\ job' = [job EXCEPT ![s] = "done"]
    /\ tries' = [tries EXCEPT ![s] = 0]
    /\ sent' = [sent EXCEPT ![s] = {}]
    /\ UNCHANGED <<posting, fulfillment, posts, orderVars, outboxVars, runVars>>

OrderNext ==
    \/ Pay \/ CaptureRefunded \/ Cancel \/ Archive \/ WriteRefund \/ WritePaypal
    \/ \E s \in Reported : PaymentReported(s)
    \/ \E request \in {"status", "refund", "paypal"} : Read(request)
    \/ \E e \in Edits : WriteStatus(e)

OutboxNext ==
    \/ LeaseExpires \/ LatePublish
    \/ \E p \in Processes : \/ Claim(p) \/ Dispatch(p) \/ Publish(p)
                            \/ TimeOut(p) \/ Finish(p) \/ Crash(p)

ConfirmNext ==
    \/ FanOut \/ FanOutFails \/ Stall
    \/ \E w \in Workers :
          \/ ConfirmStart(w) \/ EnqueuePush(w) \/ ConfirmDone(w)
          \/ ConfirmFails(w) \/ WorkerStops(w)
          \/ \E s \in Shops : Credit(w, s)

PushNext ==
    \E s \in Shops :
       \/ PushStart(s) \/ PushRecord(s) \/ PushFails(s) \/ PushDone(s)
       \/ \E k \in Connections : PushPost(s, k)

Next == OrderNext \/ OutboxNext \/ ConfirmNext \/ PushNext

Spec == Init /\ [][Next]_vars

(***************************************************************************)
(* The tick runs every ten seconds, leases expire, the queue does not stay *)
(* away for good, and BullMQ gives jobs to workers and finds the ones      *)
(* whose worker stopped.                                                   *)
(***************************************************************************)
Abandoned == Stall /\ \A w \in Workers : owner = w => todo[w] = {None}

Fairness ==
    /\ WF_vars(LeaseExpires)
    /\ \A p \in Processes :
          /\ SF_vars(Claim(p)) /\ SF_vars(Dispatch(p)) /\ SF_vars(Publish(p))
          /\ WF_vars(Finish(p))
    /\ WF_vars(FanOut) /\ WF_vars(Abandoned)
    /\ \A w \in Workers :
          /\ SF_vars(ConfirmStart(w)) /\ WF_vars(EnqueuePush(w))
          /\ WF_vars(ConfirmDone(w))
          /\ \A s \in Shops : WF_vars(Credit(w, s))

FairSpec == Spec /\ Fairness

(***************************************************************************)
(* A seller is credited once, and for an order whose payment was booked    *)
(* (with the row of the outbox), however often the event is published, the *)
(* job is tried, and two workers have it at once; and the shop's order     *)
(* does not wait for its payment any more.                                 *)
(***************************************************************************)
CreditedOnce ==
    \A s \in Shops :
        /\ credits[s] \in {0, 1}
        /\ credits[s] = 1 => row # "none" /\ shop[s] # "PENDING_PAYMENT"

(***************************************************************************)
(* When a physical order is paid no shop's order waits for the payment for *)
(* ever: its seller is credited in the end, unless an administrator moved  *)
(* or closed the order, the payment is no longer PAID (a refund, or the    *)
(* late report of a failed attempt), or the queue gave the work up, which  *)
(* it reports.  Nothing is promised for an order set back to               *)
(* PENDING_PAYMENT and paid again: its row exists already.                 *)
(***************************************************************************)
PaidIsCredited ==
    \A s \in Shops :
        payment = "PAID" /\ order = "CONFIRMED" /\ shop[s] = "PENDING_PAYMENT" ~>
            \/ shop[s] # "PENDING_PAYMENT" \/ order # "CONFIRMED" \/ payment # "PAID"
            \/ job["event"] = "failed" \/ job["confirm"] = "failed"

(***************************************************************************)
(* An order the print provider has, and that is recorded so, is not placed *)
(* with it again.                                                          *)
(***************************************************************************)
SubmittedIsPlaced ==
    [][\A s \in Shops, k \in Connections :
          fulfillment[s][k] = "SUBMITTED" => posts'[s][k] = posts[s][k]]_vars

(***************************************************************************)
(* A cancelled order is not reopened; its money can still be given back.   *)
(***************************************************************************)
CancelledIsFinal == [][order = "CANCELLED" => order' \in Closed]_vars
=============================================================================
