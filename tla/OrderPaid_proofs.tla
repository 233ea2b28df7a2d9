---------------------------- MODULE OrderPaid_proofs ----------------------------
(***************************************************************************)
(* A seller is credited once and for a paid order, for any number of       *)
(* processes, workers, shops, attempts and changes of the order.           *)
(***************************************************************************)
EXTENDS OrderPaid, TLAPS

\* A credit leaves PENDING_PAYMENT behind, and nothing leads back to it.
Credits ==
    /\ shop \in [Shops -> {"PENDING_PAYMENT", "CONFIRMED", "CANCELLED",
                           "IN_PRODUCTION", "DELIVERED"}]
    /\ credits \in [Shops -> {0, 1}]
    /\ \A s \in Shops : credits[s] = 1 => shop[s] # "PENDING_PAYMENT"

\* Before the payment there is no event, and so neither a job nor a worker:
\* a status an administrator sets on an unpaid order credits nobody.
NothingUnpaid ==
    row = "none" => /\ late = {} /\ owner = None
                    /\ \A p \in Processes : tick[p] = "idle"
                    /\ \A j \in Jobs : job[j] = "none"
                    /\ \A w \in Workers : todo[w] = {None} /\ at[w] = None
                    /\ \A s \in Shops : credits[s] = 0

IInv == Credits /\ NothingUnpaid

-----------------------------------------------------------------------------
LEMMA InitInv == Init => IInv
<1> SUFFICES ASSUME Init PROVE IInv
  OBVIOUS
<1>1. Credits
  <2>1. shop \in [Shops -> {"PENDING_PAYMENT", "CONFIRMED", "CANCELLED",
                           "IN_PRODUCTION", "DELIVERED"}]
    BY DEF Init
  <2>2. credits \in [Shops -> {0, 1}] /\ \A s \in Shops : credits[s] = 0
    BY DEF Init
  <2>3. QED
    BY <2>1, <2>2 DEF Credits
<1>2. NothingUnpaid
  BY DEF Init, NothingUnpaid
<1>3. QED
  BY <1>1, <1>2 DEF IInv

\* Administrators and the payment.
LEMMA OrderInv ==
  ASSUME IInv, OrderNext
  PROVE  IInv'
<1> USE OrderPaidParameters
    DEF IInv, Credits, NothingUnpaid, outboxVars, jobVars, runVars
<1>1. CASE Pay
  BY <1>1 DEF Pay
<1>2. CASE Cancel
  BY <1>2 DEF Cancel
<1>3. CASE \E e \in Edits : WriteStatus(e)
  BY <1>3 DEF WriteStatus, Progress
<1>4. CASE \/ CaptureRefunded \/ Archive \/ WriteRefund \/ WritePaypal
           \/ \E s \in Reported : PaymentReported(s)
           \/ \E request \in {"status", "refund", "paypal"} : Read(request)
  <2>1. UNCHANGED <<shop, outboxVars, jobVars, runVars>>
    BY <1>4 DEF CaptureRefunded, Archive, WriteRefund, WritePaypal, PaymentReported, Read
  <2>2. QED
    BY <2>1
<1>5. QED
  BY <1>1, <1>2, <1>3, <1>4 DEF OrderNext

\* The outbox has work only once the order is paid.
LEMMA OutboxInv ==
  ASSUME IInv, OutboxNext
  PROVE  IInv'
<1> USE DEF IInv, Credits, NothingUnpaid, orderVars, jobVars, runVars, pushVars
<1>1. CASE LeaseExpires
  BY <1>1 DEF LeaseExpires
<1>2. CASE LatePublish
  BY <1>2 DEF LatePublish
<1>3. ASSUME NEW p \in Processes,
             \/ Claim(p) \/ Dispatch(p) \/ Publish(p)
             \/ TimeOut(p) \/ Finish(p) \/ Crash(p)
      PROVE  IInv'
  <2>1. row # "none" /\ row' # "none" /\ UNCHANGED <<shop, credits>>
    BY <1>3 DEF Claim, Dispatch, Publish, TimeOut, Finish, Crash
  <2>2. QED
    BY <2>1
<1>4. QED
  BY <1>1, <1>2, <1>3 DEF OutboxNext

\* The job that credits: its compare-and-set looks at the status it changes.
LEMMA ConfirmInv ==
  ASSUME IInv, ConfirmNext
  PROVE  IInv'
<1> USE DEF IInv, Credits, NothingUnpaid, Jobs, orderVars, outboxVars, jobVars, pushVars
<1>1. CASE FanOut \/ FanOutFails \/ Stall
  BY <1>1 DEF FanOut, FanOutFails, Stall, runVars
<1>2. ASSUME NEW w \in Workers,
             \/ ConfirmStart(w) \/ EnqueuePush(w) \/ ConfirmDone(w)
             \/ ConfirmFails(w) \/ WorkerStops(w)
      PROVE  IInv'
  <2>1. row # "none" /\ UNCHANGED <<row, shop, credits>>
    BY <1>2 DEF ConfirmStart, EnqueuePush, ConfirmDone, ConfirmFails, WorkerStops, Leave
  <2>2. QED
    BY <2>1
<1>3. ASSUME NEW w \in Workers, NEW s \in Shops, Credit(w, s) PROVE IInv'
  <2>1. row # "none" /\ UNCHANGED row
    BY <1>3 DEF Credit
  <2>2. CASE shop[s] = "PENDING_PAYMENT" /\ order = "CONFIRMED" /\ ~archived
    <3>1. credits[s] = 0
      BY <2>2
    <3>2. QED
      BY <1>3, <2>1, <2>2, <3>1 DEF Credit
  <2>3. CASE ~(shop[s] = "PENDING_PAYMENT" /\ order = "CONFIRMED" /\ ~archived)
    BY <1>3, <2>1, <2>3 DEF Credit
  <2>4. QED
    BY <2>2, <2>3
<1>4. QED
  BY <1>1, <1>2, <1>3 DEF ConfirmNext

\* Print providers are asked only in jobs that the confirmation added.
LEMMA PushInv ==
  ASSUME IInv, PushNext
  PROVE  IInv'
<1>1. ASSUME NEW s \in Shops,
             \/ PushStart(s) \/ PushRecord(s) \/ PushFails(s) \/ PushDone(s)
             \/ \E k \in Connections : PushPost(s, k)
      PROVE  row # "none" /\ UNCHANGED <<row, shop, credits>>
  BY <1>1 DEF IInv, Credits, NothingUnpaid, Jobs, PushStart, PushRecord, PushFails,
              PushDone, PushPost, orderVars, outboxVars, runVars
<1>2. QED
  BY <1>1 DEF PushNext, IInv, Credits, NothingUnpaid

(***************************************************************************)
(* The invariant of the path from the payment to the sellers' credits      *)
(* (order-event-outbox.service.ts, order.processor.ts) holds in every      *)
(* reachable state.                                                        *)
(***************************************************************************)
THEOREM Inductive == Spec => []IInv
<1>1. IInv /\ [Next]_vars => IInv'
  <2>1. ASSUME IInv, Next PROVE IInv'
    BY <2>1, OrderInv, OutboxInv, ConfirmInv, PushInv DEF Next
  <2>2. ASSUME IInv, UNCHANGED vars PROVE IInv'
    BY <2>2 DEF IInv, Credits, NothingUnpaid, vars, orderVars, outboxVars, jobVars,
                runVars, pushVars
  <2>3. QED
    BY <2>1, <2>2
<1>2. QED
  BY InitInv, <1>1, PTL DEF Spec

\* handleConfirmStoreOrders credits a seller once, and for a paid order only.
THEOREM SellersCreditedOnce == Spec => []CreditedOnce
<1>1. IInv => CreditedOnce
  BY DEF IInv, Credits, NothingUnpaid, CreditedOnce
<1>2. QED
  BY Inductive, <1>1, PTL
=============================================================================
