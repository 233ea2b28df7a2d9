----------------------- MODULE EconomicRefundExecution -----------------------
(***************************************************************************)
(* Asking a provider for one refund, and finding out what became of it     *)
(* (apps/api/src/modules/finances/economic-refund-settlement.ts, with the  *)
(* webhooks of payments/economic-payments.service.ts).                     *)
(*                                                                         *)
(* Administrators and webhooks run executeEconomicRefund on the same       *)
(* request at the same time.  One of them claims the operation and sends   *)
(* the only POST; everybody else, and every retry, may only look a refund  *)
(* up and book it.  The answer to the POST can be late or lost, processes  *)
(* stop, the dispatch expires, and an administrator can mistype the        *)
(* reference of the refund.                                                *)
(***************************************************************************)
EXTENDS Integers, FiniteSets

CONSTANTS
    Admins,         \* administrators' requests in progress
    Hooks,          \* webhook deliveries in progress
    Own,            \* references the provider gives to refunds we asked for
    Foreign,        \* references of refunds made without us
    None,           \* no reference, no caller
    MaxAbandons     \* bound: executions abandoned by a crash or database error

Callers    == Admins \cup Hooks
References == Own \cup Foreign

ASSUME ExecutionParameters ==
    /\ Admins \cap Hooks = {} /\ Own \cap Foreign = {}
    /\ None \notin References \cup Callers
    /\ IsFiniteSet(Own) /\ IsFiniteSet(Foreign)
    /\ MaxAbandons \in Nat

VARIABLES
    opState,        \* state of the operation
    bound,          \* its providerReference
    expired,        \* reconcileAfter has passed
    settlement,     \* provider reference of the EconomicRefund, None without one
    bookings,       \* history: how often the refund was booked
    held,           \* the lots of the capture have a holdReason
    moved,          \* provider: per own reference, the refund behind it
    adjusted,       \* provider: the refunds of the charge made without us
    disputed,       \* provider: the buyer disputed the charge (Stripe)
    travelling,     \* POSTs the provider has not answered yet, by caller
    posts,          \* history: how often a refund was asked for
    answer,         \* per caller: the reference the provider answered
    phase,          \* per caller: where its execution is
    reference,      \* per caller: the local variable reference
    auditing,       \* per hook: is it a charge.refunded webhook?
    charged,        \* per hook: refunded on the charge when it looked, 0 if disputed
    abandons        \* how many executions were abandoned so far

rowVars      == <<opState, bound, expired>>
bookVars     == <<settlement, bookings, held>>
chargeVars   == <<adjusted, disputed>>
providerVars == <<moved, chargeVars, travelling, posts, answer>>
callVars     == <<phase, reference, auditing, charged>>
vars == <<rowVars, bookVars, providerVars, callVars, abandons>>

Init ==
    /\ opState = "PREPARED"
    /\ bound = None
    /\ expired = FALSE
    /\ settlement = None
    /\ bookings = 0
    /\ held = FALSE
    /\ moved = [r \in Own |-> "none"]
    /\ adjusted = {}
    /\ disputed = FALSE
    /\ travelling = {}
    /\ posts = 0
    /\ answer = [c \in Callers |-> None]
    /\ phase = [c \in Callers |-> "idle"]
    /\ reference = [c \in Callers |-> None]
    /\ auditing = [c \in Callers |-> FALSE]
    /\ charged = [c \in Callers |-> 0]
    /\ abandons = 0

\* Mutant of Unresolved: a quarantined operation is left alone.
UnresolvedFresh == opState = "DISPATCHED"

Unresolved == opState \in {"DISPATCHED", "NEEDS_RECONCILIATION"}

Made == {r \in Own : moved[r] # "none"}

Move(c, to) == phase' = [phase EXCEPT ![c] = to]

\* The execution returns or throws to its caller.
Leave(c) ==
    /\ Move(c, "idle")
    /\ reference' = [reference EXCEPT ![c] = None]
    /\ auditing' = [auditing EXCEPT ![c] = FALSE]
    /\ charged' = [charged EXCEPT ![c] = 0]
    /\ answer' = [answer EXCEPT ![c] = None]

-----------------------------------------------------------------------------
(* Starting an execution                                                    *)

\* What executeEconomicRefund demands of the operation it reads.
Admits(hint) ==
    /\ bound # None /\ hint # None => hint = bound
    /\ opState = "PREPARED" => hint = None

\* The administrator's request, with or without a recovery reference, up to
\* the claim: the operation is read, then used.
AdminExecute(a, hint) ==
    /\ phase[a] = "idle"
    /\ opState # "SUCCEEDED"
    /\ Admits(hint)
    /\ reference' = [reference EXCEPT ![a] = IF bound # None THEN bound ELSE hint]
    /\ Move(a, "claiming")
    /\ UNCHANGED <<rowVars, bookVars, providerVars, auditing, charged, abandons>>

\* reconcileWebhook's lookup.  A refund we asked for names its operation, which
\* must have been dispatched; any other is looked up by its reference.
Found(r) == opState # "PREPARED" /\ (r \in Own \/ r = bound)

\* The webhook of a refund, ours or not: look for the request it belongs to.
RefundWebhook(h, r) ==
    /\ phase[h] = "idle"
    /\ r \in Made \cup adjusted
    /\ IF Found(r)
       THEN Move(h, "found") /\ reference' = [reference EXCEPT ![h] = r]
       ELSE Move(h, "holding") /\ UNCHANGED reference
    /\ UNCHANGED <<rowVars, bookVars, providerVars, auditing, charged, abandons>>

\* charge.refunded: first execute the refund whose reference is known, if any.
ChargeWebhook(h) ==
    /\ phase[h] = "idle"
    /\ Made \cup adjusted # {}
    /\ auditing' = [auditing EXCEPT ![h] = TRUE]
    /\ IF Unresolved /\ bound # None
       THEN Move(h, "found") /\ reference' = [reference EXCEPT ![h] = bound]
       ELSE Move(h, "retrieving") /\ UNCHANGED reference
    /\ UNCHANGED <<rowVars, bookVars, providerVars, charged, abandons>>

\* charge.dispute.*, and the reversal of a PayPal capture.
DisputeWebhook(h) ==
    /\ phase[h] = "idle"
    /\ disputed
    /\ Move(h, "holding")
    /\ UNCHANGED <<rowVars, bookVars, providerVars>>
    /\ UNCHANGED <<reference, auditing, charged, abandons>>

\* A charge.refunded webhook goes on to compare totals, all else returns.
Done(c) ==
    IF auditing[c]
    THEN Move(c, "retrieving") /\ UNCHANGED <<reference, auditing, charged, answer>>
    ELSE Leave(c)

\* The webhook executes the request it found, which is read again: it goes on,
\* has been booked with this reference, or is another refund's by now.
Recover(h) ==
    /\ phase[h] = "found"
    /\ IF opState = "SUCCEEDED" /\ settlement = reference[h] THEN Done(h)
       ELSE IF opState # "SUCCEEDED" /\ Admits(reference[h])
       THEN Move(h, "claiming") /\ UNCHANGED <<reference, auditing, charged, answer>>
       ELSE Leave(h)
    /\ UNCHANGED <<rowVars, bookVars, moved, chargeVars, travelling, posts, abandons>>

\* holdForReconciliation: the lots stay held, and the webhook is not
\* acknowledged.
Hold(h) ==
    /\ phase[h] = "holding"
    /\ held' = TRUE
    /\ Leave(h)
    /\ UNCHANGED <<rowVars, settlement, bookings, moved, chargeVars, travelling, posts, abandons>>

-----------------------------------------------------------------------------
(* Dispatching once                                                         *)

\* Mutant of Dispatchable: an expired dispatch may be sent again.
DispatchableAgain == opState \in {"PREPARED", "NEEDS_RECONCILIATION"}

Dispatchable == opState = "PREPARED"

\* claimEconomicOperation
Claim(c) ==
    /\ phase[c] = "claiming"
    /\ Dispatchable
    /\ opState' = "DISPATCHED"
    /\ expired' = FALSE
    /\ Move(c, "posting")
    /\ UNCHANGED <<bound, bookVars, providerVars>>
    /\ UNCHANGED <<reference, auditing, charged, abandons>>

\* Mutant of ClaimNothing: the reference is stored without a token, too.
ClaimNothingBinding(c) ==
    /\ phase[c] = "claiming"
    /\ ~Dispatchable
    /\ Move(c, IF reference[c] # None THEN "binding" ELSE "failing")
    /\ UNCHANGED <<rowVars, bookVars, providerVars>>
    /\ UNCHANGED <<reference, auditing, charged, abandons>>

\* No token: look a refund up, if its reference is known.
ClaimNothing(c) ==
    /\ phase[c] = "claiming"
    /\ ~Dispatchable
    /\ Move(c, IF reference[c] # None THEN "reading" ELSE "failing")
    /\ UNCHANGED <<rowVars, bookVars, providerVars>>
    /\ UNCHANGED <<reference, auditing, charged, abandons>>

\* provider.create: the request is sent ...
Post(c) ==
    /\ phase[c] = "posting"
    /\ posts' = posts + 1
    /\ travelling' = travelling \cup {c}
    /\ Move(c, "waiting")
    /\ UNCHANGED <<rowVars, bookVars, moved, chargeVars, answer>>
    /\ UNCHANGED <<reference, auditing, charged, abandons>>

\* ... fails before it is sent (account or original capture do not match) ...
PostRefused(c) ==
    /\ phase[c] = "posting"
    /\ Move(c, "failing")
    /\ UNCHANGED <<rowVars, bookVars, providerVars>>
    /\ UNCHANGED <<reference, auditing, charged, abandons>>

\* ... and answered, unless the caller stops waiting first.
Receive(c) ==
    /\ phase[c] = "waiting"
    /\ answer[c] # None
    /\ reference' = [reference EXCEPT ![c] = answer[c]]
    /\ answer' = [answer EXCEPT ![c] = None]
    /\ Move(c, "binding")
    /\ UNCHANGED <<rowVars, bookVars, moved, chargeVars, travelling, posts>>
    /\ UNCHANGED <<auditing, charged, abandons>>

StopWaiting(c) ==
    /\ phase[c] = "waiting"
    /\ answer' = [answer EXCEPT ![c] = None]
    /\ Move(c, "failing")
    /\ UNCHANGED <<rowVars, bookVars, moved, chargeVars, travelling, posts>>
    /\ UNCHANGED <<reference, auditing, charged, abandons>>

\* Only the answer to the POST binds a reference, and never over another one.
\* The update can commit and its answer be lost.
Bind(c) ==
    /\ phase[c] = "binding"
    /\ IF Unresolved /\ bound \in {None, reference[c]}
       THEN bound' = reference[c] /\ \E next \in {"reading", "failing"} : Move(c, next)
       ELSE UNCHANGED bound /\ Move(c, "failing")
    /\ UNCHANGED <<opState, expired, bookVars, providerVars>>
    /\ UNCHANGED <<reference, auditing, charged, abandons>>

-----------------------------------------------------------------------------
(* The provider                                                             *)

\* A POST is accepted.  No use is made of the provider's own idempotency,
\* which ends after a day: every POST makes a refund.
Accept(c, r) ==
    /\ c \in travelling
    /\ moved[r] = "none"
    /\ moved' = [moved EXCEPT ![r] = "pending"]
    /\ travelling' = travelling \ {c}
    /\ answer' = IF phase[c] = "waiting" THEN [answer EXCEPT ![c] = r] ELSE answer
    /\ UNCHANGED <<rowVars, bookVars, chargeVars, posts, callVars, abandons>>

\* A POST is refused or lost.
Reject(c) ==
    /\ c \in travelling
    /\ travelling' = travelling \ {c}
    /\ UNCHANGED <<rowVars, bookVars, moved, chargeVars, posts, answer, callVars, abandons>>

\* The money of a refund moves, or cannot.
Conclude(r, outcome) ==
    /\ moved[r] = "pending"
    /\ moved' = [moved EXCEPT ![r] = outcome]
    /\ UNCHANGED <<rowVars, bookVars, chargeVars, travelling, posts, answer, callVars, abandons>>

\* Somebody refunds the charge in the provider's dashboard.
RefundElsewhere(r) ==
    /\ r \notin adjusted
    /\ adjusted' = adjusted \cup {r}
    /\ UNCHANGED <<rowVars, bookVars, moved, disputed, travelling, posts, answer>>
    /\ UNCHANGED <<callVars, abandons>>

\* The buyer disputes the charge, which stays marked.
Dispute ==
    /\ ~disputed
    /\ disputed' = TRUE
    /\ UNCHANGED <<rowVars, bookVars, moved, adjusted, travelling, posts, answer>>
    /\ UNCHANGED <<callVars, abandons>>

-----------------------------------------------------------------------------
(* Booking what the provider confirms                                       *)

\* Mutant of Proven: a refund that is still pending counts as evidence.
ProvenPending(r) == r \in Own /\ moved[r] \in {"pending", "succeeded"} /\ ~disputed

\* Our own refund, and its money has moved.
Paid(r) == r \in Own /\ moved[r] = "succeeded"

\* verifyRefundEvidence: the refund is read, and the charge it was made of.
Proven(r) == Paid(r) /\ ~disputed

ReadEvidence(c) ==
    /\ phase[c] = "reading"
    /\ Proven(reference[c])
    /\ Move(c, "settling")
    /\ UNCHANGED <<rowVars, bookVars, providerVars>>
    /\ UNCHANGED <<reference, auditing, charged, abandons>>

ReadFails(c) ==
    /\ phase[c] = "reading"
    /\ Move(c, "failing")
    /\ UNCHANGED <<rowVars, bookVars, providerVars>>
    /\ UNCHANGED <<reference, auditing, charged, abandons>>

\* The transaction finds the refund booked and returns it, if it is the same
\* one; it throws if the operation belongs to another reference by now.
SettleNothing(c) ==
    /\ phase[c] = "settling"
    /\ settlement # None \/ ~Unresolved \/ bound \notin {None, reference[c]}
    /\ IF settlement = reference[c]
       THEN Done(c)
       ELSE Move(c, "failing") /\ UNCHANGED <<reference, auditing, charged, answer>>
    /\ UNCHANGED <<rowVars, bookVars, moved, chargeVars, travelling, posts, abandons>>

\* Mutant of Settle: the transaction trusts what was read before it.
SettleUnchecked(c) ==
    /\ phase[c] = "settling"
    /\ opState' = "SUCCEEDED"
    /\ bound' = reference[c]
    /\ settlement' = reference[c]
    /\ bookings' = bookings + 1
    /\ Done(c)
    /\ UNCHANGED <<expired, held, moved, chargeVars, travelling, posts, abandons>>

\* Mutant of Settle: the operation does not take the verified reference.
SettleUnbound(c) ==
    /\ phase[c] = "settling"
    /\ settlement = None
    /\ Unresolved /\ bound \in {None, reference[c]}
    /\ opState' = "SUCCEEDED"
    /\ settlement' = reference[c]
    /\ bookings' = bookings + 1
    /\ Done(c)
    /\ UNCHANGED <<bound, expired, held, moved, chargeVars, travelling, posts, abandons>>

\* The settling transaction commits; its answer can be lost.
Settle(c) ==
    /\ phase[c] = "settling"
    /\ settlement = None
    /\ Unresolved /\ bound \in {None, reference[c]}
    /\ opState' = "SUCCEEDED"
    /\ bound' = reference[c]
    /\ settlement' = reference[c]
    /\ bookings' = bookings + 1
    /\ \/ Done(c)
       \/ Move(c, "failing") /\ UNCHANGED <<reference, auditing, charged, answer>>
    /\ UNCHANGED <<expired, held, moved, chargeVars, travelling, posts, abandons>>

\* Mutant of Fail: whatever the state, an error asks for reconciliation.
FailAnyway(c) ==
    /\ phase[c] = "failing"
    /\ opState' = "NEEDS_RECONCILIATION"
    /\ Leave(c)
    /\ UNCHANGED <<bound, expired, bookVars, moved, chargeVars, travelling, posts, abandons>>

\* The catch block.  The dispatchToken is written once and never replaced, so
\* the updates with and without the token reach the same DISPATCHED row.
Fail(c) ==
    /\ phase[c] = "failing"
    /\ opState' = IF opState = "DISPATCHED" THEN "NEEDS_RECONCILIATION" ELSE opState
    /\ Leave(c)
    /\ UNCHANGED <<bound, expired, bookVars, moved, chargeVars, travelling, posts, abandons>>

-----------------------------------------------------------------------------
(* charge.refunded: compare the provider's total with what is booked        *)

\* charges.retrieve; amount_refunded counts the refunds that have not failed.
Retrieve(h) ==
    /\ phase[h] = "retrieving"
    /\ charged' = [charged EXCEPT ![h] =
           IF disputed THEN 0
           ELSE Cardinality({r \in Own : moved[r] \in {"pending", "succeeded"}})
                    + Cardinality(adjusted)]
    /\ Move(h, "comparing")
    /\ UNCHANGED <<rowVars, bookVars, providerVars, reference, auditing, abandons>>

RetrieveFails(h) ==
    /\ phase[h] = "retrieving"
    /\ Leave(h)
    /\ UNCHANGED <<rowVars, bookVars, moved, chargeVars, travelling, posts, abandons>>

\* The booked refunds are read after the charge; a difference, a dispute or no
\* booked refund at all holds the lots.
Compare(h) ==
    /\ phase[h] = "comparing"
    /\ IF settlement # None /\ charged[h] = 1
       THEN Leave(h)
       ELSE Move(h, "holding") /\ UNCHANGED <<reference, auditing, charged, answer>>
    /\ UNCHANGED <<rowVars, bookVars, moved, chargeVars, travelling, posts, abandons>>

-----------------------------------------------------------------------------
(* Time and crashes                                                         *)

\* reconcileAfter passes.
Expire ==
    /\ opState = "DISPATCHED" /\ ~expired
    /\ expired' = TRUE
    /\ UNCHANGED <<opState, bound, bookVars, providerVars, callVars, abandons>>

\* quarantineExpiredOperations
Quarantine ==
    /\ opState = "DISPATCHED" /\ expired
    /\ opState' = "NEEDS_RECONCILIATION"
    /\ UNCHANGED <<bound, expired, bookVars, providerVars, callVars, abandons>>

\* The process stops, or the database does not answer outside the try block.
\* A POST under way is not taken back.
Abandon(c) ==
    /\ phase[c] # "idle"
    /\ abandons < MaxAbandons
    /\ abandons' = abandons + 1
    /\ Leave(c)
    /\ UNCHANGED <<rowVars, bookVars, moved, chargeVars, travelling, posts>>

-----------------------------------------------------------------------------

\* What an execution does by itself once started.
Step(c) ==
    \/ Claim(c) \/ ClaimNothing(c)
    \/ Post(c) \/ PostRefused(c) \/ Receive(c) \/ StopWaiting(c) \/ Bind(c)
    \/ ReadEvidence(c) \/ ReadFails(c)
    \/ SettleNothing(c) \/ Settle(c) \/ Fail(c)

\* What a webhook does besides.
Reconcile(h) == Recover(h) \/ Hold(h) \/ Retrieve(h) \/ RetrieveFails(h) \/ Compare(h)

Next ==
    \/ \E c \in Callers : Step(c) \/ Reject(c) \/ Abandon(c)
    \/ \E a \in Admins, hint \in References \cup {None} : AdminExecute(a, hint)
    \/ \E h \in Hooks, r \in References : RefundWebhook(h, r)
    \/ \E h \in Hooks : ChargeWebhook(h) \/ DisputeWebhook(h) \/ Reconcile(h)
    \/ \E c \in Callers, r \in Own : Accept(c, r)
    \/ \E r \in Own, outcome \in {"succeeded", "failed"} : Conclude(r, outcome)
    \/ \E r \in Foreign : RefundElsewhere(r)
    \/ Dispute
    \/ Expire \/ Quarantine

Spec == Init /\ [][Next]_vars

\* Providers deliver the webhook of a refund again until it is answered with
\* success, which one of ours is when it is booked, and one made without us
\* never; a handler that runs goes on; reading the provider fails only for a
\* while.
FairSpec ==
    /\ Spec
    /\ \A h \in Hooks : WF_vars(Step(h) \/ Reconcile(h)) /\ SF_vars(ReadEvidence(h))
    /\ \A r \in References : SF_vars(\E h \in Hooks : RefundWebhook(h, r))

-----------------------------------------------------------------------------

TypeOK ==
    /\ opState \in {"PREPARED", "DISPATCHED", "NEEDS_RECONCILIATION", "SUCCEEDED"}
    /\ bound \in References \cup {None}
    /\ opState = "PREPARED" => bound = None /\ ~expired
    /\ opState = "SUCCEEDED" => bound # None
    /\ expired \in BOOLEAN /\ held \in BOOLEAN
    /\ adjusted \subseteq Foreign /\ disputed \in BOOLEAN
    /\ settlement \in References \cup {None}
    /\ bookings \in Nat /\ posts \in Nat /\ abandons \in 0 .. MaxAbandons
    /\ moved \in [Own -> {"none", "pending", "succeeded", "failed"}]
    /\ travelling \subseteq Callers
    /\ answer \in [Callers -> References \cup {None}]
    /\ phase \in [Callers -> {"idle", "found", "holding", "claiming", "posting", "waiting", "binding",
                              "reading", "settling", "failing", "retrieving", "comparing"}]
    /\ reference \in [Callers -> References \cup {None}]
    /\ auditing \in [Callers -> BOOLEAN]
    /\ charged \in [Callers -> Nat]

\* A refund is asked for at most once, however often administrators and
\* webhooks execute the request and whatever fails in between
\* (economic-refund-settlement.ts: "Dispatch once, retrieve on every retry").
PostedOnce == posts <= 1

\* A refund enters the books only after the provider has moved exactly that
\* money, and the operation has succeeded with the reference that was booked.
BookedIsMoved ==
    settlement # None =>
        /\ settlement \in Own /\ moved[settlement] = "succeeded"
        /\ opState = "SUCCEEDED" /\ bound = settlement

\* Whoever races for it, a refund is booked once, and in the transaction that
\* ends the operation.
BookedOnce == bookings = IF opState = "SUCCEEDED" THEN 1 ELSE 0

\* The operation is only ever bound to the refund that was made for it; a
\* mistyped recovery reference leaves no trace ("A mistyped recovery hint must
\* not permanently poison the original request").
HintsNeverBind == bound # None => bound \in Made

StateOrder == [PREPARED |-> 0, DISPATCHED |-> 1, NEEDS_RECONCILIATION |-> 2, SUCCEEDED |-> 3]

\* A late error never takes an operation back: states only go forward and a
\* bound reference stays.
NoReturn ==
    [][/\ StateOrder[opState'] >= StateOrder[opState]
       /\ bound # None => bound' = bound]_vars

\* A refund whose money moved is booked in the end, although its answer was
\* lost, the operation expired or processes stopped; a dispute of the charge
\* leaves it to people.
EventuallyBooked == \A r \in Own : moved[r] = "succeeded" ~> settlement = r \/ disputed

\* Money refunded without us holds the lots of the capture in the end: whatever
\* administrators type as the reference of our own refund, and whoever executes
\* it meanwhile, the webhook of the other refund is not taken for ours.
EventuallyHeld == \A r \in Foreign : r \in adjusted ~> held

\* Lots are held only for an adjustment made without us: "An external/unplanned
\* adjustment stays held" (economic-payments.service.ts, charge.refunded).
OnlyUnplannedHeld == held => adjusted # {} \/ disputed
-----------------------------------------------------------------------------
(* The abstract request                                                     *)

\* How far the operation is, whoever moved it there.
Stage ==
    CASE opState = "PREPARED"  -> "prepared"
      [] opState = "SUCCEEDED" -> "recorded"
      [] OTHER                 -> "asked"

Request ==
    INSTANCE ProviderRequest WITH
        Identities <- Own, None <- None, stage <- Stage, made <- Made,
        effective <- {r \in Own : Paid(r)},
        recorded <- settlement, records <- bookings

\* All executions together, with lost answers and mistyped references, are one
\* request to the provider: it makes at most one refund, and that one is booked
\* once, after its money has moved.
RequestPromise == Request!Spec
=============================================================================
