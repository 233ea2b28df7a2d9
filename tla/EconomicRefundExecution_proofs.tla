-------------------- MODULE EconomicRefundExecution_proofs --------------------
(***************************************************************************)
(* One refund is asked for once and booked once, for any number of         *)
(* administrators, webhook deliveries, references, crashes and retries.    *)
(***************************************************************************)
EXTENDS EconomicRefundExecution, FiniteSetTheorems, TLAPS

\* Who may still send the POST was given the only claim: while an execution is
\* about to post nothing is posted, nobody else is, and the operation has left
\* PREPARED for good.
OneDispatch ==
    /\ opState = "PREPARED" => posts = 0
    /\ \A c \in Callers : phase[c] = "posting" => posts = 0 /\ opState # "PREPARED"
    /\ \A c, d \in Callers : phase[c] = "posting" /\ phase[d] = "posting" => c = d
    /\ posts <= 1

\* What the provider answered, and what an execution is about to bind or book,
\* is a refund it made; what is about to be booked has been paid.
Evidence ==
    /\ \A c \in Callers : answer[c] # None => answer[c] \in Made
    /\ \A c \in Callers : phase[c] = "binding" => reference[c] \in Made
    /\ \A c \in Callers : phase[c] = "settling" => Paid(reference[c])

\* The invariants that matter, with what makes them inductive.
IInv ==
    /\ TypeOK
    /\ OneDispatch
    /\ Evidence
    /\ BookedIsMoved
    /\ BookedOnce
    /\ HintsNeverBind
    /\ opState = "SUCCEEDED" => settlement # None

-----------------------------------------------------------------------------
(* Types                                                                    *)

\* Leaving clears the caller's local variables.
LEMMA LeaveTypes ==
  ASSUME TypeOK, NEW c \in Callers, Leave(c)
  PROVE  /\ phase' \in [Callers -> {"idle", "found", "holding", "claiming", "posting", "waiting", "binding",
                       "reading", "settling", "failing", "retrieving", "comparing"}]
         /\ reference' \in [Callers -> References \cup {None}]
         /\ auditing' \in [Callers -> BOOLEAN]
         /\ charged' \in [Callers -> Nat]
         /\ answer' \in [Callers -> References \cup {None}]
BY DEF TypeOK, Leave, Move

\* So does ending an execution that is not part of a charge.refunded webhook.
LEMMA DoneTypes ==
  ASSUME TypeOK, NEW c \in Callers, Done(c)
  PROVE  /\ phase' \in [Callers -> {"idle", "found", "holding", "claiming", "posting", "waiting", "binding",
                       "reading", "settling", "failing", "retrieving", "comparing"}]
         /\ reference' \in [Callers -> References \cup {None}]
         /\ auditing' \in [Callers -> BOOLEAN]
         /\ charged' \in [Callers -> Nat]
         /\ answer' \in [Callers -> References \cup {None}]
<1>1. CASE auditing[c]
  BY <1>1 DEF TypeOK, Done, Move
<1>2. CASE ~auditing[c]
  BY <1>2, LeaveTypes DEF Done
<1>3. QED
  BY <1>1, <1>2

\* A request of an administrator, or a webhook, that begins.
LEMMA BeginTypes ==
  ASSUME TypeOK,
         \/ \E a \in Admins, hint \in References \cup {None} : AdminExecute(a, hint)
         \/ \E h \in Hooks, r \in References : RefundWebhook(h, r)
         \/ \E h \in Hooks : ChargeWebhook(h) \/ DisputeWebhook(h)
  PROVE  TypeOK'
<1>1. ASSUME NEW a \in Admins, NEW hint \in References \cup {None}, AdminExecute(a, hint)
      PROVE  TypeOK'
  BY <1>1 DEF TypeOK, AdminExecute, Move, Callers, rowVars, bookVars, providerVars, chargeVars
<1>2. ASSUME NEW h \in Hooks, NEW r \in References, RefundWebhook(h, r) PROVE TypeOK'
  BY <1>2 DEF TypeOK, RefundWebhook, Move, Callers, rowVars, bookVars, providerVars, chargeVars
<1>3. ASSUME NEW h \in Hooks, ChargeWebhook(h) PROVE TypeOK'
  BY <1>3 DEF TypeOK, ChargeWebhook, Move, Callers, rowVars, bookVars, providerVars, chargeVars
<1>4. ASSUME NEW h \in Hooks, DisputeWebhook(h) PROVE TypeOK'
  BY <1>4 DEF TypeOK, DisputeWebhook, Move, Callers, rowVars, bookVars, providerVars, chargeVars
<1>5. QED
  BY <1>1, <1>2, <1>3, <1>4

\* What an execution does by itself; only a proven reference is booked.
LEMMA StepTypes ==
  ASSUME TypeOK, NEW c \in Callers, Step(c), phase[c] = "settling" => Paid(reference[c]),
         phase[c] = "binding" => reference[c] \in Made
  PROVE  TypeOK'
<1>1. CASE Claim(c)
  BY <1>1 DEF TypeOK, Claim, Dispatchable, Move, bookVars, providerVars, chargeVars
<1>2. CASE ClaimNothing(c)
  BY <1>2 DEF TypeOK, ClaimNothing, Move, rowVars, bookVars, providerVars, chargeVars
<1>3. CASE Post(c)
  BY <1>3 DEF TypeOK, Post, Move, rowVars, bookVars, chargeVars
<1>4. CASE PostRefused(c)
  BY <1>4 DEF TypeOK, PostRefused, Move, rowVars, bookVars, providerVars, chargeVars
<1>5. CASE Receive(c)
  BY <1>5 DEF TypeOK, Receive, Move, rowVars, bookVars, chargeVars
<1>6. CASE StopWaiting(c)
  BY <1>6 DEF TypeOK, StopWaiting, Move, rowVars, bookVars, chargeVars
<1>7. CASE Bind(c)
  BY <1>7 DEF TypeOK, Bind, Unresolved, Move, bookVars, providerVars, chargeVars
<1>8. CASE ReadEvidence(c)
  BY <1>8 DEF TypeOK, ReadEvidence, Move, rowVars, bookVars, providerVars, chargeVars
<1>9. CASE ReadFails(c)
  BY <1>9 DEF TypeOK, ReadFails, Move, rowVars, bookVars, providerVars, chargeVars
<1>10. CASE SettleNothing(c)
  BY <1>10, DoneTypes DEF TypeOK, SettleNothing, Move, rowVars, bookVars, chargeVars
<1>11. CASE Settle(c)
  <2>1. reference[c] \in References /\ reference[c] # None
    BY <1>11, ExecutionParameters DEF Settle, Paid, References
  <2>2. /\ phase' \in [Callers -> {"idle", "found", "holding", "claiming", "posting", "waiting", "binding",
                       "reading", "settling", "failing", "retrieving", "comparing"}]
        /\ reference' \in [Callers -> References \cup {None}]
        /\ auditing' \in [Callers -> BOOLEAN]
        /\ charged' \in [Callers -> Nat]
        /\ answer' \in [Callers -> References \cup {None}]
    <3>1. CASE Done(c)
      BY <3>1, DoneTypes
    <3>2. CASE Move(c, "failing") /\ UNCHANGED <<reference, auditing, charged, answer>>
      BY <3>2 DEF TypeOK, Move
    <3>3. QED
      BY <1>11, <3>1, <3>2 DEF Settle
  <2>3. QED
    BY <1>11, <2>1, <2>2 DEF TypeOK, Settle, chargeVars
<1>12. CASE Fail(c)
  BY <1>12, LeaveTypes DEF TypeOK, Fail, bookVars, chargeVars
<1>13. QED
  BY <1>1, <1>2, <1>3, <1>4, <1>5, <1>6, <1>7, <1>8, <1>9, <1>10, <1>11, <1>12 DEF Step

\* Recovering what a webhook found, comparing totals and holding lots.
LEMMA ReconcileTypes ==
  ASSUME TypeOK, NEW h \in Callers, Reconcile(h)
  PROVE  TypeOK'
<1>1. CASE Retrieve(h)
  <2>1. Cardinality({r \in Own : moved[r] \in {"pending", "succeeded"}}) \in Nat
    BY FS_Subset, FS_CardinalityType, ExecutionParameters
  <2>2. Cardinality(adjusted) \in Nat
    BY FS_Subset, FS_CardinalityType, ExecutionParameters DEF TypeOK
  <2>3. charged' \in [Callers -> Nat]
    BY <1>1, <2>1, <2>2 DEF TypeOK, Retrieve
  <2>4. QED
    BY <1>1, <2>3 DEF TypeOK, Retrieve, Move, rowVars, bookVars, providerVars, chargeVars
<1>2. CASE RetrieveFails(h)
  BY <1>2, LeaveTypes DEF TypeOK, RetrieveFails, rowVars, bookVars, chargeVars
<1>3. CASE Compare(h)
  <2>1. CASE Leave(h)
    BY <1>3, <2>1, LeaveTypes DEF TypeOK, Compare, rowVars, bookVars, chargeVars
  <2>2. CASE Move(h, "holding") /\ UNCHANGED <<reference, auditing, charged, answer>>
    BY <1>3, <2>2 DEF TypeOK, Compare, Move, rowVars, bookVars, chargeVars
  <2>3. QED
    BY <1>3, <2>1, <2>2 DEF Compare
<1>4. CASE Recover(h)
  <2>1. CASE Done(h)
    BY <1>4, <2>1, DoneTypes DEF TypeOK, Recover, rowVars, bookVars, chargeVars
  <2>2. CASE Move(h, "claiming") /\ UNCHANGED <<reference, auditing, charged, answer>>
    BY <1>4, <2>2 DEF TypeOK, Recover, Move, rowVars, bookVars, chargeVars
  <2>3. CASE Leave(h)
    BY <1>4, <2>3, LeaveTypes DEF TypeOK, Recover, rowVars, bookVars, chargeVars
  <2>4. QED
    BY <1>4, <2>1, <2>2, <2>3 DEF Recover
<1>5. CASE Hold(h)
  BY <1>5, LeaveTypes DEF TypeOK, Hold, rowVars, chargeVars
<1>6. QED
  BY <1>1, <1>2, <1>3, <1>4, <1>5 DEF Reconcile

\* The provider, the clock and crashes.
LEMMA OtherTypes ==
  ASSUME TypeOK,
         \/ \E c \in Callers : Reject(c) \/ Abandon(c)
         \/ \E c \in Callers, r \in Own : Accept(c, r)
         \/ \E r \in Own, outcome \in {"succeeded", "failed"} : Conclude(r, outcome)
         \/ \E r \in Foreign : RefundElsewhere(r)
         \/ Dispute
         \/ Expire \/ Quarantine
  PROVE  TypeOK'
<1>1. CASE \E c \in Callers : Reject(c)
  BY <1>1 DEF TypeOK, Reject, rowVars, bookVars, callVars, chargeVars
<1>2. ASSUME NEW c \in Callers, Abandon(c) PROVE TypeOK'
  BY <1>2, LeaveTypes, ExecutionParameters DEF TypeOK, Abandon, rowVars, bookVars, chargeVars
<1>3. CASE Dispute
  BY <1>3 DEF TypeOK, Dispute, rowVars, bookVars, callVars
<1>4. CASE \E c \in Callers, r \in Own : Accept(c, r)
  BY <1>4 DEF TypeOK, Accept, References, rowVars, bookVars, callVars, chargeVars
<1>5. CASE \E r \in Own, outcome \in {"succeeded", "failed"} : Conclude(r, outcome)
  BY <1>5 DEF TypeOK, Conclude, rowVars, bookVars, callVars, chargeVars
<1>6. CASE \E r \in Foreign : RefundElsewhere(r)
  BY <1>6 DEF TypeOK, RefundElsewhere, rowVars, bookVars, callVars
<1>7. CASE Expire
  BY <1>7 DEF TypeOK, Expire, bookVars, providerVars, callVars, chargeVars
<1>8. CASE Quarantine
  BY <1>8 DEF TypeOK, Quarantine, bookVars, providerVars, callVars, chargeVars
<1>9. QED
  BY <1>1, <1>2, <1>3, <1>4, <1>5, <1>6, <1>7, <1>8

\* Every step keeps the types, if only proven references are booked.
LEMMA NextTypes ==
  ASSUME TypeOK, Evidence, [Next]_vars
  PROVE  TypeOK'
<1>1. ASSUME NEW c \in Callers, Step(c) PROVE TypeOK'
  BY <1>1, StepTypes DEF Evidence
<1>2. ASSUME NEW h \in Hooks, Reconcile(h) PROVE TypeOK'
  BY <1>2, ReconcileTypes DEF Callers
<1>3. CASE UNCHANGED vars
  BY <1>3 DEF TypeOK, vars, rowVars, bookVars, providerVars, chargeVars, callVars
<1>4. QED
  BY <1>1, <1>2, <1>3, BeginTypes, OtherTypes DEF Next

-----------------------------------------------------------------------------
(* Steps that neither dispatch, bind nor book                               *)

\* Local progress, errors and the quarantine keep the invariant.
LEMMA QuietStep ==
  ASSUME IInv, TypeOK',
         UNCHANGED <<bound, settlement, bookings, moved, posts>>,
         opState' # opState => opState = "DISPATCHED" /\ opState' = "NEEDS_RECONCILIATION",
         \A d \in Callers : phase'[d] \in {"posting", "binding", "settling"} =>
             phase'[d] = phase[d] /\ reference'[d] = reference[d],
         \A d \in Callers : answer'[d] \in {answer[d], None}
  PROVE  IInv'
<1>1. OneDispatch'
  BY DEF IInv, OneDispatch
<1>2. Evidence'
  BY DEF IInv, Evidence, Made, Paid
<1>3. BookedIsMoved' /\ BookedOnce' /\ HintsNeverBind' /\ (opState = "SUCCEEDED" => settlement # None)'
  BY DEF IInv, BookedIsMoved, BookedOnce, HintsNeverBind, Made
<1>4. QED
  BY <1>1, <1>2, <1>3 DEF IInv

\* An execution that ends, or a webhook that goes on to compare, is quiet.
LEMMA LeaveQuiet ==
  ASSUME TypeOK, NEW c \in Callers, Leave(c) \/ Done(c)
  PROVE  /\ \A d \in Callers : phase'[d] \in {"posting", "binding", "settling"} =>
                phase'[d] = phase[d] /\ reference'[d] = reference[d]
         /\ \A d \in Callers : answer'[d] \in {answer[d], None}
<1>1. CASE Leave(c)
  BY <1>1 DEF TypeOK, Leave, Move
<1>2. CASE Done(c) /\ auditing[c]
  BY <1>2 DEF TypeOK, Done, Move
<1>3. CASE Done(c) /\ ~auditing[c]
  BY <1>3, <1>1 DEF Done
<1>4. QED
  BY <1>1, <1>2, <1>3

\* Nothing happens when a request or a webhook begins.
LEMMA BeginStep ==
  ASSUME IInv, TypeOK',
         \/ \E a \in Admins, hint \in References \cup {None} : AdminExecute(a, hint)
         \/ \E h \in Hooks, r \in References : RefundWebhook(h, r)
         \/ \E h \in Hooks : ChargeWebhook(h) \/ DisputeWebhook(h)
  PROVE  IInv'
<1>1. ASSUME NEW a \in Admins, NEW hint, AdminExecute(a, hint) PROVE IInv'
  BY <1>1, QuietStep DEF IInv, TypeOK, AdminExecute, Move, rowVars, bookVars, providerVars
<1>2. ASSUME NEW h \in Hooks, NEW r, RefundWebhook(h, r) PROVE IInv'
  BY <1>2, QuietStep DEF IInv, TypeOK, RefundWebhook, Move, rowVars, bookVars, providerVars
<1>3. ASSUME NEW h \in Hooks, ChargeWebhook(h) PROVE IInv'
  BY <1>3, QuietStep DEF IInv, TypeOK, ChargeWebhook, Move, rowVars, bookVars, providerVars
<1>4. ASSUME NEW h \in Hooks, DisputeWebhook(h) PROVE IInv'
  BY <1>4, QuietStep DEF IInv, TypeOK, DisputeWebhook, Move, rowVars, bookVars, providerVars
<1>5. QED
  BY <1>1, <1>2, <1>3, <1>4

-----------------------------------------------------------------------------
(* Steps of an execution                                                    *)

\* The claim is given once, while nothing has been posted.
LEMMA ClaimStep ==
  ASSUME IInv, TypeOK', NEW c \in Callers, Claim(c)
  PROVE  IInv'
<1>1. OneDispatch'
  BY DEF IInv, TypeOK, OneDispatch, Claim, Dispatchable, Move, providerVars
<1>2. Evidence'
  BY DEF IInv, TypeOK, Evidence, Made, Paid, Claim, Move, providerVars
<1>3. BookedIsMoved' /\ BookedOnce' /\ HintsNeverBind' /\ (opState = "SUCCEEDED" => settlement # None)'
  BY DEF IInv, BookedIsMoved, BookedOnce, HintsNeverBind, Made, Claim, Dispatchable,
         bookVars, providerVars
<1>4. QED
  BY <1>1, <1>2, <1>3 DEF IInv

\* Whoever posts is the only one who could.
LEMMA PostStep ==
  ASSUME IInv, TypeOK', NEW c \in Callers, Post(c)
  PROVE  IInv'
<1>1. OneDispatch'
  BY DEF IInv, TypeOK, OneDispatch, Post, Move, rowVars
<1>2. Evidence'
  BY DEF IInv, TypeOK, Evidence, Made, Paid, Post, Move
<1>3. BookedIsMoved' /\ BookedOnce' /\ HintsNeverBind' /\ (opState = "SUCCEEDED" => settlement # None)'
  BY DEF IInv, BookedIsMoved, BookedOnce, HintsNeverBind, Made, Post, rowVars, bookVars
<1>4. QED
  BY <1>1, <1>2, <1>3 DEF IInv

\* The reference to bind is the provider's answer.
LEMMA ReceiveStep ==
  ASSUME IInv, TypeOK', NEW c \in Callers, Receive(c)
  PROVE  IInv'
<1>1. OneDispatch'
  BY DEF IInv, TypeOK, OneDispatch, Receive, Move, rowVars
<1>2. Evidence'
  BY DEF IInv, TypeOK, Evidence, Made, Paid, Receive, Move
<1>3. BookedIsMoved' /\ BookedOnce' /\ HintsNeverBind' /\ (opState = "SUCCEEDED" => settlement # None)'
  BY DEF IInv, BookedIsMoved, BookedOnce, HintsNeverBind, Made, Receive, rowVars, bookVars
<1>4. QED
  BY <1>1, <1>2, <1>3 DEF IInv

\* A reference is bound while the operation is unresolved, so nothing is booked.
LEMMA BindStep ==
  ASSUME IInv, TypeOK', NEW c \in Callers, Bind(c)
  PROVE  IInv'
<1>1. OneDispatch'
  BY DEF IInv, TypeOK, OneDispatch, Bind, Move, providerVars
<1>2. Evidence'
  BY DEF IInv, TypeOK, Evidence, Made, Paid, Bind, Move, providerVars
<1>3. BookedIsMoved' /\ BookedOnce' /\ (opState = "SUCCEEDED" => settlement # None)'
  BY DEF IInv, BookedIsMoved, BookedOnce, Bind, Unresolved, bookVars, providerVars
<1>4. HintsNeverBind'
  BY DEF IInv, Evidence, HintsNeverBind, Made, Bind, providerVars
<1>5. QED
  BY <1>1, <1>2, <1>3, <1>4 DEF IInv

\* Only a proven reference goes on to be booked.
LEMMA ReadEvidenceStep ==
  ASSUME IInv, TypeOK', NEW c \in Callers, ReadEvidence(c)
  PROVE  IInv'
<1>1. OneDispatch'
  BY DEF IInv, TypeOK, OneDispatch, ReadEvidence, Move, rowVars, providerVars
<1>2. Evidence'
  BY DEF IInv, TypeOK, Evidence, Made, Paid, Proven, ReadEvidence, Move, providerVars
<1>3. BookedIsMoved' /\ BookedOnce' /\ HintsNeverBind' /\ (opState = "SUCCEEDED" => settlement # None)'
  BY DEF IInv, BookedIsMoved, BookedOnce, HintsNeverBind, Made, ReadEvidence,
         rowVars, bookVars, providerVars
<1>4. QED
  BY <1>1, <1>2, <1>3 DEF IInv

\* Booking ends the operation with the reference that was proven.
LEMMA SettleStep ==
  ASSUME IInv, TypeOK', NEW c \in Callers, Settle(c)
  PROVE  IInv'
<1>1. /\ \A d \in Callers : phase'[d] \in {"posting", "binding", "settling"} =>
            phase'[d] = phase[d] /\ reference'[d] = reference[d]
      /\ \A d \in Callers : answer'[d] \in {answer[d], None}
  <2>1. CASE Done(c)
    BY <2>1, LeaveQuiet DEF IInv
  <2>2. CASE Move(c, "failing") /\ UNCHANGED <<reference, auditing, charged, answer>>
    BY <2>2 DEF IInv, TypeOK, Move
  <2>3. QED
    BY <2>1, <2>2 DEF Settle
<1>2. OneDispatch'
  BY <1>1 DEF IInv, OneDispatch, Settle
<1>3. Evidence'
  BY <1>1 DEF IInv, Evidence, Made, Paid, Settle
<1>4. reference[c] \in Own /\ moved[reference[c]] = "succeeded" /\ reference[c] # None
  BY ExecutionParameters DEF IInv, Evidence, Paid, Settle, References
<1>5. BookedIsMoved' /\ HintsNeverBind' /\ (opState = "SUCCEEDED" => settlement # None)'
  BY <1>4 DEF BookedIsMoved, HintsNeverBind, Made, Settle
<1>6. BookedOnce'
  BY DEF IInv, BookedOnce, Settle, Unresolved
<1>7. QED
  BY <1>2, <1>3, <1>5, <1>6 DEF IInv

\* What an execution does by itself.
LEMMA StepStep ==
  ASSUME IInv, TypeOK', NEW c \in Callers, Step(c)
  PROVE  IInv'
<1>1. CASE ClaimNothing(c)
  BY <1>1, QuietStep DEF IInv, TypeOK, ClaimNothing, Move, rowVars, bookVars, providerVars
<1>2. CASE PostRefused(c)
  BY <1>2, QuietStep DEF IInv, TypeOK, PostRefused, Move, rowVars, bookVars, providerVars
<1>3. CASE StopWaiting(c)
  BY <1>3, QuietStep DEF IInv, TypeOK, StopWaiting, Move, rowVars, bookVars
<1>4. CASE ReadFails(c)
  BY <1>4, QuietStep DEF IInv, TypeOK, ReadFails, Move, rowVars, bookVars, providerVars
<1>5. CASE SettleNothing(c)
  <2>1. CASE Done(c)
    BY <1>5, <2>1, LeaveQuiet, QuietStep DEF IInv, SettleNothing, rowVars, bookVars
  <2>2. CASE Move(c, "failing") /\ UNCHANGED <<reference, auditing, charged, answer>>
    BY <1>5, <2>2, QuietStep DEF IInv, TypeOK, SettleNothing, Move, rowVars, bookVars
  <2>3. QED
    BY <1>5, <2>1, <2>2 DEF SettleNothing
<1>6. CASE Fail(c)
  BY <1>6, LeaveQuiet, QuietStep DEF IInv, Fail, bookVars
<1>7. QED
  BY <1>1, <1>2, <1>3, <1>4, <1>5, <1>6, ClaimStep, PostStep, ReceiveStep, BindStep,
     ReadEvidenceStep, SettleStep DEF Step

-----------------------------------------------------------------------------
(* The provider and everybody else                                          *)

\* The provider answers with the refund it just made.
LEMMA AcceptStep ==
  ASSUME IInv, TypeOK', NEW c \in Callers, NEW r \in Own, Accept(c, r)
  PROVE  IInv'
<1>1. Made \subseteq Made' /\ r \in Made'
  BY DEF IInv, TypeOK, Made, Accept
<1>2. \A q : Paid(q) => Paid(q)'
  BY DEF IInv, TypeOK, Paid, Accept
<1>3. OneDispatch'
  BY DEF IInv, OneDispatch, Accept, rowVars, callVars
<1>4. Evidence'
  BY <1>1, <1>2 DEF IInv, TypeOK, Evidence, Accept, callVars
<1>5. BookedIsMoved'
  BY DEF IInv, TypeOK, BookedIsMoved, Accept, rowVars, bookVars
<1>6. BookedOnce' /\ (opState = "SUCCEEDED" => settlement # None)'
  BY DEF IInv, BookedOnce, Accept, rowVars, bookVars
<1>7. HintsNeverBind'
  BY <1>1 DEF IInv, HintsNeverBind, Accept, rowVars
<1>8. QED
  BY <1>3, <1>4, <1>5, <1>6, <1>7 DEF IInv

\* A refund that succeeded stays so.
LEMMA ConcludeStep ==
  ASSUME IInv, TypeOK', NEW r \in Own, NEW outcome \in {"succeeded", "failed"},
         Conclude(r, outcome)
  PROVE  IInv'
<1>1. Made' = Made
  BY DEF IInv, TypeOK, Made, Conclude
<1>2. \A q : Paid(q) => Paid(q)'
  BY DEF IInv, TypeOK, Paid, Conclude
<1>3. OneDispatch'
  BY DEF IInv, OneDispatch, Conclude, rowVars, callVars
<1>4. Evidence'
  BY <1>1, <1>2 DEF IInv, Evidence, Conclude, callVars
<1>5. BookedIsMoved'
  BY DEF IInv, TypeOK, BookedIsMoved, Conclude, rowVars, bookVars
<1>6. BookedOnce' /\ HintsNeverBind' /\ (opState = "SUCCEEDED" => settlement # None)'
  BY <1>1 DEF IInv, BookedOnce, HintsNeverBind, Conclude, rowVars, bookVars
<1>7. QED
  BY <1>3, <1>4, <1>5, <1>6 DEF IInv

\* Webhooks read, hold lots, or go on to the claim.
LEMMA ReconcileStep ==
  ASSUME IInv, TypeOK', NEW h \in Callers, Reconcile(h)
  PROVE  IInv'
<1>1. CASE Retrieve(h)
  BY <1>1, QuietStep DEF IInv, TypeOK, Retrieve, Move, rowVars, bookVars, providerVars
<1>2. CASE RetrieveFails(h)
  BY <1>2, LeaveQuiet, QuietStep DEF IInv, RetrieveFails, rowVars, bookVars
<1>3. CASE Compare(h)
  <2>1. CASE Leave(h)
    BY <1>3, <2>1, LeaveQuiet, QuietStep DEF IInv, Compare, rowVars, bookVars
  <2>2. CASE Move(h, "holding") /\ UNCHANGED <<reference, auditing, charged, answer>>
    BY <1>3, <2>2, QuietStep DEF IInv, TypeOK, Compare, Move, rowVars, bookVars
  <2>3. QED
    BY <1>3, <2>1, <2>2 DEF Compare
<1>4. CASE Recover(h)
  <2>1. CASE Done(h) \/ Leave(h)
    BY <1>4, <2>1, LeaveQuiet, QuietStep DEF IInv, Recover, rowVars, bookVars
  <2>2. CASE Move(h, "claiming") /\ UNCHANGED <<reference, auditing, charged, answer>>
    BY <1>4, <2>2, QuietStep DEF IInv, TypeOK, Recover, Move, rowVars, bookVars
  <2>3. QED
    BY <1>4, <2>1, <2>2 DEF Recover
<1>5. CASE Hold(h)
  BY <1>5, LeaveQuiet, QuietStep DEF IInv, Hold, rowVars
<1>6. QED
  BY <1>1, <1>2, <1>3, <1>4, <1>5 DEF Reconcile

-----------------------------------------------------------------------------
(* The inductive invariant                                                  *)

\* Nothing is asked for or booked in the beginning.
LEMMA InitIInv == Init => IInv
<1> SUFFICES ASSUME Init PROVE IInv
  OBVIOUS
<1>1. TypeOK
  <2>1. ~expired /\ expired \in BOOLEAN /\ held \in BOOLEAN /\ disputed \in BOOLEAN
    BY Zenon DEF Init
  <2>2. auditing \in [Callers -> BOOLEAN]
    BY DEF Init
  <2>3. bookings \in Nat /\ posts \in Nat /\ abandons \in 0 .. MaxAbandons
    BY ExecutionParameters DEF Init
  <2>4. /\ moved \in [Own -> {"none", "pending", "succeeded", "failed"}]
        /\ travelling \subseteq Callers
        /\ answer \in [Callers -> References \cup {None}]
        /\ phase \in [Callers -> {"idle", "found", "holding", "claiming", "posting", "waiting", "binding",
                       "reading", "settling", "failing", "retrieving", "comparing"}]
        /\ reference \in [Callers -> References \cup {None}]
        /\ charged \in [Callers -> Nat]
    BY DEF Init
  <2>5. /\ opState = "PREPARED" /\ adjusted \subseteq Foreign
        /\ bound = None /\ settlement = None
    BY DEF Init
  <2>6. QED
    BY <2>1, <2>2, <2>3, <2>4, <2>5 DEF TypeOK
<1>2. OneDispatch /\ Evidence
  BY DEF Init, OneDispatch, Evidence
<1>3. BookedIsMoved /\ BookedOnce /\ HintsNeverBind /\ (opState = "SUCCEEDED" => settlement # None)
  BY DEF Init, BookedIsMoved, BookedOnce, HintsNeverBind
<1>4. QED
  BY <1>1, <1>2, <1>3 DEF IInv

\* Every step keeps the invariant.
LEMMA NextIInv == IInv /\ [Next]_vars => IInv'
<1> SUFFICES ASSUME IInv, [Next]_vars PROVE IInv'
  OBVIOUS
<1>1. TypeOK'
  BY NextTypes DEF IInv
<1>2. ASSUME NEW c \in Callers, Step(c) PROVE IInv'
  BY <1>1, <1>2, StepStep
<1>3. ASSUME NEW c \in Callers, Reject(c) PROVE IInv'
  BY <1>1, <1>3, QuietStep DEF Reject, rowVars, bookVars, callVars
<1>4. ASSUME NEW c \in Callers, Abandon(c) PROVE IInv'
  BY <1>1, <1>4, LeaveQuiet, QuietStep DEF IInv, Abandon, rowVars, bookVars
<1>5. CASE \/ \E a \in Admins, hint \in References \cup {None} : AdminExecute(a, hint)
           \/ \E h \in Hooks, r \in References : RefundWebhook(h, r)
           \/ \E h \in Hooks : ChargeWebhook(h) \/ DisputeWebhook(h)
  BY <1>1, <1>5, BeginStep
<1>6. ASSUME NEW h \in Hooks, Reconcile(h) PROVE IInv'
  BY <1>1, <1>6, ReconcileStep DEF Callers
<1>7. ASSUME NEW r \in Foreign, RefundElsewhere(r) PROVE IInv'
  BY <1>1, <1>7, QuietStep DEF RefundElsewhere, rowVars, bookVars, callVars
<1>8. CASE Dispute
  BY <1>1, <1>8, QuietStep DEF Dispute, rowVars, bookVars, callVars
<1>9. ASSUME NEW c \in Callers, NEW r \in Own, Accept(c, r) PROVE IInv'
  BY <1>1, <1>9, AcceptStep
<1>10. ASSUME NEW r \in Own, NEW outcome \in {"succeeded", "failed"}, Conclude(r, outcome)
       PROVE  IInv'
  BY <1>1, <1>10, ConcludeStep
<1>11. CASE Expire
  BY <1>1, <1>11, QuietStep DEF Expire, bookVars, providerVars, callVars
<1>12. CASE Quarantine
  BY <1>1, <1>12, QuietStep DEF Quarantine, bookVars, providerVars, callVars
<1>13. CASE UNCHANGED vars
  BY <1>1, <1>13, QuietStep DEF vars, rowVars, bookVars, providerVars, callVars
<1>14. QED
  BY <1>2, <1>3, <1>4, <1>5, <1>6, <1>7, <1>8, <1>9, <1>10, <1>11, <1>12, <1>13
     DEF Next

\* Every reachable state of a refund's execution satisfies the invariant,
\* however many callers, references and crashes there are.
THEOREM Inductive == Spec => []IInv
<1>1. QED
  BY InitIInv, NextIInv, PTL DEF Spec

\* Rows and local variables keep their types and the operation the shape that
\* the constraints of its table demand.
THEOREM TypeCorrect == Spec => []TypeOK
<1>1. IInv => TypeOK
  BY DEF IInv
<1>2. QED
  BY <1>1, Inductive, PTL

\* The provider is asked for a refund at most once.
THEOREM DispatchedOnce == Spec => []PostedOnce
<1>1. IInv => PostedOnce
  BY DEF IInv, OneDispatch, PostedOnce
<1>2. QED
  BY <1>1, Inductive, PTL

\* What is booked is a refund of ours whose money has moved, under the
\* reference the operation ended with.
THEOREM MovedIsBooked == Spec => []BookedIsMoved
<1>1. IInv => BookedIsMoved
  BY DEF IInv
<1>2. QED
  BY <1>1, Inductive, PTL

\* A refund is booked once.
THEOREM SettledOnce == Spec => []BookedOnce
<1>1. IInv => BookedOnce
  BY DEF IInv
<1>2. QED
  BY <1>1, Inductive, PTL

\* A mistyped reference is never bound.
THEOREM ReferenceIsOurs == Spec => []HintsNeverBind
<1>1. IInv => HintsNeverBind
  BY DEF IInv
<1>2. QED
  BY <1>1, Inductive, PTL

-----------------------------------------------------------------------------
(* What steps never do                                                      *)

\* A bound reference is only ever bound or booked again as it is.
LEMMA Forward ==
  ASSUME TypeOK, [Next]_vars
  PROVE  /\ StateOrder[opState'] >= StateOrder[opState]
         /\ bound # None => bound' = bound
<1>1. ASSUME UNCHANGED <<opState, bound>>
      PROVE  StateOrder[opState'] >= StateOrder[opState] /\ (bound # None => bound' = bound)
  BY <1>1 DEF TypeOK, StateOrder
<1>2. ASSUME NEW c \in Callers, Claim(c)
      PROVE  StateOrder[opState'] >= StateOrder[opState] /\ (bound # None => bound' = bound)
  BY <1>2 DEF Claim, Dispatchable, StateOrder
<1>3. ASSUME NEW c \in Callers, Bind(c)
      PROVE  StateOrder[opState'] >= StateOrder[opState] /\ (bound # None => bound' = bound)
  BY <1>3 DEF TypeOK, Bind, StateOrder
<1>4. ASSUME NEW c \in Callers, Settle(c)
      PROVE  StateOrder[opState'] >= StateOrder[opState] /\ (bound # None => bound' = bound)
  BY <1>4 DEF Settle, Unresolved, StateOrder
<1>5. ASSUME NEW c \in Callers, Fail(c)
      PROVE  StateOrder[opState'] >= StateOrder[opState] /\ (bound # None => bound' = bound)
  BY <1>5 DEF TypeOK, Fail, StateOrder
<1>6. CASE Quarantine
  BY <1>6 DEF Quarantine, StateOrder
<1>7. ASSUME NEW c \in Callers, Step(c)
      PROVE  Claim(c) \/ Bind(c) \/ Settle(c) \/ Fail(c) \/ UNCHANGED <<opState, bound>>
  BY <1>7 DEF Step, ClaimNothing, Post, PostRefused, Receive, StopWaiting, ReadEvidence,
     ReadFails, SettleNothing, rowVars
<1>8. ASSUME NEW c \in Callers, Reject(c) \/ Abandon(c)
      PROVE  UNCHANGED <<opState, bound>>
  BY <1>8 DEF Reject, Abandon, rowVars
<1>9. ASSUME NEW h \in Hooks, ChargeWebhook(h) \/ DisputeWebhook(h) \/ Reconcile(h)
      PROVE  UNCHANGED <<opState, bound>>
  BY <1>9 DEF ChargeWebhook, DisputeWebhook, Reconcile, Recover, Hold, Retrieve, RetrieveFails,
     Compare, rowVars
<1>10. ASSUME NEW c, NEW hint, AdminExecute(c, hint) \/ RefundWebhook(c, hint)
       PROVE  UNCHANGED <<opState, bound>>
  BY <1>10 DEF AdminExecute, RefundWebhook, rowVars
<1>11. ASSUME NEW c, NEW r, NEW outcome,
              Accept(c, r) \/ Conclude(r, outcome) \/ RefundElsewhere(r) \/ Dispute \/ Expire
       PROVE  UNCHANGED <<opState, bound>>
  BY <1>11 DEF Accept, Conclude, RefundElsewhere, Dispute, Expire, rowVars
<1>12. CASE UNCHANGED vars
  BY <1>12, <1>1 DEF vars, rowVars
<1>13. QED
  BY <1>1, <1>2, <1>3, <1>4, <1>5, <1>6, <1>7, <1>8, <1>9, <1>10, <1>11, <1>12 DEF Next

\* States only go forward, and a bound reference stays.
THEOREM NeverBack == Spec => NoReturn
<1>1. TypeOK /\ [Next]_vars => [/\ StateOrder[opState'] >= StateOrder[opState]
                                /\ bound # None => bound' = bound]_vars
  BY Forward
<1>2. QED
  BY <1>1, TypeCorrect, PTL DEF Spec, NoReturn
-----------------------------------------------------------------------------
(* One request to the provider                                              *)

\* The provider gets one POST and makes at most one refund of it.
OneRefund ==
    /\ posts = 0 => travelling = {} /\ Made = {}
    /\ travelling # {} => Made = {}
    /\ \A c, d \in travelling : c = d
    /\ \A q, r \in Made : q = r

\* Posting is for the one that was given the claim, before anything is made.
LEMMA NextOneRefund ==
  ASSUME IInv, OneRefund, [Next]_vars
  PROVE  OneRefund'
<1>1. ASSUME UNCHANGED <<moved, travelling, posts>> PROVE OneRefund'
  BY <1>1 DEF OneRefund, Made
<1>2. ASSUME NEW c \in Callers, Post(c) PROVE OneRefund'
  BY <1>2 DEF IInv, TypeOK, OneDispatch, OneRefund, Made, Post
<1>3. ASSUME NEW c \in Callers, Reject(c) PROVE OneRefund'
  BY <1>3 DEF OneRefund, Made, Reject
<1>4. ASSUME NEW c \in Callers, NEW r \in Own, Accept(c, r) PROVE OneRefund'
  <2>1. Made' = {r} /\ travelling' = {}
    BY <1>4 DEF IInv, TypeOK, OneRefund, Made, Accept
  <2>2. posts' = posts /\ posts # 0
    BY <1>4 DEF OneRefund, Accept
  <2>3. QED
    BY <2>1, <2>2 DEF OneRefund
<1>5. ASSUME NEW r \in Own, NEW outcome \in {"succeeded", "failed"}, Conclude(r, outcome)
      PROVE  OneRefund'
  <2>1. Made' = Made
    BY <1>5 DEF IInv, TypeOK, Made, Conclude
  <2>2. QED
    BY <1>5, <2>1 DEF OneRefund, Conclude
<1>6. ASSUME NEW c \in Callers, Step(c), ~Post(c) PROVE OneRefund'
  BY <1>1, <1>6 DEF Step, Claim, ClaimNothing, PostRefused, Receive, StopWaiting, Bind,
     ReadEvidence, ReadFails, SettleNothing, Settle, Fail, providerVars
<1>7. ASSUME NEW c, NEW hint, AdminExecute(c, hint) \/ RefundWebhook(c, hint) \/ Abandon(c)
      PROVE  OneRefund'
  BY <1>1, <1>7 DEF AdminExecute, RefundWebhook, Abandon, providerVars
<1>8. ASSUME NEW h, ChargeWebhook(h) \/ DisputeWebhook(h) \/ Reconcile(h)
      PROVE  OneRefund'
  BY <1>1, <1>8 DEF ChargeWebhook, DisputeWebhook, Reconcile, Recover, Hold, Retrieve,
     RetrieveFails, Compare, providerVars
<1>9. ASSUME NEW r, RefundElsewhere(r) PROVE OneRefund'
  BY <1>1, <1>9 DEF RefundElsewhere
<1>10. CASE Dispute \/ Expire \/ Quarantine \/ UNCHANGED vars
  BY <1>1, <1>10 DEF Dispute, Expire, Quarantine, vars, providerVars
<1>11. QED
  BY <1>2, <1>3, <1>4, <1>5, <1>6, <1>7, <1>8, <1>9, <1>10 DEF Next

\* Refunds whose money has moved.
Succeeded == {r \in Own : Paid(r)}

\* A step that changes neither the stage, nor a refund, nor the books.
LEMMA SameRequest ==
  ASSUME IInv, UNCHANGED <<moved, settlement, bookings>>,
         opState' # opState => opState = "DISPATCHED" /\ opState' = "NEEDS_RECONCILIATION"
  PROVE  UNCHANGED Request!vars
BY DEF Request!vars, Stage, Made, Paid

\* What an execution does by itself: it asks, it books, or it leaves the
\* request as it is.
LEMMA StepRefines ==
  ASSUME IInv, NEW c \in Callers, Step(c)
  PROVE  Request!Next \/ UNCHANGED Request!vars
<1>1. CASE Claim(c)
  <2>1. Stage = "prepared" /\ Stage' = "asked"
    BY <1>1 DEF Claim, Dispatchable, Stage
  <2>2. UNCHANGED <<moved, settlement, bookings>>
    BY <1>1 DEF Claim, bookVars, providerVars
  <2>3. Request!Ask
    BY <2>1, <2>2 DEF Request!Ask, Made, Paid
  <2>4. QED
    BY <2>3 DEF Request!Next
<1>2. CASE Settle(c)
  <2>1. Stage = "asked" /\ Stage' = "recorded"
    BY <1>2 DEF Settle, Unresolved, Stage
  <2>2. reference[c] \in Own /\ moved[reference[c]] = "succeeded"
    BY <1>2 DEF IInv, Evidence, Paid, Settle
  <2>3. settlement' = reference[c] /\ bookings' = bookings + 1 /\ moved' = moved
    BY <1>2 DEF Settle
  <2>4. Request!Record(reference[c])
    BY <2>1, <2>2, <2>3 DEF Request!Record, Made, Paid
  <2>5. QED
    BY <2>2, <2>4 DEF Request!Next
<1>3. CASE ~Claim(c) /\ ~Settle(c)
  <2>1. UNCHANGED <<moved, settlement, bookings>>
    BY <1>3 DEF Step, ClaimNothing, Post, PostRefused, Receive, StopWaiting, Bind, ReadEvidence,
       ReadFails, SettleNothing, Fail, bookVars, providerVars
  <2>2. opState' # opState => opState = "DISPATCHED" /\ opState' = "NEEDS_RECONCILIATION"
    BY <1>3 DEF Step, ClaimNothing, Post, PostRefused, Receive, StopWaiting, Bind, ReadEvidence,
       ReadFails, SettleNothing, Fail, rowVars
  <2>3. QED
    BY <2>1, <2>2, SameRequest
<1>4. QED
  BY <1>1, <1>2, <1>3

\* The provider makes the refund of the one POST, when nothing is booked yet.
LEMMA AcceptRefines ==
  ASSUME IInv, OneRefund, NEW c \in Callers, NEW r \in Own, Accept(c, r)
  PROVE  Request!Next
<1>1. Made = {} /\ Made' = {r}
  BY DEF IInv, TypeOK, OneRefund, Made, Accept
<1>2. Succeeded = {} /\ Succeeded' = {}
  BY <1>1 DEF IInv, TypeOK, Succeeded, Paid, Made, Accept
<1>3. opState # "PREPARED"
  BY DEF IInv, OneDispatch, OneRefund, Accept
<1>4. opState # "SUCCEEDED"
  BY <1>1 DEF IInv, BookedIsMoved, Made
<1>5. Stage = "asked" /\ UNCHANGED <<Stage, settlement, bookings>>
  BY <1>3, <1>4 DEF Stage, Accept, rowVars, bookVars
<1>6. Request!Make(r)
  BY <1>1, <1>2, <1>5 DEF Request!Make, Succeeded
<1>7. QED
  BY <1>6 DEF Request!Next

\* Its money moves, or the refund fails for good.
LEMMA ConcludeRefines ==
  ASSUME IInv, NEW r \in Own, NEW outcome \in {"succeeded", "failed"}, Conclude(r, outcome)
  PROVE  Request!Next \/ UNCHANGED Request!vars
<1>1. Made' = Made /\ UNCHANGED <<Stage, settlement, bookings>>
  BY DEF IInv, TypeOK, Made, Conclude, Stage, rowVars, bookVars
<1>2. CASE outcome = "succeeded"
  <2>1. r \in Made \ Succeeded /\ Succeeded' = Succeeded \cup {r}
    BY <1>2 DEF IInv, TypeOK, Made, Succeeded, Paid, Conclude
  <2>2. Request!TakeEffect(r)
    BY <1>1, <2>1 DEF Request!TakeEffect, Succeeded
  <2>3. QED
    BY <2>2 DEF Request!Next
<1>3. CASE outcome = "failed"
  <2>1. Succeeded' = Succeeded
    BY <1>3 DEF IInv, TypeOK, Succeeded, Paid, Conclude
  <2>2. QED
    BY <1>1, <2>1 DEF Request!vars, Succeeded
<1>4. QED
  BY <1>2, <1>3

\* Every step of the executions is a step of the abstract request, or none.
LEMMA NextRefines ==
  ASSUME IInv, OneRefund, [Next]_vars
  PROVE  Request!Next \/ UNCHANGED Request!vars
<1>1. ASSUME NEW c, NEW hint, AdminExecute(c, hint) \/ RefundWebhook(c, hint) \/ Abandon(c)
      PROVE  UNCHANGED Request!vars
  BY <1>1, SameRequest DEF AdminExecute, RefundWebhook, Abandon, rowVars, bookVars, providerVars
<1>2. ASSUME NEW h, ChargeWebhook(h) \/ DisputeWebhook(h) \/ Reconcile(h)
      PROVE  UNCHANGED Request!vars
  BY <1>2, SameRequest DEF ChargeWebhook, DisputeWebhook, Reconcile, Recover, Hold, Retrieve,
     RetrieveFails, Compare, rowVars, bookVars, providerVars
<1>3. ASSUME NEW c, Reject(c) PROVE UNCHANGED Request!vars
  BY <1>3, SameRequest DEF Reject, rowVars, bookVars
<1>4. ASSUME NEW r, RefundElsewhere(r) PROVE UNCHANGED Request!vars
  BY <1>4, SameRequest DEF RefundElsewhere, rowVars, bookVars
<1>5. CASE Dispute \/ Expire \/ Quarantine \/ UNCHANGED vars
  BY <1>5, SameRequest DEF Dispute, Expire, Quarantine, vars, rowVars, bookVars, providerVars
<1>6. QED
  BY <1>1, <1>2, <1>3, <1>4, <1>5, StepRefines, AcceptRefines, ConcludeRefines DEF Next

\* executeEconomicRefund and its webhooks are, whatever goes wrong between
\* them, one request that the provider answers with at most one refund, booked
\* once and after its money has moved.
THEOREM Refines == Spec => RequestPromise
<1>1. Init => OneRefund
  BY DEF Init, OneRefund, Made
<1>2. Spec => []OneRefund
  BY <1>1, NextOneRefund, Inductive, PTL DEF Spec
<1>3. Init => Request!Init
  BY DEF Init, Request!Init, Stage, Made, Paid
<1>4. IInv /\ OneRefund /\ [Next]_vars => [Request!Next]_<<Stage, Made, Succeeded, settlement, bookings>>
  BY NextRefines DEF Request!vars, Succeeded
<1>5. QED
  BY Inductive, <1>2, <1>3, <1>4, PTL DEF Spec, RequestPromise, Request!Spec, Request!vars, Succeeded
=============================================================================
