------------------------- MODULE EconomicOutbox_proofs -------------------------
(***************************************************************************)
(* The safety of the outbox for any number of workers, events, attempts    *)
(* and crashes: an effect runs once, a lease has one owner, nothing is     *)
(* acknowledged without effect, and refunds close the order together.      *)
(***************************************************************************)
EXTENDS EconomicOutbox, MinorUnits_proofs, TLAPS

\* Rows that were not appended are fresh, and nobody works on them.  A worker
\* holds an attempt of the past or the present, never one of the future, and
\* acknowledges only what took effect.
Leases ==
    /\ \A e \in Events : state[e] = "NONE" => e \notin consumed /\ attempts[e] = 0
    /\ \A w \in Workers :
          Working(w) => held[w].attempt <= attempts[held[w].event]
    /\ \A w \in Workers :
          phase[w] = "claiming" \/ Working(w) => state[held[w].event] # "NONE"
    /\ \A w \in Workers : phase[w] = "publishing" => held[w].event \in consumed

\* Who ran the effect of an event, if it ran; what is projected took effect.
Effects ==
    /\ \A e \in Events : e \notin consumed => runs[e] = <<>>
    /\ \A e \in consumed : runs[e] = <<"worker">> \/ runs[e] = <<"recovery">>
    /\ \A e \in Events : notices[e] = IF e \in notified THEN 1 ELSE 0
    /\ notified \subseteq consumed
    /\ \A w \in Workers : todo[w] \subseteq consumed

RowInv == TypeOK /\ Leases /\ Effects /\ PublishedIsApplied /\ RecoveryTruthful
              /\ LeaseExclusive /\ NoStrandedRow

IInv == RowInv /\ RefundClosesOrder

-----------------------------------------------------------------------------
\* What consuming an event does: its effect is recorded under the name of who
\* ran it first, and a closed order stays closed.
LEMMA ConsumeEffect ==
  ASSUME TypeOK, Effects, NEW e \in Events, NEW who \in {"worker", "recovery"},
         ConsumeOnce(e, who)
  PROVE  /\ consumed' = consumed \cup {e}
         /\ runs' = IF e \in consumed THEN runs ELSE [runs EXCEPT ![e] = <<who>>]
         /\ order' \in {"PENDING_PAYMENT", "CONFIRMED"} \cup Closed
         /\ payment' \in {"PENDING", "PAID", "REFUNDED"}
         /\ order \in Closed => order' \in Closed
<1>1. CASE e \in consumed
  BY <1>1 DEF ConsumeOnce, effectVars, TypeOK
<1>2. CASE e \notin consumed
  <2>1. RunEffect(e, who) /\ runs[e] = <<>>
    BY <1>2 DEF ConsumeOnce, Effects
  <2>2. Append(<<>>, who) = <<who>>
    OBVIOUS
  <2>3. runs' = [runs EXCEPT ![e] = <<who>>]
    BY <2>1, <2>2 DEF RunEffect
  <2>4. QED
    BY <1>2, <2>1, <2>3 DEF RunEffect, EffectAllowed, Closed, TypeOK
<1>3. QED
  BY <1>1, <1>2

LEMMA InitInv == Init => RowInv
<1> SUFFICES ASSUME Init PROVE RowInv
  OBVIOUS
<1>1. <<>> \in Seq({"worker", "recovery"}) /\ <<>> # <<"recovery">>
  OBVIOUS
<1>2. CaptureEvent \in Events
  BY DEF Events
<1>3. QED
  BY <1>1, <1>2, OutboxParameters
     DEF Init, RowInv, TypeOK, Leases, Effects, PublishedIsApplied, RecoveryTruthful,
         LeaseExclusive, NoStrandedRow, Working, OwnsRow, Nothing, Phases, Closed

\* Appending an event, and the cancellation of the order.
LEMMA ProducerInv ==
  ASSUME RowInv, BookCapture \/ (\E r \in RefundEvents : SettleRefund(r)) \/ CancelOrder
  PROVE  RowInv'
<1> USE OutboxParameters
    DEF RowInv, Closed,
        recordVars, workVars, rowVars, effectVars
<1>1. CASE BookCapture
  <2>1. AppendRow(CaptureEvent) /\ CaptureEvent \in Events
    BY <1>1 DEF BookCapture, Events
  <2>t. TypeOK'
    BY <1>1, <2>1 DEF BookCapture, AppendRow, TypeOK, Closed, Phases
  <2>l. Leases'
    BY <1>1, <2>1 DEF BookCapture, AppendRow, TypeOK, Leases, Working, OwnsRow
  <2>e. Effects'
    BY <1>1, <2>1 DEF BookCapture, AppendRow, TypeOK, Leases, Effects
  <2>p. PublishedIsApplied' /\ RecoveryTruthful'
    BY <1>1, <2>1 DEF BookCapture, AppendRow, TypeOK, Leases, Effects, PublishedIsApplied, RecoveryTruthful, OwnsRow
  <2>x. LeaseExclusive' /\ NoStrandedRow'
    BY <1>1, <2>1 DEF BookCapture, AppendRow, TypeOK, Leases, LeaseExclusive, NoStrandedRow, Working, OwnsRow
  <2> QED
    BY <2>t, <2>l, <2>e, <2>p, <2>x
<1>2. CASE \E r \in RefundEvents : SettleRefund(r)
  <2>1. PICK r \in Events : AppendRow(r) /\ UNCHANGED <<effectVars, recordVars, workVars, abandons>>
    BY <1>2 DEF SettleRefund, Events
  <2>t. TypeOK'
    BY <2>1 DEF AppendRow, TypeOK, Closed, Phases
  <2>l. Leases'
    BY <2>1 DEF AppendRow, TypeOK, Leases, Working, OwnsRow
  <2>e. Effects'
    BY <2>1 DEF AppendRow, TypeOK, Leases, Effects
  <2>p. PublishedIsApplied' /\ RecoveryTruthful'
    BY <2>1 DEF AppendRow, TypeOK, Leases, Effects, PublishedIsApplied, RecoveryTruthful, OwnsRow
  <2>x. LeaseExclusive' /\ NoStrandedRow'
    BY <2>1 DEF AppendRow, TypeOK, Leases, LeaseExclusive, NoStrandedRow, Working, OwnsRow
  <2> QED
    BY <2>t, <2>l, <2>e, <2>p, <2>x
<1>3. CASE CancelOrder
  <2>t. TypeOK'
    BY <1>3 DEF CancelOrder, TypeOK, Closed, Phases
  <2>l. Leases'
    BY <1>3 DEF CancelOrder, TypeOK, Leases, Working, OwnsRow
  <2>e. Effects'
    BY <1>3 DEF CancelOrder, TypeOK, Leases, Effects
  <2>p. PublishedIsApplied' /\ RecoveryTruthful'
    BY <1>3 DEF CancelOrder, TypeOK, Leases, Effects, PublishedIsApplied, RecoveryTruthful, OwnsRow
  <2>x. LeaseExclusive' /\ NoStrandedRow'
    BY <1>3 DEF CancelOrder, TypeOK, Leases, LeaseExclusive, NoStrandedRow, Working, OwnsRow
  <2> QED
    BY <2>t, <2>l, <2>e, <2>p, <2>x
<1>4. QED
  BY <1>1, <1>2, <1>3

\* The first part of a tick: quarantine and notifications.
LEMMA ScanInv ==
  ASSUME RowInv, NEW w \in Workers,
         \/ StartTick(w) \/ ScanUnnotified(w) \/ StartPolling(w) \/ EndTick(w)
         \/ \E e \in Events : ProjectNotification(w, e) \/ SkipNotification(w, e)
  PROVE  RowInv'
<1> USE DEF RowInv, TypeOK, Leases, Effects, PublishedIsApplied, RecoveryTruthful,
        LeaseExclusive, NoStrandedRow, Working, OwnsRow, Closed, Move, Phases,
        recordVars, workVars, rowVars, effectVars
<1>1. CASE StartTick(w)
  BY <1>1 DEF StartTick
<1>2. CASE ScanUnnotified(w)
  BY <1>2 DEF ScanUnnotified
<1>3. CASE StartPolling(w)
  BY <1>3 DEF StartPolling
<1>4. CASE EndTick(w)
  BY <1>4 DEF EndTick
<1>5. ASSUME NEW e \in Events, ProjectNotification(w, e) PROVE RowInv'
  <2>1. /\ UNCHANGED <<state, attempts, due, consumed, runs, order, payment, recovery,
                       phase, held, inTime, abandons>>
        /\ e \in consumed
        /\ todo' = [todo EXCEPT ![w] = @ \ {e}]
    BY <1>5 DEF ProjectNotification
  <2>2. notified' = notified \cup {e}
        /\ notices' = [x \in Events |-> IF x \in notified' THEN 1 ELSE 0]
    BY <1>5, <2>1 DEF ProjectNotification
  <2>3. TypeOK'
    BY <2>1, <2>2
  <2>4. Effects'
    BY <2>1, <2>2
  <2>5. (Leases /\ PublishedIsApplied /\ RecoveryTruthful /\ LeaseExclusive /\ NoStrandedRow)'
    BY <2>1
  <2>6. QED
    BY <2>3, <2>4, <2>5
<1>6. CASE \E e \in Events : SkipNotification(w, e)
  BY <1>6 DEF SkipNotification
<1>7. QED
  BY <1>1, <1>2, <1>3, <1>4, <1>5, <1>6

\* A worker's record of what it holds keeps its type under a new attempt.
LEMMA AttemptType ==
  ASSUME NEW A, NEW r \in [event : Events, attempt : A], NEW x \in A
  PROVE  [r EXCEPT !.attempt = x] \in [event : Events, attempt : A]
OBVIOUS

\* Finding and claiming a row.  The claim starts a new attempt, so whoever
\* worked on the row before does not own it any more.
LEMMA ClaimInv ==
  ASSUME RowInv, NEW w \in Workers,
         \/ \E e \in Events : Poll(w, e)
         \/ Claim(w) \/ LoseClaim(w) \/ AbandonTick(w)
  PROVE  RowInv'
<1>n. Nothing \in [event : Events, attempt : 0..MaxAttempts]
  BY OutboxParameters DEF Nothing, Events
<1> USE OutboxParameters
    DEF RowInv, Move,
        Forget, Claimable, recordVars, workVars, rowVars, effectVars
<1>1. CASE \E e \in Events : Poll(w, e)
  <2>t. TypeOK'
    BY <1>1 DEF Poll, TypeOK, Closed, Phases
  <2>l. Leases'
    BY <1>1 DEF Poll, TypeOK, Leases, Working, OwnsRow
  <2>e. Effects'
    BY <1>1 DEF Poll, TypeOK, Leases, Effects
  <2>p. PublishedIsApplied' /\ RecoveryTruthful'
    BY <1>1 DEF Poll, TypeOK, Leases, Effects, PublishedIsApplied, RecoveryTruthful, OwnsRow
  <2>x. LeaseExclusive' /\ NoStrandedRow'
    BY <1>1 DEF Poll, TypeOK, Leases, LeaseExclusive, NoStrandedRow, Working, OwnsRow
  <2> QED
    BY <2>t, <2>l, <2>e, <2>p, <2>x
<1>2. CASE Claim(w)
  <2>1. held[w].event \in Events /\ attempts[held[w].event] + 1 \in 0..MaxAttempts
    BY <1>2 DEF Claim, TypeOK
  <2>2. held[w] \in [event : Events, attempt : 0..MaxAttempts]
        /\ attempts'[held[w].event] \in 0..MaxAttempts
    BY <1>2, <2>1 DEF Claim, TypeOK
  <2>3. [held[w] EXCEPT !.attempt = attempts'[held[w].event]]
           \in [event : Events, attempt : 0..MaxAttempts]
    BY <2>2, AttemptType
  <2>4. held' \in [Workers -> [event : Events, attempt : 0..MaxAttempts]]
    BY <1>2, <2>3 DEF Claim, TypeOK
  <2>t. TypeOK'
    BY <1>2, <2>1, <2>4 DEF Claim, TypeOK, Phases
  <2>l. Leases'
    BY <1>2 DEF Claim, TypeOK, Leases, Working, OwnsRow
  <2>e. Effects'
    BY <1>2 DEF Claim, TypeOK, Leases, Effects
  <2>p. PublishedIsApplied' /\ RecoveryTruthful'
    BY <1>2 DEF Claim, TypeOK, Leases, Effects, PublishedIsApplied, RecoveryTruthful, OwnsRow
  <2>x. LeaseExclusive' /\ NoStrandedRow'
    BY <1>2 DEF Claim, TypeOK, Leases, LeaseExclusive, NoStrandedRow, Working, OwnsRow
  <2> QED
    BY <2>t, <2>l, <2>e, <2>p, <2>x
<1>3. CASE LoseClaim(w)
  <2>t. TypeOK'
    BY <1>3, <1>n DEF LoseClaim, TypeOK, Closed, Phases
  <2>l. Leases'
    BY <1>3, <1>n DEF LoseClaim, TypeOK, Leases, Working, OwnsRow
  <2>e. Effects'
    BY <1>3, <1>n DEF LoseClaim, TypeOK, Leases, Effects
  <2>p. PublishedIsApplied' /\ RecoveryTruthful'
    BY <1>3, <1>n DEF LoseClaim, TypeOK, Leases, Effects, PublishedIsApplied, RecoveryTruthful, OwnsRow
  <2>x. LeaseExclusive' /\ NoStrandedRow'
    BY <1>3, <1>n DEF LoseClaim, TypeOK, Leases, LeaseExclusive, NoStrandedRow, Working, OwnsRow
  <2> QED
    BY <2>t, <2>l, <2>e, <2>p, <2>x
<1>4. CASE AbandonTick(w)
  <2>t. TypeOK'
    BY <1>4, <1>n DEF AbandonTick, TypeOK, Closed, Phases
  <2>l. Leases'
    BY <1>4, <1>n DEF AbandonTick, TypeOK, Leases, Working, OwnsRow
  <2>e. Effects'
    BY <1>4, <1>n DEF AbandonTick, TypeOK, Leases, Effects
  <2>p. PublishedIsApplied' /\ RecoveryTruthful'
    BY <1>4, <1>n DEF AbandonTick, TypeOK, Leases, Effects, PublishedIsApplied, RecoveryTruthful, OwnsRow
  <2>x. LeaseExclusive' /\ NoStrandedRow'
    BY <1>4, <1>n DEF AbandonTick, TypeOK, Leases, LeaseExclusive, NoStrandedRow, Working, OwnsRow
  <2> QED
    BY <2>t, <2>l, <2>e, <2>p, <2>x
<1>5. QED
  BY <1>1, <1>2, <1>3, <1>4

\* Running the effect, by a worker or by the recovery of a DEAD event.
LEMMA ConsumeInv ==
  ASSUME RowInv,
         \/ \E w \in Workers : \/ \E next \in {"publishing", "releasing"} : Consume(w, next)
                               \/ ConsumeFails(w)
         \/ \E e \in Events : Recover(e) \/ TimePasses(e)
  PROVE  RowInv'
<1>s. <<"worker">> \in Seq({"worker", "recovery"}) /\ <<"recovery">> \in Seq({"worker", "recovery"})
      /\ <<"worker">> # <<"recovery">> /\ <<>> # <<"recovery">>
  OBVIOUS
<1> USE DEF RowInv, Move, ReadClock,
        recordVars, workVars, rowVars, effectVars
<1>1. ASSUME NEW w \in Workers, NEW next \in {"publishing", "releasing"}, Consume(w, next)
      PROVE  RowInv'
  <2> DEFINE e == held[w].event
  <2>1. e \in Events /\ ConsumeOnce(e, "worker")
    BY <1>1 DEF Consume, TypeOK
  <2>2. /\ consumed' = consumed \cup {e}
        /\ runs' = IF e \in consumed THEN runs ELSE [runs EXCEPT ![e] = <<"worker">>]
        /\ order' \in {"PENDING_PAYMENT", "CONFIRMED"} \cup Closed
        /\ payment' \in {"PENDING", "PAID", "REFUNDED"}
    BY <2>1, ConsumeEffect
  <2>t. TypeOK'
    BY <1>1, <1>s, <2>1, <2>2 DEF Consume, TypeOK, Closed, Phases
  <2>l. Leases'
    BY <1>1, <1>s, <2>1, <2>2 DEF Consume, TypeOK, Leases, Working, OwnsRow
  <2>3. UNCHANGED <<notices, notified, todo>>
    BY <1>1 DEF Consume
  <2>e. Effects'
    <3> HIDE DEF e
    <3> QED
      BY <2>1, <2>2, <2>3 DEF TypeOK, Effects
  <2>p. PublishedIsApplied' /\ RecoveryTruthful'
    BY <1>1, <1>s, <2>1, <2>2 DEF Consume, TypeOK, Leases, Effects, PublishedIsApplied, RecoveryTruthful, OwnsRow
  <2>x. LeaseExclusive' /\ NoStrandedRow'
    BY <1>1, <1>s, <2>1, <2>2 DEF Consume, TypeOK, Leases, LeaseExclusive, NoStrandedRow, Working, OwnsRow
  <2> QED
    BY <2>t, <2>l, <2>e, <2>p, <2>x
<1>2. ASSUME NEW w \in Workers, ConsumeFails(w) PROVE RowInv'
  <2>t. TypeOK'
    BY <1>2 DEF ConsumeFails, TypeOK, Closed, Phases
  <2>l. Leases'
    BY <1>2 DEF ConsumeFails, TypeOK, Leases, Working, OwnsRow
  <2>e. Effects'
    BY <1>2 DEF ConsumeFails, TypeOK, Leases, Effects
  <2>p. PublishedIsApplied' /\ RecoveryTruthful'
    BY <1>2 DEF ConsumeFails, TypeOK, Leases, Effects, PublishedIsApplied, RecoveryTruthful, OwnsRow
  <2>x. LeaseExclusive' /\ NoStrandedRow'
    BY <1>2 DEF ConsumeFails, TypeOK, Leases, LeaseExclusive, NoStrandedRow, Working, OwnsRow
  <2> QED
    BY <2>t, <2>l, <2>e, <2>p, <2>x
<1>3. ASSUME NEW e \in Events, Recover(e) PROVE RowInv'
  <2>1. ConsumeOnce(e, "recovery")
    BY <1>3 DEF Recover
  <2>2. /\ consumed' = consumed \cup {e}
        /\ runs' = IF e \in consumed THEN runs ELSE [runs EXCEPT ![e] = <<"recovery">>]
        /\ order' \in {"PENDING_PAYMENT", "CONFIRMED"} \cup Closed
        /\ payment' \in {"PENDING", "PAID", "REFUNDED"}
    BY <2>1, ConsumeEffect
  <2>t. TypeOK'
    BY <1>3, <1>s, <2>1, <2>2 DEF Recover, TypeOK, Closed, Phases
  <2>l. Leases'
    BY <1>3, <1>s, <2>1, <2>2 DEF Recover, TypeOK, Leases, Working, OwnsRow
  <2>e. Effects'
    BY <1>3, <1>s, <2>1, <2>2 DEF Recover, TypeOK, Leases, Effects
  <2>p. PublishedIsApplied' /\ RecoveryTruthful'
    BY <1>3, <1>s, <2>1, <2>2 DEF Recover, TypeOK, Leases, Effects, PublishedIsApplied, RecoveryTruthful, OwnsRow
  <2>x. LeaseExclusive' /\ NoStrandedRow'
    BY <1>3, <1>s, <2>1, <2>2 DEF Recover, TypeOK, Leases, LeaseExclusive, NoStrandedRow, Working, OwnsRow
  <2> QED
    BY <2>t, <2>l, <2>e, <2>p, <2>x
<1>4. ASSUME NEW e \in Events, TimePasses(e) PROVE RowInv'
  <2>t. TypeOK'
    BY <1>4 DEF TimePasses, TypeOK, Closed, Phases
  <2>l. Leases'
    BY <1>4 DEF TimePasses, TypeOK, Leases, Working, OwnsRow
  <2>e. Effects'
    BY <1>4 DEF TimePasses, TypeOK, Leases, Effects
  <2>p. PublishedIsApplied' /\ RecoveryTruthful'
    BY <1>4 DEF TimePasses, TypeOK, Leases, Effects, PublishedIsApplied, RecoveryTruthful, OwnsRow
  <2>x. LeaseExclusive' /\ NoStrandedRow'
    BY <1>4 DEF TimePasses, TypeOK, Leases, LeaseExclusive, NoStrandedRow, Working, OwnsRow
  <2> QED
    BY <2>t, <2>l, <2>e, <2>p, <2>x
<1>5. QED
  BY <1>1, <1>2, <1>3, <1>4

\* Acknowledging and releasing: only the owner of the row changes it.
LEMMA FinishInv ==
  ASSUME RowInv, NEW w \in Workers, Publish(w) \/ PublishThrows(w) \/ Release(w)
  PROVE  RowInv'
<1>n. Nothing \in [event : Events, attempt : 0..MaxAttempts]
  BY OutboxParameters DEF Nothing, Events
<1> USE OutboxParameters, <1>n
    DEF RowInv, Move,
        Forget, FinishTakes, FinishMisses, MarkPublished, ReadClock,
        recordVars, workVars, rowVars, effectVars
<1>1. CASE Publish(w)
  <2>t. TypeOK'
    BY <1>1 DEF Publish, TypeOK, Closed, Phases
  <2>l. Leases'
    BY <1>1 DEF Publish, TypeOK, Leases, Working, OwnsRow
  <2>e. Effects'
    BY <1>1 DEF Publish, TypeOK, Leases, Effects
  <2>p. PublishedIsApplied' /\ RecoveryTruthful'
    BY <1>1 DEF Publish, TypeOK, Leases, Effects, PublishedIsApplied, RecoveryTruthful, OwnsRow
  <2>1. ASSUME NEW v \in Workers, (Working(v) /\ OwnsRow(v))'
        PROVE  Working(v) /\ OwnsRow(v) /\ held'[v] = held[v]
    BY <1>1, <2>1 DEF Publish, TypeOK, Working, OwnsRow
  <2>2. LeaseExclusive'
    BY <2>1 DEF LeaseExclusive
  <2>3. NoStrandedRow'
    BY <1>1 DEF Publish, TypeOK, NoStrandedRow
  <2>x. LeaseExclusive' /\ NoStrandedRow'
    BY <2>2, <2>3
  <2> QED
    BY <2>t, <2>l, <2>e, <2>p, <2>x
<1>2. CASE PublishThrows(w)
  <2>t. TypeOK'
    BY <1>2 DEF PublishThrows, TypeOK, Closed, Phases
  <2>l. Leases'
    BY <1>2 DEF PublishThrows, TypeOK, Leases, Working, OwnsRow
  <2>e. Effects'
    BY <1>2 DEF PublishThrows, TypeOK, Leases, Effects
  <2>p. PublishedIsApplied' /\ RecoveryTruthful'
    BY <1>2 DEF PublishThrows, TypeOK, Leases, Effects, PublishedIsApplied, RecoveryTruthful, OwnsRow
  <2>1. ASSUME NEW v \in Workers, (Working(v) /\ OwnsRow(v))'
        PROVE  Working(v) /\ OwnsRow(v) /\ held'[v] = held[v]
    BY <1>2, <2>1 DEF PublishThrows, TypeOK, Working, OwnsRow
  <2>2. LeaseExclusive'
    BY <2>1 DEF LeaseExclusive
  <2>3. NoStrandedRow'
    BY <1>2 DEF PublishThrows, TypeOK, NoStrandedRow
  <2>x. LeaseExclusive' /\ NoStrandedRow'
    BY <2>2, <2>3
  <2> QED
    BY <2>t, <2>l, <2>e, <2>p, <2>x
<1>3. CASE Release(w)
  <2>0. state' \in [Events -> {"NONE", "PENDING", "CLAIMED", "PUBLISHED", "DEAD"}]
        /\ due' \in [Events -> BOOLEAN]
    BY <1>3 DEF Release, TypeOK
  <2>t. TypeOK'
    BY <1>3, <2>0 DEF Release, TypeOK, Phases
  <2>l. Leases'
    BY <1>3 DEF Release, TypeOK, Leases, Working, OwnsRow
  <2>e. Effects'
    BY <1>3 DEF Release, TypeOK, Leases, Effects
  <2>p. PublishedIsApplied' /\ RecoveryTruthful'
    BY <1>3 DEF Release, TypeOK, Leases, Effects, PublishedIsApplied, RecoveryTruthful, OwnsRow
  <2>1. ASSUME NEW v \in Workers, (Working(v) /\ OwnsRow(v))'
        PROVE  Working(v) /\ OwnsRow(v) /\ held'[v] = held[v]
    BY <1>3, <2>1 DEF Release, TypeOK, Working, OwnsRow
  <2>2. LeaseExclusive'
    BY <2>1 DEF LeaseExclusive
  <2>3. NoStrandedRow'
    BY <1>3 DEF Release, TypeOK, NoStrandedRow
  <2>x. LeaseExclusive' /\ NoStrandedRow'
    BY <2>2, <2>3
  <2> QED
    BY <2>t, <2>l, <2>e, <2>p, <2>x
<1>4. QED
  BY <1>1, <1>2, <1>3

-----------------------------------------------------------------------------
(* Refunds                                                                  *)

\* The total of the settled refunds changes only with the rows appended.
LEMMA SettledSame ==
  ASSUME Appended' = Appended
  PROVE  SettledTotal' = SettledTotal
BY DEF SettledTotal

\* Steps that append no row and run no effect, and do not undo a closed order.
LEMMA RefundsSame ==
  ASSUME RefundClosesOrder, Appended' = Appended, consumed' = consumed,
         payment' = payment, order \in Closed => order' \in Closed
  PROVE  RefundClosesOrder'
BY SettledSame DEF RefundClosesOrder

\* The effect of one event compares everything settled so far.
LEMMA RefundsConsumed ==
  ASSUME TypeOK, Effects, RefundClosesOrder, Appended' = Appended,
         NEW e \in Events, NEW who \in {"worker", "recovery"}, ConsumeOnce(e, who)
  PROVE  RefundClosesOrder'
<1>1. SettledTotal' = SettledTotal
  BY SettledSame
<1>2. CASE e \in consumed
  BY <1>2, RefundsSame DEF ConsumeOnce, effectVars
<1>3. CASE e \notin consumed /\ e = CaptureEvent
  <2>1. /\ payment' = payment /\ consumed' = consumed \cup {e} /\ e \notin RefundEvents
        /\ order \notin Closed
    BY <1>3, OutboxParameters DEF ConsumeOnce, RunEffect, EffectAllowed
  <2>2. QED
    BY <1>1, <2>1 DEF RefundClosesOrder
<1>4. CASE e \notin consumed /\ e # CaptureEvent
  <2>1. IF SettledTotal = CapturedAmount
        THEN order' = "REFUNDED" /\ payment' = "REFUNDED"
        ELSE UNCHANGED <<order, payment>>
    BY <1>4 DEF ConsumeOnce, RunEffect
  <2>2. QED
    BY <1>1, <2>1 DEF RefundClosesOrder, Closed
<1>5. QED
  BY <1>2, <1>3, <1>4

\* A refund that is settled adds what it gave back to what was settled before,
\* and stays within the capture.
LEMMA SettledGrows ==
  ASSUME RowInv, NEW r \in RefundEvents, SettleRefund(r)
  PROVE  /\ SettledTotal \in Nat
         /\ SettledTotal' = SettledTotal + RefundAmount[r]
         /\ SettledTotal + RefundAmount[r] <= CapturedAmount
<1> DEFINE S == Appended \ {CaptureEvent}
<1>1. r \in Events /\ r # CaptureEvent /\ r \notin S
  BY OutboxParameters
     DEF RowInv, SettleRefund, AppendRow, Appended, Events
<1>2. Appended' \ {CaptureEvent} = S \cup {r}
  BY <1>1 DEF RowInv, TypeOK, SettleRefund, AppendRow, Appended
<1>3. AmountsOn(RefundAmount, S)
  BY OutboxParameters, FS_Subset DEF Appended, Events, AmountsOn
<1>4. RefundAmount[r] \in Nat
  BY OutboxParameters
<1>5. Total(RefundAmount, S \cup {r}) = Total(RefundAmount, S) + RefundAmount[r]
  BY <1>1, <1>3, <1>4, TotalInsert
<1>6. SettledTotal = Total(RefundAmount, S) /\ Total(RefundAmount, S) \in Nat
  BY <1>3, TotalNat DEF SettledTotal
<1>7. QED
  BY <1>2, <1>5, <1>6 DEF SettledTotal, SettleRefund

\* It was not consumed yet, and as it gives something back, what was settled
\* before did not reach the capture.
LEMMA RefundsSettled ==
  ASSUME RowInv, RefundClosesOrder, NEW r \in RefundEvents, SettleRefund(r)
  PROVE  RefundClosesOrder'
<1>1. /\ r \in Events /\ r \notin consumed
      /\ consumed' = consumed /\ payment' = payment /\ order' = order
  BY DEF RowInv, Leases, SettleRefund, AppendRow, Events, effectVars
<1>2. RefundAmount[r] \in Nat \ {0} /\ CapturedAmount \in Nat
  BY OutboxParameters
<1>3. SettledTotal # CapturedAmount
  BY <1>2, SettledGrows
<1>4. r \in (Appended \cap RefundEvents)'
  BY <1>1 DEF RowInv, TypeOK, SettleRefund, AppendRow, Appended
<1>5. QED
  BY <1>1, <1>3, <1>4 DEF RefundClosesOrder

\* Which rows exist: only producers append.
LEMMA AppendedSame ==
  ASSUME RowInv,
         \/ CancelOrder
         \/ \E w \in Workers : TickStep(w) \/ AbandonTick(w)
         \/ \E e \in Events : TimePasses(e) \/ Recover(e)
  PROVE  Appended' = Appended
<1> USE DEF Appended, RowInv, TypeOK, rowVars
<1>1. ASSUME NEW w \in Workers, TickStep(w) PROVE Appended' = Appended
  <2>1. CASE state' = state
    BY <2>1
  <2>2. CASE StartTick(w)
    BY <2>2 DEF StartTick
  <2>3. CASE Claim(w)
    BY <2>3 DEF Claim, Claimable
  <2>4. CASE Publish(w) \/ PublishThrows(w) \/ Release(w)
    BY <2>4 DEF Publish, PublishThrows, Release, FinishTakes, OwnsRow, MarkPublished
  <2>5. QED
    BY <1>1, <2>1, <2>2, <2>3, <2>4
       DEF TickStep, ScanUnnotified, ProjectNotification, SkipNotification, StartPolling,
           Poll, EndTick, LoseClaim, Consume, ConsumeFails
<1>2. QED
  BY <1>1 DEF CancelOrder, AbandonTick, TimePasses, Recover

LEMMA RefundStep ==
  ASSUME IInv, Next
  PROVE  RefundClosesOrder'
<1> USE DEF IInv, RowInv
<1>1. CASE BookCapture
  <2>1. Appended' \cap RefundEvents = Appended \cap RefundEvents
        /\ Appended' \ {CaptureEvent} = Appended \ {CaptureEvent}
    BY <1>1, OutboxParameters DEF BookCapture, AppendRow, Appended, TypeOK
  <2>2. SettledTotal' = SettledTotal
    BY <2>1 DEF SettledTotal
  <2>3. QED
    BY <1>1, <2>1, <2>2 DEF BookCapture, RefundClosesOrder
<1>2. CASE \E r \in RefundEvents : SettleRefund(r)
  BY <1>2, RefundsSettled
<1>3. CASE CancelOrder
  BY <1>3, AppendedSame, RefundsSame DEF CancelOrder, Closed
<1>4. ASSUME NEW w \in Workers, TickStep(w) \/ AbandonTick(w) PROVE RefundClosesOrder'
  <2>1. Appended' = Appended
    BY <1>4, AppendedSame
  <2>2. CASE \E next \in {"publishing", "releasing"} : Consume(w, next)
    <3>1. held[w].event \in Events /\ ConsumeOnce(held[w].event, "worker")
      BY <2>2 DEF Consume, TypeOK
    <3>2. QED
      BY <2>1, <3>1, RefundsConsumed
  <2>3. CASE UNCHANGED <<consumed, order, payment>>
    BY <2>1, <2>3, RefundsSame
  <2>4. QED
    BY <1>4, <2>2, <2>3
       DEF TickStep, AbandonTick, StartTick, ScanUnnotified, ProjectNotification,
           SkipNotification, StartPolling, Poll, EndTick, Claim, LoseClaim, ConsumeFails,
           Publish, PublishThrows, Release, effectVars
<1>5. ASSUME NEW e \in Events, TimePasses(e) \/ Recover(e) PROVE RefundClosesOrder'
  <2>1. Appended' = Appended
    BY <1>5, AppendedSame
  <2>2. CASE Recover(e)
    BY <2>1, <2>2, RefundsConsumed DEF Recover
  <2>3. CASE TimePasses(e)
    BY <2>1, <2>3, RefundsSame DEF TimePasses, effectVars
  <2>4. QED
    BY <1>5, <2>2, <2>3
<1>6. QED
  BY <1>1, <1>2, <1>3, <1>4, <1>5 DEF Next

\* Nothing is settled at the start, and the capture collects something.
LEMMA InitRefunds == Init => RefundClosesOrder
<1> SUFFICES ASSUME Init PROVE RefundClosesOrder
  OBVIOUS
<1>1. Appended \ {CaptureEvent} = {}
  BY DEF Init, Appended
<1>2. SettledTotal = 0
  BY <1>1, TotalZero DEF SettledTotal
<1>3. QED
  BY <1>2, OutboxParameters DEF Init, RefundClosesOrder

-----------------------------------------------------------------------------
(* The theorems                                                             *)

LEMMA NextInv ==
  ASSUME IInv, [Next]_vars
  PROVE  IInv'
<1>1. CASE Next
  <2>1. RowInv'
    BY <1>1, ProducerInv, ScanInv, ClaimInv, ConsumeInv, FinishInv DEF IInv, Next, TickStep
  <2>2. QED
    BY <1>1, <2>1, RefundStep DEF IInv
<1>2. CASE UNCHANGED vars
  <2>1. RowInv'
    BY <1>2
       DEF IInv, RowInv, TypeOK, Leases, Effects, PublishedIsApplied, RecoveryTruthful,
           LeaseExclusive, NoStrandedRow, Working, OwnsRow, vars, rowVars, effectVars,
           recordVars, workVars
  <2>2. RefundClosesOrder'
    BY <1>2, RefundsSame
       DEF IInv, Appended, vars, rowVars, effectVars, recordVars, workVars
  <2>3. QED
    BY <2>1, <2>2 DEF IInv
<1>3. QED
  BY <1>1, <1>2

(***************************************************************************)
(* The invariant of the outbox rows, their leases, receipts and refunds    *)
(* (economic-durability.ts, economic-consumers.ts) holds in every          *)
(* reachable state.                                                        *)
(***************************************************************************)
THEOREM Inductive == Spec => []IInv
<1>1. Init => IInv
  BY InitInv, InitRefunds DEF IInv
<1>2. IInv /\ [Next]_vars => IInv'
  BY NextInv
<1>3. QED
  BY <1>1, <1>2, PTL DEF Spec

\* Columns and local variables keep their types; no row is claimed more often
\* than MAX_OUTBOX_ATTEMPTS allows.
THEOREM TypeCorrect == Spec => []TypeOK
<1>1. IInv => TypeOK
  BY DEF IInv, RowInv
<1>2. QED
  BY Inductive, <1>1, PTL

\* consumeEconomicEvent: the effect runs once, with its receipt, however often
\* the event is delivered or recovered; the notification likewise.
THEOREM RunsOnce == Spec => []EffectOnce
<1>1. IInv => EffectOnce
  <2>1. Len(<<>>) = 0 /\ Len(<<"worker">>) = 1 /\ Len(<<"recovery">>) = 1
    OBVIOUS
  <2>2. QED
    BY <2>1 DEF IInv, RowInv, TypeOK, Effects, EffectOnce
<1>2. QED
  BY Inductive, <1>1, PTL

\* finishEconomicEvent never acknowledges an event without effect.
THEOREM AppliedBeforePublished == Spec => []PublishedIsApplied
<1>1. IInv => PublishedIsApplied
  BY DEF IInv, RowInv
<1>2. QED
  BY Inductive, <1>1, PTL

\* EconomicRecoveryService.recover records who really ran the effect.
THEOREM RecoveryIsTruthful == Spec => []RecoveryTruthful
<1>1. IInv => RecoveryTruthful
  BY DEF IInv, RowInv
<1>2. QED
  BY Inductive, <1>1, PTL

\* claimEconomicEvent and its lease leave one worker that may finish a row.
THEOREM OneOwner == Spec => []LeaseExclusive
<1>1. IInv => LeaseExclusive
  BY DEF IInv, RowInv
<1>2. QED
  BY Inductive, <1>1, PTL

\* finishEconomicEvent(false) leaves no PENDING row without an attempt.
THEOREM NeverStranded == Spec => []NoStrandedRow
<1>1. IInv => NoStrandedRow
  BY DEF IInv, RowInv
<1>2. QED
  BY Inductive, <1>1, PTL

\* applyVerifiedEconomicLifecycle: refunds that add up to the capture close the
\* order, in whatever order their events are consumed.
THEOREM RefundsClose == Spec => []RefundClosesOrder
<1>1. IInv => RefundClosesOrder
  BY DEF IInv
<1>2. QED
  BY Inductive, <1>1, PTL

\* No step revives a closed order or a terminal row.
LEMMA StepNeverReopens ==
  ASSUME IInv, Next
  PROVE  /\ order \in Closed => order' \in Closed
         /\ \A e \in Events :
               state[e] \in {"PUBLISHED", "DEAD"} => state'[e] = state[e]
<1> USE DEF IInv, RowInv
<1>1. CASE BookCapture \/ \E r \in RefundEvents : SettleRefund(r)
  BY <1>1 DEF BookCapture, SettleRefund, AppendRow, effectVars, TypeOK
<1>2. CASE CancelOrder
  BY <1>2 DEF CancelOrder, Closed, rowVars
<1>3. ASSUME NEW w \in Workers, TickStep(w) \/ AbandonTick(w)
      PROVE  /\ order \in Closed => order' \in Closed
             /\ \A e \in Events :
                   state[e] \in {"PUBLISHED", "DEAD"} => state'[e] = state[e]
  <2>1. CASE \E next \in {"publishing", "releasing"} : Consume(w, next)
    <3>1. held[w].event \in Events /\ ConsumeOnce(held[w].event, "worker")
      BY <2>1 DEF Consume, TypeOK
    <3>2. QED
      BY <2>1, <3>1, ConsumeEffect DEF Consume, rowVars
  <2>2. CASE StartTick(w)
    BY <2>2 DEF StartTick, effectVars
  <2>3. CASE Claim(w)
    BY <2>3 DEF Claim, Claimable, effectVars, TypeOK
  <2>4. CASE Publish(w) \/ PublishThrows(w) \/ Release(w)
    BY <2>4 DEF Publish, PublishThrows, Release, FinishTakes, OwnsRow, MarkPublished,
                effectVars, TypeOK
  <2>5. QED
    BY <1>3, <2>1, <2>2, <2>3, <2>4
       DEF TickStep, AbandonTick, ScanUnnotified, ProjectNotification, SkipNotification,
           StartPolling, Poll, EndTick, LoseClaim, ConsumeFails, effectVars, rowVars
<1>4. ASSUME NEW e \in Events, TimePasses(e) \/ Recover(e)
      PROVE  UNCHANGED state /\ (order \in Closed => order' \in Closed)
  BY <1>4, ConsumeEffect DEF TimePasses, Recover, effectVars, rowVars
<1>5. QED
  BY <1>1, <1>2, <1>3, <1>4 DEF Next

(***************************************************************************)
(* A closed order is never revived by a late event, and a PUBLISHED or     *)
(* DEAD row keeps its state (finishEconomicEvent, recover).                *)
(***************************************************************************)
THEOREM ClosedForGood == Spec => NeverReopened
<1>1. IInv /\ [Next]_vars =>
        [/\ order \in Closed => order' \in Closed
         /\ \A e \in Events :
               state[e] \in {"PUBLISHED", "DEAD"} => state'[e] = state[e]]_vars
  BY StepNeverReopens
<1>2. QED
  BY Inductive, <1>1, PTL DEF Spec, NeverReopened
-----------------------------------------------------------------------------
(* The refinement                                                           *)

\* A step of the life cycle, or one that it does not see.
LifecycleStep ==
    \/ Lifecycle!Next
    \/ UNCHANGED <<order, payment, Appended, SettledTotal, consumed, notified,
                   RowsIn("PUBLISHED"), RowsIn("DEAD")>>

\* Where rows are depends on the rows alone.
LEMMA RowsSame ==
  ASSUME state' = state
  PROVE  /\ Appended' = Appended /\ SettledTotal' = SettledTotal
         /\ RowsIn("PUBLISHED")' = RowsIn("PUBLISHED") /\ RowsIn("DEAD")' = RowsIn("DEAD")
BY DEF Appended, SettledTotal, RowsIn

\* An event is appended.
LEMMA RowAppended ==
  ASSUME TypeOK, NEW e \in Events, AppendRow(e)
  PROVE  /\ e \notin Appended /\ Appended' = Appended \cup {e}
         /\ RowsIn("PUBLISHED")' = RowsIn("PUBLISHED") /\ RowsIn("DEAD")' = RowsIn("DEAD")
BY DEF TypeOK, AppendRow, Appended, RowsIn

\* Rows that are neither new nor terminal move, or are given up.
LEMMA RowsGivenUp ==
  ASSUME UNCHANGED <<order, payment, consumed, notified>>,
         \A e \in Events :
            \/ state'[e] = state[e]
            \/ state[e] \in {"PENDING", "CLAIMED"} /\ state'[e] \in {"PENDING", "CLAIMED", "DEAD"}
  PROVE  LifecycleStep
<1> DEFINE given == RowsIn("DEAD")' \ RowsIn("DEAD")
<1>1. /\ Appended' = Appended /\ SettledTotal' = SettledTotal
      /\ RowsIn("PUBLISHED")' = RowsIn("PUBLISHED")
      /\ given \in SUBSET Appended
      /\ given \cap (RowsIn("PUBLISHED") \cup RowsIn("DEAD")) = {}
      /\ RowsIn("DEAD")' = RowsIn("DEAD") \cup given
  BY SettledSame DEF Appended, RowsIn
<1>2. Lifecycle!GiveUp(given)
  BY <1>1 DEF Lifecycle!GiveUp, Lifecycle!outbox
<1>3. QED
  BY <1>1, <1>2 DEF LifecycleStep, Lifecycle!Next

\* Consuming an event whose row was appended is its effect, or nothing.
LEMMA ConsumeRefines ==
  ASSUME TypeOK, NEW e \in Appended, NEW who, ConsumeOnce(e, who),
         UNCHANGED <<state, notified>>
  PROVE  LifecycleStep
<1>1. CASE e \in consumed
  BY <1>1, RowsSame DEF ConsumeOnce, effectVars, LifecycleStep
<1>2. CASE e \notin consumed
  <2>1. RunEffect(e, who)
    BY <1>2 DEF ConsumeOnce
  <2>2. CASE e = CaptureEvent
    <3>1. Lifecycle!Confirm
      BY <2>1, <2>2 DEF RunEffect, EffectAllowed, Lifecycle!Confirm, TypeOK, Closed
    <3>2. Lifecycle!Apply(e)
      BY <1>2, <2>1, <2>2, <3>1, RowsSame DEF RunEffect, Lifecycle!Apply, Lifecycle!outbox
    <3>3. QED
      BY <3>2 DEF LifecycleStep, Lifecycle!Next
  <2>3. CASE e # CaptureEvent
    <3>1. Lifecycle!CloseIfRefunded
      BY <2>1, <2>3 DEF RunEffect, Lifecycle!CloseIfRefunded
    <3>2. Lifecycle!Apply(e)
      BY <1>2, <2>1, <2>3, <3>1, RowsSame DEF RunEffect, Lifecycle!Apply, Lifecycle!outbox
    <3>3. QED
      BY <3>2 DEF LifecycleStep, Lifecycle!Next
  <2>4. QED
    BY <2>2, <2>3
<1>3. QED
  BY <1>1, <1>2

\* Acknowledging a claimed row whose event took effect.
LEMMA PublishRefines ==
  ASSUME TypeOK, NEW e \in consumed, state[e] = "CLAIMED",
         state' = [state EXCEPT ![e] = "PUBLISHED"],
         UNCHANGED <<order, payment, consumed, notified>>
  PROVE  LifecycleStep
<1>1. /\ e \in Appended /\ Appended' = Appended /\ SettledTotal' = SettledTotal
      /\ e \notin RowsIn("PUBLISHED") \cup RowsIn("DEAD")
      /\ RowsIn("PUBLISHED")' = RowsIn("PUBLISHED") \cup {e}
      /\ RowsIn("DEAD")' = RowsIn("DEAD")
  BY SettledSame DEF TypeOK, Appended, RowsIn
<1>2. Lifecycle!Publish(e)
  BY <1>1 DEF Lifecycle!Publish, Lifecycle!outbox
<1>3. QED
  BY <1>1, <1>2 DEF LifecycleStep, Lifecycle!Next

\* The outbox starts as the life cycle does.
LEMMA InitRefines == Init => Lifecycle!Init
<1> SUFFICES ASSUME Init PROVE Lifecycle!Init
  OBVIOUS
<1>1. Appended \ {CaptureEvent} = {}
  BY DEF Init, Appended
<1>2. SettledTotal = 0
  BY <1>1, TotalZero DEF SettledTotal
<1>3. QED
  BY <1>2 DEF Init, Lifecycle!Init, Appended, RowsIn

\* What producers and administrators do.
LEMMA ProducerRefines ==
  ASSUME IInv, BookCapture \/ (\E r \in RefundEvents : SettleRefund(r)) \/ CancelOrder
  PROVE  LifecycleStep
<1> USE DEF IInv, RowInv
<1>1. CASE BookCapture
  <2>1. CaptureEvent \in Events
    BY DEF Events
  <2>2. SettledTotal' = SettledTotal
    BY <1>1, <2>1, RowAppended DEF BookCapture, SettledTotal
  <2>3. Lifecycle!Capture
    BY <1>1, <2>1, <2>2, RowAppended
       DEF BookCapture, Lifecycle!Capture, Lifecycle!progress, recordVars
  <2>4. QED
    BY <2>3 DEF LifecycleStep, Lifecycle!Next
<1>2. ASSUME NEW r \in RefundEvents, SettleRefund(r)
      PROVE  LifecycleStep
  <2>1. r \in Events /\ CaptureEvent \in Events
    BY DEF Events
  <2>2. CaptureEvent \in Appended
    BY <1>2, <2>1 DEF SettleRefund, Appended
  <2>3. Lifecycle!Refund(r)
    BY <1>2, <2>1, <2>2, RowAppended, SettledGrows
       DEF SettleRefund, Lifecycle!Refund, Lifecycle!progress, effectVars, recordVars
  <2>4. QED
    BY <2>3 DEF LifecycleStep, Lifecycle!Next
<1>3. CASE CancelOrder
  <2>1. Lifecycle!Cancel
    BY <1>3, RowsSame
       DEF CancelOrder, Lifecycle!Cancel, Lifecycle!outbox, Lifecycle!progress, rowVars, recordVars
  <2>2. QED
    BY <2>1 DEF LifecycleStep, Lifecycle!Next
<1>4. QED
  BY <1>1, <1>2, <1>3

\* What a worker does.
LEMMA TickRefines ==
  ASSUME IInv, NEW w \in Workers, TickStep(w) \/ AbandonTick(w)
  PROVE  LifecycleStep
<1> USE DEF IInv, RowInv
<1>1. held[w].event \in Events
  BY DEF TypeOK
<1>2. ASSUME NEW e \in Events, ProjectNotification(w, e)
      PROVE  LifecycleStep
  <2>1. UNCHANGED <<order, payment, consumed, state>>
    BY <1>2 DEF ProjectNotification, rowVars, effectVars
  <2>2. CASE e \in notified
    BY <1>2, <2>1, <2>2, RowsSame DEF ProjectNotification, LifecycleStep
  <2>3. CASE e \notin notified
    <3>1. e \in consumed /\ e \in Appended /\ notified' = notified \cup {e}
      BY <1>2, <2>3 DEF ProjectNotification, Effects, Leases, Appended
    <3>2. Lifecycle!Announce(e)
      BY <2>1, <2>3, <3>1, RowsSame DEF Lifecycle!Announce, Lifecycle!outbox
    <3>3. QED
      BY <3>1, <3>2 DEF LifecycleStep, Lifecycle!Next
  <2>4. QED
    BY <2>2, <2>3
<1>3. CASE StartTick(w)
  BY <1>3, RowsGivenUp DEF StartTick, effectVars, recordVars
<1>4. CASE Claim(w)
  BY <1>1, <1>4, RowsGivenUp DEF Claim, Claimable, effectVars, recordVars, TypeOK
<1>5. CASE \E next \in {"publishing", "releasing"} : Consume(w, next)
  <2>1. held[w].event \in Appended
    BY <1>1, <1>5 DEF Consume, Leases, Working, Appended
  <2>2. QED
    BY <1>5, <2>1, ConsumeRefines DEF Consume, rowVars, recordVars
<1>6. CASE Publish(w) \/ PublishThrows(w)
  <2>1. held[w].event \in consumed
    BY <1>6 DEF Publish, PublishThrows, Leases
  <2>2. UNCHANGED <<order, payment, consumed, notified>>
    BY <1>6 DEF Publish, PublishThrows, effectVars, recordVars
  <2>3. CASE FinishTakes(w) /\ MarkPublished(w)
    BY <2>1, <2>2, <2>3, PublishRefines DEF FinishTakes, OwnsRow, MarkPublished
  <2>4. CASE UNCHANGED state
    BY <2>2, <2>4, RowsSame DEF LifecycleStep
  <2>5. QED
    BY <1>6, <2>3, <2>4 DEF Publish, PublishThrows
<1>7. CASE Release(w)
  BY <1>1, <1>7, RowsGivenUp
     DEF Release, FinishTakes, OwnsRow, effectVars, recordVars, TypeOK
<1>8. CASE \/ ScanUnnotified(w) \/ StartPolling(w) \/ EndTick(w) \/ LoseClaim(w)
           \/ ConsumeFails(w) \/ AbandonTick(w)
           \/ \E e \in Events : SkipNotification(w, e) \/ Poll(w, e)
  <2>1. UNCHANGED <<order, payment, consumed, notified, state>>
    BY <1>8
       DEF ScanUnnotified, StartPolling, EndTick, LoseClaim, ConsumeFails, AbandonTick,
           SkipNotification, Poll, rowVars, effectVars, recordVars
  <2>2. QED
    BY <2>1, RowsSame DEF LifecycleStep
<1>9. QED
  BY <1>2, <1>3, <1>4, <1>5, <1>6, <1>7, <1>8 DEF TickStep

\* Every step of the outbox is one of the life cycle, or invisible to it.
LEMMA StepRefines ==
  ASSUME IInv, [Next]_vars
  PROVE  LifecycleStep
<1>1. ASSUME NEW e \in Events, TimePasses(e) PROVE LifecycleStep
  BY <1>1, RowsSame DEF TimePasses, effectVars, recordVars, LifecycleStep
<1>2. ASSUME NEW e \in Events, Recover(e) PROVE LifecycleStep
  <2>1. e \in Appended
    BY <1>2 DEF Recover, Appended
  <2>2. QED
    BY <1>2, <2>1, ConsumeRefines DEF Recover, rowVars, IInv, RowInv
<1>3. CASE UNCHANGED vars
  BY <1>3, RowsSame DEF vars, rowVars, effectVars, recordVars, LifecycleStep
<1>4. QED
  BY <1>1, <1>2, <1>3, ProducerRefines, TickRefines DEF Next

(***************************************************************************)
(* The outbox, its workers and the recovery (economic-durability.ts,       *)
(* economic-consumers.ts, economic-recovery.service.ts) implement the life *)
(* cycle of an order in which every event takes effect once.               *)
(***************************************************************************)
THEOREM Refines == Spec => LifecyclePromise
<1>1. IInv /\ [Next]_vars
        => [Lifecycle!Next]_<<order, payment, Appended, SettledTotal, consumed, notified,
                              RowsIn("PUBLISHED"), RowsIn("DEAD")>>
  BY StepRefines DEF LifecycleStep
<1>2. QED
  BY <1>1, InitRefines, Inductive, PTL DEF Spec, LifecyclePromise, Lifecycle!Spec,
     Lifecycle!vars
=============================================================================
