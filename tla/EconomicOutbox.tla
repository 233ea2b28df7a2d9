---------------------------- MODULE EconomicOutbox ----------------------------
(***************************************************************************)
(* The economic outbox of one order and the dispatcher that drains it      *)
(* (apps/api/src/modules/finances/economic-durability.ts, -dispatcher,     *)
(* -consumers, -notifications and -recovery).                              *)
(*                                                                         *)
(* Booking a capture or settling a refund appends an event row in the same *)
(* transaction.  Every API process ticks: it claims a row under a lease,   *)
(* runs the lifecycle effect once per event (a receipt row commits with    *)
(* it), and acknowledges.  A process can stop anywhere, a transaction can  *)
(* commit while its caller sees an error, a slow process can outlive its   *)
(* lease, and an administrator can recover a DEAD event meanwhile.         *)
(*                                                                         *)
(* The clock is abstracted to one flag per row: due[e] says that the time  *)
(* the row waits for (availableAt while PENDING, leaseUntil while CLAIMED) *)
(* has come.  A lease token is random and each claim increments attempts,  *)
(* so the number of the attempt stands for the token.                      *)
(***************************************************************************)
EXTENDS MinorUnits, Sequences

CONSTANTS
    Workers,            \* API processes; each runs at most one tick at a time
    CaptureEvent,       \* the capture.verified.v1 event of the order
    RefundEvents,       \* refund.verified.v1 events, one per refund settled
    RefundAmount,       \* what each of these refunds gave back
    CapturedAmount,     \* what the capture collected
    MaxAttempts,        \* MAX_OUTBOX_ATTEMPTS
    MaxAbandons         \* bound: ticks abandoned by a crash or database error

Events == RefundEvents \cup {CaptureEvent}

ASSUME OutboxParameters ==
    /\ CaptureEvent \notin RefundEvents
    /\ IsFiniteSet(RefundEvents)
    /\ RefundAmount \in [RefundEvents -> Nat \ {0}]
    /\ CapturedAmount \in Nat \ {0}
    /\ MaxAttempts \in Nat \ {0}
    /\ MaxAbandons \in Nat

VARIABLES
    state,          \* per event: its row, "NONE" before it is appended
    attempts,       \* per event: attempts
    due,            \* per event: availableAt or leaseUntil has come
    consumed,       \* events with a lifecycle.v1 receipt
    notified,       \* events with a notifications.v1 receipt
    recovery,       \* per event: its EconomicLifecycleRecovery row
    runs,           \* history: who ran the effect of each event, in order
    notices,        \* history: how often each event was projected
    order,          \* status of the order
    payment,        \* status of its payment
    phase,          \* per worker: where its tick is
    held,           \* per worker: the event it works on, and at which attempt
    inTime,         \* per worker: was its lease still running at its last look?
    todo,           \* per worker: events found without notification
    abandons        \* how many ticks were abandoned so far

rowVars    == <<state, attempts, due>>
effectVars == <<consumed, runs, order, payment>>
recordVars == <<notified, notices, recovery>>
workVars   == <<phase, held, inTime, todo>>
vars == <<rowVars, effectVars, recordVars, workVars, abandons>>

Nothing == [event |-> CaptureEvent, attempt |-> 0]

Init ==
    /\ state = [e \in Events |-> "NONE"]
    /\ attempts = [e \in Events |-> 0]
    /\ due = [e \in Events |-> FALSE]
    /\ consumed = {}
    /\ notified = {}
    /\ recovery = [e \in Events |-> "none"]
    /\ runs = [e \in Events |-> <<>>]
    /\ notices = [e \in Events |-> 0]
    /\ order = "PENDING_PAYMENT"
    /\ payment = "PENDING"
    /\ phase = [w \in Workers |-> "idle"]
    /\ held = [w \in Workers |-> Nothing]
    /\ inTime = [w \in Workers |-> FALSE]
    /\ todo = [w \in Workers |-> {}]
    /\ abandons = 0

-----------------------------------------------------------------------------
(* Producers and the order                                                  *)

Appended == {e \in Events : state[e] # "NONE"}

SettledTotal == Total(RefundAmount, Appended \ {CaptureEvent})

AppendRow(e) ==
    /\ state[e] = "NONE"
    /\ state' = [state EXCEPT ![e] = "PENDING"]
    /\ due' = [due EXCEPT ![e] = TRUE]
    /\ UNCHANGED attempts

\* verifyAndBookEconomicCapture: the payment is PAID and the event appended.
BookCapture ==
    /\ AppendRow(CaptureEvent)
    /\ payment = "PENDING"
    /\ payment' = "PAID"
    /\ UNCHANGED <<consumed, runs, order, recordVars, workVars, abandons>>

\* executeEconomicRefund settles a refund; plans never exceed the capture.
SettleRefund(r) ==
    /\ state[CaptureEvent] # "NONE"
    /\ AppendRow(r)
    /\ SettledTotal + RefundAmount[r] <= CapturedAmount
    /\ UNCHANGED <<effectVars, recordVars, workVars, abandons>>

\* adminCancelOrder, from whatever status the order has.
CancelOrder ==
    /\ order # "CANCELLED"
    /\ order' = "CANCELLED"
    /\ UNCHANGED <<rowVars, consumed, runs, payment, recordVars>>
    /\ UNCHANGED <<workVars, abandons>>

-----------------------------------------------------------------------------
(* The lifecycle effect, run in one transaction with its receipt            *)

Closed == {"CANCELLED", "REFUNDED"}

\* applyVerifiedEconomicLifecycle throws otherwise.
EffectAllowed(e) ==
    e = CaptureEvent => order \notin Closed /\ payment = "PAID"

\* Mutant of RunEffect: only refunds consumed before this one are counted.
RunEffectBefore(e, who) ==
    /\ EffectAllowed(e)
    /\ consumed' = consumed \cup {e}
    /\ runs' = [runs EXCEPT ![e] = Append(@, who)]
    /\ IF e = CaptureEvent
       THEN /\ order' = IF order = "PENDING_PAYMENT" THEN "CONFIRMED" ELSE order
            /\ UNCHANGED payment
       ELSE IF Total(RefundAmount, consumed \ {CaptureEvent}) = CapturedAmount
       THEN order' = "REFUNDED" /\ payment' = "REFUNDED"
       ELSE UNCHANGED <<order, payment>>

\* applyVerifiedEconomicLifecycle and the receipt.  A refund compares what all
\* settled refunds gave back, consumed or not, with the capture.
RunEffect(e, who) ==
    /\ EffectAllowed(e)
    /\ consumed' = consumed \cup {e}
    /\ runs' = [runs EXCEPT ![e] = Append(@, who)]
    /\ IF e = CaptureEvent
       THEN /\ order' = IF order = "PENDING_PAYMENT" THEN "CONFIRMED" ELSE order
            /\ UNCHANGED payment
       ELSE IF SettledTotal = CapturedAmount
       THEN order' = "REFUNDED" /\ payment' = "REFUNDED"
       ELSE UNCHANGED <<order, payment>>

\* Mutant of ConsumeOnce: no receipt is looked for.
ConsumeAgain(e, who) == RunEffect(e, who)

\* A receipt that is already there makes the rest a no-op.
ConsumeOnce(e, who) ==
    IF e \in consumed THEN UNCHANGED effectVars ELSE RunEffect(e, who)

-----------------------------------------------------------------------------
(* A tick                                                                   *)

\* The tick of w goes on with its next step.
Move(w, to) == phase' = [phase EXCEPT ![w] = to]

\* The claimed event is a local variable of one turn of the loop.
Forget(w) ==
    /\ held' = [held EXCEPT ![w] = Nothing]
    /\ inTime' = [inTime EXCEPT ![w] = FALSE]

\* Mutant of StartTick: exhausted events are not quarantined.
StartTickOnly(w) ==
    /\ phase[w] = "idle"
    /\ Move(w, "scanning")
    /\ UNCHANGED <<rowVars, effectVars, recordVars>>
    /\ UNCHANGED <<held, inTime, todo, abandons>>

\* quarantineExhaustedEvents: no attempt left and nobody holds the lease.
StartTick(w) ==
    /\ phase[w] = "idle"
    /\ state' = [e \in Events |->
                   IF /\ state[e] = "CLAIMED"
                      /\ attempts[e] >= MaxAttempts
                      /\ due[e]
                   THEN "DEAD" ELSE state[e]]
    /\ Move(w, "scanning")
    /\ UNCHANGED <<attempts, due, effectVars, recordVars>>
    /\ UNCHANGED <<held, inTime, todo, abandons>>

\* Mutant of ScanUnnotified: only published events are looked for.
ScanPublished(w) ==
    /\ phase[w] = "scanning"
    /\ todo' = [todo EXCEPT ![w] =
                   {e \in consumed \ notified : state[e] = "PUBLISHED"}]
    /\ Move(w, "projecting")
    /\ UNCHANGED <<rowVars, effectVars, recordVars, held, inTime, abandons>>

\* Events whose lifecycle ran and whose notification did not.
ScanUnnotified(w) ==
    /\ phase[w] = "scanning"
    /\ todo' = [todo EXCEPT ![w] = consumed \ notified]
    /\ Move(w, "projecting")
    /\ UNCHANGED <<rowVars, effectVars, recordVars, held, inTime, abandons>>

\* consumeEconomicNotifications, with a receipt of its own.
ProjectNotification(w, e) ==
    /\ phase[w] = "projecting"
    /\ e \in todo[w]
    /\ todo' = [todo EXCEPT ![w] = @ \ {e}]
    /\ IF e \in notified
       THEN UNCHANGED <<notified, notices>>
       ELSE /\ notified' = notified \cup {e}
            /\ notices' = [notices EXCEPT ![e] = @ + 1]
    /\ UNCHANGED <<rowVars, effectVars, recovery, phase, held, inTime, abandons>>

\* Its error is swallowed; a later tick finds the event again.
SkipNotification(w, e) ==
    /\ phase[w] = "projecting"
    /\ e \in todo[w]
    /\ todo' = [todo EXCEPT ![w] = @ \ {e}]
    /\ UNCHANGED <<rowVars, effectVars, recordVars>>
    /\ UNCHANGED <<phase, held, inTime, abandons>>

StartPolling(w) ==
    /\ phase[w] = "projecting"
    /\ todo[w] = {}
    /\ Move(w, "polling")
    /\ UNCHANGED <<rowVars, effectVars, recordVars>>
    /\ UNCHANGED <<held, inTime, todo, abandons>>

\* Mutant of Claimable: attempts are not limited.
ClaimableForever(e) ==
    /\ state[e] \in {"PENDING", "CLAIMED"}
    /\ due[e]

\* The filter of claimEconomicEvent.
Claimable(e) ==
    /\ state[e] \in {"PENDING", "CLAIMED"}
    /\ due[e]
    /\ attempts[e] < MaxAttempts

\* claimEconomicEvent, the findFirst.  The order of the rows is left open.
Poll(w, e) ==
    /\ phase[w] = "polling"
    /\ Claimable(e)
    /\ held' = [held EXCEPT ![w] = [event |-> e, attempt |-> attempts[e]]]
    /\ Move(w, "claiming")
    /\ UNCHANGED <<rowVars, effectVars, recordVars, inTime, todo, abandons>>

EndTick(w) ==
    /\ phase[w] = "polling"
    /\ \A e \in Events : ~Claimable(e)
    /\ Move(w, "idle")
    /\ UNCHANGED <<rowVars, effectVars, recordVars>>
    /\ UNCHANGED <<held, inTime, todo, abandons>>

\* claimEconomicEvent, the updateMany that checks the row again.  (The code
\* compares with the instant read before the findFirst; a row that becomes due
\* in between may be taken here too, as by a process whose clock is ahead.)
Claim(w) ==
    LET e == held[w].event IN
    /\ phase[w] = "claiming"
    /\ Claimable(e)
    /\ state' = [state EXCEPT ![e] = "CLAIMED"]
    /\ attempts' = [attempts EXCEPT ![e] = @ + 1]
    /\ due' = [due EXCEPT ![e] = FALSE]
    /\ held' = [held EXCEPT ![w].attempt = attempts'[e]]
    /\ Move(w, "consuming")
    /\ UNCHANGED <<effectVars, recordVars, inTime, todo, abandons>>

\* Another worker won: no event, and the tick is over.
LoseClaim(w) ==
    /\ phase[w] = "claiming"
    /\ ~Claimable(held[w].event)
    /\ Move(w, "idle")
    /\ Forget(w)
    /\ UNCHANGED <<rowVars, effectVars, recordVars, todo, abandons>>

\* The clock that finishEconomicEvent compares with leaseUntil is read before
\* its transaction starts.
ReadClock(w) == inTime' = [inTime EXCEPT ![w] = ~due[held[w].event]]

\* consumeVerifiedEconomics; next is "releasing" if the commit went through
\* but its confirmation was lost.
Consume(w, next) ==
    /\ phase[w] = "consuming"
    /\ ConsumeOnce(held[w].event, "worker")
    /\ ReadClock(w)
    /\ Move(w, next)
    /\ UNCHANGED <<rowVars, recordVars, held, todo, abandons>>

\* Mutant of ConsumeFails: the error is swallowed.
ConsumeSwallows(w) ==
    /\ phase[w] = "consuming"
    /\ ReadClock(w)
    /\ Move(w, "publishing")
    /\ UNCHANGED <<rowVars, effectVars, recordVars, held, todo, abandons>>

\* A closed order, no stock left, or a database failure: rolled back.
ConsumeFails(w) ==
    /\ phase[w] = "consuming"
    /\ ReadClock(w)
    /\ Move(w, "releasing")
    /\ UNCHANGED <<rowVars, effectVars, recordVars, held, todo, abandons>>

\* Mutants of OwnsRow: any claim counts; a token counts in any state.
OwnsAnyClaim(w)  == state[held[w].event] = "CLAIMED"
OwnsByToken(w)   == attempts[held[w].event] = held[w].attempt

\* The row is claimed with this worker's token.
OwnsRow(w) ==
    /\ state[held[w].event] = "CLAIMED"
    /\ attempts[held[w].event] = held[w].attempt

\* Whether finishEconomicEvent changes the row.  The clock is read somewhere
\* between the end of the previous query and the update: a lease that ran out
\* in between may be seen as running (takes) or as over (misses).
FinishTakes(w)  == OwnsRow(w) /\ inTime[w]
FinishMisses(w) == ~OwnsRow(w) \/ due[held[w].event]

MarkPublished(w) ==
    state' = [state EXCEPT ![held[w].event] = "PUBLISHED"]

\* finishEconomicEvent(true)
Publish(w) ==
    /\ phase[w] = "publishing"
    /\ \/ FinishTakes(w) /\ MarkPublished(w)
       \/ FinishMisses(w) /\ UNCHANGED state
    /\ Move(w, "polling")
    /\ Forget(w)
    /\ UNCHANGED <<attempts, due, effectVars, recordVars, todo, abandons>>

\* It throws, its update committed or not; the catch block releases the event.
PublishThrows(w) ==
    /\ phase[w] = "publishing"
    /\ (FinishTakes(w) /\ MarkPublished(w)) \/ UNCHANGED state
    /\ ReadClock(w)
    /\ Move(w, "releasing")
    /\ UNCHANGED <<attempts, due, effectVars, recordVars, held, todo, abandons>>

\* Mutant of Release: the last attempt goes back to PENDING too.
ReleaseAlways(w) ==
    LET e == held[w].event IN
    /\ phase[w] = "releasing"
    /\ \/ /\ FinishTakes(w)
          /\ state' = [state EXCEPT ![e] = "PENDING"]
          /\ due' = [due EXCEPT ![e] = FALSE]
       \/ FinishMisses(w) /\ UNCHANGED <<state, due>>
    /\ Move(w, "polling")
    /\ Forget(w)
    /\ UNCHANGED <<attempts, effectVars, recordVars, todo, abandons>>

\* finishEconomicEvent(false): back to PENDING with a backoff, or DEAD.
Release(w) ==
    LET e == held[w].event IN
    /\ phase[w] = "releasing"
    /\ \/ /\ FinishTakes(w)
          /\ state' = [state EXCEPT ![e] =
                          IF attempts[e] >= MaxAttempts THEN "DEAD" ELSE "PENDING"]
          /\ due' = [due EXCEPT ![e] = FALSE]
       \/ FinishMisses(w) /\ UNCHANGED <<state, due>>
    /\ Move(w, "polling")
    /\ Forget(w)
    /\ UNCHANGED <<attempts, effectVars, recordVars, todo, abandons>>

\* The process stops, or a query outside the try blocks fails.
AbandonTick(w) ==
    /\ phase[w] # "idle"
    /\ abandons < MaxAbandons
    /\ abandons' = abandons + 1
    /\ Move(w, "idle")
    /\ todo' = [todo EXCEPT ![w] = {}]
    /\ Forget(w)
    /\ UNCHANGED <<rowVars, effectVars, recordVars>>

-----------------------------------------------------------------------------
(* Time and recovery                                                        *)

TimePasses(e) ==
    /\ state[e] \in {"PENDING", "CLAIMED"}
    /\ ~due[e]
    /\ due' = [due EXCEPT ![e] = TRUE]
    /\ UNCHANGED <<state, attempts, effectVars, recordVars>>
    /\ UNCHANGED <<workVars, abandons>>

\* Mutant of Recover: every recovery is recorded as the one that applied.
RecoverUnconditionally(e) ==
    /\ state[e] = "DEAD"
    /\ recovery[e] = "none"
    /\ ConsumeOnce(e, "recovery")
    /\ recovery' = [recovery EXCEPT ![e] = "applied"]
    /\ UNCHANGED <<rowVars, notified, notices, workVars, abandons>>

\* EconomicRecoveryService.recover; the event itself stays DEAD.
Recover(e) ==
    /\ state[e] = "DEAD"
    /\ recovery[e] = "none"
    /\ ConsumeOnce(e, "recovery")
    /\ recovery' = [recovery EXCEPT ![e] =
                       IF e \in consumed THEN "observed" ELSE "applied"]
    /\ UNCHANGED <<rowVars, notified, notices, workVars, abandons>>

-----------------------------------------------------------------------------
TickStep(w) ==
    \/ StartTick(w)
    \/ ScanUnnotified(w)
    \/ \E e \in Events : ProjectNotification(w, e) \/ SkipNotification(w, e)
    \/ StartPolling(w)
    \/ \E e \in Events : Poll(w, e)
    \/ EndTick(w)
    \/ Claim(w)
    \/ LoseClaim(w)
    \/ \E next \in {"publishing", "releasing"} : Consume(w, next)
    \/ ConsumeFails(w)
    \/ Publish(w)
    \/ PublishThrows(w)
    \/ Release(w)

Next ==
    \/ BookCapture
    \/ \E r \in RefundEvents : SettleRefund(r)
    \/ CancelOrder
    \/ \E w \in Workers : TickStep(w) \/ AbandonTick(w)
    \/ \E e \in Events : TimePasses(e) \/ Recover(e)

Spec == Init /\ [][Next]_vars

\* Ticks run every 10 s and clocks move on, in every process.  A projection
\* that is tried at every tick does not fail every time.
Fairness ==
    /\ \A w \in Workers : WF_vars(TickStep(w))
    /\ \A e \in Events : WF_vars(TimePasses(e))
    /\ \A w \in Workers, e \in Events : SF_vars(ProjectNotification(w, e))

FairSpec == Spec /\ Fairness

-----------------------------------------------------------------------------
(* Properties                                                               *)

Phases == {"idle", "scanning", "projecting", "polling", "claiming",
           "consuming", "publishing", "releasing"}

\* Every column and every local variable holds a value of its type, and no
\* row is claimed more than MaxAttempts times.
TypeOK ==
    /\ state    \in [Events -> {"NONE", "PENDING", "CLAIMED", "PUBLISHED", "DEAD"}]
    /\ attempts \in [Events -> 0..MaxAttempts]
    /\ due      \in [Events -> BOOLEAN]
    /\ consumed \subseteq Events
    /\ notified \subseteq Events
    /\ recovery \in [Events -> {"none", "applied", "observed"}]
    /\ runs     \in [Events -> Seq({"worker", "recovery"})]
    /\ notices  \in [Events -> Nat]
    /\ order    \in {"PENDING_PAYMENT", "CONFIRMED"} \cup Closed
    /\ payment  \in {"PENDING", "PAID", "REFUNDED"}
    /\ phase    \in [Workers -> Phases]
    /\ held     \in [Workers -> [event : Events, attempt : 0..MaxAttempts]]
    /\ inTime   \in [Workers -> BOOLEAN]
    /\ todo     \in [Workers -> SUBSET Events]
    /\ abandons \in 0..MaxAbandons

\* Delivery is at least once, the effect is not: whatever workers, stale
\* workers and the recovery do, and whichever commits are reported as errors,
\* the lifecycle effect of an event runs at most once, and exactly when there
\* is a receipt; its notification is projected at most once, and only after.
EffectOnce ==
    \A e \in Events :
        /\ Len(runs[e]) = IF e \in consumed THEN 1 ELSE 0
        /\ notices[e] = IF e \in notified THEN 1 ELSE 0
        /\ e \in notified => e \in consumed

\* Nothing is acknowledged that did not take effect.
PublishedIsApplied ==
    \A e \in Events : state[e] = "PUBLISHED" => e \in consumed

\* The audit row of a recovery tells the truth about who ran the effect, also
\* when a worker that outlived its lease runs it around the same time.
RecoveryTruthful ==
    \A e \in Events :
        /\ recovery[e] = "applied" <=> runs[e] = <<"recovery">>
        /\ recovery[e] # "none" => state[e] = "DEAD" /\ e \in consumed

\* At most one worker can still acknowledge or release a row.
Working(w) == phase[w] \in {"consuming", "publishing", "releasing"}

LeaseExclusive ==
    \A v, w \in Workers :
        /\ Working(v) /\ OwnsRow(v)
        /\ Working(w) /\ OwnsRow(w)
        /\ held[v].event = held[w].event
        => v = w

\* A row that waits for a worker can be claimed by one: the last attempt never
\* goes back to PENDING, where no claim would ever pick it up.
NoStrandedRow ==
    \A e \in Events : state[e] = "PENDING" => attempts[e] < MaxAttempts

\* Capture and refund events are consumed in any order.  Once every refund
\* settled has been consumed, the payment is REFUNDED exactly when they add up
\* to the capture, and then the order is closed whatever came later.
RefundClosesOrder ==
    /\ payment = "REFUNDED" => order \in Closed /\ SettledTotal = CapturedAmount
    /\ SettledTotal = CapturedAmount /\ (Appended \cap RefundEvents) \subseteq consumed
          => payment = "REFUNDED"

\* A closed order is never revived by a late event, and a terminal row keeps
\* its state whatever a stale worker or the recovery does.
NeverReopened ==
    [][/\ order \in Closed => order' \in Closed
       /\ \A e \in Events :
             state[e] \in {"PUBLISHED", "DEAD"} => state'[e] = state[e]]_vars

\* Every event is published or declared dead in the end: no crash, lost
\* answer or lost race leaves a row that nobody will ever touch again.
EventuallyDecided ==
    \A e \in Events : state[e] # "NONE" ~> state[e] \in {"PUBLISHED", "DEAD"}

\* Whoever ran the effect, the notification follows; also for events that are
\* DEAD and were recovered.
EventuallyNotified ==
    \A e \in Events : e \in consumed ~> e \in notified
-----------------------------------------------------------------------------
(* The order's life cycle                                                   *)

RowsIn(status) == {e \in Events : state[e] = status}

Lifecycle ==
    INSTANCE EconomicLifecycle WITH
        appended <- Appended, refunded <- SettledTotal, applied <- consumed,
        announced <- notified,
        published <- RowsIn("PUBLISHED"), dead <- RowsIn("DEAD")

\* Workers that stop, outlive their leases or are told of an error when their
\* transaction committed, and a recovery at any time, together implement
\* EconomicLifecycle: each event takes effect once and in one step, on the
\* refunds settled at that moment, and is acknowledged and announced only
\* afterwards.
LifecyclePromise == Lifecycle!Spec
=============================================================================
