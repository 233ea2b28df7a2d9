-------------------------- MODULE EconomicLifecycle --------------------------
(***************************************************************************)
(* What the outbox promises of an order, as if there were no workers,      *)
(* leases, attempts and lost answers: every event takes effect at most     *)
(* once and in one step, is announced once and acknowledged only after     *)
(* that, and what is acknowledged or given up stays so.  Giving up an      *)
(* event does not keep it from taking effect later.                        *)
(***************************************************************************)
EXTENDS Integers

CONSTANTS CaptureEvent, RefundEvents, RefundAmount, CapturedAmount

VARIABLES
    order, payment,     \* their statuses
    appended,           \* events that are in the outbox
    refunded,           \* what the refunds among them gave back
    applied,            \* events that took effect
    announced,          \* events that were projected
    published, dead     \* events acknowledged, and given up

outbox   == <<appended, refunded>>
progress == <<applied, announced, published, dead>>
vars     == <<order, payment, appended, refunded, applied, announced, published, dead>>

Init ==
    /\ order = "PENDING_PAYMENT"
    /\ payment = "PENDING"
    /\ appended = {}
    /\ refunded = 0
    /\ applied = {}
    /\ announced = {}
    /\ published = {}
    /\ dead = {}

Capture ==
    /\ CaptureEvent \notin appended
    /\ payment = "PENDING"
    /\ payment' = "PAID"
    /\ appended' = appended \cup {CaptureEvent}
    /\ UNCHANGED <<order, refunded, progress>>

Refund(r) ==
    /\ CaptureEvent \in appended
    /\ r \notin appended
    /\ appended' = appended \cup {r}
    /\ refunded' = refunded + RefundAmount[r]
    /\ refunded' <= CapturedAmount
    /\ UNCHANGED <<order, payment, progress>>

Cancel ==
    /\ order' = "CANCELLED"
    /\ UNCHANGED <<payment, outbox, progress>>

\* The effect of an event.
Confirm ==
    /\ payment = "PAID"
    /\ \/ order = "PENDING_PAYMENT" /\ order' = "CONFIRMED"
       \/ order = "CONFIRMED" /\ UNCHANGED order
    /\ UNCHANGED payment

CloseIfRefunded ==
    IF refunded = CapturedAmount
    THEN order' = "REFUNDED" /\ payment' = "REFUNDED"
    ELSE UNCHANGED <<order, payment>>

Apply(e) ==
    /\ e \in appended \ applied
    /\ applied' = applied \cup {e}
    /\ IF e = CaptureEvent THEN Confirm ELSE CloseIfRefunded
    /\ UNCHANGED <<outbox, announced, published, dead>>

Announce(e) ==
    /\ e \in applied \ announced
    /\ announced' = announced \cup {e}
    /\ UNCHANGED <<order, payment, outbox, applied, published, dead>>

Publish(e) ==
    /\ e \in applied \ (published \cup dead)
    /\ published' = published \cup {e}
    /\ UNCHANGED <<order, payment, outbox, applied, announced, dead>>

\* Rows that ran out of attempts; a tick may find several.
GiveUp(events) ==
    /\ events \cap (published \cup dead) = {}
    /\ dead' = dead \cup events
    /\ UNCHANGED <<order, payment, outbox, applied, announced, published>>

Next ==
    \/ Capture
    \/ \E r \in RefundEvents : Refund(r)
    \/ Cancel
    \/ \E e \in appended : Apply(e) \/ Announce(e) \/ Publish(e)
    \/ \E events \in SUBSET appended : GiveUp(events)

Spec == Init /\ [][Next]_vars
=============================================================================
