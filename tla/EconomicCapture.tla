--------------------------- MODULE EconomicCapture ---------------------------
(***************************************************************************)
(* Taking the payment of one order and booking it                          *)
(* (apps/api/src/modules/payments/economic-payment-intent.ts,              *)
(* economic-payments.service.ts and finances/economic-capture.ts).         *)
(*                                                                         *)
(* Requests of the buyer create the payment at one provider, all with the  *)
(* same two operations: the one that claims PAYMENT_CREATE sends the only  *)
(* POST, and the buyer gets to see the payment once it is bound to the     *)
(* order.  A Stripe payment is charged when the buyer confirms it; a       *)
(* PayPal order is approved by the buyer and captured by one request that  *)
(* claims CAPTURE.  Requests and webhooks book what the provider shows.    *)
(***************************************************************************)
EXTENDS Integers, FiniteSets

CONSTANTS
    Requests,       \* requests of the buyer in progress
    Hooks,          \* webhook deliveries in progress
    PaymentIds,     \* identities the provider gives to payments
    None            \* no provider, no payment

Providers == {"STRIPE", "PAYPAL"}
Callers   == Requests \cup Hooks

ASSUME CaptureParameters ==
    /\ Requests \cap Hooks = {}
    /\ None \notin PaymentIds \cup Providers

VARIABLES
    status,         \* is the order PENDING_PAYMENT?
    provider,       \* provider of the operations and of the payment
    createOp,       \* state of the PAYMENT_CREATE operation
    captureOp,      \* state of the CAPTURE operation
    bound,          \* stripePaymentIntentId or paypalOrderId of the payment
    payment,        \* status of the payment row
    booked,         \* payment the EconomicCapture is about
    bookings,       \* history: how often it was booked
    made,           \* provider: per payment, what became of it
    released,       \* payments whose secret or approval page the buyer has
    creating,       \* callers whose creation POST travels
    capturing,      \* callers whose capture POST travels
    disturbed,      \* payments refunded elsewhere or disputed
    phase,          \* per caller: where its execution is
    found           \* per caller: the payment it was told of

orderVars    == <<status, provider, payment, bound>>
opVars       == <<createOp, captureOp>>
bookVars     == <<booked, bookings>>
providerVars == <<made, released, creating, capturing, disturbed>>
callVars     == <<phase, found>>
vars == <<orderVars, opVars, bookVars, providerVars, callVars>>

Init ==
    /\ status = "PENDING_PAYMENT"
    /\ provider = None
    /\ createOp = "none" /\ captureOp = "none"
    /\ bound = None
    /\ payment = "none"
    /\ booked = None
    /\ bookings = 0
    /\ made = [i \in PaymentIds |-> "none"]
    /\ released = {}
    /\ creating = {} /\ capturing = {} /\ disturbed = {}
    /\ phase = [c \in Callers |-> "idle"]
    /\ found = [c \in Callers |-> None]

Unresolved(state) == state \in {"DISPATCHED", "NEEDS_RECONCILIATION"}

Quarantined(state) ==
    IF state = "DISPATCHED" THEN "NEEDS_RECONCILIATION" ELSE state

GoTo(c, where) == phase' = [phase EXCEPT ![c] = where]

Return(c) ==
    /\ GoTo(c, "idle")
    /\ found' = [found EXCEPT ![c] = None]

\* The process stops, or the database or the provider cannot be reached, where
\* nothing is recorded about it.
Abandon(c) ==
    /\ phase[c] # "idle"
    /\ Return(c)
    /\ UNCHANGED <<orderVars, opVars, bookVars, providerVars>>

\* Cancellation, by anyone: neither the payment nor its operations change.
CancelOrder ==
    /\ status' = "CLOSED"
    /\ UNCHANGED <<provider, payment, bound, opVars, bookVars, providerVars,
                   callVars>>

\* quarantineExpiredOperations
Quarantine ==
    /\ \/ createOp = "DISPATCHED" /\ createOp' = "NEEDS_RECONCILIATION"
          /\ UNCHANGED captureOp
       \/ captureOp = "DISPATCHED" /\ captureOp' = "NEEDS_RECONCILIATION"
          /\ UNCHANGED createOp
    /\ UNCHANGED <<orderVars, bookVars, providerVars, callVars>>

(***************************************************************************)
(* createEconomicPayment.                                                  *)
(***************************************************************************)

\* The first transaction selects the provider, prepares the operations and the
\* payment row; a payment that is bound is read again, another is created.
Prepare(c, p) ==
    /\ phase[c] = "idle"
    /\ status = "PENDING_PAYMENT"
    /\ payment \in {"none", "PENDING"}
    /\ provider \in {None, p}
    /\ bound # None => createOp = "SUCCEEDED"
    /\ provider' = p
    /\ createOp' = IF createOp = "none" THEN "PREPARED" ELSE createOp
    /\ captureOp' = IF captureOp = "none" THEN "PREPARED" ELSE captureOp
    /\ payment' = "PENDING"
    /\ GoTo(c, IF bound = None THEN "claim" ELSE "respond")
    /\ found' = [found EXCEPT ![c] = bound]
    /\ UNCHANGED <<status, bound, bookVars, providerVars>>

ClaimCreation(c) ==
    /\ phase[c] = "claim"
    /\ createOp = "PREPARED"
    /\ createOp' = "DISPATCHED"
    /\ GoTo(c, "create")
    /\ UNCHANGED <<captureOp, found, orderVars, bookVars, providerVars>>

\* Creation is in progress or awaits reconciliation.
CreationConflict(c) ==
    /\ phase[c] = "claim"
    /\ createOp # "PREPARED"
    /\ Return(c)
    /\ UNCHANGED <<orderVars, opVars, bookVars, providerVars>>

PostCreation(c) ==
    /\ phase[c] = "create"
    /\ creating' = creating \cup {c}
    /\ GoTo(c, "created")
    /\ UNCHANGED <<found, made, released, capturing, disturbed, orderVars,
                   opVars, bookVars>>

\* The provider makes the payment, and answers if the request still waits.
MakePayment(c, i) ==
    /\ c \in creating
    /\ made[i] = "none"
    /\ creating' = creating \ {c}
    /\ made' = [made EXCEPT ![i] = "open"]
    /\ GoTo(c, IF phase[c] = "created" THEN "bind" ELSE phase[c])
    /\ found' = [found EXCEPT ![c] = IF phase[c] = "created" THEN i ELSE @]
    /\ UNCHANGED <<released, capturing, disturbed, orderVars, opVars,
                   bookVars>>

\* A POST is lost, or refused.
LosePost(c) ==
    /\ c \in creating \cup capturing
    /\ creating' = creating \ {c}
    /\ capturing' = capturing \ {c}
    /\ UNCHANGED <<made, released, disturbed, orderVars, opVars, bookVars,
                   callVars>>

\* Mutant of Bind: the capture is not claimed before the secret is released.
BindOnly(c) ==
    /\ phase[c] = "bind"
    /\ Unresolved(createOp)
    /\ payment = "PENDING" /\ bound = None
    /\ createOp' = "SUCCEEDED"
    /\ bound' = found[c]
    /\ GoTo(c, "respond")
    /\ UNCHANGED <<captureOp, status, provider, payment, found, bookVars,
                   providerVars>>

\* The second transaction.  The buyer can charge a Stripe payment at once, so
\* the capture is claimed with it.
Bind(c) ==
    /\ phase[c] = "bind"
    /\ Unresolved(createOp)
    /\ payment = "PENDING" /\ bound = None
    /\ provider = "STRIPE" => captureOp = "PREPARED"
    /\ createOp' = "SUCCEEDED"
    /\ bound' = found[c]
    /\ captureOp' = IF provider = "STRIPE" THEN "DISPATCHED" ELSE captureOp
    /\ GoTo(c, "respond")
    /\ UNCHANGED <<status, provider, payment, found, bookVars, providerVars>>

\* The answer to the creation is refused or too late, or cannot be bound.
FailCreation(c) ==
    /\ phase[c] \in {"create", "created", "bind"}
    /\ createOp' = Quarantined(createOp)
    /\ Return(c)
    /\ UNCHANGED <<captureOp, orderVars, bookVars, providerVars>>

\* The buyer gets the client secret or the approval page.
Respond(c) ==
    /\ phase[c] = "respond"
    /\ released' = released \cup {found[c]}
    /\ Return(c)
    /\ UNCHANGED <<made, creating, capturing, disturbed, orderVars, opVars,
                   bookVars>>

\* The buyer confirms: Stripe charges, PayPal takes note of the approval.
Pay(i) ==
    /\ i \in released
    /\ made[i] = "open"
    /\ made' = [made EXCEPT ![i] =
                  IF provider = "STRIPE" THEN "charged" ELSE "approved"]
    /\ UNCHANGED <<released, creating, capturing, disturbed, orderVars, opVars,
                   bookVars, callVars>>

\* Money that was taken goes back outside of the service, or is disputed, which
\* counts at Stripe only.
Disturb(i) ==
    /\ made[i] = "charged"
    /\ disturbed' = disturbed \cup {i}
    /\ UNCHANGED <<made, released, creating, capturing, orderVars, opVars,
                   bookVars, callVars>>

(***************************************************************************)
(* capturePaypal.  Only the request that claims the operation asks for the *)
(* money; any other looks whether it was taken.                            *)
(***************************************************************************)
StartCapture(c) ==
    /\ phase[c] = "idle"
    /\ provider = "PAYPAL" /\ bound \in released
    /\ captureOp' = IF captureOp = "PREPARED" THEN "DISPATCHED" ELSE captureOp
    /\ GoTo(c, IF captureOp = "PREPARED" THEN "capture" ELSE "look")
    /\ found' = [found EXCEPT ![c] = bound]
    /\ UNCHANGED <<createOp, orderVars, bookVars, providerVars>>

PostCapture(c) ==
    /\ phase[c] = "capture"
    /\ capturing' = capturing \cup {c}
    /\ GoTo(c, "captured")
    /\ UNCHANGED <<found, made, released, creating, disturbed, orderVars,
                   opVars, bookVars>>

\* PayPal takes the money of an approved order, and answers.
TakeMoney(c) ==
    /\ c \in capturing
    /\ made[bound] = "approved"
    /\ capturing' = capturing \ {c}
    /\ made' = [made EXCEPT ![bound] = "charged"]
    /\ GoTo(c, IF phase[c] = "captured" THEN "verify" ELSE phase[c])
    /\ UNCHANGED <<found, released, creating, disturbed, orderVars, opVars,
                   bookVars>>

FailCapture(c) ==
    /\ phase[c] \in {"capture", "captured"}
    /\ captureOp' = Quarantined(captureOp)
    /\ Return(c)
    /\ UNCHANGED <<createOp, orderVars, bookVars, providerVars>>

LookUp(c) ==
    /\ phase[c] = "look"
    /\ made[found[c]] = "charged"
    /\ GoTo(c, "verify")
    /\ UNCHANGED <<found, orderVars, opVars, bookVars, providerVars>>

(***************************************************************************)
(* A webhook tells of a charge, once or again and again until it was       *)
(* handled; while the payment is not bound it is refused.                  *)
(***************************************************************************)
Deliver(h, i) ==
    /\ phase[h] = "idle"
    /\ made[i] = "charged"
    /\ bound = i
    /\ GoTo(h, "verify")
    /\ found' = [found EXCEPT ![h] = i]
    /\ UNCHANGED <<orderVars, opVars, bookVars, providerVars>>

(***************************************************************************)
(* verifyAndBookEconomicCapture: the evidence is read before and outside   *)
(* of the transaction that books it.  A charge that was disputed, or of    *)
(* which anything went back, is none.                                      *)
(***************************************************************************)
Dispatched == Unresolved(captureOp) \/ captureOp = "SUCCEEDED"

ReadEvidence(c) ==
    /\ phase[c] = "verify"
    /\ Dispatched
    /\ made[found[c]] = "charged" /\ found[c] \notin disturbed
    /\ GoTo(c, "book")
    /\ UNCHANGED <<found, orderVars, opVars, bookVars, providerVars>>

NoEvidence(c) ==
    /\ phase[c] = "verify"
    /\ captureOp' = Quarantined(captureOp)
    /\ Return(c)
    /\ UNCHANGED <<createOp, orderVars, bookVars, providerVars>>

\* Mutant of Book: it trusts what was read before the evidence.
BookBlindly(c) ==
    /\ phase[c] = "book"
    /\ captureOp' = "SUCCEEDED"
    /\ payment' = "PAID"
    /\ booked' = found[c]
    /\ bookings' = bookings + 1
    /\ Return(c)
    /\ UNCHANGED <<status, provider, bound, createOp, providerVars>>

\* Mutant of Book: a quarantined capture is left to an administrator.
BookFresh(c) ==
    /\ phase[c] = "book"
    /\ booked = None
    /\ payment = "PENDING" /\ bound = found[c]
    /\ captureOp = "DISPATCHED"
    /\ captureOp' = "SUCCEEDED"
    /\ payment' = "PAID"
    /\ booked' = found[c]
    /\ bookings' = bookings + 1
    /\ Return(c)
    /\ UNCHANGED <<status, provider, bound, createOp, providerVars>>

Book(c) ==
    /\ phase[c] = "book"
    /\ booked = None
    /\ payment = "PENDING" /\ bound = found[c]
    /\ Unresolved(captureOp)
    /\ captureOp' = "SUCCEEDED"
    /\ payment' = "PAID"
    /\ booked' = found[c]
    /\ bookings' = bookings + 1
    /\ Return(c)
    /\ UNCHANGED <<status, provider, bound, createOp, providerVars>>

\* Somebody booked it since.
AlreadyBooked(c) ==
    /\ phase[c] = "book"
    /\ booked # None
    /\ Return(c)
    /\ UNCHANGED <<orderVars, opVars, bookVars, providerVars>>

Next ==
    \/ CancelOrder \/ Quarantine
    \/ \E c \in Requests :
          \/ \E p \in Providers : Prepare(c, p)
          \/ ClaimCreation(c) \/ CreationConflict(c) \/ PostCreation(c)
          \/ \E i \in PaymentIds : MakePayment(c, i)
          \/ Bind(c) \/ FailCreation(c) \/ Respond(c)
          \/ StartCapture(c) \/ PostCapture(c) \/ TakeMoney(c)
          \/ FailCapture(c) \/ LookUp(c) \/ LosePost(c)
    \/ \E i \in PaymentIds : Pay(i) \/ Disturb(i) \/ \E h \in Hooks : Deliver(h, i)
    \/ \E c \in Callers : \/ ReadEvidence(c) \/ NoEvidence(c) \/ Book(c)
                          \/ AlreadyBooked(c) \/ Abandon(c)

Spec == Init /\ [][Next]_vars

(***************************************************************************)
(* Providers deliver a webhook again until it was handled, and neither the *)
(* provider nor the database fails every time.                             *)
(***************************************************************************)
Fairness ==
    \A h \in Hooks :
        /\ \A i \in PaymentIds : WF_vars(Deliver(h, i))
        /\ SF_vars(ReadEvidence(h))
        /\ SF_vars(Book(h))

FairSpec == Spec /\ Fairness

(***************************************************************************)
(* Money that was taken can be booked: a charged payment is the one bound  *)
(* to the order, so there is never a second one, and its capture was       *)
(* dispatched before the buyer could pay, cancelled order or not; and only *)
(* money that was taken is booked.                                         *)
(***************************************************************************)
ChargeIsBookable ==
    /\ \A i \in PaymentIds : made[i] = "charged" =>
          /\ bound = i
          /\ Dispatched
          /\ payment = "PENDING" \/ booked = i
    /\ booked # None => booked = bound /\ made[booked] = "charged"

(***************************************************************************)
(* Requests and webhooks that saw the same evidence book it once: one      *)
(* capture, one event, together with the state of the operation and the    *)
(* status of the payment.                                                  *)
(***************************************************************************)
BookedOnce ==
    /\ bookings = IF booked = None THEN 0 ELSE 1
    /\ payment = "PAID" <=> booked # None
    /\ captureOp = "SUCCEEDED" <=> booked # None

(***************************************************************************)
(* Money that was taken is booked in the end, whichever request stopped    *)
(* where and however often the evidence could not be read, unless it went  *)
(* back elsewhere or was disputed, which is left to reconciliation.        *)
(***************************************************************************)
EventuallyBooked ==
    \A i \in PaymentIds : made[i] = "charged" ~> booked = i \/ i \in disturbed

(***************************************************************************)
(* The abstract request: a payment is asked for, made, charged and booked. *)
(***************************************************************************)
Stage ==
    CASE captureOp = "SUCCEEDED"         -> "recorded"
      [] createOp \in {"none", "PREPARED"} -> "prepared"
      [] OTHER                           -> "asked"

Request ==
    INSTANCE ProviderRequest WITH
        Identities <- PaymentIds, None <- None, stage <- Stage,
        made <- {i \in PaymentIds : made[i] # "none"},
        effective <- {i \in PaymentIds : made[i] = "charged"},
        recorded <- booked, records <- bookings

(***************************************************************************)
(* All requests and webhooks together are one request to the provider: it  *)
(* makes at most one payment for the order, and that one is booked once,   *)
(* after it was charged.                                                   *)
(***************************************************************************)
RequestPromise == Request!Spec
=============================================================================
