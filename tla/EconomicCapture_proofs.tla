------------------------ MODULE EconomicCapture_proofs ------------------------
(***************************************************************************)
(* Money that was taken can be booked, and is booked once, for any number  *)
(* of requests, webhook deliveries, payments, crashes and lost answers.    *)
(***************************************************************************)
EXTENDS EconomicCapture, TLAPS

OpStates == {"none", "PREPARED", "DISPATCHED", "NEEDS_RECONCILIATION", "SUCCEEDED"}

Phases == {"idle", "claim", "create", "created", "bind", "respond", "capture",
           "captured", "look", "verify", "book"}

Types ==
    /\ status \in {"PENDING_PAYMENT", "CLOSED"}
    /\ provider \in Providers \cup {None}
    /\ createOp \in OpStates /\ captureOp \in OpStates
    /\ bound \in PaymentIds \cup {None}
    /\ payment \in {"none", "PENDING", "PAID"}
    /\ booked \in PaymentIds \cup {None}
    /\ bookings \in Nat
    /\ made \in [PaymentIds -> {"none", "open", "approved", "charged"}]
    /\ released \subseteq PaymentIds
    /\ creating \subseteq Callers /\ capturing \subseteq Callers
    /\ disturbed \subseteq PaymentIds
    /\ phase \in [Callers -> Phases]
    /\ found \in [Callers -> PaymentIds \cup {None}]

\* The operations belong to the selected provider, and a payment bound to the
\* order is one the provider can no longer charge behind the back of the
\* capture operation: at Stripe it was dispatched in the same transaction.
BoundIsCovered ==
    /\ createOp # "none" => provider \in Providers
    /\ bound # None => provider \in Providers /\ payment # "none"
    /\ bound # None /\ provider = "STRIPE" => Dispatched

\* The buyer, and every execution that looks at the payment, has the one that
\* is bound; only that one can be approved or charged.
OnlyTheBound ==
    /\ released \subseteq {bound} \ {None}
    /\ \A i \in PaymentIds : made[i] \in {"approved", "charged"} => i = bound
    /\ \A c \in Callers : phase[c] = "bind" => found[c] \in PaymentIds
    /\ \A c \in Callers :
          phase[c] \in {"respond", "capture", "captured", "look", "verify", "book"}
             => found[c] = bound /\ bound \in PaymentIds

\* Who asks PayPal for the money has claimed the capture, and who books has
\* seen the charge.
Claimed ==
    /\ \A c \in Callers :
          phase[c] \in {"capture", "captured"} => Dispatched /\ bound \in PaymentIds
    /\ capturing # {} => Dispatched /\ bound \in PaymentIds
    /\ \A c \in Callers : phase[c] = "book" => made[found[c]] = "charged"

IInv ==
    /\ Types
    /\ BoundIsCovered
    /\ OnlyTheBound
    /\ Claimed
    /\ ChargeIsBookable
    /\ BookedOnce

-----------------------------------------------------------------------------
LEMMA InitInv == Init => IInv
BY CaptureParameters
   DEF Init, IInv, Types, BoundIsCovered, OnlyTheBound, Claimed, ChargeIsBookable,
       BookedOnce, OpStates, Phases, Providers, Dispatched, Unresolved

\* The request of a buyer that creates, binds and hands out the payment.
LEMMA CreationInv ==
  ASSUME IInv, NEW c \in Requests,
         \/ \E p \in Providers : Prepare(c, p)
         \/ ClaimCreation(c) \/ CreationConflict(c) \/ PostCreation(c)
         \/ \E i \in PaymentIds : MakePayment(c, i)
         \/ Bind(c) \/ FailCreation(c) \/ Respond(c)
  PROVE  IInv'
<1> c \in Callers
  BY DEF Callers
<1> USE CaptureParameters
    DEF IInv, Types, BoundIsCovered, OnlyTheBound, Claimed, ChargeIsBookable,
        BookedOnce, OpStates, Phases, Providers, Dispatched, Unresolved,
        Quarantined, GoTo, Return, orderVars, opVars, bookVars, providerVars, callVars
<1>1. CASE \E p \in Providers : Prepare(c, p)
  BY <1>1 DEF Prepare
<1>2. CASE ClaimCreation(c)
  BY <1>2 DEF ClaimCreation
<1>3. CASE CreationConflict(c)
  BY <1>3 DEF CreationConflict
<1>4. CASE PostCreation(c)
  BY <1>4 DEF PostCreation
<1>5. CASE \E i \in PaymentIds : MakePayment(c, i)
  BY <1>5 DEF MakePayment
<1>6. CASE Bind(c)
  BY <1>6 DEF Bind
<1>7. CASE FailCreation(c)
  BY <1>7 DEF FailCreation
<1>8. CASE Respond(c)
  BY <1>8 DEF Respond
<1>9. QED
  BY <1>1, <1>2, <1>3, <1>4, <1>5, <1>6, <1>7, <1>8

\* The request that captures a PayPal order, and POSTs that are lost.
LEMMA CaptureInv ==
  ASSUME IInv, NEW c \in Requests,
         \/ StartCapture(c) \/ PostCapture(c) \/ TakeMoney(c)
         \/ FailCapture(c) \/ LookUp(c) \/ LosePost(c)
  PROVE  IInv'
<1> c \in Callers
  BY DEF Callers
<1> USE CaptureParameters
    DEF IInv, Types, BoundIsCovered, OnlyTheBound, Claimed, ChargeIsBookable,
        BookedOnce, OpStates, Phases, Providers, Dispatched, Unresolved,
        Quarantined, GoTo, Return, orderVars, opVars, bookVars, providerVars, callVars
<1>1. CASE StartCapture(c)
  BY <1>1 DEF StartCapture
<1>2. CASE PostCapture(c)
  BY <1>2 DEF PostCapture
<1>3. CASE TakeMoney(c)
  BY <1>3 DEF TakeMoney
<1>4. CASE FailCapture(c)
  BY <1>4 DEF FailCapture
<1>5. CASE LookUp(c)
  BY <1>5 DEF LookUp
<1>6. CASE LosePost(c)
  BY <1>6 DEF LosePost
<1>7. QED
  BY <1>1, <1>2, <1>3, <1>4, <1>5, <1>6

\* Anybody who was told of a charge verifies and books it.
LEMMA BookingInv ==
  ASSUME IInv, NEW c \in Callers,
         \/ ReadEvidence(c) \/ NoEvidence(c) \/ Book(c)
         \/ AlreadyBooked(c) \/ Abandon(c)
  PROVE  IInv'
<1> USE CaptureParameters
    DEF IInv, Types, BoundIsCovered, OnlyTheBound, Claimed, ChargeIsBookable,
        BookedOnce, OpStates, Phases, Providers, Dispatched, Unresolved,
        Quarantined, GoTo, Return, orderVars, opVars, bookVars, providerVars, callVars
<1>1. CASE ReadEvidence(c)
  BY <1>1 DEF ReadEvidence
<1>2. CASE NoEvidence(c)
  BY <1>2 DEF NoEvidence
<1>3. CASE Book(c)
  BY <1>3 DEF Book
<1>4. CASE AlreadyBooked(c)
  BY <1>4 DEF AlreadyBooked
<1>5. CASE Abandon(c)
  BY <1>5 DEF Abandon
<1>6. QED
  BY <1>1, <1>2, <1>3, <1>4, <1>5

\* The buyer pays, the provider tells of it, the order is cancelled and
\* operations are quarantined at any moment.
LEMMA OtherInv ==
  ASSUME IInv,
         \/ CancelOrder \/ Quarantine
         \/ \E i \in PaymentIds : Pay(i) \/ Disturb(i) \/ \E h \in Hooks : Deliver(h, i)
  PROVE  IInv'
<1> USE CaptureParameters
    DEF IInv, Types, BoundIsCovered, OnlyTheBound, Claimed, ChargeIsBookable,
        BookedOnce, OpStates, Phases, Providers, Dispatched, Unresolved,
        Quarantined, GoTo, Return, orderVars, opVars, bookVars, providerVars, callVars
<1>1. CASE CancelOrder
  BY <1>1 DEF CancelOrder
<1>2. CASE Quarantine
  BY <1>2 DEF Quarantine
<1>3. CASE \E i \in PaymentIds : Pay(i)
  BY <1>3 DEF Pay
<1>4. CASE \E i \in PaymentIds : Disturb(i)
  BY <1>4 DEF Disturb
<1>5. CASE \E i \in PaymentIds, h \in Hooks : Deliver(h, i)
  BY <1>5 DEF Deliver, Callers
<1>6. QED
  BY <1>1, <1>2, <1>3, <1>4, <1>5

LEMMA StutterInv ==
  ASSUME IInv, UNCHANGED vars
  PROVE  IInv'
BY DEF IInv, Types, BoundIsCovered, OnlyTheBound, Claimed, ChargeIsBookable, BookedOnce,
       Dispatched, Unresolved, vars, orderVars, opVars, bookVars, providerVars, callVars

(***************************************************************************)
(* The invariant of the payment's creation, charge and booking             *)
(* (economic-payment-intent.ts, economic-capture.ts) holds in every        *)
(* reachable state.                                                        *)
(***************************************************************************)
THEOREM Inductive == Spec => []IInv
<1>1. ASSUME IInv, [Next]_vars PROVE IInv'
  <2>1. CASE CancelOrder \/ Quarantine
    BY <1>1, <2>1, OtherInv
  <2>2. CASE \E c \in Requests :
               \/ \E p \in Providers : Prepare(c, p)
               \/ ClaimCreation(c) \/ CreationConflict(c) \/ PostCreation(c)
               \/ \E i \in PaymentIds : MakePayment(c, i)
               \/ Bind(c) \/ FailCreation(c) \/ Respond(c)
               \/ StartCapture(c) \/ PostCapture(c) \/ TakeMoney(c)
               \/ FailCapture(c) \/ LookUp(c) \/ LosePost(c)
    BY <1>1, <2>2, CreationInv, CaptureInv
  <2>3. CASE \E i \in PaymentIds : Pay(i) \/ Disturb(i) \/ \E h \in Hooks : Deliver(h, i)
    BY <1>1, <2>3, OtherInv
  <2>4. CASE \E c \in Callers : \/ ReadEvidence(c) \/ NoEvidence(c) \/ Book(c)
                                \/ AlreadyBooked(c) \/ Abandon(c)
    BY <1>1, <2>4, BookingInv
  <2>5. CASE UNCHANGED vars
    BY <1>1, <2>5, StutterInv
  <2>6. QED
    BY <1>1, <2>1, <2>2, <2>3, <2>4, <2>5 DEF Next
<1>2. QED
  BY InitInv, <1>1, PTL DEF Spec

(***************************************************************************)
(* A charged payment is the one bound to the order, and its capture was    *)
(* dispatched before the buyer could pay (createEconomicPayment,           *)
(* capturePaypal): the money can always be booked.                         *)
(***************************************************************************)
THEOREM ChargesAreBookable == Spec => []ChargeIsBookable
<1>1. IInv => ChargeIsBookable
  BY DEF IInv
<1>2. QED
  BY Inductive, <1>1, PTL

(***************************************************************************)
(* Racing requests and webhooks book a capture once, together with the     *)
(* operation and the payment (verifyAndBookEconomicCapture).               *)
(***************************************************************************)
THEOREM CapturedOnce == Spec => []BookedOnce
<1>1. IInv => BookedOnce
  BY DEF IInv
<1>2. QED
  BY Inductive, <1>1, PTL
-----------------------------------------------------------------------------
(* One request to the provider                                              *)

\* Payments the provider made.
Made == {i \in PaymentIds : made[i] # "none"}

\* Payments that were charged.
Charged == {i \in PaymentIds : made[i] = "charged"}

\* One request creates the payment, with one POST, of which the provider makes
\* at most one payment.
OnePayment ==
    /\ createOp \in {"none", "PREPARED"} => creating = {} /\ Made = {}
    /\ \A c \in Callers : phase[c] = "create" =>
          createOp \notin {"none", "PREPARED"} /\ creating = {} /\ Made = {}
    /\ \A c, d \in Callers : phase[c] = "create" /\ phase[d] = "create" => c = d
    /\ creating # {} => Made = {}
    /\ \A c, d \in creating : c = d
    /\ \A i, j \in Made : i = j

\* Steps after the creation, and steps of others, that leave it alone.
LEMMA SameCreation ==
  ASSUME OnePayment, Made' = Made, creating' = creating,
         createOp' \in {"none", "PREPARED"} <=> createOp \in {"none", "PREPARED"},
         \A c \in Callers : phase'[c] = "create" => phase[c] = "create"
  PROVE  OnePayment'
BY DEF OnePayment

\* The request that creates the payment.
LEMMA CreationOnce ==
  ASSUME IInv, OnePayment, NEW c \in Requests,
         \/ \E p \in Providers : Prepare(c, p)
         \/ ClaimCreation(c) \/ CreationConflict(c) \/ PostCreation(c)
         \/ \E i \in PaymentIds : MakePayment(c, i)
         \/ Bind(c) \/ FailCreation(c) \/ Respond(c)
  PROVE  OnePayment'
<1>c. c \in Callers
  BY DEF Callers
<1>1. CASE \E p \in Providers : Prepare(c, p)
  <2>1. Made' = Made /\ creating' = creating
    BY <1>1 DEF Prepare, providerVars, Made
  <2>2. \A d \in Callers : phase'[d] = "create" => phase[d] = "create"
    BY <1>1, <1>c DEF IInv, Types, Prepare, GoTo
  <2>3. createOp' \in {"none", "PREPARED"} <=> createOp \in {"none", "PREPARED"}
    BY <1>1 DEF Prepare
  <2>4. QED
    BY <2>1, <2>2, <2>3, SameCreation
<1>2. CASE ClaimCreation(c)
  <2>1. Made' = Made /\ creating' = creating /\ createOp' = "DISPATCHED"
    BY <1>2 DEF ClaimCreation, providerVars, Made
  <2>2. Made = {} /\ creating = {} /\ \A d \in Callers : phase[d] # "create"
    BY <1>2 DEF ClaimCreation, OnePayment
  <2>3. \A d \in Callers : phase'[d] = "create" => d = c
    BY <1>2, <1>c, <2>2 DEF IInv, Types, ClaimCreation, GoTo
  <2>4. QED
    BY <2>1, <2>2, <2>3 DEF OnePayment
<1>3. CASE PostCreation(c)
  <2>1. Made = {} /\ creating = {} /\ createOp \notin {"none", "PREPARED"}
    BY <1>3, <1>c DEF PostCreation, OnePayment
  <2>2. Made' = {} /\ creating' = {c} /\ createOp' = createOp
    BY <1>3, <2>1 DEF PostCreation, opVars, Made
  <2>3. \A d \in Callers : phase'[d] # "create"
    BY <1>3, <1>c DEF IInv, Types, PostCreation, GoTo, OnePayment
  <2>4. QED
    BY <2>1, <2>2, <2>3 DEF OnePayment
<1>4. ASSUME NEW i \in PaymentIds, MakePayment(c, i) PROVE OnePayment'
  <2>1. creating = {c} /\ Made = {} /\ createOp \notin {"none", "PREPARED"}
    BY <1>4 DEF MakePayment, OnePayment
  <2>2. Made' = {i} /\ creating' = {} /\ createOp' = createOp
    BY <1>4, <2>1 DEF IInv, Types, MakePayment, opVars, Made
  <2>3. \A d \in Callers : phase[d] # "create"
    BY <2>1 DEF OnePayment
  <2>4. \A d \in Callers : phase'[d] # "create"
    BY <1>4, <1>c, <2>3 DEF IInv, Types, MakePayment, GoTo
  <2>5. QED
    BY <2>1, <2>2, <2>4 DEF OnePayment
<1>5. CASE CreationConflict(c) \/ Bind(c) \/ FailCreation(c) \/ Respond(c)
  <2>1. Made' = Made /\ creating' = creating
    BY <1>5 DEF CreationConflict, Bind, FailCreation, Respond, providerVars, Made
  <2>2. \A d \in Callers : phase'[d] = "create" => phase[d] = "create"
    BY <1>5, <1>c DEF IInv, Types, CreationConflict, Bind, FailCreation, Respond, GoTo, Return
  <2>3. createOp' \in {"none", "PREPARED"} <=> createOp \in {"none", "PREPARED"}
    BY <1>5 DEF CreationConflict, Bind, FailCreation, Respond, Quarantined, Unresolved, opVars
  <2>4. QED
    BY <2>1, <2>2, <2>3, SameCreation
<1>6. QED
  BY <1>1, <1>2, <1>3, <1>4, <1>5

\* Capturing, booking, paying and everybody else.
LEMMA NextOnePayment ==
  ASSUME IInv, OnePayment, [Next]_vars
  PROVE  OnePayment'
<1>1. ASSUME NEW c \in Requests, LosePost(c) PROVE OnePayment'
  <2>1. Made' = Made /\ creating' \subseteq creating /\ createOp' = createOp /\ phase' = phase
    BY <1>1 DEF LosePost, opVars, callVars, Made
  <2>2. QED
    BY <2>1 DEF OnePayment
<1>2. ASSUME NEW c \in Requests,
             \/ StartCapture(c) \/ PostCapture(c) \/ TakeMoney(c) \/ FailCapture(c) \/ LookUp(c)
      PROVE  OnePayment'
  <2>1. Made' = Made
    BY <1>2 DEF IInv, Types, StartCapture, PostCapture, TakeMoney, FailCapture, LookUp,
       providerVars, Made
  <2>2. creating' = creating /\ createOp' = createOp
    BY <1>2 DEF StartCapture, PostCapture, TakeMoney, FailCapture, LookUp, providerVars, opVars
  <2>3. \A d \in Callers : phase'[d] = "create" => phase[d] = "create"
    BY <1>2 DEF IInv, Types, Callers, StartCapture, PostCapture, TakeMoney, FailCapture, LookUp,
       GoTo, Return
  <2>4. QED
    BY <2>1, <2>2, <2>3, SameCreation
<1>3. ASSUME NEW c \in Callers,
             ReadEvidence(c) \/ NoEvidence(c) \/ Book(c) \/ AlreadyBooked(c) \/ Abandon(c)
      PROVE  OnePayment'
  <2>1. Made' = Made /\ creating' = creating /\ createOp' = createOp
    BY <1>3 DEF ReadEvidence, NoEvidence, Book, AlreadyBooked, Abandon, providerVars, opVars, Made
  <2>2. \A d \in Callers : phase'[d] = "create" => phase[d] = "create"
    BY <1>3 DEF IInv, Types, ReadEvidence, NoEvidence, Book, AlreadyBooked, Abandon, GoTo, Return
  <2>3. QED
    BY <2>1, <2>2, SameCreation
<1>4. ASSUME NEW i \in PaymentIds, Pay(i) PROVE OnePayment'
  <2>1. Made' = Made
    BY <1>4 DEF IInv, Types, Pay, Made
  <2>2. creating' = creating /\ createOp' = createOp /\ phase' = phase
    BY <1>4 DEF Pay, opVars, callVars
  <2>3. QED
    BY <2>1, <2>2, SameCreation
<1>5. ASSUME NEW i \in PaymentIds, NEW h \in Hooks, Deliver(h, i) PROVE OnePayment'
  <2>1. Made' = Made /\ creating' = creating /\ createOp' = createOp
    BY <1>5 DEF Deliver, providerVars, opVars, Made
  <2>2. \A d \in Callers : phase'[d] = "create" => phase[d] = "create"
    BY <1>5 DEF IInv, Types, Callers, Deliver, GoTo
  <2>3. QED
    BY <2>1, <2>2, SameCreation
<1>6. CASE CancelOrder \/ Quarantine \/ (\E i \in PaymentIds : Disturb(i)) \/ UNCHANGED vars
  <2>1. Made' = Made /\ creating' = creating /\ phase' = phase
    BY <1>6 DEF CancelOrder, Quarantine, Disturb, vars, providerVars, callVars, Made
  <2>2. createOp' \in {"none", "PREPARED"} <=> createOp \in {"none", "PREPARED"}
    BY <1>6 DEF CancelOrder, Quarantine, Disturb, vars, opVars
  <2>3. QED
    BY <2>1, <2>2, SameCreation
<1>7. QED
  BY <1>1, <1>2, <1>3, <1>4, <1>5, <1>6, CreationOnce DEF Next

\* A step that changes no stage, no charge and no booking.
LEMMA SameRequest ==
  ASSUME IInv, OnePayment, Made' = Made, Charged' = Charged,
         UNCHANGED <<booked, bookings>>, captureOp' = "SUCCEEDED" <=> captureOp = "SUCCEEDED",
         createOp' \in {"none", "PREPARED"} <=> createOp \in {"none", "PREPARED"}
  PROVE  UNCHANGED Request!vars
BY DEF Request!vars, Stage, Made, Charged

\* Creating: the claim asks the provider, which makes the payment.
LEMMA CreationRefines ==
  ASSUME IInv, OnePayment, NEW c \in Requests,
         \/ \E p \in Providers : Prepare(c, p)
         \/ ClaimCreation(c) \/ CreationConflict(c) \/ PostCreation(c)
         \/ \E i \in PaymentIds : MakePayment(c, i)
         \/ Bind(c) \/ FailCreation(c) \/ Respond(c)
  PROVE  Request!Next \/ UNCHANGED Request!vars
<1>1. CASE ClaimCreation(c)
  <2>1. captureOp # "SUCCEEDED"
    BY <1>1 DEF IInv, Types, BookedOnce, ChargeIsBookable, OnePayment, ClaimCreation, Made
  <2>2. Stage = "prepared" /\ Stage' = "asked"
    BY <1>1, <2>1 DEF ClaimCreation, Stage
  <2>3. UNCHANGED <<made, booked, bookings>>
    BY <1>1 DEF ClaimCreation, bookVars, providerVars
  <2>4. Request!Ask
    BY <2>2, <2>3 DEF Request!Ask
  <2>5. QED
    BY <2>4 DEF Request!Next
<1>2. ASSUME NEW i \in PaymentIds, MakePayment(c, i)
      PROVE  Request!Next
  <2>1. Made = {} /\ Charged = {} /\ createOp \notin {"none", "PREPARED"}
    BY <1>2 DEF MakePayment, OnePayment, Made, Charged
  <2>2. Made' = {i} /\ Charged' = {}
    BY <1>2, <2>1 DEF IInv, Types, MakePayment, Made, Charged
  <2>3. captureOp # "SUCCEEDED"
    BY <2>1 DEF IInv, Types, BookedOnce, ChargeIsBookable, Charged
  <2>4. Stage = "asked" /\ UNCHANGED <<Stage, booked, bookings>>
    BY <1>2, <2>1, <2>3 DEF MakePayment, opVars, bookVars, Stage
  <2>5. Request!Make(i)
    BY <2>1, <2>2, <2>4 DEF Request!Make, Made, Charged
  <2>6. QED
    BY <2>5 DEF Request!Next
<1>3. CASE \/ \E p \in Providers : Prepare(c, p)
           \/ CreationConflict(c) \/ PostCreation(c) \/ Bind(c) \/ FailCreation(c) \/ Respond(c)
  <2>1. Made' = Made /\ Charged' = Charged /\ UNCHANGED <<booked, bookings>>
    BY <1>3 DEF Prepare, CreationConflict, PostCreation, Bind, FailCreation, Respond,
       providerVars, bookVars, Made, Charged
  <2>2. captureOp' = "SUCCEEDED" <=> captureOp = "SUCCEEDED"
    BY <1>3 DEF Prepare, CreationConflict, PostCreation, Bind, FailCreation, Respond, opVars
  <2>3. createOp' \in {"none", "PREPARED"} <=> createOp \in {"none", "PREPARED"}
    BY <1>3 DEF Prepare, CreationConflict, PostCreation, Bind, FailCreation, Respond, opVars,
       Quarantined, Unresolved
  <2>4. QED
    BY <2>1, <2>2, <2>3, SameRequest
<1>4. QED
  BY <1>1, <1>2, <1>3

\* The money of a payment is taken: by the buyer's confirmation or by the one
\* capture of an approved order.
LEMMA ChargeRefines ==
  ASSUME IInv,
         \/ \E c \in Requests : TakeMoney(c)
         \/ \E i \in PaymentIds : Pay(i)
  PROVE  Request!Next \/ UNCHANGED Request!vars
<1>1. PICK i \in PaymentIds :
         /\ made[i] \in {"open", "approved"}
         /\ made' \in {[made EXCEPT ![i] = "approved"], [made EXCEPT ![i] = "charged"]}
  BY DEF IInv, Types, Claimed, TakeMoney, Pay
<1>2. Made' = Made /\ UNCHANGED <<Stage, booked, bookings>>
  BY <1>1 DEF IInv, Types, Made, TakeMoney, Pay, opVars, bookVars, Stage
<1>3. CASE made' = [made EXCEPT ![i] = "charged"]
  <2>1. i \in Made \ Charged /\ Charged' = Charged \cup {i}
    BY <1>1, <1>3 DEF IInv, Types, Made, Charged
  <2>2. Request!TakeEffect(i)
    BY <1>2, <2>1 DEF Request!TakeEffect, Made, Charged
  <2>3. QED
    BY <2>2 DEF Request!Next
<1>4. CASE made' = [made EXCEPT ![i] = "approved"]
  <2>1. Charged' = Charged
    BY <1>1, <1>4 DEF IInv, Types, Charged
  <2>2. QED
    BY <1>2, <2>1 DEF Request!vars, Made, Charged
<1>5. QED
  BY <1>1, <1>3, <1>4

\* Who saw the charge books it, if nobody has.
LEMMA BookRefines ==
  ASSUME IInv, OnePayment, NEW c \in Callers, Book(c)
  PROVE  Request!Next
<1>1. found[c] \in PaymentIds /\ made[found[c]] = "charged"
  BY DEF IInv, OnlyTheBound, Claimed, Book
<1>2. createOp \notin {"none", "PREPARED"}
  BY <1>1 DEF OnePayment, Made
<1>3. Stage = "asked" /\ Stage' = "recorded"
  BY <1>2 DEF Stage, Book, Unresolved
<1>4. UNCHANGED made /\ booked' = found[c] /\ bookings' = bookings + 1
  BY DEF Book, providerVars
<1>5. Request!Record(found[c])
  BY <1>1, <1>3, <1>4 DEF Request!Record
<1>6. QED
  BY <1>1, <1>5 DEF Request!Next

\* Every step of requests and webhooks is a step of the abstract request, or
\* none.
LEMMA NextRefines ==
  ASSUME IInv, OnePayment, [Next]_vars
  PROVE  Request!Next \/ UNCHANGED Request!vars
<1>1. ASSUME NEW c \in Requests,
             StartCapture(c) \/ PostCapture(c) \/ FailCapture(c) \/ LookUp(c) \/ LosePost(c)
      PROVE  UNCHANGED Request!vars
  <2>1. Made' = Made /\ Charged' = Charged /\ UNCHANGED <<booked, bookings, createOp>>
    BY <1>1 DEF StartCapture, PostCapture, FailCapture, LookUp, LosePost, providerVars, bookVars,
       opVars, Made, Charged
  <2>2. captureOp' = "SUCCEEDED" <=> captureOp = "SUCCEEDED"
    BY <1>1 DEF StartCapture, PostCapture, FailCapture, LookUp, LosePost, opVars, Quarantined
  <2>3. QED
    BY <2>1, <2>2, SameRequest
<1>2. ASSUME NEW c \in Callers, ReadEvidence(c) \/ NoEvidence(c) \/ AlreadyBooked(c) \/ Abandon(c)
      PROVE  UNCHANGED Request!vars
  <2>1. Made' = Made /\ Charged' = Charged /\ UNCHANGED <<booked, bookings, createOp>>
    BY <1>2 DEF ReadEvidence, NoEvidence, AlreadyBooked, Abandon, providerVars, bookVars, opVars,
       Made, Charged
  <2>2. captureOp' = "SUCCEEDED" <=> captureOp = "SUCCEEDED"
    BY <1>2 DEF ReadEvidence, NoEvidence, AlreadyBooked, Abandon, opVars, Quarantined
  <2>3. QED
    BY <2>1, <2>2, SameRequest
<1>3. ASSUME CancelOrder \/ Quarantine \/ UNCHANGED vars
             \/ \E i \in PaymentIds : Disturb(i) \/ \E h \in Hooks : Deliver(h, i)
      PROVE  UNCHANGED Request!vars
  <2>1. Made' = Made /\ Charged' = Charged /\ UNCHANGED <<booked, bookings>>
    BY <1>3 DEF CancelOrder, Quarantine, Disturb, Deliver, vars, providerVars, bookVars, Made, Charged
  <2>2. captureOp' = "SUCCEEDED" <=> captureOp = "SUCCEEDED"
    BY <1>3 DEF CancelOrder, Quarantine, Disturb, Deliver, vars, opVars
  <2>3. createOp' \in {"none", "PREPARED"} <=> createOp \in {"none", "PREPARED"}
    BY <1>3 DEF CancelOrder, Quarantine, Disturb, Deliver, vars, opVars
  <2>4. QED
    BY <2>1, <2>2, <2>3, SameRequest
<1>4. QED
  BY <1>1, <1>2, <1>3, CreationRefines, ChargeRefines, BookRefines DEF Next

(***************************************************************************)
(* createEconomicPayment, capturePaypal and the webhooks are one request   *)
(* to the provider: at most one payment is made for the order, and it is   *)
(* booked once and after it was charged.                                   *)
(***************************************************************************)
THEOREM Refines == Spec => RequestPromise
<1>1. Init => OnePayment
  BY DEF Init, OnePayment, Made
<1>2. Spec => []OnePayment
  BY <1>1, NextOnePayment, Inductive, PTL DEF Spec
<1>3. Init => Request!Init
  BY DEF Init, Request!Init, Stage
<1>4. IInv /\ OnePayment /\ [Next]_vars => [Request!Next]_<<Stage, Made, Charged, booked, bookings>>
  BY NextRefines DEF Request!vars, Made, Charged
<1>5. QED
  BY Inductive, <1>2, <1>3, <1>4, PTL DEF Spec, RequestPromise, Request!Spec, Request!vars, Made, Charged
=============================================================================
