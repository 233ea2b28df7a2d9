-------------------------- MODULE EconomicFulfilment -------------------------
(***************************************************************************)
(* Print orders placed with an external provider for shops that fulfil     *)
(* automatically (apps/api/src/modules/finances/economic-external-effect   *)
(* and economic-external-effects.service, economic-fulfillment-guard,      *)
(* economic-shipping-refund), on top of the inventory.                     *)
(*                                                                         *)
(* An administrator prepares the intent of an order and executes it; the   *)
(* transaction that claims it checks once more that the order may be       *)
(* fulfilled, and its winner sends the only POST.  Everybody else, and     *)
(* every retry, looks an order of the provider up by a reference that may  *)
(* be mistyped.  Meanwhile orders are cancelled and refunded.              *)
(***************************************************************************)
EXTENDS EconomicInventory

CONSTANTS
    Automatic,      \* the orders whose shop fulfils automatically
    Callers,        \* executions of executePod in progress
    Own,            \* identities the provider gives to our print orders
    Foreign,        \* other references, typed by mistake
    None            \* no reference, no order

References == Own \cup Foreign

ASSUME FulfilmentParameters ==
    /\ Automatic \subseteq Orders
    /\ Own \cap Foreign = {}
    /\ None \notin References \cup Orders

VARIABLES
    effect,         \* per order: state of its POD_PRINTIFY effect
    resource,       \* per order: its providerReference
    refund,         \* per order: state of the refund in progress or settled
    shippingBack,   \* per order: shipping was refunded as never handed off
    held,           \* per order: a lot of the capture has a holdReason
    shipped,        \* per order: handed to a carrier by the seller
    phase,          \* per caller: where its execution is
    target,         \* per caller: the order it prints
    token,          \* per caller: it holds the dispatch token
    reference,      \* per caller: recoveryReference, then reference
    travelling,     \* POSTs that have not reached the provider yet
    printed,        \* provider: the orders it made, with the order they print
    posts           \* history: per order, POSTs sent

effectVars == <<effect, resource>>
shopVars   == <<refund, shippingBack, held, shipped>>
callVars   == <<phase, target, token, reference>>
printVars  == <<travelling, printed, posts>>
vars == <<inventoryVars, effectVars, shopVars, callVars, printVars>>

Init ==
    /\ InventoryInit
    /\ effect = [o \in Automatic |-> "none"]
    /\ resource = [o \in Automatic |-> None]
    /\ refund = [o \in Automatic |-> "none"]
    /\ shippingBack = [o \in Automatic |-> FALSE]
    /\ held = [o \in Automatic |-> FALSE]
    /\ shipped = [o \in Automatic |-> FALSE]
    /\ phase = [c \in Callers |-> "idle"]
    /\ target = [c \in Callers |-> None]
    /\ token = [c \in Callers |-> FALSE]
    /\ reference = [c \in Callers |-> None]
    /\ travelling = {}
    /\ printed = [r \in Own |-> None]
    /\ posts = [o \in Automatic |-> 0]

\* All goods of the order were taken out of the stock for its capture.
GoodsTaken(o) ==
    \/ reservation[o] = "CONSUMED"
    \/ reservation[o] \in {"EXPIRED", "RELEASED"} /\ reacquired[o]

\* assertEconomicShopFulfillmentAllowed
FulfillmentAllowed(o) ==
    /\ order[o] # "PENDING_PAYMENT" /\ ~Closed(o)
    /\ captured[o] /\ received[o]
    /\ GoodsTaken(o)
    /\ refund[o] # "pending" /\ ~held[o]

AuthorizePod(o) == FulfillmentAllowed(o) /\ refund[o] # "settled"

PreparePod(o) ==
    /\ effect[o] = "none"
    /\ AuthorizePod(o)
    /\ effect' = [effect EXCEPT ![o] = "PREPARED"]
    /\ UNCHANGED <<resource, inventoryVars, shopVars, callVars, printVars>>

(***************************************************************************)
(* executeExternalEffect.  The first read refuses a reference that cannot  *)
(* belong to the effect; the execution goes on to claim it when it was     *)
(* PREPARED.                                                               *)
(***************************************************************************)
Start(c, o, r) ==
    /\ phase[c] = "idle"
    /\ effect[o] \in {"PREPARED", "DISPATCHED", "NEEDS_RECONCILIATION"}
    /\ resource[o] # None => r \in {None, resource[o]}
    /\ effect[o] = "PREPARED" => r = None
    /\ phase' = [phase EXCEPT ![c] =
                    IF effect[o] = "PREPARED" THEN "claim" ELSE "current"]
    /\ target' = [target EXCEPT ![c] = o]
    /\ reference' = [reference EXCEPT ![c] = r]
    /\ UNCHANGED <<token, inventoryVars, effectVars, shopVars,
                   printVars>>

\* The execution is over, or its process stopped.
Return(c) ==
    /\ phase' = [phase EXCEPT ![c] = "idle"]
    /\ target' = [target EXCEPT ![c] = None]
    /\ token' = [token EXCEPT ![c] = FALSE]
    /\ reference' = [reference EXCEPT ![c] = None]

\* Mutant of Claim: the state is not read again in the transaction.
ClaimOnFirstRead(c) ==
    LET o == target[c]
    IN  /\ phase[c] = "claim"
        /\ AuthorizePod(o)
        /\ effect' = [effect EXCEPT ![o] = "DISPATCHED"]
        /\ token' = [token EXCEPT ![c] = TRUE]
        /\ phase' = [phase EXCEPT ![c] = "current"]
        /\ UNCHANGED <<resource, target, reference, inventoryVars,
                       shopVars, printVars>>

Claim(c) ==
    LET o == target[c]
    IN  /\ phase[c] = "claim"
        /\ effect[o] = "PREPARED"
        /\ AuthorizePod(o)
        /\ effect' = [effect EXCEPT ![o] = "DISPATCHED"]
        /\ token' = [token EXCEPT ![c] = TRUE]
        /\ phase' = [phase EXCEPT ![c] = "current"]
        /\ UNCHANGED <<resource, target, reference, inventoryVars,
                       shopVars, printVars>>

\* Somebody else claimed it first: go on without a token.
LoseClaim(c) ==
    /\ phase[c] = "claim"
    /\ effect[target[c]] # "PREPARED"
    /\ phase' = [phase EXCEPT ![c] = "current"]
    /\ UNCHANGED <<target, token, reference, inventoryVars,
                   effectVars, shopVars, printVars>>

\* The order may not be fulfilled any more: the transaction throws.
ClaimRefused(c) ==
    /\ phase[c] = "claim"
    /\ effect[target[c]] = "PREPARED"
    /\ ~AuthorizePod(target[c])
    /\ Return(c)
    /\ UNCHANGED <<inventoryVars, effectVars, shopVars, printVars>>

\* Look again.  The winner of the claim sends the POST ...
Post(c) ==
    /\ phase[c] = "current"
    /\ effect[target[c]] # "SUCCEEDED"
    /\ token[c]
    /\ phase' = [phase EXCEPT ![c] = "post"]
    /\ posts' = [posts EXCEPT ![target[c]] = @ + 1]
    /\ travelling' = travelling \cup {<<c, target[c]>>}
    /\ UNCHANGED <<printed, target, token, reference, inventoryVars,
                   effectVars, shopVars>>

\* ... and everybody else looks up the reference it was given.
LookUp(c) ==
    /\ phase[c] = "current"
    /\ effect[target[c]] # "SUCCEEDED"
    /\ ~token[c] /\ reference[c] # None
    /\ phase' = [phase EXCEPT ![c] = "verify"]
    /\ UNCHANGED <<target, token, reference, inventoryVars,
                   effectVars, shopVars, printVars>>

AlreadySucceeded(c) ==
    /\ phase[c] = "current"
    /\ effect[target[c]] = "SUCCEEDED"
    /\ Return(c)
    /\ UNCHANGED <<inventoryVars, effectVars, shopVars, printVars>>

\* The provider makes the print order, and answers if anybody still waits.
MakePrint(c, o, r) ==
    LET waits == phase[c] = "post" /\ target[c] = o
    IN  /\ <<c, o>> \in travelling
        /\ printed[r] = None
        /\ travelling' = travelling \ {<<c, o>>}
        /\ printed' = [printed EXCEPT ![r] = o]
        /\ phase' = [phase EXCEPT ![c] = IF waits THEN "verify" ELSE @]
        /\ reference' = [reference EXCEPT ![c] = IF waits THEN r ELSE @]
        /\ UNCHANGED <<posts, target, token, inventoryVars, effectVars,
                       shopVars>>

\* The POST is lost or refused.
Refuse(c, o) ==
    /\ <<c, o>> \in travelling
    /\ travelling' = travelling \ {<<c, o>>}
    /\ UNCHANGED <<printed, posts, inventoryVars, effectVars, shopVars,
                   callVars>>

\* An error on the way to the evidence (no reference, no answer in time, a
\* failed or mismatching lookup) quarantines the dispatch.
Fail(c) ==
    /\ \/ phase[c] = "current" /\ ~token[c] /\ reference[c] = None
          /\ effect[target[c]] # "SUCCEEDED"
       \/ phase[c] \in {"post", "verify"}
    /\ effect' = [effect EXCEPT ![target[c]] =
                     IF @ = "DISPATCHED" THEN "NEEDS_RECONCILIATION" ELSE @]
    /\ Return(c)
    /\ UNCHANGED <<resource, inventoryVars, shopVars, printVars>>

\* The resource the provider knows by the reference prints this order.
Verify(c) ==
    /\ phase[c] = "verify"
    /\ reference[c] \in Own
    /\ printed[reference[c]] = target[c]
    /\ phase' = [phase EXCEPT ![c] = "settle"]
    /\ UNCHANGED <<target, token, reference, inventoryVars,
                   effectVars, shopVars, printVars>>

\* The settling transaction.  Its failure is not caught: the promise is
\* returned without await, and the effect stays as it was.
Settle(c) ==
    LET o == target[c]
        takes == /\ effect[o] \in {"DISPATCHED", "NEEDS_RECONCILIATION"}
                 /\ resource[o] \in {None, reference[c]}
    IN  /\ phase[c] = "settle"
        /\ effect' = IF takes THEN [effect EXCEPT ![o] = "SUCCEEDED"]
                     ELSE effect
        /\ resource' = IF takes THEN [resource EXCEPT ![o] = reference[c]]
                       ELSE resource
        /\ Return(c)
        /\ UNCHANGED <<inventoryVars, shopVars, printVars>>

\* The process stops, or the database fails.
Abandon(c) ==
    /\ phase[c] # "idle"
    /\ Return(c)
    /\ UNCHANGED <<inventoryVars, effectVars, shopVars, printVars>>

\* The tick quarantines a dispatch of 30 seconds ago.
Quarantine(o) ==
    /\ effect[o] = "DISPATCHED"
    /\ effect' = [effect EXCEPT ![o] = "NEEDS_RECONCILIATION"]
    /\ UNCHANGED <<resource, inventoryVars, shopVars, callVars, printVars>>

(***************************************************************************)
(* Refunds of the same order, and the seller handing it to a carrier.      *)
(***************************************************************************)

\* Mutant of NeverHandedOff: only a print order that succeeded counts.
NeverHandedOffYet(o) ==
    order[o] = "CANCELLED" /\ ~shipped[o] /\ effect[o] # "SUCCEEDED"

\* shippingRefundEligible: any intent to print, in whatever state, blocks it.
NeverHandedOff(o) ==
    order[o] = "CANCELLED" /\ ~shipped[o] /\ effect[o] = "none"

\* A refund of items, or of items and shipping; which parts is left out.
PrepareRefund(o, shipping) ==
    /\ captured[o]
    /\ refund[o] \in {"none", "settled"}
    /\ shipping => NeverHandedOff(o)
    /\ refund' = [refund EXCEPT ![o] = "pending"]
    /\ shippingBack' = [shippingBack EXCEPT ![o] = @ \/ shipping]
    /\ UNCHANGED <<held, shipped, inventoryVars, effectVars, callVars,
                   printVars>>

SettleRefund(o) ==
    /\ refund[o] = "pending"
    /\ refund' = [refund EXCEPT ![o] = "settled"]
    /\ UNCHANGED <<shippingBack, held, shipped, inventoryVars, effectVars,
                   callVars, printVars>>

HoldCapture(o) ==
    /\ captured[o] /\ ~held[o]
    /\ held' = [held EXCEPT ![o] = TRUE]
    /\ UNCHANGED <<refund, shippingBack, shipped, inventoryVars, effectVars,
                   callVars, printVars>>

Ship(o) ==
    /\ FulfillmentAllowed(o) /\ ~shipped[o]
    /\ shipped' = [shipped EXCEPT ![o] = TRUE]
    /\ UNCHANGED <<refund, shippingBack, held, inventoryVars, effectVars,
                   callVars, printVars>>

InventoryStep ==
    /\ \/ \E o \in Orders : \/ Checkout(o)
                            \/ BookCapture(o) \/ ConsumeCapture(o)
                            \/ ReleaseExpired(o) \/ Cancel(o)
       \/ \E o \in Orders : /\ o \in Automatic => refund[o] = "settled"
                            /\ RefundFully(o)
       \/ Edit
    /\ UNCHANGED <<effectVars, shopVars, callVars, printVars>>

Next ==
    \/ InventoryStep
    \/ \E o \in Automatic : \/ PreparePod(o) \/ Quarantine(o)
                            \/ SettleRefund(o) \/ HoldCapture(o) \/ Ship(o)
                            \/ \E s \in BOOLEAN : PrepareRefund(o, s)
    \/ \E c \in Callers : \/ Claim(c) \/ LoseClaim(c) \/ ClaimRefused(c)
                          \/ Post(c) \/ LookUp(c) \/ AlreadySucceeded(c)
                          \/ Fail(c) \/ Verify(c)
                          \/ Settle(c) \/ Abandon(c)
    \/ \E c \in Callers, o \in Automatic :
           \/ \E r \in References \cup {None} : Start(c, o, r)
           \/ \E r \in Own : MakePrint(c, o, r)
           \/ Refuse(c, o)

Spec == Init /\ [][Next]_vars

(***************************************************************************)
(* An order is printed at most once, however many administrators execute   *)
(* it, whichever answers are lost and whatever reference is typed; and the *)
(* resource an effect is bound to is the one that prints this order.       *)
(***************************************************************************)
PrintedOnce ==
    \A o \in Automatic :
        /\ posts[o] <= 1
        /\ Cardinality({r \in Own : printed[r] = o}) <= 1
        /\ effect[o] = "SUCCEEDED" =>
              /\ resource[o] \in Own
              /\ printed[resource[o]] = o

(***************************************************************************)
(* Goods whose printing was asked for stay out of the stock for good: no   *)
(* cancellation, expiry or refund that comes later sells them again.       *)
(***************************************************************************)
PrintsOnlyOwned ==
    \A o \in Automatic : posts[o] > 0 =>
        captured[o] /\ GoodsTaken(o) /\ \A p \in counted[o] : Owns(o, p)

(***************************************************************************)
(* Shipping given back because nothing was handed off is never followed by *)
(* a hand-off: neither a print order nor a parcel, though intents that     *)
(* were prepared before may be executed at any time.                       *)
(***************************************************************************)
RefundedOrPrinted ==
    \A o \in Automatic : shippingBack[o] =>
        /\ posts[o] = 0 /\ ~shipped[o]
        /\ \A r \in Own : printed[r] # o

(***************************************************************************)
(* The abstract request of an order: the print order is asked for, made,   *)
(* and bound to the effect.                                                *)
(***************************************************************************)
Stage(o) ==
    CASE effect[o] \in {"none", "PREPARED"} -> "prepared"
      [] effect[o] = "SUCCEEDED"            -> "recorded"
      [] OTHER                              -> "asked"

Prints(o) == {r \in Own : printed[r] = o}

Request(o) ==
    INSTANCE ProviderRequest WITH
        Identities <- Own, None <- None, stage <- Stage(o),
        made <- Prints(o), effective <- Prints(o),
        recorded <- resource[o], records <- IF effect[o] = "SUCCEEDED" THEN 1 ELSE 0

(***************************************************************************)
(* For each order all executions together are one request to the provider: *)
(* it makes at most one print order, and that one is bound, once (the      *)
(* specifications of all these requests, written as one action).           *)
(***************************************************************************)
RequestPromise ==
    /\ \A o \in Automatic : Request(o)!Init
    /\ [][\A o \in Automatic : Request(o)!Next \/ UNCHANGED Request(o)!vars]_vars
=============================================================================
