-------------------------- MODULE EconomicInventory --------------------------
(***************************************************************************)
(* Stock reserved at checkout and kept, given back or taken again          *)
(* (apps/api/src/modules/products/inventory-reservation.ts, with           *)
(* inventory-policy.ts).                                                   *)
(*                                                                         *)
(* A checkout debits every finite pool of the order or none.  The          *)
(* reservation expires; a capture can be booked before or after that, and  *)
(* of an order that was cancelled.  Sellers overwrite the quantities and   *)
(* remove products at any moment.  All rows of one order carry the same    *)
(* expiry and every transaction moves all of them or none, so their state  *)
(* is one value per order.                                                 *)
(***************************************************************************)
EXTENDS MinorUnits

CONSTANTS
    Orders,
    Pools,          \* stock pools: products, and variants with own quantity
    Variants,       \* the pools that are variants
    Demand,         \* Demand[p][o]: pieces of the pool the order asks for
    FirstStock,     \* FirstStock[p]: quantity of the pool before any order
    MaxQuantity,    \* MAX_QUANTITY
    Missing,        \* quantity of a pool that is gone, or null
    MaxEdits        \* bound: writes of sellers

ASSUME InventoryParameters ==
    /\ IsFiniteSet(Orders)
    /\ Variants \subseteq Pools
    /\ Demand \in [Pools -> [Orders -> Nat]]
    /\ MaxQuantity \in Nat
    /\ FirstStock \in [Pools -> 0..MaxQuantity]
    /\ Missing \notin Int
    /\ MaxEdits \in Nat

VARIABLES
    stock,          \* per pool: its quantity
    finite,         \* per pool: is its quantity tracked?
    offered,        \* per variant: isAvailable
    order,          \* per order: its status
    captured,       \* per order: is a capture booked?
    received,       \* per order: lifecycle receipt of the capture
    reservation,    \* per order: state of its reservation rows
    counted,        \* per order: pools whose frozen target is finite
    reacquired,     \* per order: debited again for its late capture
    base,           \* history: pieces the seller put into the pool
    edits           \* how many writes of sellers so far

poolVars  == <<stock, finite, offered, base>>
orderVars == <<order, captured, received>>
rowVars   == <<reservation, counted, reacquired>>
inventoryVars == <<poolVars, orderVars, rowVars, edits>>

PoolsOf(o) == {p \in Pools : Demand[p][o] > 0}

InventoryInit ==
    /\ stock = FirstStock
    /\ finite = [p \in Pools |-> TRUE]
    /\ offered = [p \in Pools |-> TRUE]
    /\ order = [o \in Orders |-> "none"]
    /\ captured = [o \in Orders |-> FALSE]
    /\ received = [o \in Orders |-> FALSE]
    /\ reservation = [o \in Orders |-> "none"]
    /\ counted = [o \in Orders |-> {}]
    /\ reacquired = [o \in Orders |-> FALSE]
    /\ base = FirstStock
    /\ edits = 0

Closed(o) == order[o] \in {"CANCELLED", "REFUNDED"}

\* The conditional debit of one pool takes effect.
Debitable(o, p) ==
    /\ stock[p] # Missing
    /\ stock[p] >= Demand[p][o]
    /\ p \in Variants => offered[p]

Debited(o, set) ==
    [p \in Pools |-> IF p \in set THEN stock[p] - Demand[p][o] ELSE stock[p]]

Restored(o, set) ==
    [p \in Pools |-> IF p \in set THEN stock[p] + Demand[p][o] ELSE stock[p]]

\* restoreSnapshotPool succeeds for every pool: none is missing, and none
\* outgrows the column.
Restorable(o) ==
    \A p \in counted[o] :
        /\ stock[p] # Missing
        /\ stock[p] <= MaxQuantity - Demand[p][o]

(***************************************************************************)
(* The checkout transaction freezes the order and reserves its stock; an   *)
(* order is checked out once, and the targets are never computed again.    *)
(***************************************************************************)
Checkout(o) ==
    LET limited == {p \in PoolsOf(o) : finite[p]}
    IN  /\ order[o] = "none"
        /\ PoolsOf(o) # {}
        /\ \A p \in PoolsOf(o) \cap Variants : offered[p]
        /\ \A p \in limited : Debitable(o, p)
        /\ order' = [order EXCEPT ![o] = "PENDING_PAYMENT"]
        /\ reservation' = [reservation EXCEPT ![o] = "HELD"]
        /\ counted' = [counted EXCEPT ![o] = limited]
        /\ stock' = Debited(o, limited)
        /\ UNCHANGED <<finite, offered, base, captured, received,
                       reacquired, edits>>

\* A verified payment is booked whatever became of the order meanwhile.
BookCapture(o) ==
    /\ order[o] # "none"
    /\ ~captured[o]
    /\ captured' = [captured EXCEPT ![o] = TRUE]
    /\ UNCHANGED <<poolVars, order, received, rowVars, edits>>

\* Mutant of ConsumeCapture: it forgets that expired goods were given back.
ConsumeCaptureFree(o) ==
    /\ captured[o] /\ ~received[o] /\ ~Closed(o)
    /\ reacquired' = [reacquired EXCEPT ![o] =
                         @ \/ reservation[o] \in {"EXPIRED", "RELEASED"}]
    /\ reservation' = [reservation EXCEPT ![o] =
                          IF @ = "HELD" THEN "CONSUMED" ELSE @]
    /\ order' = [order EXCEPT ![o] =
                    IF @ = "PENDING_PAYMENT" THEN "CONFIRMED" ELSE @]
    /\ received' = [received EXCEPT ![o] = TRUE]
    /\ UNCHANGED <<poolVars, captured, counted, edits>>

(***************************************************************************)
(* The lifecycle event of the capture: a held reservation is consumed,     *)
(* even an expired one, without a second debit; what was given back is     *)
(* debited again, all of it or the event fails and is tried again.         *)
(***************************************************************************)
ConsumeCapture(o) ==
    LET late  == reservation[o] \in {"EXPIRED", "RELEASED"} /\ ~reacquired[o]
        again == IF late THEN counted[o] ELSE {}
    IN  /\ captured[o] /\ ~received[o] /\ ~Closed(o)
        /\ \A p \in again : Debitable(o, p)
        /\ stock' = Debited(o, again)
        /\ reacquired' = [reacquired EXCEPT ![o] = @ \/ late]
        /\ reservation' = [reservation EXCEPT ![o] =
                              IF @ = "HELD" THEN "CONSUMED" ELSE @]
        /\ order' = [order EXCEPT ![o] =
                        IF @ = "PENDING_PAYMENT" THEN "CONFIRMED" ELSE @]
        /\ received' = [received EXCEPT ![o] = TRUE]
        /\ UNCHANGED <<finite, offered, base, captured, counted, edits>>

\* expiresAt has passed, which may be at any time, and the dispatcher gives
\* the stock back; it fails, and nothing changes, while a pool cannot take its
\* pieces.
ReleaseExpired(o) ==
    /\ reservation[o] = "HELD"
    /\ Restorable(o)
    /\ reservation' = [reservation EXCEPT ![o] = "EXPIRED"]
    /\ stock' = Restored(o, counted[o])
    /\ UNCHANGED <<finite, offered, base, orderVars, counted,
                   reacquired, edits>>

\* Mutant of Cancel: goods that were consumed are put on sale again.
CancelRestocks(o) ==
    LET owned == reservation[o] \in {"HELD", "CONSUMED"}
    IN  /\ order[o] # "none"
        /\ owned => Restorable(o)
        /\ order' = [order EXCEPT ![o] = "CANCELLED"]
        /\ reservation' = [reservation EXCEPT ![o] =
                              IF owned THEN "RELEASED" ELSE @]
        /\ stock' = Restored(o, IF owned THEN counted[o] ELSE {})
        /\ UNCHANGED <<finite, offered, base, captured, received, counted,
                       reacquired, edits>>

(***************************************************************************)
(* A cancellation by the buyer or an administrator, whatever the status:   *)
(* the status was read before the transaction.  Only held stock is given   *)
(* back; a cancellation that cannot give it back fails.                    *)
(***************************************************************************)
Cancel(o) ==
    LET held == reservation[o] = "HELD"
    IN  /\ order[o] # "none"
        /\ held => Restorable(o)
        /\ order' = [order EXCEPT ![o] = "CANCELLED"]
        /\ reservation' = [reservation EXCEPT ![o] =
                              IF held THEN "RELEASED" ELSE @]
        /\ stock' = Restored(o, IF held THEN counted[o] ELSE {})
        /\ UNCHANGED <<finite, offered, base, captured, received, counted,
                       reacquired, edits>>

\* The capture is refunded completely: no stock is given back.
RefundFully(o) ==
    /\ captured[o]
    /\ order[o] # "REFUNDED"
    /\ order' = [order EXCEPT ![o] = "REFUNDED"]
    /\ UNCHANGED <<poolVars, captured, received, rowVars, edits>>

\* The order has the pieces of the pool, and they are debited.
Owns(o, p) ==
    /\ p \in counted[o]
    /\ reservation[o] \in {"HELD", "CONSUMED"} \/ reacquired[o]

Owned(p) == Total(Demand[p], {o \in Orders : Owns(o, p)})

Quantities == (0..MaxQuantity) \cup {Missing}

\* A seller saves a quantity (or removes the product), and isAvailable of a
\* variant: an absolute write that knows nothing of reservations.
EditPool(p, q, available) ==
    /\ edits < MaxEdits
    /\ edits' = edits + 1
    /\ stock' = [stock EXCEPT ![p] = q]
    /\ base' = [base EXCEPT ![p] = IF q = Missing THEN 0 ELSE q + Owned(p)]
    /\ offered' = [offered EXCEPT ![p] = p \in Variants => available]
    /\ UNCHANGED <<finite, orderVars, rowVars>>

\* trackInventory of a product, or the variation settings of a variant.
ChangeTracking(p) ==
    /\ edits < MaxEdits
    /\ edits' = edits + 1
    /\ finite' = [finite EXCEPT ![p] = ~@]
    /\ UNCHANGED <<stock, offered, base, orderVars, rowVars>>

Edit ==
    \/ \E p \in Pools, q \in Quantities, a \in BOOLEAN : EditPool(p, q, a)
    \/ \E p \in Pools : ChangeTracking(p)

InventoryNext ==
    \/ \E o \in Orders : \/ Checkout(o) \/ BookCapture(o)
                         \/ ConsumeCapture(o) \/ ReleaseExpired(o)
                         \/ Cancel(o) \/ RefundFully(o)
    \/ Edit

InventorySpec == InventoryInit /\ [][InventoryNext]_inventoryVars

InventoryTypeOK ==
    /\ stock \in [Pools -> Int \cup {Missing}]
    /\ finite \in [Pools -> BOOLEAN] /\ offered \in [Pools -> BOOLEAN]
    /\ order \in [Orders -> {"none", "PENDING_PAYMENT", "CONFIRMED",
                             "CANCELLED", "REFUNDED"}]
    /\ captured \in [Orders -> BOOLEAN] /\ received \in [Orders -> BOOLEAN]
    /\ reservation \in [Orders -> {"none", "HELD", "CONSUMED", "EXPIRED",
                                   "RELEASED"}]
    /\ counted \in [Orders -> SUBSET Pools]
    /\ reacquired \in [Orders -> BOOLEAN]
    /\ base \in [Pools -> Nat]
    /\ edits \in 0..MaxEdits

(***************************************************************************)
(* Every piece the seller put into a pool is either on sale or owned by    *)
(* exactly one order, and no pool is ever overdrawn: no interleaving of    *)
(* checkouts, expiries, late captures, cancellations, refunds and edits    *)
(* sells a piece twice or loses one.                                       *)
(***************************************************************************)
StockConserved ==
    \A p \in Pools : stock[p] # Missing =>
        /\ stock[p] \in 0..MaxQuantity
        /\ stock[p] + Owned(p) = base[p]
=============================================================================
