----------------------- MODULE EconomicFulfilment_proofs -----------------------
(***************************************************************************)
(* Stock is conserved and goods are printed once, for any number of        *)
(* orders, pools, edits, administrators, references and lost answers.      *)
(***************************************************************************)
EXTENDS EconomicFulfilment, MinorUnits_proofs, TLAPS

-----------------------------------------------------------------------------
(* Inventory                                                                *)

\* An order has rows once it is checked out, and only goods given back are
\* acquired again.
RowsInv ==
    /\ \A o \in Orders : reservation[o] = "none" <=> order[o] = "none"
    /\ \A o \in Orders : captured[o] => order[o] # "none"
    /\ \A o \in Orders : reacquired[o] => reservation[o] \in {"EXPIRED", "RELEASED"}

StockInv == InventoryTypeOK /\ RowsInv /\ StockConserved

\* What an order owns of a pool.
Share(o, p) == IF Owns(o, p) THEN Demand[p][o] ELSE 0

\* Demands are amounts, so what is owned is a natural number.
LEMMA OwnedNat ==
  ASSUME NEW p \in Pools
  PROVE  /\ \A S \in SUBSET Orders : AmountsOn(Demand[p], S)
         /\ Owned(p) \in Nat
<1>1. \A S \in SUBSET Orders : AmountsOn(Demand[p], S)
  BY InventoryParameters, FS_Subset DEF AmountsOn
<1>2. {o \in Orders : Owns(o, p)} \in SUBSET Orders
  OBVIOUS
<1>3. QED
  BY <1>1, <1>2, TotalNat DEF Owned

\* When one order gains or loses a pool, its share is what Owned changes by.
LEMMA OwnedStep ==
  ASSUME NEW p \in Pools, NEW o \in Orders,
         \A x \in Orders \ {o} : Owns(x, p)' <=> Owns(x, p)
  PROVE  /\ Owned(p)' + Share(o, p) = Owned(p) + Share(o, p)'
         /\ Owned(p)' \in Nat
<1> DEFINE Rest == {x \in Orders \ {o} : Owns(x, p)}
<1>1. /\ Rest \in SUBSET Orders /\ o \notin Rest
      /\ AmountsOn(Demand[p], Rest) /\ Demand[p][o] \in Nat
      /\ Total(Demand[p], Rest) \in Nat
  BY OwnedNat, TotalNat, InventoryParameters
<1>2. Total(Demand[p], Rest \cup {o}) = Total(Demand[p], Rest) + Demand[p][o]
  BY <1>1, TotalInsert
<1>3. Owned(p) = Total(Demand[p], Rest) + Share(o, p)
  <2>1. CASE Owns(o, p)
    <3>1. {x \in Orders : Owns(x, p)} = Rest \cup {o}
      BY <2>1
    <3>2. QED
      BY <2>1, <3>1, <1>2 DEF Owned, Share
  <2>2. CASE ~Owns(o, p)
    <3>1. {x \in Orders : Owns(x, p)} = Rest
      BY <2>2
    <3>2. Owned(p) = Total(Demand[p], Rest)
      BY <3>1 DEF Owned
    <3>3. Share(o, p) = 0
      BY <2>2 DEF Share
    <3>4. QED
      BY <3>2, <3>3, <1>1
  <2>3. QED
    BY <2>1, <2>2
<1>4. Owned(p)' = Total(Demand[p], Rest) + Share(o, p)'
  <2>1. CASE Owns(o, p)'
    <3>1. {x \in Orders : Owns(x, p)'} = Rest \cup {o}
      BY <2>1
    <3>2. QED
      BY <2>1, <3>1, <1>2 DEF Owned, Share
  <2>2. CASE ~Owns(o, p)'
    <3>1. {x \in Orders : Owns(x, p)'} = Rest
      BY <2>2
    <3>2. Owned(p)' = Total(Demand[p], Rest)
      BY <3>1 DEF Owned
    <3>3. Share(o, p)' = 0
      BY <2>2 DEF Share
    <3>4. QED
      BY <3>2, <3>3, <1>1
  <2>3. QED
    BY <2>1, <2>2
<1>5. Share(o, p) \in Nat /\ Share(o, p)' \in Nat
  BY <1>1 DEF Share
<1>6. QED
  BY <1>1, <1>3, <1>4, <1>5

\* A step of one order conserves the stock when the order takes from the shelf
\* the pieces it gains, and puts back the pieces it loses.
LEMMA ConservedStep ==
  ASSUME StockInv, NEW o \in Orders, base' = base,
         \A p \in Pools, x \in Orders \ {o} : Owns(x, p)' <=> Owns(x, p),
         \A p \in Pools :
            \/ stock'[p] = stock[p] /\ (Owns(o, p)' <=> Owns(o, p))
            \/ /\ Debitable(o, p) /\ stock'[p] = stock[p] - Demand[p][o]
               /\ ~Owns(o, p) /\ Owns(o, p)'
            \/ /\ stock[p] # Missing /\ stock[p] <= MaxQuantity - Demand[p][o]
               /\ stock'[p] = stock[p] + Demand[p][o]
               /\ Owns(o, p) /\ ~Owns(o, p)'
  PROVE  StockConserved'
<1>1. ASSUME NEW p \in Pools, stock'[p] # Missing
      PROVE  stock'[p] \in 0..MaxQuantity /\ stock'[p] + Owned(p)' = base'[p]
  <2>1. Owned(p)' + Share(o, p) = Owned(p) + Share(o, p)' /\ Owned(p)' \in Nat
    BY OwnedStep
  <2>2. Owned(p) \in Nat /\ Demand[p][o] \in Nat /\ MaxQuantity \in Nat
    BY OwnedNat, InventoryParameters
  <2>4. stock[p] # Missing
    BY <1>1, InventoryParameters, <2>2 DEF Debitable
  <2>5. stock[p] \in 0..MaxQuantity /\ stock[p] + Owned(p) = base[p]
    BY <2>4 DEF StockInv, StockConserved
  <2>6. CASE stock'[p] = stock[p] /\ (Owns(o, p)' <=> Owns(o, p))
    <3>1. Share(o, p)' = Share(o, p) /\ Share(o, p) \in Nat
      BY <2>2, <2>6 DEF Share
    <3>2. QED
      BY <2>1, <2>2, <2>5, <2>6, <3>1
  <2>7. CASE /\ Debitable(o, p) /\ stock'[p] = stock[p] - Demand[p][o]
             /\ ~Owns(o, p) /\ Owns(o, p)'
    <3>1. Share(o, p) = 0 /\ Share(o, p)' = Demand[p][o]
      BY <2>7 DEF Share
    <3>2. QED
      BY <2>1, <2>2, <2>5, <2>7, <3>1 DEF Debitable
  <2>8. CASE /\ stock[p] # Missing /\ stock[p] <= MaxQuantity - Demand[p][o]
             /\ stock'[p] = stock[p] + Demand[p][o]
             /\ Owns(o, p) /\ ~Owns(o, p)'
    <3>1. Share(o, p) = Demand[p][o] /\ Share(o, p)' = 0
      BY <2>8 DEF Share
    <3>2. QED
      BY <2>1, <2>2, <2>5, <2>8, <3>1
  <2>9. QED
    BY <2>6, <2>7, <2>8
<1>2. QED
  BY <1>1 DEF StockConserved

\* Debits and credits keep the type of the column.
LEMMA ShelfTypes ==
  ASSUME InventoryTypeOK, NEW o \in Orders, NEW set \in SUBSET Pools,
         \A p \in set : stock[p] # Missing
  PROVE  /\ Debited(o, set) \in [Pools -> Int \cup {Missing}]
         /\ Restored(o, set) \in [Pools -> Int \cup {Missing}]
BY InventoryParameters DEF InventoryTypeOK, Debited, Restored

LEMMA InitStock == InventoryInit => StockInv
<1> SUFFICES ASSUME InventoryInit PROVE StockInv
  OBVIOUS
<1>1. InventoryTypeOK /\ RowsInv
  BY InventoryParameters DEF InventoryInit, InventoryTypeOK, RowsInv
<1>2. ASSUME NEW p \in Pools PROVE Owned(p) = 0
  <2>1. {o \in Orders : Owns(o, p)} = {}
    BY DEF InventoryInit, Owns
  <2>2. QED
    BY <2>1, TotalZero DEF Owned
<1>3. StockConserved
  BY <1>2, InventoryParameters DEF InventoryInit, StockConserved
<1>4. QED
  BY <1>1, <1>3 DEF StockInv

\* A checkout takes every limited pool of a new order.
LEMMA CheckoutStock ==
  ASSUME StockInv, NEW o \in Orders, Checkout(o)
  PROVE  StockInv'
<1> DEFINE limited == {p \in PoolsOf(o) : finite[p]}
<1>1. limited \in SUBSET Pools /\ \A p \in limited : Debitable(o, p)
  BY DEF Checkout, PoolsOf
<1>2. stock' \in [Pools -> Int \cup {Missing}]
  BY <1>1, ShelfTypes DEF Checkout, StockInv, Debitable
<1>3. InventoryTypeOK' /\ RowsInv'
  BY <1>1, <1>2 DEF Checkout, StockInv, InventoryTypeOK, RowsInv
<1>4. \A p \in Pools, x \in Orders \ {o} : Owns(x, p)' <=> Owns(x, p)
  BY DEF Checkout, Owns, StockInv, InventoryTypeOK
<1>5. \A p \in Pools : ~Owns(o, p) /\ (Owns(o, p)' <=> p \in limited)
  BY DEF Checkout, Owns, StockInv, InventoryTypeOK, RowsInv
<1>6. \A p \in Pools :
         stock'[p] = IF p \in limited THEN stock[p] - Demand[p][o] ELSE stock[p]
  BY DEF Checkout, Debited
<1>7. StockConserved'
  BY <1>1, <1>4, <1>5, <1>6, ConservedStep DEF Checkout
<1>8. QED
  BY <1>3, <1>7 DEF StockInv

\* A capture takes again what was given back, and nothing else.
LEMMA ConsumeStock ==
  ASSUME StockInv, NEW o \in Orders, ConsumeCapture(o)
  PROVE  StockInv'
<1> DEFINE late  == reservation[o] \in {"EXPIRED", "RELEASED"} /\ ~reacquired[o]
           again == IF late THEN counted[o] ELSE {}
<1>1. again \in SUBSET Pools /\ \A p \in again : Debitable(o, p)
  BY DEF ConsumeCapture, StockInv, InventoryTypeOK
<1>2. stock' \in [Pools -> Int \cup {Missing}]
  BY <1>1, ShelfTypes DEF ConsumeCapture, StockInv, Debitable
<1>3. InventoryTypeOK' /\ RowsInv'
  BY <1>1, <1>2 DEF ConsumeCapture, StockInv, InventoryTypeOK, RowsInv
<1>4. \A p \in Pools, x \in Orders \ {o} : Owns(x, p)' <=> Owns(x, p)
  BY DEF ConsumeCapture, Owns, StockInv, InventoryTypeOK
<1>5. \A p \in Pools : IF p \in again THEN ~Owns(o, p) /\ Owns(o, p)'
                       ELSE Owns(o, p)' <=> Owns(o, p)
  BY DEF ConsumeCapture, Owns, StockInv, InventoryTypeOK, RowsInv
<1>6. \A p \in Pools :
         stock'[p] = IF p \in again THEN stock[p] - Demand[p][o] ELSE stock[p]
  BY DEF ConsumeCapture, Debited
<1>7. base' = base
  BY DEF ConsumeCapture
<1>8. StockConserved'
  <2> HIDE DEF again
  <2> QED
    BY <1>1, <1>4, <1>5, <1>6, <1>7, ConservedStep
<1>9. QED
  BY <1>3, <1>8 DEF StockInv

\* An expiry and a cancellation give back held goods.
LEMMA ReleaseStock ==
  ASSUME StockInv, NEW o \in Orders, ReleaseExpired(o) \/ Cancel(o)
  PROVE  StockInv'
<1> DEFINE back == IF reservation[o] = "HELD" THEN counted[o] ELSE {}
<1>1. back \in SUBSET Pools
      /\ \A p \in back : stock[p] # Missing /\ stock[p] <= MaxQuantity - Demand[p][o]
  BY DEF ReleaseExpired, Cancel, Restorable, StockInv, InventoryTypeOK
<1>2. stock' = Restored(o, back) /\ base' = base
  BY DEF ReleaseExpired, Cancel
<1>3. stock' \in [Pools -> Int \cup {Missing}]
  BY <1>1, <1>2, ShelfTypes DEF StockInv
<1>4. InventoryTypeOK' /\ RowsInv'
  BY <1>3 DEF ReleaseExpired, Cancel, StockInv, InventoryTypeOK, RowsInv, orderVars
<1>5. \A p \in Pools, x \in Orders \ {o} : Owns(x, p)' <=> Owns(x, p)
  BY DEF ReleaseExpired, Cancel, Owns, StockInv, InventoryTypeOK
<1>6. \A p \in Pools : IF p \in back THEN Owns(o, p) /\ ~Owns(o, p)'
                       ELSE Owns(o, p)' <=> Owns(o, p)
  BY DEF ReleaseExpired, Cancel, Owns, StockInv, InventoryTypeOK, RowsInv
<1>7. \A p \in Pools :
         stock'[p] = IF p \in back THEN stock[p] + Demand[p][o] ELSE stock[p]
  BY <1>2 DEF Restored
<1>8. StockConserved'
  <2> HIDE DEF back
  <2> QED
    BY <1>1, <1>2, <1>5, <1>6, <1>7, ConservedStep
<1>9. QED
  BY <1>4, <1>8 DEF StockInv

\* Steps that touch neither the shelf nor who owns what.
LEMMA SameStock ==
  ASSUME StockInv, InventoryTypeOK', RowsInv', stock' = stock, base' = base,
         counted' = counted, reservation' = reservation, reacquired' = reacquired
  PROVE  StockInv'
<1>1. ASSUME NEW p \in Pools PROVE Owned(p)' = Owned(p)
  BY DEF Owned, Owns
<1>2. QED
  BY <1>1 DEF StockInv, StockConserved

\* A seller's absolute write sets the shelf and what is counted on with it.
LEMMA EditStock ==
  ASSUME StockInv, Edit
  PROVE  StockInv'
<1>1. ASSUME NEW p \in Pools, NEW q \in Quantities, NEW a \in BOOLEAN, EditPool(p, q, a)
      PROVE  StockInv'
  <2>1. Owned(p) \in Nat /\ MaxQuantity \in Nat /\ Missing \notin Int
    BY OwnedNat, InventoryParameters
  <2>2. InventoryTypeOK' /\ RowsInv'
    <3>1. stock' \in [Pools -> Int \cup {Missing}]
      BY <1>1, <2>1 DEF EditPool, Quantities, StockInv, InventoryTypeOK
    <3>2. base' \in [Pools -> Nat]
      BY <1>1, <2>1 DEF EditPool, Quantities, StockInv, InventoryTypeOK
    <3>3. offered' \in [Pools -> BOOLEAN]
      BY <1>1, Zenon DEF EditPool, StockInv, InventoryTypeOK
    <3>4. edits' \in 0..MaxEdits
      BY <1>1, InventoryParameters DEF EditPool, StockInv, InventoryTypeOK
    <3>5. QED
      BY <1>1, <3>1, <3>2, <3>3, <3>4
         DEF EditPool, StockInv, InventoryTypeOK, RowsInv, orderVars, rowVars
  <2>3. \A x \in Pools : Owned(x)' = Owned(x)
    BY <1>1 DEF EditPool, Owned, Owns, rowVars
  <2>4. ASSUME NEW x \in Pools, stock'[x] # Missing
        PROVE  stock'[x] \in 0..MaxQuantity /\ stock'[x] + Owned(x)' = base'[x]
    BY <1>1, <2>1, <2>3, <2>4
       DEF EditPool, Quantities, StockInv, StockConserved, InventoryTypeOK
  <2>5. QED
    BY <2>2, <2>4 DEF StockInv, StockConserved
<1>2. ASSUME NEW p \in Pools, ChangeTracking(p) PROVE StockInv'
  <2>1. finite' \in [Pools -> BOOLEAN]
    BY <1>2, Zenon DEF ChangeTracking, StockInv, InventoryTypeOK
  <2>2. edits' \in 0..MaxEdits
    BY <1>2, InventoryParameters DEF ChangeTracking, StockInv, InventoryTypeOK
  <2>3. InventoryTypeOK' /\ RowsInv'
    BY <1>2, <2>1, <2>2
       DEF ChangeTracking, StockInv, InventoryTypeOK, RowsInv, orderVars, rowVars
  <2>4. QED
    BY <1>2, <2>3, SameStock DEF ChangeTracking, rowVars
<1>3. QED
  BY <1>1, <1>2 DEF Edit

LEMMA InventoryStock ==
  ASSUME StockInv, InventoryNext
  PROVE  StockInv'
<1>1. ASSUME NEW o \in Orders, BookCapture(o) \/ RefundFully(o) PROVE StockInv'
  BY <1>1, SameStock
     DEF BookCapture, RefundFully, StockInv, InventoryTypeOK, RowsInv, poolVars, rowVars
<1>2. QED
  BY <1>1, CheckoutStock, ConsumeStock, ReleaseStock, EditStock DEF InventoryNext

-----------------------------------------------------------------------------
(* Print orders                                                             *)

EffectStates == {"none", "PREPARED", "DISPATCHED", "NEEDS_RECONCILIATION", "SUCCEEDED"}

Phases == {"idle", "claim", "current", "post", "verify", "settle"}

CallTypes ==
    /\ effect \in [Automatic -> EffectStates]
    /\ resource \in [Automatic -> References \cup {None}]
    /\ refund \in [Automatic -> {"none", "pending", "settled"}]
    /\ shippingBack \in [Automatic -> BOOLEAN]
    /\ shipped \in [Automatic -> BOOLEAN]
    /\ phase \in [Callers -> Phases]
    /\ target \in [Callers -> Automatic \cup {None}]
    /\ token \in [Callers -> BOOLEAN]
    /\ reference \in [Callers -> References \cup {None}]
    /\ travelling \subseteq Callers \X Automatic
    /\ printed \in [Own -> Automatic \cup {None}]
    /\ posts \in [Automatic -> Nat]
    /\ \A c \in Callers : phase[c] # "idle" => target[c] \in Automatic

Undispatched(o) == effect[o] \in {"none", "PREPARED"}

\* The claim of an effect gives out one token, its holder posts once, and the
\* one POST makes at most one print order.
Dispatches ==
    /\ \A c \in Callers : token[c] => phase[c] \in {"current", "post", "verify", "settle"}
                                   /\ ~Undispatched(target[c])
    /\ \A c, d \in Callers : token[c] /\ token[d] /\ target[c] = target[d] => c = d
    /\ \A c \in Callers : token[c] /\ phase[c] = "current" => posts[target[c]] = 0
    /\ \A o \in Automatic : Undispatched(o) => posts[o] = 0
    /\ \A o \in Automatic : posts[o] <= 1
    /\ \A c \in Callers, o \in Automatic : <<c, o>> \in travelling =>
          /\ posts[o] # 0
          /\ \A d \in Callers : <<d, o>> \in travelling => c = d
          /\ \A r \in Own : printed[r] # o
    /\ \A o \in Automatic, r \in Own : printed[r] = o =>
          /\ posts[o] # 0
          /\ \A q \in Own : printed[q] = o => q = r

\* What is bound, or about to be, is the print order of that order.
Evidence ==
    /\ \A c \in Callers : phase[c] = "settle" =>
          reference[c] \in Own /\ printed[reference[c]] = target[c]
    /\ \A o \in Automatic : effect[o] = "SUCCEEDED" =>
          resource[o] \in Own /\ printed[resource[o]] = o
    /\ \A o \in Automatic : effect[o] # "SUCCEEDED" => resource[o] = None

Taken(o) == captured[o] /\ GoodsTaken(o)

\* Dispatched goods were taken from the stock for a capture; and shipping is
\* given back only for a closed order that nobody had meant to print.
Backs ==
    /\ \A o \in Automatic : ~Undispatched(o) => Taken(o)
    /\ \A o \in Automatic : shippingBack[o] =>
          Closed(o) /\ effect[o] = "none" /\ ~shipped[o]

PrintInv == CallTypes /\ Dispatches /\ Evidence /\ Backs

IInv == StockInv /\ PrintInv

\* What the inventory never undoes: goods stay taken, a closed order closed.
LEMMA InventoryKeeps ==
  ASSUME StockInv, InventoryNext, NEW o \in Orders
  PROVE  /\ Taken(o) => Taken(o)'
         /\ Closed(o) => Closed(o)'
<1> USE DEF StockInv, InventoryTypeOK, RowsInv, Taken, GoodsTaken, Closed,
            poolVars, orderVars, rowVars
<1>1. ASSUME NEW x \in Orders, Checkout(x)
      PROVE  (Taken(o) => Taken(o)') /\ (Closed(o) => Closed(o)')
  BY <1>1 DEF Checkout
<1>2. ASSUME NEW x \in Orders, BookCapture(x) \/ RefundFully(x)
      PROVE  (Taken(o) => Taken(o)') /\ (Closed(o) => Closed(o)')
  BY <1>2 DEF BookCapture, RefundFully
<1>3. ASSUME NEW x \in Orders, ConsumeCapture(x)
      PROVE  (Taken(o) => Taken(o)') /\ (Closed(o) => Closed(o)')
  BY <1>3 DEF ConsumeCapture
<1>4. ASSUME NEW x \in Orders, ReleaseExpired(x) \/ Cancel(x)
      PROVE  (Taken(o) => Taken(o)') /\ (Closed(o) => Closed(o)')
  BY <1>4 DEF ReleaseExpired, Cancel
<1>5. ASSUME Edit
      PROVE  (Taken(o) => Taken(o)') /\ (Closed(o) => Closed(o)')
  BY <1>5 DEF Edit, EditPool, ChangeTracking
<1>6. QED
  BY <1>1, <1>2, <1>3, <1>4, <1>5 DEF InventoryNext

LEMMA InventoryStepIsNext == InventoryStep => InventoryNext
BY DEF InventoryStep, InventoryNext

LEMMA InventoryPrint ==
  ASSUME IInv, InventoryStep
  PROVE  PrintInv'
<1>1. UNCHANGED <<effectVars, shopVars, callVars, printVars>>
  BY DEF InventoryStep
<1>2. ASSUME NEW o \in Automatic PROVE (Taken(o) => Taken(o)') /\ (Closed(o) => Closed(o)')
  <2>1. o \in Orders
    BY FulfilmentParameters
  <2>2. QED
    BY <2>1, InventoryStepIsNext, InventoryKeeps DEF IInv
<1>3. CallTypes' /\ Dispatches' /\ Evidence'
  BY <1>1 DEF IInv, PrintInv, CallTypes, Dispatches, Evidence, Undispatched,
              effectVars, shopVars, callVars, printVars
<1>4. Backs'
  BY <1>1, <1>2 DEF IInv, PrintInv, Backs, Undispatched, effectVars, shopVars
<1>5. QED
  BY <1>3, <1>4 DEF PrintInv

\* Preparing an intent, and the refunds, holds and parcels of an order.
LEMMA OrderPrint ==
  ASSUME PrintInv, NEW o \in Automatic,
         \/ PreparePod(o) \/ Quarantine(o) \/ SettleRefund(o) \/ HoldCapture(o)
         \/ Ship(o) \/ \E s \in BOOLEAN : PrepareRefund(o, s)
  PROVE  PrintInv'
<1>i. Taken(o)' = Taken(o) /\ \A x \in Orders : (Taken(x)' <=> Taken(x)) /\ (Closed(x)' <=> Closed(x))
  BY DEF PreparePod, Quarantine, SettleRefund, HoldCapture, Ship, PrepareRefund,
         inventoryVars, orderVars, rowVars, Taken, GoodsTaken, Closed
<1> USE <1>i, FulfilmentParameters
    DEF PrintInv, CallTypes, Dispatches, Evidence, Backs, Undispatched, EffectStates,
        effectVars, shopVars, callVars, printVars
<1>1. CASE PreparePod(o)
  BY <1>1 DEF PreparePod, AuthorizePod, FulfillmentAllowed
<1>2. CASE Quarantine(o)
  BY <1>2 DEF Quarantine
<1>3. CASE SettleRefund(o)
  BY <1>3 DEF SettleRefund
<1>4. CASE HoldCapture(o)
  BY <1>4 DEF HoldCapture
<1>5. CASE Ship(o)
  BY <1>5 DEF Ship, FulfillmentAllowed
<1>6. CASE \E s \in BOOLEAN : PrepareRefund(o, s)
  BY <1>6 DEF PrepareRefund, NeverHandedOff, Closed
<1>7. QED
  BY <1>1, <1>2, <1>3, <1>4, <1>5, <1>6

\* The steps of an execution.
LEMMA CallPrint ==
  ASSUME PrintInv, NEW c \in Callers,
         \/ Claim(c) \/ LoseClaim(c) \/ ClaimRefused(c)
         \/ Post(c) \/ LookUp(c) \/ AlreadySucceeded(c)
         \/ Fail(c) \/ Verify(c) \/ Settle(c) \/ Abandon(c)
  PROVE  PrintInv'
<1>i. \A x \in Orders : (Taken(x)' <=> Taken(x)) /\ (Closed(x)' <=> Closed(x))
  BY DEF Claim, LoseClaim, ClaimRefused, Post, LookUp, AlreadySucceeded, Fail, Verify,
         Settle, Abandon, inventoryVars, orderVars, rowVars, Taken, GoodsTaken, Closed
<1> USE <1>i, FulfilmentParameters
    DEF PrintInv, CallTypes, Dispatches, Evidence, Backs, Undispatched, EffectStates, Phases,
        Return, effectVars, shopVars, callVars, printVars
<1>1. CASE Claim(c)
  BY <1>1 DEF Claim, AuthorizePod, FulfillmentAllowed, Taken
<1>2. CASE LoseClaim(c)
  BY <1>2 DEF LoseClaim
<1>3. CASE ClaimRefused(c)
  BY <1>3 DEF ClaimRefused
<1>4. CASE Post(c)
  BY <1>4 DEF Post
<1>5. CASE LookUp(c)
  BY <1>5 DEF LookUp
<1>6. CASE AlreadySucceeded(c)
  BY <1>6 DEF AlreadySucceeded
<1>7. CASE Fail(c)
  BY <1>7 DEF Fail
<1>8. CASE Verify(c)
  BY <1>8 DEF Verify
<1>9. CASE Settle(c)
  BY <1>9 DEF Settle
<1>10. CASE Abandon(c)
  BY <1>10 DEF Abandon
<1>11. QED
  BY <1>1, <1>2, <1>3, <1>4, <1>5, <1>6, <1>7, <1>8, <1>9, <1>10

\* Starting an execution, and the provider.
LEMMA ProviderPrint ==
  ASSUME PrintInv, NEW c \in Callers, NEW o \in Automatic,
         \/ \E r \in References \cup {None} : Start(c, o, r)
         \/ \E r \in Own : MakePrint(c, o, r)
         \/ Refuse(c, o)
  PROVE  PrintInv'
<1>i. \A x \in Orders : (Taken(x)' <=> Taken(x)) /\ (Closed(x)' <=> Closed(x))
  BY DEF Start, MakePrint, Refuse, inventoryVars, orderVars, rowVars, Taken, GoodsTaken, Closed
<1> USE <1>i, FulfilmentParameters
    DEF PrintInv, CallTypes, Dispatches, Evidence, Backs, Undispatched, EffectStates, Phases,
        References, effectVars, shopVars, callVars, printVars
<1>1. CASE \E r \in References \cup {None} : Start(c, o, r)
  BY <1>1 DEF Start
<1>2. CASE \E r \in Own : MakePrint(c, o, r)
  BY <1>2 DEF MakePrint
<1>3. CASE Refuse(c, o)
  BY <1>3 DEF Refuse
<1>4. QED
  BY <1>1, <1>2, <1>3

-----------------------------------------------------------------------------
(* The theorems                                                             *)

LEMMA InitPrint == Init => PrintInv
<1> SUFFICES ASSUME Init PROVE PrintInv
  OBVIOUS
<1>1. \A o \in Automatic : o # None
  BY FulfilmentParameters
<1>2. QED
  BY <1>1, FulfilmentParameters
     DEF Init, PrintInv, CallTypes, Dispatches, Evidence, Backs, Undispatched, EffectStates, Phases

\* Only an inventory step changes the inventory.
LEMMA OthersKeepInventory ==
  ASSUME Next
  PROVE  InventoryStep \/ UNCHANGED inventoryVars
BY DEF Next, PreparePod, Quarantine, SettleRefund, HoldCapture, Ship, PrepareRefund, Claim,
       LoseClaim, ClaimRefused, Post, LookUp, AlreadySucceeded, Fail, Verify, Settle, Abandon,
       Start, MakePrint, Refuse

LEMMA StockUnchanged ==
  ASSUME StockInv, UNCHANGED inventoryVars
  PROVE  StockInv'
<1>1. InventoryTypeOK' /\ RowsInv'
  BY DEF StockInv, InventoryTypeOK, RowsInv, inventoryVars, poolVars, orderVars, rowVars
<1>2. QED
  BY <1>1, SameStock DEF inventoryVars, poolVars, rowVars

LEMMA NextInv ==
  ASSUME IInv, [Next]_vars
  PROVE  IInv'
<1>1. StockInv'
  BY OthersKeepInventory, InventoryStepIsNext, InventoryStock, StockUnchanged DEF IInv, vars
<1>2. CASE Next
  <2>1. PrintInv'
    BY <1>2, InventoryPrint, OrderPrint, CallPrint, ProviderPrint DEF IInv, Next
  <2>2. QED
    BY <1>1, <2>1 DEF IInv
<1>3. CASE UNCHANGED vars
  <2>1. PrintInv'
    BY <1>3
       DEF IInv, PrintInv, CallTypes, Dispatches, Evidence, Backs, Undispatched, Taken,
           GoodsTaken, Closed, vars, inventoryVars, orderVars, rowVars, effectVars,
           shopVars, callVars, printVars
  <2>2. QED
    BY <1>1, <2>1 DEF IInv
<1>4. QED
  BY <1>2, <1>3

(***************************************************************************)
(* The invariant of stock, intents and print orders                        *)
(* (inventory-reservation.ts, economic-external-effect.ts) holds in every  *)
(* reachable state.                                                        *)
(***************************************************************************)
THEOREM Inductive == Spec => []IInv
<1>1. Init => IInv
  BY InitStock, InitPrint DEF IInv, Init
<1>2. IInv /\ [Next]_vars => IInv'
  BY NextInv
<1>3. QED
  BY <1>1, <1>2, PTL DEF Spec

(***************************************************************************)
(* Fulfilment takes part in the inventory only as the inventory allows:    *)
(* every execution of the composition is one of the inventory's own        *)
(* specification (lifecycle effects call inventory-reservation.ts).        *)
(***************************************************************************)
THEOREM ImplementsInventory == Spec => InventorySpec
<1>1. Init => InventoryInit
  BY DEF Init
<1>2. [Next]_vars => [InventoryNext]_inventoryVars
  BY OthersKeepInventory, InventoryStepIsNext DEF vars
<1>3. QED
  BY <1>1, <1>2, PTL DEF Spec, InventorySpec

(***************************************************************************)
(* Every piece is on the shelf or owned by one order, and no pool is       *)
(* overdrawn (reserve-, release- and consume- of inventory-reservation.ts) *)
(***************************************************************************)
THEOREM StockIsConserved == Spec => []StockConserved
<1>1. IInv => StockConserved
  BY DEF IInv, StockInv
<1>2. QED
  BY Inductive, <1>1, PTL

\* executeExternalEffect: an effect is posted once and bound to its own print.
THEOREM PrintsOnce == Spec => []PrintedOnce
<1>1. ASSUME IInv, NEW o \in Automatic
      PROVE  Cardinality({r \in Own : printed[r] = o}) <= 1
  <2> DEFINE P == {r \in Own : printed[r] = o}
  <2>1. CASE P = {}
    BY <2>1, FS_EmptySet
  <2>2. CASE P # {}
    <3>1. PICK r \in Own : printed[r] = o
      BY <2>2
    <3>2. P = {r}
      BY <1>1, <3>1 DEF IInv, PrintInv, Dispatches
    <3>3. Cardinality({r}) = 1
      BY FS_Singleton
    <3>4. Cardinality(P) = 1
      BY <3>2, <3>3, Zenon
    <3>5. QED
      BY <3>4
  <2>3. QED
    BY <2>1, <2>2
<1>2. IInv => PrintedOnce
  BY <1>1 DEF IInv, PrintInv, Dispatches, Evidence, PrintedOnce
<1>3. QED
  BY Inductive, <1>2, PTL

\* The goods of a print order stay out of the stock, whatever happens to the
\* order after authorizePod has looked at it.
THEOREM PrintedGoodsAreTaken == Spec => []PrintsOnlyOwned
<1>1. IInv => PrintsOnlyOwned
  BY FulfilmentParameters
     DEF IInv, StockInv, RowsInv, PrintInv, CallTypes, Dispatches, Backs, Taken, GoodsTaken,
         Undispatched, Owns, PrintsOnlyOwned
<1>2. QED
  BY Inductive, <1>1, PTL

\* shippingRefundEligible is final: what it found not handed off never is.
THEOREM NeverHandedOffLater == Spec => []RefundedOrPrinted
<1>1. IInv => RefundedOrPrinted
  BY DEF IInv, PrintInv, CallTypes, Dispatches, Backs, Undispatched, RefundedOrPrinted
<1>2. QED
  BY Inductive, <1>1, PTL
-----------------------------------------------------------------------------
(* One request to the provider                                              *)

\* A step that changes neither the stage of an order nor its print orders.
LEMMA SameRequest ==
  ASSUME NEW o \in Automatic, Stage(o)' = Stage(o), Prints(o)' = Prints(o),
         resource'[o] = resource[o]
  PROVE  UNCHANGED Request(o)!vars
BY DEF Request!vars, Stage

\* The transaction that claims the effect of an order asks for its print.
LEMMA ClaimRefines ==
  ASSUME IInv, NEW o \in Automatic, NEW c \in Callers, Claim(c)
  PROVE  Request(o)!Next \/ UNCHANGED Request(o)!vars
<1>1. UNCHANGED <<resource, printed>> /\ Prints(o)' = Prints(o)
  BY DEF Claim, printVars, Prints
<1>2. CASE target[c] = o
  <2>1. effect[o] = "PREPARED" /\ effect'[o] = "DISPATCHED"
    BY <1>2 DEF IInv, PrintInv, CallTypes, Claim
  <2>2. Stage(o) = "prepared" /\ Stage(o)' = "asked"
    BY <2>1 DEF Stage
  <2>3. Request(o)!Ask
    BY <1>1, <2>1, <2>2 DEF Request!Ask
  <2>4. QED
    BY <2>3 DEF Request!Next
<1>3. CASE target[c] # o
  <2>1. effect'[o] = effect[o]
    BY <1>3 DEF IInv, PrintInv, CallTypes, Claim
  <2>2. QED
    BY <1>1, <2>1, SameRequest DEF Stage
<1>4. QED
  BY <1>2, <1>3

\* The one POST of an order makes its one print order, before anything is
\* bound.
LEMMA MakeRefines ==
  ASSUME IInv, NEW o \in Automatic, NEW c \in Callers, NEW x \in Automatic, NEW r \in Own,
         MakePrint(c, x, r)
  PROVE  Request(o)!Next \/ UNCHANGED Request(o)!vars
<1>1. UNCHANGED <<effect, resource>> /\ Stage(o)' = Stage(o)
  BY DEF MakePrint, effectVars, Stage
<1>2. CASE x = o
  <2>1. Prints(o) = {} /\ posts[o] # 0
    BY <1>2 DEF IInv, PrintInv, Dispatches, MakePrint, Prints
  <2>2. Prints(o)' = {r}
    BY <1>2, <2>1 DEF IInv, PrintInv, CallTypes, MakePrint, Prints
  <2>3. effect[o] \notin {"none", "PREPARED", "SUCCEEDED"}
    BY <2>1 DEF IInv, PrintInv, Dispatches, Evidence, Undispatched, Prints
  <2>4. Stage(o) = "asked"
    BY <2>3 DEF Stage
  <2>5. Request(o)!Make(r)
    BY <1>1, <2>1, <2>2, <2>4 DEF Request!Make
  <2>6. QED
    BY <2>5 DEF Request!Next
<1>3. CASE x # o
  <2>1. Prints(o)' = Prints(o)
    BY <1>3, FulfilmentParameters DEF IInv, PrintInv, CallTypes, MakePrint, Prints
  <2>2. QED
    BY <1>1, <2>1, SameRequest
<1>4. QED
  BY <1>2, <1>3

\* The settling transaction binds a print order of this order, or nothing.
LEMMA SettleRefines ==
  ASSUME IInv, NEW o \in Automatic, NEW c \in Callers, Settle(c)
  PROVE  Request(o)!Next \/ UNCHANGED Request(o)!vars
<1> DEFINE takes == /\ effect[o] \in {"DISPATCHED", "NEEDS_RECONCILIATION"}
                    /\ resource[o] \in {None, reference[c]}
<1>1. Prints(o)' = Prints(o)
  BY DEF Settle, printVars, Prints
<1>2. CASE target[c] = o /\ takes
  <2>1. reference[c] \in Prints(o)
    BY <1>2 DEF IInv, PrintInv, Evidence, Settle, Prints
  <2>2. effect'[o] = "SUCCEEDED" /\ resource'[o] = reference[c]
    BY <1>2 DEF IInv, PrintInv, CallTypes, Settle
  <2>3. Stage(o) = "asked" /\ Stage(o)' = "recorded"
    BY <1>2, <2>2 DEF Stage
  <2>4. effect[o] # "SUCCEEDED" /\ reference[c] \in Own
    BY <1>2, <2>1 DEF Prints
  <2>5. Request(o)!Record(reference[c])
    BY <1>1, <2>1, <2>2, <2>3, <2>4 DEF Request!Record
  <2>6. QED
    BY <2>4, <2>5 DEF Request!Next
<1>3. CASE ~(target[c] = o /\ takes)
  <2>1. effect'[o] = effect[o] /\ resource'[o] = resource[o]
    BY <1>3 DEF IInv, PrintInv, CallTypes, Settle
  <2>2. QED
    BY <1>1, <2>1, SameRequest DEF Stage
<1>4. QED
  BY <1>2, <1>3

\* Errors and the tick only turn DISPATCHED into NEEDS_RECONCILIATION, and an
\* intent that is prepared asks for nothing.
LEMMA QuietRequest ==
  ASSUME NEW o \in Automatic, UNCHANGED <<resource, printed>>,
         \/ effect'[o] = effect[o]
         \/ effect[o] = "DISPATCHED" /\ effect'[o] = "NEEDS_RECONCILIATION"
         \/ effect[o] = "none" /\ effect'[o] = "PREPARED"
  PROVE  UNCHANGED Request(o)!vars
BY SameRequest DEF Stage, Prints

\* Every step of the composition is, for each order, a step of its request or
\* none.
LEMMA NextRefines ==
  ASSUME IInv, [Next]_vars, NEW o \in Automatic
  PROVE  Request(o)!Next \/ UNCHANGED Request(o)!vars
<1>1. ASSUME InventoryStep \/ UNCHANGED vars PROVE UNCHANGED Request(o)!vars
  BY <1>1, QuietRequest DEF InventoryStep, vars, effectVars, printVars
<1>2. ASSUME NEW x \in Automatic,
             \/ PreparePod(x) \/ Quarantine(x) \/ SettleRefund(x) \/ HoldCapture(x) \/ Ship(x)
             \/ \E s \in BOOLEAN : PrepareRefund(x, s)
      PROVE  UNCHANGED Request(o)!vars
  <2>1. UNCHANGED <<resource, printed>>
    BY <1>2 DEF PreparePod, Quarantine, SettleRefund, HoldCapture, Ship, PrepareRefund,
       effectVars, printVars
  <2>2. \/ effect'[o] = effect[o]
        \/ effect[o] = "DISPATCHED" /\ effect'[o] = "NEEDS_RECONCILIATION"
        \/ effect[o] = "none" /\ effect'[o] = "PREPARED"
    BY <1>2 DEF IInv, PrintInv, CallTypes, PreparePod, Quarantine, SettleRefund, HoldCapture,
       Ship, PrepareRefund, effectVars
  <2>3. QED
    BY <2>1, <2>2, QuietRequest
<1>3. ASSUME NEW c \in Callers,
             \/ LoseClaim(c) \/ ClaimRefused(c) \/ Post(c) \/ LookUp(c) \/ AlreadySucceeded(c)
             \/ Fail(c) \/ Verify(c) \/ Abandon(c)
      PROVE  UNCHANGED Request(o)!vars
  <2>1. UNCHANGED <<resource, printed>>
    BY <1>3 DEF LoseClaim, ClaimRefused, Post, LookUp, AlreadySucceeded, Fail, Verify, Abandon,
       effectVars, printVars
  <2>2. \/ effect'[o] = effect[o]
        \/ effect[o] = "DISPATCHED" /\ effect'[o] = "NEEDS_RECONCILIATION"
    BY <1>3 DEF IInv, PrintInv, CallTypes, LoseClaim, ClaimRefused, Post, LookUp,
       AlreadySucceeded, Fail, Verify, Abandon, effectVars
  <2>3. QED
    BY <2>1, <2>2, QuietRequest
<1>4. ASSUME NEW c \in Callers, NEW x \in Automatic, NEW r,
             Start(c, x, r) \/ Refuse(c, x)
      PROVE  UNCHANGED Request(o)!vars
  BY <1>4, QuietRequest DEF Start, Refuse, effectVars, printVars
<1>5. QED
  BY <1>1, <1>2, <1>3, <1>4, ClaimRefines, MakeRefines, SettleRefines DEF Next

(***************************************************************************)
(* executeExternalEffect, run by any number of administrators with any     *)
(* references, is for each order one request to the provider: at most one  *)
(* print order is made, and it is bound once.                              *)
(***************************************************************************)
THEOREM Refines == Spec => RequestPromise
<1>1. ASSUME Init, NEW o \in Automatic PROVE Request(o)!Init
  <2>1. effect[o] = "none" /\ resource[o] = None /\ Prints(o) = {}
    BY <1>1, FulfilmentParameters DEF Init, Prints
  <2>2. QED
    BY <2>1 DEF Request!Init, Stage
<1>2. IInv /\ [Next]_vars
        => [\A o \in Automatic : Request(o)!Next \/ UNCHANGED Request(o)!vars]_vars
  BY NextRefines
<1>3. Init => \A o \in Automatic : Request(o)!Init
  BY <1>1
<1>4. QED
  BY Inductive, <1>2, <1>3, PTL DEF Spec, RequestPromise
=============================================================================
