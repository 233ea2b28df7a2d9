------------------------ MODULE EconomicBalance_proofs ------------------------
(***************************************************************************)
(* Machine-checked proofs about EconomicBalance, for all accounts, lots,   *)
(* captures, payouts and amounts.  IInv is inductive: one lemma per group  *)
(* of actions, one step per conjunct that the action can disturb.  The     *)
(* second part shows that EconomicBalance implements EconomicAccount.      *)
(***************************************************************************)
EXTENDS EconomicBalance, MinorUnits_proofs

\* The lot counters as numbers.
LEMMA LotTypes ==
  ASSUME TypeOK, NEW l \in Lots
  PROVE  /\ reserved[l] \in Nat /\ paid[l] \in Nat /\ reversed[l] \in Nat
         /\ recovered[l] \in Nat /\ reversalDebt[l] \in Nat
         /\ LotAmount[l] \in Nat
         /\ LotAccount[l] \in Accounts /\ LotCapture[l] \in Captures
BY ParametersAreWellFormed DEF TypeOK

\* Any set of lots or payouts with natural amounts has a total.
LEMMA LotAmountsOn ==
  ASSUME NEW f, \A l \in Lots : f[l] \in Nat, NEW S \in SUBSET Lots
  PROVE  AmountsOn(f, S)
BY ParametersAreWellFormed, FS_Subset DEF AmountsOn

\* So has any set of payouts.
LEMMA PayoutAmountsOn ==
  ASSUME TypeOK, NEW l \in Lots, NEW S \in SUBSET Payouts
  PROVE  AmountsOn(DrawnFrom(l), S)
<1>1. IsFiniteSet(S)
  BY ParametersAreWellFormed, FS_Subset
<1>2. \A p \in S : DrawnFrom(l)[p] \in Nat
  BY DEF DrawnFrom, TypeOK
<1>3. QED
  BY <1>1, <1>2 DEF AmountsOn

-----------------------------------------------------------------------------
(* Draws                                                                    *)

\* What the loop over eligible lots takes, whatever it is asked for.
LEMMA DrawFacts ==
  ASSUME NEW free, NEW S \in SUBSET Lots, NEW n \in Nat,
         NEW take \in FifoDraws(free, S, n)
  PROVE  /\ \A l \in Lots : take[l] \in Nat
         /\ \A l \in Lots \ S : take[l] = 0
         /\ \A l \in S : take[l] <= free[l]
         /\ Total(take, S) \in Nat
         /\ Total(take, S) <= n
<1>1. take \in [Lots -> 0..n]
  BY DEF FifoDraws
<1>2. \A l \in Lots : take[l] \in Nat /\ (take[l] > 0 => l \in S)
  BY <1>1 DEF FifoDraws
<1>3. Total(take, S) \in Nat
  BY <1>2, LotAmountsOn, TotalNat
<1>4. (\A l \in S : take[l] <= free[l]) /\ Total(take, S) <= n
  BY DEF FifoDraws
<1>5. QED
  BY <1>2, <1>3, <1>4

\* A draw of at most the free part fits into the lot.
LEMMA DrawFits ==
  ASSUME TypeOK, NEW l \in Lots, NEW d \in Nat, d <= Free(l), d > 0
  PROVE  reserved[l] + paid[l] + reversed[l] + recovered[l] + d <= LotAmount[l]
BY LotTypes DEF Free, PositivePart

\* An eligible lot is booked, belongs to the account and has no pending refund.
LEMMA EligibleFacts ==
  ASSUME NEW a, NEW l \in EligibleLots(a)
  PROVE  /\ l \in Lots /\ LotAccount[l] = a
         /\ Booked(LotCapture[l]) /\ ~RefundPending(LotCapture[l])
BY DEF EligibleLots, Eligible

-----------------------------------------------------------------------------
(* Initial states                                                           *)

\* Nothing is booked, owed or reserved in the beginning.
LEMMA InitIInv == Init => IInv
<1> SUFFICES ASSUME Init PROVE IInv
  OBVIOUS
<1> USE ParametersAreWellFormed
<1>1. TypeOK
  BY DEF Init, TypeOK, NoPlan, OrderStates, PayoutStates, RefundStates
<1>2. LotBounds
  BY DEF Init, LotBounds, PositivePart
<1>3. ReservationsBacked
  <2>1. OpenPayouts = {} /\ SettledPayouts = {}
    BY DEF Init, OpenPayouts, SettledPayouts
  <2>2. ASSUME NEW l \in Lots PROVE Total(DrawnFrom(l), {}) = 0
    BY TotalZero
  <2>3. QED
    BY <2>1, <2>2 DEF Init, ReservationsBacked
<1>4. PayoutAllocated
  <2>1. ASSUME NEW p \in Payouts PROVE Total(allocation[p], Lots) = 0
    <3>1. \A l \in Lots : allocation[p][l] = 0
      BY DEF Init
    <3>2. QED
      BY <3>1, TotalZero
  <2>2. ASSUME NEW p \in Payouts
        PROVE  payoutAmount[p] = 0 /\ \A l \in Lots : allocation[p][l] = 0
    BY DEF Init
  <2>3. QED
    BY <2>1, <2>2 DEF PayoutAllocated
<1>5. DebtConserved
  <2>1. ASSUME NEW a \in Accounts
        PROVE  /\ Total(recovered, LotsOfAccount(a)) = 0
               /\ Total(reversalDebt, LotsOfAccount(a)) = 0
    BY TotalZero DEF Init, LotsOfAccount
  <2>2. ASSUME NEW l \in Lots
        PROVE  reversalDebt[l] = PositivePart(paid[l] + recovered[l] + reversed[l] - LotAmount[l])
    BY DEF Init, PositivePart
  <2>3. \A a \in Accounts : debt[a] = 0
    BY DEF Init
  <2>4. QED
    BY <2>1, <2>2, <2>3 DEF DebtConserved
<1>6. RefundSettleable /\ MoneyAfterBooking /\ RefundAfterBooking
  BY DEF Init, RefundSettleable, MoneyAfterBooking, RefundAfterBooking, RefundPending
<1>7. ReferenceBound
  BY DEF Init, ReferenceBound
<1>8. QED
  BY <1>1, <1>2, <1>3, <1>4, <1>5, <1>6, <1>7 DEF IInv

-----------------------------------------------------------------------------
(* Frames: what a step that leaves the lots or the payouts alone preserves  *)

\* A step that touches no lot and no debt keeps what is said of them.
LEMMA LotFrame ==
  ASSUME IInv, UNCHANGED lotVars
  PROVE  LotBounds' /\ DebtConserved'
BY DEF IInv, LotBounds, DebtConserved, LotsOfAccount, lotVars

\* A step that touches no payout keeps what is said of payouts.
LEMMA PayoutFrame ==
  ASSUME IInv, UNCHANGED payoutVars
  PROVE  PayoutAllocated' /\ ReferenceBound'
BY DEF IInv, PayoutAllocated, ReferenceBound, payoutVars

\* Lots and payouts left alone, reservations stay backed.
LEMMA BackedFrame ==
  ASSUME IInv, UNCHANGED <<reserved, paid, payoutState, allocation>>
  PROVE  ReservationsBacked'
BY DEF IInv, ReservationsBacked, DrawnFrom, OpenPayouts, SettledPayouts

-----------------------------------------------------------------------------
(* The order                                                                *)

\* Booking a capture and the progress of its order keep the invariant.
LEMMA OrderStep ==
  ASSUME IInv, NEW c \in Captures, OrderNext(c)
  PROVE  IInv'
<1>1. UNCHANGED <<lotVars, payoutVars, refundVars>>
  BY DEF OrderNext, BookCapture, ConfirmOrder, CloseOrder, SetDelivered
<1>2. /\ bookedAt' \in [Captures -> Nat]
      /\ \A d \in Captures : Booked(d) => Booked(d)'
  <2>1. Cardinality({d \in Captures : Booked(d)}) \in Nat
    BY ParametersAreWellFormed, FS_Subset, FS_CardinalityType
  <2>2. CASE BookCapture(c)
    BY <2>1, <2>2 DEF BookCapture, Booked, IInv, TypeOK
  <2>3. CASE UNCHANGED bookedAt
    BY <2>3 DEF Booked, IInv, TypeOK
  <2>4. QED
    BY <2>2, <2>3 DEF OrderNext, ConfirmOrder, CloseOrder, SetDelivered
<1>3. order' \in [Captures -> OrderStates] /\ delivered' \in [Captures -> BOOLEAN]
  BY DEF OrderNext, BookCapture, ConfirmOrder, CloseOrder, SetDelivered, IInv, TypeOK,
         OrderStates
<1>4. TypeOK'
  BY <1>1, <1>2, <1>3 DEF IInv, TypeOK, lotVars, payoutVars, refundVars
<1>5. LotBounds' /\ DebtConserved' /\ PayoutAllocated' /\ ReferenceBound'
  BY <1>1, LotFrame, PayoutFrame
<1>6. ReservationsBacked'
  BY <1>1, BackedFrame DEF lotVars, payoutVars
<1>7. RefundSettleable'
  BY <1>1 DEF IInv, RefundSettleable, RefundPending, LotsOf, ImpactAllowed, lotVars, refundVars
<1>8. MoneyAfterBooking' /\ RefundAfterBooking'
  BY <1>1, <1>2, ParametersAreWellFormed
     DEF IInv, MoneyAfterBooking, RefundAfterBooking, RefundPending, lotVars, refundVars
<1>9. QED
  BY <1>4, <1>5, <1>6, <1>7, <1>8 DEF IInv

-----------------------------------------------------------------------------
(* Money drawn from lots                                                    *)

\* Recovering debt and reserving a payout both draw on the free part of
\* eligible lots of one account; rec is recovered, take is reserved.
Draws(a, rec, take) ==
    /\ \A l \in Lots : rec[l] \in Nat /\ take[l] \in Nat
    /\ \A l \in Lots \ EligibleLots(a) : rec[l] = 0 /\ take[l] = 0
    /\ \A l \in EligibleLots(a) : rec[l] + take[l] <= Free(l)
    /\ reserved' = [l \in Lots |-> reserved[l] + take[l]]
    /\ recovered' = [l \in Lots |-> recovered[l] + rec[l]]
    /\ Total(rec, EligibleLots(a)) <= debt[a]
    /\ debt' = [debt EXCEPT ![a] = @ - Total(rec, EligibleLots(a))]
    /\ UNCHANGED <<paid, reversed, reversalDebt, orderVars, refundVars>>

\* Drawing on eligible lots, for a debt and a payout, keeps the invariant.
LEMMA DrawsKeep ==
  ASSUME IInv, NEW a \in Accounts, NEW rec, NEW take, Draws(a, rec, take)
  PROVE  /\ reserved' \in [Lots -> Nat] /\ recovered' \in [Lots -> Nat]
         /\ debt' \in [Accounts -> Nat]
         /\ LotBounds' /\ DebtConserved' /\ RefundSettleable' /\ MoneyAfterBooking'
<1> DEFINE S == EligibleLots(a)
<1>1. S \subseteq Lots /\ S \subseteq LotsOfAccount(a)
  BY DEF EligibleLots, LotsOfAccount
<1>2. AmountsOn(rec, S) /\ Total(rec, S) \in Nat
  BY <1>1, LotAmountsOn, TotalNat DEF Draws
<1>3. /\ reserved' \in [Lots -> Nat] /\ recovered' \in [Lots -> Nat]
      /\ debt' \in [Accounts -> Nat]
  BY <1>2 DEF Draws, IInv, TypeOK
<1>4. ASSUME NEW l \in Lots
      PROVE  \/ rec[l] = 0 /\ take[l] = 0
             \/ /\ l \in S
                /\ reserved[l] + paid[l] + reversed[l] + recovered[l] + (rec[l] + take[l])
                     <= LotAmount[l]
  <2>1. rec[l] \in Nat /\ take[l] \in Nat
    BY DEF Draws
  <2>2. CASE rec[l] + take[l] > 0
    <3>1. l \in S /\ rec[l] + take[l] <= Free(l)
      BY <2>1, <2>2 DEF Draws
    <3>2. QED
      BY <2>1, <2>2, <3>1, DrawFits DEF IInv
  <2>3. CASE rec[l] + take[l] = 0
    BY <2>1, <2>3
  <2>4. QED
    BY <2>1, <2>2, <2>3
<1>5. LotBounds'
  <2> SUFFICES ASSUME NEW l \in Lots
               PROVE  /\ reversed'[l] <= LotAmount[l]
                      /\ paid'[l] + reserved'[l] + recovered'[l] <= LotAmount[l]
                      /\ reserved'[l] <= PositivePart(LotAmount[l] - paid'[l]
                                            - reversed'[l] - recovered'[l])
    BY DEF LotBounds
  <2>1. /\ reserved'[l] = reserved[l] + take[l] /\ recovered'[l] = recovered[l] + rec[l]
        /\ paid'[l] = paid[l] /\ reversed'[l] = reversed[l]
        /\ rec[l] \in Nat /\ take[l] \in Nat
    BY DEF Draws
  <2>2. /\ reversed[l] <= LotAmount[l]
        /\ paid[l] + reserved[l] + recovered[l] <= LotAmount[l]
        /\ reserved[l] <= PositivePart(LotAmount[l] - paid[l] - reversed[l] - recovered[l])
    BY DEF IInv, LotBounds
  <2>3. QED
    BY <1>4, <2>1, <2>2, LotTypes DEF IInv, PositivePart
<1>6. ASSUME NEW l \in Lots
      PROVE  reversalDebt'[l]
               = PositivePart(paid'[l] + recovered'[l] + reversed'[l] - LotAmount[l])
  <2>1. /\ recovered'[l] = recovered[l] + rec[l] /\ paid'[l] = paid[l]
        /\ reversed'[l] = reversed[l] /\ reversalDebt'[l] = reversalDebt[l]
        /\ rec[l] \in Nat /\ take[l] \in Nat
    BY DEF Draws
  <2>2. reversalDebt[l] = PositivePart(paid[l] + recovered[l] + reversed[l] - LotAmount[l])
    BY DEF IInv, DebtConserved
  <2>3. QED
    BY <1>4, <2>1, <2>2, LotTypes DEF IInv, PositivePart
<1>7. ASSUME NEW b \in Accounts
      PROVE  debt'[b] + Total(recovered', LotsOfAccount(b))
               = Total(reversalDebt', LotsOfAccount(b))
  <2> DEFINE L == LotsOfAccount(b)
  <2>1. L \in SUBSET Lots
    BY DEF LotsOfAccount
  <2>2. AmountsOn(rec, L) /\ AmountsOn(recovered, L)
    BY <2>1, LotAmountsOn DEF Draws, IInv, TypeOK
  <2>3. Total(recovered', L) = Total(recovered, L) + Total(rec, L)
    <3>1. \A l \in L : recovered'[l] = recovered[l] + rec[l]
      BY <2>1 DEF Draws
    <3>2. QED
      BY <2>2, <3>1, TotalAdd
  <2>4. Total(recovered, L) \in Nat /\ Total(rec, L) \in Nat
    BY <2>2, TotalNat
  <2>5. debt[b] + Total(recovered, L) = Total(reversalDebt, L)
    BY DEF IInv, DebtConserved
  <2>6. reversalDebt' = reversalDebt
    BY DEF Draws
  <2>7. CASE b = a
    <3>1. S \in SUBSET L /\ \A l \in L \ S : rec[l] = 0
      BY <1>1, <2>7, <2>1 DEF Draws
    <3>2. Total(rec, L) = Total(rec, S)
      BY <3>1, TotalSupport
    <3>3. debt'[b] = debt[b] - Total(rec, S) /\ debt[b] \in Nat
      BY <2>7 DEF Draws, IInv, TypeOK
    <3>4. QED
      BY <2>3, <2>4, <2>5, <2>6, <3>2, <3>3
  <2>8. CASE b # a
    <3>1. \A l \in L : rec[l] = 0
      BY <1>1, <2>8, <2>1 DEF Draws, LotsOfAccount
    <3>2. Total(rec, L) = 0
      BY <3>1, TotalZero
    <3>3. debt'[b] = debt[b] /\ debt[b] \in Nat
      BY <2>8 DEF Draws, IInv, TypeOK
    <3>4. QED
      BY <2>3, <2>4, <2>5, <2>6, <3>2, <3>3
  <2>9. QED
    BY <2>7, <2>8
<1>8. DebtConserved'
  BY <1>6, <1>7 DEF DebtConserved, LotsOfAccount
<1>9. RefundSettleable'
  <2> SUFFICES ASSUME NEW c \in Captures, RefundPending(c)', NEW l \in LotsOf(c)
               PROVE  ImpactAllowed(l, refundPlan[c][l])'
    BY DEF RefundSettleable, LotsOf
  <2>1. RefundPending(c) /\ refundPlan' = refundPlan
    BY DEF RefundPending, Draws, refundVars
  <2>2. l \in Lots /\ LotCapture[l] = c /\ l \notin S
    BY <2>1, EligibleFacts DEF LotsOf
  <2>3. rec[l] = 0 /\ take[l] = 0
    BY <2>2 DEF Draws
  <2>4. ImpactAllowed(l, refundPlan[c][l])
    BY <2>1 DEF IInv, RefundSettleable
  <2>5. /\ reserved'[l] = reserved[l] + 0 /\ recovered'[l] = recovered[l] + 0
        /\ paid'[l] = paid[l] /\ reversed'[l] = reversed[l]
    BY <2>2, <2>3 DEF Draws
  <2>6. QED
    BY <2>1, <2>2, <2>4, <2>5, LotTypes DEF ImpactAllowed, IInv
<1>10. MoneyAfterBooking'
  <2> SUFFICES ASSUME NEW l \in Lots, ~Booked(LotCapture[l])'
               PROVE  reserved'[l] = 0 /\ paid'[l] = 0 /\ reversed'[l] = 0 /\ recovered'[l] = 0
    BY DEF MoneyAfterBooking
  <2>1. ~Booked(LotCapture[l])
    BY DEF Booked, Draws, orderVars
  <2>2. rec[l] = 0 /\ take[l] = 0
    BY <2>1, EligibleFacts DEF Draws
  <2>3. QED
    BY <2>1, <2>2 DEF Draws, IInv, MoneyAfterBooking
<1>11. QED
  BY <1>3, <1>5, <1>8, <1>9, <1>10

\* Recovering a debt is such a draw, up to the debt.
LEMMA RecoverDebtStep ==
  ASSUME IInv, NEW a \in Accounts, RecoverDebt(a)
  PROVE  IInv'
<1> DEFINE S == EligibleLots(a)
           none == [l \in Lots |-> 0]
<1>1. PICK take \in FifoDraws(FreeNow, S, debt[a]) :
          /\ recovered' = [l \in Lots |-> recovered[l] + take[l]]
          /\ debt' = [debt EXCEPT ![a] = @ - Total(take, S)]
  BY DEF RecoverDebt
<1>2. S \in SUBSET Lots /\ debt[a] \in Nat
  BY DEF EligibleLots, IInv, TypeOK
<1>3. /\ \A l \in Lots : take[l] \in Nat
      /\ \A l \in Lots \ S : take[l] = 0
      /\ \A l \in S : take[l] <= FreeNow[l]
      /\ Total(take, S) <= debt[a]
  BY <1>2, DrawFacts
<1>4. reserved' = [l \in Lots |-> reserved[l] + none[l]]
  BY DEF RecoverDebt, IInv, TypeOK
<1>5. \A l \in S : take[l] + none[l] <= Free(l)
  BY <1>2, <1>3 DEF FreeNow
<1>6. Draws(a, take, none)
  BY <1>1, <1>3, <1>4, <1>5 DEF Draws, RecoverDebt
<1>7. UNCHANGED <<reserved, paid, orderVars, payoutVars, refundVars>>
  BY DEF RecoverDebt
<1>8. TypeOK'
  BY <1>6, <1>7, DrawsKeep DEF RecoverDebt, IInv, TypeOK, orderVars, payoutVars, refundVars
<1>9. LotBounds' /\ DebtConserved' /\ RefundSettleable' /\ MoneyAfterBooking'
  BY <1>6, DrawsKeep
<1>10. PayoutAllocated' /\ ReferenceBound' /\ ReservationsBacked'
  BY <1>7, PayoutFrame, BackedFrame DEF payoutVars
<1>11. RefundAfterBooking'
  BY <1>7 DEF IInv, RefundAfterBooking, RefundPending, Booked, orderVars, refundVars
<1>12. QED
  BY <1>8, <1>9, <1>10, <1>11 DEF IInv

-----------------------------------------------------------------------------
(* Payouts                                                                  *)

\* An open or settled payout holds no more of a lot than the lot says.
LEMMA AllocationWithin ==
  ASSUME IInv, NEW p \in OpenPayouts, NEW l \in Lots
  PROVE  allocation[p][l] \in Nat /\ allocation[p][l] <= reserved[l]
<1>1. OpenPayouts \in SUBSET Payouts /\ p \in Payouts
  BY DEF OpenPayouts
<1>2. AmountsOn(DrawnFrom(l), OpenPayouts)
  BY <1>1, PayoutAmountsOn DEF IInv
<1>3. Total(DrawnFrom(l), OpenPayouts)
        = Total(DrawnFrom(l), OpenPayouts \ {p}) + DrawnFrom(l)[p]
  BY <1>2, TotalRemove
<1>4. Total(DrawnFrom(l), OpenPayouts \ {p}) \in Nat
  BY <1>2, FS_Subset, TotalNat DEF AmountsOn
<1>5. DrawnFrom(l)[p] = allocation[p][l] /\ allocation[p][l] \in Nat
  BY <1>1 DEF DrawnFrom, IInv, TypeOK
<1>6. QED
  BY <1>3, <1>4, <1>5 DEF IInv, ReservationsBacked

\* Reserving a payout, with the debt recovery that precedes it.
LEMMA ReservePayoutStep ==
  ASSUME IInv, NEW p \in Payouts, NEW amount \in Amounts, ReservePayout(p, amount)
  PROVE  IInv'
<1> DEFINE a == PayoutOwner[p]
           S == EligibleLots(a)
<1>1. PICK rec \in FifoDraws(FreeNow, S, debt[a]) :
         LET left == [l \in Lots |-> FreeNow[l] - rec[l]]
             owed == debt[a] - Total(rec, S)
         IN  /\ amount <= Available(left, S, owed)
             /\ \E take \in FifoDraws(left, S, amount) :
                  /\ Total(take, S) = amount
                  /\ reserved'   = [l \in Lots |-> reserved[l] + take[l]]
                  /\ allocation' = [allocation EXCEPT ![p] = take]
             /\ recovered' = [l \in Lots |-> recovered[l] + rec[l]]
             /\ debt' = [debt EXCEPT ![a] = owed]
  BY DEF ReservePayout
<1> DEFINE left == [l \in Lots |-> FreeNow[l] - rec[l]]
<1>2. PICK take \in FifoDraws(left, S, amount) :
         /\ Total(take, S) = amount
         /\ reserved'   = [l \in Lots |-> reserved[l] + take[l]]
         /\ allocation' = [allocation EXCEPT ![p] = take]
  BY <1>1
<1>3. a \in Accounts /\ amount \in Nat
  BY ParametersAreWellFormed
<1>4. S \in SUBSET Lots /\ debt[a] \in Nat
  BY <1>3 DEF EligibleLots, IInv, TypeOK
<1>5. /\ \A l \in Lots : rec[l] \in Nat
      /\ \A l \in Lots \ S : rec[l] = 0
      /\ Total(rec, S) <= debt[a]
  BY <1>4, DrawFacts
<1>6. /\ \A l \in Lots : take[l] \in Nat
      /\ \A l \in Lots \ S : take[l] = 0
      /\ \A l \in S : take[l] <= left[l]
  <2> HIDE DEF left
  <2> QED
    BY <1>3, <1>4, DrawFacts
<1>7. \A l \in S : rec[l] + take[l] <= Free(l)
  <2> SUFFICES ASSUME NEW l \in S PROVE rec[l] + take[l] <= Free(l)
    OBVIOUS
  <2>1. l \in Lots /\ take[l] <= Free(l) - rec[l]
    BY <1>4, <1>6 DEF FreeNow
  <2>2. Free(l) \in Int
    BY <2>1, LotTypes DEF Free, PositivePart, IInv
  <2>3. QED
    BY <1>4, <1>5, <1>6, <2>1, <2>2
<1>8. UNCHANGED <<paid, reversed, reversalDebt, reference, orderVars, refundVars>>
  BY DEF ReservePayout
<1>9. Draws(a, rec, take)
  BY <1>1, <1>2, <1>5, <1>6, <1>7, <1>8 DEF Draws
<1>10. /\ reserved' \in [Lots -> Nat] /\ recovered' \in [Lots -> Nat]
       /\ debt' \in [Accounts -> Nat]
       /\ LotBounds' /\ DebtConserved' /\ RefundSettleable' /\ MoneyAfterBooking'
  BY <1>3, <1>9, DrawsKeep
<1>11. /\ payoutState[p] = "NONE"
       /\ payoutState' = [payoutState EXCEPT ![p] = "REQUESTED"]
       /\ payoutAmount' = [payoutAmount EXCEPT ![p] = amount]
  BY DEF ReservePayout
<1>12. take \in [Lots -> Nat]
  BY <1>6 DEF FifoDraws
<1>13. TypeOK'
  <2>1. payoutState' \in [Payouts -> PayoutStates] /\ payoutAmount' \in [Payouts -> Nat]
    BY <1>3, <1>11 DEF IInv, TypeOK, PayoutStates
  <2>2. allocation' \in [Payouts -> [Lots -> Nat]]
    BY <1>2, <1>12 DEF IInv, TypeOK
  <2>3. QED
    BY <1>8, <1>10, <2>1, <2>2 DEF IInv, TypeOK, orderVars, refundVars
<1>14. ReservationsBacked'
  <2>1. /\ OpenPayouts' = OpenPayouts \cup {p} /\ p \notin OpenPayouts
        /\ SettledPayouts' = SettledPayouts /\ p \notin SettledPayouts
    BY <1>11 DEF OpenPayouts, SettledPayouts, IInv, TypeOK
  <2> SUFFICES ASSUME NEW l \in Lots
               PROVE  /\ reserved'[l] = Total(DrawnFrom(l)', OpenPayouts')
                      /\ paid'[l] = Total(DrawnFrom(l)', SettledPayouts')
    BY DEF ReservationsBacked
  <2>2. DrawnFrom(l)' = [DrawnFrom(l) EXCEPT ![p] = take[l]]
    BY <1>2 DEF DrawnFrom, IInv, TypeOK
  <2>3. OpenPayouts \in SUBSET Payouts /\ SettledPayouts \in SUBSET Payouts
    BY DEF OpenPayouts, SettledPayouts
  <2>4. /\ AmountsOn(DrawnFrom(l)', OpenPayouts)
        /\ DrawnFrom(l)'[p] = take[l] /\ take[l] \in Nat
    <3>1. \A q \in Payouts : DrawnFrom(l)'[q] \in Nat
      BY <1>13 DEF TypeOK, DrawnFrom
    <3>2. IsFiniteSet(OpenPayouts)
      BY <2>3, ParametersAreWellFormed, FS_Subset
    <3>3. DrawnFrom(l)'[p] = take[l] /\ take[l] \in Nat
      BY <1>6, <2>2 DEF DrawnFrom
    <3>4. QED
      BY <2>3, <3>1, <3>2, <3>3 DEF AmountsOn
  <2>5. Total(DrawnFrom(l)', OpenPayouts \cup {p})
          = Total(DrawnFrom(l)', OpenPayouts) + DrawnFrom(l)'[p]
    BY <2>1, <2>4, TotalInsert
  <2>6. Total(DrawnFrom(l)', OpenPayouts) = Total(DrawnFrom(l), OpenPayouts)
    BY <2>1, <2>2, <2>3, TotalEq DEF DrawnFrom
  <2>7. Total(DrawnFrom(l)', SettledPayouts) = Total(DrawnFrom(l), SettledPayouts)
    BY <2>1, <2>2, <2>3, TotalEq DEF DrawnFrom
  <2>8. /\ reserved[l] = Total(DrawnFrom(l), OpenPayouts)
        /\ paid[l] = Total(DrawnFrom(l), SettledPayouts)
    BY DEF IInv, ReservationsBacked
  <2>9. reserved'[l] = reserved[l] + take[l] /\ paid'[l] = paid[l]
    BY <1>2, <1>8
  <2>10. QED
    BY <2>1, <2>4, <2>5, <2>6, <2>7, <2>8, <2>9
<1>15. PayoutAllocated'
  <2> SUFFICES ASSUME NEW q \in Payouts
               PROVE  /\ Total(allocation'[q], Lots) = payoutAmount'[q]
                      /\ \A l \in Lots : allocation'[q][l] > 0 => LotAccount[l] = PayoutOwner[q]
    BY DEF PayoutAllocated
  <2>1. CASE q = p
    <3>1. allocation'[q] = take /\ payoutAmount'[q] = amount
      BY <1>2, <1>11, <2>1 DEF IInv, TypeOK
    <3>2. Total(take, Lots) = Total(take, S)
      BY <1>4, <1>6, TotalSupport
    <3>3. ASSUME NEW l \in Lots, take[l] > 0 PROVE LotAccount[l] = PayoutOwner[q]
      <4>1. l \in S
        BY <1>6, <3>3
      <4>2. QED
        BY <4>1, <2>1, EligibleFacts
    <3>4. QED
      BY <1>2, <3>1, <3>2, <3>3
  <2>2. CASE q # p
    BY <1>2, <1>11, <2>2 DEF IInv, TypeOK, PayoutAllocated
  <2>3. QED
    BY <2>1, <2>2
<1>16. RefundAfterBooking'
  BY <1>8 DEF IInv, RefundAfterBooking, RefundPending, Booked, orderVars, refundVars
<1>17. ReferenceBound'
  BY <1>8, <1>11 DEF IInv, TypeOK, ReferenceBound
<1>18. QED
  BY <1>10, <1>13, <1>14, <1>15, <1>16, <1>17 DEF IInv

\* Rejecting a payout releases its own reservations.
LEMMA RejectPayoutStep ==
  ASSUME IInv, NEW p \in Payouts, RejectPayout(p)
  PROVE  IInv'
<1>1. /\ payoutState[p] = "REQUESTED"
      /\ payoutState' = [payoutState EXCEPT ![p] = "REJECTED"]
      /\ reserved' = [l \in Lots |-> reserved[l] - allocation[p][l]]
      /\ UNCHANGED <<paid, reversed, recovered, reversalDebt, debt>>
      /\ UNCHANGED <<payoutAmount, allocation, reference, orderVars, refundVars>>
  BY DEF RejectPayout
<1>2. /\ OpenPayouts' = OpenPayouts \ {p} /\ p \in OpenPayouts
      /\ SettledPayouts' = SettledPayouts
  BY <1>1 DEF OpenPayouts, SettledPayouts, IInv, TypeOK
<1>3. ASSUME NEW l \in Lots
      PROVE  /\ allocation[p][l] \in Nat /\ allocation[p][l] <= reserved[l]
             /\ reserved'[l] = reserved[l] - allocation[p][l]
             /\ reserved'[l] \in Nat /\ reserved'[l] <= reserved[l]
  <2>1. allocation[p][l] \in Nat /\ allocation[p][l] <= reserved[l]
    BY <1>2, AllocationWithin
  <2>2. QED
    BY <1>1, <2>1, LotTypes DEF IInv
<1>4. TypeOK'
  <2>1. reserved' \in [Lots -> Nat] /\ payoutState' \in [Payouts -> PayoutStates]
    BY <1>1, <1>3 DEF IInv, TypeOK, PayoutStates
  <2>2. QED
    BY <1>1, <2>1 DEF IInv, TypeOK, orderVars, refundVars
<1>5. LotBounds'
  <2> SUFFICES ASSUME NEW l \in Lots
               PROVE  /\ reversed[l] <= LotAmount[l]
                      /\ paid[l] + reserved'[l] + recovered[l] <= LotAmount[l]
                      /\ reserved'[l] <= PositivePart(LotAmount[l] - paid[l]
                                            - reversed[l] - recovered[l])
    BY <1>1 DEF LotBounds
  <2>1. /\ reversed[l] <= LotAmount[l]
        /\ paid[l] + reserved[l] + recovered[l] <= LotAmount[l]
        /\ reserved[l] <= PositivePart(LotAmount[l] - paid[l] - reversed[l] - recovered[l])
    BY DEF IInv, LotBounds
  <2>2. QED
    BY <1>3, <2>1, LotTypes DEF IInv, PositivePart
<1>6. ReservationsBacked'
  <2> SUFFICES ASSUME NEW l \in Lots
               PROVE  /\ reserved'[l] = Total(DrawnFrom(l), OpenPayouts \ {p})
                      /\ paid[l] = Total(DrawnFrom(l), SettledPayouts)
    BY <1>1, <1>2 DEF ReservationsBacked, DrawnFrom
  <2>1. OpenPayouts \in SUBSET Payouts
    BY DEF OpenPayouts
  <2>2. AmountsOn(DrawnFrom(l), OpenPayouts)
    BY <2>1, PayoutAmountsOn DEF IInv
  <2>3. Total(DrawnFrom(l), OpenPayouts)
          = Total(DrawnFrom(l), OpenPayouts \ {p}) + DrawnFrom(l)[p]
    BY <1>2, <2>2, TotalRemove
  <2>4. Total(DrawnFrom(l), OpenPayouts \ {p}) \in Nat
    BY <2>2, FS_Subset, TotalNat DEF AmountsOn
  <2>5. DrawnFrom(l)[p] = allocation[p][l]
    BY DEF DrawnFrom
  <2>6. /\ reserved[l] = Total(DrawnFrom(l), OpenPayouts)
        /\ paid[l] = Total(DrawnFrom(l), SettledPayouts)
    BY DEF IInv, ReservationsBacked
  <2>7. QED
    BY <1>3, <2>3, <2>4, <2>5, <2>6
<1>7. PayoutAllocated' /\ DebtConserved'
  BY <1>1 DEF IInv, PayoutAllocated, DebtConserved, LotsOfAccount
<1>8. RefundSettleable'
  <2> SUFFICES ASSUME NEW c \in Captures, RefundPending(c)', NEW l \in LotsOf(c)
               PROVE  ImpactAllowed(l, refundPlan[c][l])'
    BY DEF RefundSettleable, LotsOf
  <2>1. ImpactAllowed(l, refundPlan[c][l]) /\ l \in Lots
    BY <1>1 DEF IInv, RefundSettleable, RefundPending, LotsOf, refundVars
  <2>2. refundPlan' = refundPlan
    BY <1>1 DEF refundVars
  <2>3. reserved'[l] = 0
    BY <1>3, <2>1, LotTypes DEF ImpactAllowed, IInv
  <2>4. QED
    BY <1>1, <2>1, <2>2, <2>3 DEF ImpactAllowed
<1>9. MoneyAfterBooking'
  BY <1>1, <1>3 DEF IInv, MoneyAfterBooking, Booked, orderVars
<1>10. RefundAfterBooking'
  BY <1>1 DEF IInv, RefundAfterBooking, RefundPending, Booked, orderVars, refundVars
<1>11. ReferenceBound'
  BY <1>1 DEF IInv, TypeOK, ReferenceBound
<1>12. QED
  BY <1>4, <1>5, <1>6, <1>7, <1>8, <1>9, <1>10, <1>11 DEF IInv

\* Binding a reference moves no money: the payout stays open.
LEMMA BeginVerificationStep ==
  ASSUME IInv, NEW p \in Payouts, NEW r \in References, BeginVerification(p, r)
  PROVE  IInv'
<1>1. /\ payoutState[p] = "REQUESTED"
      /\ payoutState' = [payoutState EXCEPT ![p] = "VERIFYING"]
      /\ reference' = [reference EXCEPT ![p] = r]
      /\ UNCHANGED <<payoutAmount, allocation, orderVars, lotVars, refundVars>>
  BY DEF BeginVerification
<1>2. TypeOK'
  <2>1. payoutState' \in [Payouts -> PayoutStates]
    BY <1>1 DEF IInv, TypeOK, PayoutStates
  <2>2. reference' \in [Payouts -> References \cup {NoReference}]
    BY <1>1 DEF IInv, TypeOK
  <2>3. QED
    BY <1>1, <2>1, <2>2 DEF IInv, TypeOK, orderVars, lotVars, refundVars
<1>3. LotBounds' /\ DebtConserved'
  BY <1>1, LotFrame
<1>4. ReservationsBacked'
  <2>1. OpenPayouts' = OpenPayouts /\ SettledPayouts' = SettledPayouts
    BY <1>1 DEF OpenPayouts, SettledPayouts, IInv, TypeOK
  <2>2. QED
    BY <1>1, <2>1 DEF IInv, ReservationsBacked, DrawnFrom, lotVars
<1>5. PayoutAllocated'
  BY <1>1 DEF IInv, PayoutAllocated
<1>6. RefundSettleable' /\ MoneyAfterBooking' /\ RefundAfterBooking'
  BY <1>1 DEF IInv, RefundSettleable, MoneyAfterBooking, RefundAfterBooking, RefundPending,
              Booked, ImpactAllowed, LotsOf, orderVars, lotVars, refundVars
<1>7. ReferenceBound'
  BY <1>1, ParametersAreWellFormed DEF IInv, TypeOK, ReferenceBound
<1>8. QED
  BY <1>2, <1>3, <1>4, <1>5, <1>6, <1>7 DEF IInv

\* Settling turns reserved money into paid money.  A lot whose money a refund
\* has taken back has none reserved, so the debt of a lot does not move.
LEMMA SettlePayoutStep ==
  ASSUME IInv, NEW p \in Payouts, SettlePayout(p)
  PROVE  IInv'
<1>1. /\ payoutState[p] = "VERIFYING" /\ TransferFor[reference[p]] = p
      /\ payoutState' = [payoutState EXCEPT ![p] = "PAID"]
      /\ reserved' = [l \in Lots |-> reserved[l] - allocation[p][l]]
      /\ paid' = [l \in Lots |-> paid[l] + allocation[p][l]]
      /\ UNCHANGED <<reversed, recovered, reversalDebt, debt>>
      /\ UNCHANGED <<payoutAmount, allocation, reference, orderVars, refundVars>>
  BY DEF SettlePayout
<1>2. /\ OpenPayouts' = OpenPayouts \ {p} /\ p \in OpenPayouts
      /\ SettledPayouts' = SettledPayouts \cup {p} /\ p \notin SettledPayouts
  BY <1>1 DEF OpenPayouts, SettledPayouts, IInv, TypeOK
<1>3. ASSUME NEW l \in Lots
      PROVE  /\ allocation[p][l] \in Nat /\ allocation[p][l] <= reserved[l]
             /\ reserved'[l] = reserved[l] - allocation[p][l]
             /\ reserved'[l] \in Nat /\ reserved'[l] <= reserved[l]
             /\ paid'[l] = paid[l] + allocation[p][l] /\ paid'[l] \in Nat
  <2>1. allocation[p][l] \in Nat /\ allocation[p][l] <= reserved[l]
    BY <1>2, AllocationWithin
  <2>2. QED
    BY <1>1, <2>1, LotTypes DEF IInv
<1>4. TypeOK'
  <2>1. /\ reserved' \in [Lots -> Nat] /\ paid' \in [Lots -> Nat]
        /\ payoutState' \in [Payouts -> PayoutStates]
    BY <1>1, <1>3 DEF IInv, TypeOK, PayoutStates
  <2>2. QED
    BY <1>1, <2>1 DEF IInv, TypeOK, orderVars, refundVars
<1>5. ASSUME NEW l \in Lots
      PROVE  /\ reversed[l] <= LotAmount[l]
             /\ paid'[l] + reserved'[l] + recovered[l] <= LotAmount[l]
             /\ reserved'[l] <= PositivePart(LotAmount[l] - paid'[l]
                                   - reversed[l] - recovered[l])
             /\ PositivePart(paid'[l] + recovered[l] + reversed[l] - LotAmount[l])
                  = PositivePart(paid[l] + recovered[l] + reversed[l] - LotAmount[l])
  <2>1. /\ reversed[l] <= LotAmount[l]
        /\ paid[l] + reserved[l] + recovered[l] <= LotAmount[l]
        /\ reserved[l] <= PositivePart(LotAmount[l] - paid[l] - reversed[l] - recovered[l])
    BY DEF IInv, LotBounds
  <2>2. QED
    BY <1>3, <2>1, LotTypes DEF IInv, PositivePart
<1>6. LotBounds'
  BY <1>1, <1>5 DEF LotBounds
<1>7. DebtConserved'
  BY <1>1, <1>5 DEF IInv, DebtConserved, LotsOfAccount
<1>8. ReservationsBacked'
  <2> SUFFICES ASSUME NEW l \in Lots
               PROVE  /\ reserved'[l] = Total(DrawnFrom(l), OpenPayouts \ {p})
                      /\ paid'[l] = Total(DrawnFrom(l), SettledPayouts \cup {p})
    BY <1>1, <1>2 DEF ReservationsBacked, DrawnFrom
  <2>1. OpenPayouts \in SUBSET Payouts /\ SettledPayouts \in SUBSET Payouts
    BY DEF OpenPayouts, SettledPayouts
  <2>2. AmountsOn(DrawnFrom(l), OpenPayouts) /\ AmountsOn(DrawnFrom(l), SettledPayouts)
    BY <2>1, PayoutAmountsOn DEF IInv
  <2>3. Total(DrawnFrom(l), OpenPayouts)
          = Total(DrawnFrom(l), OpenPayouts \ {p}) + DrawnFrom(l)[p]
    BY <1>2, <2>2, TotalRemove
  <2>4. Total(DrawnFrom(l), OpenPayouts \ {p}) \in Nat
    BY <2>2, FS_Subset, TotalNat DEF AmountsOn
  <2>5. DrawnFrom(l)[p] = allocation[p][l]
    BY DEF DrawnFrom
  <2>6. Total(DrawnFrom(l), SettledPayouts \cup {p})
          = Total(DrawnFrom(l), SettledPayouts) + DrawnFrom(l)[p]
    BY <1>2, <1>3, <2>2, <2>5, TotalInsert
  <2>7. /\ reserved[l] = Total(DrawnFrom(l), OpenPayouts)
        /\ paid[l] = Total(DrawnFrom(l), SettledPayouts)
    BY DEF IInv, ReservationsBacked
  <2>8. QED
    BY <1>3, <2>3, <2>4, <2>5, <2>6, <2>7
<1>9. PayoutAllocated'
  BY <1>1 DEF IInv, PayoutAllocated
<1>10. RefundSettleable'
  <2> SUFFICES ASSUME NEW c \in Captures, RefundPending(c)', NEW l \in LotsOf(c)
               PROVE  ImpactAllowed(l, refundPlan[c][l])'
    BY DEF RefundSettleable, LotsOf
  <2>1. ImpactAllowed(l, refundPlan[c][l]) /\ l \in Lots
    BY <1>1 DEF IInv, RefundSettleable, RefundPending, LotsOf, refundVars
  <2>2. refundPlan' = refundPlan
    BY <1>1 DEF refundVars
  <2>3. reserved'[l] = 0 /\ paid'[l] = paid[l]
    BY <1>3, <2>1, LotTypes DEF ImpactAllowed, IInv
  <2>4. QED
    BY <1>1, <2>1, <2>2, <2>3, LotTypes DEF ImpactAllowed, IInv
<1>11. MoneyAfterBooking'
  <2> SUFFICES ASSUME NEW l \in Lots, ~Booked(LotCapture[l])'
               PROVE  reserved'[l] = 0 /\ paid'[l] = 0 /\ reversed'[l] = 0 /\ recovered'[l] = 0
    BY DEF MoneyAfterBooking
  <2>1. reserved[l] = 0 /\ paid[l] = 0 /\ reversed[l] = 0 /\ recovered[l] = 0
    BY <1>1 DEF IInv, MoneyAfterBooking, Booked, orderVars
  <2>2. QED
    BY <1>1, <1>3, <2>1
<1>12. RefundAfterBooking'
  BY <1>1 DEF IInv, RefundAfterBooking, RefundPending, Booked, orderVars, refundVars
<1>13. ReferenceBound'
  BY <1>1 DEF IInv, TypeOK, ReferenceBound
<1>14. QED
  BY <1>4, <1>6, <1>7, <1>8, <1>9, <1>10, <1>11, <1>12, <1>13 DEF IInv

-----------------------------------------------------------------------------
(* Refunds                                                                  *)

\* Until it is settled a refund changes no lot: only its own operation moves,
\* and what it may take back is fixed when it is prepared.
LEMMA PendingRefundStep ==
  ASSUME IInv, NEW c \in Captures,
         \/ \E plan \in [Lots -> {0} \cup Amounts] : PrepareRefund(c, plan)
         \/ DispatchRefund(c)
         \/ QuarantineRefund(c)
  PROVE  IInv'
<1>1. UNCHANGED <<orderVars, lotVars, payoutVars>>
  BY DEF PrepareRefund, DispatchRefund, QuarantineRefund
<1>2. LotBounds' /\ DebtConserved' /\ PayoutAllocated' /\ ReferenceBound'
  BY <1>1, LotFrame, PayoutFrame
<1>3. ReservationsBacked'
  BY <1>1, BackedFrame DEF lotVars, payoutVars
<1>4. MoneyAfterBooking'
  BY <1>1 DEF IInv, MoneyAfterBooking, Booked, orderVars, lotVars
<1>5. CASE \E plan \in [Lots -> {0} \cup Amounts] : PrepareRefund(c, plan)
  <2>1. PICK plan \in [Lots -> {0} \cup Amounts] : PrepareRefund(c, plan)
    BY <1>5
  <2>2. plan \in [Lots -> Nat]
    <3>1. {0} \cup Amounts \subseteq Nat
      BY ParametersAreWellFormed
    <3>2. \A l \in Lots : plan[l] \in Nat
      BY <3>1
    <3>3. QED
      BY <3>2
  <2>3. /\ Booked(c)
        /\ refundState' = [refundState EXCEPT ![c] = "PREPARED"]
        /\ refundPlan' = [refundPlan EXCEPT ![c] = plan]
        /\ \A l \in LotsOf(c) : reserved[l] = 0 /\ plan[l] <= LotAmount[l] - reversed[l]
    BY <2>1 DEF PrepareRefund, LotsOf
  <2>4. TypeOK'
    <3>1. refundState' \in [Captures -> RefundStates]
      BY <2>3 DEF IInv, TypeOK, RefundStates
    <3>2. refundPlan' \in [Captures -> [Lots -> Nat]]
      BY <2>2, <2>3 DEF IInv, TypeOK
    <3>3. QED
      BY <1>1, <3>1, <3>2 DEF IInv, TypeOK, orderVars, lotVars, payoutVars
  <2>5. RefundAfterBooking'
    BY <1>1, <2>3 DEF IInv, TypeOK, RefundAfterBooking, RefundPending, Booked, orderVars
  <2>6. RefundSettleable'
    <3> SUFFICES ASSUME NEW d \in Captures, RefundPending(d)', NEW l \in LotsOf(d)
                 PROVE  ImpactAllowed(l, refundPlan[d][l])'
      BY DEF RefundSettleable, LotsOf
    <3>1. l \in Lots /\ reserved' = reserved /\ paid' = paid /\ recovered' = recovered
          /\ reversed' = reversed
      BY <1>1 DEF LotsOf, lotVars
    <3>2. CASE d = c
      <4>1. refundPlan'[d][l] = plan[l]
        BY <2>3, <3>2 DEF IInv, TypeOK
      <4>2. paid[l] + reserved[l] + recovered[l] <= LotAmount[l]
        BY <3>1 DEF IInv, LotBounds
      <4>3. reserved[l] = 0 /\ plan[l] <= LotAmount[l] - reversed[l]
        BY <2>3, <3>2
      <4>4. QED
        BY <3>1, <4>1, <4>2, <4>3, LotTypes DEF ImpactAllowed, IInv
    <3>3. CASE d # c
      <4>1. RefundPending(d) /\ refundPlan'[d] = refundPlan[d]
        BY <2>3, <3>3 DEF IInv, TypeOK, RefundPending
      <4>2. ImpactAllowed(l, refundPlan[d][l])
        BY <4>1 DEF IInv, RefundSettleable
      <4>3. QED
        BY <3>1, <4>1, <4>2 DEF ImpactAllowed
    <3>4. QED
      BY <3>2, <3>3
  <2>7. QED
    BY <1>2, <1>3, <1>4, <2>4, <2>5, <2>6 DEF IInv
<1>6. CASE DispatchRefund(c) \/ QuarantineRefund(c)
  <2>1. /\ refundPlan' = refundPlan
        /\ refundState' \in [Captures -> RefundStates]
        /\ \A d \in Captures : RefundPending(d)' => RefundPending(d)
    BY <1>6 DEF DispatchRefund, QuarantineRefund, RefundPending, IInv, TypeOK, RefundStates
  <2>2. TypeOK'
    BY <1>1, <2>1 DEF IInv, TypeOK, orderVars, lotVars, payoutVars
  <2>3. RefundAfterBooking'
    BY <1>1, <2>1 DEF IInv, RefundAfterBooking, Booked, orderVars
  <2>4. RefundSettleable'
    BY <1>1, <2>1 DEF IInv, RefundSettleable, LotsOf, ImpactAllowed, lotVars
  <2>5. QED
    BY <1>2, <1>3, <1>4, <2>2, <2>3, <2>4 DEF IInv
<1>7. QED
  BY <1>5, <1>6

\* What a settled refund adds to a lot and to the debt of its account.
LEMMA ImpactFacts ==
  ASSUME IInv, NEW l \in Lots, NEW reversal \in Nat, ImpactAllowed(l, reversal)
  PROVE  /\ ImpactDebt(l, reversal) \in Nat
         /\ reversed[l] + reversal <= LotAmount[l]
         /\ reserved[l] = 0
         /\ reversalDebt[l] + ImpactDebt(l, reversal)
              = PositivePart(paid[l] + recovered[l] + (reversed[l] + reversal) - LotAmount[l])
<1>1. reversalDebt[l] = PositivePart(paid[l] + recovered[l] + reversed[l] - LotAmount[l])
  BY DEF IInv, DebtConserved
<1>2. /\ paid[l] \in Nat /\ recovered[l] \in Nat /\ reversed[l] \in Nat
      /\ reserved[l] \in Nat /\ LotAmount[l] \in Nat
  BY LotTypes DEF IInv
<1>3. /\ paid[l] + recovered[l] + reserved[l] <= LotAmount[l]
      /\ reversal <= LotAmount[l] - reversed[l] /\ reserved[l] = 0
  BY DEF ImpactAllowed
<1>4. ImpactDebt(l, reversal)
        = PositivePart((paid[l] + recovered[l] + reversed[l] - LotAmount[l]) + reversal)
            - PositivePart(paid[l] + recovered[l] + reversed[l] - LotAmount[l])
  BY DEF ImpactDebt
<1>5. QED
  BY <1>1, <1>2, <1>3, <1>4 DEF PositivePart

\* Settling a refund reverses its lots and turns the missing part into debt.
LEMMA SettleRefundStep ==
  ASSUME IInv, NEW c \in Captures, SettleRefund(c)
  PROVE  IInv'
<1> DEFINE impact == [l \in Lots |-> ImpactDebt(l, refundPlan[c][l])]
           hit    == {l \in LotsOf(c) : refundPlan[c][l] > 0}
           add    == [l \in Lots |-> IF l \in hit THEN impact[l] ELSE 0]
<1>1. /\ refundState[c] \in {"DISPATCHED", "NEEDS_RECONCILIATION"}
      /\ \A l \in hit : ImpactAllowed(l, refundPlan[c][l])
      /\ reversed' = [l \in Lots |-> IF l \in hit THEN reversed[l] + refundPlan[c][l]
                                     ELSE reversed[l]]
      /\ reversalDebt' = [l \in Lots |-> IF l \in hit THEN reversalDebt[l] + impact[l]
                                         ELSE reversalDebt[l]]
      /\ debt' = [a \in Accounts |->
                    debt[a] + Total(impact, {l \in hit : LotAccount[l] = a})]
      /\ refundState' = [refundState EXCEPT ![c] = "SUCCEEDED"]
      /\ refundPlan' = [refundPlan EXCEPT ![c] = NoPlan]
      /\ UNCHANGED <<reserved, paid, recovered, orderVars, payoutVars>>
  BY DEF SettleRefund
<1>2. hit \in SUBSET Lots /\ \A l \in hit : LotCapture[l] = c
  BY DEF LotsOf
<1>3. ASSUME NEW l \in hit
      PROVE  /\ l \in Lots /\ refundPlan[c][l] \in Nat
             /\ impact[l] \in Nat /\ add[l] = impact[l]
             /\ reversed'[l] = reversed[l] + refundPlan[c][l]
             /\ reversed[l] + refundPlan[c][l] <= LotAmount[l]
             /\ reserved[l] = 0
             /\ reversalDebt'[l] = reversalDebt[l] + impact[l]
             /\ reversalDebt[l] + impact[l]
                  = PositivePart(paid[l] + recovered[l] + (reversed[l] + refundPlan[c][l])
                                   - LotAmount[l])
  <2>1. l \in Lots /\ refundPlan[c][l] \in Nat
    BY <1>2 DEF IInv, TypeOK
  <2>2. ImpactAllowed(l, refundPlan[c][l]) /\ impact[l] = ImpactDebt(l, refundPlan[c][l])
    BY <1>1, <2>1
  <2>3. QED
    BY <1>1, <2>1, <2>2, ImpactFacts
<1>4. ASSUME NEW l \in Lots, l \notin hit
      PROVE  reversed'[l] = reversed[l] /\ reversalDebt'[l] = reversalDebt[l] /\ add[l] = 0
  BY <1>1, <1>4
<1> HIDE DEF impact, hit, add
<1>5. \A l \in Lots : add[l] \in Nat /\ (l \in hit => impact[l] \in Nat)
  BY <1>3, <1>4
<1>6. ASSUME NEW a \in Accounts
      PROVE  /\ debt'[a] = debt[a] + Total(add, LotsOfAccount(a))
             /\ Total(add, LotsOfAccount(a)) \in Nat
  <2> DEFINE L == LotsOfAccount(a)
             H == {l \in hit : LotAccount[l] = a}
  <2>1. L \in SUBSET Lots /\ H \in SUBSET L /\ H \in SUBSET hit
    BY <1>2 DEF LotsOfAccount
  <2>2. \A l \in L \ H : add[l] = 0
    BY <1>4 DEF LotsOfAccount
  <2>3. Total(add, L) = Total(add, H)
    BY <2>1, <2>2, TotalSupport
  <2>4. Total(add, H) = Total(impact, H)
    <3>1. \A l \in H : add[l] = impact[l]
      BY <1>3, <2>1
    <3>2. QED
      BY <3>1, TotalEq
  <2>5. Total(add, L) \in Nat
    BY <1>5, <2>1, LotAmountsOn, TotalNat
  <2>6. debt'[a] = debt[a] + Total(impact, H)
    BY <1>1
  <2>7. QED
    BY <2>3, <2>4, <2>5, <2>6
<1>7. TypeOK'
  <2>1. ASSUME NEW l \in Lots PROVE reversed'[l] \in Nat /\ reversalDebt'[l] \in Nat
    <3>1. reversed[l] \in Nat /\ reversalDebt[l] \in Nat
      BY LotTypes DEF IInv
    <3>2. CASE l \in hit
      BY <1>3, <3>1, <3>2
    <3>3. CASE l \notin hit
      BY <1>4, <3>1, <3>3
    <3>4. QED
      BY <3>2, <3>3
  <2>2. reversed' \in [Lots -> Nat] /\ reversalDebt' \in [Lots -> Nat]
    BY <1>1, <2>1
  <2>3. ASSUME NEW a \in Accounts PROVE debt'[a] \in Nat
    <3>1. debt[a] \in Nat
      BY DEF IInv, TypeOK
    <3>2. QED
      BY <1>6, <3>1
  <2>4. debt' \in [Accounts -> Nat]
    BY <1>1, <2>3
  <2>5. refundState' \in [Captures -> RefundStates]
    BY <1>1 DEF IInv, TypeOK, RefundStates
  <2>6. refundPlan' \in [Captures -> [Lots -> Nat]]
    BY <1>1 DEF IInv, TypeOK, NoPlan
  <2>7. QED
    BY <1>1, <2>2, <2>4, <2>5, <2>6 DEF IInv, TypeOK, orderVars, payoutVars
<1>8. LotBounds'
  <2> SUFFICES ASSUME NEW l \in Lots
               PROVE  /\ reversed'[l] <= LotAmount[l]
                      /\ paid[l] + reserved[l] + recovered[l] <= LotAmount[l]
                      /\ reserved[l] <= PositivePart(LotAmount[l] - paid[l]
                                            - reversed'[l] - recovered[l])
    BY <1>1 DEF LotBounds
  <2>1. /\ reversed[l] <= LotAmount[l]
        /\ paid[l] + reserved[l] + recovered[l] <= LotAmount[l]
        /\ reserved[l] <= PositivePart(LotAmount[l] - paid[l] - reversed[l] - recovered[l])
    BY DEF IInv, LotBounds
  <2>2. CASE l \in hit
    <3>1. reserved[l] = 0 /\ reversed'[l] <= LotAmount[l] /\ reversed'[l] \in Nat
      BY <1>3, <2>2, LotTypes DEF IInv
    <3>2. QED
      BY <2>1, <3>1, LotTypes DEF IInv, PositivePart
  <2>3. CASE l \notin hit
    BY <1>4, <2>1, <2>3
  <2>4. QED
    BY <2>2, <2>3
<1>9. DebtConserved'
  <2>1. ASSUME NEW l \in Lots
        PROVE  reversalDebt'[l]
                 = PositivePart(paid'[l] + recovered'[l] + reversed'[l] - LotAmount[l])
    <3>1. paid'[l] = paid[l] /\ recovered'[l] = recovered[l]
      BY <1>1
    <3>2. CASE l \in hit
      BY <1>3, <3>1, <3>2
    <3>3. CASE l \notin hit
      BY <1>4, <3>1, <3>3 DEF IInv, DebtConserved
    <3>4. QED
      BY <3>2, <3>3
  <2>2. ASSUME NEW a \in Accounts
        PROVE  debt'[a] + Total(recovered', LotsOfAccount(a))
                 = Total(reversalDebt', LotsOfAccount(a))
    <3> DEFINE L == LotsOfAccount(a)
    <3>1. L \in SUBSET Lots
      BY DEF LotsOfAccount
    <3>2. AmountsOn(reversalDebt, L) /\ AmountsOn(add, L) /\ AmountsOn(recovered, L)
      BY <1>5, <3>1, LotAmountsOn DEF IInv, TypeOK
    <3>3. \A l \in L : reversalDebt'[l] = reversalDebt[l] + add[l]
      <4> SUFFICES ASSUME NEW l \in L PROVE reversalDebt'[l] = reversalDebt[l] + add[l]
        OBVIOUS
      <4>1. l \in Lots /\ reversalDebt[l] \in Nat
        BY <3>1, LotTypes DEF IInv
      <4>2. CASE l \in hit
        BY <1>3, <4>2
      <4>3. CASE l \notin hit
        BY <1>4, <4>1, <4>3
      <4>4. QED
        BY <4>2, <4>3
    <3>4. Total(reversalDebt', L) = Total(reversalDebt, L) + Total(add, L)
      BY <3>2, <3>3, TotalAdd
    <3>5. Total(recovered, L) \in Nat /\ Total(reversalDebt, L) \in Nat /\ debt[a] \in Nat
      BY <3>2, TotalNat DEF IInv, TypeOK
    <3>6. debt[a] + Total(recovered, L) = Total(reversalDebt, L)
      BY DEF IInv, DebtConserved
    <3>7. recovered' = recovered
      BY <1>1
    <3>8. QED
      BY <1>6, <3>4, <3>5, <3>6, <3>7
  <2>3. QED
    BY <2>1, <2>2 DEF DebtConserved, LotsOfAccount
<1>10. RefundSettleable'
  <2> SUFFICES ASSUME NEW d \in Captures, RefundPending(d)', NEW l \in LotsOf(d)
               PROVE  ImpactAllowed(l, refundPlan[d][l])'
    BY DEF RefundSettleable, LotsOf
  <2>1. d # c /\ RefundPending(d) /\ refundPlan'[d] = refundPlan[d]
    BY <1>1 DEF IInv, TypeOK, RefundPending
  <2>2. l \in Lots /\ l \notin hit
    BY <1>2, <2>1 DEF LotsOf
  <2>3. reversed'[l] = reversed[l]
    BY <1>4, <2>2
  <2>4. ImpactAllowed(l, refundPlan[d][l])
    BY <2>1 DEF IInv, RefundSettleable
  <2>5. QED
    BY <1>1, <2>1, <2>3, <2>4 DEF ImpactAllowed
<1>11. MoneyAfterBooking'
  <2> SUFFICES ASSUME NEW l \in Lots, ~Booked(LotCapture[l])'
               PROVE  reserved'[l] = 0 /\ paid'[l] = 0 /\ reversed'[l] = 0 /\ recovered'[l] = 0
    BY DEF MoneyAfterBooking
  <2>1. ~Booked(LotCapture[l])
    BY <1>1 DEF Booked, orderVars
  <2>2. Booked(c)
    BY <1>1 DEF IInv, RefundAfterBooking, RefundPending
  <2>3. l \notin hit
    BY <1>2, <2>1, <2>2
  <2>4. QED
    BY <1>1, <1>4, <2>1, <2>3 DEF IInv, MoneyAfterBooking
<1>12. RefundAfterBooking'
  BY <1>1 DEF IInv, TypeOK, RefundAfterBooking, RefundPending, Booked, orderVars
<1>13. PayoutAllocated' /\ ReferenceBound'
  BY <1>1, PayoutFrame
<1>14. ReservationsBacked'
  BY <1>1, BackedFrame DEF payoutVars
<1>15. QED
  BY <1>7, <1>8, <1>9, <1>10, <1>11, <1>12, <1>13, <1>14 DEF IInv

-----------------------------------------------------------------------------
(* The inductive invariant                                                  *)

\* Every step keeps the invariant.
LEMMA NextIInv == IInv /\ [Next]_vars => IInv'
<1> SUFFICES ASSUME IInv, [Next]_vars PROVE IInv'
  OBVIOUS
<1>1. ASSUME NEW c \in Captures, OrderNext(c) PROVE IInv'
  BY <1>1, OrderStep
<1>2. ASSUME NEW a \in Accounts, RecoverDebt(a) PROVE IInv'
  BY <1>2, RecoverDebtStep
<1>3. ASSUME NEW p \in Payouts, PayoutNext(p) PROVE IInv'
  <2>1. ASSUME NEW amount \in Amounts, ReservePayout(p, amount) PROVE IInv'
    BY <2>1, ReservePayoutStep
  <2>2. CASE RejectPayout(p)
    BY <2>2, RejectPayoutStep
  <2>3. ASSUME NEW r \in References, BeginVerification(p, r) PROVE IInv'
    BY <2>3, BeginVerificationStep
  <2>4. CASE SettlePayout(p)
    BY <2>4, SettlePayoutStep
  <2>5. QED
    BY <1>3, <2>1, <2>2, <2>3, <2>4 DEF PayoutNext
<1>4. ASSUME NEW c \in Captures, RefundNext(c) PROVE IInv'
  <2>1. CASE SettleRefund(c)
    BY <2>1, SettleRefundStep
  <2>2. CASE ~SettleRefund(c)
    BY <1>4, <2>2, PendingRefundStep DEF RefundNext
  <2>3. QED
    BY <2>1, <2>2
<1>5. CASE UNCHANGED vars
  <2>1. UNCHANGED <<orderVars, lotVars, payoutVars, refundVars>>
    BY <1>5 DEF vars
  <2>2. TypeOK' /\ RefundSettleable' /\ MoneyAfterBooking' /\ RefundAfterBooking'
    BY <2>1 DEF IInv, TypeOK, RefundSettleable, MoneyAfterBooking, RefundAfterBooking,
                RefundPending, Booked, ImpactAllowed, LotsOf,
                orderVars, lotVars, payoutVars, refundVars
  <2>3. LotBounds' /\ DebtConserved' /\ PayoutAllocated' /\ ReferenceBound'
    BY <2>1, LotFrame, PayoutFrame
  <2>4. ReservationsBacked'
    BY <2>1, BackedFrame DEF lotVars, payoutVars
  <2>5. QED
    BY <2>2, <2>3, <2>4 DEF IInv
<1>6. QED
  BY <1>1, <1>2, <1>3, <1>4, <1>5 DEF Next

\* Every reachable state of the ledger satisfies the inductive invariant,
\* whatever the accounts, lots, captures and payouts are.
THEOREM Inductive == Spec => []IInv
<1>1. QED
  BY InitIInv, NextIInv, PTL DEF Spec

\* No column ever leaves its type; no counter and no debt becomes negative.
THEOREM TypeCorrect == Spec => []TypeOK
<1>1. IInv => TypeOK
  BY DEF IInv
<1>2. QED
  BY <1>1, Inductive, PTL

\* No interleaving of payouts, recoveries and refunds over-commits a lot: the
\* CHECK constraints of the lot table never abort a transaction.
THEOREM LotsBounded == Spec => []LotBounds
<1>1. IInv => LotBounds
  BY DEF IInv
<1>2. QED
  BY <1>1, Inductive, PTL

\* Reserved and paid money of a lot always equals what its payouts allocated.
THEOREM Backed == Spec => []ReservationsBacked
<1>1. IInv => ReservationsBacked
  BY DEF IInv
<1>2. QED
  BY <1>1, Inductive, PTL

\* A payout is allocated in full from lots of its own account.
THEOREM Allocated == Spec => []PayoutAllocated
<1>1. IInv => PayoutAllocated
  BY DEF IInv
<1>2. QED
  BY <1>1, Inductive, PTL

\* Debt is what refunds took beyond the lots, less what was recovered since.
THEOREM DebtIsConserved == Spec => []DebtConserved
<1>1. IInv => DebtConserved
  BY DEF IInv
<1>2. QED
  BY <1>1, Inductive, PTL

\* The settlement of a prepared refund never throws.
THEOREM RefundsSettle == Spec => []RefundSettleable
<1>1. IInv => RefundSettleable
  BY DEF IInv
<1>2. QED
  BY <1>1, Inductive, PTL

-----------------------------------------------------------------------------
(* What steps never do                                                      *)

\* A payout that recovers debt first leaves money to reserve only when the
\* whole debt is recovered.
LEMMA ReserveClearsDebt ==
  ASSUME IInv, NEW p \in Payouts, NEW amount \in Amounts, ReservePayout(p, amount)
  PROVE  debt'[PayoutOwner[p]] = 0
<1> DEFINE a == PayoutOwner[p]
           S == EligibleLots(a)
<1>1. PICK rec \in FifoDraws(FreeNow, S, debt[a]) :
         LET left == [l \in Lots |-> FreeNow[l] - rec[l]]
             owed == debt[a] - Total(rec, S)
         IN  /\ amount <= Available(left, S, owed)
             /\ debt' = [debt EXCEPT ![a] = owed]
  BY DEF ReservePayout
<1> DEFINE left == [l \in Lots |-> FreeNow[l] - rec[l]]
           owed == debt[a] - Total(rec, S)
<1>2. a \in Accounts /\ amount \in Nat /\ amount > 0 /\ debt[a] \in Nat
  BY ParametersAreWellFormed DEF IInv, TypeOK
<1>3. S \in SUBSET Lots
  BY DEF EligibleLots
<1>4. debt'[a] = owed
  BY <1>1, <1>2 DEF IInv, TypeOK
<1>5. Total(rec, S) \in Nat /\ Total(rec, S) <= debt[a]
  BY <1>2, <1>3, DrawFacts
<1>6. amount <= PositivePart(Total(left, S) - owed)
  BY <1>1 DEF Available
<1>7. CASE \A l \in S : rec[l] = FreeNow[l]
  <2>1. \A l \in S : left[l] = 0
    <3> SUFFICES ASSUME NEW l \in S PROVE left[l] = 0
      OBVIOUS
    <3>1. l \in Lots /\ FreeNow[l] \in Int
      BY <1>3, LotTypes DEF FreeNow, Free, PositivePart, IInv
    <3>2. QED
      BY <1>7, <3>1
  <2>2. Total(left, S) = 0
    <3> HIDE DEF left
    <3> QED
      BY <2>1, TotalZero
  <2>3. owed \in Nat
    BY <1>2, <1>5
  <2>4. QED
    BY <1>2, <1>6, <2>2, <2>3 DEF PositivePart
<1>8. CASE Total(rec, S) = debt[a]
  BY <1>2, <1>4, <1>8
<1>9. Total(rec, S) = debt[a] \/ \A l \in S : rec[l] = FreeNow[l]
  BY DEF FifoDraws
<1>10. QED
  BY <1>7, <1>8, <1>9

\* A payout is created by a reservation only.
LEMMA PayoutCreated ==
  ASSUME IInv, [Next]_vars, NEW p \in Payouts, payoutState[p] = "NONE",
         payoutState'[p] # "NONE"
  PROVE  \E amount \in Amounts : ReservePayout(p, amount)
<1>1. CASE UNCHANGED payoutState
  BY <1>1
<1>2. CASE \E q \in Payouts : PayoutNext(q)
  <2>1. PICK q \in Payouts : PayoutNext(q)
    BY <1>2
  <2>2. q = p
    BY <2>1 DEF PayoutNext, ReservePayout, RejectPayout, BeginVerification, SettlePayout,
                IInv, TypeOK
  <2>3. QED
    BY <2>1, <2>2 DEF PayoutNext, RejectPayout, BeginVerification, SettlePayout
<1>3. QED
  BY <1>1, <1>2 DEF Next, vars, payoutVars, OrderNext, BookCapture, ConfirmOrder, CloseOrder,
     SetDelivered, RecoverDebt, RefundNext, PrepareRefund, DispatchRefund, QuarantineRefund,
     SettleRefund

\* No payout is ever created for an account that still owes money.
THEOREM DebtComesFirst == Spec => DebtBeforePayout
<1>1. ASSUME IInv, [Next]_vars, NEW p \in Payouts, payoutState[p] = "NONE",
             payoutState'[p] # "NONE"
      PROVE  debt'[PayoutOwner[p]] = 0
  BY <1>1, PayoutCreated, ReserveClearsDebt
<1>2. IInv /\ [Next]_vars =>
        [\A p \in Payouts : payoutState[p] = "NONE" /\ payoutState'[p] # "NONE" =>
            debt'[PayoutOwner[p]] = 0]_vars
  BY <1>1
<1>3. QED
  BY <1>2, Inductive, PTL DEF Spec, DebtBeforePayout

\* A bound reference never changes, and a payout is paid by its own transfer.
THEOREM ReferencesFinal == Spec => ReferenceFinal
<1>1. ASSUME IInv, [Next]_vars, NEW p \in Payouts, reference[p] # NoReference
      PROVE  reference'[p] = reference[p]
  <2>1. CASE UNCHANGED reference
    BY <2>1
  <2>2. CASE \E q \in Payouts, r \in References : BeginVerification(q, r)
    <3>1. PICK q \in Payouts, r \in References : BeginVerification(q, r)
      BY <2>2
    <3>2. reference[q] = NoReference
      <4>1. payoutState[q] = "REQUESTED"
        BY <3>1 DEF BeginVerification
      <4>2. ReferenceBound
        BY <1>1 DEF IInv
      <4>3. QED
        BY <4>1, <4>2 DEF ReferenceBound
    <3>3. QED
      BY <1>1, <3>1, <3>2 DEF BeginVerification, IInv, TypeOK
  <2>3. QED
    BY <1>1, <2>1, <2>2 DEF Next, vars, payoutVars, PayoutNext, ReservePayout, RejectPayout,
       SettlePayout, OrderNext, BookCapture, ConfirmOrder, CloseOrder, SetDelivered,
       RecoverDebt, RefundNext, PrepareRefund, DispatchRefund, QuarantineRefund, SettleRefund
<1>2. ASSUME IInv', NEW p \in Payouts, payoutState'[p] = "PAID"
      PROVE  reference'[p] # NoReference /\ TransferFor[reference'[p]] = p
  BY <1>2 DEF IInv, ReferenceBound
<1>3. IInv /\ IInv' /\ [Next]_vars =>
        [\A p \in Payouts :
           /\ reference[p] # NoReference => reference'[p] = reference[p]
           /\ payoutState'[p] = "PAID" => /\ reference'[p] # NoReference
                                          /\ TransferFor[reference'[p]] = p]_vars
  BY <1>1, <1>2
<1>4. QED
  BY <1>3, Inductive, PTL DEF Spec, ReferenceFinal

-----------------------------------------------------------------------------
(* Refinement: the lots, draws, debts and refund plans implement the signed *)
(* balance of EconomicAccount.  Every initial state maps to an initial      *)
(* state and every step to a step or to a stutter.  The heart of it is      *)
(* FreeLessDebt: what the booked lots of an account still have free, less   *)
(* what the account owes, is its signed balance.                            *)


\* The lots of an account, with an amount for each of them.
LEMMA AccountLots ==
  ASSUME NEW a
  PROVE  LotsOfAccount(a) \in SUBSET Lots /\ BookedLots(a) \in SUBSET LotsOfAccount(a)
BY DEF LotsOfAccount, BookedLots

\* The four totals of a balance are numbers.
LEMMA BalanceParts ==
  ASSUME TypeOK, NEW a
  PROVE  /\ AmountsOn(reserved, LotsOfAccount(a)) /\ AmountsOn(paid, LotsOfAccount(a))
         /\ AmountsOn(reversed, LotsOfAccount(a)) /\ AmountsOn(LotAmount, BookedLots(a))
         /\ Total(reserved, LotsOfAccount(a)) \in Nat /\ Total(paid, LotsOfAccount(a)) \in Nat
         /\ Total(reversed, LotsOfAccount(a)) \in Nat
         /\ Total(LotAmount, BookedLots(a)) \in Nat
         /\ BalanceOf(a) \in Int
<1>1. /\ AmountsOn(reserved, LotsOfAccount(a)) /\ AmountsOn(paid, LotsOfAccount(a))
      /\ AmountsOn(reversed, LotsOfAccount(a))
  BY AccountLots, LotAmountsOn DEF TypeOK
<1>2. AmountsOn(LotAmount, BookedLots(a))
  <2>1. \A l \in Lots : LotAmount[l] \in Nat
    BY ParametersAreWellFormed
  <2>2. BookedLots(a) \in SUBSET Lots
    BY AccountLots
  <2>3. QED
    BY <2>1, <2>2, LotAmountsOn
<1>3. QED
  BY <1>1, <1>2, TotalNat DEF BalanceOf

\* In each lot: what is free, less what was taken beyond the lot.
LEMMA LotBalance ==
  ASSUME IInv, NEW l \in Lots
  PROVE  /\ Free(l) \in Nat
         /\ Booked(LotCapture[l]) =>
              LotAmount[l] + reversalDebt[l]
                = Free(l) + recovered[l] + reserved[l] + paid[l] + reversed[l]
         /\ ~Booked(LotCapture[l]) =>
              /\ recovered[l] = 0 /\ reserved[l] = 0 /\ paid[l] = 0 /\ reversed[l] = 0
              /\ reversalDebt[l] = 0
<1>1. /\ paid[l] \in Nat /\ recovered[l] \in Nat /\ reversed[l] \in Nat
      /\ reserved[l] \in Nat /\ LotAmount[l] \in Nat
  BY LotTypes DEF IInv
<1>2. /\ reserved[l] <= PositivePart(LotAmount[l] - paid[l] - reversed[l] - recovered[l])
      /\ paid[l] + reserved[l] + recovered[l] <= LotAmount[l]
  BY DEF IInv, LotBounds
<1>3. reversalDebt[l] = PositivePart(paid[l] + recovered[l] + reversed[l] - LotAmount[l])
  BY DEF IInv, DebtConserved
<1>4. Free(l)
        = PositivePart(LotAmount[l] - reserved[l] - paid[l] - reversed[l] - recovered[l])
  BY DEF Free
<1>5. ~Booked(LotCapture[l]) =>
         recovered[l] = 0 /\ reserved[l] = 0 /\ paid[l] = 0 /\ reversed[l] = 0
  BY DEF IInv, MoneyAfterBooking
<1>6. QED
  BY <1>1, <1>2, <1>3, <1>4, <1>5 DEF PositivePart

\* What is free in the booked lots, less the debt, is the signed balance.
LEMMA FreeLessDebt ==
  ASSUME IInv, NEW a \in Accounts
  PROVE  BalanceOf(a) = Total(FreeNow, BookedLots(a)) - debt[a]
<1> DEFINE L == LotsOfAccount(a)
           B == BookedLots(a)
           A == [l \in Lots |-> IF Booked(LotCapture[l]) THEN LotAmount[l] ELSE 0]
           F == [l \in Lots |-> IF Booked(LotCapture[l]) THEN Free(l) ELSE 0]
           s1 == [l \in Lots |-> F[l] + recovered[l]]
           s2 == [l \in Lots |-> s1[l] + reserved[l]]
           s3 == [l \in Lots |-> s2[l] + paid[l]]
           s4 == [l \in Lots |-> s3[l] + reversed[l]]
<1>1. L \in SUBSET Lots /\ B \in SUBSET L
  BY AccountLots
<1>2. ASSUME NEW l \in Lots
      PROVE  /\ A[l] \in Nat /\ F[l] \in Nat /\ recovered[l] \in Nat /\ reserved[l] \in Nat
             /\ paid[l] \in Nat /\ reversed[l] \in Nat /\ reversalDebt[l] \in Nat
  BY LotTypes, LotBalance DEF IInv
<1>3. /\ \A l \in L : s1[l] = F[l] + recovered[l] /\ s1[l] \in Nat
      /\ \A l \in L : s2[l] = s1[l] + reserved[l] /\ s2[l] \in Nat
      /\ \A l \in L : s3[l] = s2[l] + paid[l] /\ s3[l] \in Nat
      /\ \A l \in L : s4[l] = s3[l] + reversed[l] /\ s4[l] \in Nat
  BY <1>1, <1>2
<1>4. \A l \in L : s4[l] = A[l] + reversalDebt[l]
  <2> SUFFICES ASSUME NEW l \in Lots PROVE s4[l] = A[l] + reversalDebt[l]
    BY <1>1
  <2>1. s4[l] = F[l] + recovered[l] + reserved[l] + paid[l] + reversed[l]
    OBVIOUS
  <2>2. CASE Booked(LotCapture[l])
    <3>1. A[l] = LotAmount[l] /\ F[l] = Free(l)
      BY <2>2
    <3>2. LotAmount[l] + reversalDebt[l]
            = Free(l) + recovered[l] + reserved[l] + paid[l] + reversed[l]
      BY <2>2, LotBalance
    <3> HIDE DEF A, F, s4
    <3>3. QED
      BY <2>1, <3>1, <3>2
  <2>3. CASE ~Booked(LotCapture[l])
    <3>1. /\ recovered[l] = 0 /\ reserved[l] = 0 /\ paid[l] = 0 /\ reversed[l] = 0
          /\ reversalDebt[l] = 0
      BY <2>3, LotBalance
    <3>2. A[l] = 0 /\ F[l] = 0
      BY <2>3
    <3> HIDE DEF A, F, s4
    <3>3. QED
      BY <2>1, <3>1, <3>2
  <2>4. QED
    BY <2>2, <2>3
<1>5. /\ \A l \in L \ B : A[l] = 0 /\ F[l] = 0
      /\ \A l \in B : A[l] = LotAmount[l] /\ F[l] = FreeNow[l]
  BY <1>1 DEF BookedLots, FreeNow
<1> HIDE DEF A, F, s1, s2, s3, s4
<1>6. /\ AmountsOn(A, L) /\ AmountsOn(F, L) /\ AmountsOn(recovered, L)
      /\ AmountsOn(reserved, L) /\ AmountsOn(paid, L) /\ AmountsOn(reversed, L)
      /\ AmountsOn(reversalDebt, L)
  BY <1>1, <1>2, LotAmountsOn
<1>7. AmountsOn(s1, L) /\ AmountsOn(s2, L) /\ AmountsOn(s3, L)
  BY <1>3, <1>6 DEF AmountsOn
<1>8. /\ Total(s1, L) = Total(F, L) + Total(recovered, L)
      /\ Total(s2, L) = Total(s1, L) + Total(reserved, L)
      /\ Total(s3, L) = Total(s2, L) + Total(paid, L)
      /\ Total(s4, L) = Total(s3, L) + Total(reversed, L)
  BY <1>3, <1>6, <1>7, TotalAdd
<1>9. Total(s4, L) = Total(A, L) + Total(reversalDebt, L)
  BY <1>4, <1>6, TotalAdd
<1>10. Total(A, L) = Total(LotAmount, B) /\ Total(F, L) = Total(FreeNow, B)
  <2>1. Total(A, L) = Total(A, B) /\ Total(F, L) = Total(F, B)
    BY <1>1, <1>5, TotalSupport
  <2>2. Total(A, B) = Total(LotAmount, B)
    BY <1>5, TotalEq
  <2>3. Total(F, B) = Total(FreeNow, B)
    BY <1>5, TotalEq
  <2>4. QED
    BY <2>1, <2>2, <2>3
<1>11. debt[a] + Total(recovered, L) = Total(reversalDebt, L)
  BY DEF IInv, DebtConserved
<1>12. /\ Total(A, L) \in Nat /\ Total(F, L) \in Nat /\ Total(recovered, L) \in Nat
       /\ Total(reserved, L) \in Nat /\ Total(paid, L) \in Nat /\ Total(reversed, L) \in Nat
       /\ Total(reversalDebt, L) \in Nat /\ debt[a] \in Nat
  BY <1>6, TotalNat DEF IInv, TypeOK
<1>13. BalanceOf(a) = Total(LotAmount, B) - Total(reserved, L) - Total(paid, L)
                        - Total(reversed, L)
  BY DEF BalanceOf
<1>14. Total(s4, L) = Total(F, L) + Total(recovered, L) + Total(reserved, L)
                       + Total(paid, L) + Total(reversed, L)
  BY <1>8, <1>12
<1>15. BalanceOf(a) = Total(A, L) - Total(reserved, L) - Total(paid, L) - Total(reversed, L)
  BY <1>10, <1>13
<1>16. BalanceOf(a) = Total(F, L) - debt[a]
  <2>1. Total(A, L) + Total(reversalDebt, L)
          = Total(F, L) + Total(recovered, L) + Total(reserved, L) + Total(paid, L)
              + Total(reversed, L)
    BY <1>9, <1>14
  <2> HIDE DEF L
  <2>2. QED
    BY <2>1, <1>11, <1>12, <1>15
<1>17. QED
  BY <1>10, <1>16

\* What a payout holds of an account: its amount, or nothing.
LEMMA ShareOfPayout ==
  ASSUME NEW take, \A l \in Lots : take[l] \in Nat, NEW b, NEW a,
         \A l \in Lots : take[l] > 0 => LotAccount[l] = b
  PROVE  Total(take, LotsOfAccount(a)) = IF a = b THEN Total(take, Lots) ELSE 0
<1>1. CASE a = b
  <2>1. \A l \in Lots \ LotsOfAccount(a) : take[l] = 0
    BY <1>1 DEF LotsOfAccount
  <2>2. QED
    BY <1>1, <2>1, AccountLots, TotalSupport
<1>2. CASE a # b
  <2>1. \A l \in LotsOfAccount(a) : take[l] = 0
    BY <1>2 DEF LotsOfAccount
  <2>2. QED
    BY <1>2, <2>1, TotalZero
<1>3. QED
  BY <1>1, <1>2

-----------------------------------------------------------------------------
(* Steps                                                                    *)

\* Signed balances are integers,
LEMMA BalanceTyped == TypeOK => SignedBalance \in [Accounts -> Int]
BY BalanceParts DEF SignedBalance

\* also after a step.
LEMMA BalanceTypedNext == TypeOK' => SignedBalance' \in [Accounts -> Int]
<1>1. TypeOK' => (SignedBalance \in [Accounts -> Int])'
  BY BalanceTyped, PTL
<1>2. QED
  BY <1>1

\* Balances depend on these columns only.
LEMMA BalanceFrame ==
  ASSUME UNCHANGED <<bookedAt, reserved, paid, reversed>>
  PROVE  SignedBalance' = SignedBalance
BY DEF SignedBalance, BalanceOf, BookedLots, Booked, LotsOfAccount

\* What payouts hold depends on their rows only.
LEMMA HoldFrame ==
  ASSUME UNCHANGED <<payoutState, payoutAmount>>
  PROVE  PayoutHold' = PayoutHold
BY DEF PayoutHold

\* Booking a capture earns.
LEMMA EarnStep ==
  ASSUME IInv, IInv', NEW c \in Captures, BookCapture(c)
  PROVE  Account!Earn
<1>1. UNCHANGED <<lotVars, payoutVars>>
  BY DEF BookCapture
<1>2. ASSUME NEW a \in Accounts PROVE SignedBalance'[a] >= SignedBalance[a]
  <2>1. BookedLots(a)' \in SUBSET Lots /\ BookedLots(a) \in SUBSET BookedLots(a)'
    <3>1. \A d \in Captures : Booked(d) => Booked(d)'
      BY DEF BookCapture, Booked, IInv, TypeOK
    <3>2. QED
      BY <3>1, ParametersAreWellFormed DEF BookedLots, LotsOfAccount
  <2>2. AmountsOn(LotAmount, BookedLots(a)')
    <3>1. \A l \in Lots : LotAmount[l] \in Nat
      BY ParametersAreWellFormed
    <3>2. QED
      BY <2>1, <3>1, LotAmountsOn
  <2>3. /\ Total(LotAmount, BookedLots(a)) <= Total(LotAmount, BookedLots(a)')
        /\ Total(LotAmount, BookedLots(a)') \in Nat
    BY <2>1, <2>2, TotalSubset, TotalNat
  <2>4. LotsOfAccount(a)' = LotsOfAccount(a) /\ reserved' = reserved /\ paid' = paid
        /\ reversed' = reversed
    BY <1>1 DEF LotsOfAccount, lotVars
  <2>5. /\ SignedBalance[a] = Total(LotAmount, BookedLots(a))
             - Total(reserved, LotsOfAccount(a)) - Total(paid, LotsOfAccount(a))
             - Total(reversed, LotsOfAccount(a))
        /\ SignedBalance'[a] = Total(LotAmount, BookedLots(a)')
             - Total(reserved, LotsOfAccount(a)) - Total(paid, LotsOfAccount(a))
             - Total(reversed, LotsOfAccount(a))
    BY <2>4 DEF SignedBalance, BalanceOf
  <2>6. QED
    BY <2>3, <2>5, BalanceParts DEF IInv
<1>3. PayoutHold' = PayoutHold
  BY <1>1, HoldFrame DEF payoutVars
<1>4. QED
  BY <1>2, <1>3 DEF Account!Earn

\* Settling a refund reverses.
LEMMA ReverseStep ==
  ASSUME IInv, IInv', NEW c \in Captures, SettleRefund(c)
  PROVE  Account!Reverse
<1>1. UNCHANGED <<reserved, paid, orderVars, payoutVars>>
  BY DEF SettleRefund
<1>2. ASSUME NEW l \in Lots PROVE reversed[l] <= reversed'[l] /\ reversed'[l] \in Nat
  <2>1. reversed'[l] = reversed[l] \/ reversed'[l] = reversed[l] + refundPlan[c][l]
    BY DEF SettleRefund
  <2>2. reversed[l] \in Nat /\ refundPlan[c][l] \in Nat
    BY DEF IInv, TypeOK
  <2>3. QED
    BY <2>1, <2>2
<1>3. ASSUME NEW a \in Accounts PROVE SignedBalance'[a] <= SignedBalance[a]
  <2> DEFINE L == LotsOfAccount(a)
  <2>1. AmountsOn(reversed, L) /\ AmountsOn(reversed', L)
    BY <1>2, AccountLots, LotAmountsOn, BalanceParts DEF IInv
  <2>2. Total(reversed, L) <= Total(reversed', L) /\ Total(reversed', L) \in Nat
    <3>1. \A l \in L : reversed[l] <= reversed'[l]
      BY <1>2, AccountLots
    <3>2. QED
      BY <2>1, <3>1, TotalMonotone, TotalNat
  <2>3. /\ SignedBalance[a] = Total(LotAmount, BookedLots(a))
             - Total(reserved, L) - Total(paid, L) - Total(reversed, L)
        /\ SignedBalance'[a] = Total(LotAmount, BookedLots(a))
             - Total(reserved, L) - Total(paid, L) - Total(reversed', L)
    BY <1>1 DEF SignedBalance, BalanceOf, BookedLots, Booked, LotsOfAccount, orderVars
  <2>4. QED
    BY <2>2, <2>3, BalanceParts DEF IInv
<1>4. PayoutHold' = PayoutHold
  BY <1>1, HoldFrame DEF payoutVars
<1>5. QED
  BY <1>3, <1>4 DEF Account!Reverse

\* A payout reserves at most the signed balance.
LEMMA ReserveWithinBalance ==
  ASSUME IInv, NEW p \in Payouts, NEW amount \in Amounts, ReservePayout(p, amount)
  PROVE  amount <= BalanceOf(PayoutOwner[p])
<1> DEFINE a == PayoutOwner[p]
           S == EligibleLots(a)
<1>1. PICK rec \in FifoDraws(FreeNow, S, debt[a]) :
         LET left == [l \in Lots |-> FreeNow[l] - rec[l]]
             owed == debt[a] - Total(rec, S)
         IN  amount <= Available(left, S, owed)
  BY DEF ReservePayout
<1> DEFINE left == [l \in Lots |-> FreeNow[l] - rec[l]]
           owed == debt[a] - Total(rec, S)
<1>2. a \in Accounts /\ amount \in Nat /\ amount > 0 /\ debt[a] \in Nat
  BY ParametersAreWellFormed DEF IInv, TypeOK
<1>3. S \in SUBSET Lots /\ S \in SUBSET BookedLots(a)
  BY EligibleFacts DEF EligibleLots, BookedLots, LotsOfAccount
<1>4. /\ Total(rec, S) \in Nat /\ Total(rec, S) <= debt[a]
      /\ \A l \in Lots : rec[l] \in Nat
      /\ \A l \in S : rec[l] <= FreeNow[l]
  BY <1>2, <1>3, DrawFacts
<1>5. \A l \in Lots : FreeNow[l] \in Nat
  BY LotBalance DEF FreeNow
<1>6. AmountsOn(rec, S) /\ AmountsOn(left, S)
  <2>1. \A l \in S : left[l] \in Nat
    BY <1>3, <1>4, <1>5
  <2>2. IsFiniteSet(S)
    BY <1>3, ParametersAreWellFormed, FS_Subset
  <2>3. QED
    BY <1>3, <1>4, <2>1, <2>2 DEF AmountsOn
<1>7. Total(FreeNow, S) = Total(left, S) + Total(rec, S)
  <2>1. \A l \in S : FreeNow[l] = left[l] + rec[l]
    BY <1>3, <1>4, <1>5
  <2> HIDE DEF left
  <2>2. QED
    BY <1>6, <2>1, TotalAdd
<1>8. Total(FreeNow, S) <= Total(FreeNow, BookedLots(a))
  <2>1. AmountsOn(FreeNow, BookedLots(a))
    BY <1>5, AccountLots, LotAmountsOn
  <2>2. QED
    BY <1>3, <2>1, TotalSubset
<1>9. /\ Total(left, S) \in Nat /\ Total(FreeNow, S) \in Nat
      /\ Total(FreeNow, BookedLots(a)) \in Nat
  <2>1. AmountsOn(FreeNow, BookedLots(a))
    BY <1>5, AccountLots, LotAmountsOn
  <2>2. AmountsOn(FreeNow, S)
    BY <1>3, <1>5, LotAmountsOn
  <2> HIDE DEF left
  <2>3. QED
    BY <1>6, <2>1, <2>2, TotalNat
<1>10. amount <= PositivePart(Total(left, S) - owed)
  BY <1>1 DEF Available
<1>11. BalanceOf(a) = Total(FreeNow, BookedLots(a)) - debt[a]
  BY <1>2, FreeLessDebt
<1> HIDE DEF left, S, a
<1>12. amount <= Total(left, S) - (debt[a] - Total(rec, S))
  BY <1>2, <1>4, <1>9, <1>10 DEF PositivePart
<1>13. amount <= BalanceOf(a)
  BY <1>2, <1>4, <1>7, <1>8, <1>9, <1>11, <1>12
<1>14. QED
  BY <1>13 DEF a

\* The balance of an account when only its reserved money moves.
LEMMA ReservedMoves ==
  ASSUME UNCHANGED <<bookedAt, paid, reversed>>, NEW a \in Accounts
  PROVE  /\ SignedBalance[a] = Total(LotAmount, BookedLots(a))
              - Total(reserved, LotsOfAccount(a)) - Total(paid, LotsOfAccount(a))
              - Total(reversed, LotsOfAccount(a))
         /\ SignedBalance'[a] = Total(LotAmount, BookedLots(a))
              - Total(reserved', LotsOfAccount(a)) - Total(paid, LotsOfAccount(a))
              - Total(reversed, LotsOfAccount(a))
BY DEF SignedBalance, BalanceOf, BookedLots, Booked, LotsOfAccount

\* What the allocation of a payout weighs in each account.
LEMMA AllocationShare ==
  ASSUME IInv, NEW p \in Payouts, NEW a \in Accounts
  PROVE  /\ AmountsOn(allocation[p], LotsOfAccount(a))
         /\ Total(allocation[p], LotsOfAccount(a))
              = IF a = PayoutOwner[p] THEN payoutAmount[p] ELSE 0
         /\ payoutAmount[p] \in Nat
<1>1. \A l \in Lots : allocation[p][l] \in Nat
  BY DEF IInv, TypeOK
<1>2. /\ Total(allocation[p], Lots) = payoutAmount[p]
      /\ \A l \in Lots : allocation[p][l] > 0 => LotAccount[l] = PayoutOwner[p]
  BY DEF IInv, PayoutAllocated
<1>3. Total(allocation[p], LotsOfAccount(a))
        = IF a = PayoutOwner[p] THEN Total(allocation[p], Lots) ELSE 0
  BY <1>1, <1>2, ShareOfPayout
<1>4. QED
  BY <1>1, <1>2, <1>3, AccountLots, LotAmountsOn DEF IInv, TypeOK

\* Reserving a payout holds its amount.
LEMMA HoldStep ==
  ASSUME IInv, IInv', NEW p \in Payouts, NEW amount \in Amounts, ReservePayout(p, amount)
  PROVE  Account!Hold(p, PayoutHold'[p].amount)
<1> DEFINE o == PayoutOwner[p]
           S == EligibleLots(o)
<1>1. \E take \in [Lots -> Nat] :
         /\ \A l \in Lots : take[l] > 0 => l \in S
         /\ Total(take, S) = amount
         /\ reserved' = [l \in Lots |-> reserved[l] + take[l]]
  <2>1. PICK rec \in FifoDraws(FreeNow, S, debt[o]) :
           LET left == [l \in Lots |-> FreeNow[l] - rec[l]]
           IN  \E take \in FifoDraws(left, S, amount) :
                  /\ Total(take, S) = amount
                  /\ reserved' = [l \in Lots |-> reserved[l] + take[l]]
    BY DEF ReservePayout
  <2> DEFINE left == [l \in Lots |-> FreeNow[l] - rec[l]]
  <2>2. PICK take \in FifoDraws(left, S, amount) :
           /\ Total(take, S) = amount
           /\ reserved' = [l \in Lots |-> reserved[l] + take[l]]
    BY <2>1
  <2>3. take \in [Lots -> 0..amount] /\ \A l \in Lots : take[l] > 0 => l \in S
    BY DEF FifoDraws
  <2>4. take \in [Lots -> Nat]
    BY <2>3
  <2>5. QED
    BY <2>2, <2>3, <2>4
<1>2. PICK take \in [Lots -> Nat] :
         /\ \A l \in Lots : take[l] > 0 => l \in S
         /\ Total(take, S) = amount
         /\ reserved' = [l \in Lots |-> reserved[l] + take[l]]
  BY <1>1
<1>3. /\ payoutState[p] = "NONE" /\ amount > 0 /\ amount \in Nat /\ o \in Accounts
      /\ payoutState' = [payoutState EXCEPT ![p] = "REQUESTED"]
      /\ payoutAmount' = [payoutAmount EXCEPT ![p] = amount]
      /\ UNCHANGED <<bookedAt, paid, reversed>>
  BY ParametersAreWellFormed DEF ReservePayout, orderVars
<1>4. /\ \A l \in Lots : take[l] > 0 => LotAccount[l] = o
      /\ Total(take, Lots) = amount
  <2>1. S \in SUBSET Lots /\ \A l \in S : LotAccount[l] = o
    BY DEF EligibleLots
  <2>2. \A l \in Lots \ S : take[l] = 0
    BY <1>2
  <2>3. Total(take, Lots) = Total(take, S)
    BY <2>1, <2>2, TotalSupport
  <2>4. QED
    BY <1>2, <2>1, <2>3
<1>5. ASSUME NEW a \in Accounts
      PROVE  SignedBalance'[a] = SignedBalance[a] - (IF a = o THEN amount ELSE 0)
  <2> DEFINE L == LotsOfAccount(a)
  <2>1. Total(take, L) = IF a = o THEN amount ELSE 0
    BY <1>4, ShareOfPayout
  <2>2. AmountsOn(reserved, L) /\ AmountsOn(take, L)
    BY AccountLots, LotAmountsOn, BalanceParts DEF IInv
  <2>3. Total(reserved', L) = Total(reserved, L) + Total(take, L)
    <3>1. \A l \in L : reserved'[l] = reserved[l] + take[l]
      BY <1>2, AccountLots
    <3>2. QED
      BY <2>2, <3>1, TotalAdd
  <2>4. QED
    BY <1>3, <2>1, <2>3, ReservedMoves, BalanceParts DEF IInv
<1>6. SignedBalance[o] = BalanceOf(o) /\ amount <= SignedBalance[o]
  BY <1>3, ReserveWithinBalance DEF SignedBalance
<1>7. /\ PayoutHold[p].phase = "none"
      /\ PayoutHold' = [PayoutHold EXCEPT ![p] = [phase |-> "held", amount |-> amount]]
      /\ PayoutHold'[p].amount = amount
  BY <1>3 DEF PayoutHold, PhaseOf, IInv, TypeOK
<1>8. SignedBalance[o] \in Int
  BY <1>6, BalanceParts DEF IInv
<1>9. SignedBalance'[o] = SignedBalance[o] - amount
  BY <1>3, <1>5
<1>10. \A b \in Accounts \ {o} : SignedBalance'[b] = SignedBalance[b]
  <2> SUFFICES ASSUME NEW b \in Accounts, b # o PROVE SignedBalance'[b] = SignedBalance[b]
    OBVIOUS
  <2>1. SignedBalance[b] \in Int
    BY BalanceParts DEF SignedBalance, IInv
  <2>2. QED
    BY <1>5, <2>1
<1>11. QED
  BY <1>3, <1>6, <1>7, <1>9, <1>10 DEF Account!Hold, Account!OthersKeepBalance

\* Rejecting a payout returns what it held.
LEMMA ReturnStep ==
  ASSUME IInv, IInv', NEW p \in Payouts, RejectPayout(p)
  PROVE  Account!Return(p)
<1> DEFINE o == PayoutOwner[p]
<1>1. /\ payoutState[p] = "REQUESTED" /\ o \in Accounts
      /\ payoutState' = [payoutState EXCEPT ![p] = "REJECTED"]
      /\ reserved' = [l \in Lots |-> reserved[l] - allocation[p][l]]
      /\ UNCHANGED <<bookedAt, paid, reversed, payoutAmount>>
  BY ParametersAreWellFormed DEF RejectPayout, orderVars
<1>2. ASSUME NEW a \in Accounts
      PROVE  SignedBalance'[a]
               = SignedBalance[a] + (IF a = o THEN payoutAmount[p] ELSE 0)
  <2> DEFINE L == LotsOfAccount(a)
  <2>1. \A l \in Lots : reserved'[l] \in Nat
    BY DEF IInv, TypeOK
  <2>2. AmountsOn(reserved', L) /\ AmountsOn(allocation[p], L)
    BY <2>1, AccountLots, LotAmountsOn, AllocationShare
  <2>3. Total(reserved, L) = Total(reserved', L) + Total(allocation[p], L)
    <3>1. \A l \in L : reserved[l] = reserved'[l] + allocation[p][l]
      <4> SUFFICES ASSUME NEW l \in Lots PROVE reserved[l] = reserved'[l] + allocation[p][l]
        BY AccountLots
      <4>1. reserved[l] \in Nat /\ allocation[p][l] \in Nat
        BY DEF IInv, TypeOK
      <4>2. reserved'[l] = reserved[l] - allocation[p][l]
        BY <1>1
      <4>3. QED
        BY <4>1, <4>2
    <3>2. QED
      BY <2>2, <3>1, TotalAdd
  <2>4. Total(reserved', L) \in Nat
    BY <2>2, TotalNat
  <2>5. QED
    BY <1>1, <2>3, <2>4, ReservedMoves, BalanceParts, AllocationShare DEF IInv
<1>3. /\ PayoutHold[p].phase = "held" /\ PayoutHold[p].amount = payoutAmount[p]
      /\ PayoutHold' = [PayoutHold EXCEPT ![p].phase = "returned"]
  BY <1>1 DEF PayoutHold, PhaseOf, IInv, TypeOK
<1>4. SignedBalance'[o] = SignedBalance[o] + PayoutHold[p].amount
  BY <1>1, <1>2, <1>3
<1>5. \A b \in Accounts \ {o} : SignedBalance'[b] = SignedBalance[b]
  <2> SUFFICES ASSUME NEW b \in Accounts, b # o PROVE SignedBalance'[b] = SignedBalance[b]
    OBVIOUS
  <2>1. SignedBalance[b] \in Int
    BY BalanceParts DEF SignedBalance, IInv
  <2>2. QED
    BY <1>2, <2>1
<1>6. QED
  BY <1>3, <1>4, <1>5 DEF Account!Return, Account!OthersKeepBalance

\* Settling a payout pays it and moves nothing else.
LEMMA PayStep ==
  ASSUME IInv, IInv', NEW p \in Payouts, SettlePayout(p)
  PROVE  Account!Pay(p)
<1>1. /\ payoutState[p] = "VERIFYING"
      /\ payoutState' = [payoutState EXCEPT ![p] = "PAID"]
      /\ reserved' = [l \in Lots |-> reserved[l] - allocation[p][l]]
      /\ paid' = [l \in Lots |-> paid[l] + allocation[p][l]]
      /\ UNCHANGED <<bookedAt, reversed, payoutAmount>>
  BY DEF SettlePayout, orderVars
<1>2. ASSUME NEW a \in Accounts PROVE BalanceOf(a)' = BalanceOf(a)
  <2> DEFINE L == LotsOfAccount(a)
  <2>1. \A l \in Lots : /\ reserved'[l] \in Nat /\ reserved[l] \in Nat /\ paid[l] \in Nat
                        /\ allocation[p][l] \in Nat
    BY DEF IInv, TypeOK
  <2>2. /\ AmountsOn(reserved', L) /\ AmountsOn(paid, L) /\ AmountsOn(allocation[p], L)
    BY <2>1, AccountLots, LotAmountsOn
  <2>3. Total(reserved, L) = Total(reserved', L) + Total(allocation[p], L)
    <3>1. \A l \in L : reserved[l] = reserved'[l] + allocation[p][l]
      BY <1>1, <2>1, AccountLots
    <3>2. QED
      BY <2>2, <3>1, TotalAdd
  <2>4. Total(paid', L) = Total(paid, L) + Total(allocation[p], L)
    <3>1. \A l \in L : paid'[l] = paid[l] + allocation[p][l]
      BY <1>1, AccountLots
    <3>2. QED
      BY <2>2, <3>1, TotalAdd
  <2>5. /\ Total(reserved', L) \in Nat /\ Total(paid, L) \in Nat
        /\ Total(allocation[p], L) \in Nat
    BY <2>2, TotalNat
  <2>6. /\ BalanceOf(a) = Total(LotAmount, BookedLots(a)) - Total(reserved, L)
                            - Total(paid, L) - Total(reversed, L)
        /\ BalanceOf(a)' = Total(LotAmount, BookedLots(a)) - Total(reserved', L)
                             - Total(paid', L) - Total(reversed, L)
    BY <1>1 DEF BalanceOf, BookedLots, Booked, LotsOfAccount
  <2>7. QED
    BY <2>3, <2>4, <2>5, <2>6, BalanceParts DEF IInv
<1>3. SignedBalance' = SignedBalance
  BY <1>2 DEF SignedBalance
<1>4. /\ PayoutHold[p].phase = "held"
      /\ PayoutHold' = [PayoutHold EXCEPT ![p].phase = "paid"]
  BY <1>1 DEF PayoutHold, PhaseOf, IInv, TypeOK
<1>5. QED
  BY <1>3, <1>4 DEF Account!Pay

-----------------------------------------------------------------------------
(* The refinement                                                           *)

\* An empty ledger is an empty account.
LEMMA InitRefines == Init => Account!Init
<1> SUFFICES ASSUME Init PROVE Account!Init
  OBVIOUS
<1>1. ASSUME NEW a \in Accounts PROVE BalanceOf(a) = 0
  <2>1. BookedLots(a) = {}
    BY ParametersAreWellFormed DEF Init, BookedLots, Booked, LotsOfAccount
  <2>2. Total(LotAmount, BookedLots(a)) = 0
    BY <2>1, TotalZero
  <2>3. /\ \A l \in LotsOfAccount(a) : reserved[l] = 0
        /\ \A l \in LotsOfAccount(a) : paid[l] = 0
        /\ \A l \in LotsOfAccount(a) : reversed[l] = 0
    BY DEF Init, LotsOfAccount
  <2>4. /\ Total(reserved, LotsOfAccount(a)) = 0 /\ Total(paid, LotsOfAccount(a)) = 0
        /\ Total(reversed, LotsOfAccount(a)) = 0
    BY <2>3, TotalZero
  <2>5. QED
    BY <2>2, <2>4 DEF BalanceOf
<1>2. SignedBalance = [a \in Accounts |-> 0]
  BY <1>1 DEF SignedBalance
<1>3. PayoutHold = [p \in Payouts |-> [phase |-> "none", amount |-> 0]]
  BY DEF Init, PayoutHold, PhaseOf
<1>4. QED
  BY <1>2, <1>3 DEF Account!Init

\* Every step of the ledger is a step of the account or leaves it alone.
LEMMA NextRefines ==
  IInv /\ IInv' /\ [Next]_vars => [Account!Next]_<<SignedBalance, PayoutHold>>
<1> SUFFICES ASSUME IInv, IInv', [Next]_vars
             PROVE  Account!Next \/ UNCHANGED <<SignedBalance, PayoutHold>>
  OBVIOUS
<1>1. SignedBalance' \in [Accounts -> Int]
  BY BalanceTypedNext DEF IInv
<1>2. ASSUME UNCHANGED <<bookedAt, reserved, paid, reversed, payoutAmount>>,
             \/ UNCHANGED payoutState
             \/ \E p \in Payouts : /\ payoutState[p] = "REQUESTED"
                                   /\ payoutState' = [payoutState EXCEPT ![p] = "VERIFYING"]
      PROVE  UNCHANGED <<SignedBalance, PayoutHold>>
  <2>1. SignedBalance' = SignedBalance
    BY <1>2, BalanceFrame
  <2>2. \A q \in Payouts : PhaseOf(payoutState'[q]) = PhaseOf(payoutState[q])
    BY <1>2 DEF PhaseOf, IInv, TypeOK
  <2>3. PayoutHold' = PayoutHold
    BY <1>2, <2>2 DEF PayoutHold
  <2>4. QED
    BY <2>1, <2>3
<1>3. ASSUME NEW c \in Captures, OrderNext(c)
      PROVE  Account!Next \/ UNCHANGED <<SignedBalance, PayoutHold>>
  <2>1. CASE BookCapture(c)
    BY <1>1, <2>1, EarnStep DEF Account!Next
  <2>2. CASE ~BookCapture(c)
    BY <1>2, <1>3, <2>2
       DEF OrderNext, ConfirmOrder, CloseOrder, SetDelivered, lotVars, payoutVars
  <2>3. QED
    BY <2>1, <2>2
<1>4. ASSUME NEW a \in Accounts, RecoverDebt(a) PROVE UNCHANGED <<SignedBalance, PayoutHold>>
  BY <1>2, <1>4 DEF RecoverDebt, orderVars, payoutVars
<1>5. ASSUME NEW p \in Payouts, PayoutNext(p)
      PROVE  Account!Next \/ UNCHANGED <<SignedBalance, PayoutHold>>
  <2>1. ASSUME NEW amount \in Amounts, ReservePayout(p, amount) PROVE Account!Next
    BY <1>1, <2>1, HoldStep DEF Account!Next
  <2>2. CASE RejectPayout(p)
    BY <1>1, <2>2, ReturnStep DEF Account!Next
  <2>3. ASSUME NEW r \in References, BeginVerification(p, r)
        PROVE  UNCHANGED <<SignedBalance, PayoutHold>>
    BY <1>2, <2>3 DEF BeginVerification, orderVars, lotVars
  <2>4. CASE SettlePayout(p)
    BY <1>1, <2>4, PayStep DEF Account!Next
  <2>5. QED
    BY <1>5, <2>1, <2>2, <2>3, <2>4 DEF PayoutNext
<1>6. ASSUME NEW c \in Captures, RefundNext(c)
      PROVE  Account!Next \/ UNCHANGED <<SignedBalance, PayoutHold>>
  <2>1. CASE SettleRefund(c)
    BY <1>1, <2>1, ReverseStep DEF Account!Next
  <2>2. CASE ~SettleRefund(c)
    BY <1>2, <1>6, <2>2 DEF RefundNext, PrepareRefund, DispatchRefund, QuarantineRefund,
       orderVars, lotVars, payoutVars
  <2>3. QED
    BY <2>1, <2>2
<1>7. CASE UNCHANGED vars
  BY <1>2, <1>7 DEF vars, orderVars, lotVars, payoutVars
<1>8. QED
  BY <1>3, <1>4, <1>5, <1>6, <1>7 DEF Next

\* The ledger of lots implements the account: for all accounts, captures, lots
\* and payouts, no payout is ever larger than the signed balance.
THEOREM Refines == Spec => AccountPromise
<1>1. QED
  BY InitRefines, NextRefines, Inductive, PTL DEF Spec, AccountPromise, Account!Spec
=============================================================================
