--------------------------- MODULE EconomicBalance ---------------------------
(***************************************************************************)
(* Captured balances, payouts and refunds of the economic-v1 ledger        *)
(* (apps/api/src/modules/finances/economic-*.ts).                          *)
(*                                                                         *)
(* A verified capture seeds one balance LOT per beneficiary liability.  A  *)
(* lot's money is then moved between four counters by transactions that    *)
(* different people start at any time: payout reservation, rejection and   *)
(* settlement, debt recovery, and refund settlement, which can take back   *)
(* money already paid out and so put the account in debt.                  *)
(*                                                                         *)
(* Each action is one Serializable transaction of the code (they commit or *)
(* roll back whole, and take the account row lock first); the steps that   *)
(* the code does in separate transactions, with a provider call or another *)
(* request in between, are separate actions.                               *)
(***************************************************************************)
EXTENDS MinorUnits

CONSTANTS
    Accounts,           \* EconomicBalanceAccount rows (beneficiary, currency, mode)
    AffiliateAccounts,  \* those of kind AFFILIATE; the others are SELLER
    Captures,           \* verified captures, one per order
    Lots,               \* EconomicBalanceLot rows, numbered in id order
    LotAccount,         \* the account a lot belongs to
    LotCapture,         \* the capture that seeds it
    LotAmount,          \* amountMinor, from the frozen quote
    Payouts,            \* payout identities: (account, idempotencyKey) pairs
    PayoutOwner,        \* the account of a payout
    References,         \* transfer references an admin may type
    TransferFor,        \* the payout a provider transfer was made for
    MinimumPayout,      \* minimumMinor of an account
    NoReference,        \* transferReference IS NULL
    Amounts             \* the amounts that payout and refund requests may name

ASSUME ParametersAreWellFormed ==
    /\ IsFiniteSet(Accounts) /\ IsFiniteSet(Lots) /\ IsFiniteSet(Payouts)
    /\ IsFiniteSet(Captures)
    /\ AffiliateAccounts \subseteq Accounts
    /\ Lots \subseteq Nat
    /\ LotAccount \in [Lots -> Accounts]
    /\ LotCapture \in [Lots -> Captures]
    /\ PayoutOwner \in [Payouts -> Accounts]
    /\ LotAmount \in [Lots -> Nat \ {0}]
    /\ TransferFor \in [References -> Payouts]
    /\ MinimumPayout \in [Accounts -> Nat \ {0}]
    /\ NoReference \notin References
    /\ Amounts \subseteq Nat \ {0}

VARIABLES
    bookedAt,       \* per capture: order of booking, 0 while not booked
    order,          \* per capture: is its order safe to pay out?
    delivered,      \* per capture: delivered and past the affiliate lock days
    reserved,       \* per lot: reservedMinor
    paid,           \* per lot: paidMinor
    reversed,       \* per lot: reversedMinor
    recovered,      \* per lot: debtRecoveredMinor
    reversalDebt,   \* per lot: sum of debtMinor over its EconomicRefundLotReversal rows
    debt,           \* per account: debtMinor
    payoutState,    \* per payout: its state, "NONE" while it does not exist
    payoutAmount,   \* per payout: amountMinor
    allocation,     \* per payout and lot: its EconomicPayoutAllocation rows
    reference,      \* per payout: the bound transferReference
    refundState,    \* per capture: state of its latest REFUND operation
    refundPlan      \* per capture: what its pending refund takes back from each lot

orderVars  == <<bookedAt, order, delivered>>
lotVars    == <<reserved, paid, reversed, recovered, reversalDebt, debt>>
payoutVars == <<payoutState, payoutAmount, allocation, reference>>
refundVars == <<refundState, refundPlan>>
vars == <<orderVars, lotVars, payoutVars, refundVars>>

PayoutStates == {"NONE", "REQUESTED", "VERIFYING", "PAID", "REJECTED"}
RefundStates ==
    {"NONE", "PREPARED", "DISPATCHED", "NEEDS_RECONCILIATION", "SUCCEEDED"}
OrderStates  == {"PENDING_PAYMENT", "OPEN", "CLOSED"}

-----------------------------------------------------------------------------
(* Reading a balance                                                        *)

LotsOf(c)       == {l \in Lots : LotCapture[l] = c}
Booked(c)       == bookedAt[c] # 0

\* A refund operation that is neither FAILED nor SUCCEEDED.
RefundPending(c) ==
    refundState[c] \in {"PREPARED", "DISPATCHED", "NEEDS_RECONCILIATION"}

\* Mutants of Free: reserved (reversed) money counts as free.
FreeWithReserved(l) ==
    PositivePart(LotAmount[l] - paid[l] - reversed[l] - recovered[l])
FreeWithReversed(l) ==
    PositivePart(LotAmount[l] - reserved[l] - paid[l] - recovered[l])

\* What readEconomicBalance counts as free in a lot.
Free(l) ==
    PositivePart(LotAmount[l] - reserved[l] - paid[l] - reversed[l] - recovered[l])

\* Mutant of Eligible: an unresolved refund does not hold the lot.
EligibleDuringRefund(l) ==
    /\ Booked(LotCapture[l])
    /\ order[LotCapture[l]] = "OPEN"
    /\ LotAccount[l] \in AffiliateAccounts => delivered[LotCapture[l]]

\* Neither held (unsafe order, unresolved refund) nor pending (affiliate lock).
Eligible(l) ==
    LET c == LotCapture[l] IN
    /\ Booked(c)
    /\ order[c] = "OPEN"
    /\ ~RefundPending(c)
    /\ LotAccount[l] \in AffiliateAccounts => delivered[c]

\* Mutant of EligibleLots: lots of every account.
EligibleLotsOfAll(a) == {l \in Lots : Eligible(l)}

EligibleLots(a) == {l \in Lots : LotAccount[l] = a /\ Eligible(l)}

\* orderBy: createdAt, id
Older(l, m) ==
    LET bl == bookedAt[LotCapture[l]]
        bm == bookedAt[LotCapture[m]]
    IN  bl < bm \/ (bl = bm /\ l < m)

\* The loop "take = min(free, remainder)" over the eligible lots, oldest first:
\* up to n from S, a younger lot only when every older one is used up.
FifoDraws(free, S, n) ==
    {take \in [Lots -> 0..n] :
        /\ \A l \in Lots : take[l] > 0 => l \in S
        /\ \A l \in S : take[l] <= free[l]
        /\ \A l, m \in S : Older(l, m) /\ take[m] > 0 => take[l] = free[l]
        /\ Total(take, S) <= n
        /\ Total(take, S) = n \/ \A l \in S : take[l] = free[l]}

\* No refund pending: nothing to take back.
NoPlan == [l \in Lots |-> 0]

Available(free, S, owed) == PositivePart(Total(free, S) - owed)

-----------------------------------------------------------------------------
(* The order and its capture                                                *)

Init ==
    /\ bookedAt     = [c \in Captures |-> 0]
    /\ order        = [c \in Captures |-> "PENDING_PAYMENT"]
    /\ delivered    = [c \in Captures |-> FALSE]
    /\ reserved     = [l \in Lots |-> 0]
    /\ paid         = [l \in Lots |-> 0]
    /\ reversed     = [l \in Lots |-> 0]
    /\ recovered    = [l \in Lots |-> 0]
    /\ reversalDebt = [l \in Lots |-> 0]
    /\ debt         = [a \in Accounts |-> 0]
    /\ payoutState  = [p \in Payouts |-> "NONE"]
    /\ payoutAmount = [p \in Payouts |-> 0]
    /\ allocation   = [p \in Payouts |-> [l \in Lots |-> 0]]
    /\ reference    = [p \in Payouts |-> NoReference]
    /\ refundState  = [c \in Captures |-> "NONE"]
    /\ refundPlan   = [c \in Captures |-> NoPlan]

\* verifyAndBookEconomicCapture seeds the lots.  It does not look at the order
\* status: a late capture of a closed order is booked too.
BookCapture(c) ==
    /\ ~Booked(c)
    /\ bookedAt' = [bookedAt EXCEPT ![c] = 1 + Cardinality({d \in Captures : Booked(d)})]
    /\ UNCHANGED <<order, delivered, lotVars, payoutVars, refundVars>>

\* The lifecycle consumer of capture.verified.v1: PENDING_PAYMENT -> CONFIRMED.
ConfirmOrder(c) ==
    /\ Booked(c)
    /\ order[c] = "PENDING_PAYMENT"
    /\ order' = [order EXCEPT ![c] = "OPEN"]
    /\ UNCHANGED <<bookedAt, delivered, lotVars, payoutVars, refundVars>>

\* Cancelled, archived, fully refunded or put on hold: never eligible again.
CloseOrder(c) ==
    /\ order[c] # "CLOSED"
    /\ order' = [order EXCEPT ![c] = "CLOSED"]
    /\ UNCHANGED <<bookedAt, delivered, lotVars, payoutVars, refundVars>>

\* Delivery plus lock days; a seller may also move a shop back from DELIVERED,
\* after an affiliate payout was already made from this lot.
SetDelivered(c, d) ==
    /\ order[c] = "OPEN"
    /\ delivered[c] # d
    /\ delivered' = [delivered EXCEPT ![c] = d]
    /\ UNCHANGED <<bookedAt, order, lotVars, payoutVars, refundVars>>

-----------------------------------------------------------------------------
(* Debt recovery and payouts                                                *)

FreeNow == [l \in Lots |-> Free(l)]

\* recoverEconomicDebt on its own (the admin "recover debt" request).
RecoverDebt(a) ==
    LET S == EligibleLots(a) IN
    /\ debt[a] > 0
    /\ \E take \in FifoDraws(FreeNow, S, debt[a]) :
          /\ recovered' = [l \in Lots |-> recovered[l] + take[l]]
          /\ debt' = [debt EXCEPT ![a] = @ - Total(take, S)]
    /\ UNCHANGED <<reserved, paid, reversed, reversalDebt>>
    /\ UNCHANGED <<orderVars, payoutVars, refundVars>>

\* Mutant of ReservePayout: the debt is subtracted, but not recovered.
ReserveWithoutRecovery(p, amount) ==
    LET S == EligibleLots(PayoutOwner[p]) IN
    /\ payoutState[p] = "NONE"
    /\ amount <= Available(FreeNow, S, debt[PayoutOwner[p]])
    /\ \E take \in FifoDraws(FreeNow, S, amount) :
          /\ reserved'   = [l \in Lots |-> reserved[l] + take[l]]
          /\ allocation' = [allocation EXCEPT ![p] = take]
    /\ payoutState'  = [payoutState EXCEPT ![p] = "REQUESTED"]
    /\ payoutAmount' = [payoutAmount EXCEPT ![p] = amount]
    /\ UNCHANGED <<recovered, debt, paid, reversed, reversalDebt, reference>>
    /\ UNCHANGED <<orderVars, refundVars>>

\* reserveEconomicPayout, first use of the key: recover the debt, re-read the
\* balance, refuse more than what is available, reserve oldest lots first.  A
\* refusal rolls the recovery back too; a replayed key changes nothing.
ReservePayout(p, amount) ==
    LET a == PayoutOwner[p]
        S == EligibleLots(a)
    IN
    /\ payoutState[p] = "NONE"
    /\ amount >= MinimumPayout[a]
    /\ \E rec \in FifoDraws(FreeNow, S, debt[a]) :
         LET left == [l \in Lots |-> FreeNow[l] - rec[l]]
             owed == debt[a] - Total(rec, S)
         IN  /\ amount <= Available(left, S, owed)
             /\ \E take \in FifoDraws(left, S, amount) :
                  /\ Total(take, S) = amount
                  /\ reserved'   = [l \in Lots |-> reserved[l] + take[l]]
                  /\ allocation' = [allocation EXCEPT ![p] = take]
             /\ recovered' = [l \in Lots |-> recovered[l] + rec[l]]
             /\ debt' = [debt EXCEPT ![a] = owed]
    /\ payoutState'  = [payoutState EXCEPT ![p] = "REQUESTED"]
    /\ payoutAmount' = [payoutAmount EXCEPT ![p] = amount]
    /\ UNCHANGED <<paid, reversed, reversalDebt, reference>>
    /\ UNCHANGED <<orderVars, refundVars>>

\* Mutant of RejectPayout: the state is not checked again under the lock.
RejectTwice(p) ==
    /\ payoutState[p] \in {"REQUESTED", "REJECTED"}
    /\ payoutState' = [payoutState EXCEPT ![p] = "REJECTED"]
    /\ reserved' = [l \in Lots |-> PositivePart(reserved[l] - allocation[p][l])]
    /\ UNCHANGED <<paid, reversed, recovered, reversalDebt, debt>>
    /\ UNCHANGED <<payoutAmount, allocation, reference>>
    /\ UNCHANGED <<orderVars, refundVars>>

\* rejectEconomicPayout: only a payout that was never verified is rejected.
RejectPayout(p) ==
    /\ payoutState[p] = "REQUESTED"
    /\ payoutState' = [payoutState EXCEPT ![p] = "REJECTED"]
    /\ reserved' = [l \in Lots |-> reserved[l] - allocation[p][l]]
    /\ UNCHANGED <<paid, reversed, recovered, reversalDebt, debt>>
    /\ UNCHANGED <<payoutAmount, allocation, reference>>
    /\ UNCHANGED <<orderVars, refundVars>>

\* Mutant of BeginVerification: a payout under verification is bound again.
RebindReference(p, r) ==
    /\ payoutState[p] \in {"REQUESTED", "VERIFYING"}
    /\ \A q \in Payouts : reference[q] # r
    /\ payoutState' = [payoutState EXCEPT ![p] = "VERIFYING"]
    /\ reference' = [reference EXCEPT ![p] = r]
    /\ UNCHANGED <<payoutAmount, allocation>>
    /\ UNCHANGED <<orderVars, lotVars, refundVars>>

\* First transaction of verifyAndSettleEconomicPayout: bind the lookup
\* reference.  A unique index refuses one already bound to another payout.
BeginVerification(p, r) ==
    /\ payoutState[p] = "REQUESTED"
    /\ \A q \in Payouts : reference[q] # r
    /\ payoutState' = [payoutState EXCEPT ![p] = "VERIFYING"]
    /\ reference' = [reference EXCEPT ![p] = r]
    /\ UNCHANGED <<payoutAmount, allocation>>
    /\ UNCHANGED <<orderVars, lotVars, refundVars>>

\* Its second transaction, after the provider has shown that the referenced
\* transfer was made for this payout.  Whoever calls it (the first caller, a
\* retry, two admins at once) passed the first transaction with this reference.
SettlePayout(p) ==
    /\ payoutState[p] = "VERIFYING"
    /\ TransferFor[reference[p]] = p
    /\ payoutState' = [payoutState EXCEPT ![p] = "PAID"]
    /\ reserved' = [l \in Lots |-> reserved[l] - allocation[p][l]]
    /\ paid' = [l \in Lots |-> paid[l] + allocation[p][l]]
    /\ UNCHANGED <<reversed, recovered, reversalDebt, debt>>
    /\ UNCHANGED <<payoutAmount, allocation, reference>>
    /\ UNCHANGED <<orderVars, refundVars>>

-----------------------------------------------------------------------------
(* Refunds                                                                  *)

\* Mutant of PrepareRefund: open reservations do not stop a refund.
PrepareOverReservation(c, plan) ==
    /\ Booked(c)
    /\ refundState[c] \in {"NONE", "SUCCEEDED"}
    /\ \A l \in Lots :
          plan[l] <= (IF l \in LotsOf(c) THEN LotAmount[l] - reversed[l] ELSE 0)
    /\ refundState' = [refundState EXCEPT ![c] = "PREPARED"]
    /\ refundPlan' = [refundPlan EXCEPT ![c] = plan]
    /\ UNCHANGED <<orderVars, lotVars, payoutVars>>

\* prepareQuantityRefund, first use of the key.  The plan's cumulative floors
\* never take more than what earlier refunds left of a lot.
PrepareRefund(c, plan) ==
    /\ Booked(c)
    /\ refundState[c] \in {"NONE", "SUCCEEDED"}
    /\ \A l \in Lots :
          plan[l] <= (IF l \in LotsOf(c) THEN LotAmount[l] - reversed[l] ELSE 0)
    /\ \A l \in LotsOf(c) : reserved[l] = 0
    /\ refundState' = [refundState EXCEPT ![c] = "PREPARED"]
    /\ refundPlan' = [refundPlan EXCEPT ![c] = plan]
    /\ UNCHANGED <<orderVars, lotVars, payoutVars>>

DispatchRefund(c) ==
    /\ refundState[c] = "PREPARED"
    /\ refundState' = [refundState EXCEPT ![c] = "DISPATCHED"]
    /\ UNCHANGED <<refundPlan, orderVars, lotVars, payoutVars>>

QuarantineRefund(c) ==
    /\ refundState[c] = "DISPATCHED"
    /\ refundState' = [refundState EXCEPT ![c] = "NEEDS_RECONCILIATION"]
    /\ UNCHANGED <<refundPlan, orderVars, lotVars, payoutVars>>

\* refundLotImpact: the conditions it throws on.
ImpactAllowed(l, reversal) ==
    /\ paid[l] + recovered[l] + reserved[l] <= LotAmount[l]
    /\ reversal <= LotAmount[l] - reversed[l]
    /\ reserved[l] = 0

\* Mutants of ImpactDebt: money left in the lot lowers the debt; money
\* recovered from the lot is forgotten.
SignedImpact(l, reversal) ==
    paid[l] + recovered[l] + reversed[l] + reversal - LotAmount[l]
ImpactWithoutRecovered(l, reversal) ==
    LET gone == paid[l] + reversed[l] - LotAmount[l]
    IN  PositivePart(gone + reversal) - PositivePart(gone)

\* What the reversal takes beyond the lot that earlier ones did not.
ImpactDebt(l, reversal) ==
    LET gone == paid[l] + recovered[l] + reversed[l] - LotAmount[l]
    IN  PositivePart(gone + reversal) - PositivePart(gone)

\* The settling transaction of executeEconomicRefund.
SettleRefund(c) ==
    LET impact == [l \in Lots |-> ImpactDebt(l, refundPlan[c][l])]
        hit    == {l \in LotsOf(c) : refundPlan[c][l] > 0}
    IN
    /\ refundState[c] \in {"DISPATCHED", "NEEDS_RECONCILIATION"}
    /\ \A l \in hit : ImpactAllowed(l, refundPlan[c][l])
    /\ reversed' = [l \in Lots |-> IF l \in hit THEN reversed[l] + refundPlan[c][l]
                                   ELSE reversed[l]]
    /\ reversalDebt' = [l \in Lots |-> IF l \in hit THEN reversalDebt[l] + impact[l]
                                       ELSE reversalDebt[l]]
    /\ debt' = [a \in Accounts |->
                  debt[a] + Total(impact, {l \in hit : LotAccount[l] = a})]
    /\ refundState' = [refundState EXCEPT ![c] = "SUCCEEDED"]
    /\ refundPlan' = [refundPlan EXCEPT ![c] = NoPlan]
    /\ UNCHANGED <<reserved, paid, recovered, orderVars, payoutVars>>
-----------------------------------------------------------------------------
OrderNext(c) ==
    \/ BookCapture(c)
    \/ ConfirmOrder(c)
    \/ CloseOrder(c)
    \/ \E d \in BOOLEAN : SetDelivered(c, d)

PayoutNext(p) ==
    \/ \E amount \in Amounts : ReservePayout(p, amount)
    \/ RejectPayout(p)
    \/ \E r \in References : BeginVerification(p, r)
    \/ SettlePayout(p)

RefundNext(c) ==
    \/ \E plan \in [Lots -> {0} \cup Amounts] : PrepareRefund(c, plan)
    \/ DispatchRefund(c)
    \/ QuarantineRefund(c)
    \/ SettleRefund(c)

Next ==
    \/ \E c \in Captures : OrderNext(c)
    \/ \E a \in Accounts : RecoverDebt(a)
    \/ \E p \in Payouts : PayoutNext(p)
    \/ \E c \in Captures : RefundNext(c)

Spec == Init /\ [][Next]_vars

-----------------------------------------------------------------------------
(* Properties                                                               *)

\* Every column holds a value of its type; no counter and no debt is negative
\* (the BigInt columns and their >= 0 checks).
TypeOK ==
    /\ bookedAt     \in [Captures -> Nat]
    /\ order        \in [Captures -> OrderStates]
    /\ delivered    \in [Captures -> BOOLEAN]
    /\ reserved     \in [Lots -> Nat]
    /\ paid         \in [Lots -> Nat]
    /\ reversed     \in [Lots -> Nat]
    /\ recovered    \in [Lots -> Nat]
    /\ reversalDebt \in [Lots -> Nat]
    /\ debt         \in [Accounts -> Nat]
    /\ payoutState  \in [Payouts -> PayoutStates]
    /\ payoutAmount \in [Payouts -> Nat]
    /\ allocation   \in [Payouts -> [Lots -> Nat]]
    /\ reference    \in [Payouts -> References \cup {NoReference}]
    /\ refundState  \in [Captures -> RefundStates]
    /\ refundPlan   \in [Captures -> [Lots -> Nat]]

\* A lot is never over-committed: what is paid, reserved or recovered fits in
\* it, a refund never takes back more than it held, and money still reserved
\* for a payout is money the lot really has.  Payouts, recoveries and refunds
\* of one lot interleave; the table's CHECK constraints would abort the
\* transaction that broke one of these.
LotBounds ==
    \A l \in Lots :
        /\ reversed[l] <= LotAmount[l]
        /\ paid[l] + reserved[l] + recovered[l] <= LotAmount[l]
        /\ reserved[l] <= PositivePart(LotAmount[l] - paid[l] - reversed[l] - recovered[l])

\* What a lot says is reserved (paid) is exactly what the payouts still open
\* (settled) allocated from it: rejecting or settling a payout, whatever
\* happened to its lots meanwhile, moves its own money and nobody else's.
OpenPayouts    == {p \in Payouts : payoutState[p] \in {"REQUESTED", "VERIFYING"}}
SettledPayouts == {p \in Payouts : payoutState[p] = "PAID"}
DrawnFrom(l)   == [p \in Payouts |-> allocation[p][l]]

ReservationsBacked ==
    \A l \in Lots :
        /\ reserved[l] = Total(DrawnFrom(l), OpenPayouts)
        /\ paid[l] = Total(DrawnFrom(l), SettledPayouts)

\* A payout is allocated in full, and from lots of its own account only.
PayoutAllocated ==
    \A p \in Payouts :
        /\ Total(allocation[p], Lots) = payoutAmount[p]
        /\ \A l \in Lots : allocation[p][l] > 0 => LotAccount[l] = PayoutOwner[p]

\* An account owes exactly what refunds took back beyond what its lots still
\* held, less what was recovered since.  Refunds are settled in several steps,
\* and money recovered from a lot counts as gone when that lot is refunded
\* later, so the two could drift apart.
LotsOfAccount(a) == {l \in Lots : LotAccount[l] = a}

DebtConserved ==
    /\ \A l \in Lots :
          reversalDebt[l] = PositivePart(paid[l] + recovered[l] + reversed[l] - LotAmount[l])
    /\ \A a \in Accounts :
          debt[a] + Total(recovered, LotsOfAccount(a)) = Total(reversalDebt, LotsOfAccount(a))

\* A refund that was prepared can be settled: its lots stay free of
\* reservations and its plan stays within them until then.  Otherwise the
\* settling transaction would throw after the provider has moved the money.
RefundSettleable ==
    \A c \in Captures : RefundPending(c) =>
        \A l \in LotsOf(c) : ImpactAllowed(l, refundPlan[c][l])

\* No payout is created for an account that still owes money.
DebtBeforePayout ==
    [][\A p \in Payouts :
          payoutState[p] = "NONE" /\ payoutState'[p] # "NONE" =>
              debt'[PayoutOwner[p]] = 0]_vars

\* A provider transfer pays at most one payout, the one it was made for, and
\* the reference under which a payout was verified never changes.
ReferenceFinal ==
    [][\A p \in Payouts :
          /\ reference[p] # NoReference => reference'[p] = reference[p]
          /\ payoutState'[p] = "PAID" => /\ reference'[p] # NoReference
                                         /\ TransferFor[reference'[p]] = p]_vars

-----------------------------------------------------------------------------
(* Inductive invariant                                                      *)

\* No money is ever counted in a lot before its capture is booked.
MoneyAfterBooking ==
    \A l \in Lots : ~Booked(LotCapture[l]) =>
        reserved[l] = 0 /\ paid[l] = 0 /\ reversed[l] = 0 /\ recovered[l] = 0

RefundAfterBooking == \A c \in Captures : RefundPending(c) => Booked(c)

\* A payout under verification has a reference; a paid one has its own.
ReferenceBound ==
    \A p \in Payouts :
        /\ reference[p] = NoReference <=> payoutState[p] \in {"NONE", "REQUESTED", "REJECTED"}
        /\ payoutState[p] = "PAID" => TransferFor[reference[p]] = p

\* The invariants that matter, with what makes them inductive.
IInv ==
    /\ TypeOK
    /\ LotBounds
    /\ ReservationsBacked
    /\ PayoutAllocated
    /\ DebtConserved
    /\ RefundSettleable
    /\ MoneyAfterBooking
    /\ RefundAfterBooking
    /\ ReferenceBound

-----------------------------------------------------------------------------
(* What the lots promise together: EconomicAccount                          *)

BookedLots(a) == {l \in LotsOfAccount(a) : Booked(LotCapture[l])}

\* Nothing is reserved, paid or taken back from a lot that is not booked.
BalanceOf(a) ==
    Total(LotAmount, BookedLots(a)) - Total(reserved, LotsOfAccount(a))
    - Total(paid, LotsOfAccount(a)) - Total(reversed, LotsOfAccount(a))

PhaseOf(state) ==
    CASE state = "NONE" -> "none"
      [] state \in {"REQUESTED", "VERIFYING"} -> "held"
      [] state = "PAID" -> "paid"
      [] state = "REJECTED" -> "returned"

SignedBalance == [a \in Accounts |-> BalanceOf(a)]

PayoutHold ==
    [p \in Payouts |-> [phase |-> PhaseOf(payoutState[p]), amount |-> payoutAmount[p]]]

Account == INSTANCE EconomicAccount WITH balance <- SignedBalance, hold <- PayoutHold

\* The lots, draws, debts and refund plans together keep the promise of
\* EconomicAccount: in particular no payout is ever larger than the signed
\* balance of its account, debts of refunded lots included.
AccountPromise == Account!Spec
=============================================================================
