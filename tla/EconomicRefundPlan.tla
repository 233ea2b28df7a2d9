-------------------------- MODULE EconomicRefundPlan --------------------------
(***************************************************************************)
(* Partial refunds of one capture (economic-refund-plan.ts,                *)
(* economic-refund-journal.ts and the history that economic-refund.ts and  *)
(* economic-refund-settlement.ts read and write).                          *)
(*                                                                         *)
(* A second refund is prepared only after the first one is settled, so a   *)
(* refund is one step here: planned from the settled history, checked      *)
(* again when it is settled, and booked.  EconomicBalance and              *)
(* EconomicRefundExecution model what happens in between.                  *)
(***************************************************************************)
EXTENDS EconomicQuote

CONSTANT Checkouts      \* the checkouts considered

ASSUME CheckoutsAssumption == \A checkout \in Checkouts : WellFormed(checkout)

VARIABLES
    quote,          \* the frozen quote of the capture
    returned,       \* per part: units refunded by quantity
    refunded,       \* per part: what its refunds gave the customer
    exceptions,     \* shipping parts refunded by a separate exception
    reversed,       \* per lot: reversedMinor
    journal         \* per account: entries of the capture and its refunds

vars == <<quote, returned, refunded, exceptions, reversed, journal>>

Parts == DOMAIN quote.parts
Items == {p \in Parts : p[1] = Item}

\* The affiliate's lot; the other lots have the key of their part.
AffiliatePending == <<0, 0>>

Lots == Parts \cup {AffiliatePending}

LotAmount(l) == IF l = AffiliatePending THEN quote.commission ELSE quote.parts[l].net

\* A checkout that is refused has no quote.
Quotes ==
    BuildQuotes({Frozen(c) : c \in {d \in Checkouts : Freezable(d)}})

Init ==
    /\ quote \in Quotes
    /\ returned = [p \in Parts |-> 0]
    /\ refunded = [p \in Parts |-> 0]
    /\ exceptions = {}
    /\ reversed = [l \in Lots |-> 0]
    /\ journal = CaptureJournal(quote)

-----------------------------------------------------------------------------
(* Plans *)

\* Mutant of Between: the units of this refund are rounded by themselves.
BetweenAlone(amount, all, from, to) == (amount * (to - from)) \div all

\* What the refund of the units from `from' to `to', out of `all', takes of
\* an original amount.
Between(amount, all, from, to) ==
    (amount * to) \div all - (amount * from) \div all

Commission == [p \in Items |-> quote.parts[p].gross]

AffiliateByPart == AllocateMinorUnits(quote.commission, Commission)

\* Every column of the part is taken by itself.  (Only a refund by quantity
\* counts units: an exception's "all" is an amount.)
PlanPart(p, affiliate, all, from, to) ==
    LET part == quote.parts[p]
        Take(amount) == Between(amount, all, from, to)
    IN  [quantity  |-> to - from,
         customer  |-> Take(part.customer),
         funding   |-> Take(part.funding),
         gross     |-> Take(part.gross),
         fee       |-> Take(part.fee),
         net       |-> Take(part.net),
         affiliate |-> Take(affiliate),
         fees      |-> [k \in DOMAIN part.fees |-> Take(part.fees[k])]]

\* planQuantityRefund: the selection maps parts to units.
QuantityPlan(selection) ==
    LET affiliate == AffiliateByPart
    IN  [p \in DOMAIN selection |->
            PlanPart(p, IF p \in Items THEN affiliate[p] ELSE 0, quote.parts[p].quantity,
                     returned[p], returned[p] + selection[p])]

\* planShippingOverride.
ExceptionPlan(p, amount) ==
    [q \in {p} |->
        PlanPart(q, 0, quote.parts[q].customer, refunded[q], refunded[q] + amount)]

FundingRounding(row)     == row.customer + row.funding - row.gross
BeneficiaryRounding(row) == row.gross - row.net - row.fee
FeeRounding(row)         == row.fee - Whole(row.fees)
PlatformRounding(row)    == FundingRounding(row) + BeneficiaryRounding(row) + FeeRounding(row)

\* Mutant of WithinRounding: the limit of a single difference for the fees.
WithinOne(row) ==
    /\ FundingRounding(row) \in -1..1
    /\ BeneficiaryRounding(row) \in -1..1
    /\ FeeRounding(row) \in -1..1

\* platformRounding throws beyond these.
WithinRounding(row) ==
    /\ FundingRounding(row) \in -1..1
    /\ BeneficiaryRounding(row) \in -1..1
    /\ LET limit == PositivePart(Cardinality(DOMAIN row.fees) - 1)
       IN  FeeRounding(row) \in -limit..limit

RoundingOver(plan) == Balance([p \in DOMAIN plan |-> PlatformRounding(plan[p])])

\* Mutant of RefundJournal: the tax on fees is given back as revenue.
RefundJournalUntaxed(plan) ==
    [a \in Accounts |->
       CASE a = "CUSTOMER_FUNDS"          -> -Over(plan, "customer")
         [] a = "PLATFORM_PROMOTION"      -> -Over(plan, "funding")
         [] a = "SELLER_PAYABLE"          -> Over(plan, "net")
         [] a = "TAX_PAYABLE"             -> 0
         [] a = "PLATFORM_FEES"           -> RevenueOver(plan) + TaxOver(plan)
         [] a = "PLATFORM_ROUNDING"       -> RoundingOver(plan)
         [] a = "PLATFORM_AFFILIATE_COST" -> -Over(plan, "affiliate")
         [] a = "AFFILIATE_PENDING"       -> Over(plan, "affiliate")]

\* plannedRefundJournal, added up per account.
RefundJournal(plan) ==
    [a \in Accounts |->
       CASE a = "CUSTOMER_FUNDS"          -> -Over(plan, "customer")
         [] a = "PLATFORM_PROMOTION"      -> -Over(plan, "funding")
         [] a = "SELLER_PAYABLE"          -> Over(plan, "net")
         [] a = "TAX_PAYABLE"             -> TaxOver(plan)
         [] a = "PLATFORM_FEES"           -> RevenueOver(plan)
         [] a = "PLATFORM_ROUNDING"       -> RoundingOver(plan)
         [] a = "PLATFORM_AFFILIATE_COST" -> -Over(plan, "affiliate")
         [] a = "AFFILIATE_PENDING"       -> Over(plan, "affiliate")]

\* The amounts map of the settlement.
Reversal(plan) ==
    [l \in Lots |-> IF l = AffiliatePending THEN Over(plan, "affiliate")
                    ELSE IF l \in DOMAIN plan THEN plan[l].net ELSE 0]

-----------------------------------------------------------------------------
(* Refunds *)

\* Units of some parts, of those that were not refunded yet.
Left(p) == quote.parts[p].quantity - returned[p]

Selections ==
    UNION {{f \in [S -> UNION {1..Left(p) : p \in S}] : \A p \in S : f[p] <= Left(p)} :
           S \in SUBSET {p \in Parts : Left(p) > 0} \ {{}}}

\* Shipping is refunded with, or after, every item of its shop, and not
\* after an exception.  (That nothing was handed off is EconomicFulfilment's
\* subject; gift wrap needs an approval, which is the caller's choice.)
Selectable(selection) ==
    /\ DOMAIN selection \cap exceptions = {}
    /\ \A p \in DOMAIN selection : p[1] = Shipping =>
          \A i \in Items : quote.parts[i].shop = quote.parts[p].shop =>
             returned[i] + (IF i \in DOMAIN selection THEN selection[i] ELSE 0)
                = quote.parts[i].quantity

\* The refunds that may be asked for; one must give the customer something.
QuantityPlans ==
    {plan \in {QuantityPlan(f) : f \in {g \in Selections : Selectable(g)}} :
        Over(plan, "customer") > 0}

\* A separately approved refund of some of the shipping the customer paid.
ExceptionPlans ==
    UNION {{ExceptionPlan(p, amount) : amount \in 1..(quote.parts[p].customer - refunded[p])} :
           p \in {q \in Parts : q[1] = Shipping}}

\* What preparation and settlement refuse of a plan: a commission that cannot
\* be divided, more than the customer paid, differences beyond rounding,
\* journals that do not balance, reversals of more than a lot.
Accepted(plan) ==
    /\ Allocatable(quote.commission, Commission)
    /\ Over(plan, "customer") <= Over(quote.parts, "customer")
    /\ \A p \in DOMAIN plan : WithinRounding(plan[p])
    /\ Balanced(RefundJournal(plan))
    /\ \A l \in Lots : /\ reversed[l] <= LotAmount(l)
                       /\ Reversal(plan)[l] <= LotAmount(l) - reversed[l]

Book(plan) ==
    /\ Accepted(plan)
    /\ refunded' = [p \in Parts |-> refunded[p] + IF p \in DOMAIN plan THEN plan[p].customer ELSE 0]
    /\ reversed' = [l \in Lots |-> reversed[l] + Reversal(plan)[l]]
    /\ journal' = [a \in Accounts |-> journal[a] + RefundJournal(plan)[a]]
    /\ UNCHANGED quote

RefundQuantities ==
    \E plan \in QuantityPlans :
        /\ Book(plan)
        /\ returned' = [p \in Parts |->
              returned[p] + IF p \in DOMAIN plan THEN plan[p].quantity ELSE 0]
        /\ UNCHANGED exceptions

RefundShippingException ==
    \E plan \in ExceptionPlans :
        /\ Book(plan)
        /\ exceptions' = exceptions \cup DOMAIN plan
        /\ UNCHANGED returned

Next == RefundQuantities \/ RefundShippingException

Spec == Init /\ [][Next]_vars

-----------------------------------------------------------------------------
(* Properties *)

Complete(p) ==
    \/ returned[p] = quote.parts[p].quantity
    \/ p \in exceptions /\ refunded[p] = quote.parts[p].customer

\* However an order is refunded in pieces, no part gives the customer, and no
\* lot loses, more than was captured, and a part that is refunded completely
\* gives back all of it, down to the last minor unit; so does the commission
\* once all items are (refundByQuantity, buildEconomicQuote).
RefundsTelescope ==
    /\ \A p \in Parts :
          /\ refunded[p] \in 0..quote.parts[p].customer
          /\ reversed[p] \in 0..quote.parts[p].net
          /\ Complete(p) => /\ refunded[p] = quote.parts[p].customer
                            /\ reversed[p] = quote.parts[p].net
    /\ reversed[AffiliatePending] \in 0..quote.commission
    /\ (\A p \in Items : Complete(p)) => reversed[AffiliatePending] = quote.commission

\* The journal and the balances tell the same story at every moment: what the
\* books owe sellers and affiliate is what is left of their lots, what they
\* hold of the customer is what was not refunded, and when all of an order is
\* refunded every account is even, rounding included.
BooksMatchLots ==
    /\ journal["SELLER_PAYABLE"] = Total(reversed, Parts) - Over(quote.parts, "net")
    /\ journal["AFFILIATE_PENDING"] = reversed[AffiliatePending] - quote.commission
    /\ journal["CUSTOMER_FUNDS"] =
            Whole([p \in Parts |-> quote.parts[p].customer - refunded[p]])
    /\ (\A p \in Parts : Complete(p)) => \A a \in Accounts : journal[a] = 0

\* No refund that may be selected is refused by the arithmetic: neither when
\* it is prepared nor, what would be worse, when it is settled after the
\* provider has moved the money (platformRounding, plannedRefundJournal,
\* refundLotImpact).
SelectableIsAccepted == \A plan \in QuantityPlans \cup ExceptionPlans : Accepted(plan)
=============================================================================
