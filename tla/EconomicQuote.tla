---------------------------- MODULE EconomicQuote ----------------------------
(***************************************************************************)
(* What an order's money consists of, frozen at checkout: discounts, fees  *)
(* and commission, the quote, and the journal of its capture               *)
(* (apps/api/src/modules/finances/economic-policy.ts, economic-checkout.ts,*)
(* economic-quote.ts, economic-journal.ts).  Amounts are minor units.      *)
(*                                                                         *)
(* A checkout is a record: the lines [shop, quantity, price], the discount *)
(* and the shipping per shop (less the subsidy), the coupon and affiliate  *)
(* discounts of the whole order, gift wrap, and the rates in force.  It is *)
(* frozen to an order, in which all of that is divided among shops and     *)
(* lines, and quoted: the quote splits each shop's money into parts.  A    *)
(* part is named <<kind, id>>; kinds are numbered in the order of the      *)
(* prefixes "gift-wrap:", "item:", "shipping:" of the code's part keys.    *)
(***************************************************************************)
EXTENDS MinorUnits, Sequences

GiftWrap == 1
Item     == 2
Shipping == 3

\* Fees of a shop are a sequence of amounts in the order of their codes.
FeeCodes == <<"PAYMENT_PROCESSING_FEE", "REGULATORY_FEE", "TRANSACTION_FEE", "VAT">>

Merchandise(line) == line.quantity * line.price

-----------------------------------------------------------------------------
(* Checkout *)

\* A rate is a fraction <<numerator, denominator>>, at most 1.
IsRate(rate) == rate[1] \in Nat /\ rate[2] \in Nat \ {0} /\ rate[1] <= rate[2]

\* Half a unit is rounded up.
RateFee(base, rate) == (2 * base * rate[1] + rate[2]) \div (2 * rate[2])

\* What parsing the rows of an order ensures: amounts are natural numbers,
\* lines are positive quantities of a shop of the order, and the names of
\* lines and shops are ordered.
WellFormed(checkout) ==
    LET shops == DOMAIN checkout.discount
        lines == DOMAIN checkout.lines
        rates == checkout.rates
    IN  /\ IsFiniteSet(shops) /\ shops \subseteq Int
        /\ IsFiniteSet(lines) /\ lines \subseteq Int
        /\ \A l \in lines : /\ checkout.lines[l].shop \in shops
                            /\ checkout.lines[l].quantity \in Nat \ {0}
                            /\ checkout.lines[l].price \in Nat
        /\ DOMAIN checkout.shipping = shops
        /\ \A s \in shops : checkout.discount[s] \in Nat /\ checkout.shipping[s] \in Nat
        /\ checkout.coupon \in Nat /\ checkout.affiliateDiscount \in Nat
        /\ checkout.wrap \in Nat /\ rates.fixed \in Nat
        /\ \A rate \in {rates.processing, rates.regulatory, rates.transaction, rates.vat,
                        rates.commission} : IsRate(rate)

\* The keys of a shop's lines, and of the shops themselves (which are
\* ordered like their shipping parts).
LinesOf(checkout, s) ==
    {<<Item, l>> : l \in {k \in DOMAIN checkout.lines : checkout.lines[k].shop = s}}
ShopsOf(checkout) == {<<Shipping, s>> : s \in DOMAIN checkout.discount}

\* Line amounts of a shop before and after the seller's discount.
Merchandises(checkout, s) ==
    [p \in LinesOf(checkout, s) |-> Merchandise(checkout.lines[p[2]])]

SellerDiscounts(checkout, s) ==
    AllocateMinorUnits(checkout.discount[s], Merchandises(checkout, s))

Discounted(checkout, s) ==
    LET discounts == SellerDiscounts(checkout, s)
    IN  [p \in LinesOf(checkout, s) |-> Merchandises(checkout, s)[p] - discounts[p]]

\* What the shops sell for, after their own discounts.
Sales(checkout) ==
    [p \in ShopsOf(checkout) |->
        Whole(Merchandises(checkout, p[2])) - checkout.discount[p[2]]]

GlobalDiscount(checkout) == checkout.coupon + checkout.affiliateDiscount

\* What freezeCheckoutEconomics refuses by itself.
Freezable(checkout) ==
    LET sales == Sales(checkout)
    IN  /\ \A p \in DOMAIN sales : sales[p] >= 0
        /\ GlobalDiscount(checkout) <= Whole(sales)
        /\ Allocatable(checkout.wrap, sales)

FeesOf(checkout, s) ==
    LET base       == Sales(checkout)[<<Shipping, s>>] + checkout.shipping[s]
        rates      == checkout.rates
        processing == RateFee(base, rates.processing) + rates.fixed
        regulatory == IF s \in rates.regulated THEN RateFee(base, rates.regulatory) ELSE 0
        transaction == RateFee(base, rates.transaction)
    IN  <<processing, regulatory, transaction,
          RateFee(transaction + processing + regulatory, rates.vat)>>

\* freezeCheckoutEconomics: the discounts of a shop are divided among its
\* lines, those of the whole order among the shops and then their lines.
Frozen(checkout) ==
    LET shops  == DOMAIN checkout.discount
        sales  == Sales(checkout)
        global == AllocateMinorUnits(GlobalDiscount(checkout), sales)
        wrap   == AllocateMinorUnits(checkout.wrap, sales)
        seller == [s \in shops |-> SellerDiscounts(checkout, s)]
        platform == [s \in shops |->
                      AllocateMinorUnits(global[<<Shipping, s>>], Discounted(checkout, s))]
    IN  [lines      |-> [l \in DOMAIN checkout.lines |->
                           LET line == checkout.lines[l]
                           IN  [shop             |-> line.shop,
                                quantity         |-> line.quantity,
                                price            |-> line.price,
                                sellerDiscount   |-> seller[line.shop][<<Item, l>>],
                                platformDiscount |-> platform[line.shop][<<Item, l>>]]],
         shipping   |-> checkout.shipping,
         wrap       |-> [s \in shops |-> wrap[<<Shipping, s>>]],
         fees       |-> [s \in shops |-> FeesOf(checkout, s)],
         commission |-> RateFee(Whole(sales) - checkout.coupon, checkout.rates.commission)]

-----------------------------------------------------------------------------
(* The quote *)

ShopOf(order, p) == IF p[1] = Item THEN order.lines[p[2]].shop ELSE p[2]

PartsOf(order) ==
    {<<Item, l>> : l \in DOMAIN order.lines}
        \cup {<<Shipping, s>> : s \in {t \in DOMAIN order.shipping : order.shipping[t] > 0}}
        \cup {<<GiftWrap, s>> : s \in {t \in DOMAIN order.wrap : order.wrap[t] > 0}}

PartsOfShop(order, s) == {p \in PartsOf(order) : ShopOf(order, p) = s}

Funding(order, p) == IF p[1] = Item THEN order.lines[p[2]].platformDiscount ELSE 0

Customer(order, p) ==
    CASE p[1] = Item     -> LET line == order.lines[p[2]]
                            IN  Merchandise(line) - line.sellerDiscount - line.platformDiscount
      [] p[1] = Shipping -> order.shipping[p[2]]
      [] p[1] = GiftWrap -> order.wrap[p[2]]

Gross(order, p) == Customer(order, p) + Funding(order, p)

\* The parts of a shop with their gross amounts.
Proceeds(order, s) == [p \in PartsOfShop(order, s) |-> Gross(order, p)]

\* What buildEconomicQuote refuses.
Quotable(order) ==
    /\ \A l \in DOMAIN order.lines :
          LET line == order.lines[l]
          IN  line.sellerDiscount + line.platformDiscount <= Merchandise(line)
    /\ \A s \in DOMAIN order.fees :
          /\ \E l \in DOMAIN order.lines : order.lines[l].shop = s
          /\ Whole(order.fees[s]) <= Whole(Proceeds(order, s))

\* The parts before fees are taken from them.
Parted(order) ==
    [p \in PartsOf(order) |->
        [shop     |-> ShopOf(order, p),
         quantity |-> IF p[1] = Item THEN order.lines[p[2]].quantity ELSE 1,
         customer |-> Customer(order, p),
         funding  |-> Funding(order, p),
         gross    |-> Gross(order, p),
         fee      |-> 0,
         net      |-> Gross(order, p),
         fees     |-> [k \in DOMAIN FeeCodes |-> 0]]]

\* Each shop's fee of the k-th code is allocated to what is left of its
\* parts, so that many fees, each rounded, do not overdraw a small part.
Charged(order, parts, k) ==
    LET left(s)   == [p \in PartsOfShop(order, s) |-> parts[p].net]
        charge    == [s \in DOMAIN order.fees |-> AllocateMinorUnits(order.fees[s][k], left(s))]
        amount(p) == charge[ShopOf(order, p)][p]
    IN  [p \in DOMAIN parts |-> [parts[p] EXCEPT !.fee = @ + amount(p),
                                                 !.net = @ - amount(p),
                                                 !.fees[k] = amount(p)]]

\* buildEconomicQuote of several orders, one fee code after the other.
BuildQuotes(orders) ==
    LET Draft(order)     == [order |-> order, parts |-> Parted(order)]
        Charge(drafts, k) == {[d EXCEPT !.parts = Charged(d.order, d.parts, k)] : d \in drafts}
        drafts == {Draft(order) : order \in {o \in orders : Quotable(o)}}
        final  == Charge(Charge(Charge(Charge(drafts, 1), 2), 3), 4)
    IN  {[parts |-> d.parts, commission |-> d.order.commission] : d \in final}

-----------------------------------------------------------------------------
(* The journal of the capture *)

Tax(fees)     == Total(fees, {k \in DOMAIN fees : FeeCodes[k] = "VAT"})
Revenue(fees) == Whole(fees) - Tax(fees)

TaxOver(rows)     == Whole([p \in DOMAIN rows |-> Tax(rows[p].fees)])
RevenueOver(rows) == Whole([p \in DOMAIN rows |-> Revenue(rows[p].fees)])

\* The platform's and the beneficiaries' accounts; positive is a debit.
Accounts == {"CUSTOMER_FUNDS", "PLATFORM_PROMOTION", "SELLER_PAYABLE", "TAX_PAYABLE",
             "PLATFORM_FEES", "PLATFORM_ROUNDING", "PLATFORM_AFFILIATE_COST",
             "AFFILIATE_PENDING"}

CaptureJournal(quote) ==
    [a \in Accounts |->
       CASE a = "CUSTOMER_FUNDS"          -> Over(quote.parts, "customer")
         [] a = "PLATFORM_PROMOTION"      -> Over(quote.parts, "funding")
         [] a = "SELLER_PAYABLE"          -> Over(quote.parts, "fee") - Over(quote.parts, "gross")
         [] a = "TAX_PAYABLE"             -> -TaxOver(quote.parts)
         [] a = "PLATFORM_FEES"           -> TaxOver(quote.parts) - Over(quote.parts, "fee")
         [] a = "PLATFORM_ROUNDING"       -> 0
         [] a = "PLATFORM_AFFILIATE_COST" -> quote.commission
         [] a = "AFFILIATE_PENDING"       -> -quote.commission]

Balanced(journal) == Balance(journal) = 0
=============================================================================
