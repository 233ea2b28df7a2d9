----------------------- MODULE EconomicRefundPlan_proofs -----------------------
(***************************************************************************)
(* Machine-checked proofs about partial refunds, for every set of          *)
(* checkouts: what a frozen order and its quote satisfy whatever the       *)
(* amounts and rates are, and that the refunds of a quote in pieces add up *)
(* to it.  The inductive invariant says that the state is always that of   *)
(* one refund of everything that was refunded so far.                      *)
(***************************************************************************)
EXTENDS EconomicRefundPlan, MinorUnits_proofs

-----------------------------------------------------------------------------
(* The frozen order *)

\* A fee is a natural number, and nothing of nothing.
LEMMA RateFeeNat ==
  ASSUME NEW base \in Nat, NEW rate, IsRate(rate)
  PROVE  RateFee(base, rate) \in Nat /\ RateFee(0, rate) = 0
<1> DEFINE num == rate[1]
           den == rate[2]
<1>1. num \in Nat /\ den \in Nat /\ den > 0
  BY DEF IsRate
<1>2. /\ RateFee(base, rate) = (2 * base * num + den) \div (2 * den)
      /\ RateFee(0, rate) = (2 * 0 * num + den) \div (2 * den)
  BY DEF RateFee
<1> HIDE DEF num, den
<1>3. 2 * base * num + den \in Nat /\ 2 * den \in Nat /\ 2 * den > 0
  BY <1>1
<1>4. (2 * base * num + den) \div (2 * den) \in Nat
  BY <1>3, Division
<1>5. (2 * 0 * num + den) \div (2 * den) = 0
  BY <1>1
<1>6. QED
  BY <1>2, <1>4, <1>5

\* The keys of lines and of shops are finitely many and ordered.
LEMMA CheckoutKeys ==
  ASSUME NEW c, WellFormed(c)
  PROVE  /\ IsFiniteSet(ShopsOf(c)) /\ Keys(ShopsOf(c))
         /\ \A s : IsFiniteSet(LinesOf(c, s)) /\ Keys(LinesOf(c, s))
<1>1. /\ IsFiniteSet(DOMAIN c.discount) /\ DOMAIN c.discount \subseteq Int
      /\ IsFiniteSet(DOMAIN c.lines) /\ DOMAIN c.lines \subseteq Int
  BY DEF WellFormed
<1>2. IsFiniteSet(ShopsOf(c))
  <2> DEFINE f == [s \in DOMAIN c.discount |-> <<Shipping, s>>]
  <2>1. f \in Surjection(DOMAIN c.discount, ShopsOf(c))
    BY DEF Surjection, ShopsOf
  <2>2. QED
    BY <1>1, <2>1, FS_Surjection
<1>3. ASSUME NEW s PROVE IsFiniteSet(LinesOf(c, s))
  <2> DEFINE S == {k \in DOMAIN c.lines : c.lines[k].shop = s}
             f == [l \in S |-> <<Item, l>>]
  <2>1. f \in Surjection(S, LinesOf(c, s))
    BY DEF Surjection, LinesOf
  <2>2. IsFiniteSet(S)
    BY <1>1, FS_Subset
  <2>3. QED
    BY <2>1, <2>2, FS_Surjection
<1>4. Keys(ShopsOf(c)) /\ \A s : Keys(LinesOf(c, s))
  BY <1>1 DEF Keys, ShopsOf, LinesOf, Shipping, Item
<1>5. QED
  BY <1>2, <1>3, <1>4

\* The lines of a shop before and after the seller's discount.
LEMMA ShopLines ==
  ASSUME NEW c, WellFormed(c), Freezable(c), NEW s \in DOMAIN c.discount
  PROVE  /\ AmountsOn(Merchandises(c, s), LinesOf(c, s))
         /\ DOMAIN Merchandises(c, s) = LinesOf(c, s)
         /\ SellerDiscounts(c, s) \in [LinesOf(c, s) -> Nat]
         /\ Discounted(c, s) \in [LinesOf(c, s) -> Nat]
         /\ Whole(Discounted(c, s)) = Sales(c)[<<Shipping, s>>]
         /\ Sales(c)[<<Shipping, s>>] \in Nat
<1> DEFINE lines == LinesOf(c, s)
           merchandise == Merchandises(c, s)
           discounts == SellerDiscounts(c, s)
           discount == c.discount[s]
<1>1. IsFiniteSet(lines) /\ Keys(lines) /\ discount \in Nat
  BY CheckoutKeys DEF WellFormed
<1>2. DOMAIN merchandise = lines
  BY DEF Merchandises
<1>3. ASSUME NEW p \in lines PROVE merchandise[p] \in Nat
  <2>1. PICK l \in DOMAIN c.lines : p = <<Item, l>>
    BY DEF LinesOf
  <2>2. c.lines[l].quantity \in Nat /\ c.lines[l].price \in Nat
    BY DEF WellFormed
  <2>3. merchandise[p] = c.lines[l].quantity * c.lines[l].price
    BY <2>1 DEF Merchandises, Merchandise
  <2>4. QED
    BY <2>2, <2>3
<1>4. AmountsOn(merchandise, lines)
  BY <1>1, <1>3 DEF AmountsOn
<1>5. Whole(merchandise) \in Nat
  BY <1>2, <1>4, TotalNat DEF Whole
<1>6. <<Shipping, s>> \in ShopsOf(c)
  BY DEF ShopsOf
<1>7. Sales(c)[<<Shipping, s>>] = Whole(merchandise) - discount
  BY <1>6 DEF Sales
<1>8. Sales(c)[<<Shipping, s>>] >= 0
  BY <1>6 DEF Freezable, Sales
<1>9. Sales(c)[<<Shipping, s>>] \in Nat /\ discount <= Whole(merchandise)
  BY <1>1, <1>5, <1>7, <1>8
<1>10. /\ discounts \in [lines -> Nat] /\ Whole(discounts) = discount
       /\ \A p \in lines : discounts[p] <= merchandise[p]
  <2>1. Allocatable(discount, merchandise)
    BY <1>1, <1>5, <1>9 DEF Allocatable
  <2>2. discounts = AllocateMinorUnits(discount, merchandise)
    BY DEF SellerDiscounts
  <2> HIDE DEF lines, merchandise, discounts, discount
  <2>3. QED
    BY <1>1, <1>2, <1>4, <1>9, <2>1, <2>2, Allocation
<1>11. /\ DOMAIN Discounted(c, s) = lines
       /\ \A p \in lines : /\ Discounted(c, s)[p] \in Nat
                           /\ merchandise[p] = Discounted(c, s)[p] + discounts[p]
  <2>1. Discounted(c, s) = [p \in lines |-> merchandise[p] - discounts[p]]
    BY DEF Discounted
  <2> HIDE DEF lines, merchandise, discounts
  <2>2. QED
    BY <1>3, <1>10, <2>1
<1>12. Discounted(c, s) \in [lines -> Nat]
  <2>1. Discounted(c, s) = [p \in lines |-> Discounted(c, s)[p]]
    BY DEF Discounted
  <2>2. QED
    BY <1>11, <2>1
<1>13. Whole(merchandise) = Whole(Discounted(c, s)) + discount
  <2>1. AmountsOn(Discounted(c, s), lines) /\ AmountsOn(discounts, lines)
    BY <1>1, <1>10, <1>11 DEF AmountsOn
  <2>2. DOMAIN discounts = lines
    BY <1>10
  <2> HIDE DEF lines, merchandise, discounts, discount
  <2>3. Total(merchandise, lines) = Total(Discounted(c, s), lines) + Total(discounts, lines)
    BY <1>11, <2>1, TotalAdd
  <2>4. QED
    BY <1>2, <1>10, <1>11, <2>2, <2>3 DEF Whole
<1>14. Whole(Discounted(c, s)) \in Nat
  BY <1>1, <1>11, TotalNat DEF Whole, AmountsOn
<1>15. QED
  <2> HIDE DEF discounts, merchandise, lines, discount
  <2>1. Whole(Discounted(c, s)) = Sales(c)[<<Shipping, s>>]
    BY <1>1, <1>5, <1>7, <1>13, <1>14
  <2>2. QED
    BY <1>2, <1>4, <1>9, <1>10, <1>12, <2>1 DEF discounts, merchandise, lines

\* What a frozen order satisfies, whatever the checkout: no discount exceeds
\* what it is taken from, and a commission is paid for some merchandise.
FrozenOrder(order) ==
  LET shops == DOMAIN order.fees
      lines == DOMAIN order.lines
  IN  /\ IsFiniteSet(shops) /\ shops \subseteq Int
      /\ IsFiniteSet(lines) /\ lines \subseteq Int
      /\ DOMAIN order.shipping = shops /\ DOMAIN order.wrap = shops
      /\ \A s \in shops : /\ order.shipping[s] \in Nat /\ order.wrap[s] \in Nat
                          /\ DOMAIN order.fees[s] = 1..4
                          /\ \A k \in 1..4 : order.fees[s][k] \in Nat
      /\ \A l \in lines :
            LET line == order.lines[l]
            IN  /\ line.shop \in shops
                /\ line.quantity \in Nat \ {0}
                /\ Merchandise(line) \in Nat
                /\ line.sellerDiscount \in Nat /\ line.platformDiscount \in Nat
      /\ order.commission \in Nat
      /\ order.commission > 0 =>
            \E l \in lines : order.lines[l].sellerDiscount < Merchandise(order.lines[l])

\* The fees of a shop are four natural numbers.
LEMMA FeesOfShop ==
  ASSUME NEW c, WellFormed(c), Freezable(c), NEW s \in DOMAIN c.discount
  PROVE  DOMAIN FeesOf(c, s) = 1..4 /\ \A k \in 1..4 : FeesOf(c, s)[k] \in Nat
<1> DEFINE base        == Sales(c)[<<Shipping, s>>] + c.shipping[s]
           processing  == RateFee(base, c.rates.processing) + c.rates.fixed
           regulatory  == IF s \in c.rates.regulated THEN RateFee(base, c.rates.regulatory) ELSE 0
           transaction == RateFee(base, c.rates.transaction)
           vat         == RateFee(transaction + processing + regulatory, c.rates.vat)
<1>1. base \in Nat /\ c.rates.fixed \in Nat
  BY ShopLines DEF WellFormed
<1>2. /\ IsRate(c.rates.processing) /\ IsRate(c.rates.regulatory)
      /\ IsRate(c.rates.transaction) /\ IsRate(c.rates.vat)
  BY DEF WellFormed
<1>3. FeesOf(c, s) = <<processing, regulatory, transaction, vat>>
  BY DEF FeesOf
<1> HIDE DEF base
<1>4. processing \in Nat /\ regulatory \in Nat /\ transaction \in Nat
  BY <1>1, <1>2, RateFeeNat
<1> HIDE DEF processing, regulatory, transaction
<1>5. transaction + processing + regulatory \in Nat
  BY <1>4
<1>6. vat \in Nat
  BY <1>2, <1>5, RateFeeNat
<1> HIDE DEF vat
<1>7. QED
  BY <1>3, <1>4, <1>6

\* freezeCheckoutEconomics never divides money among nothing: what a shop has
\* to bear of the discounts of the whole order is at most what it sells for.
LEMMA GlobalAllocation ==
  ASSUME NEW c, WellFormed(c), Freezable(c)
  PROVE  LET global == AllocateMinorUnits(GlobalDiscount(c), Sales(c))
             wrap   == AllocateMinorUnits(c.wrap, Sales(c))
         IN  /\ AmountsOn(Sales(c), ShopsOf(c)) /\ DOMAIN Sales(c) = ShopsOf(c)
             /\ GlobalDiscount(c) \in Nat /\ GlobalDiscount(c) <= Whole(Sales(c))
             /\ \A p \in ShopsOf(c) : /\ wrap[p] \in Nat /\ global[p] \in Nat
                                      /\ global[p] <= Sales(c)[p]
<1> DEFINE sales == Sales(c)
<1>1. IsFiniteSet(ShopsOf(c)) /\ Keys(ShopsOf(c)) /\ DOMAIN sales = ShopsOf(c)
  BY CheckoutKeys DEF Sales
<1>2. \A p \in ShopsOf(c) : sales[p] \in Nat
  <2>1. ASSUME NEW p \in ShopsOf(c) PROVE sales[p] \in Nat
    <3>1. PICK s \in DOMAIN c.discount : p = <<Shipping, s>>
      BY DEF ShopsOf
    <3>2. QED
      BY <3>1, ShopLines
  <2>2. QED
    BY <2>1
<1>3. AmountsOn(sales, DOMAIN sales)
  BY <1>1, <1>2 DEF AmountsOn
<1>4. GlobalDiscount(c) \in Nat /\ c.wrap \in Nat
  BY DEF GlobalDiscount, WellFormed
<1>5. GlobalDiscount(c) <= Whole(sales) /\ Allocatable(c.wrap, sales)
  BY DEF Freezable
<1>6. Whole(sales) \in Nat
  BY <1>3, TotalNat DEF Whole
<1>7. Allocatable(GlobalDiscount(c), sales)
  BY <1>4, <1>5, <1>6 DEF Allocatable
<1> HIDE DEF sales
<1>8. /\ AllocateMinorUnits(GlobalDiscount(c), sales) \in [DOMAIN sales -> Nat]
      /\ \A p \in DOMAIN sales : AllocateMinorUnits(GlobalDiscount(c), sales)[p] <= sales[p]
  BY <1>1, <1>3, <1>4, <1>5, <1>7, Allocation
<1>9. AllocateMinorUnits(c.wrap, sales) \in [DOMAIN sales -> Nat]
  BY <1>1, <1>3, <1>4, <1>5, Allocation
<1>10. QED
  BY <1>1, <1>3, <1>4, <1>5, <1>8, <1>9 DEF sales

\* So the discounts of every line are natural numbers.
LEMMA LineDiscounts ==
  ASSUME NEW c, WellFormed(c), Freezable(c), NEW l \in DOMAIN c.lines
  PROVE  LET line == Frozen(c).lines[l]
             s    == c.lines[l].shop
         IN  /\ line.shop = s /\ line.quantity = c.lines[l].quantity
             /\ s \in DOMAIN c.discount /\ <<Item, l>> \in LinesOf(c, s)
             /\ Merchandise(line) = Merchandises(c, s)[<<Item, l>>]
             /\ Merchandise(line) \in Nat
             /\ line.sellerDiscount \in Nat /\ line.platformDiscount \in Nat
             /\ Discounted(c, s)[<<Item, l>>] = Merchandise(line) - line.sellerDiscount
<1> DEFINE s      == c.lines[l].shop
           key    == <<Item, l>>
           line   == Frozen(c).lines[l]
           global == AllocateMinorUnits(GlobalDiscount(c), Sales(c))[<<Shipping, s>>]
           platform == AllocateMinorUnits(global, Discounted(c, s))
<1>1. s \in DOMAIN c.discount /\ key \in LinesOf(c, s) /\ <<Shipping, s>> \in ShopsOf(c)
  BY DEF WellFormed, LinesOf, ShopsOf
<1>2. line = [shop             |-> s,
              quantity         |-> c.lines[l].quantity,
              price            |-> c.lines[l].price,
              sellerDiscount   |-> SellerDiscounts(c, s)[key],
              platformDiscount |-> platform[key]]
  BY <1>1 DEF Frozen
<1>3. Merchandise(line) = Merchandises(c, s)[key]
  BY <1>1, <1>2 DEF Merchandise, Merchandises
<1>4. /\ Merchandises(c, s)[key] \in Nat
      /\ SellerDiscounts(c, s)[key] \in Nat
      /\ AmountsOn(Discounted(c, s), DOMAIN Discounted(c, s))
      /\ DOMAIN Discounted(c, s) = LinesOf(c, s)
      /\ Whole(Discounted(c, s)) = Sales(c)[<<Shipping, s>>]
  BY <1>1, ShopLines, CheckoutKeys DEF AmountsOn
<1>5. platform \in [LinesOf(c, s) -> Nat]
  <2>1. /\ global \in Nat /\ global <= Whole(Discounted(c, s))
        /\ Sales(c)[<<Shipping, s>>] \in Nat
    BY <1>1, <1>4, GlobalAllocation, ShopLines
  <2>2. Keys(DOMAIN Discounted(c, s))
    BY <1>4, CheckoutKeys
  <2> HIDE DEF global, s
  <2>3. Allocatable(global, Discounted(c, s))
    BY <1>4, <2>1 DEF Allocatable
  <2>4. QED
    BY <1>4, <2>1, <2>2, <2>3, Allocation
<1>6. Discounted(c, s)[key] = Merchandises(c, s)[key] - SellerDiscounts(c, s)[key]
  BY <1>1 DEF Discounted
<1> HIDE DEF line, platform, s
<1>7. QED
  BY <1>1, <1>2, <1>3, <1>4, <1>5, <1>6 DEF s, line

LEMMA FrozenIsOrder ==
  ASSUME NEW c, WellFormed(c), Freezable(c)
  PROVE  FrozenOrder(Frozen(c))
<1> DEFINE order == Frozen(c)
           shops == DOMAIN c.discount
           sales == Sales(c)
           wrap  == AllocateMinorUnits(c.wrap, sales)
           base  == Whole(sales) - c.coupon
<1>1. /\ DOMAIN order.fees = shops /\ DOMAIN order.lines = DOMAIN c.lines
      /\ DOMAIN order.shipping = shops /\ DOMAIN order.wrap = shops
      /\ order.shipping = c.shipping
      /\ \A s \in shops : /\ order.wrap[s] = wrap[<<Shipping, s>>]
                          /\ order.fees[s] = FeesOf(c, s)
      /\ order.commission = RateFee(base, c.rates.commission)
  BY DEF Frozen, WellFormed
<1>2. /\ IsFiniteSet(shops) /\ shops \subseteq Int
      /\ IsFiniteSet(DOMAIN c.lines) /\ DOMAIN c.lines \subseteq Int
      /\ \A s \in shops : c.shipping[s] \in Nat
      /\ \A l \in DOMAIN c.lines : c.lines[l].shop \in shops /\ c.lines[l].quantity \in Nat \ {0}
      /\ c.coupon \in Nat /\ c.affiliateDiscount \in Nat /\ IsRate(c.rates.commission)
  BY DEF WellFormed
<1>3. /\ AmountsOn(sales, ShopsOf(c)) /\ DOMAIN sales = ShopsOf(c)
      /\ GlobalDiscount(c) <= Whole(sales)
      /\ \A p \in ShopsOf(c) : wrap[p] \in Nat
  BY GlobalAllocation
<1>4. base \in Nat
  <2>1. Whole(sales) \in Nat
    BY <1>3, TotalNat DEF Whole
  <2>2. QED
    BY <1>2, <1>3, <2>1 DEF GlobalDiscount
<1>5. ASSUME NEW s \in shops
      PROVE  /\ order.shipping[s] \in Nat /\ order.wrap[s] \in Nat
             /\ DOMAIN order.fees[s] = 1..4
             /\ \A k \in 1..4 : order.fees[s][k] \in Nat
  <2>1. <<Shipping, s>> \in ShopsOf(c)
    BY DEF ShopsOf
  <2>2. DOMAIN FeesOf(c, s) = 1..4 /\ \A k \in 1..4 : FeesOf(c, s)[k] \in Nat
    BY FeesOfShop
  <2> HIDE DEF order, sales, wrap, base, shops
  <2>3. QED
    BY <1>1, <1>2, <1>3, <2>1, <2>2
<1>6. ASSUME NEW l \in DOMAIN c.lines
      PROVE  /\ order.lines[l].shop \in shops
             /\ order.lines[l].quantity \in Nat \ {0}
             /\ Merchandise(order.lines[l]) \in Nat
             /\ order.lines[l].sellerDiscount \in Nat
             /\ order.lines[l].platformDiscount \in Nat
  BY <1>2, LineDiscounts
<1>7. order.commission \in Nat
  BY <1>1, <1>2, <1>4, RateFeeNat
<1>8. ASSUME order.commission > 0
      PROVE  \E l \in DOMAIN c.lines :
                order.lines[l].sellerDiscount < Merchandise(order.lines[l])
  <2>1. base # 0
    BY <1>1, <1>2, <1>4, <1>8, RateFeeNat
  <2>2. Whole(sales) # 0
    BY <1>2, <1>4, <2>1
  <2>3. PICK p \in ShopsOf(c) : sales[p] # 0
    BY <1>3, <2>2, TotalZero DEF Whole
  <2>4. PICK s \in shops : p = <<Shipping, s>>
    BY DEF ShopsOf
  <2>5. /\ Discounted(c, s) \in [LinesOf(c, s) -> Nat]
        /\ Whole(Discounted(c, s)) # 0
    BY <2>3, <2>4, ShopLines
  <2>6. PICK q \in LinesOf(c, s) : Discounted(c, s)[q] # 0
    BY <2>5, TotalZero DEF Whole
  <2>7. PICK l \in DOMAIN c.lines : q = <<Item, l>> /\ c.lines[l].shop = s
    BY DEF LinesOf
  <2>8. Discounted(c, s)[q] \in Nat
    BY <2>5
  <2>9. /\ Discounted(c, s)[q] = Merchandise(order.lines[l]) - order.lines[l].sellerDiscount
        /\ Merchandise(order.lines[l]) \in Nat /\ order.lines[l].sellerDiscount \in Nat
    BY <2>7, LineDiscounts
  <2>10. order.lines[l].sellerDiscount < Merchandise(order.lines[l])
    BY <2>6, <2>8, <2>9
  <2>11. QED
    BY <2>10
<1> HIDE DEF order, sales, wrap, base, shops
<1>9. QED
  BY <1>1, <1>2, <1>5, <1>6, <1>7, <1>8 DEF FrozenOrder, order

-----------------------------------------------------------------------------
(* The quote *)

PartFields == {"shop", "quantity", "customer", "funding", "gross", "fee", "net", "fees"}

\* A part, and a part of which the fees after the k-th were not taken yet.
GoodPart(part) ==
  /\ DOMAIN part = PartFields
  /\ part.quantity \in Nat \ {0}
  /\ part.customer \in Nat /\ part.funding \in Nat /\ part.gross \in Nat
  /\ part.fee \in Nat /\ part.net \in Nat /\ part.fees \in [1..4 -> Nat]
  /\ part.gross = part.customer + part.funding
  /\ part.gross = part.fee + part.net
  /\ part.fee = part.fees[1] + part.fees[2] + part.fees[3] + part.fees[4]

PartUpTo(part, k) ==
  /\ GoodPart(part)
  /\ \A j \in 1..4 : j > k => part.fees[j] = 0

\* What a shop's fees after the k-th amount to.
Due(fees, k) ==
  (IF k < 1 THEN fees[1] ELSE 0) + (IF k < 2 THEN fees[2] ELSE 0)
    + (IF k < 3 THEN fees[3] ELSE 0) + (IF k < 4 THEN fees[4] ELSE 0)

\* What is left of a shop's parts.
Nets(order, parts, s) == [p \in PartsOfShop(order, s) |-> parts[p].net]

\* The invariant of the loop over fee codes: what is left of a shop's parts
\* covers the fees that are still due.
Drafted(order, parts, k) ==
  /\ DOMAIN parts = PartsOf(order)
  /\ \A p \in PartsOf(order) :
        /\ PartUpTo(parts[p], k)
        /\ parts[p].gross = Gross(order, p)
        /\ p[1] = Shipping => parts[p].quantity = 1 /\ parts[p].customer > 0
  /\ \A s \in DOMAIN order.fees :
        Due(order.fees[s], k) <= Whole(Nets(order, parts, s))

\* The keys of an order's parts, and what they are worth.
LEMMA OrderParts ==
  ASSUME NEW order, FrozenOrder(order), Quotable(order)
  PROVE  /\ IsFiniteSet(PartsOf(order)) /\ Keys(PartsOf(order))
         /\ \A p \in PartsOf(order) :
               /\ p[1] \in 1..3
               /\ ShopOf(order, p) \in DOMAIN order.fees
               /\ Customer(order, p) \in Nat /\ Funding(order, p) \in Nat
               /\ p[1] = Item => order.lines[p[2]].quantity \in Nat \ {0}
               /\ p[1] = Shipping => Customer(order, p) > 0
<1> DEFINE shops  == DOMAIN order.fees
           lines  == DOMAIN order.lines
           items  == {<<Item, l>> : l \in lines}
           ships  == {<<Shipping, s>> : s \in {t \in shops : order.shipping[t] > 0}}
           wraps  == {<<GiftWrap, s>> : s \in {t \in shops : order.wrap[t] > 0}}
<1>1. /\ IsFiniteSet(shops) /\ shops \subseteq Int
      /\ IsFiniteSet(lines) /\ lines \subseteq Int
      /\ DOMAIN order.shipping = shops /\ DOMAIN order.wrap = shops
  BY DEF FrozenOrder
<1>2. PartsOf(order) = items \cup ships \cup wraps
  BY <1>1 DEF PartsOf
<1>3. ASSUME NEW S, S \subseteq shops \/ S \subseteq lines, NEW kind
      PROVE  IsFiniteSet({<<kind, s>> : s \in S})
  <2> DEFINE f == [s \in S |-> <<kind, s>>]
  <2>1. f \in Surjection(S, {<<kind, s>> : s \in S})
    BY DEF Surjection
  <2>2. IsFiniteSet(S)
    BY <1>1, <1>3, FS_Subset
  <2>3. QED
    BY <2>1, <2>2, FS_Surjection
<1>4. IsFiniteSet(items) /\ IsFiniteSet(ships) /\ IsFiniteSet(wraps)
  <2>1. IsFiniteSet(items)
    BY <1>3
  <2>2. {t \in shops : order.shipping[t] > 0} \subseteq shops
    OBVIOUS
  <2>3. {t \in shops : order.wrap[t] > 0} \subseteq shops
    OBVIOUS
  <2>4. IsFiniteSet(ships)
    BY <1>3, <2>2
  <2>5. IsFiniteSet(wraps)
    BY <1>3, <2>3
  <2>6. QED
    BY <2>1, <2>4, <2>5
<1>5. IsFiniteSet(PartsOf(order))
  <2>1. IsFiniteSet(items \cup ships)
    BY <1>4, FS_Union
  <2>2. IsFiniteSet((items \cup ships) \cup wraps)
    BY <1>4, <2>1, FS_Union
  <2> HIDE DEF items, ships, wraps
  <2>3. QED
    BY <1>2, <2>2
<1>6. Keys(PartsOf(order))
  BY <1>1, <1>2 DEF Keys, Item, Shipping, GiftWrap
<1>7. ASSUME NEW p \in PartsOf(order)
      PROVE  /\ p[1] \in 1..3
             /\ ShopOf(order, p) \in shops
             /\ Customer(order, p) \in Nat /\ Funding(order, p) \in Nat
             /\ p[1] = Item => order.lines[p[2]].quantity \in Nat \ {0}
             /\ p[1] = Shipping => Customer(order, p) > 0
  <2>1. CASE p \in items
    <3>1. PICK l \in lines : p = <<Item, l>>
      BY <2>1
    <3>2. p[1] = Item /\ p[2] = l /\ Item = 2 /\ Shipping = 3
      BY <3>1 DEF Item, Shipping
    <3> DEFINE line == order.lines[l]
    <3>3. /\ line.shop \in shops /\ line.quantity \in Nat \ {0} /\ Merchandise(line) \in Nat
          /\ line.sellerDiscount \in Nat /\ line.platformDiscount \in Nat
      BY DEF FrozenOrder
    <3>4. line.sellerDiscount + line.platformDiscount <= Merchandise(line)
      BY DEF Quotable
    <3>5. ShopOf(order, p) = line.shop /\ Funding(order, p) = line.platformDiscount
      BY <3>2 DEF ShopOf, Funding
    <3>6. Customer(order, p) = Merchandise(line) - line.sellerDiscount - line.platformDiscount
      BY <3>2 DEF Customer, GiftWrap
    <3> HIDE DEF line
    <3>7. Merchandise(line) - line.sellerDiscount - line.platformDiscount \in Nat
      BY <3>3, <3>4
    <3>8. QED
      BY <3>2, <3>3, <3>5, <3>6, <3>7 DEF line
  <2>2. CASE p \in ships
    <3>1. PICK s \in shops : p = <<Shipping, s>> /\ order.shipping[s] > 0
      BY <2>2
    <3>2. p[1] = Shipping /\ p[2] = s /\ Item = 2 /\ Shipping = 3
      BY <3>1 DEF Item, Shipping
    <3>3. order.shipping[s] \in Nat
      BY DEF FrozenOrder
    <3>4. ShopOf(order, p) = s /\ Funding(order, p) = 0
      BY <3>2 DEF ShopOf, Funding
    <3>5. Customer(order, p) = order.shipping[s]
      BY <3>2 DEF Customer, GiftWrap
    <3>6. QED
      BY <3>1, <3>2, <3>3, <3>4, <3>5
  <2>3. CASE p \in wraps
    <3>1. PICK s \in shops : p = <<GiftWrap, s>>
      BY <2>3
    <3>2. p[1] = GiftWrap /\ p[2] = s /\ Item = 2 /\ Shipping = 3 /\ GiftWrap = 1
      BY <3>1 DEF Item, Shipping, GiftWrap
    <3>3. order.wrap[s] \in Nat
      BY DEF FrozenOrder
    <3>4. ShopOf(order, p) = s /\ Funding(order, p) = 0
      BY <3>2 DEF ShopOf, Funding
    <3>5. Customer(order, p) = order.wrap[s]
      BY <3>2 DEF Customer, GiftWrap
    <3>6. QED
      BY <3>1, <3>2, <3>3, <3>4, <3>5
  <2>4. QED
    BY <1>2, <2>1, <2>2, <2>3
<1>8. QED
  BY <1>5, <1>6, <1>7

\* Before any fee is taken.
LEMMA PartedDrafted ==
  ASSUME NEW order, FrozenOrder(order), Quotable(order)
  PROVE  Drafted(order, Parted(order), 0)
<1> DEFINE parts == Parted(order)
<1>1. DOMAIN parts = PartsOf(order)
  BY DEF Parted
<1>2. ASSUME NEW p \in PartsOf(order)
      PROVE  /\ PartUpTo(parts[p], 0)
             /\ parts[p].gross = Gross(order, p) /\ parts[p].net = Gross(order, p)
             /\ p[1] = Shipping => parts[p].quantity = 1 /\ parts[p].customer > 0
  <2> DEFINE quantity == IF p[1] = Item THEN order.lines[p[2]].quantity ELSE 1
             customer == Customer(order, p)
             funding  == Funding(order, p)
             shop     == ShopOf(order, p)
  <2>1. parts[p] = [shop     |-> shop,
                    quantity |-> quantity,
                    customer |-> customer,
                    funding  |-> funding,
                    gross    |-> customer + funding,
                    fee      |-> 0,
                    net      |-> customer + funding,
                    fees     |-> [k \in DOMAIN FeeCodes |-> 0]]
    BY DEF Parted, Gross
  <2>2. DOMAIN FeeCodes = 1..4
    BY DEF FeeCodes
  <2>3. /\ quantity \in Nat \ {0} /\ customer \in Nat /\ funding \in Nat
        /\ p[1] = Shipping => quantity = 1 /\ customer > 0
    BY OrderParts DEF Item, Shipping
  <2>4. Gross(order, p) = customer + funding
    BY DEF Gross
  <2> HIDE DEF quantity, customer, funding, shop, parts
  <2>5. [k \in 1..4 |-> 0] \in [1..4 -> Nat]
    OBVIOUS
  <2>6. DOMAIN parts[p] = PartFields
    BY <2>1 DEF PartFields
  <2>7. QED
    BY <2>1, <2>2, <2>3, <2>4, <2>5, <2>6 DEF PartUpTo, GoodPart
<1>3. ASSUME NEW s \in DOMAIN order.fees
      PROVE  Due(order.fees[s], 0) <= Whole(Nets(order, parts, s))
  <2> DEFINE f == order.fees[s]
  <2>1. DOMAIN f = 1..4 /\ \A k \in 1..4 : f[k] \in Nat
    BY DEF FrozenOrder
  <2>2. Whole(f) = f[1] + f[2] + f[3] + f[4]
    BY <2>1, TotalFour DEF Whole
  <2>3. Due(f, 0) = f[1] + f[2] + f[3] + f[4]
    BY DEF Due
  <2>4. Whole(f) <= Whole(Proceeds(order, s))
    BY DEF Quotable
  <2>5. Nets(order, parts, s) = Proceeds(order, s)
    BY <1>2 DEF Nets, Proceeds, PartsOfShop
  <2>6. QED
    BY <2>2, <2>3, <2>4, <2>5
<1> HIDE DEF parts
<1>4. QED
  BY <1>1, <1>2, <1>3 DEF Drafted, parts

\* The fees still due of one code fewer.
LEMMA DueNext ==
  ASSUME NEW fees, \A j \in 1..4 : fees[j] \in Nat, NEW k \in 1..4
  PROVE  /\ Due(fees, k) \in Nat
         /\ Due(fees, k - 1) = fees[k] + Due(fees, k)
<1>1. fees[1] \in Nat /\ fees[2] \in Nat /\ fees[3] \in Nat /\ fees[4] \in Nat
  OBVIOUS
<1>2. k = 1 \/ k = 2 \/ k = 3 \/ k = 4
  OBVIOUS
<1>3. QED
  BY <1>1, <1>2 DEF Due

\* Taking one more fee from a part.
WithFee(part, k, amount) ==
  [part EXCEPT !.fee = @ + amount, !.net = @ - amount, !.fees[k] = amount]

LEMMA PartCharged ==
  ASSUME NEW k \in 1..4, NEW part, PartUpTo(part, k - 1),
         NEW amount \in Nat, amount <= part.net
  PROVE  LET after == WithFee(part, k, amount)
         IN  /\ PartUpTo(after, k)
             /\ after.net = part.net - amount
             /\ after.gross = part.gross /\ after.customer = part.customer
             /\ after.quantity = part.quantity
<1> DEFINE after == WithFee(part, k, amount)
           fees  == [part.fees EXCEPT ![k] = amount]
<1>1. /\ DOMAIN part = PartFields
      /\ part.quantity \in Nat \ {0} /\ part.customer \in Nat /\ part.funding \in Nat
      /\ part.fees \in [1..4 -> Nat] /\ part.fee \in Nat /\ part.net \in Nat /\ part.gross \in Nat
  BY DEF PartUpTo, GoodPart
<1>2. /\ DOMAIN after = PartFields
      /\ after.fee = part.fee + amount /\ after.net = part.net - amount /\ after.fees = fees
      /\ after.quantity = part.quantity /\ after.customer = part.customer
      /\ after.funding = part.funding /\ after.gross = part.gross
  BY <1>1 DEF PartFields, WithFee
<1>3. /\ fees \in [1..4 -> Nat] /\ fees[k] = amount
      /\ \A j \in 1..4 : j # k => fees[j] = part.fees[j]
  BY <1>1
<1>4. part.fees[k] = 0 /\ \A j \in 1..4 : j > k => part.fees[j] = 0
  BY <1>1 DEF PartUpTo
<1> HIDE DEF after, fees
<1>5. part.net - amount \in Nat /\ part.fee + amount \in Nat
  BY <1>1
<1>6. fees[1] + fees[2] + fees[3] + fees[4]
        = part.fees[1] + part.fees[2] + part.fees[3] + part.fees[4] + amount
  <2>1. k = 1 \/ k = 2 \/ k = 3 \/ k = 4
    OBVIOUS
  <2>2. /\ part.fees[1] \in Nat /\ part.fees[2] \in Nat
        /\ part.fees[3] \in Nat /\ part.fees[4] \in Nat
    BY <1>1
  <2>3. QED
    BY <1>3, <1>4, <2>1, <2>2
<1>7. after.fee = after.fees[1] + after.fees[2] + after.fees[3] + after.fees[4]
  <2>1. part.fee = part.fees[1] + part.fees[2] + part.fees[3] + part.fees[4]
    BY DEF PartUpTo, GoodPart
  <2>2. QED
    BY <1>2, <1>6, <2>1
<1>8. after.gross = after.customer + after.funding /\ after.gross = after.fee + after.net
  <2>1. part.gross = part.customer + part.funding /\ part.gross = part.fee + part.net
    BY DEF PartUpTo, GoodPart
  <2>2. QED
    BY <1>1, <1>2, <2>1
<1>9. \A j \in 1..4 : j > k => after.fees[j] = 0
  BY <1>2, <1>3, <1>4
<1>10. PartUpTo(after, k)
  BY <1>1, <1>2, <1>3, <1>5, <1>7, <1>8, <1>9 DEF PartUpTo, GoodPart
<1>11. QED
  BY <1>2, <1>10 DEF after

\* The step of the loop: the fee of the k-th code fits into what is left.
LEMMA ChargedDrafted ==
  ASSUME NEW order, FrozenOrder(order), Quotable(order),
         NEW k \in 1..4, NEW parts, Drafted(order, parts, k - 1)
  PROVE  Drafted(order, Charged(order, parts, k), k)
<1> DEFINE shops     == DOMAIN order.fees
           left(s)   == Nets(order, parts, s)
           charge    == [s \in shops |-> AllocateMinorUnits(order.fees[s][k], left(s))]
           amount(p) == charge[ShopOf(order, p)][p]
           after     == Charged(order, parts, k)
<1>1. after = [p \in DOMAIN parts |-> [parts[p] EXCEPT !.fee = @ + amount(p),
                                                       !.net = @ - amount(p),
                                                       !.fees[k] = amount(p)]]
  BY DEF Charged, Nets
<1>2. DOMAIN parts = PartsOf(order)
  BY DEF Drafted
<1>3. ASSUME NEW p \in PartsOf(order)
      PROVE  PartUpTo(parts[p], k - 1) /\ parts[p].net \in Nat
  BY DEF Drafted, PartUpTo, GoodPart
<1>4. ASSUME NEW s \in shops
      PROVE  /\ order.fees[s][k] \in Nat /\ Due(order.fees[s], k) \in Nat
             /\ order.fees[s][k] + Due(order.fees[s], k) <= Whole(left(s))
             /\ AmountsOn(left(s), PartsOfShop(order, s))
             /\ DOMAIN left(s) = PartsOfShop(order, s)
             /\ charge[s] \in [PartsOfShop(order, s) -> Nat]
             /\ Whole(charge[s]) = order.fees[s][k]
             /\ \A p \in PartsOfShop(order, s) : charge[s][p] <= left(s)[p]
  <2> DEFINE P == PartsOfShop(order, s)
             fee == order.fees[s][k]
  <2>1. \A j \in 1..4 : order.fees[s][j] \in Nat
    BY DEF FrozenOrder
  <2>2. /\ fee \in Nat /\ Due(order.fees[s], k) \in Nat
        /\ fee + Due(order.fees[s], k) <= Whole(left(s))
    BY <2>1, DueNext DEF Drafted
  <2>3. P \subseteq PartsOf(order) /\ IsFiniteSet(P) /\ Keys(P)
    <3>1. P \subseteq PartsOf(order)
      BY DEF PartsOfShop
    <3>2. QED
      BY <3>1, OrderParts, FS_Subset DEF Keys
  <2>4. DOMAIN left(s) = P /\ \A p \in P : left(s)[p] = parts[p].net
    BY DEF Nets
  <2>5. AmountsOn(left(s), P)
    BY <1>3, <2>3, <2>4 DEF AmountsOn
  <2>6. charge[s] = AllocateMinorUnits(fee, left(s))
    OBVIOUS
  <2> HIDE DEF left, fee, P, charge
  <2>7. Whole(left(s)) \in Nat
    BY <2>4, <2>5, TotalNat DEF Whole
  <2>8. Allocatable(fee, left(s)) /\ fee <= Whole(left(s))
    BY <2>2, <2>7 DEF Allocatable
  <2>9. /\ charge[s] \in [P -> Nat] /\ Whole(charge[s]) = fee
        /\ \A p \in P : charge[s][p] <= left(s)[p]
    BY <2>2, <2>3, <2>4, <2>5, <2>6, <2>8, Allocation
  <2>10. QED
    BY <2>2, <2>4, <2>5, <2>9 DEF P, fee
<1>5. ASSUME NEW p \in PartsOf(order)
      PROVE  amount(p) \in Nat /\ amount(p) <= parts[p].net
  <2>1. ShopOf(order, p) \in shops /\ p \in PartsOfShop(order, ShopOf(order, p))
    BY OrderParts DEF PartsOfShop
  <2>2. left(ShopOf(order, p))[p] = parts[p].net
    BY <2>1 DEF Nets
  <2> HIDE DEF charge, left
  <2>3. QED
    BY <1>4, <2>1, <2>2
<1>6. ASSUME NEW p \in PartsOf(order)
      PROVE  /\ PartUpTo(after[p], k)
             /\ after[p].net = parts[p].net - amount(p)
             /\ after[p].gross = parts[p].gross /\ after[p].customer = parts[p].customer
             /\ after[p].quantity = parts[p].quantity
  <2>1. after[p] = [parts[p] EXCEPT !.fee = @ + amount(p), !.net = @ - amount(p),
                                    !.fees[k] = amount(p)]
    BY <1>1, <1>2
  <2>2. amount(p) \in Nat /\ amount(p) <= parts[p].net /\ PartUpTo(parts[p], k - 1)
    BY <1>3, <1>5
  <2> DEFINE part == parts[p]
             due  == amount(p)
  <2>3. after[p] = WithFee(part, k, due)
    BY <2>1 DEF WithFee
  <2> HIDE DEF amount, after, part, due
  <2>4. /\ PartUpTo(after[p], k)
        /\ after[p].net = part.net - due
        /\ after[p].gross = part.gross /\ after[p].customer = part.customer
        /\ after[p].quantity = part.quantity
    <3>1. due \in Nat /\ due <= part.net /\ PartUpTo(part, k - 1)
      BY <2>2 DEF part, due
    <3>2. QED
      BY <2>3, <3>1, PartCharged
  <2>5. QED
    BY <2>4 DEF part, due
<1>7. ASSUME NEW s \in shops
      PROVE  Due(order.fees[s], k) <= Whole(Nets(order, after, s))
  <2> DEFINE P     == PartsOfShop(order, s)
             rests == Nets(order, after, s)
             taken == charge[s]
  <2>1. /\ DOMAIN rests = P /\ DOMAIN left(s) = P
        /\ \A p \in P : p \in PartsOf(order) /\ ShopOf(order, p) = s
    BY DEF Nets, PartsOfShop
  <2>2. ASSUME NEW p \in P
        PROVE  rests[p] \in Nat /\ left(s)[p] = rests[p] + taken[p]
    <3>1. rests[p] = after[p].net /\ left(s)[p] = parts[p].net /\ p \in PartsOf(order)
      BY <2>1 DEF Nets
    <3>2. amount(p) = taken[p]
      BY <2>1
    <3>3. /\ amount(p) \in Nat /\ parts[p].net \in Nat /\ amount(p) <= parts[p].net
          /\ after[p].net = parts[p].net - amount(p)
      BY <1>3, <1>5, <1>6, <3>1
    <3> HIDE DEF amount, rests, left, taken, after
    <3>4. QED
      BY <3>1, <3>2, <3>3
  <2>3. AmountsOn(left(s), P) /\ AmountsOn(rests, P) /\ AmountsOn(taken, P) /\ DOMAIN taken = P
    <3>1. taken \in [P -> Nat] /\ AmountsOn(left(s), P)
      BY <1>4
    <3> HIDE DEF taken, left, rests
    <3>2. QED
      BY <2>2, <3>1 DEF AmountsOn
  <2>4. Whole(taken) = order.fees[s][k]
    BY <1>4
  <2>5. /\ order.fees[s][k] \in Nat /\ Due(order.fees[s], k) \in Nat
        /\ order.fees[s][k] + Due(order.fees[s], k) <= Whole(left(s))
    BY <1>4
  <2> HIDE DEF rests, left, taken, P
  <2>6. Total(left(s), P) = Total(rests, P) + Total(taken, P)
    BY <2>2, <2>3, TotalAdd
  <2>7. Whole(left(s)) = Whole(rests) + Whole(taken) /\ Whole(rests) \in Nat
    BY <2>1, <2>3, <2>6, TotalNat DEF Whole
  <2>8. QED
    BY <2>4, <2>5, <2>7 DEF rests
<1>8. DOMAIN after = PartsOf(order)
  BY <1>1, <1>2
<1> HIDE DEF after, amount, charge
<1>9. ASSUME NEW p \in PartsOf(order)
      PROVE  /\ PartUpTo(after[p], k)
             /\ after[p].gross = Gross(order, p)
             /\ p[1] = Shipping => after[p].quantity = 1 /\ after[p].customer > 0
  BY <1>6 DEF Drafted
<1>10. QED
  BY <1>7, <1>8, <1>9 DEF Drafted, after

\* What every quote satisfies, whatever the checkouts: the columns of a part
\* agree, and a commission is paid for items that are worth something.
GoodQuote(q) ==
  LET parts == DOMAIN q.parts
  IN  /\ IsFiniteSet(parts) /\ Keys(parts)
      /\ \A p \in parts :
            /\ p[1] \in 1..3
            /\ GoodPart(q.parts[p])
            /\ p[1] = Shipping => q.parts[p].quantity = 1 /\ q.parts[p].customer > 0
      /\ q.commission \in Nat
      /\ q.commission > 0 => \E p \in parts : p[1] = Item /\ q.parts[p].gross > 0

\* The drafts of the loop over fee codes.
IsDraft(d, k) ==
  \E order, parts :
     /\ d = [order |-> order, parts |-> parts]
     /\ FrozenOrder(order) /\ Quotable(order) /\ Drafted(order, parts, k)

LEMMA DraftCharged ==
  ASSUME NEW k \in 1..4, NEW d, IsDraft(d, k - 1)
  PROVE  IsDraft([d EXCEPT !.parts = Charged(d.order, d.parts, k)], k)
<1>1. PICK order, parts :
         /\ d = [order |-> order, parts |-> parts]
         /\ FrozenOrder(order) /\ Quotable(order) /\ Drafted(order, parts, k - 1)
  BY DEF IsDraft
<1>2. [d EXCEPT !.parts = Charged(d.order, d.parts, k)]
         = [order |-> order, parts |-> Charged(order, parts, k)]
  BY <1>1
<1>3. Drafted(order, Charged(order, parts, k), k)
  BY <1>1, ChargedDrafted
<1>4. QED
  BY <1>1, <1>2, <1>3 DEF IsDraft

LEMMA QuoteIsGood ==
  ASSUME NEW q \in Quotes
  PROVE  GoodQuote(q)
<1> DEFINE orders == {Frozen(c) : c \in {d \in Checkouts : Freezable(d)}}
           Draft(order) == [order |-> order, parts |-> Parted(order)]
           Charge(drafts, k) ==
             {[d EXCEPT !.parts = Charged(d.order, d.parts, k)] : d \in drafts}
           D0 == {Draft(order) : order \in {o \in orders : Quotable(o)}}
           D1 == Charge(D0, 1)
           D2 == Charge(D1, 2)
           D3 == Charge(D2, 3)
           D4 == Charge(D3, 4)
<1>1. Quotes = {[parts |-> d.parts, commission |-> d.order.commission] : d \in D4}
  BY DEF Quotes, BuildQuotes
<1>2. \A d \in D0 : IsDraft(d, 0)
  <2>1. ASSUME NEW d \in D0 PROVE IsDraft(d, 0)
    <3>1. PICK order \in orders : Quotable(order) /\ d = Draft(order)
      OBVIOUS
    <3>2. FrozenOrder(order)
      BY CheckoutsAssumption, FrozenIsOrder
    <3>3. Drafted(order, Parted(order), 0)
      BY <3>1, <3>2, PartedDrafted
    <3> HIDE DEF orders
    <3>4. QED
      BY <3>1, <3>2, <3>3 DEF IsDraft
  <2>2. QED
    BY <2>1
<1>3. ASSUME NEW k \in 1..4, NEW drafts, \A d \in drafts : IsDraft(d, k - 1)
      PROVE  \A d \in Charge(drafts, k) : IsDraft(d, k)
  BY <1>3, DraftCharged
<1>4. \A d \in D4 : IsDraft(d, 4)
  <2> HIDE DEF D0, Charge
  <2>1. \A d \in D1 : IsDraft(d, 1)
    <3>1. \A d \in D0 : IsDraft(d, 1 - 1)
      BY <1>2
    <3>2. QED
      BY <1>3, <3>1
  <2>2. \A d \in D2 : IsDraft(d, 2)
    <3> HIDE DEF D1
    <3>1. \A d \in D1 : IsDraft(d, 2 - 1)
      BY <2>1
    <3>2. QED
      BY <1>3, <3>1
  <2>3. \A d \in D3 : IsDraft(d, 3)
    <3> HIDE DEF D2
    <3>1. \A d \in D2 : IsDraft(d, 3 - 1)
      BY <2>2
    <3>2. QED
      BY <1>3, <3>1
  <2>4. QED
    <3> HIDE DEF D3
    <3>1. \A d \in D3 : IsDraft(d, 4 - 1)
      BY <2>3
    <3>2. QED
      BY <1>3, <3>1
<1> HIDE DEF D4
<1>5. PICK d \in D4 : q = [parts |-> d.parts, commission |-> d.order.commission]
  BY <1>1
<1>6. PICK order, parts :
         /\ d = [order |-> order, parts |-> parts]
         /\ FrozenOrder(order) /\ Quotable(order) /\ Drafted(order, parts, 4)
  BY <1>4 DEF IsDraft
<1>7. q.parts = parts /\ q.commission = order.commission
  BY <1>5, <1>6
<1>8. DOMAIN parts = PartsOf(order) /\ IsFiniteSet(PartsOf(order)) /\ Keys(PartsOf(order))
  BY <1>6, OrderParts DEF Drafted
<1>9. ASSUME NEW p \in PartsOf(order)
      PROVE  /\ p[1] \in 1..3
             /\ GoodPart(parts[p])
             /\ p[1] = Shipping => parts[p].quantity = 1 /\ parts[p].customer > 0
  <2>1. p[1] \in 1..3
    BY <1>6, OrderParts
  <2>2. QED
    BY <1>6, <2>1 DEF Drafted, PartUpTo
<1>10. order.commission \in Nat
  BY <1>6 DEF FrozenOrder
<1>11. ASSUME order.commission > 0
       PROVE  \E p \in PartsOf(order) : p[1] = Item /\ parts[p].gross > 0
  <2>1. PICK l \in DOMAIN order.lines :
           order.lines[l].sellerDiscount < Merchandise(order.lines[l])
    BY <1>6, <1>11 DEF FrozenOrder
  <2> DEFINE p    == <<Item, l>>
             line == order.lines[l]
  <2>2. p \in PartsOf(order) /\ p[1] = Item /\ p[2] = l /\ Item = 2 /\ Shipping = 3
    BY DEF PartsOf, Item, Shipping
  <2>3. parts[p].gross = Gross(order, p)
    BY <1>6, <2>2 DEF Drafted
  <2>4. Funding(order, p) = line.platformDiscount
    BY <2>2 DEF Funding
  <2>5. Customer(order, p) = Merchandise(line) - line.sellerDiscount - line.platformDiscount
    BY <2>2 DEF Customer, GiftWrap
  <2>6. /\ Merchandise(line) \in Nat
        /\ line.sellerDiscount \in Nat /\ line.platformDiscount \in Nat
    BY <1>6 DEF FrozenOrder
  <2>7. line.sellerDiscount < Merchandise(line)
    BY <2>1
  <2> HIDE DEF line, p
  <2>8. Gross(order, p) > 0
    BY <2>4, <2>5, <2>6, <2>7 DEF Gross
  <2>9. QED
    BY <2>2, <2>3, <2>8
<1>12. QED
  BY <1>7, <1>8, <1>9, <1>10, <1>11 DEF GoodQuote

-----------------------------------------------------------------------------
(* Rows of parts and of plans, and their journals *)

\* The columns of a part or of a row of a plan.
GoodRow(row) ==
  /\ row.customer \in Nat /\ row.funding \in Nat /\ row.gross \in Nat
  /\ row.fee \in Nat /\ row.net \in Nat
  /\ DOMAIN row.fees = 1..4 /\ \A k \in 1..4 : row.fees[k] \in Nat

GoodRows(rows) == IsFiniteSet(DOMAIN rows) /\ \A p \in DOMAIN rows : GoodRow(rows[p])

\* Two rows add up to a third, as far as the journal knows.
RowsAdd(sum, row, more) ==
  /\ \A field \in {"customer", "funding", "net", "affiliate"} :
        sum[field] = row[field] + more[field]
  /\ \A k \in 1..4 : sum.fees[k] = row.fees[k] + more.fees[k]

GoodPlan(rows) == GoodRows(rows) /\ \A p \in DOMAIN rows : rows[p].affiliate \in Nat

\* Of four fees the last is tax, the others are revenue.
LEMMA TaxAndRevenue ==
  ASSUME NEW fees, DOMAIN fees = 1..4, \A k \in 1..4 : fees[k] \in Nat
  PROVE  /\ Tax(fees) = fees[4] /\ Tax(fees) \in Nat
         /\ Whole(fees) = fees[1] + fees[2] + fees[3] + fees[4]
         /\ Revenue(fees) = fees[1] + fees[2] + fees[3] /\ Revenue(fees) \in Nat
<1>1. {k \in DOMAIN fees : FeeCodes[k] = "VAT"} = {4}
  <2>1. /\ FeeCodes[1] # "VAT" /\ FeeCodes[2] # "VAT" /\ FeeCodes[3] # "VAT"
        /\ FeeCodes[4] = "VAT"
    BY DEF FeeCodes
  <2>2. \A k \in 1..4 : k = 1 \/ k = 2 \/ k = 3 \/ k = 4
    OBVIOUS
  <2>3. QED
    BY <2>1, <2>2
<1>2. Tax(fees) = fees[4]
  BY <1>1, TotalSingleton DEF Tax
<1>3. Whole(fees) = fees[1] + fees[2] + fees[3] + fees[4]
  BY TotalFour DEF Whole
<1>4. fees[1] \in Nat /\ fees[2] \in Nat /\ fees[3] \in Nat /\ fees[4] \in Nat
  OBVIOUS
<1>5. QED
  BY <1>2, <1>3, <1>4 DEF Revenue

\* The columns of good rows are amounts.
LEMMA ColumnAmounts ==
  ASSUME NEW rows, GoodRows(rows),
         NEW field \in {"customer", "funding", "gross", "fee", "net"}
  PROVE  /\ AmountsOn(Column(rows, field), DOMAIN rows)
         /\ DOMAIN Column(rows, field) = DOMAIN rows
         /\ Over(rows, field) = Total(Column(rows, field), DOMAIN rows)
         /\ Over(rows, field) \in Nat
<1>1. DOMAIN Column(rows, field) = DOMAIN rows
  BY DEF Column
<1>2. ASSUME NEW p \in DOMAIN rows PROVE Column(rows, field)[p] \in Nat
  <2>1. Column(rows, field)[p] = rows[p][field]
    BY DEF Column
  <2>2. GoodRow(rows[p])
    BY DEF GoodRows
  <2>3. QED
    BY <2>1, <2>2 DEF GoodRow
<1>3. AmountsOn(Column(rows, field), DOMAIN rows)
  BY <1>2 DEF AmountsOn, GoodRows
<1>4. QED
  BY <1>1, <1>3, TotalNat DEF Over, Whole

\* So are those of the taxes and revenues.
LEMMA FeeAmounts ==
  ASSUME NEW rows, GoodRows(rows)
  PROVE  LET taxes    == [p \in DOMAIN rows |-> Tax(rows[p].fees)]
             revenues == [p \in DOMAIN rows |-> Revenue(rows[p].fees)]
         IN  /\ AmountsOn(taxes, DOMAIN rows) /\ TaxOver(rows) = Total(taxes, DOMAIN rows)
             /\ AmountsOn(revenues, DOMAIN rows)
             /\ RevenueOver(rows) = Total(revenues, DOMAIN rows)
             /\ TaxOver(rows) \in Nat /\ RevenueOver(rows) \in Nat
<1> DEFINE taxes    == [p \in DOMAIN rows |-> Tax(rows[p].fees)]
           revenues == [p \in DOMAIN rows |-> Revenue(rows[p].fees)]
<1>1. ASSUME NEW p \in DOMAIN rows
      PROVE  taxes[p] \in Nat /\ revenues[p] \in Nat
  BY TaxAndRevenue DEF GoodRows, GoodRow
<1>2. TaxOver(rows) = Total(taxes, DOMAIN rows) /\ RevenueOver(rows) = Total(revenues, DOMAIN rows)
  BY DEF TaxOver, RevenueOver, Whole
<1> HIDE DEF taxes, revenues
<1>3. AmountsOn(taxes, DOMAIN rows) /\ AmountsOn(revenues, DOMAIN rows)
  BY <1>1 DEF AmountsOn, GoodRows
<1>4. TaxOver(rows) \in Nat /\ RevenueOver(rows) \in Nat
  BY <1>2, <1>3, TotalNat
<1>5. QED
  BY <1>2, <1>3, <1>4 DEF taxes, revenues

\* What rounding takes of a row, and of a plan, is what the other columns
\* leave.
LEMMA RowRounding ==
  ASSUME NEW row, GoodRow(row)
  PROVE  PlatformRounding(row)
           = (row.customer + row.funding) - (row.net + (Tax(row.fees) + Revenue(row.fees)))
<1>1. /\ row.customer \in Nat /\ row.funding \in Nat /\ row.gross \in Nat
      /\ row.fee \in Nat /\ row.net \in Nat
  BY DEF GoodRow
<1>2. /\ Whole(row.fees) = Tax(row.fees) + Revenue(row.fees)
      /\ Tax(row.fees) \in Nat /\ Revenue(row.fees) \in Nat
  <2>1. DOMAIN row.fees = 1..4 /\ \A k \in 1..4 : row.fees[k] \in Nat
    BY DEF GoodRow
  <2>2. /\ Tax(row.fees) = row.fees[4] /\ Tax(row.fees) \in Nat
        /\ Whole(row.fees) = row.fees[1] + row.fees[2] + row.fees[3] + row.fees[4]
        /\ Revenue(row.fees) = row.fees[1] + row.fees[2] + row.fees[3]
        /\ Revenue(row.fees) \in Nat
    BY <2>1, TaxAndRevenue
  <2>3. /\ row.fees[1] \in Nat /\ row.fees[2] \in Nat
        /\ row.fees[3] \in Nat /\ row.fees[4] \in Nat
    BY <2>1
  <2>4. QED
    BY <2>2, <2>3
<1>3. QED
  BY <1>1, <1>2 DEF PlatformRounding, FundingRounding, BeneficiaryRounding, FeeRounding

LEMMA PlanRounding ==
  ASSUME NEW rows, GoodRows(rows)
  PROVE  RoundingOver(rows)
           = (Over(rows, "customer") + Over(rows, "funding"))
               - (Over(rows, "net") + (TaxOver(rows) + RevenueOver(rows)))
<1> DEFINE S        == DOMAIN rows
           taxes    == [p \in S |-> Tax(rows[p].fees)]
           revenues == [p \in S |-> Revenue(rows[p].fees)]
           fees     == [p \in S |-> taxes[p] + revenues[p]]
           customer == Column(rows, "customer")
           funding  == Column(rows, "funding")
           net      == Column(rows, "net")
           paid     == [p \in S |-> customer[p] + funding[p]]
           kept     == [p \in S |-> net[p] + fees[p]]
           rounding == [p \in S |-> PlatformRounding(rows[p])]
<1>1. /\ AmountsOn(customer, S) /\ Over(rows, "customer") = Total(customer, S)
      /\ AmountsOn(funding, S) /\ Over(rows, "funding") = Total(funding, S)
      /\ AmountsOn(net, S) /\ Over(rows, "net") = Total(net, S)
  BY ColumnAmounts
<1>2. /\ AmountsOn(taxes, S) /\ TaxOver(rows) = Total(taxes, S)
      /\ AmountsOn(revenues, S) /\ RevenueOver(rows) = Total(revenues, S)
  BY FeeAmounts
<1>3. \A p \in S : rounding[p] = paid[p] - kept[p]
  <2>1. ASSUME NEW p \in S PROVE rounding[p] = paid[p] - kept[p]
    <3>1. customer[p] = rows[p].customer /\ funding[p] = rows[p].funding /\ net[p] = rows[p].net
      BY DEF Column
    <3>2. PlatformRounding(rows[p])
            = (rows[p].customer + rows[p].funding)
                - (rows[p].net + (Tax(rows[p].fees) + Revenue(rows[p].fees)))
      BY RowRounding DEF GoodRows
    <3> HIDE DEF customer, funding, net
    <3>3. paid[p] = rows[p].customer + rows[p].funding
      BY <3>1
    <3>4. kept[p] = rows[p].net + (Tax(rows[p].fees) + Revenue(rows[p].fees))
      BY <3>1
    <3>5. QED
      BY <3>2, <3>3, <3>4
  <2>2. QED
    BY <2>1
<1>4. RoundingOver(rows) = Balance(rounding)
  BY DEF RoundingOver
<1>5. DOMAIN rounding = S
  OBVIOUS
<1>6. /\ \A p \in S : fees[p] = taxes[p] + revenues[p]
      /\ \A p \in S : paid[p] = customer[p] + funding[p]
      /\ \A p \in S : kept[p] = net[p] + fees[p]
  OBVIOUS
<1> HIDE DEF taxes, revenues, fees, customer, funding, net, paid, kept, rounding
<1>7. AmountsOn(fees, S) /\ AmountsOn(paid, S)
  BY <1>1, <1>2, <1>6 DEF AmountsOn
<1>8. AmountsOn(kept, S)
  BY <1>1, <1>6, <1>7 DEF AmountsOn
<1>9. Total(paid, S) = Total(customer, S) + Total(funding, S)
  BY <1>1, <1>6, TotalAdd
<1>10. Total(fees, S) = Total(taxes, S) + Total(revenues, S)
  BY <1>2, <1>6, TotalAdd
<1>11. Total(kept, S) = Total(net, S) + Total(fees, S)
  BY <1>1, <1>6, <1>7, TotalAdd
<1>12. Balance(rounding) = Total(paid, S) - Total(kept, S)
  BY <1>3, <1>5, <1>7, <1>8, BalanceIsDifference
<1>13. QED
  BY <1>1, <1>2, <1>4, <1>9, <1>10, <1>11, <1>12

\* The total of all accounts.
LEMMA AccountTotal ==
  ASSUME NEW f, \A a \in Accounts : f[a] \in Nat
  PROVE  /\ AmountsOn(f, Accounts)
         /\ Total(f, Accounts)
              = f["CUSTOMER_FUNDS"] + f["PLATFORM_PROMOTION"] + f["SELLER_PAYABLE"]
                  + f["TAX_PAYABLE"] + f["PLATFORM_FEES"] + f["PLATFORM_ROUNDING"]
                  + f["PLATFORM_AFFILIATE_COST"] + f["AFFILIATE_PENDING"]
<1> DEFINE A1 == {"CUSTOMER_FUNDS"}
           A2 == A1 \cup {"PLATFORM_PROMOTION"}
           A3 == A2 \cup {"SELLER_PAYABLE"}
           A4 == A3 \cup {"TAX_PAYABLE"}
           A5 == A4 \cup {"PLATFORM_FEES"}
           A6 == A5 \cup {"PLATFORM_ROUNDING"}
           A7 == A6 \cup {"PLATFORM_AFFILIATE_COST"}
           A8 == A7 \cup {"AFFILIATE_PENDING"}
<1>1. A8 = Accounts
  BY DEF Accounts
<1>2. /\ f["CUSTOMER_FUNDS"] \in Nat /\ f["PLATFORM_PROMOTION"] \in Nat
      /\ f["SELLER_PAYABLE"] \in Nat /\ f["TAX_PAYABLE"] \in Nat
      /\ f["PLATFORM_FEES"] \in Nat /\ f["PLATFORM_ROUNDING"] \in Nat
      /\ f["PLATFORM_AFFILIATE_COST"] \in Nat /\ f["AFFILIATE_PENDING"] \in Nat
  BY DEF Accounts
<1>3. /\ "PLATFORM_PROMOTION" \notin A1 /\ "SELLER_PAYABLE" \notin A2 /\ "TAX_PAYABLE" \notin A3
      /\ "PLATFORM_FEES" \notin A4 /\ "PLATFORM_ROUNDING" \notin A5
      /\ "PLATFORM_AFFILIATE_COST" \notin A6 /\ "AFFILIATE_PENDING" \notin A7
  OBVIOUS
<1>4. ASSUME NEW S, AmountsOn(f, S), NEW x, x \notin S, f[x] \in Nat
      PROVE  AmountsOn(f, S \cup {x}) /\ Total(f, S \cup {x}) = Total(f, S) + f[x]
  <2>1. IsFiniteSet(S \cup {x})
    BY <1>4, FS_AddElement DEF AmountsOn
  <2>2. AmountsOn(f, S \cup {x})
    BY <1>4, <2>1 DEF AmountsOn
  <2>3. QED
    BY <1>4, <2>2, TotalInsert
<1>5. AmountsOn(f, A1) /\ Total(f, A1) = f["CUSTOMER_FUNDS"]
  BY <1>2, FS_Singleton, TotalSingleton DEF AmountsOn
<1>6. AmountsOn(f, A2) /\ Total(f, A2) = Total(f, A1) + f["PLATFORM_PROMOTION"]
  <2> HIDE DEF A1
  <2>1. QED
    BY <1>2, <1>3, <1>4, <1>5
<1>7. AmountsOn(f, A3) /\ Total(f, A3) = Total(f, A2) + f["SELLER_PAYABLE"]
  <2> HIDE DEF A2
  <2>1. QED
    BY <1>2, <1>3, <1>4, <1>6
<1>8. AmountsOn(f, A4) /\ Total(f, A4) = Total(f, A3) + f["TAX_PAYABLE"]
  <2> HIDE DEF A3
  <2>1. QED
    BY <1>2, <1>3, <1>4, <1>7
<1>9. AmountsOn(f, A5) /\ Total(f, A5) = Total(f, A4) + f["PLATFORM_FEES"]
  <2> HIDE DEF A4
  <2>1. QED
    BY <1>2, <1>3, <1>4, <1>8
<1>10. AmountsOn(f, A6) /\ Total(f, A6) = Total(f, A5) + f["PLATFORM_ROUNDING"]
  <2> HIDE DEF A5
  <2>1. QED
    BY <1>2, <1>3, <1>4, <1>9
<1>11. AmountsOn(f, A7) /\ Total(f, A7) = Total(f, A6) + f["PLATFORM_AFFILIATE_COST"]
  <2> HIDE DEF A6
  <2>1. QED
    BY <1>2, <1>3, <1>4, <1>10
<1>12. AmountsOn(f, A8) /\ Total(f, A8) = Total(f, A7) + f["AFFILIATE_PENDING"]
  <2> HIDE DEF A7
  <2>1. QED
    BY <1>2, <1>3, <1>4, <1>11
<1> HIDE DEF A1, A2, A3, A4, A5, A6, A7, A8
<1>13. QED
  BY <1>1, <1>5, <1>6, <1>7, <1>8, <1>9, <1>10, <1>11, <1>12

\* What the affiliate bears of a plan.
LEMMA AffiliateAmounts ==
  ASSUME NEW rows, GoodPlan(rows)
  PROVE  /\ AmountsOn(Column(rows, "affiliate"), DOMAIN rows)
         /\ Over(rows, "affiliate") = Total(Column(rows, "affiliate"), DOMAIN rows)
         /\ Over(rows, "affiliate") \in Nat
<1>1. AmountsOn(Column(rows, "affiliate"), DOMAIN rows)
  BY DEF Column, AmountsOn, GoodPlan, GoodRows
<1>2. Over(rows, "affiliate") = Total(Column(rows, "affiliate"), DOMAIN rows)
  BY DEF Over, Whole, Column
<1>3. QED
  BY <1>1, <1>2, TotalNat

\* What the accounts leave is their sum.
LEMMA AccountBalance ==
  ASSUME NEW e, DOMAIN e = Accounts, \A a \in Accounts : e[a] \in Int
  PROVE  Balance(e)
           = e["CUSTOMER_FUNDS"] + e["PLATFORM_PROMOTION"] + e["SELLER_PAYABLE"]
               + e["TAX_PAYABLE"] + e["PLATFORM_FEES"] + e["PLATFORM_ROUNDING"]
               + e["PLATFORM_AFFILIATE_COST"] + e["AFFILIATE_PENDING"]
<1> DEFINE f == [a \in Accounts |-> PositivePart(e[a])]
           g == [a \in Accounts |-> PositivePart(-e[a])]
<1>1. \A a \in Accounts : f[a] \in Nat /\ g[a] \in Nat /\ e[a] = f[a] - g[a]
  BY DEF PositivePart
<1>2. Balance(e) = Total(f, Accounts) - Total(g, Accounts)
  BY DEF Balance, Whole
<1> HIDE DEF f, g
<1>3. /\ Total(f, Accounts)
           = f["CUSTOMER_FUNDS"] + f["PLATFORM_PROMOTION"] + f["SELLER_PAYABLE"]
               + f["TAX_PAYABLE"] + f["PLATFORM_FEES"] + f["PLATFORM_ROUNDING"]
               + f["PLATFORM_AFFILIATE_COST"] + f["AFFILIATE_PENDING"]
      /\ Total(g, Accounts)
           = g["CUSTOMER_FUNDS"] + g["PLATFORM_PROMOTION"] + g["SELLER_PAYABLE"]
               + g["TAX_PAYABLE"] + g["PLATFORM_FEES"] + g["PLATFORM_ROUNDING"]
               + g["PLATFORM_AFFILIATE_COST"] + g["AFFILIATE_PENDING"]
  BY <1>1, AccountTotal
<1>4. QED
  BY <1>1, <1>2, <1>3 DEF Accounts

\* plannedRefundJournal balances for whatever plan, since rounding is a
\* posting of its own.
LEMMA JournalOfPlanBalances ==
  ASSUME NEW plan, GoodPlan(plan)
  PROVE  /\ Balanced(RefundJournal(plan))
         /\ Over(plan, "affiliate") \in Nat
         /\ DOMAIN RefundJournal(plan) = Accounts
         /\ \A a \in Accounts : RefundJournal(plan)[a] \in Int
<1> DEFINE customer  == Over(plan, "customer")
           funding   == Over(plan, "funding")
           net       == Over(plan, "net")
           affiliate == Over(plan, "affiliate")
           tax       == TaxOver(plan)
           revenue   == RevenueOver(plan)
           e         == RefundJournal(plan)
<1>1. customer \in Nat /\ funding \in Nat /\ net \in Nat
  BY ColumnAmounts DEF GoodPlan
<1>2. tax \in Nat /\ revenue \in Nat
  BY FeeAmounts DEF GoodPlan
<1>3. affiliate \in Nat
  BY AffiliateAmounts
<1>4. RoundingOver(plan) = (customer + funding) - (net + (tax + revenue))
  BY PlanRounding DEF GoodPlan
<1>5. /\ DOMAIN e = Accounts
      /\ e["CUSTOMER_FUNDS"] = -customer /\ e["PLATFORM_PROMOTION"] = -funding
      /\ e["SELLER_PAYABLE"] = net /\ e["TAX_PAYABLE"] = tax /\ e["PLATFORM_FEES"] = revenue
      /\ e["PLATFORM_ROUNDING"] = (customer + funding) - (net + (tax + revenue))
      /\ e["PLATFORM_AFFILIATE_COST"] = -affiliate /\ e["AFFILIATE_PENDING"] = affiliate
  BY <1>4 DEF RefundJournal, Accounts
<1> HIDE DEF customer, funding, net, affiliate, tax, revenue, e
<1>6. \A a \in Accounts : e[a] \in Int
  BY <1>1, <1>2, <1>3, <1>5 DEF Accounts
<1>7. Balance(e) = 0
  BY <1>1, <1>2, <1>3, <1>5, <1>6, AccountBalance
<1>8. QED
  BY <1>3, <1>5, <1>6, <1>7 DEF Balanced, e, affiliate

\* Plans that add up to one plan have journals that do.
LEMMA JournalsAdd ==
  ASSUME NEW rows, NEW plan, NEW sum, GoodPlan(rows), GoodPlan(plan), GoodPlan(sum),
         DOMAIN sum = DOMAIN rows, DOMAIN plan \subseteq DOMAIN rows,
         \A p \in DOMAIN rows :
            IF p \in DOMAIN plan THEN RowsAdd(sum[p], rows[p], plan[p]) ELSE sum[p] = rows[p]
  PROVE  /\ Over(sum, "affiliate") = Over(rows, "affiliate") + Over(plan, "affiliate")
         /\ \A a \in Accounts :
               RefundJournal(sum)[a] = RefundJournal(rows)[a] + RefundJournal(plan)[a]
<1> DEFINE S == DOMAIN rows
           T == DOMAIN plan
<1>1. ASSUME NEW field \in {"customer", "funding", "net", "affiliate"}
      PROVE  Over(sum, field) = Over(rows, field) + Over(plan, field)
  <2> DEFINE f == Column(rows, field)
             g == Column(plan, field)
             h == Column(sum, field)
  <2>1. /\ AmountsOn(f, S) /\ Over(rows, field) = Total(f, S)
        /\ AmountsOn(g, T) /\ Over(plan, field) = Total(g, T)
        /\ AmountsOn(h, S) /\ Over(sum, field) = Total(h, S)
    BY ColumnAmounts, AffiliateAmounts DEF GoodPlan
  <2>2. \A p \in S : h[p] = f[p] + IF p \in T THEN g[p] ELSE 0
    <3>1. ASSUME NEW p \in S PROVE h[p] = f[p] + IF p \in T THEN g[p] ELSE 0
      <4>1. f[p] = rows[p][field] /\ h[p] = sum[p][field]
        BY DEF Column
      <4>2. p \in T => g[p] = plan[p][field]
        BY DEF Column
      <4>3. f[p] \in Nat
        BY <2>1 DEF AmountsOn
      <4> HIDE DEF f, g, h
      <4>4. CASE p \in T
        BY <4>1, <4>2, <4>4 DEF RowsAdd
      <4>5. CASE p \notin T
        BY <4>1, <4>3, <4>5
      <4>6. QED
        BY <4>4, <4>5
    <3>2. QED
      BY <3>1
  <2>3. T \in SUBSET S
    OBVIOUS
  <2> HIDE DEF f, g, h, S, T
  <2>4. QED
    BY <2>1, <2>2, <2>3, TotalGrows
<1>2. /\ TaxOver(sum) = TaxOver(rows) + TaxOver(plan)
      /\ RevenueOver(sum) = RevenueOver(rows) + RevenueOver(plan)
  <2> DEFINE taxes(t)    == [p \in DOMAIN t |-> Tax(t[p].fees)]
             revenues(t) == [p \in DOMAIN t |-> Revenue(t[p].fees)]
  <2>1. /\ AmountsOn(taxes(rows), S) /\ TaxOver(rows) = Total(taxes(rows), S)
        /\ AmountsOn(taxes(plan), T) /\ TaxOver(plan) = Total(taxes(plan), T)
        /\ AmountsOn(taxes(sum), S) /\ TaxOver(sum) = Total(taxes(sum), S)
        /\ AmountsOn(revenues(rows), S) /\ RevenueOver(rows) = Total(revenues(rows), S)
        /\ AmountsOn(revenues(plan), T) /\ RevenueOver(plan) = Total(revenues(plan), T)
        /\ AmountsOn(revenues(sum), S) /\ RevenueOver(sum) = Total(revenues(sum), S)
    BY FeeAmounts DEF GoodPlan
  <2>2. ASSUME NEW p \in S
        PROVE  /\ taxes(sum)[p] = taxes(rows)[p] + IF p \in T THEN taxes(plan)[p] ELSE 0
               /\ revenues(sum)[p]
                    = revenues(rows)[p] + IF p \in T THEN revenues(plan)[p] ELSE 0
    <3>1. /\ taxes(rows)[p] = Tax(rows[p].fees) /\ revenues(rows)[p] = Revenue(rows[p].fees)
          /\ taxes(sum)[p] = Tax(sum[p].fees) /\ revenues(sum)[p] = Revenue(sum[p].fees)
          /\ p \in T => /\ taxes(plan)[p] = Tax(plan[p].fees)
                        /\ revenues(plan)[p] = Revenue(plan[p].fees)
      OBVIOUS
    <3>2. taxes(rows)[p] \in Nat /\ revenues(rows)[p] \in Nat
      BY <2>1 DEF AmountsOn
    <3> HIDE DEF taxes, revenues
    <3>3. CASE p \notin T
      BY <3>1, <3>2, <3>3
    <3>4. CASE p \in T
      <4> DEFINE f == rows[p].fees
                 g == plan[p].fees
                 h == sum[p].fees
      <4>1. /\ DOMAIN f = 1..4 /\ \A k \in 1..4 : f[k] \in Nat
            /\ DOMAIN g = 1..4 /\ \A k \in 1..4 : g[k] \in Nat
            /\ DOMAIN h = 1..4 /\ \A k \in 1..4 : h[k] \in Nat
        BY <3>4 DEF GoodPlan, GoodRows, GoodRow
      <4>2. \A k \in 1..4 : h[k] = f[k] + g[k]
        BY <3>4 DEF RowsAdd
      <4> HIDE DEF f, g, h
      <4>3. /\ Tax(f) = f[4] /\ Revenue(f) = f[1] + f[2] + f[3]
            /\ Tax(g) = g[4] /\ Revenue(g) = g[1] + g[2] + g[3]
            /\ Tax(h) = h[4] /\ Revenue(h) = h[1] + h[2] + h[3]
        BY <4>1, TaxAndRevenue
      <4>4. Tax(h) = Tax(f) + Tax(g) /\ Revenue(h) = Revenue(f) + Revenue(g)
        BY <4>1, <4>2, <4>3
      <4>5. QED
        BY <3>1, <3>4, <4>4 DEF f, g, h
    <3>5. QED
      BY <3>3, <3>4
  <2>3. T \in SUBSET S
    OBVIOUS
  <2> HIDE DEF taxes, revenues, S, T
  <2>4. TaxOver(sum) = TaxOver(rows) + TaxOver(plan)
    BY <2>1, <2>2, <2>3, TotalGrows
  <2>5. RevenueOver(sum) = RevenueOver(rows) + RevenueOver(plan)
    BY <2>1, <2>2, <2>3, TotalGrows
  <2>6. QED
    BY <2>4, <2>5
<1>3. ASSUME NEW r, GoodPlan(r)
      PROVE  /\ Over(r, "customer") \in Nat /\ Over(r, "funding") \in Nat /\ Over(r, "net") \in Nat
             /\ Over(r, "affiliate") \in Nat /\ TaxOver(r) \in Nat /\ RevenueOver(r) \in Nat
             /\ RoundingOver(r) = (Over(r, "customer") + Over(r, "funding"))
                                    - (Over(r, "net") + (TaxOver(r) + RevenueOver(r)))
  BY <1>3, ColumnAmounts, AffiliateAmounts, FeeAmounts, PlanRounding DEF GoodPlan
<1>4. RoundingOver(sum) = RoundingOver(rows) + RoundingOver(plan)
  BY <1>1, <1>2, <1>3
<1>5. ASSUME NEW a \in Accounts
      PROVE  RefundJournal(sum)[a] = RefundJournal(rows)[a] + RefundJournal(plan)[a]
  BY <1>1, <1>2, <1>3, <1>4 DEF RefundJournal, Accounts
<1>6. QED
  BY <1>1, <1>5

-----------------------------------------------------------------------------
(* The rows of a plan *)

\* Between is a difference of floors, so refunds of an amount telescope.
LEMMA BetweenFacts ==
  ASSUME NEW amount \in Nat, NEW all \in Nat \ {0}, NEW from \in Nat, NEW to \in Nat, from <= to
  PROVE  /\ Between(amount, all, from, to) \in Nat
         /\ Between(amount, all, 0, to) = (amount * to) \div all
         /\ Between(amount, all, 0, to)
              = Between(amount, all, 0, from) + Between(amount, all, from, to)
         /\ to <= all => Between(amount, all, 0, to) <= amount
         /\ Between(amount, all, 0, all) = amount
         /\ Between(amount, all, 0, 0) = 0
<1> DEFINE F(t) == (amount * t) \div all
<1>1. all \in Nat /\ all > 0
  OBVIOUS
<1>2. F(0) = 0 /\ F(all) = amount
  BY <1>1, FloorOfAll
<1>3. F(from) \in Nat /\ F(to) \in Nat /\ F(from) <= F(to) /\ (to <= all => F(to) <= amount)
  BY <1>1, FloorBounds
<1>4. /\ Between(amount, all, from, to) = F(to) - F(from)
      /\ Between(amount, all, 0, to) = F(to) - F(0)
      /\ Between(amount, all, 0, from) = F(from) - F(0)
      /\ Between(amount, all, 0, all) = F(all) - F(0)
      /\ Between(amount, all, 0, 0) = F(0) - F(0)
  BY DEF Between
<1>5. F(to) = (amount * to) \div all
  OBVIOUS
<1> HIDE DEF F
<1>6. QED
  BY <1>2, <1>3, <1>4, <1>5

\* Rounding a sum and its two summands differs by at most one unit.
LEMMA BetweenOfSum ==
  ASSUME NEW a \in Nat, NEW b \in Nat, NEW all \in Nat \ {0},
         NEW from \in Nat, NEW to \in Nat, from <= to
  PROVE  Between(a + b, all, from, to) - Between(a, all, from, to) - Between(b, all, from, to)
           \in -1..1
<1> DEFINE F(x, t) == (x * t) \div all
<1>1. all \in Nat /\ all > 0
  OBVIOUS
<1>2. /\ F(a + b, from) - F(a, from) - F(b, from) \in 0..1
      /\ F(a + b, to) - F(a, to) - F(b, to) \in 0..1
  BY <1>1, FloorOfSum
<1>3. /\ F(a, from) \in Nat /\ F(b, from) \in Nat /\ F(a + b, from) \in Nat
      /\ F(a, to) \in Nat /\ F(b, to) \in Nat /\ F(a + b, to) \in Nat
  BY <1>1, FloorBounds
<1>4. /\ Between(a + b, all, from, to) = F(a + b, to) - F(a + b, from)
      /\ Between(a, all, from, to) = F(a, to) - F(a, from)
      /\ Between(b, all, from, to) = F(b, to) - F(b, from)
  BY DEF Between
<1> HIDE DEF F
<1>5. QED
  BY <1>2, <1>3, <1>4

\* A row of a plan, field by field.
LEMMA PlanPartFields ==
  ASSUME NEW p, NEW affiliate, NEW all, NEW from, NEW to
  PROVE  LET row  == PlanPart(p, affiliate, all, from, to)
             part == quote.parts[p]
         IN  /\ row.quantity = to - from
             /\ row.customer = Between(part.customer, all, from, to)
             /\ row.funding = Between(part.funding, all, from, to)
             /\ row.gross = Between(part.gross, all, from, to)
             /\ row.fee = Between(part.fee, all, from, to)
             /\ row.net = Between(part.net, all, from, to)
             /\ row.affiliate = Between(affiliate, all, from, to)
             /\ row.fees = [k \in DOMAIN part.fees |-> Between(part.fees[k], all, from, to)]
BY DEF PlanPart

\* platformRounding never throws: a refund of some units is within its
\* limits, whatever was refunded before.
LEMMA PlanPartGood ==
  ASSUME NEW p, GoodPart(quote.parts[p]), NEW affiliate \in Nat, NEW all \in Nat \ {0},
         NEW from \in Nat, NEW to \in Nat, from <= to
  PROVE  LET row == PlanPart(p, affiliate, all, from, to)
         IN  GoodRow(row) /\ row.affiliate \in Nat /\ WithinRounding(row)
<1> DEFINE part == quote.parts[p]
           row  == PlanPart(p, affiliate, all, from, to)
           B(x) == Between(x, all, from, to)
<1>1. /\ part.customer \in Nat /\ part.funding \in Nat /\ part.gross \in Nat
      /\ part.fee \in Nat /\ part.net \in Nat /\ DOMAIN part.fees = 1..4
      /\ \A k \in 1..4 : part.fees[k] \in Nat
      /\ part.gross = part.customer + part.funding /\ part.gross = part.fee + part.net
      /\ part.fee = part.fees[1] + part.fees[2] + part.fees[3] + part.fees[4]
  BY DEF GoodPart
<1>2. /\ row.customer = B(part.customer) /\ row.funding = B(part.funding)
      /\ row.gross = B(part.gross) /\ row.fee = B(part.fee) /\ row.net = B(part.net)
      /\ row.affiliate = B(affiliate)
      /\ DOMAIN row.fees = 1..4 /\ \A k \in 1..4 : row.fees[k] = B(part.fees[k])
  <2>1. row.fees = [k \in DOMAIN part.fees |-> B(part.fees[k])]
    BY PlanPartFields
  <2>2. DOMAIN row.fees = 1..4 /\ \A k \in 1..4 : row.fees[k] = B(part.fees[k])
    BY <1>1, <2>1
  <2>3. /\ row.customer = B(part.customer) /\ row.funding = B(part.funding)
        /\ row.gross = B(part.gross) /\ row.fee = B(part.fee) /\ row.net = B(part.net)
        /\ row.affiliate = B(affiliate)
    BY DEF PlanPart
  <2>4. QED
    BY <2>2, <2>3
<1>3. ASSUME NEW x \in Nat PROVE B(x) \in Nat
  BY BetweenFacts
<1>4. ASSUME NEW x \in Nat, NEW y \in Nat PROVE B(x + y) - B(x) - B(y) \in -1..1
  BY BetweenOfSum
<1> HIDE DEF part, row, B
<1>5. GoodRow(row) /\ row.affiliate \in Nat
  BY <1>1, <1>2, <1>3 DEF GoodRow
<1>6. FundingRounding(row) \in -1..1
  <2>1. B(part.customer + part.funding) - B(part.customer) - B(part.funding) \in -1..1
    BY <1>1, <1>4
  <2>2. B(part.customer + part.funding) = row.gross
    BY <1>1, <1>2
  <2>3. row.gross \in Nat /\ row.customer \in Nat /\ row.funding \in Nat
    BY <1>5 DEF GoodRow
  <2>4. QED
    BY <1>2, <2>1, <2>2, <2>3 DEF FundingRounding
<1>7. BeneficiaryRounding(row) \in -1..1
  <2>1. B(part.fee + part.net) - B(part.fee) - B(part.net) \in -1..1
    BY <1>1, <1>4
  <2>2. B(part.fee + part.net) = row.gross
    BY <1>1, <1>2
  <2>3. row.gross \in Nat /\ row.fee \in Nat /\ row.net \in Nat
    BY <1>5 DEF GoodRow
  <2>4. QED
    BY <1>2, <2>1, <2>2, <2>3 DEF BeneficiaryRounding
<1>8. FeeRounding(row) \in -3..3
  <2> DEFINE f1 == part.fees[1]
             f2 == part.fees[2]
             f3 == part.fees[3]
             f4 == part.fees[4]
  <2>1. f1 \in Nat /\ f2 \in Nat /\ f3 \in Nat /\ f4 \in Nat /\ part.fee = f1 + f2 + f3 + f4
    BY <1>1
  <2>2. /\ row.fees[1] = B(f1) /\ row.fees[2] = B(f2)
        /\ row.fees[3] = B(f3) /\ row.fees[4] = B(f4) /\ row.fee = B(f1 + f2 + f3 + f4)
    BY <1>1, <1>2
  <2>3. Whole(row.fees) = row.fees[1] + row.fees[2] + row.fees[3] + row.fees[4]
    BY <1>5, TaxAndRevenue DEF GoodRow
  <2> HIDE DEF f1, f2, f3, f4
  <2>4. B(f1 + f2) - B(f1) - B(f2) \in -1..1
    BY <1>4, <2>1
  <2>5. B((f1 + f2) + f3) - B(f1 + f2) - B(f3) \in -1..1
    BY <1>4, <2>1
  <2>6. B((f1 + f2 + f3) + f4) - B(f1 + f2 + f3) - B(f4) \in -1..1
    BY <1>4, <2>1
  <2>7. /\ B(f1) \in Nat /\ B(f2) \in Nat /\ B(f3) \in Nat /\ B(f4) \in Nat
        /\ B(f1 + f2) \in Nat /\ B(f1 + f2 + f3) \in Nat /\ B(f1 + f2 + f3 + f4) \in Nat
    BY <1>3, <2>1
  <2>8. QED
    BY <2>2, <2>3, <2>4, <2>5, <2>6, <2>7 DEF FeeRounding
<1>9. PositivePart(Cardinality(DOMAIN row.fees) - 1) = 3
  <2>1. Cardinality(1..4) = 4
    <3>1. ASSUME NEW n \in Nat PROVE Cardinality(1..n) = n
      BY FS_Interval
    <3>2. QED
      BY <3>1
  <2>2. QED
    BY <1>2, <2>1 DEF PositivePart
<1>10. WithinRounding(row)
  BY <1>6, <1>7, <1>8, <1>9 DEF WithinRounding
<1>11. QED
  BY <1>5, <1>10 DEF row

\* One refund after another is one refund of both.
LEMMA PlanPartAdds ==
  ASSUME NEW p, GoodPart(quote.parts[p]), NEW affiliate \in Nat, NEW all \in Nat \ {0},
         NEW from \in Nat, NEW to \in Nat, from <= to
  PROVE  LET before == PlanPart(p, affiliate, all, 0, from)
             row    == PlanPart(p, affiliate, all, from, to)
             after  == PlanPart(p, affiliate, all, 0, to)
         IN  RowsAdd(after, before, row)
<1> DEFINE part   == quote.parts[p]
           before == PlanPart(p, affiliate, all, 0, from)
           row    == PlanPart(p, affiliate, all, from, to)
           after  == PlanPart(p, affiliate, all, 0, to)
<1>1. /\ part.customer \in Nat /\ part.funding \in Nat /\ part.net \in Nat
      /\ DOMAIN part.fees = 1..4 /\ \A k \in 1..4 : part.fees[k] \in Nat
  BY DEF GoodPart
<1>2. ASSUME NEW x \in Nat
      PROVE  Between(x, all, 0, to) = Between(x, all, 0, from) + Between(x, all, from, to)
  BY BetweenFacts
<1>3. /\ after.customer = before.customer + row.customer
      /\ after.funding = before.funding + row.funding
      /\ after.net = before.net + row.net
      /\ after.affiliate = before.affiliate + row.affiliate
  <2>1. /\ after.customer = Between(part.customer, all, 0, to)
        /\ after.funding = Between(part.funding, all, 0, to)
        /\ after.net = Between(part.net, all, 0, to)
        /\ after.affiliate = Between(affiliate, all, 0, to)
    BY DEF PlanPart
  <2>2. /\ before.customer = Between(part.customer, all, 0, from)
        /\ before.funding = Between(part.funding, all, 0, from)
        /\ before.net = Between(part.net, all, 0, from)
        /\ before.affiliate = Between(affiliate, all, 0, from)
    BY DEF PlanPart
  <2>3. /\ row.customer = Between(part.customer, all, from, to)
        /\ row.funding = Between(part.funding, all, from, to)
        /\ row.net = Between(part.net, all, from, to)
        /\ row.affiliate = Between(affiliate, all, from, to)
    BY DEF PlanPart
  <2> HIDE DEF before, row, after, part
  <2>4. QED
    BY <1>1, <1>2, <2>1, <2>2, <2>3
<1>4. ASSUME NEW k \in 1..4 PROVE after.fees[k] = before.fees[k] + row.fees[k]
  <2>1. /\ after.fees[k] = Between(part.fees[k], all, 0, to)
        /\ before.fees[k] = Between(part.fees[k], all, 0, from)
        /\ row.fees[k] = Between(part.fees[k], all, from, to)
    <3>1. after.fees = [j \in DOMAIN part.fees |-> Between(part.fees[j], all, 0, to)]
      BY PlanPartFields
    <3>2. before.fees = [j \in DOMAIN part.fees |-> Between(part.fees[j], all, 0, from)]
      BY PlanPartFields
    <3>3. row.fees = [j \in DOMAIN part.fees |-> Between(part.fees[j], all, from, to)]
      BY PlanPartFields
    <3>4. QED
      BY <1>1, <3>1, <3>2, <3>3
  <2>2. part.fees[k] \in Nat
    BY <1>1
  <2>3. QED
    BY <1>2, <2>1, <2>2
<1> HIDE DEF before, row, after
<1>5. RowsAdd(after, before, row)
  BY <1>3, <1>4 DEF RowsAdd
<1>6. QED
  BY <1>5 DEF before, row, after

\* A refund takes no more than there is, and one of all of it takes all.
LEMMA PlanPartBounds ==
  ASSUME NEW p, GoodPart(quote.parts[p]), NEW affiliate \in Nat, NEW all \in Nat \ {0},
         NEW to \in 0..all
  PROVE  LET row  == PlanPart(p, affiliate, all, 0, to)
             part == quote.parts[p]
         IN  /\ row.customer <= part.customer /\ row.net <= part.net
             /\ row.affiliate <= affiliate
             /\ to = all => /\ row.customer = part.customer /\ row.funding = part.funding
                            /\ row.net = part.net /\ row.affiliate = affiliate
                            /\ row.fees = part.fees
<1> DEFINE part == quote.parts[p]
           row  == PlanPart(p, affiliate, all, 0, to)
<1>1. /\ part.customer \in Nat /\ part.funding \in Nat /\ part.net \in Nat
      /\ part.fees \in [1..4 -> Nat]
  BY DEF GoodPart
<1>2. ASSUME NEW x \in Nat
      PROVE  Between(x, all, 0, to) <= x /\ Between(x, all, 0, all) = x
  BY BetweenFacts
<1>3. row.customer <= part.customer /\ row.net <= part.net /\ row.affiliate <= affiliate
  <2>1. /\ row.customer = Between(part.customer, all, 0, to)
        /\ row.net = Between(part.net, all, 0, to)
        /\ row.affiliate = Between(affiliate, all, 0, to)
    BY DEF PlanPart
  <2> HIDE DEF row, part
  <2>2. QED
    BY <1>1, <1>2, <2>1
<1>4. ASSUME to = all
      PROVE  /\ row.customer = part.customer /\ row.funding = part.funding
             /\ row.net = part.net /\ row.affiliate = affiliate /\ row.fees = part.fees
  <2>1. /\ row.customer = Between(part.customer, all, 0, all)
        /\ row.funding = Between(part.funding, all, 0, all)
        /\ row.net = Between(part.net, all, 0, all)
        /\ row.affiliate = Between(affiliate, all, 0, all)
        /\ row.fees = [k \in DOMAIN part.fees |-> Between(part.fees[k], all, 0, all)]
    BY <1>4, PlanPartFields
  <2>2. /\ row.customer = part.customer /\ row.funding = part.funding
        /\ row.net = part.net /\ row.affiliate = affiliate
    BY <1>1, <1>2, <2>1
  <2>3. \A k \in 1..4 : Between(part.fees[k], all, 0, all) = part.fees[k]
    BY <1>1, <1>2
  <2>4. row.fees = part.fees
    BY <1>1, <2>1, <2>3
  <2>5. QED
    BY <2>2, <2>4
<1>5. QED
  BY <1>3, <1>4

-----------------------------------------------------------------------------
(* The inductive invariant *)

\* What the affiliate bears of a part.
Affiliate(p) == IF p \in Items THEN AffiliateByPart[p] ELSE 0

\* A part is refunded by units, or as a share of what was paid for it.
Extent(p)   == IF p \in exceptions THEN quote.parts[p].customer ELSE quote.parts[p].quantity
Progress(p) == IF p \in exceptions THEN refunded[p] ELSE returned[p]

\* One refund of all that was refunded so far.
History == [p \in Parts |-> PlanPart(p, Affiliate(p), Extent(p), 0, Progress(p))]

Typed ==
  /\ \A p \in Parts : returned[p] \in 0..quote.parts[p].quantity /\ refunded[p] \in Nat
  /\ exceptions \subseteq Parts
  /\ \A p \in exceptions : /\ p[1] = Shipping
                           /\ returned[p] = 0
                           /\ refunded[p] <= quote.parts[p].customer

\* All accounts and counters say what that one refund would have made them.
Telescoped ==
  /\ \A p \in Parts : refunded[p] = History[p].customer /\ reversed[p] = History[p].net
  /\ reversed[AffiliatePending] = Over(History, "affiliate")
  /\ \A a \in Accounts : journal[a] = CaptureJournal(quote)[a] + RefundJournal(History)[a]

IInv == GoodQuote(quote) /\ Typed /\ Telescoped

\* A plan goes on where the history ends, up to what `after' says.
Continues(plan, after) ==
  /\ DOMAIN plan \subseteq Parts /\ DOMAIN after = Parts
  /\ \A p \in DOMAIN plan :
        \E all \in Nat \ {0}, from \in Nat, to \in Nat :
           /\ from <= to /\ to <= all
           /\ History[p] = PlanPart(p, Affiliate(p), all, 0, from)
           /\ plan[p] = PlanPart(p, Affiliate(p), all, from, to)
           /\ after[p] = PlanPart(p, Affiliate(p), all, 0, to)
  /\ \A p \in Parts \ DOMAIN plan : after[p] = History[p]

\* The parts of a good quote are good rows, and the affiliate's lot is none
\* of them.
LEMMA QuoteRows ==
  ASSUME GoodQuote(quote)
  PROVE  /\ GoodRows(quote.parts)
         /\ IsFiniteSet(Parts)
         /\ AffiliatePending \notin Parts
         /\ \A p \in Parts : GoodPart(quote.parts[p])
<1>1. /\ IsFiniteSet(Parts)
      /\ \A p \in Parts : GoodPart(quote.parts[p]) /\ p[1] \in 1..3
  BY DEF GoodQuote, Parts
<1>2. ASSUME NEW p \in Parts PROVE GoodRow(quote.parts[p])
  BY <1>1 DEF GoodPart, GoodRow
<1>3. AffiliatePending \notin Parts
  BY <1>1 DEF AffiliatePending
<1>4. QED
  BY <1>1, <1>2, <1>3 DEF GoodRows, Parts

\* What a capture is worth: it is divided into fees and net amounts, and the
\* fees into taxes and revenues.
LEMMA CaptureTotals ==
  ASSUME GoodQuote(quote)
  PROVE  LET O(field) == Over(quote.parts, field)
         IN  /\ O("customer") \in Nat /\ O("funding") \in Nat /\ O("gross") \in Nat
             /\ O("fee") \in Nat /\ O("net") \in Nat
             /\ TaxOver(quote.parts) \in Nat /\ RevenueOver(quote.parts) \in Nat
             /\ quote.commission \in Nat
             /\ O("gross") = O("customer") + O("funding")
             /\ O("gross") = O("fee") + O("net")
             /\ O("fee") = TaxOver(quote.parts) + RevenueOver(quote.parts)
<1> DEFINE rows     == quote.parts
           S        == DOMAIN rows
           customer == Column(rows, "customer")
           funding  == Column(rows, "funding")
           gross    == Column(rows, "gross")
           fee      == Column(rows, "fee")
           net      == Column(rows, "net")
           taxes    == [p \in S |-> Tax(rows[p].fees)]
           revenues == [p \in S |-> Revenue(rows[p].fees)]
<1>1. GoodRows(rows) /\ quote.commission \in Nat /\ \A p \in S : GoodPart(rows[p])
  BY QuoteRows DEF GoodQuote, Parts
<1>2. /\ AmountsOn(customer, S) /\ Over(rows, "customer") = Total(customer, S)
      /\ AmountsOn(funding, S) /\ Over(rows, "funding") = Total(funding, S)
      /\ AmountsOn(gross, S) /\ Over(rows, "gross") = Total(gross, S)
      /\ AmountsOn(fee, S) /\ Over(rows, "fee") = Total(fee, S)
      /\ AmountsOn(net, S) /\ Over(rows, "net") = Total(net, S)
  BY <1>1, ColumnAmounts
<1>3. /\ AmountsOn(taxes, S) /\ TaxOver(rows) = Total(taxes, S)
      /\ AmountsOn(revenues, S) /\ RevenueOver(rows) = Total(revenues, S)
  BY <1>1, FeeAmounts
<1>4. ASSUME NEW p \in S
      PROVE  /\ gross[p] = customer[p] + funding[p] /\ gross[p] = fee[p] + net[p]
             /\ fee[p] = taxes[p] + revenues[p]
  <2>1. /\ rows[p].gross = rows[p].customer + rows[p].funding
        /\ rows[p].gross = rows[p].fee + rows[p].net
        /\ rows[p].fee = rows[p].fees[1] + rows[p].fees[2] + rows[p].fees[3] + rows[p].fees[4]
        /\ rows[p].fees \in [1..4 -> Nat]
    BY <1>1 DEF GoodPart
  <2>2. /\ Tax(rows[p].fees) = rows[p].fees[4]
        /\ Revenue(rows[p].fees) = rows[p].fees[1] + rows[p].fees[2] + rows[p].fees[3]
    BY <2>1, TaxAndRevenue
  <2>3. /\ rows[p].fees[1] \in Nat /\ rows[p].fees[2] \in Nat
        /\ rows[p].fees[3] \in Nat /\ rows[p].fees[4] \in Nat
    BY <2>1
  <2>4. rows[p].fee = Tax(rows[p].fees) + Revenue(rows[p].fees)
    BY <2>1, <2>2, <2>3
  <2>5. QED
    BY <2>1, <2>4 DEF Column
<1> HIDE DEF customer, funding, gross, fee, net, taxes, revenues, S
<1>5. /\ Total(gross, S) = Total(customer, S) + Total(funding, S)
      /\ Total(gross, S) = Total(fee, S) + Total(net, S)
      /\ Total(fee, S) = Total(taxes, S) + Total(revenues, S)
  BY <1>2, <1>3, <1>4, TotalAdd
<1>6. QED
  BY <1>1, <1>2, <1>3, <1>5, TotalNat

\* So the accounts of the capture are numbers, and they balance.
LEMMA CaptureBalances ==
  ASSUME GoodQuote(quote)
  PROVE  /\ DOMAIN CaptureJournal(quote) = Accounts
         /\ \A a \in Accounts : CaptureJournal(quote)[a] \in Int
         /\ Balanced(CaptureJournal(quote))
<1> DEFINE customer == Over(quote.parts, "customer")
           funding  == Over(quote.parts, "funding")
           gross    == Over(quote.parts, "gross")
           fee      == Over(quote.parts, "fee")
           tax      == TaxOver(quote.parts)
           e        == CaptureJournal(quote)
<1>1. /\ customer \in Nat /\ funding \in Nat /\ gross \in Nat /\ fee \in Nat /\ tax \in Nat
      /\ quote.commission \in Nat /\ gross = customer + funding
  BY CaptureTotals
<1>2. /\ DOMAIN e = Accounts
      /\ e["CUSTOMER_FUNDS"] = customer /\ e["PLATFORM_PROMOTION"] = funding
      /\ e["SELLER_PAYABLE"] = fee - gross /\ e["TAX_PAYABLE"] = -tax
      /\ e["PLATFORM_FEES"] = tax - fee /\ e["PLATFORM_ROUNDING"] = 0
      /\ e["PLATFORM_AFFILIATE_COST"] = quote.commission
      /\ e["AFFILIATE_PENDING"] = -quote.commission
  BY DEF CaptureJournal, Accounts
<1> HIDE DEF customer, funding, gross, fee, tax, e
<1>3. \A a \in Accounts : e[a] \in Int
  BY <1>1, <1>2 DEF Accounts
<1>4. Balance(e) = 0
  <2>1. Balance(e)
          = e["CUSTOMER_FUNDS"] + e["PLATFORM_PROMOTION"] + e["SELLER_PAYABLE"]
              + e["TAX_PAYABLE"] + e["PLATFORM_FEES"] + e["PLATFORM_ROUNDING"]
              + e["PLATFORM_AFFILIATE_COST"] + e["AFFILIATE_PENDING"]
    BY <1>2, <1>3, AccountBalance
  <2> DEFINE commission == quote.commission
  <2>2. /\ commission \in Nat /\ e["PLATFORM_AFFILIATE_COST"] = commission
        /\ e["AFFILIATE_PENDING"] = -commission
    BY <1>1, <1>2
  <2> HIDE DEF commission
  <2>3. QED
    BY <1>1, <1>2, <2>1, <2>2
<1>5. QED
  BY <1>2, <1>3, <1>4 DEF Balanced, e

\* The commission can be divided among the items, and is divided completely.
LEMMA CommissionDivided ==
  ASSUME GoodQuote(quote)
  PROVE  /\ Allocatable(quote.commission, Commission)
         /\ \A p \in Parts : Affiliate(p) \in Nat
         /\ AmountsOn([p \in Parts |-> Affiliate(p)], Parts)
         /\ AmountsOn([p \in Parts |-> Affiliate(p)], Items)
         /\ Total([p \in Parts |-> Affiliate(p)], Parts) = quote.commission
         /\ Total([p \in Parts |-> Affiliate(p)], Items) = quote.commission
<1> DEFINE weight == Commission
           byPart == AffiliateByPart
           all    == [p \in Parts |-> Affiliate(p)]
<1>1. /\ IsFiniteSet(Parts) /\ Keys(Parts) /\ quote.commission \in Nat
      /\ \A p \in Parts : quote.parts[p].gross \in Nat
      /\ quote.commission > 0 => \E p \in Items : quote.parts[p].gross > 0
  BY DEF GoodQuote, GoodPart, Parts, Items
<1>2. Items \subseteq Parts /\ IsFiniteSet(Items) /\ Keys(Items)
  <2>1. Items \subseteq Parts
    BY DEF Items
  <2>2. QED
    BY <1>1, <2>1, FS_Subset DEF Keys
<1>3. DOMAIN weight = Items /\ \A p \in Items : weight[p] = quote.parts[p].gross
  BY DEF Commission
<1> HIDE DEF weight
<1>4. AmountsOn(weight, Items)
  BY <1>1, <1>2, <1>3 DEF AmountsOn
<1>5. Allocatable(quote.commission, weight)
  <2>1. CASE quote.commission = 0
    BY <2>1 DEF Allocatable
  <2>2. CASE quote.commission > 0
    <3>1. PICK p \in Items : quote.parts[p].gross > 0
      BY <1>1, <2>2
    <3>2. weight[p] <= Total(weight, Items)
      BY <1>4, TotalAtLeast
    <3>3. Total(weight, Items) \in Nat /\ quote.parts[p].gross \in Nat
      BY <1>1, <1>2, <1>4, TotalNat
    <3>4. Whole(weight) > 0
      BY <1>3, <3>1, <3>2, <3>3 DEF Whole
    <3>5. QED
      BY <3>4 DEF Allocatable
  <2>3. QED
    BY <1>1, <2>1, <2>2
<1>6. byPart \in [Items -> Nat] /\ Whole(byPart) = quote.commission
  <2>1. byPart = AllocateMinorUnits(quote.commission, weight)
    BY DEF AffiliateByPart, weight
  <2> HIDE DEF byPart
  <2>2. QED
    BY <1>1, <1>2, <1>3, <1>4, <1>5, <2>1, Allocation
<1>7. ASSUME NEW p \in Parts
      PROVE  all[p] \in Nat /\ (p \in Items => all[p] = byPart[p]) /\ (p \notin Items => all[p] = 0)
  BY <1>6 DEF Affiliate
<1>8. \A p \in Parts : Affiliate(p) \in Nat
  BY <1>6 DEF Affiliate
<1> HIDE DEF all, byPart
<1>9. AmountsOn(all, Parts) /\ AmountsOn(all, Items)
  BY <1>1, <1>2, <1>7 DEF AmountsOn
<1>10. Total(all, Items) = quote.commission
  <2>1. Total(all, Items) = Total(byPart, Items)
    BY <1>2, <1>7, TotalEq
  <2>2. QED
    BY <1>6, <2>1 DEF Whole
<1>11. Total(all, Parts) = Total(all, Items)
  <2>1. Items \in SUBSET Parts /\ \A p \in Parts \ Items : all[p] = 0
    BY <1>2, <1>7
  <2>2. QED
    BY <2>1, TotalSupport
<1>12. QED
  BY <1>5, <1>8, <1>9, <1>10, <1>11 DEF all, weight

\* The history is itself a plan.
LEMMA HistoryIsPlan ==
  ASSUME GoodQuote(quote), Typed
  PROVE  /\ GoodPlan(History) /\ DOMAIN History = Parts
         /\ \A p \in Parts : Extent(p) \in Nat \ {0} /\ Progress(p) \in 0..Extent(p)
<1>1. DOMAIN History = Parts
  BY DEF History
<1>2. ASSUME NEW p \in Parts
      PROVE  Extent(p) \in Nat \ {0} /\ Progress(p) \in 0..Extent(p)
  <2>1. /\ quote.parts[p].customer \in Nat /\ quote.parts[p].quantity \in Nat \ {0}
        /\ p[1] = Shipping => quote.parts[p].customer > 0
    BY DEF GoodQuote, GoodPart, Parts
  <2>2. /\ returned[p] \in 0..quote.parts[p].quantity /\ refunded[p] \in Nat
        /\ p \in exceptions => p[1] = Shipping /\ refunded[p] <= quote.parts[p].customer
    BY DEF Typed
  <2>3. QED
    BY <2>1, <2>2 DEF Extent, Progress
<1>3. ASSUME NEW p \in Parts
      PROVE  GoodRow(History[p]) /\ History[p].affiliate \in Nat
  <2>1. History[p] = PlanPart(p, Affiliate(p), Extent(p), 0, Progress(p))
    BY DEF History
  <2>2. GoodPart(quote.parts[p]) /\ Affiliate(p) \in Nat
    BY QuoteRows, CommissionDivided
  <2>3. Extent(p) \in Nat \ {0} /\ Progress(p) \in Nat /\ 0 <= Progress(p) /\ 0 \in Nat
    BY <1>2
  <2>4. QED
    BY <2>1, <2>2, <2>3, PlanPartGood
<1>4. GoodPlan(History)
  BY <1>1, <1>3, QuoteRows DEF GoodPlan, GoodRows
<1>5. QED
  BY <1>1, <1>2, <1>4

\* The rows of a plan that goes on where the history ends, and those of what
\* it leads to.
LEMMA ContinuedRows ==
  ASSUME GoodQuote(quote), Typed, NEW plan, NEW after, Continues(plan, after)
  PROVE  /\ GoodPlan(plan) /\ GoodPlan(after)
         /\ \A p \in DOMAIN plan :
               WithinRounding(plan[p]) /\ RowsAdd(after[p], History[p], plan[p])
         /\ \A p \in Parts : /\ after[p].customer <= quote.parts[p].customer
                             /\ after[p].net <= quote.parts[p].net
                             /\ after[p].affiliate <= Affiliate(p)
<1>1. DOMAIN plan \subseteq Parts /\ DOMAIN after = Parts
  BY DEF Continues
<1>2. IsFiniteSet(Parts) /\ \A p \in Parts : GoodPart(quote.parts[p]) /\ Affiliate(p) \in Nat
  BY QuoteRows, CommissionDivided
<1>3. ASSUME NEW p \in DOMAIN plan
      PROVE  /\ GoodRow(plan[p]) /\ plan[p].affiliate \in Nat /\ WithinRounding(plan[p])
             /\ GoodRow(after[p]) /\ after[p].affiliate \in Nat
             /\ RowsAdd(after[p], History[p], plan[p])
             /\ after[p].customer <= quote.parts[p].customer
             /\ after[p].net <= quote.parts[p].net
             /\ after[p].affiliate <= Affiliate(p)
  <2>1. PICK all \in Nat \ {0}, from \in Nat, to \in Nat :
           /\ from <= to /\ to <= all
           /\ History[p] = PlanPart(p, Affiliate(p), all, 0, from)
           /\ plan[p] = PlanPart(p, Affiliate(p), all, from, to)
           /\ after[p] = PlanPart(p, Affiliate(p), all, 0, to)
    BY DEF Continues
  <2>2. GoodPart(quote.parts[p]) /\ Affiliate(p) \in Nat
    BY <1>1, <1>2
  <2>3. GoodRow(plan[p]) /\ plan[p].affiliate \in Nat /\ WithinRounding(plan[p])
    BY <2>1, <2>2, PlanPartGood
  <2>4. GoodRow(after[p]) /\ after[p].affiliate \in Nat
    <3>1. 0 \in Nat /\ 0 <= to
      OBVIOUS
    <3>2. QED
      BY <2>1, <2>2, <3>1, PlanPartGood
  <2>5. RowsAdd(after[p], History[p], plan[p])
    BY <2>1, <2>2, PlanPartAdds
  <2>6. /\ after[p].customer <= quote.parts[p].customer
        /\ after[p].net <= quote.parts[p].net
        /\ after[p].affiliate <= Affiliate(p)
    <3>1. to \in 0..all
      BY <2>1
    <3>2. QED
      BY <2>1, <2>2, <3>1, PlanPartBounds
  <2>7. QED
    BY <2>3, <2>4, <2>5, <2>6
<1>4. ASSUME NEW p \in Parts \ DOMAIN plan
      PROVE  /\ GoodRow(after[p]) /\ after[p].affiliate \in Nat
             /\ after[p].customer <= quote.parts[p].customer
             /\ after[p].net <= quote.parts[p].net
             /\ after[p].affiliate <= Affiliate(p)
  <2>1. after[p] = History[p]
    BY DEF Continues
  <2>2. GoodRow(History[p]) /\ History[p].affiliate \in Nat
    BY HistoryIsPlan DEF GoodPlan, GoodRows
  <2>3. History[p] = PlanPart(p, Affiliate(p), Extent(p), 0, Progress(p))
    BY DEF History
  <2>4. /\ History[p].customer <= quote.parts[p].customer
        /\ History[p].net <= quote.parts[p].net
        /\ History[p].affiliate <= Affiliate(p)
    <3>1. Extent(p) \in Nat \ {0} /\ Progress(p) \in 0..Extent(p)
      BY HistoryIsPlan
    <3>2. GoodPart(quote.parts[p]) /\ Affiliate(p) \in Nat
      BY <1>2
    <3>3. QED
      BY <2>3, <3>1, <3>2, PlanPartBounds
  <2>5. QED
    BY <2>1, <2>2, <2>4
<1>5. GoodPlan(plan)
  <2>1. IsFiniteSet(DOMAIN plan)
    BY <1>1, <1>2, FS_Subset
  <2>2. QED
    BY <1>3, <2>1 DEF GoodPlan, GoodRows
<1>6. GoodPlan(after)
  BY <1>1, <1>2, <1>3, <1>4 DEF GoodPlan, GoodRows
<1>7. \A p \in Parts : /\ after[p].customer <= quote.parts[p].customer
                       /\ after[p].net <= quote.parts[p].net
                       /\ after[p].affiliate <= Affiliate(p)
  BY <1>3, <1>4
<1>8. QED
  BY <1>3, <1>5, <1>6, <1>7

\* Such a plan is accepted, and booking it keeps accounts and counters those
\* of one refund.
LEMMA ContinuedIsAccepted ==
  ASSUME IInv, NEW plan, NEW after, Continues(plan, after)
  PROVE  /\ Accepted(plan)
         /\ \A p \in Parts :
               /\ refunded[p] + (IF p \in DOMAIN plan THEN plan[p].customer ELSE 0)
                     = after[p].customer
               /\ reversed[p] + Reversal(plan)[p] = after[p].net
               /\ after[p].customer \in Nat
         /\ reversed[AffiliatePending] + Reversal(plan)[AffiliatePending]
               = Over(after, "affiliate")
         /\ \A a \in Accounts :
               journal[a] + RefundJournal(plan)[a]
                  = CaptureJournal(quote)[a] + RefundJournal(after)[a]
<1>1. GoodQuote(quote) /\ Typed /\ Telescoped
  BY DEF IInv
<1>2. DOMAIN plan \subseteq Parts /\ DOMAIN after = Parts
  BY DEF Continues
<1>3. GoodPlan(plan) /\ GoodPlan(after) /\ GoodPlan(History) /\ DOMAIN History = Parts
  BY <1>1, ContinuedRows, HistoryIsPlan
<1>4. /\ Allocatable(quote.commission, Commission)
      /\ AmountsOn([p \in Parts |-> Affiliate(p)], Parts)
      /\ Total([p \in Parts |-> Affiliate(p)], Parts) = quote.commission
  BY <1>1, CommissionDivided
<1>5. AffiliatePending \notin Parts /\ AffiliatePending \in Lots /\ Parts \subseteq Lots
  BY <1>1, QuoteRows DEF Lots
<1>6. ASSUME NEW p \in Parts
      PROVE  IF p \in DOMAIN plan
             THEN RowsAdd(after[p], History[p], plan[p])
             ELSE after[p] = History[p]
  <2>1. CASE p \in DOMAIN plan
    BY <1>1, <2>1, ContinuedRows
  <2>2. CASE p \notin DOMAIN plan
    BY <2>2 DEF Continues
  <2>3. QED
    BY <2>1, <2>2
<1>7. /\ Over(after, "affiliate") = Over(History, "affiliate") + Over(plan, "affiliate")
      /\ \A a \in Accounts :
            RefundJournal(after)[a] = RefundJournal(History)[a] + RefundJournal(plan)[a]
  <2> DEFINE rows == History
  <2>1. /\ GoodPlan(rows) /\ DOMAIN after = DOMAIN rows /\ DOMAIN plan \subseteq DOMAIN rows
        /\ \A p \in DOMAIN rows :
              IF p \in DOMAIN plan
              THEN RowsAdd(after[p], rows[p], plan[p])
              ELSE after[p] = rows[p]
    BY <1>2, <1>3, <1>6
  <2> HIDE DEF rows
  <2>2. /\ Over(after, "affiliate") = Over(rows, "affiliate") + Over(plan, "affiliate")
        /\ \A a \in Accounts :
              RefundJournal(after)[a] = RefundJournal(rows)[a] + RefundJournal(plan)[a]
    BY <1>3, <2>1, JournalsAdd
  <2>3. QED
    BY <2>2 DEF rows
<1>8. ASSUME NEW r, GoodPlan(r)
      PROVE  /\ Over(r, "affiliate") \in Nat
             /\ \A a \in Accounts : RefundJournal(r)[a] \in Int
  BY <1>8, JournalOfPlanBalances
<1>9. ASSUME NEW p \in Parts
      PROVE  /\ refunded[p] + (IF p \in DOMAIN plan THEN plan[p].customer ELSE 0)
                   = after[p].customer
             /\ reversed[p] + Reversal(plan)[p] = after[p].net
             /\ after[p].customer \in Nat /\ after[p].net <= quote.parts[p].net
             /\ reversed[p] \in Nat /\ Reversal(plan)[p] \in Nat
  <2>1. refunded[p] = History[p].customer /\ reversed[p] = History[p].net
    BY <1>1 DEF Telescoped
  <2>2. Reversal(plan)[p] = IF p \in DOMAIN plan THEN plan[p].net ELSE 0
    BY <1>5 DEF Reversal
  <2>3. /\ History[p].customer \in Nat /\ History[p].net \in Nat
        /\ after[p].customer \in Nat
        /\ p \in DOMAIN plan => plan[p].net \in Nat
    BY <1>2, <1>3 DEF GoodPlan, GoodRows, GoodRow
  <2>4. after[p].net <= quote.parts[p].net
    BY <1>1, ContinuedRows
  <2>5. CASE p \in DOMAIN plan
    <3>1. /\ after[p].customer = History[p].customer + plan[p].customer
          /\ after[p].net = History[p].net + plan[p].net
      BY <1>6, <2>5 DEF RowsAdd
    <3>2. QED
      BY <2>1, <2>2, <2>3, <2>4, <2>5, <3>1
  <2>6. CASE p \notin DOMAIN plan
    BY <1>6, <2>1, <2>2, <2>3, <2>4, <2>6
  <2>7. QED
    BY <2>5, <2>6
<1>10. Over(after, "affiliate") <= quote.commission
  <2> DEFINE f == Column(after, "affiliate")
             g == [p \in Parts |-> Affiliate(p)]
  <2>1. AmountsOn(f, Parts) /\ Over(after, "affiliate") = Total(f, Parts)
    BY <1>2, <1>3, AffiliateAmounts
  <2>2. \A p \in Parts : f[p] <= g[p]
    BY <1>1, <1>2, ContinuedRows DEF Column
  <2>3. AmountsOn(g, Parts) /\ Total(g, Parts) = quote.commission
    BY <1>4
  <2> HIDE DEF f, g
  <2>4. QED
    BY <2>1, <2>2, <2>3, TotalMonotone
<1>11. /\ reversed[AffiliatePending] = Over(History, "affiliate")
       /\ Reversal(plan)[AffiliatePending] = Over(plan, "affiliate")
  BY <1>1, <1>5 DEF Telescoped, Reversal
<1>12. /\ Over(History, "affiliate") \in Nat /\ Over(plan, "affiliate") \in Nat
       /\ quote.commission \in Nat
  BY <1>1, <1>3, <1>8 DEF GoodQuote
<1>13. ASSUME NEW l \in Lots
       PROVE  reversed[l] <= LotAmount(l) /\ Reversal(plan)[l] <= LotAmount(l) - reversed[l]
  <2>1. CASE l = AffiliatePending
    <3>1. LotAmount(l) = quote.commission
      BY <2>1 DEF LotAmount
    <3>2. QED
      BY <1>7, <1>10, <1>11, <1>12, <2>1, <3>1
  <2>2. CASE l \in Parts
    <3>1. LotAmount(l) = quote.parts[l].net
      BY <1>5, <2>2 DEF LotAmount
    <3>2. quote.parts[l].net \in Nat
      BY <1>1, <2>2, QuoteRows DEF GoodPart
    <3>3. QED
      BY <1>9, <2>2, <3>1, <3>2
  <2>3. QED
    BY <2>1, <2>2 DEF Lots
<1>14. Accepted(plan)
  <2>1. \A p \in DOMAIN plan : WithinRounding(plan[p])
    BY <1>1, ContinuedRows
  <2>2. Balanced(RefundJournal(plan))
    BY <1>3, JournalOfPlanBalances
  <2>3. Over(plan, "customer") <= Over(quote.parts, "customer")
    <3> DEFINE f == Column(plan, "customer")
               g == Column(quote.parts, "customer")
    <3>1. GoodRows(plan) /\ GoodRows(quote.parts)
      BY <1>1, <1>3, QuoteRows DEF GoodPlan
    <3>2. /\ AmountsOn(f, DOMAIN plan) /\ Over(plan, "customer") = Total(f, DOMAIN plan)
          /\ AmountsOn(g, Parts) /\ Over(quote.parts, "customer") = Total(g, Parts)
      BY <3>1, ColumnAmounts DEF Parts
    <3>3. ASSUME NEW p \in DOMAIN plan PROVE f[p] <= g[p]
      <4>1. p \in Parts /\ f[p] = plan[p].customer /\ g[p] = quote.parts[p].customer
        BY <1>2 DEF Column, Parts
      <4>2. /\ History[p].customer \in Nat /\ plan[p].customer \in Nat
            /\ after[p].customer \in Nat /\ quote.parts[p].customer \in Nat
        BY <1>2, <1>3, <3>1, <4>1 DEF GoodPlan, GoodRows, GoodRow, Parts
      <4>3. after[p].customer = History[p].customer + plan[p].customer
        BY <1>1, ContinuedRows DEF RowsAdd
      <4>4. after[p].customer <= quote.parts[p].customer
        BY <1>1, <4>1, ContinuedRows
      <4> HIDE DEF f, g
      <4>5. QED
        BY <4>1, <4>2, <4>3, <4>4
    <3> HIDE DEF f, g
    <3>4. AmountsOn(g, DOMAIN plan)
      BY <1>2, <3>2, FS_Subset DEF AmountsOn
    <3>5. Total(f, DOMAIN plan) <= Total(g, DOMAIN plan)
      BY <3>2, <3>3, <3>4, TotalMonotone
    <3>6. Total(g, DOMAIN plan) <= Total(g, Parts)
      BY <1>2, <3>2, TotalSubset
    <3>7. /\ Total(f, DOMAIN plan) \in Nat /\ Total(g, DOMAIN plan) \in Nat
          /\ Total(g, Parts) \in Nat
      BY <3>2, <3>4, TotalNat
    <3>8. QED
      BY <3>2, <3>5, <3>6, <3>7
  <2>4. QED
    BY <1>4, <1>13, <2>1, <2>2, <2>3 DEF Accepted
<1>15. ASSUME NEW a \in Accounts
       PROVE  journal[a] + RefundJournal(plan)[a]
                 = CaptureJournal(quote)[a] + RefundJournal(after)[a]
  <2>1. journal[a] = CaptureJournal(quote)[a] + RefundJournal(History)[a]
    BY <1>1 DEF Telescoped
  <2>2. CaptureJournal(quote)[a] \in Int
    BY <1>1, CaptureBalances
  <2>3. RefundJournal(History)[a] \in Int /\ RefundJournal(plan)[a] \in Int
    BY <1>3, <1>8
  <2>4. QED
    BY <1>7, <2>1, <2>2, <2>3
<1>16. QED
  BY <1>7, <1>9, <1>11, <1>14, <1>15

-----------------------------------------------------------------------------
(* Every refund that may be selected continues the history *)

\* What a refund by units leads to.
AfterUnits(plan) ==
  [p \in Parts |->
     PlanPart(p, Affiliate(p), Extent(p), 0,
              Progress(p) + IF p \in DOMAIN plan THEN plan[p].quantity ELSE 0)]

LEMMA UnitsContinue ==
  ASSUME GoodQuote(quote), Typed, NEW plan \in QuantityPlans
  PROVE  /\ Continues(plan, AfterUnits(plan))
         /\ DOMAIN plan \subseteq Parts /\ DOMAIN plan \cap exceptions = {}
         /\ \A p \in DOMAIN plan : /\ plan[p].quantity \in Nat
                                   /\ returned[p] + plan[p].quantity
                                         \in 0..quote.parts[p].quantity
<1>1. PICK f \in Selections : Selectable(f) /\ plan = QuantityPlan(f)
  BY DEF QuantityPlans
<1>2. PICK S \in SUBSET {p \in Parts : Left(p) > 0} :
         f \in {g \in [S -> UNION {1..Left(p) : p \in S}] : \A p \in S : g[p] <= Left(p)}
  BY DEF Selections
<1>3. /\ DOMAIN f = S /\ S \subseteq Parts
      /\ \A p \in S : f[p] \in UNION {1..Left(q) : q \in S} /\ f[p] <= Left(p)
  BY <1>2
<1>4. DOMAIN plan = S
  BY <1>1, <1>3 DEF QuantityPlan
<1>5. S \cap exceptions = {}
  BY <1>1, <1>3 DEF Selectable
<1>6. ASSUME NEW p \in S
      PROVE  /\ f[p] \in Nat /\ returned[p] \in Nat
             /\ returned[p] + f[p] <= quote.parts[p].quantity
             /\ quote.parts[p].quantity \in Nat \ {0}
             /\ Extent(p) = quote.parts[p].quantity /\ Progress(p) = returned[p]
             /\ plan[p] = PlanPart(p, Affiliate(p), Extent(p), returned[p], returned[p] + f[p])
             /\ plan[p].quantity = f[p]
  <2>1. p \in Parts /\ p \notin exceptions
    BY <1>3, <1>5
  <2>2. returned[p] \in 0..quote.parts[p].quantity /\ quote.parts[p].quantity \in Nat \ {0}
    BY <2>1, QuoteRows DEF Typed, GoodPart
  <2>3. Left(p) = quote.parts[p].quantity - returned[p]
    BY DEF Left
  <2>4. f[p] \in Nat
    <3>1. PICK q \in S : f[p] \in 1..Left(q)
      BY <1>3
    <3>2. \A n : 1..n \subseteq Nat
      OBVIOUS
    <3>3. QED
      BY <3>1, <3>2
  <2>5. returned[p] + f[p] <= quote.parts[p].quantity
    BY <1>3, <2>2, <2>3, <2>4
  <2>6. Extent(p) = quote.parts[p].quantity /\ Progress(p) = returned[p]
    BY <2>1 DEF Extent, Progress
  <2>7. plan[p] = PlanPart(p, Affiliate(p), Extent(p), returned[p], returned[p] + f[p])
    BY <1>1, <1>3, <2>6 DEF QuantityPlan, Affiliate
  <2>8. plan[p].quantity = (returned[p] + f[p]) - returned[p]
    BY <2>7 DEF PlanPart
  <2>9. QED
    BY <2>2, <2>4, <2>5, <2>6, <2>7, <2>8
<1>7. ASSUME NEW p \in DOMAIN plan
      PROVE  \E all \in Nat \ {0}, from \in Nat, to \in Nat :
                /\ from <= to /\ to <= all
                /\ History[p] = PlanPart(p, Affiliate(p), all, 0, from)
                /\ plan[p] = PlanPart(p, Affiliate(p), all, from, to)
                /\ AfterUnits(plan)[p] = PlanPart(p, Affiliate(p), all, 0, to)
  <2> DEFINE all  == Extent(p)
             from == returned[p]
             to   == returned[p] + f[p]
  <2>1. p \in S /\ p \in Parts
    BY <1>3, <1>4
  <2>2. all \in Nat \ {0} /\ from \in Nat /\ to \in Nat /\ from <= to /\ to <= all
    BY <1>6, <2>1
  <2>3. History[p] = PlanPart(p, Affiliate(p), all, 0, from)
    BY <1>6, <2>1 DEF History
  <2>4. plan[p] = PlanPart(p, Affiliate(p), all, from, to)
    BY <1>6, <2>1
  <2>5. AfterUnits(plan)[p] = PlanPart(p, Affiliate(p), all, 0, to)
    BY <1>6, <2>1 DEF AfterUnits
  <2> HIDE DEF all, from, to
  <2>6. QED
    BY <2>2, <2>3, <2>4, <2>5
<1>8. ASSUME NEW p \in Parts \ DOMAIN plan
      PROVE  AfterUnits(plan)[p] = History[p]
  <2>1. Progress(p) \in Nat
    BY HistoryIsPlan
  <2>2. Progress(p) + (IF p \in DOMAIN plan THEN plan[p].quantity ELSE 0) = Progress(p)
    BY <2>1
  <2>3. QED
    BY <2>2 DEF AfterUnits, History
<1>9. DOMAIN AfterUnits(plan) = Parts
  BY DEF AfterUnits
<1>10. Continues(plan, AfterUnits(plan))
  BY <1>3, <1>4, <1>7, <1>8, <1>9 DEF Continues
<1>11. ASSUME NEW p \in DOMAIN plan
       PROVE  /\ plan[p].quantity \in Nat
              /\ returned[p] + plan[p].quantity \in 0..quote.parts[p].quantity
  BY <1>4, <1>6
<1>12. QED
  BY <1>3, <1>4, <1>5, <1>10, <1>11

\* What an exception leads to.
AfterException(p, amount) ==
  [q \in Parts |->
     IF q = p THEN PlanPart(p, Affiliate(p), quote.parts[p].customer, 0, refunded[p] + amount)
     ELSE History[q]]

\* An exception is possible only as long as nothing was refunded with units:
\* shipping is one unit.
LEMMA ExceptionContinues ==
  ASSUME GoodQuote(quote), Typed, Telescoped,
         NEW p \in Parts, p[1] = Shipping,
         NEW amount \in 1..(quote.parts[p].customer - refunded[p])
  PROVE  /\ Continues(ExceptionPlan(p, amount), AfterException(p, amount))
         /\ returned[p] = 0
         /\ refunded[p] + amount <= quote.parts[p].customer
         /\ ExceptionPlan(p, amount)[p].customer = amount
<1> DEFINE all  == quote.parts[p].customer
           from == refunded[p]
           to   == refunded[p] + amount
           plan == ExceptionPlan(p, amount)
<1>1. /\ GoodPart(quote.parts[p]) /\ quote.parts[p].quantity = 1
      /\ all \in Nat \ {0} /\ from \in Nat
  BY DEF GoodQuote, GoodPart, Parts, Typed
<1>2. from \in Nat /\ to \in Nat /\ from <= to /\ to <= all /\ to = from + amount /\ amount \in Nat
  BY <1>1
<1>3. Affiliate(p) = 0
  BY DEF Affiliate, Items, Item, Shipping
<1>4. DOMAIN plan = {p} /\ plan[p] = PlanPart(p, Affiliate(p), all, from, to)
  BY <1>3 DEF ExceptionPlan
<1>5. refunded[p] = History[p].customer
  BY DEF Telescoped
<1>6. returned[p] = 0 /\ History[p] = PlanPart(p, Affiliate(p), all, 0, from)
  <2>1. CASE p \in exceptions
    <3>1. returned[p] = 0
      BY <2>1 DEF Typed
    <3>2. Extent(p) = all /\ Progress(p) = from
      BY <2>1 DEF Extent, Progress
    <3>3. QED
      BY <3>1, <3>2 DEF History
  <2>2. CASE p \notin exceptions
    <3>1. Extent(p) = 1 /\ Progress(p) = returned[p] /\ returned[p] \in 0..1
      BY <1>1, <2>2 DEF Extent, Progress, Typed
    <3>2. History[p] = PlanPart(p, Affiliate(p), 1, 0, returned[p])
      BY <3>1 DEF History
    <3>3. refunded[p] = Between(all, 1, 0, returned[p])
      BY <1>5, <3>2 DEF PlanPart
    <3>4. returned[p] # 1
      <4>1. SUFFICES ASSUME returned[p] = 1 PROVE FALSE
        OBVIOUS
      <4>2. Between(all, 1, 0, 1) = all
        <5>1. \A x \in Nat : Between(x, 1, 0, 1) = x
          BY BetweenFacts
        <5>2. QED
          BY <1>1, <5>1
      <4>3. refunded[p] = all
        BY <3>3, <4>1, <4>2
      <4>4. QED
        BY <1>1, <1>2, <4>3
    <3>5. returned[p] = 0
      BY <3>1, <3>4
    <3>6. \A x \in Nat : Between(x, 1, 0, 0) = 0 /\ Between(x, all, 0, 0) = 0
      <4>1. ASSUME NEW x \in Nat, NEW a \in Nat \ {0} PROVE Between(x, a, 0, 0) = 0
        <5>1. 0 \in Nat /\ 0 <= 0
          OBVIOUS
        <5>2. QED
          BY <5>1, BetweenFacts
      <4>2. 1 \in Nat \ {0}
        OBVIOUS
      <4>3. QED
        BY <1>1, <4>1, <4>2
    <3>7. from = 0
      BY <1>1, <3>3, <3>5, <3>6
    <3>8. PlanPart(p, 0, 1, 0, 0) = PlanPart(p, 0, all, 0, 0)
      <4> DEFINE part == quote.parts[p]
      <4>1. /\ part.customer \in Nat /\ part.funding \in Nat /\ part.gross \in Nat
            /\ part.fee \in Nat /\ part.net \in Nat /\ 0 \in Nat
            /\ part.fees \in [1..4 -> Nat]
        BY <1>1 DEF GoodPart
      <4>2. /\ Between(part.customer, 1, 0, 0) = Between(part.customer, all, 0, 0)
            /\ Between(part.funding, 1, 0, 0) = Between(part.funding, all, 0, 0)
            /\ Between(part.gross, 1, 0, 0) = Between(part.gross, all, 0, 0)
            /\ Between(part.fee, 1, 0, 0) = Between(part.fee, all, 0, 0)
            /\ Between(part.net, 1, 0, 0) = Between(part.net, all, 0, 0)
            /\ Between(0, 1, 0, 0) = Between(0, all, 0, 0)
        BY <3>6, <4>1
      <4>3. [k \in DOMAIN part.fees |-> Between(part.fees[k], 1, 0, 0)]
               = [k \in DOMAIN part.fees |-> Between(part.fees[k], all, 0, 0)]
        <5>1. \A k \in DOMAIN part.fees : part.fees[k] \in Nat
          BY <4>1
        <5>2. QED
          BY <3>6, <5>1
      <4> HIDE DEF part, all
      <4>4. QED
        BY <4>2, <4>3 DEF PlanPart, part
    <3>9. QED
      BY <1>3, <3>2, <3>5, <3>7, <3>8
  <2>3. QED
    BY <2>1, <2>2
<1>7. Continues(plan, AfterException(p, amount))
  <2> DEFINE after == AfterException(p, amount)
  <2>1. DOMAIN after = Parts /\ after[p] = PlanPart(p, Affiliate(p), all, 0, to)
    BY DEF AfterException
  <2>2. \A q \in Parts \ {p} : after[q] = History[q]
    BY DEF AfterException
  <2> HIDE DEF after, plan, all, from, to
  <2>3. \E a \in Nat \ {0}, f \in Nat, t \in Nat :
           /\ f <= t /\ t <= a
           /\ History[p] = PlanPart(p, Affiliate(p), a, 0, f)
           /\ plan[p] = PlanPart(p, Affiliate(p), a, f, t)
           /\ after[p] = PlanPart(p, Affiliate(p), a, 0, t)
    BY <1>1, <1>2, <1>4, <1>6, <2>1
  <2>4. QED
    BY <1>4, <2>1, <2>2, <2>3 DEF Continues, after
<1>8. plan[p].customer = amount
  <2>1. plan[p].customer = Between(all, all, from, to)
    BY <1>4 DEF PlanPart
  <2> HIDE DEF all, from, to
  <2>2. /\ Between(all, all, from, to) = (all * to) \div all - (all * from) \div all
    BY DEF Between
  <2>3. \A t \in Nat : (all * t) \div all = t
    <3>1. ASSUME NEW t \in Nat PROVE (t * all) \div all = t
      BY <1>1, FloorOfAll
    <3>2. \A t \in Nat : all * t = t * all
      BY <1>1
    <3>3. QED
      BY <3>1, <3>2
  <2>4. QED
    BY <1>2, <2>1, <2>2, <2>3
<1> HIDE DEF plan
<1>9. QED
  BY <1>2, <1>6, <1>7, <1>8 DEF plan

-----------------------------------------------------------------------------
(* The invariant holds initially and is preserved *)

\* Nothing was refunded of a new capture, and nothing was booked.
LEMMA InitInv == Init => IInv
<1> SUFFICES ASSUME Init PROVE IInv
  OBVIOUS
<1>1. GoodQuote(quote)
  BY QuoteIsGood DEF Init
<1>2. /\ \A p \in Parts : returned[p] = 0 /\ refunded[p] = 0
      /\ exceptions = {}
      /\ \A l \in Lots : reversed[l] = 0
      /\ journal = CaptureJournal(quote)
  BY DEF Init
<1>3. Typed
  <2>1. ASSUME NEW p \in Parts PROVE returned[p] \in 0..quote.parts[p].quantity /\ refunded[p] \in Nat
    BY <1>1, <1>2, QuoteRows DEF GoodPart
  <2>2. QED
    BY <1>2, <2>1 DEF Typed
<1>4. GoodPlan(History) /\ DOMAIN History = Parts
  BY <1>1, <1>3, HistoryIsPlan
<1>5. ASSUME NEW p \in Parts
      PROVE  /\ History[p].customer = 0 /\ History[p].funding = 0 /\ History[p].net = 0
             /\ History[p].affiliate = 0 /\ \A k \in 1..4 : History[p].fees[k] = 0
  <2> DEFINE part == quote.parts[p]
             all  == part.quantity
  <2>1. History[p] = PlanPart(p, Affiliate(p), all, 0, 0)
    BY <1>2 DEF History, Extent, Progress
  <2>2. /\ part.customer \in Nat /\ part.funding \in Nat /\ part.net \in Nat
        /\ Affiliate(p) \in Nat /\ all \in Nat \ {0}
        /\ DOMAIN part.fees = 1..4 /\ \A k \in 1..4 : part.fees[k] \in Nat
    BY <1>1, QuoteRows, CommissionDivided DEF GoodPart
  <2>3. ASSUME NEW x \in Nat PROVE Between(x, all, 0, 0) = 0
    <3>1. 0 \in Nat /\ 0 <= 0
      OBVIOUS
    <3>2. QED
      BY <2>2, <3>1, BetweenFacts
  <2>4. /\ History[p].customer = Between(part.customer, all, 0, 0)
        /\ History[p].funding = Between(part.funding, all, 0, 0)
        /\ History[p].net = Between(part.net, all, 0, 0)
        /\ History[p].affiliate = Between(Affiliate(p), all, 0, 0)
        /\ History[p].fees = [k \in DOMAIN part.fees |-> Between(part.fees[k], all, 0, 0)]
    BY <2>1 DEF PlanPart
  <2> HIDE DEF part, all
  <2>5. QED
    BY <2>2, <2>3, <2>4
<1>6. ASSUME NEW p \in Parts PROVE RowsAdd(History[p], History[p], History[p])
  BY <1>5 DEF RowsAdd
<1>7. /\ Over(History, "affiliate") = Over(History, "affiliate") + Over(History, "affiliate")
      /\ \A a \in Accounts :
            RefundJournal(History)[a] = RefundJournal(History)[a] + RefundJournal(History)[a]
  <2> DEFINE rows == History
  <2>1. /\ GoodPlan(rows)
        /\ \A p \in DOMAIN rows :
              IF p \in DOMAIN rows THEN RowsAdd(rows[p], rows[p], rows[p]) ELSE rows[p] = rows[p]
    BY <1>4, <1>6
  <2> HIDE DEF rows
  <2>2. /\ Over(rows, "affiliate") = Over(rows, "affiliate") + Over(rows, "affiliate")
        /\ \A a \in Accounts :
              RefundJournal(rows)[a] = RefundJournal(rows)[a] + RefundJournal(rows)[a]
    BY <2>1, JournalsAdd
  <2>3. QED
    BY <2>2 DEF rows
<1>8. /\ Over(History, "affiliate") \in Nat
      /\ \A a \in Accounts : RefundJournal(History)[a] \in Int /\ CaptureJournal(quote)[a] \in Int
  BY <1>1, <1>4, JournalOfPlanBalances, CaptureBalances
<1>9. Over(History, "affiliate") = 0 /\ \A a \in Accounts : RefundJournal(History)[a] = 0
  <2>1. \A x \in Int : x = x + x => x = 0
    OBVIOUS
  <2>2. \A x \in Nat : x \in Int
    OBVIOUS
  <2>3. QED
    BY <1>7, <1>8, <2>1, <2>2, Zenon
<1>10. \A a \in Accounts : journal[a] = CaptureJournal(quote)[a] + RefundJournal(History)[a]
  BY <1>2, <1>8, <1>9
<1>11. AffiliatePending \in Lots /\ Parts \subseteq Lots
  BY DEF Lots
<1>12. Telescoped
  BY <1>2, <1>5, <1>9, <1>10, <1>11 DEF Telescoped
<1>13. QED
  BY <1>1, <1>3, <1>12 DEF IInv

\* Booking a plan that continues the history.
LEMMA BookContinues ==
  ASSUME IInv, NEW plan, NEW after, Continues(plan, after), Book(plan),
         Typed', History' = after
  PROVE  IInv'
<1>1. quote' = quote /\ Parts' = Parts /\ Lots' = Lots
  BY DEF Book, Parts, Lots
<1>2. GoodQuote(quote)'
  BY <1>1 DEF IInv
<1>3. \A p \in Parts : refunded'[p] = after[p].customer /\ reversed'[p] = after[p].net
  <2>1. ASSUME NEW p \in Parts
        PROVE  refunded'[p] = after[p].customer /\ reversed'[p] = after[p].net
    <3>1. /\ refunded'[p] = refunded[p] + (IF p \in DOMAIN plan THEN plan[p].customer ELSE 0)
          /\ reversed'[p] = reversed[p] + Reversal(plan)[p]
      BY DEF Book, Lots
    <3>2. QED
      BY <3>1, ContinuedIsAccepted
  <2>2. QED
    BY <2>1
<1>4. reversed'[AffiliatePending] = Over(after, "affiliate")
  <2>1. reversed'[AffiliatePending]
          = reversed[AffiliatePending] + Reversal(plan)[AffiliatePending]
    BY DEF Book, Lots
  <2>2. QED
    BY <2>1, ContinuedIsAccepted
<1>5. \A a \in Accounts : journal'[a] = CaptureJournal(quote)[a] + RefundJournal(after)[a]
  <2>1. ASSUME NEW a \in Accounts
        PROVE  journal'[a] = CaptureJournal(quote)[a] + RefundJournal(after)[a]
    <3>1. journal'[a] = journal[a] + RefundJournal(plan)[a]
      BY DEF Book
    <3>2. QED
      BY <3>1, ContinuedIsAccepted
  <2>2. QED
    BY <2>1
<1>6. Telescoped'
  <2>1. Telescoped'
          <=> /\ \A p \in Parts' : refunded'[p] = History'[p].customer
                                   /\ reversed'[p] = History'[p].net
              /\ reversed'[AffiliatePending] = Over(History', "affiliate")
              /\ \A a \in Accounts :
                    journal'[a] = CaptureJournal(quote')[a] + RefundJournal(History')[a]
    BY DEF Telescoped
  <2>2. QED
    BY <1>1, <1>3, <1>4, <1>5, <2>1
<1>7. QED
  BY <1>2, <1>6 DEF IInv

\* The history after a step that leaves the quote as it is.
LEMMA HistoryAfter ==
  ASSUME quote' = quote
  PROVE  History' = [p \in Parts |-> PlanPart(p, Affiliate(p), Extent(p)', 0, Progress(p)')]
<1>1. Parts' = Parts /\ Items' = Items
  BY DEF Parts, Items
<1>2. AffiliateByPart' = AffiliateByPart
  BY <1>1 DEF AffiliateByPart, Commission
<1>3. \A p : Affiliate(p)' = Affiliate(p)
  BY <1>1, <1>2 DEF Affiliate
<1>4. \A p, affiliate, all, from, to :
         PlanPart(p, affiliate, all, from, to)' = PlanPart(p, affiliate, all, from, to)
  BY DEF PlanPart
<1>5. ASSUME NEW p \in Parts
      PROVE  History'[p] = PlanPart(p, Affiliate(p), Extent(p)', 0, Progress(p)')
  BY <1>1, <1>3 DEF History, PlanPart
<1>6. DOMAIN History' = Parts
  BY <1>1 DEF History
<1>7. QED
  BY <1>1, <1>3 DEF History, PlanPart

\* A refund by units.
LEMMA QuantitiesInv == IInv /\ RefundQuantities => IInv'
<1> SUFFICES ASSUME IInv, RefundQuantities PROVE IInv'
  OBVIOUS
<1>1. PICK plan \in QuantityPlans :
         /\ Book(plan)
         /\ returned' = [p \in Parts |->
               returned[p] + IF p \in DOMAIN plan THEN plan[p].quantity ELSE 0]
         /\ exceptions' = exceptions
  BY DEF RefundQuantities
<1>2. GoodQuote(quote) /\ Typed
  BY DEF IInv
<1>3. /\ Continues(plan, AfterUnits(plan))
      /\ DOMAIN plan \subseteq Parts /\ DOMAIN plan \cap exceptions = {}
      /\ \A p \in DOMAIN plan : /\ plan[p].quantity \in Nat
                                /\ returned[p] + plan[p].quantity
                                      \in 0..quote.parts[p].quantity
  BY <1>2, UnitsContinue
<1>4. quote' = quote /\ Parts' = Parts
  BY <1>1 DEF Book, Parts
<1>5. ASSUME NEW p \in Parts
      PROVE  /\ refunded'[p] = AfterUnits(plan)[p].customer
             /\ AfterUnits(plan)[p].customer \in Nat
             /\ p \in exceptions => refunded'[p] = refunded[p]
  <2>1. /\ refunded[p] + (IF p \in DOMAIN plan THEN plan[p].customer ELSE 0)
             = AfterUnits(plan)[p].customer
        /\ AfterUnits(plan)[p].customer \in Nat
    BY <1>3, ContinuedIsAccepted
  <2>2. refunded'[p] = refunded[p] + (IF p \in DOMAIN plan THEN plan[p].customer ELSE 0)
    BY <1>1 DEF Book
  <2>3. refunded[p] \in Nat
    BY <1>2 DEF Typed
  <2>4. p \in exceptions => p \notin DOMAIN plan
    BY <1>3
  <2>5. QED
    BY <2>1, <2>2, <2>3, <2>4
<1>6. ASSUME NEW p \in Parts
      PROVE  /\ returned'[p] = returned[p] + (IF p \in DOMAIN plan THEN plan[p].quantity ELSE 0)
             /\ returned'[p] \in 0..quote.parts[p].quantity
             /\ p \in exceptions => returned'[p] = returned[p]
  <2>1. returned'[p] = returned[p] + (IF p \in DOMAIN plan THEN plan[p].quantity ELSE 0)
    BY <1>1
  <2>2. returned[p] \in 0..quote.parts[p].quantity
    BY <1>2 DEF Typed
  <2>3. CASE p \in DOMAIN plan
    BY <1>3, <2>1, <2>3
  <2>4. CASE p \notin DOMAIN plan
    BY <2>1, <2>2, <2>4
  <2>5. QED
    BY <2>1, <2>3, <2>4
<1>7. Typed'
  <2>1. ASSUME NEW p \in Parts
        PROVE  returned'[p] \in 0..quote'.parts[p].quantity /\ refunded'[p] \in Nat
    BY <1>4, <1>5, <1>6
  <2>2. ASSUME NEW p \in exceptions
        PROVE  p \in Parts /\ p[1] = Shipping /\ returned'[p] = 0
               /\ refunded'[p] <= quote'.parts[p].customer
    BY <1>2, <1>4, <1>5, <1>6 DEF Typed
  <2>3. QED
    BY <1>1, <1>4, <2>1, <2>2 DEF Typed
<1>8. History' = AfterUnits(plan)
  <2>1. ASSUME NEW p \in Parts
        PROVE  /\ Extent(p)' = Extent(p)
               /\ Progress(p)'
                    = Progress(p) + IF p \in DOMAIN plan THEN plan[p].quantity ELSE 0
    <3>1. CASE p \in exceptions
      <4>1. Extent(p)' = Extent(p) /\ Progress(p)' = refunded'[p] /\ Progress(p) = refunded[p]
        BY <1>1, <1>4, <3>1 DEF Extent, Progress
      <4>2. refunded'[p] = refunded[p] /\ refunded[p] \in Nat /\ p \notin DOMAIN plan
        BY <1>2, <1>3, <1>5, <3>1 DEF Typed
      <4>3. QED
        BY <4>1, <4>2
    <3>2. CASE p \notin exceptions
      BY <1>1, <1>4, <1>6, <3>2 DEF Extent, Progress
    <3>3. QED
      BY <3>1, <3>2
  <2>2. History' = [p \in Parts |-> PlanPart(p, Affiliate(p), Extent(p)', 0, Progress(p)')]
    BY <1>4, HistoryAfter
  <2>3. ASSUME NEW p \in Parts
        PROVE  PlanPart(p, Affiliate(p), Extent(p)', 0, Progress(p)')
                 = PlanPart(p, Affiliate(p), Extent(p), 0,
                            Progress(p) + IF p \in DOMAIN plan THEN plan[p].quantity ELSE 0)
    BY <2>1
  <2>4. QED
    BY <2>2, <2>3 DEF AfterUnits
<1>9. QED
  BY <1>1, <1>3, <1>7, <1>8, BookContinues

\* An exception.
LEMMA ExceptionInv == IInv /\ RefundShippingException => IInv'
<1> SUFFICES ASSUME IInv, RefundShippingException PROVE IInv'
  OBVIOUS
<1>1. PICK plan \in ExceptionPlans :
         /\ Book(plan)
         /\ exceptions' = exceptions \cup DOMAIN plan
         /\ returned' = returned
  BY DEF RefundShippingException
<1>2. GoodQuote(quote) /\ Typed /\ Telescoped
  BY DEF IInv
<1>3. PICK p, amount :
         /\ p \in Parts /\ amount \in 1..(quote.parts[p].customer - refunded[p])
         /\ p[1] = Shipping /\ plan = ExceptionPlan(p, amount)
  BY DEF ExceptionPlans
<1> DEFINE after == AfterException(p, amount)
<1>4. /\ Continues(plan, after)
      /\ returned[p] = 0
      /\ refunded[p] + amount <= quote.parts[p].customer
      /\ plan[p].customer = amount
  BY <1>2, <1>3, ExceptionContinues
<1>5. quote' = quote /\ Parts' = Parts /\ DOMAIN plan = {p}
  BY <1>1, <1>3 DEF Book, Parts, ExceptionPlan
<1>6. ASSUME NEW q \in Parts
      PROVE  /\ refunded'[q] = IF q = p THEN refunded[p] + amount ELSE refunded[q]
             /\ refunded'[q] \in Nat
  <2>1. refunded'[q] = refunded[q] + (IF q \in DOMAIN plan THEN plan[q].customer ELSE 0)
    BY <1>1 DEF Book
  <2>2. refunded[q] \in Nat /\ refunded[p] \in Nat /\ amount \in Nat
    BY <1>2, <1>3 DEF Typed
  <2>3. QED
    BY <1>4, <1>5, <2>1, <2>2
<1>7. Typed'
  <2>1. ASSUME NEW q \in Parts
        PROVE  returned'[q] \in 0..quote'.parts[q].quantity /\ refunded'[q] \in Nat
    BY <1>1, <1>2, <1>5, <1>6 DEF Typed
  <2>2. ASSUME NEW q \in exceptions \cup {p}
        PROVE  q \in Parts /\ q[1] = Shipping /\ returned'[q] = 0
               /\ refunded'[q] <= quote'.parts[q].customer
    <3>1. q \in Parts /\ q[1] = Shipping /\ returned'[q] = 0
      BY <1>1, <1>2, <1>3, <1>4 DEF Typed
    <3>2. refunded'[q] <= quote'.parts[q].customer
      BY <1>2, <1>4, <1>5, <1>6, <3>1 DEF Typed
    <3>3. QED
      BY <3>1, <3>2
  <2>3. QED
    BY <1>1, <1>5, <2>1, <2>2 DEF Typed
<1>8. History' = after
  <2>1. ASSUME NEW q \in Parts, q # p
        PROVE  Extent(q)' = Extent(q) /\ Progress(q)' = Progress(q)
    BY <1>1, <1>5, <1>6, <2>1 DEF Extent, Progress
  <2>2. Extent(p)' = quote.parts[p].customer /\ Progress(p)' = refunded[p] + amount
    <3>1. p \in exceptions' /\ refunded'[p] = refunded[p] + amount
      BY <1>1, <1>3, <1>5, <1>6
    <3>2. QED
      BY <1>5, <3>1 DEF Extent, Progress
  <2>3. History' = [q \in Parts |-> PlanPart(q, Affiliate(q), Extent(q)', 0, Progress(q)')]
    BY <1>5, HistoryAfter
  <2>4. ASSUME NEW q \in Parts
        PROVE  PlanPart(q, Affiliate(q), Extent(q)', 0, Progress(q)') = after[q]
    <3>1. CASE q = p
      BY <2>2, <3>1 DEF AfterException
    <3>2. CASE q # p
      BY <2>1, <3>2 DEF AfterException, History
    <3>3. QED
      BY <3>1, <3>2
  <2>5. after = [q \in Parts |-> after[q]]
    BY DEF AfterException
  <2> HIDE DEF after
  <2>6. QED
    BY <2>3, <2>4, <2>5
<1> HIDE DEF after
<1>9. QED
  BY <1>1, <1>4, <1>7, <1>8, BookContinues

\* Every reachable state is that of one refund of what was refunded so far.
THEOREM Inductive == Spec => []IInv
<1>1. IInv /\ [Next]_vars => IInv'
  <2> SUFFICES ASSUME IInv, [Next]_vars PROVE IInv'
    OBVIOUS
  <2>1. CASE RefundQuantities
    BY <2>1, QuantitiesInv
  <2>2. CASE RefundShippingException
    BY <2>2, ExceptionInv
  <2>3. CASE UNCHANGED vars
    <3>1. /\ quote' = quote /\ returned' = returned /\ refunded' = refunded
          /\ exceptions' = exceptions /\ reversed' = reversed /\ journal' = journal
      BY <2>3 DEF vars
    <3>2. \A p : Extent(p)' = Extent(p) /\ Progress(p)' = Progress(p)
      BY <3>1 DEF Extent, Progress
    <3>3. History' = [p \in Parts |-> PlanPart(p, Affiliate(p), Extent(p)', 0, Progress(p)')]
      BY <3>1, HistoryAfter
    <3>4. History' = History
      BY <3>2, <3>3 DEF History
    <3>5. Parts' = Parts
      BY <3>1 DEF Parts
    <3>6. Typed'
      BY <3>1, <3>5 DEF IInv, Typed
    <3>7. Telescoped'
      BY <3>1, <3>4, <3>5 DEF IInv, Telescoped
    <3>8. QED
      BY <3>1, <3>6, <3>7 DEF IInv
  <2>4. QED
    BY <2>1, <2>2, <2>3 DEF Next
<1>2. QED
  BY <1>1, InitInv, PTL DEF Spec

-----------------------------------------------------------------------------
(* What follows of the invariant *)

\* The rows of the history are bounded by the parts, and a complete row is the
\* part.
LEMMA HistoryBounds ==
  ASSUME IInv, NEW p \in Parts
  PROVE  /\ History[p].customer \in 0..quote.parts[p].customer
         /\ History[p].net \in 0..quote.parts[p].net
         /\ History[p].affiliate \in 0..Affiliate(p)
         /\ Complete(p) => /\ History[p].customer = quote.parts[p].customer
                           /\ History[p].funding = quote.parts[p].funding
                           /\ History[p].net = quote.parts[p].net
                           /\ History[p].affiliate = Affiliate(p)
                           /\ History[p].fees = quote.parts[p].fees
<1>1. GoodQuote(quote) /\ Typed /\ Telescoped
  BY DEF IInv
<1>2. GoodPart(quote.parts[p]) /\ Affiliate(p) \in Nat
  BY <1>1, QuoteRows, CommissionDivided
<1>3. Extent(p) \in Nat \ {0} /\ Progress(p) \in 0..Extent(p)
  BY <1>1, HistoryIsPlan
<1>4. History[p] = PlanPart(p, Affiliate(p), Extent(p), 0, Progress(p))
  BY DEF History
<1>5. /\ History[p].customer \in Nat /\ History[p].net \in Nat /\ History[p].affiliate \in Nat
  BY <1>1, HistoryIsPlan DEF GoodPlan, GoodRows, GoodRow
<1>6. /\ History[p].customer <= quote.parts[p].customer
      /\ History[p].net <= quote.parts[p].net
      /\ History[p].affiliate <= Affiliate(p)
      /\ Progress(p) = Extent(p) =>
            /\ History[p].customer = quote.parts[p].customer
            /\ History[p].funding = quote.parts[p].funding
            /\ History[p].net = quote.parts[p].net
            /\ History[p].affiliate = Affiliate(p)
            /\ History[p].fees = quote.parts[p].fees
  BY <1>2, <1>3, <1>4, PlanPartBounds
<1>7. Complete(p) => Progress(p) = Extent(p)
  <2>1. quote.parts[p].quantity \in Nat \ {0}
    BY <1>2 DEF GoodPart
  <2>2. p \in exceptions => returned[p] = 0
    BY <1>1 DEF Typed
  <2>3. QED
    BY <2>1, <2>2 DEF Complete, Progress, Extent
<1>8. quote.parts[p].customer \in Nat /\ quote.parts[p].net \in Nat
  BY <1>2 DEF GoodPart
<1>9. QED
  BY <1>2, <1>5, <1>6, <1>7, <1>8

\* What the affiliate lost is at most the commission, and all of it once all
\* items are refunded.
LEMMA AffiliateBounds ==
  ASSUME IInv
  PROVE  /\ Over(History, "affiliate") \in 0..quote.commission
         /\ (\A p \in Items : Complete(p)) => Over(History, "affiliate") = quote.commission
<1> DEFINE f == Column(History, "affiliate")
           g == [p \in Parts |-> Affiliate(p)]
<1>1. GoodQuote(quote) /\ Typed
  BY DEF IInv
<1>2. GoodPlan(History) /\ DOMAIN History = Parts
  BY <1>1, HistoryIsPlan
<1>3. AmountsOn(f, Parts) /\ Over(History, "affiliate") = Total(f, Parts)
  BY <1>2, AffiliateAmounts
<1>4. /\ AmountsOn(g, Parts) /\ Total(g, Parts) = quote.commission
      /\ Total(g, Items) = quote.commission /\ quote.commission \in Nat
  BY <1>1, CommissionDivided DEF GoodQuote
<1>5. Items \in SUBSET Parts
  BY DEF Items
<1>6. ASSUME NEW p \in Parts
      PROVE  /\ f[p] <= g[p] /\ f[p] \in Nat /\ g[p] = Affiliate(p)
             /\ Complete(p) => f[p] = g[p]
             /\ p \notin Items => f[p] = 0
  <2>1. f[p] = History[p].affiliate /\ g[p] = Affiliate(p)
    BY <1>2 DEF Column
  <2>2. /\ History[p].affiliate \in 0..Affiliate(p)
        /\ Complete(p) => History[p].affiliate = Affiliate(p)
    BY HistoryBounds
  <2>3. Affiliate(p) \in Nat
    BY <1>1, CommissionDivided
  <2>4. p \notin Items => Affiliate(p) = 0
    BY DEF Affiliate
  <2> HIDE DEF f, g
  <2>5. QED
    BY <2>1, <2>2, <2>3, <2>4
<1> HIDE DEF f, g
<1>7. Total(f, Parts) \in Nat /\ Total(f, Parts) <= Total(g, Parts)
  BY <1>3, <1>4, <1>6, TotalNat, TotalMonotone
<1>8. ASSUME \A p \in Items : Complete(p)
      PROVE  Total(f, Parts) = quote.commission
  <2>1. \A p \in Parts \ Items : f[p] = 0
    BY <1>6
  <2>2. Total(f, Parts) = Total(f, Items)
    BY <1>5, <2>1, TotalSupport
  <2>3. \A p \in Items : f[p] = g[p]
    BY <1>5, <1>6, <1>8
  <2>4. Total(f, Items) = Total(g, Items)
    BY <2>3, TotalEq
  <2>5. QED
    BY <1>4, <2>2, <2>4
<1>9. QED
  BY <1>3, <1>4, <1>7, <1>8

\* No part gives the customer, and no lot loses, more than was captured, and
\* what is refunded completely is refunded down to the last minor unit
\* (refundByQuantity, buildEconomicQuote).
THEOREM Telescopes == Spec => []RefundsTelescope
<1>1. IInv => RefundsTelescope
  <2> SUFFICES ASSUME IInv PROVE RefundsTelescope
    OBVIOUS
  <2>1. /\ \A p \in Parts : refunded[p] = History[p].customer /\ reversed[p] = History[p].net
        /\ reversed[AffiliatePending] = Over(History, "affiliate")
    BY DEF IInv, Telescoped
  <2>2. ASSUME NEW p \in Parts
        PROVE  /\ refunded[p] \in 0..quote.parts[p].customer
               /\ reversed[p] \in 0..quote.parts[p].net
               /\ Complete(p) => /\ refunded[p] = quote.parts[p].customer
                                 /\ reversed[p] = quote.parts[p].net
    BY <2>1, HistoryBounds
  <2>3. QED
    BY <2>1, <2>2, AffiliateBounds DEF RefundsTelescope
<1>2. QED
  BY <1>1, Inductive, PTL

\* Journal and balances tell the same story at every moment, and all accounts
\* are even when everything is refunded (plannedRefundJournal,
\* refundLotImpact).
THEOREM BooksMatch == Spec => []BooksMatchLots
<1>1. IInv => BooksMatchLots
  <2> SUFFICES ASSUME IInv PROVE BooksMatchLots
    OBVIOUS
  <2> DEFINE parts == quote.parts
             rows  == History
  <2>1. /\ \A p \in Parts : refunded[p] = rows[p].customer /\ reversed[p] = rows[p].net
        /\ reversed[AffiliatePending] = Over(rows, "affiliate")
        /\ \A a \in Accounts : journal[a] = CaptureJournal(quote)[a] + RefundJournal(rows)[a]
    BY DEF IInv, Telescoped
  <2>2. GoodQuote(quote) /\ GoodPlan(rows) /\ GoodRows(rows) /\ DOMAIN rows = Parts
    BY HistoryIsPlan DEF IInv, GoodPlan
  <2>3. /\ Over(parts, "customer") \in Nat /\ Over(parts, "funding") \in Nat
        /\ Over(parts, "gross") \in Nat /\ Over(parts, "fee") \in Nat
        /\ Over(parts, "net") \in Nat /\ TaxOver(parts) \in Nat /\ RevenueOver(parts) \in Nat
        /\ quote.commission \in Nat
        /\ Over(parts, "gross") = Over(parts, "customer") + Over(parts, "funding")
        /\ Over(parts, "gross") = Over(parts, "fee") + Over(parts, "net")
        /\ Over(parts, "fee") = TaxOver(parts) + RevenueOver(parts)
    BY <2>2, CaptureTotals
  <2>4. /\ Over(rows, "customer") \in Nat /\ Over(rows, "funding") \in Nat
        /\ Over(rows, "net") \in Nat /\ Over(rows, "affiliate") \in Nat
        /\ TaxOver(rows) \in Nat /\ RevenueOver(rows) \in Nat
        /\ RoundingOver(rows) = (Over(rows, "customer") + Over(rows, "funding"))
                                  - (Over(rows, "net") + (TaxOver(rows) + RevenueOver(rows)))
    BY <2>2, ColumnAmounts, AffiliateAmounts, FeeAmounts, PlanRounding
  <2> HIDE DEF parts, rows
  <2>5. /\ journal["CUSTOMER_FUNDS"] = Over(parts, "customer") - Over(rows, "customer")
        /\ journal["PLATFORM_PROMOTION"] = Over(parts, "funding") - Over(rows, "funding")
        /\ journal["SELLER_PAYABLE"] = Over(rows, "net") - Over(parts, "net")
        /\ journal["TAX_PAYABLE"] = TaxOver(rows) - TaxOver(parts)
        /\ journal["PLATFORM_FEES"] = RevenueOver(rows) - RevenueOver(parts)
        /\ journal["PLATFORM_ROUNDING"] = RoundingOver(rows)
        /\ journal["PLATFORM_AFFILIATE_COST"] = quote.commission - Over(rows, "affiliate")
        /\ journal["AFFILIATE_PENDING"] = Over(rows, "affiliate") - quote.commission
    <3>1. /\ CaptureJournal(quote)["CUSTOMER_FUNDS"] = Over(parts, "customer")
          /\ CaptureJournal(quote)["PLATFORM_PROMOTION"] = Over(parts, "funding")
          /\ CaptureJournal(quote)["SELLER_PAYABLE"] = Over(parts, "fee") - Over(parts, "gross")
          /\ CaptureJournal(quote)["TAX_PAYABLE"] = -TaxOver(parts)
          /\ CaptureJournal(quote)["PLATFORM_FEES"] = TaxOver(parts) - Over(parts, "fee")
          /\ CaptureJournal(quote)["PLATFORM_ROUNDING"] = 0
          /\ CaptureJournal(quote)["PLATFORM_AFFILIATE_COST"] = quote.commission
          /\ CaptureJournal(quote)["AFFILIATE_PENDING"] = -quote.commission
      BY DEF CaptureJournal, Accounts, parts
    <3>2. /\ RefundJournal(rows)["CUSTOMER_FUNDS"] = -Over(rows, "customer")
          /\ RefundJournal(rows)["PLATFORM_PROMOTION"] = -Over(rows, "funding")
          /\ RefundJournal(rows)["SELLER_PAYABLE"] = Over(rows, "net")
          /\ RefundJournal(rows)["TAX_PAYABLE"] = TaxOver(rows)
          /\ RefundJournal(rows)["PLATFORM_FEES"] = RevenueOver(rows)
          /\ RefundJournal(rows)["PLATFORM_ROUNDING"] = RoundingOver(rows)
          /\ RefundJournal(rows)["PLATFORM_AFFILIATE_COST"] = -Over(rows, "affiliate")
          /\ RefundJournal(rows)["AFFILIATE_PENDING"] = Over(rows, "affiliate")
      BY DEF RefundJournal, Accounts
    <3> DEFINE capture == CaptureJournal(quote)
               refund  == RefundJournal(rows)
    <3>3. /\ journal["CUSTOMER_FUNDS"] = capture["CUSTOMER_FUNDS"] + refund["CUSTOMER_FUNDS"]
          /\ journal["PLATFORM_PROMOTION"]
                = capture["PLATFORM_PROMOTION"] + refund["PLATFORM_PROMOTION"]
          /\ journal["SELLER_PAYABLE"] = capture["SELLER_PAYABLE"] + refund["SELLER_PAYABLE"]
          /\ journal["TAX_PAYABLE"] = capture["TAX_PAYABLE"] + refund["TAX_PAYABLE"]
          /\ journal["PLATFORM_FEES"] = capture["PLATFORM_FEES"] + refund["PLATFORM_FEES"]
          /\ journal["PLATFORM_ROUNDING"]
                = capture["PLATFORM_ROUNDING"] + refund["PLATFORM_ROUNDING"]
          /\ journal["PLATFORM_AFFILIATE_COST"]
                = capture["PLATFORM_AFFILIATE_COST"] + refund["PLATFORM_AFFILIATE_COST"]
          /\ journal["AFFILIATE_PENDING"]
                = capture["AFFILIATE_PENDING"] + refund["AFFILIATE_PENDING"]
      BY <2>1 DEF Accounts
    <3> HIDE DEF capture, refund
    <3>4. RoundingOver(rows) \in Int
      BY <2>4
    <3>5. QED
      BY <2>3, <2>4, <3>1, <3>2, <3>3, <3>4 DEF capture, refund
  <2>6. journal["SELLER_PAYABLE"] = Total(reversed, Parts) - Over(parts, "net")
    <3>1. Over(rows, "net") = Total(Column(rows, "net"), Parts)
      BY <2>2, ColumnAmounts
    <3>2. \A p \in Parts : Column(rows, "net")[p] = reversed[p]
      BY <2>1, <2>2 DEF Column
    <3>3. Total(Column(rows, "net"), Parts) = Total(reversed, Parts)
      BY <3>2, TotalEq
    <3>4. QED
      BY <2>5, <3>1, <3>3
  <2>7. journal["CUSTOMER_FUNDS"] = Whole([p \in Parts |-> parts[p].customer - refunded[p]])
    <3> DEFINE f == Column(parts, "customer")
               g == Column(rows, "customer")
               h == [p \in Parts |-> parts[p].customer - refunded[p]]
    <3>1. /\ DOMAIN parts = Parts /\ GoodRows(parts)
      BY <2>2, QuoteRows DEF Parts, parts
    <3>2. /\ AmountsOn(f, Parts) /\ Over(parts, "customer") = Total(f, Parts)
          /\ AmountsOn(g, Parts) /\ Over(rows, "customer") = Total(g, Parts)
      BY <2>2, <3>1, ColumnAmounts
    <3>3. ASSUME NEW p \in Parts PROVE h[p] \in Nat /\ f[p] = h[p] + g[p]
      <4>1. f[p] = parts[p].customer /\ g[p] = rows[p].customer /\ refunded[p] = rows[p].customer
        BY <2>1, <2>2, <3>1 DEF Column
      <4>2. rows[p].customer \in 0..parts[p].customer
        BY HistoryBounds DEF rows, parts
      <4>3. parts[p].customer \in Nat
        BY <3>1 DEF GoodRows, GoodRow
      <4> HIDE DEF f, g
      <4>4. h[p] = parts[p].customer - rows[p].customer
        BY <4>1
      <4> HIDE DEF h
      <4>5. QED
        BY <4>1, <4>2, <4>3, <4>4
    <3>4. DOMAIN h = Parts
      OBVIOUS
    <3> HIDE DEF f, g, h
    <3>5. AmountsOn(h, Parts)
      BY <3>2, <3>3 DEF AmountsOn
    <3>6. Total(f, Parts) = Total(h, Parts) + Total(g, Parts) /\ Total(h, Parts) \in Nat
      BY <3>2, <3>3, <3>5, TotalAdd, TotalNat
    <3>7. Whole(h) = Total(h, Parts)
      BY <3>4 DEF Whole
    <3>8. QED
      BY <2>3, <2>4, <2>5, <3>2, <3>6, <3>7 DEF h
  <2>8. ASSUME \A p \in Parts : Complete(p)
        PROVE  \A a \in Accounts : journal[a] = 0
    <3>1. DOMAIN parts = Parts /\ DOMAIN rows = Parts
      BY <2>2 DEF Parts, parts
    <3>2. ASSUME NEW p \in Parts
          PROVE  /\ rows[p].customer = parts[p].customer /\ rows[p].funding = parts[p].funding
                 /\ rows[p].net = parts[p].net /\ rows[p].fees = parts[p].fees
      BY <2>8, HistoryBounds DEF rows, parts
    <3>3. /\ Column(rows, "customer") = Column(parts, "customer")
          /\ Column(rows, "funding") = Column(parts, "funding")
          /\ Column(rows, "net") = Column(parts, "net")
      BY <3>1, <3>2 DEF Column
    <3>4. /\ Over(rows, "customer") = Over(parts, "customer")
          /\ Over(rows, "funding") = Over(parts, "funding")
          /\ Over(rows, "net") = Over(parts, "net")
      BY <3>3 DEF Over
    <3>5. TaxOver(rows) = TaxOver(parts) /\ RevenueOver(rows) = RevenueOver(parts)
      <4>1. [p \in DOMAIN rows |-> Tax(rows[p].fees)]
              = [p \in DOMAIN parts |-> Tax(parts[p].fees)]
        BY <3>1, <3>2
      <4>2. [p \in DOMAIN rows |-> Revenue(rows[p].fees)]
              = [p \in DOMAIN parts |-> Revenue(parts[p].fees)]
        BY <3>1, <3>2
      <4>3. QED
        BY <4>1, <4>2 DEF TaxOver, RevenueOver
    <3>6. Over(rows, "affiliate") = quote.commission
      <4>1. Items \subseteq Parts
        BY DEF Items
      <4>2. QED
        BY <2>8, <4>1, AffiliateBounds DEF rows
    <3>7. QED
      BY <2>3, <2>4, <2>5, <3>4, <3>5, <3>6 DEF Accounts
  <2>9. journal["AFFILIATE_PENDING"] = reversed[AffiliatePending] - quote.commission
    BY <2>1, <2>5
  <2>10. QED
    BY <2>6, <2>7, <2>8, <2>9 DEF BooksMatchLots, parts
<1>2. QED
  BY <1>1, Inductive, PTL

\* No refund that may be selected is refused by the arithmetic, neither when
\* it is prepared nor when it is settled (platformRounding,
\* plannedRefundJournal, refundLotImpact).
THEOREM NeverRefused == Spec => []SelectableIsAccepted
<1>1. IInv => SelectableIsAccepted
  <2> SUFFICES ASSUME IInv, NEW plan \in QuantityPlans \cup ExceptionPlans
               PROVE  Accepted(plan)
    BY DEF SelectableIsAccepted
  <2>1. GoodQuote(quote) /\ Typed /\ Telescoped
    BY DEF IInv
  <2>2. CASE plan \in QuantityPlans
    BY <2>1, <2>2, UnitsContinue, ContinuedIsAccepted
  <2>3. CASE plan \in ExceptionPlans
    <3>1. PICK p, amount :
             /\ p \in Parts /\ amount \in 1..(quote.parts[p].customer - refunded[p])
             /\ p[1] = Shipping /\ plan = ExceptionPlan(p, amount)
      BY <2>3 DEF ExceptionPlans
    <3>2. Continues(plan, AfterException(p, amount))
      BY <2>1, <3>1, ExceptionContinues
    <3>3. QED
      BY <3>2, ContinuedIsAccepted
  <2>4. QED
    BY <2>2, <2>3
<1>2. QED
  BY <1>1, Inductive, PTL

\* The books of a capture and of all of its refunds balance at every moment
\* (captureJournal, plannedRefundJournal).
THEOREM BooksBalance == Spec => []Balanced(journal)
<1>1. IInv /\ DOMAIN journal = Accounts => Balanced(journal)
  <2> SUFFICES ASSUME IInv, DOMAIN journal = Accounts PROVE Balanced(journal)
    OBVIOUS
  <2> DEFINE capture == CaptureJournal(quote)
             refund  == RefundJournal(History)
  <2>1. \A a \in Accounts : journal[a] = capture[a] + refund[a]
    BY DEF IInv, Telescoped
  <2>2. GoodQuote(quote) /\ GoodPlan(History)
    BY HistoryIsPlan DEF IInv
  <2>3. /\ DOMAIN capture = Accounts /\ \A a \in Accounts : capture[a] \in Int
        /\ Balance(capture) = 0
    BY <2>2, CaptureBalances DEF Balanced
  <2>4. /\ DOMAIN refund = Accounts /\ \A a \in Accounts : refund[a] \in Int
        /\ Balance(refund) = 0
    BY <2>2, JournalOfPlanBalances DEF Balanced
  <2> HIDE DEF capture, refund
  <2>5. \A a \in Accounts : journal[a] \in Int
    BY <2>1, <2>3, <2>4
  <2> DEFINE Sum(e) == e["CUSTOMER_FUNDS"] + e["PLATFORM_PROMOTION"] + e["SELLER_PAYABLE"]
                         + e["TAX_PAYABLE"] + e["PLATFORM_FEES"] + e["PLATFORM_ROUNDING"]
                         + e["PLATFORM_AFFILIATE_COST"] + e["AFFILIATE_PENDING"]
  <2>6. Sum(capture) = 0
    BY <2>3, AccountBalance
  <2>7. Sum(refund) = 0
    BY <2>4, AccountBalance
  <2>8. Balance(journal) = Sum(journal)
    BY <2>5, AccountBalance
  <2>9. Sum(journal) = Sum(capture) + Sum(refund)
    BY <2>1, <2>3, <2>4 DEF Accounts
  <2> HIDE DEF Sum
  <2>10. QED
    BY <2>6, <2>7, <2>8, <2>9 DEF Balanced
<1>2. Spec => [](DOMAIN journal = Accounts)
  <2>1. Init => DOMAIN journal = Accounts
    BY DEF Init, CaptureJournal
  <2>2. DOMAIN journal = Accounts /\ [Next]_vars => (DOMAIN journal = Accounts)'
    BY DEF Next, RefundQuantities, RefundShippingException, Book, vars
  <2>3. QED
    BY <2>1, <2>2, PTL DEF Spec
<1>3. QED
  BY <1>1, <1>2, Inductive, PTL
=============================================================================
