------------------------ MODULE MCEconomicRefundPlan -------------------------
(***************************************************************************)
(* Checkouts of two shops: one with two lines, shipping and perhaps gift   *)
(* wrap, whose fees are large for the parts they are divided among; and    *)
(* one with a single line.                                                 *)
(***************************************************************************)
EXTENDS EconomicRefundPlan

Line(shop, quantity, price) == [shop |-> shop, quantity |-> quantity, price |-> price]

SomeCheckouts ==
    {[lines             |-> <<Line(1, 3, price), Line(1, 1, 1), Line(2, 2, 2)>>,
      discount          |-> <<own, 1>>,
      coupon            |-> coupon,
      affiliateDiscount |-> 1,
      shipping          |-> <<shipping, 0>>,
      wrap              |-> wrap,
      rates             |-> [processing |-> <<1, 4>>, fixed |-> fixed, regulatory |-> <<1, 8>>,
                             regulated |-> {1}, transaction |-> <<1, 6>>, vat |-> <<1, 3>>,
                             commission |-> commission]] :
        price \in {1, 2, 5}, own \in {0, 2}, coupon \in {0, 3}, shipping \in {0, 3},
        wrap \in {0, 2}, fixed \in {0, 1}, commission \in {<<0, 1>>, <<1, 3>>}}
=============================================================================
