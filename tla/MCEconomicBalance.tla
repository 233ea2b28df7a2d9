-------------------------- MODULE MCEconomicBalance --------------------------
(***************************************************************************)
(* Two small instances of EconomicBalance.  Seller: one seller with a lot  *)
(* in each of two captures, so that a payout draws on two orders and a     *)
(* refund of one meets a debt recovered from the other.  Shared: one       *)
(* capture whose order feeds a seller's lot and an affiliate's.            *)
(***************************************************************************)
EXTENDS EconomicBalance, TLC

CONSTANTS seller, affiliate, cap1, cap2, pay1, pay2, pay3, tr1, tr2

MCTransferFor == tr1 :> pay1 @@ tr2 :> pay2

SellerLotAccount == 1 :> seller @@ 2 :> seller
SellerLotCapture == 1 :> cap1 @@ 2 :> cap2
SellerLotAmount  == 1 :> 2 @@ 2 :> 1
SellerPayoutOwner == pay1 :> seller @@ pay2 :> seller
SellerMinimum    == seller :> 1

SharedLotAccount == 1 :> seller @@ 2 :> affiliate
SharedLotCapture == 1 :> cap1 @@ 2 :> cap1
SharedLotAmount  == 1 :> 3 @@ 2 :> 2
SharedPayoutOwner == pay1 :> seller @@ pay2 :> affiliate @@ pay3 :> affiliate
SharedMinimum    == seller :> 2 @@ affiliate :> 1
=============================================================================
