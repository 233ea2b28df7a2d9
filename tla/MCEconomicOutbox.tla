--------------------------- MODULE MCEconomicOutbox ---------------------------
(***************************************************************************)
(* Two processes drain the outbox of an order with a capture and a refund  *)
(* of all of it.                                                           *)
(***************************************************************************)
EXTENDS EconomicOutbox, TLC

CONSTANTS w1, w2, capture, refund1

NoRefunds == <<>>
OneRefund == refund1 :> 2

WorkersAlike == Permutations(Workers)
=============================================================================
