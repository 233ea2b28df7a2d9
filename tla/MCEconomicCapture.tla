-------------------------- MODULE MCEconomicCapture --------------------------
(***************************************************************************)
(* Two requests of the buyer and two webhook deliveries handle the payment *)
(* of one order.                                                           *)
(***************************************************************************)
EXTENDS EconomicCapture

CONSTANTS tab1, tab2, hook1, hook2, pay1, pay2, none
=============================================================================
