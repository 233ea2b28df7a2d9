---------------------- MODULE MCEconomicRefundExecution ----------------------
(***************************************************************************)
(* Administrators and a webhook handler execute one refund request, while  *)
(* somebody may refund the charge in the provider's dashboard: the         *)
(* reference of that refund is also the one administrators mistype.        *)
(***************************************************************************)
EXTENDS EconomicRefundExecution

CONSTANTS admin1, admin2, hook, re1, other, none
=============================================================================
