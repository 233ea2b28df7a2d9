---------------------------- MODULE MCOrderPaid ----------------------------
(***************************************************************************)
(* Processes, workers and shops of one order as model values.              *)
(***************************************************************************)
EXTENDS OrderPaid

CONSTANTS api1, api2, worker1, worker2, shop1, shop2, pod1, pod2, none
=============================================================================
