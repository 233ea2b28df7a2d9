------------------------ MODULE MCEconomicFulfilment -------------------------
(***************************************************************************)
(* Two orders compete for the last piece of one variant; the first is      *)
(* printed automatically, and two administrators handle its printing.      *)
(***************************************************************************)
EXTENDS EconomicFulfilment, TLC

CONSTANTS o1, o2, plate, admin1, admin2, pod1, pod2, none, missing

Wanted == [p \in Pools |-> [o \in Orders |-> 1]]
Supply == [p \in Pools |-> 1]

\* Administrators are alike, and so are identities; one the provider never gives
\* stands for every mistyped reference.
Alike == Permutations(Callers) \cup Permutations(Own)
=============================================================================
