------------------------------ MODULE MinorUnits ------------------------------
(***************************************************************************)
(* Sums of amounts in minor units, and their division among weights        *)
(* (apps/api/src/modules/finances/economic-policy.ts).  The code adds      *)
(* bigints in loops over rows; here the total of the amounts f[x], x \in S,*)
(* is the number of units they are made of.  It is a cardinality rather    *)
(* than a fold because facts about cardinalities can be proved (see        *)
(* MinorUnits_proofs).                                                     *)
(***************************************************************************)
EXTENDS Integers, FiniteSets

\* The units of the amount f[x]: <<x, 1>>, <<x, 2>>, ... <<x, f[x]>>.
Units(f, S) == UNION {{x} \X (1..f[x]) : x \in S}

Total(f, S) == Cardinality(Units(f, S))

PositivePart(n) == IF n > 0 THEN n ELSE 0

\* All of some amounts; a column of a table, and what it adds up to.
Whole(amounts)      == Total(amounts, DOMAIN amounts)
Column(rows, field) == [p \in DOMAIN rows |-> rows[p][field]]
Over(rows, field)   == Whole(Column(rows, field))

\* What debits and credits leave: the positive and the negative amounts are
\* added up apart.
Balance(entries) ==
    Whole([a \in DOMAIN entries |-> PositivePart(entries[a])])
        - Whole([a \in DOMAIN entries |-> PositivePart(-entries[a])])

-----------------------------------------------------------------------------
(* Allocation *)

\* The order of keys, which are pairs of a kind and a number.
Precedes(p, q) == p[1] < q[1] \/ (p[1] = q[1] /\ p[2] < q[2])

\* Money cannot be allocated to parts without weight.
Allocatable(total, weight) == total = 0 \/ Whole(weight) > 0

\* Largest remainder: every id gets its share rounded down, and the units
\* left over go to the largest remainders, ties to the first key.
AllocateMinorUnits(total, weight) ==
    LET ids  == DOMAIN weight
        all  == Whole(weight)
        share == [i \in ids |-> IF all = 0 THEN 0 ELSE (total * weight[i]) \div all]
        rest  == [i \in ids |-> IF all = 0 THEN 0 ELSE (total * weight[i]) % all]
        Ahead(i) == {j \in ids : \/ rest[j] > rest[i]
                                 \/ rest[j] = rest[i] /\ Precedes(j, i)}
        left == total - Whole(share)
    IN  [i \in ids |-> share[i] + IF Cardinality(Ahead(i)) < left THEN 1 ELSE 0]
=============================================================================
