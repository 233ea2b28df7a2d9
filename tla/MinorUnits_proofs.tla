--------------------------- MODULE MinorUnits_proofs ---------------------------
(***************************************************************************)
(* Facts about totals of amounts.  They are what the proofs about balances *)
(* and refunds use instead of an induction over rows: a total is a         *)
(* cardinality, so it can be split, compared, added and scaled with the    *)
(* theorems about finite sets.  Then division with its rounding, and the   *)
(* division of an amount among weights by largest remainder.               *)
(***************************************************************************)
EXTENDS MinorUnits, FiniteSetTheorems, TLAPS

\* f assigns an amount to every element of the finite set S.
AmountsOn(f, S) == IsFiniteSet(S) /\ \A x \in S : f[x] \in Nat

-----------------------------------------------------------------------------
\* A unit is a pair of an element and a position within its amount.
LEMMA UnitsDef ==
  ASSUME NEW f, NEW S, NEW u
  PROVE  u \in Units(f, S) <=> \E x \in S : \E i \in 1..f[x] : u = <<x, i>>
BY DEF Units

\* There are finitely many of them, so a total is a natural number.
LEMMA TotalNat ==
  ASSUME NEW f, NEW S, AmountsOn(f, S)
  PROVE  IsFiniteSet(Units(f, S)) /\ Total(f, S) \in Nat
<1> DEFINE block == [x \in S |-> {x} \X (1..f[x])]
           Blocks == {{x} \X (1..f[x]) : x \in S}
<1>1. block \in Surjection(S, Blocks)
  BY DEF Surjection
<1>2. IsFiniteSet(Blocks)
  BY <1>1, FS_Surjection DEF AmountsOn
<1>3. ASSUME NEW B \in Blocks PROVE IsFiniteSet(B)
  <2>1. PICK x \in S : B = {x} \X (1..f[x])
    OBVIOUS
  <2>2. IsFiniteSet({x})
    BY FS_Singleton
  <2>3. IsFiniteSet(1..f[x])
    BY FS_Interval DEF AmountsOn
  <2>4. QED
    BY <2>1, <2>2, <2>3, FS_Product
<1>4. IsFiniteSet(UNION Blocks)
  BY <1>2, <1>3, FS_UNION
<1>5. QED
  BY <1>4, FS_CardinalityType DEF Units, Total

\* Only the amounts of S matter.
LEMMA TotalEq ==
  ASSUME NEW f, NEW g, NEW S, \A x \in S : f[x] = g[x]
  PROVE  Total(f, S) = Total(g, S)
<1>1. {{x} \X (1..f[x]) : x \in S} = {{x} \X (1..g[x]) : x \in S}
  OBVIOUS
<1>2. QED
  BY <1>1 DEF Total, Units

\* Elements without an amount can be left out.
LEMMA TotalSupport ==
  ASSUME NEW f, NEW S, NEW T \in SUBSET S, \A x \in S \ T : f[x] = 0
  PROVE  Total(f, S) = Total(f, T)
<1>1. ASSUME NEW u PROVE u \in Units(f, S) <=> u \in Units(f, T)
  <2>1. ASSUME NEW x \in S, NEW i \in 1..f[x] PROVE x \in T
    <3>1. f[x] = 0 => FALSE
      BY <2>1
    <3>2. QED
      BY <3>1
  <2>2. QED
    BY <2>1, UnitsDef
<1>2. Units(f, S) = Units(f, T)
  BY <1>1
<1>3. QED
  BY <1>2 DEF Total

\* Nothing adds up to nothing.
LEMMA TotalZero ==
  ASSUME NEW f, NEW S, \A x \in S : f[x] = 0
  PROVE  Total(f, S) = 0
<1>1. Total(f, S) = Total(f, {})
  BY TotalSupport
<1>2. Units(f, {}) = {}
  BY DEF Units
<1>3. QED
  BY <1>1, <1>2, FS_EmptySet DEF Total

\* The amounts of disjoint sets add up.
LEMMA TotalSplit ==
  ASSUME NEW f, NEW S, NEW T, AmountsOn(f, S), AmountsOn(f, T), S \cap T = {}
  PROVE  Total(f, S \cup T) = Total(f, S) + Total(f, T)
<1>1. Units(f, S \cup T) = Units(f, S) \cup Units(f, T)
  BY UnitsDef
<1>2. Units(f, S) \cap Units(f, T) = {}
  <2>1. ASSUME NEW u, u \in Units(f, S), u \in Units(f, T) PROVE FALSE
    <3>1. PICK x \in S : \E i \in 1..f[x] : u = <<x, i>>
      BY <2>1, UnitsDef
    <3>2. PICK y \in T : \E i \in 1..f[y] : u = <<y, i>>
      BY <2>1, UnitsDef
    <3>3. x = y
      BY <3>1, <3>2
    <3>4. QED
      BY <3>3
  <2>2. QED
    BY <2>1
<1>3. IsFiniteSet(Units(f, S)) /\ IsFiniteSet(Units(f, T))
  BY TotalNat
<1>4. Cardinality(Units(f, S)) \in Nat /\ Cardinality(Units(f, T)) \in Nat
  BY <1>3, FS_CardinalityType
<1>5. Cardinality(Units(f, S) \cup Units(f, T))
        = Cardinality(Units(f, S)) + Cardinality(Units(f, T))
            - Cardinality(Units(f, S) \cap Units(f, T))
  BY <1>3, FS_Union, Zenon
<1>6. Cardinality(Units(f, S) \cap Units(f, T)) = 0
  BY <1>2, FS_EmptySet
<1>7. Total(f, S \cup T) = Cardinality(Units(f, S) \cup Units(f, T))
  BY <1>1 DEF Total
<1>8. QED
  BY <1>4, <1>5, <1>6, <1>7 DEF Total

\* Totals of sums are sums of totals.
LEMMA TotalAdd ==
  ASSUME NEW f, NEW g, NEW h, NEW S, AmountsOn(f, S), AmountsOn(g, S),
         \A x \in S : h[x] = f[x] + g[x]
  PROVE  Total(h, S) = Total(f, S) + Total(g, S)
<1> DEFINE Upper == Units(h, S) \ Units(f, S)
           shift == [u \in Units(g, S) |-> <<u[1], u[2] + f[u[1]]>>]
<1>1. AmountsOn(h, S)
  BY DEF AmountsOn
<1>2. Units(f, S) \subseteq Units(h, S)
  <2>1. ASSUME NEW u \in Units(f, S) PROVE u \in Units(h, S)
    <3>1a. PICK x \in S : \E i \in 1..f[x] : u = <<x, i>>
      BY UnitsDef
    <3>1. PICK i \in 1..f[x] : u = <<x, i>>
      BY <3>1a
    <3>2. i \in 1..h[x]
      BY <3>1 DEF AmountsOn
    <3>3. QED
      BY <3>1, <3>2, UnitsDef
  <2>2. QED
    BY <2>1
<1>3. ASSUME NEW x \in S, NEW j
      PROVE  <<x, j>> \in Upper <=> j \in (f[x] + 1)..h[x]
  <2>1. <<x, j>> \in Units(h, S) <=> j \in 1..h[x]
    BY UnitsDef
  <2>2. <<x, j>> \in Units(f, S) <=> j \in 1..f[x]
    BY UnitsDef
  <2>3. f[x] \in Nat /\ h[x] \in Nat
    BY <1>1 DEF AmountsOn
  <2>4. QED
    BY <2>1, <2>2, <2>3
<1>4. shift \in [Units(g, S) -> Upper]
  <2>1. ASSUME NEW u \in Units(g, S) PROVE <<u[1], u[2] + f[u[1]]>> \in Upper
    <3>1a. PICK x \in S : \E i \in 1..g[x] : u = <<x, i>>
      BY UnitsDef
    <3>1. PICK i \in 1..g[x] : u = <<x, i>>
      BY <3>1a
    <3>2. i + f[x] \in (f[x] + 1)..h[x]
      BY <3>1 DEF AmountsOn
    <3>3. QED
      BY <3>1, <3>2, <1>3
  <2>2. QED
    BY <2>1
<1>5. \A u, v \in Units(g, S) : shift[u] = shift[v] => u = v
  <2>1. ASSUME NEW u \in Units(g, S), NEW v \in Units(g, S), shift[u] = shift[v]
        PROVE  u = v
    <3>1a. PICK x \in S : \E i \in 1..g[x] : u = <<x, i>>
      BY UnitsDef
    <3>1. PICK i \in 1..g[x] : u = <<x, i>>
      BY <3>1a
    <3>2a. PICK y \in S : \E j \in 1..g[y] : v = <<y, j>>
      BY UnitsDef
    <3>2. PICK j \in 1..g[y] : v = <<y, j>>
      BY <3>2a
    <3>3. <<x, i + f[x]>> = <<y, j + f[y]>>
      BY <2>1, <3>1, <3>2
    <3>4. x = y /\ i + f[x] = j + f[x]
      BY <3>3
    <3>5. i = j
      BY <3>4 DEF AmountsOn
    <3>6. QED
      BY <3>1, <3>2, <3>4, <3>5
  <2>2. QED
    BY <2>1
<1>6. \A v \in Upper : \E u \in Units(g, S) : shift[u] = v
  <2>1. ASSUME NEW v \in Upper PROVE \E u \in Units(g, S) : shift[u] = v
    <3>1a. PICK x \in S : \E j \in 1..h[x] : v = <<x, j>>
      BY UnitsDef
    <3>1. PICK j \in 1..h[x] : v = <<x, j>>
      BY <3>1a
    <3>2. j \in (f[x] + 1)..h[x]
      BY <3>1, <1>3
    <3>3. f[x] \in Nat /\ g[x] \in Nat /\ h[x] = f[x] + g[x]
      BY DEF AmountsOn
    <3>4. j - f[x] \in 1..g[x] /\ (j - f[x]) + f[x] = j
      BY <3>2, <3>3
    <3>5. <<x, j - f[x]>> \in Units(g, S)
      BY <3>4, UnitsDef
    <3>6. shift[<<x, j - f[x]>>] = <<x, j>>
      BY <3>4, <3>5
    <3>7. QED
      BY <3>1, <3>5, <3>6
  <2>2. QED
    BY <2>1
<1>7. shift \in Bijection(Units(g, S), Upper)
  BY <1>4, <1>5, <1>6 DEF Bijection, Injection, Surjection, IsInjective
<1>8. /\ IsFiniteSet(Units(f, S)) /\ IsFiniteSet(Units(g, S)) /\ IsFiniteSet(Units(h, S))
      /\ Total(f, S) \in Nat /\ Total(g, S) \in Nat /\ Total(h, S) \in Nat
  BY <1>1, TotalNat
<1>9. Cardinality(Upper) = Cardinality(Units(g, S))
  BY <1>7, <1>8, FS_Bijection DEF ExistsBijection
<1>10. Units(h, S) \cap Units(f, S) = Units(f, S)
  BY <1>2
<1>11. Cardinality(Upper) = Cardinality(Units(h, S)) - Cardinality(Units(f, S))
  <2>1. Cardinality(Units(h, S) \ Units(f, S))
          = Cardinality(Units(h, S)) - Cardinality(Units(h, S) \cap Units(f, S))
    BY <1>8, FS_Difference, Zenon
  <2>2. QED
    BY <2>1, <1>10
<1>12. QED
  BY <1>8, <1>9, <1>11 DEF Total

\* Larger amounts have a larger total.
LEMMA TotalMonotone ==
  ASSUME NEW f, NEW h, NEW S, AmountsOn(f, S), AmountsOn(h, S),
         \A x \in S : f[x] <= h[x]
  PROVE  Total(f, S) <= Total(h, S)
<1> DEFINE g == [x \in S |-> h[x] - f[x]]
<1>1. AmountsOn(g, S) /\ \A x \in S : h[x] = f[x] + g[x]
  BY DEF AmountsOn
<1>2. Total(h, S) = Total(f, S) + Total(g, S)
  <2> HIDE DEF g
  <2> QED
    BY <1>1, TotalAdd
<1>3. QED
  BY <1>1, <1>2, TotalNat

\* So has a larger set.
LEMMA TotalSubset ==
  ASSUME NEW f, NEW S, NEW T \in SUBSET S, AmountsOn(f, S)
  PROVE  Total(f, T) <= Total(f, S)
<1>1. AmountsOn(f, T) /\ AmountsOn(f, S \ T)
  BY FS_Subset DEF AmountsOn
<1>2. T \cap (S \ T) = {} /\ T \cup (S \ T) = S
  OBVIOUS
<1>3. Total(f, S) = Total(f, T) + Total(f, S \ T)
  BY <1>1, <1>2, TotalSplit
<1>4. QED
  BY <1>1, <1>3, TotalNat

\* The total of one element is its amount.
LEMMA TotalSingleton ==
  ASSUME NEW f, NEW x, f[x] \in Nat
  PROVE  Total(f, {x}) = f[x]
<1>1. Units(f, {x}) = {x} \X (1..f[x])
  BY DEF Units
<1>2. IsFiniteSet({x}) /\ Cardinality({x}) = 1
  BY FS_Singleton
<1>3. IsFiniteSet(1..f[x]) /\ Cardinality(1..f[x]) = f[x]
  BY FS_Interval
<1>4. Cardinality({x} \X (1..f[x])) = Cardinality({x}) * Cardinality(1..f[x])
  BY <1>2, <1>3, FS_Product, Zenon
<1>5. Cardinality({x}) * Cardinality(1..f[x]) = f[x]
  <2>1. Cardinality(1..f[x]) = f[x]
    BY <1>3
  <2>2. 1 * f[x] = f[x]
    OBVIOUS
  <2>3. QED
    BY <1>2, <2>1, <2>2
<1>6. QED
  BY <1>1, <1>4, <1>5 DEF Total

\* Moving an element out of the set takes its amount away.
LEMMA TotalRemove ==
  ASSUME NEW f, NEW S, NEW x \in S, AmountsOn(f, S)
  PROVE  Total(f, S) = Total(f, S \ {x}) + f[x]
<1>1. AmountsOn(f, S \ {x}) /\ AmountsOn(f, {x}) /\ f[x] \in Nat
  BY FS_Subset, FS_Singleton DEF AmountsOn
<1>2. (S \ {x}) \cap {x} = {} /\ (S \ {x}) \cup {x} = S
  OBVIOUS
<1>3. Total(f, (S \ {x}) \cup {x}) = Total(f, S \ {x}) + Total(f, {x})
  BY <1>1, <1>2, TotalSplit
<1>4. QED
  BY <1>1, <1>2, <1>3, TotalSingleton

\* Adding one element adds its amount.
LEMMA TotalInsert ==
  ASSUME NEW f, NEW S, NEW x, x \notin S, AmountsOn(f, S), f[x] \in Nat
  PROVE  Total(f, S \cup {x}) = Total(f, S) + f[x]
<1>1. AmountsOn(f, {x}) /\ S \cap {x} = {}
  BY FS_Singleton DEF AmountsOn
<1>2. Total(f, S \cup {x}) = Total(f, S) + Total(f, {x})
  BY <1>1, TotalSplit
<1>3. QED
  BY <1>2, TotalSingleton

\* A constant amount, c for every element.
LEMMA TotalConstant ==
  ASSUME NEW f, NEW S, IsFiniteSet(S), NEW c \in Nat, \A x \in S : f[x] = c
  PROVE  Total(f, S) = c * Cardinality(S)
<1>1. Units(f, S) = S \X (1..c)
  <2>1. ASSUME NEW u PROVE u \in Units(f, S) <=> u \in S \X (1..c)
    BY UnitsDef
  <2>2. QED
    BY <2>1
<1>2. IsFiniteSet(1..c) /\ Cardinality(1..c) = c
  BY FS_Interval
<1>3. Cardinality(S \X (1..c)) = Cardinality(S) * Cardinality(1..c)
  BY <1>2, FS_Product, Zenon
<1>4. Cardinality(S) \in Nat
  BY FS_CardinalityType
<1>5. QED
  BY <1>1, <1>2, <1>3, <1>4 DEF Total

\* Totals are linear: c times the amounts have c times the total.
LEMMA TotalScale ==
  ASSUME NEW f, NEW g, NEW S, AmountsOn(f, S), NEW c \in Nat, \A x \in S : g[x] = c * f[x]
  PROVE  Total(g, S) = c * Total(f, S)
<1> DEFINE Pairs == Units(f, S) \X (1..c)
           place == [u \in Pairs |-> <<u[1][1], (u[1][2] - 1) * c + u[2]>>]
<1>1. AmountsOn(g, S)
  BY DEF AmountsOn
<1>2. ASSUME NEW u \in Pairs
      PROVE  \E x, i, j : /\ x \in S /\ i \in 1..f[x] /\ j \in 1..c
                          /\ u = <<<<x, i>>, j>> /\ place[u] = <<x, (i - 1) * c + j>>
  <2>1. u[1] \in Units(f, S) /\ u[2] \in 1..c /\ u = <<u[1], u[2]>>
    OBVIOUS
  <2>2. PICK x \in S : \E i \in 1..f[x] : u[1] = <<x, i>>
    BY <2>1, UnitsDef
  <2>3. PICK i \in 1..f[x] : u[1] = <<x, i>>
    BY <2>2
  <2>4. place[u] = <<u[1][1], (u[1][2] - 1) * c + u[2]>>
    OBVIOUS
  <2>5. u[1][1] = x /\ u[1][2] = i
    BY <2>3
  <2>6. u = <<<<x, i>>, u[2]>> /\ place[u] = <<x, (i - 1) * c + u[2]>>
    BY <2>1, <2>3, <2>4, <2>5
  <2> HIDE DEF place
  <2>7. QED
    BY <2>1, <2>6
<1>3. ASSUME NEW u \in Pairs PROVE place[u] \in Units(g, S)
  <2>1. PICK x, i, j : /\ x \in S /\ i \in 1..f[x] /\ j \in 1..c
                       /\ u = <<<<x, i>>, j>> /\ place[u] = <<x, (i - 1) * c + j>>
    BY <1>2
  <2>2. f[x] \in Nat /\ g[x] = c * f[x] /\ i \in 1..f[x] /\ j \in 1..c
    BY <2>1 DEF AmountsOn
  <2>3. (i - 1) * c + j \in 1..(c * f[x])
    <3>1. (i - 1) * c >= 0 /\ (i - 1) * c \in Int
      BY <2>2
    <3>2. (i - 1) * c + c <= c * f[x]
      BY <2>2
    <3>3. QED
      BY <3>1, <3>2, <2>2
  <2>4. QED
    BY <2>1, <2>2, <2>3, UnitsDef
<1>4. ASSUME NEW u \in Pairs, NEW v \in Pairs, place[u] = place[v] PROVE u = v
  <2>1. PICK x, i, j : /\ x \in S /\ i \in 1..f[x] /\ j \in 1..c
                       /\ u = <<<<x, i>>, j>> /\ place[u] = <<x, (i - 1) * c + j>>
    BY <1>2
  <2>2. PICK y, k, m : /\ y \in S /\ k \in 1..f[y] /\ m \in 1..c
                       /\ v = <<<<y, k>>, m>> /\ place[v] = <<y, (k - 1) * c + m>>
    BY <1>2
  <2>3. x = y /\ (i - 1) * c + j = (k - 1) * c + m
    BY <1>4, <2>1, <2>2
  <2>4. i \in Int /\ k \in Int /\ j \in 1..c /\ m \in 1..c
    BY <2>1, <2>2 DEF AmountsOn
  <2>5. i = k /\ j = m
    <3>1. ~(i < k)
      <4>1. ASSUME i < k PROVE FALSE
        <5>1. (i - 1) * c + c <= (k - 1) * c
          BY <4>1, <2>4
        <5>2. QED
          BY <5>1, <2>3, <2>4
      <4>2. QED
        BY <4>1
    <3>2. ~(k < i)
      <4>1. ASSUME k < i PROVE FALSE
        <5>1. (k - 1) * c + c <= (i - 1) * c
          BY <4>1, <2>4
        <5>2. QED
          BY <5>1, <2>3, <2>4
      <4>2. QED
        BY <4>1
    <3>3. QED
      BY <3>1, <3>2, <2>3, <2>4
  <2>6. QED
    BY <2>1, <2>2, <2>3, <2>5
<1>5. ASSUME NEW w \in Units(g, S) PROVE \E u \in Pairs : place[u] = w
  <2>1. PICK x \in S : \E k \in 1..g[x] : w = <<x, k>>
    BY UnitsDef
  <2>2. PICK k \in 1..g[x] : w = <<x, k>>
    BY <2>1
  <2>3. f[x] \in Nat /\ g[x] = c * f[x]
    BY DEF AmountsOn
  <2>4. c > 0
    BY <2>2, <2>3
  <2> DEFINE i == ((k - 1) \div c) + 1
             j == ((k - 1) % c) + 1
  <2>5. j \in 1..c /\ (i - 1) * c + j = k /\ i \in Int
    BY <2>2, <2>3, <2>4
  <2>6. i \in 1..f[x]
    <3>1. k - 1 >= 0 /\ k - 1 < c * f[x] /\ k \in Int
      BY <2>2, <2>3
    <3>2. (k - 1) \div c >= 0 /\ (k - 1) \div c < f[x]
      BY <3>1, <2>3, <2>4
    <3>3. QED
      BY <3>2, <2>3, <2>4, <3>1
  <2> HIDE DEF i, j
  <2>7. <<x, i>> \in Units(f, S)
    BY <2>6, UnitsDef
  <2>8. place[<<<<x, i>>, j>>] = <<x, (i - 1) * c + j>>
    BY <2>5, <2>7
  <2>9. QED
    BY <2>2, <2>5, <2>7, <2>8
<1>6. place \in Bijection(Pairs, Units(g, S))
  <2>1. place \in [Pairs -> Units(g, S)]
    BY <1>3
  <2> HIDE DEF place
  <2>2. QED
    BY <2>1, <1>4, <1>5 DEF Bijection, Injection, Surjection, IsInjective
<1>7. IsFiniteSet(Units(f, S)) /\ IsFiniteSet(1..c) /\ Cardinality(1..c) = c
  BY TotalNat, FS_Interval
<1>8. IsFiniteSet(Pairs) /\ Cardinality(Pairs) = Cardinality(Units(f, S)) * Cardinality(1..c)
  BY <1>7, FS_Product, Zenon
<1>9. Cardinality(Units(g, S)) = Cardinality(Pairs)
  <2> HIDE DEF place, Pairs
  <2>1. QED
    BY <1>6, <1>8, FS_Bijection DEF ExistsBijection
<1>10. QED
  BY <1>7, <1>8, <1>9, TotalNat DEF Total

\* An amount is at most the total.
LEMMA TotalAtLeast ==
  ASSUME NEW f, NEW S, AmountsOn(f, S), NEW x \in S
  PROVE  f[x] <= Total(f, S)
<1>1. AmountsOn(f, S \ {x}) /\ f[x] \in Nat
  BY FS_Subset DEF AmountsOn
<1>2. Total(f, S) = Total(f, S \ {x}) + f[x]
  BY TotalRemove
<1>3. QED
  BY <1>1, <1>2, TotalNat

\* Bounded amounts have a bounded total.
LEMMA TotalAtMost ==
  ASSUME NEW f, NEW S, AmountsOn(f, S), NEW c \in Nat, \A x \in S : f[x] <= c
  PROVE  Total(f, S) <= c * Cardinality(S)
<1> DEFINE g == [x \in S |-> c]
<1>1. AmountsOn(g, S) /\ (\A x \in S : g[x] = c) /\ \A x \in S : f[x] <= g[x]
  BY DEF AmountsOn
<1>2. IsFiniteSet(S)
  BY DEF AmountsOn
<1> HIDE DEF g
<1>3. QED
  BY <1>1, <1>2, TotalConstant, TotalMonotone

\* A balance is a difference of totals.
LEMMA BalanceIsDifference ==
  ASSUME NEW e, NEW f, NEW g, AmountsOn(f, DOMAIN e), AmountsOn(g, DOMAIN e),
         \A a \in DOMAIN e : e[a] = f[a] - g[a]
  PROVE  Balance(e) = Total(f, DOMAIN e) - Total(g, DOMAIN e)
<1> DEFINE S     == DOMAIN e
           debit  == [a \in S |-> PositivePart(e[a])]
           credit == [a \in S |-> PositivePart(-e[a])]
           sum    == [a \in S |-> debit[a] + g[a]]
<1>1. \A a \in S : e[a] \in Int /\ f[a] \in Nat /\ g[a] \in Nat
  BY DEF AmountsOn
<1>2. \A a \in S : debit[a] \in Nat /\ credit[a] \in Nat /\ debit[a] + g[a] = credit[a] + f[a]
  BY <1>1 DEF PositivePart
<1>3. AmountsOn(debit, S) /\ AmountsOn(credit, S)
  BY <1>2 DEF AmountsOn
<1>4. \A a \in S : sum[a] = debit[a] + g[a] /\ sum[a] = credit[a] + f[a]
  BY <1>2
<1>5. DOMAIN debit = S /\ DOMAIN credit = S
  OBVIOUS
<1>6. Balance(e) = Whole(debit) - Whole(credit)
  BY DEF Balance
<1> HIDE DEF debit, credit, sum, S
<1>7. Total(sum, S) = Total(debit, S) + Total(g, S)
  BY <1>3, <1>4, TotalAdd DEF S
<1>8. Total(sum, S) = Total(credit, S) + Total(f, S)
  BY <1>3, <1>4, TotalAdd DEF S
<1>9. /\ Total(debit, S) \in Nat /\ Total(credit, S) \in Nat
      /\ Total(f, S) \in Nat /\ Total(g, S) \in Nat
  BY <1>3, TotalNat DEF S
<1>10. QED
  BY <1>5, <1>6, <1>7, <1>8, <1>9 DEF Whole, S

\* Amounts that grow by those of a part of the elements.
LEMMA TotalGrows ==
  ASSUME NEW f, NEW g, NEW h, NEW S, NEW T \in SUBSET S, AmountsOn(f, S), AmountsOn(g, T),
         \A x \in S : h[x] = f[x] + IF x \in T THEN g[x] ELSE 0
  PROVE  Total(h, S) = Total(f, S) + Total(g, T)
<1> DEFINE e == [x \in S |-> IF x \in T THEN g[x] ELSE 0]
<1>1. \A x \in S : e[x] \in Nat /\ h[x] = f[x] + e[x]
  BY DEF AmountsOn
<1>2. AmountsOn(e, S)
  BY <1>1 DEF AmountsOn
<1>3. (\A x \in S \ T : e[x] = 0) /\ (\A x \in T : e[x] = g[x])
  OBVIOUS
<1> HIDE DEF e
<1>4. Total(h, S) = Total(f, S) + Total(e, S)
  BY <1>1, <1>2, TotalAdd
<1>5. Total(e, S) = Total(e, T)
  BY <1>3, TotalSupport
<1>6. Total(e, T) = Total(g, T)
  BY <1>3, TotalEq
<1>7. QED
  BY <1>4, <1>5, <1>6

\* A total of four amounts.
LEMMA TotalFour ==
  ASSUME NEW f, \A k \in 1..4 : f[k] \in Nat
  PROVE  Total(f, 1..4) = f[1] + f[2] + f[3] + f[4]
<1> DEFINE One   == {1}
           Two   == One \cup {2}
           Three == Two \cup {3}
<1>1. f[1] \in Nat /\ f[2] \in Nat /\ f[3] \in Nat /\ f[4] \in Nat
  OBVIOUS
<1>2. 2 \notin One /\ 3 \notin Two /\ 4 \notin Three /\ 1..4 = Three \cup {4}
  OBVIOUS
<1>3. \A x \in Three : f[x] \in Nat
  BY <1>1
<1>4. IsFiniteSet(One) /\ Total(f, One) = f[1]
  BY <1>1, FS_Singleton, TotalSingleton
<1>5. One \subseteq Two /\ Two \subseteq Three
  OBVIOUS
<1> HIDE DEF One
<1>6. AmountsOn(f, One) /\ IsFiniteSet(Two)
  BY <1>3, <1>4, <1>5, FS_AddElement DEF AmountsOn
<1>7. Total(f, Two) = Total(f, One) + f[2]
  BY <1>1, <1>2, <1>6, TotalInsert
<1> HIDE DEF Two
<1>8. AmountsOn(f, Two) /\ IsFiniteSet(Three)
  BY <1>3, <1>5, <1>6, FS_AddElement DEF AmountsOn
<1>9. Total(f, Three) = Total(f, Two) + f[3]
  BY <1>1, <1>2, <1>8, TotalInsert
<1> HIDE DEF Three
<1>10. AmountsOn(f, Three)
  BY <1>3, <1>8 DEF AmountsOn
<1>11. Total(f, Three \cup {4}) = Total(f, Three) + f[4]
  BY <1>1, <1>2, <1>10, TotalInsert
<1>12. QED
  BY <1>2, <1>4, <1>7, <1>9, <1>11

-----------------------------------------------------------------------------
(* Division and allocation *)

\* Where the elements of a set are ordered, n of them have fewer than n ahead.
LEMMA FirstRanks ==
  ASSUME NEW S, IsFiniteSet(S), NEW ahead \in [S -> SUBSET S],
         \A i \in S : i \notin ahead[i],
         \A i, j \in S : i # j => i \in ahead[j] \/ j \in ahead[i],
         \A i, j \in S : j \in ahead[i] => ahead[j] \subseteq ahead[i],
         NEW n \in Nat, n <= Cardinality(S)
  PROVE  LET first == {i \in S : Cardinality(ahead[i]) < n}
         IN  IsFiniteSet(first) /\ Cardinality(first) = n
<1> DEFINE size  == Cardinality(S)
           rank  == [i \in S |-> Cardinality(ahead[i])]
           first == {i \in S : Cardinality(ahead[i]) < n}
<1>1. size \in Nat
  BY FS_CardinalityType
<1>2. ASSUME NEW i \in S
      PROVE  IsFiniteSet(ahead[i]) /\ Cardinality(ahead[i]) \in 0..(size - 1)
  <2>1. IsFiniteSet(S \ {i}) /\ Cardinality(S \ {i}) = size - 1
    BY FS_RemoveElement
  <2>2. ahead[i] \subseteq S \ {i}
    OBVIOUS
  <2>3. IsFiniteSet(ahead[i]) /\ Cardinality(ahead[i]) <= Cardinality(S \ {i})
    BY <2>1, <2>2, FS_Subset
  <2>4. Cardinality(ahead[i]) \in Nat
    BY <2>3, FS_CardinalityType
  <2>5. QED
    BY <1>1, <2>1, <2>3, <2>4
<1>3. ASSUME NEW i \in S, NEW j \in S, i \in ahead[j]
      PROVE  Cardinality(ahead[i]) < Cardinality(ahead[j])
  <2>1. ahead[i] \subseteq ahead[j] /\ ahead[i] # ahead[j]
    BY <1>3
  <2>2. IsFiniteSet(ahead[j])
    BY <1>2
  <2>3. Cardinality(ahead[i]) <= Cardinality(ahead[j])
          /\ Cardinality(ahead[i]) # Cardinality(ahead[j])
    BY <2>1, <2>2, FS_Subset
  <2>4. QED
    BY <1>2, <2>3
<1>4. \A i, j \in S : rank[i] = rank[j] => i = j
  <2>1. ASSUME NEW i \in S, NEW j \in S, rank[i] = rank[j], i # j PROVE FALSE
    <3>1. Cardinality(ahead[i]) = Cardinality(ahead[j])
      BY <2>1
    <3>2. i \in ahead[j] \/ j \in ahead[i]
      BY <2>1
    <3>3. Cardinality(ahead[i]) \in Nat
      BY <1>2
    <3>4. QED
      BY <1>3, <3>1, <3>2, <3>3
  <2>2. QED
    BY <2>1
<1>5. rank \in [S -> 0..(size - 1)]
  BY <1>2
<1>6. ASSUME NEW k \in 0..(size - 1) PROVE \E i \in S : rank[i] = k
  <2>1. size - 1 \in Int /\ 0 \in Int
    BY <1>1
  <2>2. IsFiniteSet(0..(size - 1)) /\ Cardinality(0..(size - 1)) = size
    <3>1. /\ IsFiniteSet(0..(size - 1))
          /\ Cardinality(0..(size - 1)) = IF 0 > size - 1 THEN 0 ELSE size - 1 - 0 + 1
      BY <2>1, FS_Interval, Zenon
    <3>2. QED
      BY <1>1, <3>1
  <2>3. rank \in Injection(S, 0..(size - 1))
    <3> HIDE DEF rank
    <3>1. QED
      BY <1>4, <1>5 DEF Injection, IsInjective
  <2> HIDE DEF rank
  <2>4. rank \in Surjection(S, 0..(size - 1))
    BY <2>2, <2>3, FS_Injection
  <2>5. QED
    BY <2>4 DEF Surjection
<1>7. IsFiniteSet(first)
  BY FS_Subset
<1> DEFINE place == [i \in first |-> Cardinality(ahead[i])]
<1>8. place \in Bijection(first, 0..(n - 1))
  <2>1. place \in [first -> 0..(n - 1)]
    BY <1>2
  <2>2. \A i, j \in first : place[i] = place[j] => i = j
    BY <1>4
  <2>3. ASSUME NEW k \in 0..(n - 1) PROVE \E i \in first : place[i] = k
    <3>1. k \in 0..(size - 1)
      BY <1>1
    <3>2. PICK i \in S : rank[i] = k
      BY <1>6, <3>1
    <3>3. QED
      BY <3>2
  <2> HIDE DEF place, first
  <2>4. QED
    BY <2>1, <2>2, <2>3 DEF Bijection, Injection, Surjection, IsInjective
<1>9. IsFiniteSet(0..(n - 1)) /\ Cardinality(0..(n - 1)) = n
  BY FS_Interval
<1>10. Cardinality(first) = Cardinality(0..(n - 1))
  <2> HIDE DEF place, first
  <2>1. QED
    BY <1>7, <1>8, <1>9, FS_Bijection DEF ExistsBijection
<1>11. QED
  BY <1>7, <1>9, <1>10

\* Division of natural numbers.
LEMMA Division ==
  ASSUME NEW x \in Nat, NEW q \in Nat, q > 0
  PROVE  /\ x \div q \in Nat /\ x % q \in 0..(q - 1)
         /\ x = q * (x \div q) + (x % q)
<1>1. x \div q \in Nat
  OBVIOUS
<1>2. x % q \in 0..(q - 1)
  OBVIOUS
<1>3. x = q * (x \div q) + (x % q)
  OBVIOUS
<1>4. QED
  BY <1>1, <1>2, <1>3

\* All of the units are worth all of the amount, and none of them nothing.
LEMMA FloorOfAll ==
  ASSUME NEW a \in Nat, NEW q \in Nat, q > 0
  PROVE  (a * q) \div q = a /\ (a * 0) \div q = 0
<1>1. (a * q) \div q = a
  OBVIOUS
<1>2. a * 0 = 0 /\ 0 \div q = 0
  OBVIOUS
<1>3. QED
  BY <1>1, <1>2

\* What some units are worth lies between nothing and all of the amount, and
\* more units are worth more.
LEMMA FloorBounds ==
  ASSUME NEW a \in Nat, NEW q \in Nat, q > 0, NEW t \in Nat
  PROVE  /\ (a * t) \div q \in Nat
         /\ t <= q => (a * t) \div q <= a
         /\ \A s \in Nat : s <= t => (a * s) \div q <= (a * t) \div q
<1>1. (a * t) \div q \in Nat
  OBVIOUS
<1>2. ASSUME t <= q PROVE (a * t) \div q \in 0..a
  BY <1>2
<1>3. ASSUME NEW s \in Nat, s <= t PROVE (a * s) \div q <= (a * t) \div q
  BY <1>3
<1>4. QED
  BY <1>1, <1>2, <1>3

\* Rounding two amounts down apart loses at most one unit.
LEMMA FloorOfSum ==
  ASSUME NEW a \in Nat, NEW b \in Nat, NEW q \in Nat, q > 0, NEW t \in Nat
  PROVE  ((a + b) * t) \div q - (a * t) \div q - (b * t) \div q \in 0..1
OBVIOUS

\* Keys that Precedes orders.
Keys(S) == \A p \in S : p[1] \in Int /\ p[2] \in Int /\ p = <<p[1], p[2]>>

\* What the largest remainder method allocates: natural amounts that add up
\* to what there is to allocate, and none beyond its weight if there is enough
\* weight for all of it.
LEMMA Allocation ==
  ASSUME NEW weight, AmountsOn(weight, DOMAIN weight), Keys(DOMAIN weight),
         NEW total \in Nat, Allocatable(total, weight)
  PROVE  LET amount == AllocateMinorUnits(total, weight)
         IN  /\ amount \in [DOMAIN weight -> Nat]
             /\ Whole(amount) = total
             /\ total <= Whole(weight) => \A i \in DOMAIN weight : amount[i] <= weight[i]
<1> DEFINE ids      == DOMAIN weight
           all      == Whole(weight)
           share    == [i \in ids |-> IF all = 0 THEN 0 ELSE (total * weight[i]) \div all]
           rest     == [i \in ids |-> IF all = 0 THEN 0 ELSE (total * weight[i]) % all]
           Ahead(i) == {j \in ids : \/ rest[j] > rest[i]
                                    \/ rest[j] = rest[i] /\ Precedes(j, i)}
           left     == total - Whole(share)
           first    == {i \in ids : Cardinality(Ahead(i)) < left}
           amount   == [i \in ids |-> share[i] + IF Cardinality(Ahead(i)) < left THEN 1 ELSE 0]
<1>0. AllocateMinorUnits(total, weight) = amount
  BY DEF AllocateMinorUnits
<1>1. IsFiniteSet(ids) /\ all \in Nat /\ \A i \in ids : weight[i] \in Nat
  BY TotalNat DEF AmountsOn, Whole
<1>2. ASSUME NEW i \in ids
      PROVE  /\ share[i] \in Nat /\ rest[i] \in Nat
             /\ total * weight[i] = all * share[i] + rest[i]
             /\ all > 0 => rest[i] < all
  <2>1. CASE all = 0
    <3>1. total = 0
      BY <1>1, <2>1 DEF Allocatable
    <3>2. total * weight[i] = 0
      BY <1>1, <3>1
    <3>3. QED
      BY <1>1, <2>1, <3>2
  <2>2. CASE all > 0
    <3> DEFINE x == total * weight[i]
    <3>1. share[i] = x \div all /\ rest[i] = x % all
      BY <2>2
    <3>2. x \in Nat
      BY <1>1
    <3> HIDE DEF share, rest, all, x
    <3>3. /\ x \div all \in Nat /\ x % all \in 0..(all - 1)
          /\ x = all * (x \div all) + (x % all)
      BY <1>1, <2>2, <3>2, Division
    <3>4. /\ share[i] \in Nat /\ rest[i] \in Nat /\ x = all * share[i] + rest[i]
          /\ rest[i] < all
      BY <1>1, <2>2, <3>1, <3>3
    <3>5. QED
      BY <2>2, <3>4 DEF x
  <2>3. QED
    BY <1>1, <2>1, <2>2
<1>3. AmountsOn(share, ids) /\ AmountsOn(rest, ids)
  BY <1>1, <1>2 DEF AmountsOn
<1>4. /\ Whole(share) \in Nat /\ Total(rest, ids) \in Nat
      /\ total * all = all * Whole(share) + Total(rest, ids)
  <2> DEFINE f == [i \in ids |-> total * weight[i]]
             g == [i \in ids |-> all * share[i]]
  <2>1. Total(f, ids) = total * Total(weight, ids)
    <3>1. \A i \in ids : f[i] = total * weight[i]
      OBVIOUS
    <3> HIDE DEF f
    <3>2. QED
      BY <1>3, <3>1, TotalScale
  <2>2. Total(g, ids) = all * Total(share, ids)
    <3>1. \A i \in ids : g[i] = all * share[i]
      OBVIOUS
    <3> HIDE DEF g, share, all
    <3>2. QED
      BY <1>1, <1>3, <3>1, TotalScale
  <2>3. \A i \in ids : f[i] = g[i] + rest[i]
    BY <1>2
  <2>4. AmountsOn(g, ids)
    <3>1. \A i \in ids : all * share[i] \in Nat
      BY <1>1, <1>2
    <3>2. QED
      BY <1>1, <3>1 DEF AmountsOn
  <2>5. Total(f, ids) = Total(g, ids) + Total(rest, ids)
    <3> HIDE DEF f, g, rest
    <3>1. QED
      BY <1>3, <2>3, <2>4, TotalAdd
  <2>6. DOMAIN share = ids
    OBVIOUS
  <2>7. Total(share, ids) \in Nat /\ Total(rest, ids) \in Nat
    <3> HIDE DEF share, rest
    <3>1. QED
      BY <1>3, TotalNat
  <2> HIDE DEF f, g, share, rest
  <2>8. QED
    BY <2>1, <2>2, <2>5, <2>6, <2>7 DEF Whole
<1>5. left \in Nat /\ all * left = Total(rest, ids) /\ (all = 0 => left = 0)
  <2>1. CASE all = 0
    <3>1. total = 0
      BY <1>1, <2>1 DEF Allocatable
    <3>2. Total(share, ids) = 0
      BY <2>1, TotalZero
    <3>3. Whole(share) = 0
      BY <3>2 DEF Whole
    <3> HIDE DEF share, rest, all
    <3>4. QED
      BY <1>4, <2>1, <3>1, <3>3
  <2>2. CASE all > 0
    <3> HIDE DEF share, rest, all
    <3>1. left \in Int /\ all * left = total * all - all * Whole(share)
      BY <1>1, <1>4
    <3>2. all * left = Total(rest, ids) /\ left >= 0
      BY <1>1, <1>4, <2>2, <3>1
    <3>3. QED
      BY <2>2, <3>1, <3>2
  <2>3. QED
    BY <1>1, <2>1, <2>2
<1> DEFINE positive == {i \in ids : rest[i] > 0}
           n        == Cardinality(positive)
<1>6. IsFiniteSet(positive) /\ n \in Nat /\ n <= Cardinality(ids)
  BY <1>1, FS_Subset, FS_CardinalityType
<1>7. left <= n
  <2>1. CASE all = 0
    BY <1>5, <1>6, <2>1
  <2>2. CASE all > 0
    <3>1. \A i \in ids \ positive : rest[i] = 0
      BY <1>2
    <3>2. AmountsOn(rest, positive) /\ \A i \in positive : rest[i] <= all - 1
      BY <1>1, <1>2, <1>6, <2>2 DEF AmountsOn
    <3>3. all - 1 \in Nat /\ positive \in SUBSET ids
      BY <1>1, <2>2
    <3> HIDE DEF rest, share, all, positive
    <3>4. Total(rest, ids) = Total(rest, positive)
      BY <3>1, <3>3, TotalSupport
    <3>5. Total(rest, positive) <= (all - 1) * n
      BY <3>2, <3>3, TotalAtMost
    <3>6. all * left <= (all - 1) * n
      BY <1>5, <3>4, <3>5
    <3> HIDE DEF left, n
    <3>7. QED
      BY <1>1, <1>5, <1>6, <2>2, <3>6
  <2>3. QED
    BY <1>1, <2>1, <2>2
<1>8. IsFiniteSet(first) /\ Cardinality(first) = left
  <2> DEFINE ahead == [i \in ids |-> Ahead(i)]
  <2>1. ahead \in [ids -> SUBSET ids]
    OBVIOUS
  <2>2. \A i \in ids : rest[i] \in Nat /\ i[1] \in Int /\ i[2] \in Int /\ i = <<i[1], i[2]>>
    BY <1>2 DEF Keys
  <2>3. \A i, j \in ids : j \in ahead[i] <=> \/ rest[j] > rest[i]
                                             \/ rest[j] = rest[i] /\ Precedes(j, i)
    OBVIOUS
  <2>4. first = {i \in ids : Cardinality(ahead[i]) < left}
    OBVIOUS
  <2>5. left <= Cardinality(ids)
    BY <1>1, <1>5, <1>6, <1>7, FS_CardinalityType
  <2> HIDE DEF ahead, rest, share, left, first
  <2>6. \A i \in ids : i \notin ahead[i]
    BY <2>2, <2>3 DEF Precedes
  <2>7. \A i, j \in ids : i # j => i \in ahead[j] \/ j \in ahead[i]
    <3>1. ASSUME NEW i \in ids, NEW j \in ids, i # j
          PROVE  i \in ahead[j] \/ j \in ahead[i]
      <4>1. i[1] # j[1] \/ i[2] # j[2]
        BY <2>2, <3>1
      <4>2. Precedes(i, j) \/ Precedes(j, i)
        BY <2>2, <4>1 DEF Precedes
      <4>3. rest[i] < rest[j] \/ rest[j] < rest[i] \/ rest[i] = rest[j]
        BY <2>2
      <4>4. QED
        BY <2>2, <2>3, <4>2, <4>3
    <3>2. QED
      BY <3>1
  <2>8. \A i, j \in ids : j \in ahead[i] => ahead[j] \subseteq ahead[i]
    <3>1. ASSUME NEW i \in ids, NEW j \in ids, j \in ahead[i], NEW k \in ahead[j]
          PROVE  k \in ahead[i]
      <4>1. k \in ids
        BY <2>1
      <4>2. \/ rest[j] > rest[i]
            \/ rest[j] = rest[i] /\ Precedes(j, i)
        BY <2>3, <3>1
      <4>3. \/ rest[k] > rest[j]
            \/ rest[k] = rest[j] /\ Precedes(k, j)
        BY <2>3, <3>1, <4>1
      <4>4. Precedes(k, j) /\ Precedes(j, i) => Precedes(k, i)
        BY <2>2, <4>1 DEF Precedes
      <4>5. rest[k] > rest[i] \/ (rest[k] = rest[i] /\ Precedes(k, i))
        BY <2>2, <4>1, <4>2, <4>3, <4>4
      <4>6. QED
        BY <2>3, <4>1, <4>5
    <3>2. QED
      BY <3>1
  <2>9. QED
    BY <1>1, <1>5, <2>1, <2>4, <2>5, <2>6, <2>7, <2>8, FirstRanks
<1>9. Whole(amount) = total
  <2> DEFINE extra == [i \in ids |-> IF Cardinality(Ahead(i)) < left THEN 1 ELSE 0]
  <2>1. /\ \A i \in ids : amount[i] = share[i] + extra[i]
        /\ \A i \in ids \ first : extra[i] = 0
        /\ \A i \in first : extra[i] = 1
        /\ first \in SUBSET ids
    OBVIOUS
  <2>2. AmountsOn(extra, ids)
    BY <1>1 DEF AmountsOn
  <2>3. DOMAIN amount = ids /\ DOMAIN share = ids
    OBVIOUS
  <2> HIDE DEF extra, amount, share, rest, first
  <2>4. Total(amount, ids) = Total(share, ids) + Total(extra, ids)
    BY <1>3, <2>1, <2>2, TotalAdd
  <2>5. Total(extra, ids) = Total(extra, first)
    BY <2>1, TotalSupport
  <2>6. Total(extra, first) = 1 * Cardinality(first)
    BY <1>8, <2>1, TotalConstant
  <2> HIDE DEF all
  <2>7. QED
    BY <1>1, <1>4, <1>5, <1>8, <2>3, <2>4, <2>5, <2>6 DEF Whole
<1>10. ASSUME NEW i \in ids, rest[i] = 0 PROVE amount[i] = share[i]
  <2>1. positive \subseteq Ahead(i)
    BY <1>2, <1>10
  <2>2. Ahead(i) \in SUBSET ids
    OBVIOUS
  <2>3. IsFiniteSet(Ahead(i))
    BY <1>1, <2>2, FS_Subset
  <2>4. n <= Cardinality(Ahead(i)) /\ Cardinality(Ahead(i)) \in Nat
    <3> HIDE DEF positive, Ahead
    <3>1. QED
      BY <2>1, <2>3, FS_Subset, FS_CardinalityType
  <2>5. ~(Cardinality(Ahead(i)) < left)
    <3> HIDE DEF positive, Ahead, left
    <3>1. QED
      BY <1>5, <1>6, <1>7, <2>4
  <2>6. amount[i] = share[i] + 0
    BY <2>5
  <2> HIDE DEF amount, share
  <2>7. QED
    BY <1>2, <2>6
<1>11. ASSUME NEW i \in ids PROVE amount[i] \in share[i]..(share[i] + 1)
  <2>1. amount[i] = share[i] \/ amount[i] = share[i] + 1
    <3>1. share[i] \in Nat
      BY <1>2
    <3>2. amount[i] = share[i] + (IF Cardinality(Ahead(i)) < left THEN 1 ELSE 0)
      OBVIOUS
    <3> HIDE DEF share, amount, left, Ahead
    <3>3. QED
      BY <3>1, <3>2
  <2> HIDE DEF share, amount
  <2>2. QED
    BY <1>2, <2>1
<1>12. ASSUME total <= all, NEW i \in ids PROVE amount[i] <= weight[i]
  <2> HIDE DEF amount, share, rest, all
  <2>1. /\ weight[i] \in Nat /\ share[i] \in Nat /\ rest[i] \in Nat /\ all \in Nat
        /\ total * weight[i] = all * share[i] + rest[i]
    BY <1>1, <1>2
  <2>2. CASE all = 0
    <3>1. share[i] = 0 /\ rest[i] = 0
      BY <2>2 DEF share, rest
    <3>2. amount[i] = share[i]
      BY <1>10, <3>1
    <3>3. QED
      BY <2>1, <3>1, <3>2
  <2>3. CASE all > 0
    <3>1. all * share[i] + rest[i] <= all * weight[i]
      BY <1>12, <2>1
    <3>2. CASE rest[i] = 0
      BY <1>10, <2>1, <2>3, <3>1, <3>2
    <3>3. CASE rest[i] > 0
      <4>1. share[i] < weight[i]
        BY <2>1, <2>3, <3>1, <3>3
      <4>2. QED
        BY <1>11, <2>1, <4>1
    <3>4. QED
      BY <2>1, <3>2, <3>3
  <2>4. QED
    BY <2>1, <2>2, <2>3
<1>13. amount \in [ids -> Nat]
  <2>1. \A i \in ids : amount[i] \in Nat
    <3> HIDE DEF amount, share
    <3>1. QED
      BY <1>2, <1>11
  <2>2. QED
    BY <2>1
<1>14. QED
  <2> HIDE DEF amount, ids
  <2>1. QED
    BY <1>0, <1>9, <1>12, <1>13 DEF ids
=============================================================================
