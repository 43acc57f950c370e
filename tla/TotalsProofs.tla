------------------------------ MODULE TotalsProofs ------------------------------
(***************************************************************************)
(* Sums of seats and of money: what Total answers, and how it is taken     *)
(* apart and put together again. A sum over a finite table is shown entry  *)
(* by entry on a smallest counterexample.                                  *)
(***************************************************************************)
EXTENDS Totals, FiniteSetsExt, FiniteSetTheorems, WellFoundedInduction, TLAPS

-----------------------------------------------------------------------------
(* Sums                                                                    *)

Units(f) == UNION {{x} \X (1..f[x]) : x \in DOMAIN f}

LEMMA UnitsOf == ASSUME NEW f PROVE \A p : p \in Units(f) <=> \E x \in DOMAIN f : \E n \in 1..f[x] : p = <<x, n>>
  BY DEF Units

LEMMA UnitsFinite ==
    ASSUME NEW f, IsFiniteSet(DOMAIN f), \A x \in DOMAIN f : f[x] \in Nat
    PROVE  IsFiniteSet(Units(f)) /\ Total(f) = Cardinality(Units(f)) /\ Total(f) \in Nat
<1> DEFINE Of(x) == {x} \X (1..f[x])
<1> DEFINE Parts == {Of(x) : x \in DOMAIN f}
<1>1. IsFiniteSet(Parts)
  <2> DEFINE g == [x \in DOMAIN f |-> Of(x)]
  <2>1. g \in Surjection(DOMAIN f, Parts)
    BY DEF Surjection
  <2> QED
    BY <2>1, FS_Surjection
<1>2. ASSUME NEW S \in Parts PROVE IsFiniteSet(S)
  <2>1. PICK x \in DOMAIN f : S = {x} \X (1..f[x])
    OBVIOUS
  <2>2. IsFiniteSet({x}) /\ IsFiniteSet(1..f[x])
    <3>1. IsFiniteSet({x})
      BY FS_Singleton, Zenon
    <3>2. IsFiniteSet(1..f[x])
      BY FS_Interval
    <3> QED
      BY <3>1, <3>2
  <2> QED
    BY <2>1, <2>2, FS_Product
<1>3. IsFiniteSet(Units(f))
  BY <1>1, <1>2, FS_UNION DEF Units
<1> QED
  BY <1>3, FS_CardinalityType DEF Total, Units

LEMMA TotalIsNat ==
    ASSUME NEW f, IsFiniteSet(DOMAIN f), \A x \in DOMAIN f : f[x] \in Nat
    PROVE  Total(f) \in Nat
  BY UnitsFinite

\* A sum of zero is zero everywhere.
LEMMA TotalZero ==
    ASSUME NEW f, IsFiniteSet(DOMAIN f), \A x \in DOMAIN f : f[x] \in Nat, Total(f) = 0
    PROVE  \A x \in DOMAIN f : f[x] = 0
<1>1. Units(f) = {}
  BY UnitsFinite, FS_EmptySet
<1>2. ASSUME NEW x \in DOMAIN f, f[x] # 0 PROVE FALSE
  <2>1. 1 \in 1..f[x]
    BY <1>2
  <2>2. <<x, 1>> \in Units(f)
    BY <2>1, UnitsOf
  <2> QED
    BY <1>1, <2>2
<1> QED
  BY <1>2

LEMMA ClipIsNat == \A n \in Int : Clip(n) \in Nat /\ Clip(n) >= n
  BY DEF Clip

LEMMA LeastOfNats == \A m, n \in Nat : Least(m, n) \in Nat /\ Least(m, n) <= m /\ Least(m, n) <= n
  BY DEF Least

LEMMA MinIsIn ==
    ASSUME NEW S \in SUBSET Nat, S # {}
    PROVE  Min(S) \in S /\ \A x \in S : Min(S) <= x
<1>1. PICK m \in S : \A x \in S : ~(<<x, m>> \in OpToRel(<, Nat))
  BY NatLessThanWellFounded, WFMin
<1>2. \A x \in S : m <= x
  <2> TAKE x \in S
  <2>1. m \in Nat /\ x \in Nat /\ <<x, m>> \in Nat \X Nat
    OBVIOUS
  <2>2. x < m => <<x, m>> \in OpToRel(<, Nat)
    BY <2>1, Zenon DEF OpToRel
  <2>3. ~(x < m)
    BY <1>1, <2>2, Zenon
  <2> QED
    BY <2>1, <2>3
<1> QED
  BY <1>2 DEF Min

-----------------------------------------------------------------------------
(* Sums, taken apart and put together                                      *)

\* A table of counts over a finite set.
IsTable(f) == IsFiniteSet(DOMAIN f) /\ \A x \in DOMAIN f : f[x] \in Nat

SumOver(f, S) == Total([x \in S |-> f[x]])

\* Sums of sums, group by group.
SumEach(f, group, T) == Total([t \in T |-> Total([x \in group[t] |-> f[x]])])

LEMMA TableTotal == ASSUME NEW f, IsTable(f) PROVE Total(f) \in Nat
  BY TotalIsNat DEF IsTable

LEMMA TotalEmpty == ASSUME NEW f, DOMAIN f = {} PROVE Total(f) = 0
<1>1. UNION {{x} \X (1..f[x]) : x \in DOMAIN f} = {}
  OBVIOUS
<1> QED
  BY <1>1, FS_EmptySet DEF Total

\* Entries of zero do not count.
LEMMA TotalSupport ==
    ASSUME NEW f, NEW g, DOMAIN g \subseteq DOMAIN f, \A x \in DOMAIN g : g[x] = f[x],
           \A x \in DOMAIN f \ DOMAIN g : f[x] = 0
    PROVE  Total(f) = Total(g)
<1>1. ASSUME NEW p PROVE p \in Units(f) <=> p \in Units(g)
  <2>1. ASSUME p \in Units(f) PROVE p \in Units(g)
    <3>1. PICK x \in DOMAIN f : \E n \in 1..f[x] : p = <<x, n>>
      BY <2>1, UnitsOf
    <3>2. x \in DOMAIN g
      <4>1. ASSUME x \notin DOMAIN g PROVE FALSE
        <5>1. f[x] = 0
          BY <4>1
        <5> QED
          BY <3>1, <5>1
      <4> QED
        BY <4>1
    <3> QED
      BY <3>1, <3>2, UnitsOf
  <2>2. ASSUME p \in Units(g) PROVE p \in Units(f)
    <3>1. PICK x \in DOMAIN g : \E n \in 1..g[x] : p = <<x, n>>
      BY <2>2, UnitsOf
    <3> QED
      BY <3>1, UnitsOf
  <2> QED
    BY <2>1, <2>2
<1>2. Units(f) = Units(g)
  BY <1>1
<1> QED
  BY <1>2 DEF Total, Units

\* Two disjoint tables count together.
LEMMA TotalDisjoint ==
    ASSUME NEW f, IsTable(f), NEW A, NEW B, A \cup B = DOMAIN f, A \cap B = {}
    PROVE  Total(f) = Total([x \in A |-> f[x]]) + Total([x \in B |-> f[x]])
<1> DEFINE a == [x \in A |-> f[x]]
           b == [x \in B |-> f[x]]
<1>1. IsFiniteSet(A) /\ IsFiniteSet(B)
  BY FS_Subset DEF IsTable
<1>2. IsFiniteSet(Units(a)) /\ Total(a) = Cardinality(Units(a)) /\ Total(a) \in Nat
  BY <1>1, UnitsFinite DEF IsTable
<1>3. IsFiniteSet(Units(b)) /\ Total(b) = Cardinality(Units(b)) /\ Total(b) \in Nat
  BY <1>1, UnitsFinite DEF IsTable
<1>4. \A p : p \in Units(f) <=> p \in Units(a) \cup Units(b)
  <2>1. \A p : p \in Units(f) <=> \E x \in DOMAIN f : \E n \in 1..f[x] : p = <<x, n>>
    BY UnitsOf
  <2>2. \A p : p \in Units(a) <=> \E x \in A : \E n \in 1..f[x] : p = <<x, n>>
    BY UnitsOf
  <2>3. \A p : p \in Units(b) <=> \E x \in B : \E n \in 1..f[x] : p = <<x, n>>
    BY UnitsOf
  <2> HIDE DEF a, b
  <2> QED
    BY <2>1, <2>2, <2>3
<1>5. Units(a) \cap Units(b) = {}
  <2>1. \A p : p \in Units(a) => \E x \in A : \E n \in 1..f[x] : p = <<x, n>>
    BY UnitsOf
  <2>2. \A p : p \in Units(b) => \E x \in B : \E n \in 1..f[x] : p = <<x, n>>
    BY UnitsOf
  <2> HIDE DEF a, b
  <2> QED
    BY <2>1, <2>2
<1>6. Units(f) = Units(a) \cup Units(b)
  BY <1>4
<1>7. Total(f) = Cardinality(Units(f))
  BY DEF Total, Units
<1> HIDE DEF a, b
<1> DEFINE P == Units(a)
           Q == Units(b)
<1> HIDE DEF P, Q
<1>8. IsFiniteSet(P) /\ IsFiniteSet(Q) => Cardinality(P \cup Q) = Cardinality(P) + Cardinality(Q) - Cardinality(P \cap Q)
  BY FS_Union
<1>9. Cardinality({}) = 0
  BY FS_EmptySet
<1> QED
  <2>1. P \cup Q = Units(f) /\ P \cap Q = {}
    BY <1>5, <1>6 DEF P, Q
  <2>2. Total(f) = Cardinality(P \cup Q) /\ Cardinality(P \cap Q) = 0
    BY <1>7, <1>9, <2>1
  <2>3. IsFiniteSet(P) /\ IsFiniteSet(Q) /\ Total(a) = Cardinality(P) /\ Total(b) = Cardinality(Q)
    BY <1>2, <1>3 DEF P, Q
  <2>4. Cardinality(P) \in Nat /\ Cardinality(Q) \in Nat
    BY <1>2, <1>3, <2>3
  <2>5. Total(f) = Total(a) + Total(b)
    BY <1>8, <2>2, <2>3, <2>4
  <2> QED
    BY <2>5 DEF a, b

\* One entry's sum is the entry.
LEMMA TotalOne ==
    ASSUME NEW f, NEW x, DOMAIN f = {x}, f[x] \in Nat
    PROVE  Total(f) = f[x]
<1>1. Units(f) = {x} \X (1..f[x])
  BY DEF Units
<1>2. IsFiniteSet({x}) /\ Cardinality({x}) = 1
  BY FS_Singleton, Zenon
<1>3. IsFiniteSet(1..f[x]) /\ Cardinality(1..f[x]) = f[x]
  BY FS_Interval
<1>4. Cardinality({x} \X (1..f[x])) = 1 * f[x]
  BY <1>2, <1>3, FS_Product
<1>5. Total(f) = Cardinality(Units(f))
  BY DEF Total, Units
<1> QED
  BY <1>1, <1>4, <1>5

LEMMA TotalSplit ==
    ASSUME NEW f, IsTable(f), NEW x \in DOMAIN f
    PROVE  Total(f) = Total([y \in DOMAIN f \ {x} |-> f[y]]) + f[x]
<1>1. Total(f) = Total([y \in DOMAIN f \ {x} |-> f[y]]) + Total([y \in {x} |-> f[y]])
  BY TotalDisjoint
<1>2. Total([y \in {x} |-> f[y]]) = f[x]
  BY TotalOne DEF IsTable
<1> QED
  BY <1>1, <1>2

\* Tables of the same entries, entry by entry.
LEMMA TotalAdd ==
    ASSUME NEW S, IsFiniteSet(S), NEW f \in [S -> Nat], NEW g \in [S -> Nat], NEW h \in [S -> Nat],
           \A x \in S : h[x] = f[x] + g[x]
    PROVE  Total(h) = Total(f) + Total(g)
<1> DEFINE of(u, T) == [x \in T |-> u[x]]
           Adds(T) == Total(of(h, T)) = Total(of(f, T)) + Total(of(g, T))
           Bad == {n \in Nat : \E T \in SUBSET S : Cardinality(T) = n /\ ~Adds(T)}
<1>1. ASSUME NEW T \in SUBSET S PROVE IsFiniteSet(T) /\ Cardinality(T) \in Nat
  BY FS_Subset, FS_CardinalityType
<1>2. Bad = {}
  <2> SUFFICES ASSUME Bad # {} PROVE FALSE
    OBVIOUS
  <2>1. Min(Bad) \in Bad /\ \A n \in Bad : Min(Bad) <= n
    BY MinIsIn
  <2>2. PICK T \in SUBSET S : Cardinality(T) = Min(Bad) /\ ~Adds(T)
    BY <2>1
  <2>3. ASSUME T = {} PROVE FALSE
    <3>1. Total(of(h, T)) = 0 /\ Total(of(f, T)) = 0 /\ Total(of(g, T)) = 0
      BY <2>3, TotalEmpty
    <3> QED
      BY <2>2, <3>1
  <2>4. PICK x \in T : TRUE
    BY <2>3
  <2> DEFINE R == T \ {x}
  <2>5. R \in SUBSET S /\ Cardinality(R) = Cardinality(T) - 1
    BY <1>1, <2>4, FS_RemoveElement
  <2>6. Cardinality(R) \in Nat /\ Cardinality(R) \notin Bad
    <3>1. Cardinality(R) \in Nat /\ Min(Bad) \in Nat /\ Cardinality(R) = Min(Bad) - 1
      BY <1>1, <2>1, <2>2, <2>5
    <3> HIDE DEF Bad, R
    <3>2. ~(Min(Bad) <= Cardinality(R))
      BY <3>1
    <3> QED
      BY <2>1, <3>1, <3>2
  <2>7. Adds(R)
    BY <2>5, <2>6
  <2>8. ASSUME NEW u \in [S -> Nat] PROVE Total(of(u, T)) = Total(of(u, R)) + u[x] /\ Total(of(u, R)) \in Nat /\ u[x] \in Nat
    <3>1. IsTable(of(u, T)) /\ IsTable(of(u, R)) /\ DOMAIN of(u, T) = T
      BY <1>1, <2>5 DEF IsTable
    <3>2. [y \in DOMAIN of(u, T) \ {x} |-> of(u, T)[y]] = of(u, R)
      OBVIOUS
    <3>3. of(u, T)[x] = u[x] /\ u[x] \in Nat
      BY <2>4
    <3> HIDE DEF of, R
    <3> QED
      BY <2>4, <3>1, <3>2, <3>3, TotalSplit, TableTotal
  <2>9. h[x] = f[x] + g[x]
    BY <2>4
  <2> HIDE DEF of, R
  <2>11. /\ Total(of(h, T)) = Total(of(h, R)) + h[x] /\ Total(of(f, T)) = Total(of(f, R)) + f[x]
         /\ Total(of(g, T)) = Total(of(g, R)) + g[x]
    BY <2>8
  <2>12. Total(of(f, R)) \in Nat /\ Total(of(g, R)) \in Nat /\ f[x] \in Nat /\ g[x] \in Nat
    BY <2>8
  <2>10. Total(of(h, T)) = Total(of(f, T)) + Total(of(g, T))
    BY <2>7, <2>9, <2>11, <2>12
  <2> QED
    BY <2>2, <2>10
<1>3. Adds(S)
  <2>1. Cardinality(S) \in Nat /\ S \in SUBSET S
    BY <1>1
  <2> QED
    BY <1>2, <2>1
<1>4. of(h, S) = h /\ of(f, S) = f /\ of(g, S) = g
  OBVIOUS
<1> QED
  BY <1>3, <1>4

LEMMA TotalMono ==
    ASSUME NEW S, IsFiniteSet(S), NEW f \in [S -> Nat], NEW h \in [S -> Nat], \A x \in S : f[x] <= h[x]
    PROVE  Total(f) <= Total(h)
<1> DEFINE g == [x \in S |-> h[x] - f[x]]
<1>1. \A x \in S : f[x] \in Nat /\ h[x] \in Nat
  OBVIOUS
<1>2. g \in [S -> Nat] /\ \A x \in S : h[x] = f[x] + g[x]
  BY <1>1
<1> HIDE DEF g
<1>3. Total(h) = Total(f) + Total(g)
  BY <1>2, TotalAdd
<1>4. Total(f) \in Nat /\ Total(g) \in Nat
  BY <1>2, TableTotal DEF IsTable
<1> QED
  BY <1>3, <1>4

\* Some of the entries are no more than all of them.
LEMMA TotalPart ==
    ASSUME NEW f, IsTable(f), NEW A \in SUBSET DOMAIN f
    PROVE  Total([x \in A |-> f[x]]) <= Total(f) /\ Total([x \in A |-> f[x]]) \in Nat
<1> DEFINE B == DOMAIN f \ A
           a == [x \in A |-> f[x]]
           b == [x \in B |-> f[x]]
<1>1. A \cup B = DOMAIN f /\ A \cap B = {}
  OBVIOUS
<1>2. IsTable(a) /\ IsTable(b)
  BY FS_Subset DEF IsTable
<1>3. Total(f) = Total(a) + Total(b)
  BY <1>1, TotalDisjoint
<1> HIDE DEF a, b, B
<1>4. Total(a) <= Total(f) /\ Total(a) \in Nat
  BY <1>2, <1>3, TableTotal
<1> QED
  BY <1>4 DEF a

\* Tables may be counted group by group.
LEMMA TotalGroups ==
    ASSUME NEW f, IsTable(f), NEW T, IsFiniteSet(T), NEW group, \A t \in T : group[t] \subseteq DOMAIN f,
           \A t, u \in T : t # u => group[t] \cap group[u] = {}
    PROVE  SumEach(f, group, T) = SumOver(f, UNION {group[t] : t \in T})
<1> DEFINE of(A) == [x \in A |-> f[x]]
           all(U) == UNION {group[t] : t \in U}
           by(U) == [t \in U |-> Total(of(group[t]))]
           Adds(U) == Total(by(U)) = Total(of(all(U)))
           Bad == {n \in Nat : \E U \in SUBSET T : Cardinality(U) = n /\ ~Adds(U)}
<1>1. ASSUME NEW U \in SUBSET T PROVE IsFiniteSet(U) /\ Cardinality(U) \in Nat
  BY FS_Subset, FS_CardinalityType
<1>2. ASSUME NEW A \in SUBSET DOMAIN f PROVE IsTable(of(A)) /\ Total(of(A)) \in Nat
  BY FS_Subset, TableTotal DEF IsTable
<1>3. Bad = {}
  <2> SUFFICES ASSUME Bad # {} PROVE FALSE
    OBVIOUS
  <2>1. Min(Bad) \in Bad /\ \A n \in Bad : Min(Bad) <= n
    BY MinIsIn
  <2>2. PICK U \in SUBSET T : Cardinality(U) = Min(Bad) /\ ~Adds(U)
    BY <2>1
  <2>3. ASSUME U = {} PROVE FALSE
    <3>1. DOMAIN by(U) = {} /\ DOMAIN of(all(U)) = {}
      BY <2>3
    <3>2. Total(by(U)) = 0 /\ Total(of(all(U))) = 0
      BY <3>1, TotalEmpty
    <3> QED
      BY <2>2, <3>2
  <2>4. PICK t \in U : TRUE
    BY <2>3
  <2> DEFINE R == U \ {t}
  <2>5. R \in SUBSET T /\ Cardinality(R) = Cardinality(U) - 1
    BY <1>1, <2>4, FS_RemoveElement
  <2>6. Cardinality(R) \in Nat /\ Cardinality(R) \notin Bad
    <3>1. Cardinality(R) \in Nat /\ Min(Bad) \in Nat /\ Cardinality(R) = Min(Bad) - 1
      BY <1>1, <2>1, <2>2, <2>5
    <3> HIDE DEF Bad, R
    <3>2. ~(Min(Bad) <= Cardinality(R))
      BY <3>1
    <3> QED
      BY <2>1, <3>1, <3>2
  <2>7. Adds(R)
    BY <2>5, <2>6
  <2>8. Total(by(U)) = Total(by(R)) + Total(of(group[t]))
    <3>1. DOMAIN by(U) = U /\ \A u \in U : by(U)[u] = Total(of(group[u])) /\ by(U)[u] \in Nat
      BY <1>2
    <3>2. IsTable(by(U))
      BY <1>1, <3>1 DEF IsTable
    <3>3. [y \in DOMAIN by(U) \ {t} |-> by(U)[y]] = by(R)
      OBVIOUS
    <3> HIDE DEF by, R
    <3> QED
      BY <2>4, <3>1, <3>2, <3>3, TotalSplit
  <2>9. Total(of(all(U))) = Total(of(all(R))) + Total(of(group[t]))
    <3>1. all(U) \subseteq DOMAIN f /\ all(U) = all(R) \cup group[t] /\ all(R) \cap group[t] = {}
      BY <2>4
    <3>2. IsTable(of(all(U)))
      BY <1>2, <3>1
    <3>3. DOMAIN of(all(U)) = all(U) /\ [x \in all(R) |-> of(all(U))[x]] = of(all(R))
          /\ [x \in group[t] |-> of(all(U))[x]] = of(group[t])
      BY <3>1
    <3> DEFINE F == of(all(U))
               A == all(R)
               B == group[t]
    <3> HIDE DEF of, all, F, A, B
    <3>4. IsTable(F) /\ A \cup B = DOMAIN F /\ A \cap B = {}
      BY <3>1, <3>2, <3>3 DEF F, A, B
    <3>5. Total(F) = Total([x \in A |-> F[x]]) + Total([x \in B |-> F[x]])
      BY <3>4, TotalDisjoint
    <3> QED
      BY <3>3, <3>5 DEF F, A, B
  <2> HIDE DEF by, of, all, R
  <2>10. Adds(U)
    BY <2>7, <2>8, <2>9
  <2> QED
    BY <2>2, <2>10
<1>4. Cardinality(T) \in Nat /\ T \in SUBSET T
  BY <1>1
<1>5. Adds(T)
  BY <1>3, <1>4
<1> QED
  BY <1>5 DEF SumEach, SumOver

-----------------------------------------------------------------------------
(* The greatest of finitely many numbers                                   *)

LEMMA MaxIsIn ==
    ASSUME NEW S \in SUBSET Nat, S # {}, IsFiniteSet(S)
    PROVE  Max(S) \in S /\ \A x \in S : x <= Max(S)
<1> DEFINE f == [x \in S |-> x]
           bounds == {n \in Nat : \A x \in S : x <= n}
<1>1. IsTable(f) /\ DOMAIN f = S /\ Total(f) \in Nat
  BY TableTotal DEF IsTable
<1>2. \A x \in S : x <= Total(f)
  <2> TAKE x \in S
  <2>1. Total(f) = Total([y \in DOMAIN f \ {x} |-> f[y]]) + f[x]
    BY <1>1, TotalSplit
  <2>2. Total([y \in DOMAIN f \ {x} |-> f[y]]) \in Nat
    BY <1>1, TotalPart
  <2> QED
    BY <1>1, <2>1, <2>2
<1>3. bounds \in SUBSET Nat /\ bounds # {}
  BY <1>1, <1>2
<1>4. PICK m \in bounds : \A n \in bounds : m <= n
  BY <1>3, MinIsIn
<1>5. m \in S
  <2>1. ASSUME m \notin S PROVE FALSE
    <3>1. \A x \in S : x < m
      BY <1>4, <2>1
    <3>2. PICK y \in S : y \in Nat /\ y < m
      BY <3>1
    <3>3. m \in Nat /\ m - 1 \in Nat
      BY <1>4, <3>2
    <3>4. \A x \in S : x <= m - 1
      BY <1>4, <3>1
    <3> QED
      BY <1>4, <3>3, <3>4
  <2> QED
    BY <2>1
<1>6. \E x \in S : \A y \in S : x >= y
  BY <1>4, <1>5
<1>7. Max(S) \in S /\ \A y \in S : Max(S) >= y
  BY <1>6, Zenon DEF Max
<1> QED
  BY <1>7

\* A number past all the ones there are.
LEMMA NextIsNew ==
    ASSUME NEW S, IsFiniteSet(S), NEW f, \A x \in S : f[x] \in Nat
    PROVE  LET n == 1 + Max({0} \cup {f[x] : x \in S}) IN n \in Nat \ {0} /\ \A x \in S : f[x] < n
<1> DEFINE T == {0} \cup {f[x] : x \in S}
<1>1. IsFiniteSet({f[x] : x \in S})
  <2> DEFINE g == [x \in S |-> f[x]]
  <2>1. g \in Surjection(S, {f[x] : x \in S})
    BY DEF Surjection
  <2> QED
    BY <2>1, FS_Surjection
<1>2. IsFiniteSet({f[x] : x \in S} \cup {0})
  BY <1>1, FS_AddElement
<1>3. T = {f[x] : x \in S} \cup {0} /\ T \in SUBSET Nat /\ T # {}
  OBVIOUS
<1>4. Max(T) \in T /\ \A x \in T : x <= Max(T)
  BY <1>2, <1>3, MaxIsIn
<1> QED
  BY <1>3, <1>4
=============================================================================
