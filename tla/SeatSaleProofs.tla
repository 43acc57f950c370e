--------------------------- MODULE SeatSaleProofs ---------------------------
(***************************************************************************)
(* That no day is sold past its seats without somebody's consent, and that *)
(* what is given back only frees seats, for any number of bookings, locks, *)
(* days and boats: the arithmetic of weighDay and of the lock tree against *)
(* every command.                                                          *)
(***************************************************************************)
EXTENDS SeatPoolProofs

-----------------------------------------------------------------------------
(* Lock seats going back: what is left of a trip's draws                   *)

\* The entries of g numbered below n, together: a trip's draws on the locks older than one, say.
Below(g, n) == Total([j \in {i \in DOMAIN g : i < n} |-> g[j]])

LEMMA BelowFacts ==
    ASSUME NEW S \in SUBSET Nat, IsFiniteSet(S), NEW g \in [S -> Nat]
    PROVE  /\ Below(g, 0) = 0
           /\ \A n \in Nat : /\ Below(g, n) \in Nat /\ Below(g, n + 1) \in Nat
                             /\ n \in S => Below(g, n + 1) = Below(g, n) + g[n]
                             /\ n \notin S => Below(g, n + 1) = Below(g, n)
<1> DEFINE ids(n) == {i \in S : i < n}
           of(n) == [j \in ids(n) |-> g[j]]
<1>1. S \subseteq Nat /\ IsFiniteSet(S) /\ DOMAIN g = S
  OBVIOUS
<1>2. ASSUME NEW n \in Nat PROVE IsTable(of(n)) /\ Total(of(n)) \in Nat
  BY <1>1, FS_Subset, TableTotal DEF IsTable
<1>3. Below(g, 0) = 0
  <2>1. ids(0) = {}
    <3>1. ASSUME NEW i \in S PROVE ~(i < 0)
      BY <1>1
    <3> QED
      BY <3>1
  <2>2. DOMAIN of(0) = {}
    BY <2>1
  <2>3. Total(of(0)) = 0
    BY <2>2, TotalEmpty
  <2> QED
    BY <2>3 DEF Below
<1>4. ASSUME NEW n \in Nat, n \in S PROVE Total(of(n + 1)) = Total(of(n)) + g[n]
  <2>1. ids(n + 1) = ids(n) \cup {n} /\ n \notin ids(n)
    <3>1. ASSUME NEW i \in S PROVE i < n + 1 <=> i < n \/ i = n
      BY <1>1
    <3>2. ~(n < n)
      OBVIOUS
    <3> QED
      BY <1>4, <3>1, <3>2
  <2>2. n \in DOMAIN of(n + 1) /\ of(n + 1)[n] = g[n] /\ [y \in DOMAIN of(n + 1) \ {n} |-> of(n + 1)[y]] = of(n)
    BY <2>1
  <2>3. IsTable(of(n + 1))
    BY <1>2
  <2> HIDE DEF of
  <2> QED
    BY <2>2, <2>3, TotalSplit
<1>5. ASSUME NEW n \in Nat, n \notin S PROVE Total(of(n + 1)) = Total(of(n))
  <2>1. ids(n + 1) = ids(n)
    <3>1. ASSUME NEW i \in S PROVE i < n + 1 <=> i < n
      BY <1>1, <1>5
    <3> QED
      BY <3>1
  <2> QED
    BY <2>1
<1>6. \A n : Below(g, n) = Total(of(n))
  BY DEF Below
<1> HIDE DEF of
<1> QED
  BY <1>2, <1>3, <1>4, <1>5, <1>6

\* Beyond the last entry, below is all.
LEMMA AllBelow ==
    ASSUME NEW S \in SUBSET Nat, IsFiniteSet(S), NEW g \in [S -> Nat], NEW n \in Nat, \A l \in S : l < n
    PROVE  Below(g, n) = Total(g)
<1>1. {i \in DOMAIN g : i < n} = DOMAIN g
  OBVIOUS
<1>2. [j \in DOMAIN g |-> g[j]] = g
  OBVIOUS
<1> QED
  BY <1>1, <1>2 DEF Below

\* A finite set of numbers has a number beyond it.
LEMMA Beyond ==
    ASSUME NEW S \in SUBSET Nat, IsFiniteSet(S)
    PROVE  \E n \in Nat : \A x \in S : x < n
<1> DEFINE Bounded(T) == \E n \in Nat : \A x \in T : x < n
           Bad == {n \in Nat : \E T \in SUBSET S : Cardinality(T) = n /\ ~Bounded(T)}
<1>1. ASSUME NEW T \in SUBSET S PROVE IsFiniteSet(T) /\ Cardinality(T) \in Nat
  BY FS_Subset, FS_CardinalityType
<1>2. Bad = {}
  <2> SUFFICES ASSUME Bad # {} PROVE FALSE
    OBVIOUS
  <2>1. Min(Bad) \in Bad /\ \A n \in Bad : Min(Bad) <= n
    BY MinIsIn
  <2>2. PICK T \in SUBSET S : Cardinality(T) = Min(Bad) /\ ~Bounded(T)
    BY <2>1
  <2>3. PICK x \in T : TRUE
    <3>1. T = {} => Bounded(T)
      OBVIOUS
    <3> QED
      BY <2>2, <3>1
  <2> DEFINE R == T \ {x}
  <2>5. R \in SUBSET S /\ Cardinality(R) = Cardinality(T) - 1
    BY <1>1, <2>3, FS_RemoveElement
  <2>6. Cardinality(R) \in Nat /\ Cardinality(R) \notin Bad
    <3>1. Cardinality(R) \in Nat /\ Min(Bad) \in Nat /\ Cardinality(R) = Min(Bad) - 1
      BY <1>1, <2>1, <2>2, <2>5
    <3> HIDE DEF Bad, R
    <3>2. ~(Min(Bad) <= Cardinality(R))
      BY <3>1
    <3> QED
      BY <2>1, <3>1, <3>2
  <2>7. Bounded(R)
    BY <2>5, <2>6
  <2>8. PICK n \in Nat : \A y \in R : y < n
    BY <2>7
  <2>9. \A y \in T : y < n + x + 1
    <3> TAKE y \in T
    <3>1. x \in Nat /\ y \in Nat
      OBVIOUS
    <3>2. y = x \/ y < n
      BY <2>8
    <3> QED
      BY <3>1, <3>2
  <2>10. n + x + 1 \in Nat
    OBVIOUS
  <2> QED
    BY <2>2, <2>9, <2>10
<1>3. S \in SUBSET S /\ Cardinality(S) \in Nat
  BY <1>1
<1> QED
  BY <1>2, <1>3

\* Draws clamped to a head count: all of them, or as many as there are heads.
LEMMA ClampedTotal ==
    ASSUME NEW trip \in Trips, NEW pax \in Nat
    PROVE  LET left == ClampDraws(trip, pax)
           IN  /\ left \in [LockIds -> Nat] /\ \A l \in LockIds : left[l] <= trip.draws[l]
               /\ Total(left) = Least(DrawnTotal(trip), pax)
<1> DEFINE g == trip.draws
           left == ClampDraws(trip, pax)
<1>1. /\ LockIds \in SUBSET Nat /\ IsFiniteSet(LockIds) /\ g \in [LockIds -> Nat]
      /\ \A l \in LockIds : DrawnBefore(trip, l) = Below(g, l) /\ l \in Nat /\ g[l] \in Nat
  <2>1. g \in [LockIds -> Nat]
    BY TripFacts
  <2> QED
    BY <2>1, LockAssumption DEF DrawnBefore, Below
<1>2. left = [l \in LockIds |-> Least(g[l], Clip(pax - Below(g, l)))]
  BY <1>1 DEF ClampDraws
<1> HIDE DEF g, left
<1>3. \A n \in Nat : Below(g, n) \in Nat
  BY <1>1, BelowFacts
<1>4. ASSUME NEW l \in LockIds
      PROVE  left[l] = Least(g[l], Clip(pax - Below(g, l))) /\ left[l] \in Nat /\ left[l] <= g[l]
  <2>1. g[l] \in Nat /\ Below(g, l) \in Nat
    BY <1>1, <1>3
  <2>2. Clip(pax - Below(g, l)) \in Nat
    BY <2>1, ClipIsNat
  <2> QED
    BY <1>2, <2>1, <2>2, LeastOfNats
<1>5. left \in [LockIds -> Nat]
  BY <1>2, <1>4
<1> DEFINE Kept(n) == Below(left, n) = Least(Below(g, n), pax)
           Bad == {n \in Nat : ~Kept(n)}
<1>6. Bad = {}
  <2> SUFFICES ASSUME Bad # {} PROVE FALSE
    OBVIOUS
  <2>1. Min(Bad) \in Bad /\ \A n \in Bad : Min(Bad) <= n
    BY MinIsIn
  <2> DEFINE m == Min(Bad) - 1
  <2>2. Min(Bad) # 0
    <3>1. Kept(0)
      BY <1>1, <1>5, BelowFacts DEF Least
    <3> QED
      BY <2>1, <3>1
  <2>3. m \in Nat /\ m + 1 = Min(Bad) /\ m \notin Bad
    <3>1. Min(Bad) \in Nat
      BY <2>1
    <3> HIDE DEF Bad
    <3> QED
      BY <2>1, <2>2, <3>1
  <2>4. Kept(m) /\ ~Kept(m + 1)
    BY <2>1, <2>3
  <2> HIDE DEF m, Bad
  <2>5. Below(g, m) \in Nat /\ Below(left, m) = Least(Below(g, m), pax)
    BY <1>3, <2>3, <2>4
  <2>6. CASE m \in LockIds
    <3>1. Below(g, m + 1) = Below(g, m) + g[m] /\ Below(left, m + 1) = Below(left, m) + left[m]
      BY <1>1, <1>5, <2>3, <2>6, BelowFacts
    <3>2. left[m] = Least(g[m], Clip(pax - Below(g, m))) /\ g[m] \in Nat
      BY <1>1, <1>4, <2>6
    <3>3. Kept(m + 1)
      BY <2>5, <3>1, <3>2 DEF Least, Clip
    <3> QED
      BY <2>4, <3>3
  <2>7. CASE m \notin LockIds
    <3>1. Below(g, m + 1) = Below(g, m) /\ Below(left, m + 1) = Below(left, m)
      BY <1>1, <1>5, <2>3, <2>7, BelowFacts
    <3> QED
      BY <2>4, <3>1
  <2> QED
    BY <2>6, <2>7
<1>7. PICK n \in Nat : \A l \in LockIds : l < n
  BY LockAssumption, Beyond
<1>8. Below(g, n) = Total(g) /\ Below(left, n) = Total(left) /\ Kept(n)
  BY <1>1, <1>5, <1>6, <1>7, AllBelow
<1>9. Total(left) = Least(DrawnTotal(trip), pax)
  BY <1>8 DEF DrawnTotal, g
<1> QED
  BY <1>4, <1>5, <1>9 DEF g, left

\* Draws given back first: as many fewer as passengers leave, or none are left.
LEMMA ReturnedTotal ==
    ASSUME NEW trip \in Trips, NEW count \in Nat
    PROVE  LET left == ReturnDrawsFirst(trip, count)
           IN  /\ left \in [LockIds -> Nat] /\ \A l \in LockIds : left[l] <= trip.draws[l]
               /\ Total(left) = Clip(DrawnTotal(trip) - count)
<1> DEFINE g == trip.draws
           left == ReturnDrawsFirst(trip, count)
<1>1. /\ LockIds \in SUBSET Nat /\ IsFiniteSet(LockIds) /\ g \in [LockIds -> Nat]
      /\ \A l \in LockIds : DrawnBefore(trip, l) = Below(g, l) /\ l \in Nat /\ g[l] \in Nat
  <2>1. g \in [LockIds -> Nat]
    BY TripFacts
  <2> QED
    BY <2>1, LockAssumption DEF DrawnBefore, Below
<1>2. left = [l \in LockIds |-> Clip(g[l] - Clip(count - Below(g, l)))]
  BY <1>1 DEF ReturnDrawsFirst
<1> HIDE DEF g, left
<1>3. \A n \in Nat : Below(g, n) \in Nat
  BY <1>1, BelowFacts
<1>4. ASSUME NEW l \in LockIds
      PROVE  left[l] = Clip(g[l] - Clip(count - Below(g, l))) /\ left[l] \in Nat /\ left[l] <= g[l]
  <2>1. g[l] \in Nat /\ Below(g, l) \in Nat
    BY <1>1, <1>3
  <2> QED
    BY <1>2, <2>1 DEF Clip
<1>5. left \in [LockIds -> Nat]
  BY <1>2, <1>4
<1> DEFINE Kept(n) == Below(left, n) = Clip(Below(g, n) - count)
           Bad == {n \in Nat : ~Kept(n)}
<1>6. Bad = {}
  <2> SUFFICES ASSUME Bad # {} PROVE FALSE
    OBVIOUS
  <2>1. Min(Bad) \in Bad /\ \A n \in Bad : Min(Bad) <= n
    BY MinIsIn
  <2> DEFINE m == Min(Bad) - 1
  <2>2. Min(Bad) # 0
    <3>1. Kept(0)
      BY <1>1, <1>5, BelowFacts DEF Clip
    <3> QED
      BY <2>1, <3>1
  <2>3. m \in Nat /\ m + 1 = Min(Bad) /\ m \notin Bad
    <3>1. Min(Bad) \in Nat
      BY <2>1
    <3> HIDE DEF Bad
    <3> QED
      BY <2>1, <2>2, <3>1
  <2>4. Kept(m) /\ ~Kept(m + 1)
    BY <2>1, <2>3
  <2> HIDE DEF m, Bad
  <2>5. Below(g, m) \in Nat /\ Below(left, m) = Clip(Below(g, m) - count)
    BY <1>3, <2>3, <2>4
  <2>6. CASE m \in LockIds
    <3>1. Below(g, m + 1) = Below(g, m) + g[m] /\ Below(left, m + 1) = Below(left, m) + left[m]
      BY <1>1, <1>5, <2>3, <2>6, BelowFacts
    <3>2. left[m] = Clip(g[m] - Clip(count - Below(g, m))) /\ g[m] \in Nat
      BY <1>1, <1>4, <2>6
    <3>3. Kept(m + 1)
      BY <2>5, <3>1, <3>2 DEF Clip
    <3> QED
      BY <2>4, <3>3
  <2>7. CASE m \notin LockIds
    <3>1. Below(g, m + 1) = Below(g, m) /\ Below(left, m + 1) = Below(left, m)
      BY <1>1, <1>5, <2>3, <2>7, BelowFacts
    <3> QED
      BY <2>4, <3>1
  <2> QED
    BY <2>6, <2>7
<1>7. PICK n \in Nat : \A l \in LockIds : l < n
  BY LockAssumption, Beyond
<1>8. Below(g, n) = Total(g) /\ Below(left, n) = Total(left) /\ Kept(n)
  BY <1>1, <1>5, <1>6, <1>7, AllBelow
<1>9. Total(left) = Clip(DrawnTotal(trip) - count)
  BY <1>8 DEF DrawnTotal, g
<1> QED
  BY <1>4, <1>5, <1>9 DEF g, left

-----------------------------------------------------------------------------
(* A lock tree when fewer of its seats are drawn                           *)

Asked(rows, l) == rows[l].pax - rows[l].released
PendOf(p, q, u) == Clip(Least(q, p - u))
HeldOf(p, q, u) == Clip(p - u - PendOf(p, q, u))
Own(rows, drawn, k) == IF rows[k].status = "released" THEN 0 ELSE Clip(Asked(rows, k) - drawn[k])
Owns(rows, drawn, S) == Total([j \in S |-> Own(rows, drawn, j)])
Ahead(kids, k) == {i \in kids : i < k}

\* What TreeOf answers, number by number.
LEMMA TreeIs ==
    ASSUME NEW rows, IsLocks(rows), NEW drawn \in [LockIds -> Nat], NEW top \in DOMAIN rows, rows[top].parent = NoLock
    PROVE  LET kids == KidsIn(rows, top)
               tree == TreeOf(rows, drawn, top)
           IN  /\ kids \subseteq DOMAIN rows /\ top \notin kids /\ IsFiniteSet(kids)
               /\ tree.used = drawn[top] + SumOver(drawn, kids)
               /\ tree.pend = PendOf(Asked(rows, top), rows[top].pending, tree.used)
               /\ tree.held = HeldOf(Asked(rows, top), rows[top].pending, tree.used)
               /\ tree.unallocated = Clip(Asked(rows, top) - Total([k \in kids |-> Asked(rows, k)]))
               /\ tree.remaining[top] = Least(Clip(tree.unallocated - drawn[top]),
                                              IF tree.pend > 0 THEN Clip(tree.held - Owns(rows, drawn, kids)) ELSE tree.held)
               /\ \A k \in kids : tree.remaining[k] =
                     Least(Own(rows, drawn, k), Clip(tree.held - (IF tree.pend > 0 THEN Owns(rows, drawn, Ahead(kids, k)) ELSE 0)))
<1> DEFINE kids == KidsIn(rows, top)
           node == NodesOf(rows, drawn)
           n == node[top]
           own(k) == IF node[k].released THEN 0 ELSE Clip(node[k].pax - node[k].drawn)
           used == n.drawn + Total([k \in kids |-> node[k].drawn])
           pend == Clip(Least(n.pending, n.pax - used))
           held == Clip(n.pax - used - pend)
           allocated == Total([k \in kids |-> node[k].pax])
           unallocated == Clip(n.pax - allocated)
           room == Clip(unallocated - n.drawn)
           ahead(k) == IF pend > 0 THEN Total([j \in {i \in kids : i < k} |-> own(j)]) ELSE 0
           unsplit == IF pend > 0 THEN Clip(held - Total([k \in kids |-> own(k)])) ELSE held
           remaining == [k \in kids \cup {top} |->
              IF k = top THEN Least(room, unsplit) ELSE Least(own(k), Clip(held - ahead(k)))]
<1>1. TreeOf(rows, drawn, top) =
        [used |-> used, pend |-> pend, held |-> held, allocated |-> allocated,
         unallocated |-> unallocated, room |-> room, remaining |-> remaining]
  BY DEF TreeOf, LockTree
<1>2. kids \subseteq DOMAIN rows /\ top \notin kids /\ IsFiniteSet(kids)
  <2>1. kids \in SUBSET LockIds /\ kids \subseteq DOMAIN rows
    BY DEF KidsIn, IsLocks
  <2>2. top \in LockIds
    BY DEF IsLocks
  <2>3. top \notin kids
    BY <2>2, LockAssumption DEF KidsIn
  <2> QED
    BY <2>1, <2>3, LockAssumption, FS_Subset
<1>3. ASSUME NEW k \in DOMAIN rows
      PROVE  /\ node[k].pax = Asked(rows, k) /\ node[k].pending = rows[k].pending /\ node[k].drawn = drawn[k]
             /\ own(k) = Own(rows, drawn, k)
  BY DEF NodesOf, Asked, Own
<1> HIDE DEF kids, node, own
<1>4. [k \in kids |-> node[k].drawn] = [k \in kids |-> drawn[k]]
      /\ [k \in kids |-> node[k].pax] = [k \in kids |-> Asked(rows, k)]
      /\ [k \in kids |-> own(k)] = [k \in kids |-> Own(rows, drawn, k)]
  BY <1>2, <1>3
<1>5. \A k \in kids : [j \in {i \in kids : i < k} |-> own(j)] = [j \in Ahead(kids, k) |-> Own(rows, drawn, j)]
  BY <1>2, <1>3 DEF Ahead
<1>6. used = drawn[top] + Total([k \in kids |-> drawn[k]])
  BY <1>3, <1>4
<1>7. pend = PendOf(Asked(rows, top), rows[top].pending, used) /\ held = HeldOf(Asked(rows, top), rows[top].pending, used)
  BY <1>3 DEF PendOf, HeldOf
<1>8. unallocated = Clip(Asked(rows, top) - Total([k \in kids |-> Asked(rows, k)])) /\ room = Clip(unallocated - drawn[top])
  BY <1>3, <1>4
<1> HIDE DEF used
<1> HIDE DEF pend
<1> HIDE DEF held
<1> HIDE DEF unallocated
<1>9. unsplit = IF pend > 0 THEN Clip(held - Total([j \in kids |-> Own(rows, drawn, j)])) ELSE held
  BY <1>4
<1>10. \A k \in kids : ahead(k) = IF pend > 0 THEN Total([j \in Ahead(kids, k) |-> Own(rows, drawn, j)]) ELSE 0
  BY <1>5
<1>11. remaining[top] = Least(room, unsplit)
  OBVIOUS
<1>12. \A k \in kids : remaining[k] = Least(own(k), Clip(held - ahead(k))) /\ own(k) = Own(rows, drawn, k)
  BY <1>2, <1>3
<1> HIDE DEF remaining, room, unsplit, ahead, allocated
<1> DEFINE tree == TreeOf(rows, drawn, top)
<1>13. /\ tree.used = used /\ tree.pend = pend /\ tree.held = held /\ tree.unallocated = unallocated
       /\ tree.remaining = remaining
  BY <1>1
<1> HIDE DEF tree
<1>14. tree.remaining[top] = Least(Clip(tree.unallocated - drawn[top]),
          IF tree.pend > 0 THEN Clip(tree.held - Total([j \in kids |-> Own(rows, drawn, j)])) ELSE tree.held)
  BY <1>8, <1>9, <1>11, <1>13
<1>15. \A k \in kids : tree.remaining[k] = Least(Own(rows, drawn, k),
          Clip(tree.held - (IF tree.pend > 0 THEN Total([j \in Ahead(kids, k) |-> Own(rows, drawn, j)]) ELSE 0)))
  BY <1>10, <1>12, <1>13
<1>16. /\ tree.used = drawn[top] + Total([k \in kids |-> drawn[k]])
       /\ tree.pend = PendOf(Asked(rows, top), rows[top].pending, tree.used)
       /\ tree.held = HeldOf(Asked(rows, top), rows[top].pending, tree.used)
       /\ tree.unallocated = Clip(Asked(rows, top) - Total([k \in kids |-> Asked(rows, k)]))
  BY <1>6, <1>7, <1>8, <1>13
<1> QED
  BY <1>2, <1>14, <1>15, <1>16 DEF kids, tree, Owns, SumOver

\* The seats a lock holds when fall fewer of them are drawn.
LEMMA HeldFalls ==
    ASSUME NEW p \in Nat, NEW q \in Nat, NEW u \in Nat, NEW v \in Nat, u <= v
    PROVE  /\ HeldOf(p, q, u) \in Nat /\ HeldOf(p, q, v) \in Nat
           /\ HeldOf(p, q, v) <= HeldOf(p, q, u) /\ HeldOf(p, q, u) <= HeldOf(p, q, v) + (v - u)
           /\ HeldOf(p, q, v) > 0 => PendOf(p, q, u) = PendOf(p, q, v) /\ HeldOf(p, q, u) = HeldOf(p, q, v) + (v - u)
           /\ v - u <= HeldOf(p, q, u) \/ v + q <= p => HeldOf(p, q, u) = HeldOf(p, q, v) + (v - u)
  BY DEF HeldOf, PendOf, Clip, Least

\* Seats over some of the locks.
LEMMA LockSum ==
    ASSUME NEW f \in [LockIds -> Nat], NEW S \in SUBSET LockIds
    PROVE  IsFiniteSet(S) /\ SumOver(f, S) \in Nat
<1>1. IsFiniteSet(S)
  BY LockAssumption, FS_Subset
<1>2. IsTable([x \in S |-> f[x]])
  BY <1>1 DEF IsTable
<1> QED
  BY <1>1, <1>2, TableTotal DEF SumOver

LEMMA LockSumPart ==
    ASSUME NEW f \in [LockIds -> Nat], NEW S \in SUBSET LockIds, NEW R \in SUBSET S
    PROVE  SumOver(f, R) <= SumOver(f, S)
<1> DEFINE g == [x \in S |-> f[x]]
<1>1. IsTable(g) /\ R \in SUBSET DOMAIN g /\ [x \in R |-> g[x]] = [x \in R |-> f[x]]
  BY LockSum DEF IsTable
<1> HIDE DEF g
<1>2. Total([x \in R |-> g[x]]) <= Total(g)
  BY <1>1, TotalPart
<1> QED
  BY <1>1, <1>2 DEF SumOver, g

LEMMA LockSumAdd ==
    ASSUME NEW f \in [LockIds -> Nat], NEW g \in [LockIds -> Nat], NEW h \in [LockIds -> Nat], NEW S \in SUBSET LockIds,
           \A l \in S : h[l] = f[l] + g[l]
    PROVE  SumOver(h, S) = SumOver(f, S) + SumOver(g, S)
<1> DEFINE a == [x \in S |-> f[x]]
           b == [x \in S |-> g[x]]
           c == [x \in S |-> h[x]]
<1>1. a \in [S -> Nat] /\ b \in [S -> Nat] /\ c \in [S -> Nat] /\ \A x \in S : c[x] = a[x] + b[x]
  OBVIOUS
<1>2. IsFiniteSet(S)
  BY LockSum
<1> HIDE DEF a, b, c
<1>3. Total(c) = Total(a) + Total(b)
  BY <1>1, <1>2, TotalAdd
<1> QED
  BY <1>3 DEF SumOver, a, b, c

LEMMA LockSumWith ==
    ASSUME NEW f \in [LockIds -> Nat], NEW S \in SUBSET LockIds, NEW x \in LockIds \ S
    PROVE  SumOver(f, S \cup {x}) = SumOver(f, S) + f[x]
<1> DEFINE g == [y \in S \cup {x} |-> f[y]]
<1>1. S \cup {x} \in SUBSET LockIds
  OBVIOUS
<1>2. IsFiniteSet(S \cup {x})
  BY <1>1, LockSum
<1>3. IsTable(g) /\ x \in DOMAIN g /\ g[x] = f[x] /\ [y \in DOMAIN g \ {x} |-> g[y]] = [y \in S |-> f[y]]
  BY <1>1, <1>2 DEF IsTable
<1> HIDE DEF g
<1>4. Total(g) = Total([y \in DOMAIN g \ {x} |-> g[y]]) + g[x]
  BY <1>3, TotalSplit
<1> QED
  BY <1>3, <1>4 DEF SumOver, g

\* What falls on a tree is what falls on its lock and on its sub-groups.
FamilyOf(rows, top) == KidsIn(rows, top) \cup {top}

LEMMA FamilyFacts ==
    ASSUME NEW rows, IsLocks(rows), NEW top \in DOMAIN rows, rows[top].parent = NoLock
    PROVE  /\ KidsIn(rows, top) \in SUBSET LockIds /\ FamilyOf(rows, top) \in SUBSET LockIds /\ top \in LockIds \ KidsIn(rows, top)
           /\ FamilyOf(rows, top) \subseteq DOMAIN rows
           /\ \A f \in [LockIds -> Nat] : /\ SumOver(f, FamilyOf(rows, top)) = SumOver(f, KidsIn(rows, top)) + f[top]
                                          /\ SumOver(f, FamilyOf(rows, top)) \in Nat /\ SumOver(f, KidsIn(rows, top)) \in Nat
<1>1. DOMAIN rows \subseteq LockIds /\ KidsIn(rows, top) \subseteq DOMAIN rows
  BY DEF IsLocks, KidsIn
<1>2. top \notin KidsIn(rows, top)
  BY <1>1, LockAssumption DEF KidsIn
<1>3. KidsIn(rows, top) \in SUBSET LockIds /\ FamilyOf(rows, top) \in SUBSET LockIds /\ top \in LockIds \ KidsIn(rows, top)
  BY <1>1, <1>2 DEF FamilyOf
<1> QED
  BY <1>1, <1>3, LockSum, LockSumWith DEF FamilyOf

\* Draws by two counts, fall more by the one than by the other.
Falls(more, less, fall) ==
    /\ more \in [LockIds -> Nat] /\ less \in [LockIds -> Nat] /\ fall \in [LockIds -> Nat]
    /\ \A l \in LockIds : more[l] = less[l] + fall[l]

\* What a sub-group has of its own grows by no more than falls on it.
LEMMA OwnFalls ==
    ASSUME NEW rows, IsLocks(rows), NEW more, NEW less, NEW fall, Falls(more, less, fall), NEW k \in DOMAIN rows
    PROVE  /\ Own(rows, more, k) \in Nat /\ Own(rows, less, k) \in Nat
           /\ Own(rows, more, k) <= Own(rows, less, k) /\ Own(rows, less, k) <= Own(rows, more, k) + fall[k]
<1>1. k \in LockIds /\ rows[k].pax \in Nat /\ rows[k].released \in Nat
  BY DEF IsLocks, LockRows
<1>2. more[k] = less[k] + fall[k] /\ more[k] \in Nat /\ less[k] \in Nat /\ fall[k] \in Nat
  BY <1>1 DEF Falls
<1> QED
  BY <1>1, <1>2 DEF Own, Asked, Clip

LEMMA OwnsFall ==
    ASSUME NEW rows, IsLocks(rows), NEW more, NEW less, NEW fall, Falls(more, less, fall), NEW S \in SUBSET DOMAIN rows
    PROVE  /\ Owns(rows, more, S) \in Nat /\ Owns(rows, less, S) \in Nat
           /\ Owns(rows, less, S) <= Owns(rows, more, S) + SumOver(fall, S)
<1> DEFINE a == [j \in S |-> Own(rows, more, j)]
           b == [j \in S |-> Own(rows, less, j)]
           f == [j \in S |-> fall[j]]
           c == [j \in S |-> Own(rows, more, j) + fall[j]]
<1>1. DOMAIN rows \subseteq LockIds /\ S \in SUBSET LockIds
  BY DEF IsLocks
<1>2. IsFiniteSet(S)
  BY <1>1, LockAssumption, FS_Subset
<1>3. ASSUME NEW j \in S
      PROVE  /\ Own(rows, more, j) \in Nat /\ Own(rows, less, j) \in Nat /\ fall[j] \in Nat
             /\ Own(rows, less, j) <= Own(rows, more, j) + fall[j]
  BY <1>1, OwnFalls DEF Falls
<1>4. a \in [S -> Nat] /\ b \in [S -> Nat] /\ f \in [S -> Nat] /\ c \in [S -> Nat]
      /\ (\A j \in S : c[j] = a[j] + f[j] /\ b[j] <= c[j])
  BY <1>3
<1>5. IsTable(a) /\ IsTable(b) /\ IsTable(f)
  BY <1>2, <1>3 DEF IsTable, a, b, f
<1> HIDE DEF a, b, c, f
<1>6. Total(c) = Total(a) + Total(f) /\ Total(b) <= Total(c)
  BY <1>2, <1>4, TotalAdd, TotalMono
<1>7. Total(a) \in Nat /\ Total(b) \in Nat /\ Total(f) \in Nat
  BY <1>5, TableTotal
<1>8. Owns(rows, more, S) = Total(a) /\ Owns(rows, less, S) = Total(b) /\ SumOver(fall, S) = Total(f)
  BY DEF Owns, SumOver, a, b, f
<1> QED
  BY <1>6, <1>7, <1>8

(* With fewer seats of it drawn a tree holds at most as many more, and      *)
(* exactly as many unless its waiting seats came to be overlapped; and no  *)
(* lock of it has fewer seats left, nor more than the tree holds.          *)
LEMMA TreeFalls ==
    ASSUME NEW rows, IsLocks(rows), NEW more, NEW less, NEW fall, Falls(more, less, fall),
           NEW top \in DOMAIN rows, rows[top].parent = NoLock
    PROVE  LET a == TreeOf(rows, more, top)
               b == TreeOf(rows, less, top)
               drop == SumOver(fall, FamilyOf(rows, top))
           IN  /\ drop \in Nat /\ a.held \in Nat /\ b.held \in Nat
               /\ a.used = b.used + drop /\ a.held <= b.held /\ b.held <= a.held + drop
               /\ drop <= b.held \/ a.used + rows[top].pending <= Asked(rows, top) => b.held = a.held + drop
               /\ \A k \in FamilyOf(rows, top) : a.remaining[k] <= b.remaining[k]
<1> DEFINE kids == KidsIn(rows, top)
           a == TreeOf(rows, more, top)
           b == TreeOf(rows, less, top)
           drop == SumOver(fall, FamilyOf(rows, top))
           p == Asked(rows, top)
           q == rows[top].pending
<1>0. more \in [LockIds -> Nat] /\ less \in [LockIds -> Nat] /\ fall \in [LockIds -> Nat]
      /\ \A l \in LockIds : more[l] = less[l] + fall[l]
  BY DEF Falls
<1>1. /\ kids \subseteq DOMAIN rows
      /\ a.used = more[top] + SumOver(more, kids)
      /\ a.pend = PendOf(p, q, a.used) /\ a.held = HeldOf(p, q, a.used)
      /\ a.unallocated = Clip(p - Total([k \in kids |-> Asked(rows, k)]))
      /\ a.remaining[top] = Least(Clip(a.unallocated - more[top]), IF a.pend > 0 THEN Clip(a.held - Owns(rows, more, kids)) ELSE a.held)
      /\ \A k \in kids : a.remaining[k] =
            Least(Own(rows, more, k), Clip(a.held - (IF a.pend > 0 THEN Owns(rows, more, Ahead(kids, k)) ELSE 0)))
  BY <1>0, TreeIs
<1>2. /\ b.used = less[top] + SumOver(less, kids)
      /\ b.pend = PendOf(p, q, b.used) /\ b.held = HeldOf(p, q, b.used)
      /\ b.unallocated = Clip(p - Total([k \in kids |-> Asked(rows, k)]))
      /\ b.remaining[top] = Least(Clip(b.unallocated - less[top]), IF b.pend > 0 THEN Clip(b.held - Owns(rows, less, kids)) ELSE b.held)
      /\ \A k \in kids : b.remaining[k] =
            Least(Own(rows, less, k), Clip(b.held - (IF b.pend > 0 THEN Owns(rows, less, Ahead(kids, k)) ELSE 0)))
  BY <1>0, TreeIs
<1>3. /\ kids \in SUBSET LockIds /\ top \in LockIds /\ FamilyOf(rows, top) = kids \cup {top}
      /\ drop = fall[top] + SumOver(fall, kids) /\ drop \in Nat /\ fall[top] \in Nat /\ SumOver(fall, kids) \in Nat
  <2>1. /\ kids \in SUBSET LockIds /\ top \in LockIds
        /\ drop = SumOver(fall, kids) + fall[top] /\ drop \in Nat /\ SumOver(fall, kids) \in Nat
    BY <1>0, FamilyFacts
  <2>2. fall[top] \in Nat
    BY <1>0, <2>1
  <2> QED
    BY <2>1, <2>2 DEF FamilyOf
<1>4. /\ a.used \in Nat /\ b.used \in Nat /\ a.pend \in Nat /\ b.pend \in Nat /\ a.held \in Nat /\ b.held \in Nat
      /\ a.unallocated \in Nat /\ \A k \in kids \cup {top} : a.remaining[k] \in Nat /\ b.remaining[k] \in Nat
  BY <1>0, TreeNumbers
<1>5. p \in Nat /\ q \in Nat
  BY DEF IsLocks, LockRows, Asked
<1>6. more[top] = less[top] + fall[top] /\ more[top] \in Nat /\ less[top] \in Nat
  BY <1>0, <1>3
<1>8. ASSUME NEW S \in SUBSET kids
      PROVE  /\ Owns(rows, more, S) \in Nat /\ Owns(rows, less, S) \in Nat
             /\ Owns(rows, less, S) <= Owns(rows, more, S) + drop
  <2>1. S \in SUBSET DOMAIN rows
    BY <1>1
  <2>2. /\ Owns(rows, more, S) \in Nat /\ Owns(rows, less, S) \in Nat
        /\ Owns(rows, less, S) <= Owns(rows, more, S) + SumOver(fall, S)
    BY <2>1, OwnsFall
  <2>3. SumOver(fall, S) <= SumOver(fall, kids) /\ SumOver(fall, S) \in Nat
    BY <1>0, <1>3, LockSumPart, LockSum
  <2> HIDE DEF drop
  <2> QED
    BY <1>3, <2>2, <2>3
<1>9. ASSUME NEW k \in kids
      PROVE  /\ Own(rows, more, k) \in Nat /\ Own(rows, less, k) \in Nat /\ Own(rows, more, k) <= Own(rows, less, k)
             /\ Ahead(kids, k) \in SUBSET kids
  BY <1>1, OwnFalls DEF Ahead
<1> HIDE DEF kids, a, b, drop, p, q
<1>7. a.used = b.used + drop
  <2>1. SumOver(more, kids) = SumOver(less, kids) + SumOver(fall, kids) /\ SumOver(less, kids) \in Nat
    BY <1>0, <1>3, LockSumAdd, LockSum
  <2> QED
    BY <1>1, <1>2, <1>3, <1>6, <2>1
<1>10. /\ a.held <= b.held /\ b.held <= a.held + drop
       /\ a.held > 0 => b.pend = a.pend /\ b.held = a.held + drop
       /\ drop <= b.held \/ a.used + q <= p => b.held = a.held + drop
  <2>1. /\ b.held = HeldOf(p, q, b.used) /\ a.held = HeldOf(p, q, a.used)
        /\ b.pend = PendOf(p, q, b.used) /\ a.pend = PendOf(p, q, a.used)
    BY <1>1, <1>2
  <2>2. b.used <= a.used /\ a.used - b.used = drop
    BY <1>3, <1>4, <1>7
  <2>3. /\ HeldOf(p, q, a.used) <= HeldOf(p, q, b.used) /\ HeldOf(p, q, b.used) <= HeldOf(p, q, a.used) + (a.used - b.used)
        /\ HeldOf(p, q, a.used) > 0 => /\ PendOf(p, q, b.used) = PendOf(p, q, a.used)
                                       /\ HeldOf(p, q, b.used) = HeldOf(p, q, a.used) + (a.used - b.used)
        /\ a.used - b.used <= HeldOf(p, q, b.used) \/ a.used + q <= p =>
              HeldOf(p, q, b.used) = HeldOf(p, q, a.used) + (a.used - b.used)
    BY <1>4, <1>5, <2>2 DEF HeldOf, PendOf, Clip, Least
  <2> QED
    BY <2>1, <2>2, <2>3
<1>11. a.remaining[top] <= b.remaining[top]
  <2>1. b.unallocated = a.unallocated
    BY <1>1, <1>2
  <2> DEFINE ownA == Owns(rows, more, kids)
             ownB == Owns(rows, less, kids)
             roomA == Clip(a.unallocated - more[top])
             roomB == Clip(a.unallocated - less[top])
  <2>2. ownA \in Nat /\ ownB \in Nat /\ ownB <= ownA + drop
    BY <1>8
  <2>7. /\ a.remaining[top] = Least(roomA, IF a.pend > 0 THEN Clip(a.held - ownA) ELSE a.held)
        /\ b.remaining[top] = Least(roomB, IF b.pend > 0 THEN Clip(b.held - ownB) ELSE b.held)
    BY <1>1, <1>2, <2>1
  <2>8. roomA \in Nat /\ roomB \in Nat /\ roomA <= roomB
    BY <1>3, <1>4, <1>6 DEF Clip
  <2> HIDE DEF ownA, ownB, roomA, roomB
  <2>3. CASE a.held = 0
    <3>1. a.remaining[top] = 0
      BY <2>2, <2>3, <2>7, <2>8 DEF Least, Clip
    <3>2. b.remaining[top] \in Nat
      BY <1>4
    <3> QED
      BY <3>1, <3>2
  <2>4. CASE a.held > 0
    <3>1. b.pend = a.pend /\ b.held = a.held + drop
      BY <1>10, <2>4
    <3>4. CASE a.pend > 0
      <4>1. Clip(a.held - ownA) <= Clip(b.held - ownB) /\ Clip(a.held - ownA) \in Nat /\ Clip(b.held - ownB) \in Nat
        BY <1>3, <1>4, <2>2, <3>1 DEF Clip
      <4> QED
        BY <2>7, <2>8, <3>1, <3>4, <4>1 DEF Least
    <3>5. CASE ~(a.pend > 0)
      BY <1>3, <1>4, <2>7, <2>8, <3>1, <3>5 DEF Least
    <3> QED
      BY <3>4, <3>5
  <2> QED
    BY <1>4, <2>3, <2>4
<1>12. ASSUME NEW k \in kids PROVE a.remaining[k] <= b.remaining[k]
  <2> DEFINE aheadA == IF a.pend > 0 THEN Owns(rows, more, Ahead(kids, k)) ELSE 0
             aheadB == IF b.pend > 0 THEN Owns(rows, less, Ahead(kids, k)) ELSE 0
             own == Own(rows, more, k)
             owned == Own(rows, less, k)
  <2>1. own \in Nat /\ owned \in Nat /\ own <= owned
    BY <1>9
  <2>2. /\ Owns(rows, more, Ahead(kids, k)) \in Nat /\ Owns(rows, less, Ahead(kids, k)) \in Nat
        /\ Owns(rows, less, Ahead(kids, k)) <= Owns(rows, more, Ahead(kids, k)) + drop
    BY <1>8, <1>9
  <2>3. a.remaining[k] = Least(own, Clip(a.held - aheadA)) /\ b.remaining[k] = Least(owned, Clip(b.held - aheadB))
    BY <1>1, <1>2
  <2>4. aheadA \in Nat /\ aheadB \in Nat
    BY <2>2
  <2>5. CASE a.held = 0
    <3> HIDE DEF aheadA, aheadB, own, owned
    <3>1. a.remaining[k] = 0
      BY <2>1, <2>3, <2>4, <2>5 DEF Least, Clip
    <3> QED
      BY <1>4, <3>1
  <2>6. CASE a.held > 0
    <3>1. b.pend = a.pend /\ b.held = a.held + drop
      BY <1>10, <2>6
    <3>2. aheadB <= aheadA + drop
      BY <1>3, <2>2, <3>1
    <3> HIDE DEF aheadA, aheadB, own, owned
    <3>3. Clip(a.held - aheadA) <= Clip(b.held - aheadB) /\ Clip(a.held - aheadA) \in Nat /\ Clip(b.held - aheadB) \in Nat
      BY <1>3, <1>4, <2>4, <3>1, <3>2 DEF Clip
    <3> QED
      BY <2>1, <2>3, <3>3 DEF Least
  <2> QED
    BY <1>4, <2>5, <2>6
<1>13. drop <= b.held \/ a.used + q <= p => b.held = a.held + drop
  BY <1>7, <1>10
<1>14. \A k \in FamilyOf(rows, top) : a.remaining[k] <= b.remaining[k]
  BY <1>3, <1>11, <1>12
<1> QED
  BY <1>3, <1>4, <1>7, <1>10, <1>13, <1>14 DEF kids, a, b, drop, p, q

\* No lock of a tree has more seats left than the tree holds.
LEMMA LeftOfHeld ==
    ASSUME NEW rows, IsLocks(rows), NEW drawn \in [LockIds -> Nat], NEW top \in DOMAIN rows, rows[top].parent = NoLock,
           NEW k \in FamilyOf(rows, top)
    PROVE  TreeOf(rows, drawn, top).remaining[k] <= TreeOf(rows, drawn, top).held
<1> DEFINE kids == KidsIn(rows, top)
           tree == TreeOf(rows, drawn, top)
<1>1. /\ kids \subseteq DOMAIN rows
      /\ tree.remaining[top] = Least(Clip(tree.unallocated - drawn[top]), IF tree.pend > 0 THEN Clip(tree.held - Owns(rows, drawn, kids)) ELSE tree.held)
      /\ k \in kids => tree.remaining[k] =
            Least(Own(rows, drawn, k), Clip(tree.held - (IF tree.pend > 0 THEN Owns(rows, drawn, Ahead(kids, k)) ELSE 0)))
  BY TreeIs
<1>2. tree.held \in Nat /\ tree.unallocated \in Nat
  BY TreeNumbers
<1>3. top \in LockIds /\ drawn[top] \in Nat
  BY DEF IsLocks
<1>4. Falls(drawn, drawn, [l \in LockIds |-> 0])
  <2>1. \A l \in LockIds : drawn[l] = drawn[l] + 0
    OBVIOUS
  <2> QED
    BY <2>1 DEF Falls
<1>5. \A S \in SUBSET kids : Owns(rows, drawn, S) \in Nat
  BY <1>1, <1>4, OwnsFall
<1>6. k \in kids => Own(rows, drawn, k) \in Nat
  BY <1>1, <1>4, OwnFalls
<1>7. Ahead(kids, k) \in SUBSET kids
  BY DEF Ahead
<1> DEFINE before == IF tree.pend > 0 THEN Owns(rows, drawn, Ahead(kids, k)) ELSE 0
           all == Owns(rows, drawn, kids)
<1>8. before \in Nat /\ all \in Nat
  BY <1>5, <1>7
<1>9. k \in kids => tree.remaining[k] = Least(Own(rows, drawn, k), Clip(tree.held - before))
  BY <1>1
<1>10. tree.remaining[top] = Least(Clip(tree.unallocated - drawn[top]), IF tree.pend > 0 THEN Clip(tree.held - all) ELSE tree.held)
  BY <1>1
<1> HIDE DEF before, all
<1>11. k = top \/ k \in kids
  BY DEF FamilyOf
<1> HIDE DEF tree, kids
<1>12. k = top => tree.remaining[k] <= tree.held
  BY <1>2, <1>3, <1>8, <1>10 DEF Least, Clip
<1>13. k \in kids => tree.remaining[k] <= tree.held
  BY <1>2, <1>6, <1>8, <1>9 DEF Least, Clip
<1> QED
  BY <1>11, <1>12, <1>13 DEF tree

-----------------------------------------------------------------------------
(* A day's figures, sum by sum                                             *)

Chartering(trips) == {x \in DOMAIN trips : trips[x].mode = "charter"}
OpenBoats(deps, trips) == DOMAIN deps \ {trips[x].boat : x \in Chartering(trips)}
Seating(deps, trips) == [b \in OpenBoats(deps, trips) |-> Sellable(b, deps[b])]
Seated(trips) == [x \in DOMAIN trips \ Chartering(trips) |-> trips[x].pax]
Boatless(deps, trips) == [x \in {y \in Chartering(trips) : trips[y].boat \notin DOMAIN deps} |-> trips[x].pax]
Net(deps, trips) == Total(Seating(deps, trips)) - Total(Boatless(deps, trips)) - Total(Seated(trips))

Tops(rows) == {l \in DOMAIN rows : rows[l].parent = NoLock}
SeatsHeld(rows, drawn) == [t \in Tops(rows) |-> TreeOf(rows, drawn, t).held]
Locked(rows, drawn) == Total(SeatsHeld(rows, drawn))
Pooled(deps, d) == ~(d \in Land) /\ DOMAIN deps[d] # {}

\* What dayCapacity answers, in these sums.
LEMMA DayIs ==
    ASSUME NEW bks, NEW lks, NEW deps, NEW d, NEW except
    PROVE  LET day == DayOf(bks, lks, deps, d, except)
               rows == PoolLocks(lks, d)
               drawn == DrawnByLock(bks, except)
               trips == TripsOn(bks, d, except)
           IN  /\ day.pooled = Pooled(deps, d) /\ day.deps = deps[d] /\ day.rows = rows
               /\ day.open = OpenBoats(deps[d], trips) /\ day.locked = Locked(rows, drawn)
               /\ day.available = IF Pooled(deps, d) THEN Net(deps[d], trips) - Locked(rows, drawn) ELSE 0
               /\ DOMAIN day.remaining = DOMAIN rows
               /\ (\A l \in DOMAIN rows : TopOf(rows, l) \in Tops(rows)) =>
                     \A l \in DOMAIN rows : day.remaining[l] = TreeOf(rows, drawn, TopOf(rows, l)).remaining[l]
<1> DEFINE ds == deps[d]
           trips == TripsOn(bks, d, except)
           boatsOf == [b \in DOMAIN trips |-> {trips[b].boat}]
           rows == PoolLocks(lks, d)
           drawn == DrawnByLock(bks, except)
           charters == {x \in DOMAIN trips : trips[x].mode = "charter"}
           taken == ({} \cup UNION {boatsOf[x] : x \in charters}) \cap DOMAIN ds
           open == DOMAIN ds \ taken
           tops == {l \in DOMAIN rows : rows[l].parent = NoLock}
           tree == [t \in tops |-> TreeOf(rows, drawn, t)]
           lockedBy == [t \in tops |-> tree[t].held]
           bookedBy == [x \in DOMAIN trips \ charters |-> trips[x].pax]
           unplacedBy == [x \in {y \in charters : boatsOf[y] \cap DOMAIN ds = {}} |-> trips[x].pax]
           seatsOf == [b \in open |-> Sellable(b, ds[b])]
           licensedOf == [b \in open |-> Licence[b]]
           pooled == ~(d \in Land) /\ DOMAIN ds # {}
           remaining == [l \in DOMAIN rows |-> tree[TopOf(rows, l)].remaining[l]]
           day == DayOf(bks, lks, deps, d, except)
<1>1. day =
        [pooled |-> pooled, deps |-> ds, open |-> open, locked |-> Total(lockedBy), rows |-> rows,
         available |-> IF pooled THEN Total(seatsOf) - Total(unplacedBy) - Total(bookedBy) - Total(lockedBy) ELSE 0,
         licensedFree |-> IF pooled THEN Total(licensedOf) - Total(unplacedBy) - Total(bookedBy) ELSE 0,
         remaining |-> remaining]
  BY DEF DayOf, DayCapacity
<1>2. charters = Chartering(trips)
  BY DEF Chartering
<1>3. open = OpenBoats(ds, trips)
  BY DEF OpenBoats, Chartering
<1>4. {y \in charters : boatsOf[y] \cap DOMAIN ds = {}} = {y \in Chartering(trips) : trips[y].boat \notin DOMAIN ds}
  BY DEF Chartering
<1>5. seatsOf = Seating(ds, trips) /\ bookedBy = Seated(trips) /\ unplacedBy = Boatless(ds, trips)
  BY <1>2, <1>3, <1>4 DEF Seating, Seated, Boatless
<1>6. tops = Tops(rows) /\ lockedBy = SeatsHeld(rows, drawn)
  BY DEF Tops, SeatsHeld
<1>7. pooled = Pooled(deps, d)
  BY DEF Pooled
<1>8. DOMAIN remaining = DOMAIN rows
      /\ \A l \in DOMAIN rows : TopOf(rows, l) \in Tops(rows) => remaining[l] = TreeOf(rows, drawn, TopOf(rows, l)).remaining[l]
  BY <1>6
<1> HIDE DEF day, pooled, open, lockedBy, seatsOf, unplacedBy, bookedBy, licensedOf, remaining, rows, trips, drawn, ds
<1>9. /\ day.pooled = pooled /\ day.deps = ds /\ day.rows = rows /\ day.open = open /\ day.locked = Total(lockedBy)
      /\ day.available = (IF pooled THEN Total(seatsOf) - Total(unplacedBy) - Total(bookedBy) - Total(lockedBy) ELSE 0)
      /\ day.remaining = remaining
  BY <1>1
<1>10. Net(ds, trips) = Total(seatsOf) - Total(unplacedBy) - Total(bookedBy) /\ Locked(rows, drawn) = Total(lockedBy)
  BY <1>5, <1>6 DEF Net, Locked
<1> QED
  BY <1>3, <1>7, <1>8, <1>9, <1>10 DEF rows, trips, drawn, ds, day

\* Deployed boats, and the trips of a day that hold seats.
IsFleet(ds) == DOMAIN ds \subseteq Boats /\ \A x \in DOMAIN ds : ds[x] \in Nat
IsTrips(trips) == IsFiniteSet(DOMAIN trips) /\ \A x \in DOMAIN trips : trips[x].pax \in Nat

LEMMA NetTables ==
    ASSUME NEW ds, IsFleet(ds), NEW trips, IsTrips(trips)
    PROVE  IsTable(Seating(ds, trips)) /\ IsTable(Boatless(ds, trips)) /\ IsTable(Seated(trips)) /\ Net(ds, trips) \in Int
<1>1. IsTable(Seating(ds, trips))
  <2>1. OpenBoats(ds, trips) \subseteq DOMAIN ds /\ OpenBoats(ds, trips) \in SUBSET Boats
    BY DEF OpenBoats, IsFleet
  <2>2. IsFiniteSet(OpenBoats(ds, trips))
    BY <2>1, BoatAssumption, FS_Subset
  <2>3. \A b \in OpenBoats(ds, trips) : Sellable(b, ds[b]) \in Nat
    BY <2>1, BoatAssumption, LeastOfNats DEF Sellable, IsFleet
  <2> QED
    BY <2>2, <2>3 DEF IsTable, Seating
<1>2. IsTable(Boatless(ds, trips)) /\ IsTable(Seated(trips))
  <2>1. IsFiniteSet({y \in Chartering(trips) : trips[y].boat \notin DOMAIN ds}) /\ IsFiniteSet(DOMAIN trips \ Chartering(trips))
    BY FS_Subset DEF IsTrips, Chartering
  <2> QED
    BY <2>1 DEF IsTable, Boatless, Seated, IsTrips, Chartering
<1>3. Total(Seating(ds, trips)) \in Nat /\ Total(Boatless(ds, trips)) \in Nat /\ Total(Seated(trips)) \in Nat
  BY <1>1, <1>2, TableTotal
<1> QED
  BY <1>1, <1>2, <1>3 DEF Net

\* What one trip takes off a day the others left with these boats open.
Cost(ds, open, t) ==
    IF t.mode # "charter" THEN t.pax
    ELSE IF t.boat \in open THEN Sellable(t.boat, ds[t.boat])
    ELSE IF t.boat \in DOMAIN ds THEN 0 ELSE t.pax

LEMMA NetWith ==
    ASSUME NEW ds, IsFleet(ds), NEW trips, IsTrips(trips), NEW b \in DOMAIN trips
    PROVE  LET rest == [x \in DOMAIN trips \ {b} |-> trips[x]]
           IN  /\ IsTrips(rest) /\ Cost(ds, OpenBoats(ds, rest), trips[b]) \in Nat
               /\ Net(ds, trips) = Net(ds, rest) - Cost(ds, OpenBoats(ds, rest), trips[b])
<1> DEFINE rest == [x \in DOMAIN trips \ {b} |-> trips[x]]
           t == trips[b]
<1>1. IsTrips(rest)
  BY FS_Subset DEF IsTrips
<1>2. DOMAIN rest = DOMAIN trips \ {b} /\ \A x \in DOMAIN rest : rest[x] = trips[x]
  OBVIOUS
<1>3. t.pax \in Nat
  BY DEF IsTrips
<1> HIDE DEF rest
<1> DEFINE se == Seating(ds, trips)
           un == Boatless(ds, trips)
           bo == Seated(trips)
           se0 == Seating(ds, rest)
           un0 == Boatless(ds, rest)
           bo0 == Seated(rest)
<1>4. IsTable(se) /\ IsTable(un) /\ IsTable(bo) /\ IsTable(se0) /\ IsTable(un0) /\ IsTable(bo0)
  BY <1>1, NetTables
<1>5. Total(se) \in Nat /\ Total(un) \in Nat /\ Total(bo) \in Nat /\ Total(se0) \in Nat /\ Total(un0) \in Nat /\ Total(bo0) \in Nat
  BY <1>4, TableTotal
<1>6. Net(ds, trips) = Total(se) - Total(un) - Total(bo) /\ Net(ds, rest) = Total(se0) - Total(un0) - Total(bo0)
  BY DEF Net
<1>7. CASE t.mode # "charter"
  <2>1. Chartering(rest) = Chartering(trips) /\ b \notin Chartering(trips)
    BY <1>2, <1>7 DEF Chartering
  <2>2. {rest[x].boat : x \in Chartering(rest)} = {trips[x].boat : x \in Chartering(trips)}
    BY <1>2, <2>1 DEF Chartering
  <2>3. OpenBoats(ds, rest) = OpenBoats(ds, trips)
    BY <2>2 DEF OpenBoats
  <2>4. se0 = se
    BY <2>3 DEF Seating
  <2>5. un0 = un
    BY <1>2, <2>1 DEF Boatless, Chartering
  <2>6. b \in DOMAIN bo /\ bo[b] = t.pax /\ [y \in DOMAIN bo \ {b} |-> bo[y]] = bo0
    BY <1>2, <2>1 DEF Seated, Chartering
  <2>7. Cost(ds, OpenBoats(ds, rest), t) = t.pax
    BY <1>7 DEF Cost
  <2> HIDE DEF se, un, bo, se0, un0, bo0, t
  <2>8. Total(bo) = Total(bo0) + t.pax
    BY <1>4, <2>6, TotalSplit
  <2>9. Total(se0) = Total(se) /\ Total(un0) = Total(un)
    BY <2>4, <2>5
  <2>10. Net(ds, trips) = Net(ds, rest) - t.pax
    BY <1>3, <1>5, <1>6, <2>8, <2>9
  <2> QED
    BY <1>1, <1>3, <2>7, <2>10 DEF rest, t
<1>8. CASE t.mode = "charter"
  <2>1. Chartering(trips) = Chartering(rest) \cup {b} /\ b \notin Chartering(rest)
    BY <1>2, <1>8 DEF Chartering
  <2>2. {trips[x].boat : x \in Chartering(trips)} = {rest[x].boat : x \in Chartering(rest)} \cup {t.boat}
    BY <1>2, <2>1 DEF Chartering
  <2>3. OpenBoats(ds, trips) = OpenBoats(ds, rest) \ {t.boat}
    BY <2>2 DEF OpenBoats
  <2>4. bo0 = bo
    <3>1. DOMAIN trips \ Chartering(trips) = DOMAIN rest \ Chartering(rest)
      BY <1>2, <2>1
    <3> QED
      BY <1>2, <3>1 DEF Seated
  <2>5. CASE t.boat \in OpenBoats(ds, rest)
    <3>1. t.boat \in DOMAIN ds
      BY <2>5 DEF OpenBoats
    <3>2. un0 = un
      BY <1>2, <2>1, <3>1 DEF Boatless, Chartering
    <3>3. t.boat \in DOMAIN se0 /\ se0[t.boat] = Sellable(t.boat, ds[t.boat]) /\ [y \in DOMAIN se0 \ {t.boat} |-> se0[y]] = se
      BY <2>3, <2>5 DEF Seating
    <3>4. Cost(ds, OpenBoats(ds, rest), t) = Sellable(t.boat, ds[t.boat])
      BY <1>8, <2>5 DEF Cost
    <3>5. Sellable(t.boat, ds[t.boat]) \in Nat
      BY <1>4, <3>3 DEF IsTable
    <3> HIDE DEF se, un, bo, se0, un0, bo0, t
    <3>6. Total(se0) = Total(se) + Sellable(t.boat, ds[t.boat])
      BY <1>4, <3>3, TotalSplit
    <3>7. Total(bo0) = Total(bo) /\ Total(un0) = Total(un)
      BY <2>4, <3>2
    <3>8. Net(ds, trips) = Net(ds, rest) - Sellable(t.boat, ds[t.boat])
      BY <1>5, <1>6, <3>5, <3>6, <3>7
    <3> QED
      BY <1>1, <3>4, <3>5, <3>8 DEF rest, t
  <2>6. CASE t.boat \notin OpenBoats(ds, rest)
    <3>1. se0 = se
      BY <2>3, <2>6 DEF Seating
    <3>2. CASE t.boat \in DOMAIN ds
      <4>1. un0 = un
        BY <1>2, <2>1, <3>2 DEF Boatless, Chartering
      <4>2. Cost(ds, OpenBoats(ds, rest), t) = 0
        BY <1>8, <2>6, <3>2 DEF Cost
      <4> QED
        BY <1>1, <1>5, <1>6, <2>4, <3>1, <4>1, <4>2 DEF rest
    <3>3. CASE t.boat \notin DOMAIN ds
      <4>1. b \in DOMAIN un /\ un[b] = t.pax /\ [y \in DOMAIN un \ {b} |-> un[y]] = un0
        BY <1>2, <2>1, <3>3 DEF Boatless, Chartering
      <4>2. Cost(ds, OpenBoats(ds, rest), t) = t.pax
        BY <1>8, <2>6, <3>3 DEF Cost
      <4> HIDE DEF se, un, bo, se0, un0, bo0, t
      <4>3. Total(un) = Total(un0) + t.pax
        BY <1>4, <4>1, TotalSplit
      <4>4. Total(bo0) = Total(bo) /\ Total(se0) = Total(se)
        BY <2>4, <3>1
      <4>5. Net(ds, trips) = Net(ds, rest) - t.pax
        BY <1>3, <1>5, <1>6, <4>3, <4>4
      <4> QED
        BY <1>1, <1>3, <4>2, <4>5 DEF rest, t
    <3> QED
      BY <3>2, <3>3
  <2> QED
    BY <2>5, <2>6
<1> QED
  BY <1>7, <1>8

\* Rows of whole families, as a day's locks are.
IsFamilies(rows) == IsLocks(rows) /\ \A l \in DOMAIN rows : TopOf(rows, l) \in Tops(rows)

LEMMA DayRows ==
    ASSUME NEW lks, IsLocks(lks), Family(lks), NEW d
    PROVE  /\ IsFamilies(PoolLocks(lks, d))
           /\ \A l \in DOMAIN PoolLocks(lks, d) : l \in DOMAIN lks /\ PoolLocks(lks, d)[l] = lks[l] /\ lks[l].day = d
           /\ \A top \in Tops(PoolLocks(lks, d)) : KidsIn(PoolLocks(lks, d), top) = KidsIn(lks, top)
<1> DEFINE rows == PoolLocks(lks, d)
<1>1. /\ IsLocks(rows)
      /\ \A l \in DOMAIN rows : l \in DOMAIN lks /\ rows[l] = lks[l] /\ lks[l].day = d
      /\ \A l \in DOMAIN rows : TopOf(rows, l) \in DOMAIN rows /\ rows[TopOf(rows, l)].parent = NoLock
  BY PoolLocksFacts
<1>2. DOMAIN rows = {l \in DOMAIN lks : lks[l].day = d /\ IsHolding(lks, TopOf(lks, l))}
  BY DEF PoolLocks
<1>3. ASSUME NEW top \in Tops(rows) PROVE KidsIn(rows, top) = KidsIn(lks, top)
  <2>1. top \in DOMAIN rows /\ lks[top].parent = NoLock /\ lks[top].day = d /\ top \in LockIds
    BY <1>1 DEF Tops, IsLocks
  <2>2. IsHolding(lks, top)
    BY <1>2, <2>1 DEF TopOf
  <2>3. ASSUME NEW k \in KidsIn(lks, top) PROVE k \in KidsIn(rows, top)
    <3>1. k \in DOMAIN lks /\ lks[k].parent = top
      BY DEF KidsIn
    <3>2. top # NoLock
      BY <2>1, LockAssumption
    <3>3. lks[k].day = d /\ TopOf(lks, k) = top
      BY <2>1, <3>1, <3>2 DEF Family, TopOf
    <3> QED
      BY <1>1, <1>2, <2>2, <3>1, <3>3 DEF KidsIn
  <2>4. ASSUME NEW k \in KidsIn(rows, top) PROVE k \in KidsIn(lks, top)
    BY <1>1 DEF KidsIn
  <2> QED
    BY <2>3, <2>4
<1>4. \A l \in DOMAIN rows : TopOf(rows, l) \in Tops(rows)
  BY <1>1 DEF Tops
<1> QED
  BY <1>1, <1>3, <1>4 DEF IsFamilies

LEMMA HeldTables ==
    ASSUME NEW rows, IsLocks(rows), NEW drawn \in [LockIds -> Nat]
    PROVE  /\ Tops(rows) \in SUBSET LockIds /\ IsFiniteSet(Tops(rows)) /\ DOMAIN rows \in SUBSET LockIds
           /\ SeatsHeld(rows, drawn) \in [Tops(rows) -> Nat] /\ IsTable(SeatsHeld(rows, drawn)) /\ Locked(rows, drawn) \in Nat
<1>1. Tops(rows) \in SUBSET LockIds /\ Tops(rows) \subseteq DOMAIN rows /\ DOMAIN rows \in SUBSET LockIds
  BY DEF Tops, IsLocks
<1>2. IsFiniteSet(Tops(rows))
  BY <1>1, LockAssumption, FS_Subset
<1>3. \A t \in Tops(rows) : TreeOf(rows, drawn, t).held \in Nat
  BY <1>1, TreeNumbers
<1>4. SeatsHeld(rows, drawn) \in [Tops(rows) -> Nat]
  BY <1>3 DEF SeatsHeld
<1>5. IsTable(SeatsHeld(rows, drawn))
  BY <1>2, <1>4 DEF IsTable
<1> QED
  BY <1>1, <1>2, <1>4, <1>5, TableTotal DEF Locked

\* A day's draws, counted tree by tree.
LEMMA FallsByTree ==
    ASSUME NEW rows, IsFamilies(rows), NEW fall \in [LockIds -> Nat]
    PROVE  LET by == [t \in Tops(rows) |-> SumOver(fall, FamilyOf(rows, t))]
           IN  by \in [Tops(rows) -> Nat] /\ Total(by) = SumOver(fall, DOMAIN rows)
<1> DEFINE T == Tops(rows)
           f == [x \in LockIds |-> fall[x]]
           group == [t \in T |-> FamilyOf(rows, t)]
           by == [t \in T |-> SumOver(fall, FamilyOf(rows, t))]
<1>1. T \in SUBSET LockIds /\ IsFiniteSet(T) /\ DOMAIN rows \in SUBSET LockIds
  <2>1. [l \in LockIds |-> 0] \in [LockIds -> Nat]
    OBVIOUS
  <2> QED
    BY <2>1, HeldTables DEF IsFamilies
<1>2. ASSUME NEW t \in T PROVE FamilyOf(rows, t) \in SUBSET LockIds /\ FamilyOf(rows, t) \subseteq DOMAIN rows /\ SumOver(fall, FamilyOf(rows, t)) \in Nat
  BY FamilyFacts DEF IsFamilies, Tops
<1>3. IsTable(f) /\ \A t \in T : group[t] \subseteq DOMAIN f
  BY <1>2, LockAssumption DEF IsTable
<1>4. ASSUME NEW t \in T, NEW u \in T, t # u PROVE group[t] \cap group[u] = {}
  <2>1. rows[t].parent = NoLock /\ rows[u].parent = NoLock /\ t # NoLock /\ u # NoLock
    BY <1>1, LockAssumption DEF Tops
  <2> QED
    BY <1>4, <2>1 DEF FamilyOf, KidsIn
<1>5. UNION {group[t] : t \in T} = DOMAIN rows
  <2>1. ASSUME NEW l \in DOMAIN rows PROVE \E t \in T : l \in group[t]
    <3>1. TopOf(rows, l) \in T
      BY DEF IsFamilies
    <3>2. l \in FamilyOf(rows, TopOf(rows, l))
      BY DEF TopOf, FamilyOf, KidsIn
    <3> QED
      BY <3>1, <3>2
  <2>2. \A t \in T : group[t] \subseteq DOMAIN rows
    BY <1>2
  <2> QED
    BY <2>1, <2>2
<1>6. ASSUME NEW S \in SUBSET LockIds PROVE [x \in S |-> f[x]] = [x \in S |-> fall[x]]
  OBVIOUS
<1>7. \A t \in T : group[t] = FamilyOf(rows, t) /\ SumOver(fall, FamilyOf(rows, t)) = Total([x \in group[t] |-> f[x]])
  BY <1>2, <1>6 DEF SumOver
<1>8. SumOver(fall, DOMAIN rows) = SumOver(f, DOMAIN rows)
  BY <1>1, <1>6 DEF SumOver
<1>9. SumEach(f, group, T) = Total(by)
  <2>1. by = [t \in T |-> Total([x \in group[t] |-> f[x]])]
    BY <1>7
  <2> QED
    BY <2>1 DEF SumEach
<1>10. by \in [T -> Nat]
  BY <1>2
<1> HIDE DEF f, group, by, T
<1>11. SumEach(f, group, T) = SumOver(f, UNION {group[t] : t \in T})
  BY <1>1, <1>3, <1>4, TotalGroups
<1>12. Total(by) = SumOver(fall, DOMAIN rows)
  BY <1>5, <1>8, <1>9, <1>11
<1> QED
  BY <1>10, <1>12 DEF by, T

\* With fewer seats drawn a day's locks hold no fewer, and at most as many more.
LEMMA LockedFalls ==
    ASSUME NEW rows, IsFamilies(rows), NEW more, NEW less, NEW fall, Falls(more, less, fall)
    PROVE  /\ Locked(rows, more) \in Nat /\ Locked(rows, less) \in Nat /\ SumOver(fall, DOMAIN rows) \in Nat
           /\ Locked(rows, more) <= Locked(rows, less)
           /\ Locked(rows, less) <= Locked(rows, more) + SumOver(fall, DOMAIN rows)
           /\ (\A top \in Tops(rows) :
                 \/ SumOver(fall, FamilyOf(rows, top)) <= TreeOf(rows, less, top).held
                 \/ TreeOf(rows, more, top).used + rows[top].pending <= Asked(rows, top)) =>
              Locked(rows, less) = Locked(rows, more) + SumOver(fall, DOMAIN rows)
<1> DEFINE T == Tops(rows)
           a == SeatsHeld(rows, more)
           b == SeatsHeld(rows, less)
           by == [t \in T |-> SumOver(fall, FamilyOf(rows, t))]
           c == [t \in T |-> a[t] + by[t]]
<1>1. more \in [LockIds -> Nat] /\ less \in [LockIds -> Nat] /\ fall \in [LockIds -> Nat]
  BY DEF Falls
<1>2. IsFiniteSet(T) /\ a \in [T -> Nat] /\ b \in [T -> Nat] /\ Locked(rows, more) \in Nat /\ Locked(rows, less) \in Nat
      /\ DOMAIN rows \in SUBSET LockIds
  BY <1>1, HeldTables DEF IsFamilies
<1>3. by \in [T -> Nat] /\ Total(by) = SumOver(fall, DOMAIN rows)
  BY <1>1, FallsByTree
<1>4. SumOver(fall, DOMAIN rows) \in Nat
  BY <1>1, <1>2, LockSum
<1>5. ASSUME NEW t \in T
      PROVE  /\ a[t] = TreeOf(rows, more, t).held /\ b[t] = TreeOf(rows, less, t).held /\ by[t] = SumOver(fall, FamilyOf(rows, t))
             /\ a[t] <= b[t] /\ b[t] <= a[t] + by[t]
             /\ by[t] <= b[t] \/ TreeOf(rows, more, t).used + rows[t].pending <= Asked(rows, t) => b[t] = a[t] + by[t]
  <2>1. t \in DOMAIN rows /\ rows[t].parent = NoLock /\ IsLocks(rows)
    BY DEF Tops, IsFamilies
  <2>2. a[t] = TreeOf(rows, more, t).held /\ b[t] = TreeOf(rows, less, t).held /\ by[t] = SumOver(fall, FamilyOf(rows, t))
    BY DEF SeatsHeld
  <2> HIDE DEF a, b, by
  <2> QED
    BY <2>1, <2>2, TreeFalls
<1>6. c \in [T -> Nat] /\ \A t \in T : c[t] = a[t] + by[t]
  BY <1>2, <1>3
<1>7. Locked(rows, more) = Total(a) /\ Locked(rows, less) = Total(b)
  BY DEF Locked
<1> HIDE DEF T, a, b, by, c
<1>8. Total(c) = Total(a) + Total(by)
  BY <1>2, <1>3, <1>6, TotalAdd
<1>9. Total(a) <= Total(b)
  BY <1>2, <1>5, TotalMono
<1>10. Total(b) <= Total(c)
  BY <1>2, <1>5, <1>6, TotalMono
<1>11. ASSUME \A t \in T : \/ SumOver(fall, FamilyOf(rows, t)) <= TreeOf(rows, less, t).held
                           \/ TreeOf(rows, more, t).used + rows[t].pending <= Asked(rows, t)
       PROVE  Total(b) = Total(c)
  <2>1. \A t \in T : b[t] = c[t]
    BY <1>5, <1>6, <1>11
  <2>2. b = c
    BY <1>2, <1>6, <2>1
  <2> QED
    BY <2>2
<1> QED
  BY <1>2, <1>3, <1>4, <1>7, <1>8, <1>9, <1>10, <1>11 DEF T

-----------------------------------------------------------------------------
(* One booking beside the others                                           *)

\* The seats a booking draws from each lock, if it holds its seats.
Takes(bk) == [l \in LockIds |-> IF HoldsSeats(bk) THEN DrawnBy(bk, l) ELSE 0]

\* What a booking takes off a day the others left with these boats open.
CostOn(bk, ds, open, d) == IF HoldsSeats(bk) /\ d \in DOMAIN bk.trips THEN Cost(ds, open, bk.trips[d]) ELSE 0

LEMMA TakesFacts ==
    ASSUME NEW bks, IsBookings(bks), NEW b \in Bookings
    PROVE  Falls(DrawnByLock(bks, {}), DrawnByLock(bks, {b}), Takes(bks[b]))
<1> DEFINE C == Counted(bks, {})
           R == Counted(bks, {b})
<1>1. DrawnByLock(bks, {}) \in [LockIds -> Nat] /\ DrawnByLock(bks, {b}) \in [LockIds -> Nat]
  BY DrawnIsFunction
<1>2. IsFiniteSet(C) /\ \A c \in C : bks[c] \in BookingRows
  BY CountedFacts
<1>3. HoldsSeats(bks[b]) => b \in C /\ R = C \ {b}
  BY DEF Counted
<1>4. ~HoldsSeats(bks[b]) => R = C
  BY DEF Counted
<1>5. ASSUME NEW l \in LockIds
      PROVE  Takes(bks[b])[l] \in Nat /\ DrawnByLock(bks, {})[l] = DrawnByLock(bks, {b})[l] + Takes(bks[b])[l]
  <2> DEFINE f == [c \in C |-> DrawnBy(bks[c], l)]
             g == [c \in R |-> DrawnBy(bks[c], l)]
  <2>1. DrawnByLock(bks, {})[l] = Total(f) /\ DrawnByLock(bks, {b})[l] = Total(g)
    BY DEF DrawnByLock
  <2>2. IsTable(f)
    BY <1>2, DrawnByFacts DEF IsTable
  <2>3. Total(f) \in Nat
    BY <2>2, TableTotal
  <2>4. CASE HoldsSeats(bks[b])
    <3>1. b \in DOMAIN f /\ [c \in DOMAIN f \ {b} |-> f[c]] = g /\ f[b] = Takes(bks[b])[l] /\ f[b] \in Nat
      BY <1>2, <1>3, <2>4, DrawnByFacts DEF Takes
    <3> HIDE DEF f, g
    <3>2. Total(f) = Total(g) + f[b]
      BY <2>2, <3>1, TotalSplit
    <3> QED
      BY <2>1, <3>1, <3>2
  <2>5. CASE ~HoldsSeats(bks[b])
    <3>1. f = g /\ Takes(bks[b])[l] = 0
      BY <1>4, <2>5 DEF Takes
    <3> HIDE DEF f, g
    <3> QED
      BY <2>1, <2>3, <3>1
  <2> QED
    BY <2>4, <2>5
<1>6. Takes(bks[b]) \in [LockIds -> Nat]
  <2>1. Takes(bks[b]) = [l \in LockIds |-> Takes(bks[b])[l]]
    BY DEF Takes
  <2> QED
    BY <1>5, <2>1
<1> QED
  BY <1>1, <1>5, <1>6 DEF Falls

LEMMA TripsBeside ==
    ASSUME NEW bks, IsBookings(bks), NEW b \in Bookings, NEW d
    PROVE  LET all == TripsOn(bks, d, {})
               rest == TripsOn(bks, d, {b})
               here == HoldsSeats(bks[b]) /\ d \in DOMAIN bks[b].trips
           IN  /\ IsTrips(all) /\ IsTrips(rest)
               /\ here => b \in DOMAIN all /\ all[b] = bks[b].trips[d] /\ rest = [x \in DOMAIN all \ {b} |-> all[x]]
               /\ ~here => all = rest
<1>1. ASSUME NEW except PROVE IsTrips(TripsOn(bks, d, except))
  <2> DEFINE C == Counted(bks, except)
             trips == TripsOn(bks, d, except)
  <2>1. IsFiniteSet(C) /\ \A c \in C : bks[c] \in BookingRows
    BY CountedFacts
  <2>2. DOMAIN trips = {c \in C : d \in DOMAIN bks[c].trips} /\ \A c \in DOMAIN trips : trips[c] = bks[c].trips[d]
    BY DEF TripsOn
  <2>3. IsFiniteSet(DOMAIN trips)
    BY <2>1, <2>2, FS_Subset
  <2>4. ASSUME NEW c \in DOMAIN trips PROVE trips[c].pax \in Nat
    <3>1. bks[c].trips \in TripPlans /\ d \in DOMAIN bks[c].trips
      BY <2>1, <2>2 DEF BookingRows
    <3>2. bks[c].trips[d] \in Trips
      BY <3>1, PlanFacts
    <3> QED
      BY <2>2, <3>2, TripFacts
  <2> QED
    BY <2>3, <2>4 DEF IsTrips
<1> DEFINE here == HoldsSeats(bks[b]) /\ d \in DOMAIN bks[b].trips
           A == {c \in Counted(bks, {}) : d \in DOMAIN bks[c].trips}
           R == {c \in Counted(bks, {b}) : d \in DOMAIN bks[c].trips}
<1>2. TripsOn(bks, d, {}) = [c \in A |-> bks[c].trips[d]] /\ TripsOn(bks, d, {b}) = [c \in R |-> bks[c].trips[d]]
  BY DEF TripsOn
<1>3. here => b \in A /\ R = A \ {b}
  BY DEF Counted
<1>4. ~here => R = A
  BY DEF Counted
<1> HIDE DEF A, R, here
<1>5. here => /\ b \in DOMAIN TripsOn(bks, d, {}) /\ TripsOn(bks, d, {})[b] = bks[b].trips[d]
              /\ TripsOn(bks, d, {b}) = [x \in DOMAIN TripsOn(bks, d, {}) \ {b} |-> TripsOn(bks, d, {})[x]]
  BY <1>2, <1>3
<1>6. ~here => TripsOn(bks, d, {}) = TripsOn(bks, d, {b})
  BY <1>2, <1>4
<1> QED
  BY <1>1, <1>5, <1>6 DEF here

LEMMA NetBeside ==
    ASSUME NEW bks, IsBookings(bks), NEW b \in Bookings, NEW d, NEW ds, IsFleet(ds)
    PROVE  LET rest == TripsOn(bks, d, {b})
               cost == CostOn(bks[b], ds, OpenBoats(ds, rest), d)
           IN  cost \in Nat /\ Net(ds, rest) \in Int /\ Net(ds, TripsOn(bks, d, {})) = Net(ds, rest) - cost
<1> DEFINE all == TripsOn(bks, d, {})
           rest == TripsOn(bks, d, {b})
           here == HoldsSeats(bks[b]) /\ d \in DOMAIN bks[b].trips
           cost == CostOn(bks[b], ds, OpenBoats(ds, rest), d)
<1>1. /\ IsTrips(all) /\ IsTrips(rest)
      /\ here => b \in DOMAIN all /\ all[b] = bks[b].trips[d] /\ rest = [x \in DOMAIN all \ {b} |-> all[x]]
      /\ ~here => all = rest
  BY TripsBeside
<1>2. cost = IF here THEN Cost(ds, OpenBoats(ds, rest), bks[b].trips[d]) ELSE 0
  BY DEF CostOn
<1> HIDE DEF all, rest, here, cost
<1>3. Net(ds, rest) \in Int /\ Net(ds, all) \in Int
  BY <1>1, NetTables
<1>4. CASE here
  <2>1. /\ Cost(ds, OpenBoats(ds, [x \in DOMAIN all \ {b} |-> all[x]]), all[b]) \in Nat
        /\ Net(ds, all) = Net(ds, [x \in DOMAIN all \ {b} |-> all[x]])
                          - Cost(ds, OpenBoats(ds, [x \in DOMAIN all \ {b} |-> all[x]]), all[b])
    BY <1>1, <1>4, NetWith
  <2>2. cost \in Nat /\ Net(ds, all) = Net(ds, rest) - cost
    BY <1>1, <1>2, <1>4, <2>1
  <2> QED
    BY <1>3, <2>2 DEF all, rest, cost
<1>5. CASE ~here
  <2>1. cost = 0 /\ Net(ds, all) = Net(ds, rest)
    BY <1>1, <1>2, <1>5
  <2>2. cost \in Nat /\ Net(ds, all) = Net(ds, rest) - cost
    BY <1>3, <2>1
  <2> QED
    BY <1>3, <2>2 DEF all, rest, cost
<1> QED
  BY <1>4, <1>5

\* What the others ask of a day does not depend on what the booking asks.
LEMMA OthersStand ==
    ASSUME NEW bks, NEW new, NEW b, \A c \in Bookings \ {b} : new[c] = bks[c], NEW d
    PROVE  TripsOn(new, d, {b}) = TripsOn(bks, d, {b}) /\ DrawnByLock(new, {b}) = DrawnByLock(bks, {b})
<1>1. Counted(new, {b}) = Counted(bks, {b}) /\ \A c \in Counted(bks, {b}) : new[c] = bks[c]
  BY DEF Counted
<1> DEFINE C == Counted(bks, {b})
           R == {c \in C : d \in DOMAIN bks[c].trips}
<1>2. TripsOn(new, d, {b}) = TripsOn(bks, d, {b})
  <2>1. {c \in Counted(new, {b}) : d \in DOMAIN new[c].trips} = R
    BY <1>1
  <2>2. TripsOn(new, d, {b}) = [c \in R |-> new[c].trips[d]] /\ TripsOn(bks, d, {b}) = [c \in R |-> bks[c].trips[d]]
    BY <2>1 DEF TripsOn
  <2> HIDE DEF C
  <2> QED
    BY <1>1, <2>2 DEF C
<1>3. DrawnByLock(new, {b}) = DrawnByLock(bks, {b})
  <2>1. ASSUME NEW l \in LockIds PROVE [c \in C |-> DrawnBy(new[c], l)] = [c \in C |-> DrawnBy(bks[c], l)]
    BY <1>1
  <2>2. DrawnByLock(new, {b}) = [l \in LockIds |-> Total([c \in C |-> DrawnBy(new[c], l)])]
        /\ DrawnByLock(bks, {b}) = [l \in LockIds |-> Total([c \in C |-> DrawnBy(bks[c], l)])]
    BY <1>1 DEF DrawnByLock
  <2> HIDE DEF C
  <2>3. \A l \in LockIds : DrawnByLock(new, {b})[l] = DrawnByLock(bks, {b})[l]
    BY <2>1, <2>2
  <2> QED
    BY <2>2, <2>3
<1> QED
  BY <1>2, <1>3

-----------------------------------------------------------------------------
(* A day with the booking and without it                                   *)

\* Draws of the day's own locks only.
AtHome(bk, lks) == \A d \in DOMAIN bk.trips, l \in LockIds : bk.trips[d].draws[l] > 0 => lks[l].day = d

\* A trip draws no more seats than it has passengers, and only a charter names a boat.
Sized(t) == DrawnTotal(t) <= t.pax /\ (t.boat # NoBoat => t.mode = "charter")

LEMMA SoldFacts ==
    ASSUME NEW t \in SoldTrips
    PROVE  /\ t \in Trips /\ t.pax \in Nat /\ t.draws \in [LockIds -> Nat] /\ DrawnTotal(t) \in Nat
           /\ t.mode \in {"seat", "charter"} /\ (t.boat \in Boats \/ t.boat = NoBoat)
           /\ DrawnTotal(t) = SumOver(t.draws, LockIds)
           /\ t.mode = "charter" => DrawnTotal(t) = 0 /\ \A l \in LockIds : t.draws[l] = 0
<1>1. t \in Trips /\ t.pax \in Nat /\ t.draws \in [LockIds -> Nat] /\ t.mode \in {"seat", "charter"} /\ (t.boat \in Boats \/ t.boat = NoBoat)
  BY TripFacts DEF SoldTrips
<1>2. IsTable(t.draws)
  BY <1>1, LockAssumption DEF IsTable
<1>3. DrawnTotal(t) \in Nat
  BY <1>2, TableTotal DEF DrawnTotal
<1>4. t.draws = [l \in LockIds |-> t.draws[l]]
  BY <1>1
<1>5. DrawnTotal(t) = SumOver(t.draws, LockIds)
  BY <1>4 DEF DrawnTotal, SumOver
<1>6. ASSUME t.mode = "charter" PROVE DrawnTotal(t) = 0 /\ \A l \in LockIds : t.draws[l] = 0
  <2>1. \A l \in LockIds : t.draws[l] = 0
    BY <1>6 DEF SoldTrips
  <2> DEFINE none == [l \in {} |-> 0]
  <2>2. DOMAIN none = {} /\ DOMAIN none \subseteq DOMAIN t.draws /\ \A x \in DOMAIN t.draws \ DOMAIN none : t.draws[x] = 0
    BY <1>1, <2>1
  <2> HIDE DEF none
  <2>3. Total(t.draws) = Total(none) /\ Total(none) = 0
    BY <2>2, TotalSupport, TotalEmpty
  <2> QED
    BY <2>1, <2>3 DEF DrawnTotal
<1> QED
  BY <1>1, <1>3, <1>5, <1>6

\* What a booking draws from a lock of a day is what its trip that day draws.
LEMMA TakesOn ==
    ASSUME NEW bk \in BookingRows, NEW lks, HoldsSeats(bk), AtHome(bk, lks), NEW l \in LockIds, NEW d, lks[l].day = d
    PROVE  Takes(bk)[l] = IF d \in DOMAIN bk.trips THEN bk.trips[d].draws[l] ELSE 0
<1> DEFINE f == [e \in DOMAIN bk.trips |-> bk.trips[e].draws[l]]
           g == [e \in {d} |-> bk.trips[e].draws[l]]
           none == [e \in {} |-> 0]
<1>1. Takes(bk)[l] = Total(f)
  BY DEF Takes, DrawnBy
<1>2. \A e \in DOMAIN bk.trips : bk.trips[e].draws[l] \in Nat
  BY PlanFacts, TripFacts DEF BookingRows
<1>3. \A e \in DOMAIN bk.trips : e # d => bk.trips[e].draws[l] = 0
  BY <1>2 DEF AtHome
<1>4. CASE d \in DOMAIN bk.trips
  <2>1. /\ DOMAIN g = {d} /\ g[d] = bk.trips[d].draws[l] /\ g[d] \in Nat
        /\ DOMAIN g \subseteq DOMAIN f /\ (\A e \in DOMAIN g : g[e] = f[e]) /\ \A e \in DOMAIN f \ DOMAIN g : f[e] = 0
    BY <1>2, <1>3, <1>4
  <2> HIDE DEF f, g
  <2>2. Total(f) = Total(g) /\ Total(g) = g[d]
    BY <2>1, TotalSupport, TotalOne
  <2> QED
    BY <1>1, <1>4, <2>1, <2>2
<1>5. CASE d \notin DOMAIN bk.trips
  <2>1. /\ DOMAIN none = {} /\ DOMAIN none \subseteq DOMAIN f /\ (\A e \in DOMAIN none : none[e] = f[e])
        /\ \A e \in DOMAIN f \ DOMAIN none : f[e] = 0
    BY <1>3, <1>5
  <2> HIDE DEF f, none
  <2>2. Total(f) = Total(none) /\ Total(none) = 0
    BY <2>1, TotalSupport, TotalEmpty
  <2> QED
    BY <1>1, <1>5, <2>2
<1> QED
  BY <1>4, <1>5

LEMMA LockSumSame ==
    ASSUME NEW f, NEW g, NEW S, \A l \in S : f[l] = g[l]
    PROVE  SumOver(f, S) = SumOver(g, S)
<1>1. [l \in S |-> f[l]] = [l \in S |-> g[l]]
  OBVIOUS
<1> QED
  BY <1>1 DEF SumOver

LEMMA LockSumNone ==
    ASSUME NEW f, NEW S, \A l \in S : f[l] = 0
    PROVE  SumOver(f, S) = 0
<1> DEFINE g == [l \in S |-> f[l]]
           none == [l \in {} |-> 0]
<1>1. /\ DOMAIN none = {} /\ DOMAIN none \subseteq DOMAIN g /\ (\A x \in DOMAIN none : none[x] = g[x])
      /\ \A x \in DOMAIN g \ DOMAIN none : g[x] = 0
  OBVIOUS
<1>2. SumOver(f, S) = Total(g)
  BY DEF SumOver
<1> HIDE DEF g, none
<1>3. Total(g) = Total(none) /\ Total(none) = 0
  BY <1>1, TotalSupport, TotalEmpty
<1> QED
  BY <1>2, <1>3

Standing(bks, lks, deps, d) == IsBookings(bks) /\ IsLocks(lks) /\ Family(lks) /\ IsFleet(deps[d])

\* A day's free seats with the booking, from those without it.
LEMMA DayBeside ==
    ASSUME NEW bks, NEW lks, NEW deps, NEW d, Standing(bks, lks, deps, d), NEW b \in Bookings
    PROVE  LET W == DayOf(bks, lks, deps, d, {b})
               D == DayOf(bks, lks, deps, d, {})
               cost == CostOn(bks[b], deps[d], W.open, d)
           IN  /\ W.locked \in Nat /\ D.locked \in Nat /\ cost \in Nat /\ W.available \in Int /\ D.available \in Int
               /\ W.pooled = Pooled(deps, d)
               /\ Pooled(deps, d) => D.available = W.available - cost + W.locked - D.locked
               /\ ~Pooled(deps, d) => W.available = 0 /\ D.available = 0
               /\ W.locked = Locked(PoolLocks(lks, d), DrawnByLock(bks, {b}))
               /\ D.locked = Locked(PoolLocks(lks, d), DrawnByLock(bks, {}))
<1> DEFINE W == DayOf(bks, lks, deps, d, {b})
           D == DayOf(bks, lks, deps, d, {})
           cost == CostOn(bks[b], deps[d], W.open, d)
           rows == PoolLocks(lks, d)
           net == Net(deps[d], TripsOn(bks, d, {b}))
           all == Net(deps[d], TripsOn(bks, d, {}))
           wl == Locked(rows, DrawnByLock(bks, {b}))
           dl == Locked(rows, DrawnByLock(bks, {}))
<1>1. IsBookings(bks) /\ IsLocks(lks) /\ Family(lks) /\ IsFleet(deps[d])
  BY DEF Standing
<1>2. /\ W.pooled = Pooled(deps, d) /\ W.open = OpenBoats(deps[d], TripsOn(bks, d, {b})) /\ W.locked = wl
      /\ W.available = IF Pooled(deps, d) THEN net - wl ELSE 0
  BY DayIs
<1>3. D.locked = dl /\ D.available = IF Pooled(deps, d) THEN all - dl ELSE 0
  BY DayIs
<1>4. cost \in Nat /\ net \in Int /\ all = net - cost
  BY <1>1, <1>2, NetBeside
<1>5. wl \in Nat /\ dl \in Nat
  <2>1. IsLocks(rows)
    BY <1>1, DayRows DEF IsFamilies
  <2>2. DrawnByLock(bks, {b}) \in [LockIds -> Nat] /\ DrawnByLock(bks, {}) \in [LockIds -> Nat]
    BY <1>1, DrawnIsFunction
  <2> QED
    BY <2>1, <2>2, HeldTables
<1> HIDE DEF W, D, cost, net, all, wl, dl
<1>6. W.available \in Int /\ D.available \in Int
  BY <1>2, <1>3, <1>4, <1>5
<1>7. Pooled(deps, d) => D.available = W.available - cost + W.locked - D.locked
  BY <1>2, <1>3, <1>4, <1>5
<1> QED
  BY <1>2, <1>3, <1>4, <1>5, <1>6, <1>7 DEF W, D, cost, wl, dl, rows

\* The seats a booking's draws take off the day's locks.
LEMMA LocksBeside ==
    ASSUME NEW bks, NEW lks, NEW deps, NEW d, Standing(bks, lks, deps, d), NEW b \in Bookings,
           HoldsSeats(bks[b]) => AtHome(bks[b], lks)
    PROVE  LET rows == PoolLocks(lks, d)
               drop == SumOver(Takes(bks[b]), DOMAIN rows)
               here == HoldsSeats(bks[b]) /\ d \in DOMAIN bks[b].trips
           IN  /\ IsFamilies(rows) /\ drop \in Nat
               /\ Locked(rows, DrawnByLock(bks, {})) <= Locked(rows, DrawnByLock(bks, {b}))
               /\ Locked(rows, DrawnByLock(bks, {b})) <= Locked(rows, DrawnByLock(bks, {})) + drop
               /\ here => bks[b].trips[d] \in SoldTrips /\ drop = SumOver(bks[b].trips[d].draws, DOMAIN rows)
                          /\ drop <= DrawnTotal(bks[b].trips[d])
               /\ ~here => drop = 0
<1> DEFINE rows == PoolLocks(lks, d)
           drop == SumOver(Takes(bks[b]), DOMAIN rows)
           here == HoldsSeats(bks[b]) /\ d \in DOMAIN bks[b].trips
           t == bks[b].trips[d]
<1>1. IsBookings(bks) /\ IsLocks(lks) /\ Family(lks)
  BY DEF Standing
<1>2. IsFamilies(rows) /\ \A l \in DOMAIN rows : lks[l].day = d
  BY <1>1, DayRows
<1>3. DOMAIN rows \in SUBSET LockIds
  BY <1>2 DEF IsFamilies, IsLocks
<1>4. Falls(DrawnByLock(bks, {}), DrawnByLock(bks, {b}), Takes(bks[b]))
  BY <1>1, TakesFacts
<1> HIDE DEF rows
<1>5. /\ drop \in Nat
      /\ Locked(rows, DrawnByLock(bks, {})) <= Locked(rows, DrawnByLock(bks, {b}))
      /\ Locked(rows, DrawnByLock(bks, {b})) <= Locked(rows, DrawnByLock(bks, {})) + drop
  BY <1>2, <1>4, LockedFalls
<1>6. ASSUME here PROVE t \in SoldTrips /\ drop = SumOver(t.draws, DOMAIN rows) /\ drop <= DrawnTotal(t)
  <2>1. bks[b] \in BookingRows /\ bks[b].trips \in TripPlans
    BY <1>1, <1>6, BookingFacts DEF HoldsSeats
  <2>2. t \in SoldTrips
    BY <1>6, <2>1, PlanFacts
  <2>3. \A l \in DOMAIN rows : Takes(bks[b])[l] = t.draws[l]
    BY <1>2, <1>3, <1>6, <2>1, TakesOn
  <2>4. drop = SumOver(t.draws, DOMAIN rows)
    BY <2>3, LockSumSame
  <2>5. t.draws \in [LockIds -> Nat] /\ DrawnTotal(t) = SumOver(t.draws, LockIds)
    BY <2>2, SoldFacts
  <2>6. SumOver(t.draws, DOMAIN rows) <= SumOver(t.draws, LockIds)
    BY <1>3, <2>5, LockSumPart
  <2> QED
    BY <2>2, <2>4, <2>5, <2>6
<1>7. ASSUME ~here PROVE drop = 0
  <2>1. CASE HoldsSeats(bks[b])
    <3>1. bks[b] \in BookingRows
      BY <1>1, <2>1, BookingFacts DEF HoldsSeats
    <3>2. \A l \in DOMAIN rows : Takes(bks[b])[l] = 0
      BY <1>2, <1>3, <1>7, <2>1, <3>1, TakesOn
    <3> QED
      BY <3>2, LockSumNone
  <2>2. CASE ~HoldsSeats(bks[b])
    <3>1. \A l \in DOMAIN rows : Takes(bks[b])[l] = 0
      BY <1>3, <2>2 DEF Takes
    <3> QED
      BY <3>1, LockSumNone
  <2> QED
    BY <2>1, <2>2
<1> HIDE DEF drop, here, t
<1> QED
  BY <1>2, <1>5, <1>6, <1>7 DEF rows, drop, here, t

\* A booking never frees seats of a day, and takes none of a day it has no trip on.
LEMMA DayTaken ==
    ASSUME NEW bks, NEW lks, NEW deps, NEW d, Standing(bks, lks, deps, d), NEW b \in Bookings,
           HoldsSeats(bks[b]) => AtHome(bks[b], lks) /\ \A e \in DOMAIN bks[b].trips : Sized(bks[b].trips[e])
    PROVE  LET W == DayOf(bks, lks, deps, d, {b})
               D == DayOf(bks, lks, deps, d, {})
           IN  /\ D.available <= W.available
               /\ ~(HoldsSeats(bks[b]) /\ d \in DOMAIN bks[b].trips) => D.available = W.available
<1> DEFINE W == DayOf(bks, lks, deps, d, {b})
           D == DayOf(bks, lks, deps, d, {})
           t == bks[b].trips[d]
           here == HoldsSeats(bks[b]) /\ d \in DOMAIN bks[b].trips
           cost == CostOn(bks[b], deps[d], W.open, d)
           drop == SumOver(Takes(bks[b]), DOMAIN PoolLocks(lks, d))
<1>1. /\ W.locked \in Nat /\ D.locked \in Nat /\ cost \in Nat /\ W.available \in Int /\ D.available \in Int
      /\ Pooled(deps, d) => D.available = W.available - cost + W.locked - D.locked
      /\ ~Pooled(deps, d) => W.available = 0 /\ D.available = 0
      /\ W.locked = Locked(PoolLocks(lks, d), DrawnByLock(bks, {b}))
      /\ D.locked = Locked(PoolLocks(lks, d), DrawnByLock(bks, {}))
  BY DayBeside
<1>2. /\ drop \in Nat
      /\ Locked(PoolLocks(lks, d), DrawnByLock(bks, {})) <= Locked(PoolLocks(lks, d), DrawnByLock(bks, {b}))
      /\ Locked(PoolLocks(lks, d), DrawnByLock(bks, {b})) <= Locked(PoolLocks(lks, d), DrawnByLock(bks, {})) + drop
      /\ here => t \in SoldTrips /\ drop <= DrawnTotal(t)
      /\ ~here => drop = 0
  BY LocksBeside
<1>3. ~here => cost = 0
  BY DEF CostOn
<1>4. here => drop <= cost
  <2> SUFFICES ASSUME here PROVE drop <= cost
    OBVIOUS
  <2>1. t \in SoldTrips /\ drop <= DrawnTotal(t) /\ cost = Cost(deps[d], W.open, t) /\ Sized(t)
    BY <1>2 DEF CostOn
  <2>2. t.pax \in Nat /\ DrawnTotal(t) \in Nat /\ (t.mode = "charter" => DrawnTotal(t) = 0)
    BY <2>1, SoldFacts
  <2>3. t.mode # "charter" => cost = t.pax /\ DrawnTotal(t) <= t.pax
    BY <2>1 DEF Cost, Sized
  <2> HIDE DEF t, cost, drop
  <2> QED
    BY <1>1, <1>2, <2>1, <2>2, <2>3
<1> DEFINE av == D.available
           aw == W.available
           ld == D.locked
           lw == W.locked
<1>7. /\ lw \in Nat /\ ld \in Nat /\ cost \in Nat /\ aw \in Int /\ av \in Int /\ drop \in Nat
      /\ Pooled(deps, d) => av = aw - cost + lw - ld
      /\ ~Pooled(deps, d) => aw = 0 /\ av = 0
      /\ ld <= lw /\ lw <= ld + drop
      /\ (here => drop <= cost) /\ (~here => cost = 0 /\ drop = 0)
  BY <1>1, <1>2, <1>3, <1>4
<1> HIDE DEF here, cost, drop, av, aw, ld, lw
<1>5. av <= aw
  BY <1>7
<1>6. ~here => av = aw
  BY <1>7
<1> QED
  BY <1>5, <1>6 DEF av, aw, here

\* An itinerary that asks no day and no lock for more.
Lessens(old, new) ==
    \A d \in DOMAIN new :
        /\ d \in DOMAIN old /\ old[d].mode = new[d].mode /\ old[d].boat = new[d].boat
        /\ new[d].pax <= old[d].pax /\ General(new[d]) <= General(old[d])
        /\ \A l \in LockIds : new[d].draws[l] <= old[d].draws[l]

\* A booking that goes on holding seats only for less, or gives them all up.
Yields(old, new) == HoldsSeats(new) => HoldsSeats(old) /\ Lessens(old.trips, new.trips)

LEMMA TakesLess ==
    ASSUME NEW old \in BookingRows, NEW new \in BookingRows, Yields(old, new), NEW l \in LockIds
    PROVE  Takes(new)[l] \in Nat /\ Takes(old)[l] \in Nat /\ Takes(new)[l] <= Takes(old)[l]
<1>1. Takes(new)[l] \in Nat /\ Takes(old)[l] \in Nat
  BY DrawnByFacts DEF Takes
<1>2. CASE HoldsSeats(new)
  <2> DEFINE S == DOMAIN new.trips
             f == [d \in DOMAIN old.trips |-> old.trips[d].draws[l]]
             a == [d \in S |-> new.trips[d].draws[l]]
             c == [d \in S |-> f[d]]
  <2>1. HoldsSeats(old) /\ Lessens(old.trips, new.trips)
    BY <1>2 DEF Yields
  <2>2. Takes(new)[l] = Total(a) /\ Takes(old)[l] = Total(f)
    BY <1>2, <2>1 DEF Takes, DrawnBy
  <2>3. S \in SUBSET DOMAIN old.trips
    BY <2>1 DEF Lessens
  <2>4. old.trips \in TripPlans /\ new.trips \in TripPlans
    BY DEF BookingRows
  <2>5. IsFiniteSet(DOMAIN old.trips) /\ IsFiniteSet(S)
        /\ (\A d \in DOMAIN old.trips : old.trips[d] \in Trips) /\ \A d \in S : new.trips[d] \in Trips
    BY <2>4, PlanFacts
  <2>6. (\A d \in DOMAIN old.trips : old.trips[d].draws[l] \in Nat) /\ \A d \in S : new.trips[d].draws[l] \in Nat
    BY <2>5, TripFacts
  <2>7. IsTable(f) /\ S \in SUBSET DOMAIN f
    BY <2>3, <2>5, <2>6 DEF IsTable
  <2>8. a \in [S -> Nat] /\ c \in [S -> Nat] /\ \A d \in S : a[d] <= c[d]
    BY <2>1, <2>3, <2>6 DEF Lessens
  <2>9. Total([d \in S |-> f[d]]) <= Total(f) /\ Total([d \in S |-> f[d]]) \in Nat
    BY <2>7, TotalPart
  <2>10. Total(c) = Total([d \in S |-> f[d]])
    OBVIOUS
  <2> HIDE DEF a, c, f, S
  <2>11. Total(a) <= Total(c)
    BY <2>5, <2>8, TotalMono
  <2> QED
    BY <1>1, <2>2, <2>9, <2>10, <2>11
<1>3. CASE ~HoldsSeats(new)
  BY <1>1, <1>3 DEF Takes
<1> QED
  BY <1>2, <1>3

\* What falls on the locks when a booking yields.
FallOf(old, new) == [l \in LockIds |-> Takes(old)[l] - Takes(new)[l]]

LEMMA YieldFalls ==
    ASSUME NEW bks, IsBookings(bks), NEW new, IsBookings(new), NEW b \in Bookings,
           \A c \in Bookings \ {b} : new[c] = bks[c],
           bks[b] \in BookingRows, new[b] \in BookingRows, Yields(bks[b], new[b])
    PROVE  Falls(DrawnByLock(bks, {}), DrawnByLock(new, {}), FallOf(bks[b], new[b]))
<1> DEFINE fall == FallOf(bks[b], new[b])
<1>1. \A l \in LockIds : Takes(new[b])[l] \in Nat /\ Takes(bks[b])[l] \in Nat /\ Takes(new[b])[l] <= Takes(bks[b])[l]
  BY TakesLess
<1>2. \A l \in LockIds : fall[l] = Takes(bks[b])[l] - Takes(new[b])[l] /\ fall[l] \in Nat
  BY <1>1 DEF FallOf
<1>3. fall \in [LockIds -> Nat]
  <2>1. fall = [l \in LockIds |-> fall[l]]
    BY DEF FallOf
  <2> QED
    BY <1>2, <2>1
<1>4. Falls(DrawnByLock(bks, {}), DrawnByLock(bks, {b}), Takes(bks[b]))
  BY TakesFacts
<1>8. Falls(DrawnByLock(new, {}), DrawnByLock(new, {b}), Takes(new[b]))
  BY TakesFacts
<1>5. DrawnByLock(new, {b}) = DrawnByLock(bks, {b})
  <2>1. TripsOn(new, 0, {b}) = TripsOn(bks, 0, {b}) /\ DrawnByLock(new, {b}) = DrawnByLock(bks, {b})
    BY OthersStand
  <2> QED
    BY <2>1
<1> DEFINE more == DrawnByLock(bks, {})
           less == DrawnByLock(new, {})
           rest == DrawnByLock(bks, {b})
<1>6. more \in [LockIds -> Nat] /\ less \in [LockIds -> Nat] /\ rest \in [LockIds -> Nat]
      /\ \A l \in LockIds : more[l] = rest[l] + Takes(bks[b])[l] /\ less[l] = rest[l] + Takes(new[b])[l]
  BY <1>4, <1>5, <1>8 DEF Falls
<1> HIDE DEF more, less, rest, fall
<1>7. ASSUME NEW l \in LockIds PROVE more[l] = less[l] + fall[l]
  BY <1>1, <1>2, <1>6
<1> QED
  BY <1>3, <1>6, <1>7 DEF Falls, more, less, fall

-----------------------------------------------------------------------------
(* The day when one booking's row is written                               *)

\* Draws of the booking's own days, and trips that ask for seats as clients do.
Seemly(bk, lks) == HoldsSeats(bk) => AtHome(bk, lks) /\ \A e \in DOMAIN bk.trips : Sized(bk.trips[e])

\* Two tables of bookings alike but for one.
Beside(bks, new, b) == \A c \in Bookings \ {b} : new[c] = bks[c]

LEMMA SeenAlike ==
    ASSUME NEW bks, NEW new, NEW lks, NEW deps, NEW d, NEW b, Beside(bks, new, b)
    PROVE  LET W == DayOf(bks, lks, deps, d, {b})
               V == DayOf(new, lks, deps, d, {b})
           IN  V.open = W.open /\ V.locked = W.locked /\ V.available = W.available
<1>0. \A c \in Bookings \ {b} : new[c] = bks[c]
  BY DEF Beside
<1>1. TripsOn(new, d, {b}) = TripsOn(bks, d, {b}) /\ DrawnByLock(new, {b}) = DrawnByLock(bks, {b})
  <2>1. TripsOn(new, d, {b}) = TripsOn(bks, d, {b})
    BY <1>0, OthersStand
  <2>2. TripsOn(new, d, {b}) = TripsOn(bks, d, {b}) /\ DrawnByLock(new, {b}) = DrawnByLock(bks, {b})
    BY <1>0, <2>1, OthersStand
  <2> QED
    BY <2>1, <2>2
<1> DEFINE W == DayOf(bks, lks, deps, d, {b})
           V == DayOf(new, lks, deps, d, {b})
           trips == TripsOn(bks, d, {b})
           drawn == DrawnByLock(bks, {b})
           rows == PoolLocks(lks, d)
<1>2. /\ W.open = OpenBoats(deps[d], trips) /\ W.locked = Locked(rows, drawn)
      /\ W.available = IF Pooled(deps, d) THEN Net(deps[d], trips) - Locked(rows, drawn) ELSE 0
  BY DayIs
<1>3. /\ V.open = OpenBoats(deps[d], TripsOn(new, d, {b})) /\ V.locked = Locked(rows, DrawnByLock(new, {b}))
      /\ V.available = IF Pooled(deps, d) THEN Net(deps[d], TripsOn(new, d, {b})) - Locked(rows, DrawnByLock(new, {b})) ELSE 0
  BY DayIs
<1> HIDE DEF W, V, rows
<1>4. V.open = W.open /\ V.locked = W.locked /\ V.available = W.available
  BY <1>1, <1>2, <1>3
<1> QED
  BY <1>4 DEF V, W

\* The seats that fall on the day's locks when a booking goes on with less.
LEMMA LessFalls ==
    ASSUME NEW bks, NEW new, NEW lks, NEW deps, NEW d, NEW b \in Bookings, Beside(bks, new, b),
           Standing(bks, lks, deps, d), Standing(new, lks, deps, d),
           HoldsSeats(bks[b]), HoldsSeats(new[b]), Lessens(bks[b].trips, new[b].trips),
           AtHome(bks[b], lks), AtHome(new[b], lks), d \in DOMAIN new[b].trips
    PROVE  LET t == bks[b].trips[d]
               u == new[b].trips[d]
               drop == SumOver(FallOf(bks[b], new[b]), DOMAIN PoolLocks(lks, d))
           IN  /\ d \in DOMAIN bks[b].trips /\ t \in SoldTrips /\ u \in SoldTrips
               /\ DrawnTotal(t) \in Nat /\ DrawnTotal(u) \in Nat
               /\ drop \in Nat /\ drop <= DrawnTotal(t) - DrawnTotal(u)
               /\ Locked(PoolLocks(lks, d), DrawnByLock(new, {})) <= Locked(PoolLocks(lks, d), DrawnByLock(bks, {})) + drop
<1> DEFINE t == bks[b].trips[d]
           u == new[b].trips[d]
           fall == FallOf(bks[b], new[b])
           rows == PoolLocks(lks, d)
           R == DOMAIN rows
           g == [l \in LockIds |-> t.draws[l] - u.draws[l]]
<1>1. bks[b] \in BookingRows /\ new[b] \in BookingRows
  <2>1. bks[b].status # "absent" /\ new[b].status # "absent"
    BY DEF HoldsSeats
  <2> QED
    BY <2>1, BookingFacts DEF Standing
<1>2. d \in DOMAIN bks[b].trips /\ t \in SoldTrips /\ u \in SoldTrips /\ \A l \in LockIds : u.draws[l] <= t.draws[l]
  BY <1>1, PlanFacts DEF BookingRows, Lessens
<1>3. /\ t.draws \in [LockIds -> Nat] /\ u.draws \in [LockIds -> Nat] /\ DrawnTotal(t) \in Nat /\ DrawnTotal(u) \in Nat
      /\ DrawnTotal(t) = SumOver(t.draws, LockIds) /\ DrawnTotal(u) = SumOver(u.draws, LockIds)
  BY <1>2, SoldFacts
<1>4. Falls(DrawnByLock(bks, {}), DrawnByLock(new, {}), fall)
  BY <1>1, YieldFalls DEF Yields, Standing, Beside
<1>5. IsFamilies(rows) /\ R \in SUBSET LockIds /\ \A l \in R : lks[l].day = d
  BY DayRows DEF Standing, IsFamilies, IsLocks
<1>6. SumOver(fall, R) \in Nat /\ Locked(rows, DrawnByLock(new, {})) <= Locked(rows, DrawnByLock(bks, {})) + SumOver(fall, R)
  BY <1>4, <1>5, LockedFalls
<1> HIDE DEF rows, R
<1>7. \A l \in R : fall[l] = g[l]
  <2>1. \A l \in R : Takes(bks[b])[l] = t.draws[l] /\ Takes(new[b])[l] = u.draws[l]
    BY <1>1, <1>2, <1>5, TakesOn
  <2> QED
    BY <1>5, <2>1 DEF FallOf
<1> HIDE DEF fall
<1>8. SumOver(fall, R) = SumOver(g, R)
  BY <1>7, LockSumSame
<1>9. g \in [LockIds -> Nat] /\ \A l \in LockIds : t.draws[l] = u.draws[l] + g[l]
  BY <1>2, <1>3
<1> HIDE DEF g
<1>10. SumOver(g, R) <= SumOver(g, LockIds) /\ SumOver(g, LockIds) \in Nat
  BY <1>5, <1>9, LockSumPart, LockSum
<1>11. SumOver(t.draws, LockIds) = SumOver(u.draws, LockIds) + SumOver(g, LockIds)
  BY <1>3, <1>9, LockSumAdd
<1>12. SumOver(fall, R) <= DrawnTotal(t) - DrawnTotal(u)
  <2> DEFINE a == SumOver(fall, R)
             c == SumOver(g, LockIds)
             x == DrawnTotal(t)
             y == DrawnTotal(u)
  <2>1. a \in Nat /\ c \in Nat /\ x \in Nat /\ y \in Nat /\ a <= c /\ x = y + c
    BY <1>3, <1>6, <1>8, <1>10, <1>11
  <2> HIDE DEF a, c, x, y
  <2>2. a <= x - y
    BY <2>1
  <2> QED
    BY <2>2 DEF a, x, y
<1> QED
  BY <1>2, <1>3, <1>6, <1>12 DEF R, rows, fall

\* A day where a booking goes on with less, or gives it all up, loses no seat.
LEMMA DayLessened ==
    ASSUME NEW bks, NEW new, NEW lks, NEW deps, NEW d, NEW b \in Bookings, Beside(bks, new, b),
           Standing(bks, lks, deps, d), Standing(new, lks, deps, d),
           Seemly(bks[b], lks), Seemly(new[b], lks), Yields(bks[b], new[b])
    PROVE  LET before == DayOf(bks, lks, deps, d, {}).available
               after == DayOf(new, lks, deps, d, {}).available
           IN  before \in Int /\ after \in Int /\ before <= after
<1> DEFINE W == DayOf(bks, lks, deps, d, {b})
           V == DayOf(new, lks, deps, d, {b})
           D == DayOf(bks, lks, deps, d, {})
           E == DayOf(new, lks, deps, d, {})
           ct == CostOn(bks[b], deps[d], W.open, d)
           cu == CostOn(new[b], deps[d], V.open, d)
<1>8. /\ W.locked \in Nat /\ D.locked \in Nat /\ ct \in Nat /\ W.available \in Int /\ D.available \in Int
      /\ Pooled(deps, d) => D.available = W.available - ct + W.locked - D.locked
      /\ ~Pooled(deps, d) => W.available = 0 /\ D.available = 0
      /\ D.locked = Locked(PoolLocks(lks, d), DrawnByLock(bks, {}))
  <2>1. W.locked \in Nat /\ D.locked \in Nat /\ ct \in Nat /\ W.available \in Int /\ D.available \in Int
    BY DayBeside
  <2>2. Pooled(deps, d) => D.available = W.available - ct + W.locked - D.locked
    BY DayBeside
  <2>3. ~Pooled(deps, d) => W.available = 0 /\ D.available = 0
    BY DayBeside
  <2>4. D.locked = Locked(PoolLocks(lks, d), DrawnByLock(bks, {}))
    BY DayIs
  <2> HIDE DEF W, D, ct
  <2> QED
    BY <2>1, <2>2, <2>3, <2>4

<1>9. /\ V.locked \in Nat /\ E.locked \in Nat /\ cu \in Nat /\ V.available \in Int /\ E.available \in Int
      /\ Pooled(deps, d) => E.available = V.available - cu + V.locked - E.locked
      /\ ~Pooled(deps, d) => V.available = 0 /\ E.available = 0
      /\ E.locked = Locked(PoolLocks(lks, d), DrawnByLock(new, {}))
  BY DayBeside
<1>1. V.open = W.open /\ V.locked = W.locked /\ V.available = W.available
  BY SeenAlike
<1>2. /\ D.available \in Int /\ W.available \in Int /\ D.available <= W.available
  BY <1>8, DayTaken DEF Seemly
<1>3. /\ E.available \in Int
      /\ ~(HoldsSeats(new[b]) /\ d \in DOMAIN new[b].trips) => E.available = V.available
  BY <1>9, DayTaken DEF Seemly
<1>4. CASE ~(HoldsSeats(new[b]) /\ d \in DOMAIN new[b].trips)
  <2> HIDE DEF W, V, D, E
  <2>1. D.available <= E.available
    BY <1>1, <1>2, <1>3, <1>4
  <2> QED
    BY <1>2, <1>3, <2>1 DEF D, E
<1>5. CASE HoldsSeats(new[b]) /\ d \in DOMAIN new[b].trips
  <2> DEFINE t == bks[b].trips[d]
             u == new[b].trips[d]
             drop == SumOver(FallOf(bks[b], new[b]), DOMAIN PoolLocks(lks, d))
  <2>1. HoldsSeats(bks[b]) /\ Lessens(bks[b].trips, new[b].trips)
    BY <1>5 DEF Yields
  <2>2. /\ d \in DOMAIN bks[b].trips /\ t \in SoldTrips /\ u \in SoldTrips
        /\ DrawnTotal(t) \in Nat /\ DrawnTotal(u) \in Nat
        /\ drop \in Nat /\ drop <= DrawnTotal(t) - DrawnTotal(u)
        /\ Locked(PoolLocks(lks, d), DrawnByLock(new, {})) <= Locked(PoolLocks(lks, d), DrawnByLock(bks, {})) + drop
    BY <1>5, <2>1, LessFalls DEF Seemly
  <2>5. ct = Cost(deps[d], W.open, t) /\ cu = Cost(deps[d], V.open, u)
    BY <1>5, <2>1, <2>2 DEF CostOn
  <2>6. t.mode = u.mode /\ t.boat = u.boat /\ u.pax <= t.pax /\ u.pax - DrawnTotal(u) <= t.pax - DrawnTotal(t)
    BY <1>5, <2>1 DEF Lessens, General
  <2>7. t.pax \in Nat /\ u.pax \in Nat /\ (t.mode = "charter" => DrawnTotal(t) = 0) /\ (u.mode = "charter" => DrawnTotal(u) = 0)
    BY <2>2, SoldFacts
  <2> HIDE DEF W, V, D, E, drop, ct, cu, t, u
  <2>8. cu + drop <= ct
    <3>1. CASE t.mode # "charter"
      <4>1. ct = t.pax /\ cu = u.pax
        BY <2>5, <2>6, <3>1 DEF Cost
      <4> DEFINE x == DrawnTotal(t)
                 y == DrawnTotal(u)
                 m == t.pax
                 n == u.pax
      <4>2. x \in Nat /\ y \in Nat /\ m \in Nat /\ n \in Nat /\ drop \in Nat /\ drop <= x - y /\ n - y <= m - x
        BY <2>2, <2>6, <2>7
      <4> HIDE DEF x, y, m, n
      <4>3. n + drop <= m
        BY <4>2
      <4> QED
        BY <4>1, <4>3 DEF m, n
    <3>2. CASE t.mode = "charter"
      <4>1. DrawnTotal(t) = 0 /\ DrawnTotal(u) = 0
        BY <2>6, <2>7, <3>2
      <4>2. drop = 0
        BY <2>2, <4>1
      <4>3. cu <= ct
        <5>1. CASE t.boat \in W.open \/ t.boat \in DOMAIN deps[d]
          <6>1. cu = ct
            BY <1>1, <2>5, <2>6, <3>2, <5>1 DEF Cost
          <6> QED
            BY <1>8, <6>1
        <5>2. CASE ~(t.boat \in W.open \/ t.boat \in DOMAIN deps[d])
          <6>1. cu = u.pax /\ ct = t.pax
            BY <1>1, <2>5, <2>6, <3>2, <5>2 DEF Cost
          <6> QED
            BY <2>6, <6>1
        <5> QED
          BY <5>1, <5>2
      <4> QED
        BY <1>8, <1>9, <4>2, <4>3
    <3> QED
      BY <3>1, <3>2
  <2> DEFINE av == D.available
             aw == W.available
             ae == E.available
             lw == W.locked
             ld == D.locked
             le == E.locked
  <2>9. /\ lw \in Nat /\ ld \in Nat /\ le \in Nat /\ ct \in Nat /\ cu \in Nat /\ drop \in Nat
        /\ av \in Int /\ aw \in Int /\ ae \in Int
        /\ Pooled(deps, d) => av = aw - ct + lw - ld /\ ae = aw - cu + lw - le
        /\ ~Pooled(deps, d) => av = 0 /\ ae = 0
        /\ le <= ld + drop /\ cu + drop <= ct
    BY <1>1, <1>2, <1>3, <1>8, <1>9, <2>2, <2>8
  <2> HIDE DEF av, aw, ae, lw, ld, le
  <2>10. av <= ae
    BY <2>9
  <2> QED
    BY <1>2, <1>3, <2>10 DEF av, ae, D, E
<1> QED
  BY <1>4, <1>5

LEMMA LockSumOne ==
    ASSUME NEW f \in [LockIds -> Nat], NEW S \in SUBSET LockIds, NEW x \in S, \A l \in S \ {x} : f[l] = 0
    PROVE  SumOver(f, S) = f[x]
<1> DEFINE g == [l \in S |-> f[l]]
           one == [l \in {x} |-> f[l]]
<1>1. /\ DOMAIN one = {x} /\ one[x] = f[x] /\ f[x] \in Nat
      /\ DOMAIN one \subseteq DOMAIN g /\ (\A y \in DOMAIN one : one[y] = g[y]) /\ \A y \in DOMAIN g \ DOMAIN one : g[y] = 0
  OBVIOUS
<1>2. SumOver(f, S) = Total(g)
  BY DEF SumOver
<1> HIDE DEF g, one
<1>3. Total(g) = Total(one) /\ Total(one) = one[x]
  BY <1>1, TotalSupport, TotalOne
<1> QED
  BY <1>1, <1>2, <1>3

(* A trip draws on at most one lock of a tree, or leaves the tree's waiting *)
(* seats alone.                                                            *)
ApartOn(new, lks, t, d) ==
    \A top \in DOMAIN lks : lks[top].parent = NoLock /\ lks[top].day = d =>
        \/ \A l, k \in FamilyOf(lks, top) : l # k => ~(t.draws[l] > 0 /\ t.draws[k] > 0)
        \/ ~(Overcommitted(new, lks, top) > 0)

\* What a trip draws on a tree, each lock weighed, the tree held.
LEMMA TreeHeldIt ==
    ASSUME NEW new, NEW lks, NEW deps, NEW d, Standing(new, lks, deps, d), NEW b \in Bookings,
           HoldsSeats(new[b]), AtHome(new[b], lks), d \in DOMAIN new[b].trips,
           \A l \in LockIds : new[b].trips[d].draws[l] > 0 =>
              /\ l \in DOMAIN PoolLocks(lks, d)
              /\ new[b].trips[d].draws[l]
                    <= TreeOf(PoolLocks(lks, d), DrawnByLock(new, {b}), TopOf(PoolLocks(lks, d), l)).remaining[l],
           ApartOn(new, lks, new[b].trips[d], d), NEW top \in Tops(PoolLocks(lks, d))
    PROVE  LET rows == PoolLocks(lks, d)
           IN  \/ SumOver(Takes(new[b]), FamilyOf(rows, top)) <= TreeOf(rows, DrawnByLock(new, {b}), top).held
               \/ TreeOf(rows, DrawnByLock(new, {}), top).used + rows[top].pending <= Asked(rows, top)
<1> DEFINE rows == PoolLocks(lks, d)
           t == new[b].trips[d]
           fall == Takes(new[b])
           fam == FamilyOf(rows, top)
           less == DrawnByLock(new, {b})
           more == DrawnByLock(new, {})
<1>1. IsBookings(new) /\ IsLocks(lks) /\ Family(lks) /\ IsLocks(rows)
      /\ \A l \in DOMAIN rows : l \in DOMAIN lks /\ rows[l] = lks[l] /\ lks[l].day = d
  BY DayRows DEF Standing, IsFamilies
<1>2. KidsIn(rows, top) = KidsIn(lks, top)
  BY <1>1, DayRows
<1>3. top \in DOMAIN rows /\ rows[top].parent = NoLock /\ top \in DOMAIN lks /\ lks[top].parent = NoLock /\ lks[top].day = d
  BY <1>1 DEF Tops
<1>4. less \in [LockIds -> Nat] /\ more \in [LockIds -> Nat] /\ fall \in [LockIds -> Nat]
  BY <1>1, DrawnIsFunction, TakesFacts DEF Falls
<1>5. new[b] \in BookingRows
  BY <1>1, BookingFacts DEF HoldsSeats
<1>6. fam = FamilyOf(lks, top)
  BY <1>2 DEF FamilyOf
<1> HIDE DEF rows
<1>7. fam \in SUBSET LockIds /\ fam \subseteq DOMAIN rows
  BY <1>1, <1>3, FamilyFacts
<1>8. \A l \in fam : fall[l] = t.draws[l] /\ fall[l] \in Nat
  BY <1>1, <1>4, <1>5, <1>7, TakesOn
<1>9. \A l \in fam : TopOf(rows, l) = top
  <2>1. top # NoLock
    BY <1>1, <1>3, LockAssumption DEF IsLocks
  <2> QED
    BY <1>3, <2>1 DEF FamilyOf, KidsIn, TopOf
<1>10. TreeOf(rows, less, top).held \in Nat
  <2>1. IsLocks(rows) /\ top \in DOMAIN rows /\ less \in [LockIds -> Nat]
    BY <1>1, <1>3, <1>4
  <2> HIDE DEF less
  <2> QED
    BY <2>1, TreeNumbers
<1>11. CASE \A l, k \in fam : l # k => ~(t.draws[l] > 0 /\ t.draws[k] > 0)
  <2>1. CASE \E k \in fam : fall[k] > 0
    <3>1. PICK k \in fam : fall[k] > 0
      BY <2>1
    <3>2. \A l \in fam \ {k} : fall[l] = 0
      BY <1>8, <1>11, <3>1
    <3>3. SumOver(fall, fam) = fall[k]
      BY <1>4, <1>7, <3>2, LockSumOne
    <3>4. fall[k] = t.draws[k] /\ k \in LockIds
      BY <1>7, <1>8
    <3>5. t.draws[k] <= TreeOf(rows, less, top).remaining[k]
      BY <1>9, <3>1, <3>4 DEF rows
    <3>6. TreeOf(rows, less, top).remaining[k] <= TreeOf(rows, less, top).held
      BY <1>1, <1>3, <1>4, LeftOfHeld
    <3>7. TreeOf(rows, less, top).remaining[k] \in Nat
      BY <1>1, <1>3, <1>4, TreeNumbers DEF FamilyOf
    <3>8. SumOver(fall, fam) <= TreeOf(rows, less, top).held
      BY <1>8, <1>10, <3>3, <3>4, <3>5, <3>6, <3>7
    <3> QED
      BY <3>8 DEF rows
  <2>2. CASE ~\E k \in fam : fall[k] > 0
    <3>1. \A k \in fam : fall[k] = 0
      BY <1>8, <2>2
    <3>2. SumOver(fall, fam) = 0
      BY <3>1, LockSumNone
    <3>3. SumOver(fall, fam) <= TreeOf(rows, less, top).held
      BY <1>10, <3>2
    <3> QED
      BY <3>3 DEF rows
  <2> QED
    BY <2>1, <2>2
<1>12. CASE ~(Overcommitted(new, lks, top) > 0)
  <2> DEFINE ul == TreeOf(lks, more, top).used
             ur == TreeOf(rows, more, top).used
             q == lks[top].pending
             p == lks[top].pax - lks[top].released
  <2>1. ul = more[top] + SumOver(more, KidsIn(lks, top)) /\ ur = more[top] + SumOver(more, KidsIn(rows, top))
    BY <1>1, <1>3, <1>4, TreeIs
  <2>2. more[top] \in Nat /\ SumOver(more, KidsIn(rows, top)) \in Nat
    BY <1>1, <1>3, <1>4, <1>7, FamilyFacts DEF IsLocks
  <2>3. ul = ur /\ ur \in Nat
    BY <1>2, <2>1, <2>2 DEF rows
  <2>4. lks[top] \in LockRows /\ rows[top] = lks[top]
    BY <1>1, <1>3 DEF IsLocks
  <2>5. q \in Nat /\ p \in Int
    BY <2>4 DEF LockRows
  <2>6. Overcommitted(new, lks, top) = Clip(ul + q - p)
    BY DEF Overcommitted
  <2>7. Asked(rows, top) = p /\ rows[top].pending = q
    BY <2>4 DEF Asked
  <2> HIDE DEF ul, ur, q, p
  <2>8. ur + q <= p
    BY <1>12, <2>3, <2>5, <2>6 DEF Clip
  <2>9. TreeOf(rows, more, top).used + rows[top].pending <= Asked(rows, top)
    BY <2>7, <2>8 DEF ur
  <2> QED
    BY <2>9 DEF rows
<1>13. (\A l, k \in fam : l # k => ~(t.draws[l] > 0 /\ t.draws[k] > 0)) \/ ~(Overcommitted(new, lks, top) > 0)
  <2>1. (\A l, k \in FamilyOf(lks, top) : l # k => ~(t.draws[l] > 0 /\ t.draws[k] > 0)) \/ ~(Overcommitted(new, lks, top) > 0)
    BY <1>3, Zenon DEF ApartOn
  <2> HIDE DEF fam, t
  <2> QED
    BY <1>6, <2>1 DEF t
<1> QED
  BY <1>11, <1>12, <1>13

\* The draws a weighing lets through are of the day's locks, each within what is left of it.
LEMMA DrawsWeighed ==
    ASSUME NEW bks, NEW lks, NEW deps, NEW d, Standing(bks, lks, deps, d), NEW b,
           NEW t, NEW agent, Drawable(DayOf(bks, lks, deps, d, {b}), t, agent),
           NEW l \in LockIds, t.draws[l] > 0
    PROVE  LET rows == PoolLocks(lks, d)
           IN  l \in DOMAIN rows /\ t.draws[l] <= TreeOf(rows, DrawnByLock(bks, {b}), TopOf(rows, l)).remaining[l]
<1> DEFINE W == DayOf(bks, lks, deps, d, {b})
           rows == PoolLocks(lks, d)
           drawn == DrawnByLock(bks, {b})
<1>1. IsFamilies(rows)
  BY DayRows DEF Standing
<1>2. \A k \in DOMAIN rows : TopOf(rows, k) \in Tops(rows)
  BY <1>1 DEF IsFamilies
<1>3. /\ W.rows = rows
      /\ (\A k \in DOMAIN rows : TopOf(rows, k) \in Tops(rows)) =>
            \A k \in DOMAIN rows : W.remaining[k] = TreeOf(rows, drawn, TopOf(rows, k)).remaining[k]
  BY DayIs
<1>4. l \in DOMAIN W.rows /\ t.draws[l] <= W.remaining[l]
  BY DEF Drawable
<1> HIDE DEF W, rows, drawn
<1>5. l \in DOMAIN rows /\ t.draws[l] <= TreeOf(rows, drawn, TopOf(rows, l)).remaining[l]
  BY <1>2, <1>3, <1>4
<1> QED
  BY <1>5 DEF rows, drawn

\* Seats drawn from locks that held them leave the locks exactly as many fewer.
LEMMA LocksHeldIt ==
    ASSUME NEW bks, NEW new, NEW lks, NEW deps, NEW d, NEW b \in Bookings, Beside(bks, new, b),
           Standing(bks, lks, deps, d), Standing(new, lks, deps, d),
           HoldsSeats(new[b]), AtHome(new[b], lks), d \in DOMAIN new[b].trips,
           ApartOn(new, lks, new[b].trips[d], d),
           NEW agent, Drawable(DayOf(bks, lks, deps, d, {b}), new[b].trips[d], agent)
    PROVE  Locked(PoolLocks(lks, d), DrawnByLock(new, {b}))
              = Locked(PoolLocks(lks, d), DrawnByLock(new, {})) + DrawnTotal(new[b].trips[d])
<1> DEFINE rows == PoolLocks(lks, d)
           t == new[b].trips[d]
           fall == Takes(new[b])
           less == DrawnByLock(new, {b})
           more == DrawnByLock(new, {})
<1>1. DrawnByLock(new, {b}) = DrawnByLock(bks, {b})
  <2>0. \A c \in Bookings \ {b} : new[c] = bks[c]
    BY DEF Beside
  <2>1. TripsOn(new, d, {b}) = TripsOn(bks, d, {b})
    BY <2>0, OthersStand
  <2> QED
    BY <2>0, <2>1, OthersStand
<1>2. \A l \in LockIds : t.draws[l] > 0 =>
         l \in DOMAIN rows /\ t.draws[l] <= TreeOf(rows, less, TopOf(rows, l)).remaining[l]
  BY <1>1, DrawsWeighed
<1>3. \A top \in Tops(rows) :
         \/ SumOver(fall, FamilyOf(rows, top)) <= TreeOf(rows, less, top).held
         \/ TreeOf(rows, more, top).used + rows[top].pending <= Asked(rows, top)
  BY <1>2, TreeHeldIt
<1>4. IsBookings(new) /\ IsFamilies(rows) /\ DOMAIN rows \in SUBSET LockIds
  BY DayRows DEF Standing, IsFamilies, IsLocks
<1>5. Falls(more, less, fall)
  BY <1>4, TakesFacts
<1>6. t \in SoldTrips /\ SumOver(fall, DOMAIN rows) = SumOver(t.draws, DOMAIN rows)
  BY LocksBeside
<1>7. t.draws \in [LockIds -> Nat] /\ DrawnTotal(t) = SumOver(t.draws, LockIds)
  BY <1>6, SoldFacts
<1>8. SumOver(t.draws, DOMAIN rows) = SumOver(t.draws, LockIds)
  <2> DEFINE R == DOMAIN rows
             f == [l \in LockIds |-> t.draws[l]]
             g == [l \in R |-> t.draws[l]]
  <2>1. \A l \in LockIds \ R : t.draws[l] = 0
    BY <1>2, <1>7
  <2>2. DOMAIN g \subseteq DOMAIN f /\ (\A x \in DOMAIN g : g[x] = f[x]) /\ \A x \in DOMAIN f \ DOMAIN g : f[x] = 0
    BY <1>4, <2>1
  <2>3. SumOver(t.draws, R) = Total(g) /\ SumOver(t.draws, LockIds) = Total(f)
    BY DEF SumOver
  <2> HIDE DEF f, g
  <2>4. Total(f) = Total(g)
    BY <2>2, TotalSupport
  <2> QED
    BY <2>3, <2>4
<1> HIDE DEF rows, less, more, fall
<1>9. Locked(rows, less) = Locked(rows, more) + SumOver(fall, DOMAIN rows)
  BY <1>3, <1>4, <1>5, LockedFalls
<1>10. Locked(rows, less) = Locked(rows, more) + DrawnTotal(t)
  BY <1>6, <1>7, <1>8, <1>9
<1> QED
  BY <1>10 DEF rows, less, more

(* A trip that fits leaves the day no emptier than it was, and never short  *)
(* of seats if it was not short before.                                    *)
LEMMA DayWeighed ==
    ASSUME NEW bks, NEW new, NEW lks, NEW deps, NEW d, NEW b \in Bookings, Beside(bks, new, b),
           Standing(bks, lks, deps, d), Standing(new, lks, deps, d),
           HoldsSeats(new[b]), AtHome(new[b], lks), d \in DOMAIN new[b].trips,
           ApartOn(new, lks, new[b].trips[d], d), NEW agent, NEW anyway,
           WeighDay(DayOf(bks, lks, deps, d, {b}), new[b].trips[d], agent, anyway) = "fits"
    PROVE  LET W == DayOf(bks, lks, deps, d, {b})
               E == DayOf(new, lks, deps, d, {})
           IN  W.available \in Int /\ E.available \in Int /\ Least(0, W.available) <= E.available
<1> DEFINE W == DayOf(bks, lks, deps, d, {b})
           V == DayOf(new, lks, deps, d, {b})
           E == DayOf(new, lks, deps, d, {})
           t == new[b].trips[d]
           cost == CostOn(new[b], deps[d], V.open, d)
           rows == PoolLocks(lks, d)
<1>1. V.open = W.open /\ V.locked = W.locked /\ V.available = W.available
  BY SeenAlike
<1>2. /\ V.locked \in Nat /\ E.locked \in Nat /\ cost \in Nat /\ V.available \in Int /\ E.available \in Int
      /\ Pooled(deps, d) => E.available = V.available - cost + V.locked - E.locked
      /\ ~Pooled(deps, d) => V.available = 0 /\ E.available = 0
      /\ V.locked = Locked(rows, DrawnByLock(new, {b}))
      /\ E.locked = Locked(rows, DrawnByLock(new, {}))
  BY DayBeside
<1>3. W.pooled = Pooled(deps, d) /\ W.deps = deps[d] /\ W.open = OpenBoats(deps[d], TripsOn(bks, d, {b}))
  BY DayIs
<1>4. t \in SoldTrips
  <2>1. new[b] \in BookingRows
    BY BookingFacts DEF HoldsSeats, Standing
  <2> QED
    BY <2>1, PlanFacts DEF BookingRows
<1>5. /\ t.pax \in Nat /\ DrawnTotal(t) \in Nat /\ t.mode \in {"seat", "charter"} /\ (t.boat \in Boats \/ t.boat = NoBoat)
      /\ t.mode = "charter" => DrawnTotal(t) = 0
  BY <1>4, SoldFacts
<1>6. cost = Cost(deps[d], W.open, t)
  BY <1>1 DEF CostOn
<1>7. CASE ~Pooled(deps, d)
  <2>1. W.available = 0 /\ E.available = 0
    BY <1>1, <1>2, <1>7
  <2> HIDE DEF W, E
  <2> QED
    BY <2>1 DEF W, E, Least
<1>8. CASE Pooled(deps, d) /\ t.mode = "charter"
  <2>1. WeighCharter(W, t, anyway) = "fits"
    BY <1>8 DEF WeighDay
  <2>2. t.boat # NoBoat => t.boat \in W.open
    BY <2>1 DEF WeighCharter, BoatCanBeTaken
  <2> DEFINE taken == TakenSeats(W, t)
  <2>3. taken = 0 \/ taken <= W.available
    <3> HIDE DEF W, t
    <3>1. W.pooled
      BY <1>3, <1>8
    <3>2. taken = 0 \/ taken <= W.available \/ WeighCharter(W, t, anyway) # "fits"
      BY <3>1 DEF WeighCharter, SellsUngated
    <3> QED
      BY <2>1, <3>2
  <2>4. t.boat = NoBoat => t.boat \notin W.open /\ t.boat \notin DOMAIN deps[d]
    BY <1>3, BoatAssumption DEF Standing, IsFleet, OpenBoats
  <2> HIDE DEF W, t, cost
  <2>5. cost = taken
    BY <1>3, <1>5, <1>6, <1>8, <2>2, <2>4 DEF Cost, TakenSeats
  <2>6. E.locked = V.locked
    <3> DEFINE drop == SumOver(Takes(new[b]), DOMAIN rows)
    <3>1. /\ drop \in Nat
          /\ Locked(rows, DrawnByLock(new, {})) <= Locked(rows, DrawnByLock(new, {b}))
          /\ Locked(rows, DrawnByLock(new, {b})) <= Locked(rows, DrawnByLock(new, {})) + drop
          /\ drop <= DrawnTotal(t)
      BY LocksBeside DEF t
    <3>2. drop = 0
      BY <1>5, <1>8, <3>1
    <3> HIDE DEF drop, rows, V, E
    <3> QED
      BY <1>2, <3>1, <3>2
  <2> DEFINE av == E.available
             aw == W.available
             le == E.locked
             lv == V.locked
  <2>7. av \in Int /\ aw \in Int /\ cost \in Nat /\ av = aw - cost + lv - le /\ lv = le /\ lv \in Nat
        /\ (cost = 0 \/ cost <= aw)
    BY <1>1, <1>2, <1>8, <2>3, <2>5, <2>6
  <2> HIDE DEF av, aw, le, lv, taken
  <2>8. Least(0, aw) <= av
    BY <2>7 DEF Least
  <2> QED
    BY <2>7, <2>8 DEF av, aw, W, E
<1>9. CASE Pooled(deps, d) /\ t.mode # "charter"
  <2>1. WeighSeats(W, t, agent) = "fits"
    BY <1>9 DEF WeighDay
  <2>2. Drawable(W, t, agent)
    <3>1. ~Drawable(W, t, agent) => WeighSeats(W, t, agent) = "refused"
      BY DEF WeighSeats
    <3> QED
      BY <2>1, <3>1
  <2>3. V.locked = E.locked + DrawnTotal(t)
    BY <1>2, <2>2, LocksHeldIt
  <2> DEFINE need == Clip(General(t))
  <2>4. need = 0 \/ need <= W.available
    <3> HIDE DEF W, t
    <3>1. W.pooled
      BY <1>3, <1>9
    <3>2. need = 0 \/ need <= W.available \/ WeighSeats(W, t, agent) # "fits"
      BY <2>2, <3>1 DEF WeighSeats, SellsUngated
    <3> QED
      BY <2>1, <3>2
  <2>5. cost = t.pax
    BY <1>6, <1>9 DEF Cost
  <2> DEFINE av == E.available
             aw == W.available
             le == E.locked
             lv == V.locked
             n == t.pax
             x == DrawnTotal(t)
  <2>6. need = Clip(n - x)
    BY DEF General
  <2>7. /\ av \in Int /\ aw \in Int /\ n \in Nat /\ x \in Nat /\ le \in Nat /\ lv \in Nat
        /\ av = aw - n + lv - le /\ lv = le + x
        /\ (Clip(n - x) = 0 \/ Clip(n - x) <= aw)
    BY <1>1, <1>2, <1>5, <1>9, <2>3, <2>4, <2>5, <2>6
  <2> HIDE DEF av, aw, le, lv, n, x
  <2>8. Least(0, aw) <= av
    BY <2>7 DEF Least, Clip
  <2> QED
    BY <2>7, <2>8 DEF av, aw, W, E
<1> QED
  BY <1>7, <1>8, <1>9

\* A charter of the boat it had takes what it took.
LEMMA DayRetaken ==
    ASSUME NEW bks, NEW new, NEW lks, NEW deps, NEW d, NEW b \in Bookings, Beside(bks, new, b),
           Standing(bks, lks, deps, d), Standing(new, lks, deps, d),
           HoldsSeats(bks[b]), AtHome(bks[b], lks), d \in DOMAIN bks[b].trips, bks[b].trips[d].mode = "charter",
           HoldsSeats(new[b]), AtHome(new[b], lks), d \in DOMAIN new[b].trips, new[b].trips[d].mode = "charter",
           bks[b].trips[d].boat = new[b].trips[d].boat,
           new[b].trips[d].boat \in DayOf(bks, lks, deps, d, {b}).open
    PROVE  DayOf(new, lks, deps, d, {}).available = DayOf(bks, lks, deps, d, {}).available
<1> DEFINE W == DayOf(bks, lks, deps, d, {b})
           V == DayOf(new, lks, deps, d, {b})
           D == DayOf(bks, lks, deps, d, {})
           E == DayOf(new, lks, deps, d, {})
           ct == CostOn(bks[b], deps[d], W.open, d)
           cu == CostOn(new[b], deps[d], V.open, d)
           rows == PoolLocks(lks, d)
           t == bks[b].trips[d]
           u == new[b].trips[d]
<1>1. V.open = W.open /\ V.locked = W.locked /\ V.available = W.available
  BY SeenAlike
<1>2. /\ W.locked \in Nat /\ D.locked \in Nat /\ ct \in Nat /\ W.available \in Int /\ D.available \in Int
      /\ Pooled(deps, d) => D.available = W.available - ct + W.locked - D.locked
      /\ ~Pooled(deps, d) => W.available = 0 /\ D.available = 0
  <2>1. W.locked \in Nat /\ D.locked \in Nat /\ ct \in Nat /\ W.available \in Int /\ D.available \in Int
    BY DayBeside
  <2>2. Pooled(deps, d) => D.available = W.available - ct + W.locked - D.locked
    BY DayBeside
  <2>3. ~Pooled(deps, d) => W.available = 0 /\ D.available = 0
    BY DayIs
  <2> HIDE DEF W, D, ct
  <2> QED
    BY <2>1, <2>2, <2>3
<1>3. /\ V.locked \in Nat /\ E.locked \in Nat /\ cu \in Nat /\ E.available \in Int
      /\ Pooled(deps, d) => E.available = V.available - cu + V.locked - E.locked
      /\ ~Pooled(deps, d) => V.available = 0 /\ E.available = 0
  <2>1. V.locked \in Nat /\ E.locked \in Nat /\ cu \in Nat /\ V.available \in Int /\ E.available \in Int
    BY DayBeside
  <2>2. Pooled(deps, d) => E.available = V.available - cu + V.locked - E.locked
    BY DayBeside
  <2>3. ~Pooled(deps, d) => V.available = 0 /\ E.available = 0
    BY DayIs
  <2> HIDE DEF V, E, cu
  <2> QED
    BY <2>1, <2>2, <2>3
<1>4. W.locked = Locked(rows, DrawnByLock(bks, {b})) /\ D.locked = Locked(rows, DrawnByLock(bks, {}))
  BY DayIs
<1>5. V.locked = Locked(rows, DrawnByLock(new, {b})) /\ E.locked = Locked(rows, DrawnByLock(new, {}))
  BY DayIs
<1>6. ct = Cost(deps[d], W.open, t) /\ cu = Cost(deps[d], V.open, u)
  BY DEF CostOn
<1>7. W.locked = D.locked
  <2> DEFINE drop == SumOver(Takes(bks[b]), DOMAIN rows)
  <2>1. /\ drop \in Nat
        /\ Locked(rows, DrawnByLock(bks, {})) <= Locked(rows, DrawnByLock(bks, {b}))
        /\ Locked(rows, DrawnByLock(bks, {b})) <= Locked(rows, DrawnByLock(bks, {})) + drop
        /\ t \in SoldTrips /\ drop <= DrawnTotal(t)
    BY LocksBeside
  <2>2. DrawnTotal(t) = 0
    BY <2>1, SoldFacts
  <2> HIDE DEF drop, rows, W, D
  <2> QED
    BY <1>2, <1>4, <2>1, <2>2
<1>8. V.locked = E.locked
  <2> DEFINE drop == SumOver(Takes(new[b]), DOMAIN rows)
  <2>1. /\ drop \in Nat
        /\ Locked(rows, DrawnByLock(new, {})) <= Locked(rows, DrawnByLock(new, {b}))
        /\ Locked(rows, DrawnByLock(new, {b})) <= Locked(rows, DrawnByLock(new, {})) + drop
        /\ u \in SoldTrips /\ drop <= DrawnTotal(u)
    BY LocksBeside
  <2>2. DrawnTotal(u) = 0
    BY <2>1, SoldFacts
  <2> HIDE DEF drop, rows, V, E
  <2> QED
    BY <1>3, <1>5, <2>1, <2>2
<1> HIDE DEF W, V, D, E, ct, cu
<1>9. ct = cu
  BY <1>1, <1>6 DEF Cost, W
<1>10. E.available = D.available
  BY <1>1, <1>2, <1>3, <1>7, <1>8, <1>9
<1> QED
  BY <1>10 DEF D, E

-----------------------------------------------------------------------------
(* What a command that writes a booking has asked                          *)

AllSized(trips) == \A d \in DOMAIN trips : Sized(trips[d])

LEMMA MarkedSized ==
    ASSUME NEW trips, NEW marked, SameButMarked(trips, marked), AllSized(trips)
    PROVE  AllSized(marked)
<1> SUFFICES ASSUME NEW d \in DOMAIN marked PROVE Sized(marked[d])
  BY DEF AllSized
<1>1. d \in DOMAIN trips /\ Sized(trips[d])
  BY DEF SameButMarked, AllSized
<1>2. marked[d].mode = trips[d].mode /\ marked[d].pax = trips[d].pax
      /\ marked[d].boat = trips[d].boat /\ marked[d].draws = trips[d].draws
  BY <1>1 DEF SameButMarked
<1> QED
  BY <1>1, <1>2 DEF Sized, DrawnTotal

LEMMA MarkedLessens ==
    ASSUME NEW old, NEW new, NEW marked, SameButMarked(new, marked), Lessens(old, new)
    PROVE  Lessens(old, marked)
<1> SUFFICES ASSUME NEW d \in DOMAIN marked
             PROVE  /\ d \in DOMAIN old /\ old[d].mode = marked[d].mode /\ old[d].boat = marked[d].boat
                    /\ marked[d].pax <= old[d].pax /\ General(marked[d]) <= General(old[d])
                    /\ \A l \in LockIds : marked[d].draws[l] <= old[d].draws[l]
  BY DEF Lessens
<1>1. d \in DOMAIN new
  BY DEF SameButMarked
<1>2. marked[d].mode = new[d].mode /\ marked[d].pax = new[d].pax
      /\ marked[d].boat = new[d].boat /\ marked[d].draws = new[d].draws
  BY <1>1 DEF SameButMarked
<1>3. General(marked[d]) = General(new[d])
  BY <1>2 DEF General, DrawnTotal
<1>4. /\ d \in DOMAIN old /\ old[d].mode = new[d].mode /\ old[d].boat = new[d].boat
      /\ new[d].pax <= old[d].pax /\ General(new[d]) <= General(old[d])
      /\ \A l \in LockIds : new[d].draws[l] <= old[d].draws[l]
  BY <1>1 DEF Lessens
<1> QED
  BY <1>2, <1>3, <1>4

LEMMA PlanNumbers ==
    ASSUME NEW trips \in TripPlans, NEW d \in DOMAIN trips
    PROVE  /\ trips[d] \in SoldTrips /\ trips[d].pax \in Nat /\ DrawnTotal(trips[d]) \in Nat
           /\ General(trips[d]) \in Int /\ General(trips[d]) = trips[d].pax - DrawnTotal(trips[d])
           /\ trips[d].draws \in [LockIds -> Nat] /\ \A l \in LockIds : trips[d].draws[l] \in Nat
<1>1. trips[d] \in SoldTrips
  BY PlanFacts
<1>2. trips[d].pax \in Nat /\ DrawnTotal(trips[d]) \in Nat /\ trips[d].draws \in [LockIds -> Nat]
  BY <1>1, SoldFacts
<1> QED
  BY <1>1, <1>2 DEF General

LEMMA SelfLessens ==
    ASSUME NEW trips \in TripPlans
    PROVE  Lessens(trips, trips)
  BY PlanNumbers DEF Lessens

\* An itinerary that claims no more seats is one that asks for less.
LEMMA ClaimsLess ==
    ASSUME NEW old \in TripPlans, NEW new \in TripPlans, ~ClaimsMoreSeats(old, new)
    PROVE  Lessens(old, new)
<1> SUFFICES ASSUME NEW d \in DOMAIN new
             PROVE  /\ d \in DOMAIN old /\ old[d].mode = new[d].mode /\ old[d].boat = new[d].boat
                    /\ new[d].pax <= old[d].pax /\ General(new[d]) <= General(old[d])
                    /\ \A l \in LockIds : new[d].draws[l] <= old[d].draws[l]
  BY DEF Lessens
<1>1. /\ d \in DOMAIN old /\ old[d].mode = new[d].mode /\ old[d].boat = new[d].boat
      /\ ~(new[d].pax > old[d].pax) /\ ~(General(new[d]) > General(old[d]))
      /\ \A l \in LockIds : ~(new[d].draws[l] > old[d].draws[l])
  BY DEF ClaimsMoreSeats
<1>2. /\ new[d].pax \in Nat /\ old[d].pax \in Nat /\ General(new[d]) \in Int /\ General(old[d]) \in Int
      /\ \A l \in LockIds : new[d].draws[l] \in Nat /\ old[d].draws[l] \in Nat
  BY <1>1, PlanNumbers
<1> QED
  BY <1>1, <1>2

\* An acknowledgement on a trip changes nothing of what it is weighed by.
LEMMA MarkedWeighs ==
    ASSUME NEW day, NEW t, NEW m, m.mode = t.mode, m.pax = t.pax, m.boat = t.boat, m.draws = t.draws,
           NEW agent, NEW anyway
    PROVE  WeighDay(day, m, agent, anyway) = WeighDay(day, t, agent, anyway)
<1>1. General(m) = General(t)
  BY DEF General, DrawnTotal
<1>2. Drawable(day, m, agent) = Drawable(day, t, agent)
  BY DEF Drawable
<1>3. WeighSeats(day, m, agent) = WeighSeats(day, t, agent)
  BY <1>1, <1>2 DEF WeighSeats
<1>4. TakenSeats(day, m) = TakenSeats(day, t) /\ BoatCanBeTaken(day, m) = BoatCanBeTaken(day, t)
  BY DEF TakenSeats, BoatCanBeTaken
<1>5. WeighCharter(day, m, anyway) = WeighCharter(day, t, anyway)
  BY <1>4 DEF WeighCharter
<1> QED
  BY <1>3, <1>5 DEF WeighDay

LEMMA WeighAnswers ==
    ASSUME NEW day, NEW t, NEW agent, NEW anyway
    PROVE  /\ WeighDay(day, t, agent, anyway) \in {"fits", "over", "displaced", "refused"}
           /\ WeighDay(day, t, agent, anyway) = "displaced" =>
                 t.mode = "charter" /\ t.boat # NoBoat /\ t.boat \in day.open
<1>1. WeighSeats(day, t, agent) \in {"fits", "over", "refused"}
  BY DEF WeighSeats
<1>2. WeighCharter(day, t, anyway) \in {"fits", "displaced", "refused"}
  BY DEF WeighCharter
<1>3. WeighCharter(day, t, anyway) = "displaced" => t.boat # NoBoat /\ t.boat \in day.open
  BY DEF WeighCharter, BoatCanBeTaken
<1> QED
  BY <1>1, <1>2, <1>3 DEF WeighDay

\* Every trip of a row fits its day, or took a sold boat and says so.
Weighty(b, row) ==
    \A d \in DOMAIN row.trips : \E anyway \in BOOLEAN :
        \/ WeighDay(Day(d, {b}), row.trips[d], row.agent, anyway) = "fits"
        \/ WeighDay(Day(d, {b}), row.trips[d], row.agent, anyway) = "displaced" /\ row.trips[d].displaced

LEMMA StampedWeighty ==
    ASSUME NEW b, NEW trips \in TripPlans, NEW planned, SameButMarked(trips, planned), planned \in TripPlans,
           NEW agent, NEW anyway \in BOOLEAN,
           NEW weights, weights = Weighed(Seen(b), trips, agent, anyway), ~Refused(weights), ~OverAllotment(weights),
           NEW row, row.trips = Stamped(planned, weights), row.agent = agent
    PROVE  Weighty(b, row)
<1> SUFFICES ASSUME NEW d \in DOMAIN row.trips
             PROVE  \/ WeighDay(Day(d, {b}), row.trips[d], row.agent, anyway) = "fits"
                    \/ WeighDay(Day(d, {b}), row.trips[d], row.agent, anyway) = "displaced" /\ row.trips[d].displaced
  BY DEF Weighty
<1> DEFINE w == WeighDay(Day(d, {b}), trips[d], agent, anyway)
<1>1. DOMAIN row.trips = DOMAIN trips /\ DOMAIN planned = DOMAIN trips /\ DOMAIN trips \subseteq Days
  BY PlanFacts DEF Stamped, SameButMarked
<1>2. weights[d] = w /\ d \in DOMAIN weights
  BY <1>1 DEF Weighed, Seen
<1>3. w # "refused" /\ w # "over"
  BY <1>2 DEF Refused, OverAllotment
<1>4. w \in {"fits", "over", "displaced", "refused"}
  BY WeighAnswers
<1>5. SameButMarked(planned, row.trips)
  BY StampedFacts
<1>6. SameButMarked(trips, row.trips)
  BY <1>5, MarkedTwice
<1>7. WeighDay(Day(d, {b}), row.trips[d], row.agent, anyway) = w
  <2>1. row.trips[d].mode = trips[d].mode /\ row.trips[d].pax = trips[d].pax
        /\ row.trips[d].boat = trips[d].boat /\ row.trips[d].draws = trips[d].draws
    BY <1>1, <1>6 DEF SameButMarked
  <2> QED
    BY <2>1, MarkedWeighs
<1>8. w = "displaced" => row.trips[d].displaced
  <2>1. row.trips[d] = [planned[d] EXCEPT !.displaced = @ \/ weights[d] = "displaced"]
    BY <1>1 DEF Stamped
  <2>2. planned[d] \in Trips
    BY <1>1, PlanFacts
  <2> QED
    BY <1>2, <2>1, <2>2 DEF Trips
<1> QED
  BY <1>3, <1>4, <1>7, <1>8

-----------------------------------------------------------------------------
(* The booking commands, by what they ask of the days                       *)

\* Every trip of the table asks for seats as clients do.
AllTripsSized == \A b \in Bookings : Exists(b) => AllSized(booking[b].trips)

\* A booking comes to hold seats by an approval or a restore, holds fewer than it did, or has been weighed.
Answered(b, row) ==
    /\ AllSized(row.trips)
    /\ HoldsSeats(row) => ByApproval(b, row) \/ ByRestore(b, row) \/ Yields(booking[b], row) \/ Weighty(b, row)

LEMMA AnsweredBy ==
    ASSUME PoolInv, NEW b \in Bookings, NEW row, Answered(b, row), booking' = [booking EXCEPT ![b] = row]
    PROVE  Answered(b, booking'[b])
<1>1. booking'[b] = row
  BY DEF PoolInv, IsBookings
<1> QED
  BY <1>1

\* Clients send trips that draw no more seats than they have passengers.
LEMMA ItinerarySized ==
    ASSUME NEW trips \in Itineraries
    PROVE  AllSized(trips)
<1>1. PICK D \in (SUBSET Days) \ {{}} : trips \in [D -> TripChoices]
  BY DEF Itineraries
<1>2. ASSUME NEW t \in TripChoices PROVE Sized(t)
  BY PoolAssumption DEF Sized
<1> QED
  BY <1>1, <1>2 DEF AllSized

LEMMA CreateAnswered ==
    ASSUME PoolInv, AllTripsSized, NEW b \in Bookings, NEW intent, NEW agent \in Agents, NEW trips \in Itineraries,
           NEW anyway \in BOOLEAN, CreateBooking(b, Seen(b), intent, agent, trips, anyway)
    PROVE  Answered(b, booking'[b])
<1> DEFINE weights == Weighed(Seen(b), trips, agent, anyway)
           base == IF intent = "quote" THEN "quote" ELSE "confirmed"
           over == OverAllotment(weights)
           planned == Planned(<<>>, trips)
           made == Stamped(planned, weights)
           row == [status |-> IF over THEN "pending_approval" ELSE base, agent |-> agent,
                   trips |-> made, approval |-> IF over THEN Asking(base) ELSE NotAsked]
<1>1. ~Refused(weights) /\ booking' = [booking EXCEPT ![b] = row]
  BY DEF CreateBooking
<1>2. trips \in TripPlans /\ AllSized(trips)
  BY ItineraryFacts, ItinerarySized
<1>3. planned \in TripPlans /\ SameButMarked(trips, planned)
  BY <1>2, PlannedFacts DEF IsOld
<1>4. made \in TripPlans /\ SameButMarked(planned, made)
  BY <1>3, StampedFacts
<1>5. AllSized(made)
  BY <1>2, <1>3, <1>4, MarkedTwice, MarkedSized
<1>6. row.trips = made /\ row.agent = agent
  OBVIOUS
<1>7. over => ~HoldsSeats(row)
  BY DEF HoldsSeats, WaitsForSeats, Asking
<1>8. ~over => Weighty(b, row)
  BY <1>1, <1>2, <1>3, <1>6, StampedWeighty
<1> HIDE DEF weights, over, planned, made, row
<1>9. Answered(b, row)
  BY <1>5, <1>6, <1>7, <1>8 DEF Answered
<1> QED
  BY <1>1, <1>9, AnsweredBy

LEMMA AmendAnswered ==
    ASSUME PoolInv, AllTripsSized, NEW b \in Bookings, NEW trips \in Itineraries, NEW anyway \in BOOLEAN,
           AmendBooking(b, Seen(b), trips, anyway)
    PROVE  Answered(b, booking'[b])
<1> DEFINE bk == booking[b]
           planned == Planned(bk.trips, trips)
           reweighs == IF HoldsSeats(bk) THEN ClaimsMoreSeats(bk.trips, trips) ELSE bk.status = "pending_approval"
           weights == IF reweighs THEN Weighed(Seen(b), trips, bk.agent, anyway) ELSE Unweighed(trips)
           over == OverAllotment(weights)
           fits == reweighs /\ ~over /\ WaitsForSeats(bk)
           made == Stamped(planned, weights)
           status == IF over THEN "pending_approval" ELSE IF fits THEN TargetOf(bk) ELSE bk.status
           approval == IF over THEN Asking(TargetOf(bk)) ELSE IF fits THEN Replaced(bk.approval) ELSE bk.approval
           row == [bk EXCEPT !.trips = made, !.status = status, !.approval = approval]
<1>1. Exists(b) /\ ~Refused(weights) /\ booking' = [booking EXCEPT ![b] = row]
  BY Zenon DEF AmendBooking
<1>2. trips \in TripPlans /\ AllSized(trips)
  BY ItineraryFacts, ItinerarySized
<1>3. bk \in BookingRows /\ bk.trips \in TripPlans /\ IsOld(bk.trips)
  BY <1>1, RowFacts
<1>4. planned \in TripPlans /\ SameButMarked(trips, planned)
  BY <1>2, <1>3, PlannedFacts
<1>5. made \in TripPlans /\ SameButMarked(planned, made)
  BY <1>4, StampedFacts
<1>6. SameButMarked(trips, made)
  BY <1>4, <1>5, MarkedTwice
<1>7. AllSized(made)
  BY <1>2, <1>6, MarkedSized
<1>8. over => reweighs
  BY DEF OverAllotment, Unweighed
<1>9. row.trips = made /\ row.agent = bk.agent /\ row.status = status /\ row.approval = approval
  BY <1>3 DEF BookingRows
<1>10. CASE over
  <2>1. ~HoldsSeats(row)
    <3>1. row.status = "pending_approval" /\ row.approval = Asking(TargetOf(bk))
      BY <1>9, <1>10
    <3> HIDE DEF row, over
    <3> QED
      BY <3>1 DEF HoldsSeats, WaitsForSeats, Asking
  <2> HIDE DEF row, made
  <2>2. Answered(b, row)
    BY <1>7, <1>9, <2>1 DEF Answered
  <2> QED
    BY <1>1, <2>2, AnsweredBy
<1>11. CASE ~over /\ reweighs
  <2>1. weights = Weighed(Seen(b), trips, bk.agent, anyway)
    BY <1>11
  <2>4. row.trips = Stamped(planned, weights) /\ row.agent = bk.agent /\ ~Refused(weights) /\ ~OverAllotment(weights)
    BY <1>1, <1>9, <1>11
  <2> HIDE DEF weights, row, planned
  <2>2. Weighty(b, row)
    BY <1>2, <1>4, <2>1, <2>4, StampedWeighty
  <2> HIDE DEF made
  <2>3. Answered(b, row)
    BY <1>7, <1>9, <2>2 DEF Answered
  <2> QED
    BY <1>1, <2>3, AnsweredBy
<1>12. CASE ~reweighs
  <2>1. ~over /\ ~fits
    BY <1>8, <1>12
  <2>2. HoldsSeats(bk) => Lessens(bk.trips, made)
    <3>1. HoldsSeats(bk) => Lessens(bk.trips, trips)
      BY <1>2, <1>3, <1>12, ClaimsLess
    <3> QED
      BY <1>6, <3>1, MarkedLessens
  <2> HIDE DEF weights, over, planned, made, reweighs, fits
  <2>3. row.status = bk.status /\ row.approval = bk.approval
    BY <1>9, <2>1
  <2> HIDE DEF row
  <2>4. HoldsSeats(row) => HoldsSeats(bk)
    BY <2>3 DEF HoldsSeats, WaitsForSeats
  <2>5. Yields(bk, row)
    BY <1>9, <2>2, <2>4 DEF Yields
  <2>6. Answered(b, row)
    BY <1>7, <1>9, <2>5 DEF Answered
  <2> QED
    BY <1>1, <2>6, AnsweredBy
<1> QED
  BY <1>10, <1>11, <1>12

\* A command that leaves the trips as they are, of a booking that held its seats or comes to hold none.
LEMMA PlainAnswered ==
    ASSUME PoolInv, AllTripsSized, NEW b \in Bookings, Exists(b), NEW row, row.trips = booking[b].trips,
           HoldsSeats(row) => HoldsSeats(booking[b]), booking' = [booking EXCEPT ![b] = row]
    PROVE  Answered(b, booking'[b]) /\ Yields(booking[b], booking'[b])
<1>1. booking[b].trips \in TripPlans /\ AllSized(booking[b].trips)
  BY RowFacts DEF AllTripsSized
<1>2. booking'[b] = row
  BY DEF PoolInv, IsBookings
<1>3. Yields(booking[b], row)
  BY <1>1, SelfLessens DEF Yields
<1> QED
  BY <1>1, <1>2, <1>3 DEF Answered

LEMMA CancelAnswered ==
    ASSUME PoolInv, AllTripsSized, NEW b \in Bookings, CancelBooking(b)
    PROVE  Answered(b, booking'[b]) /\ Yields(booking[b], booking'[b])
<1> DEFINE row == [booking[b] EXCEPT !.status = "cancelled"]
<1>1. Exists(b) /\ booking' = [booking EXCEPT ![b] = row]
  BY DEF CancelBooking, IsOpen, Exists
<1>2. booking[b] \in BookingRows
  BY <1>1, RowFacts
<1>3. row.trips = booking[b].trips /\ ~HoldsSeats(row)
  BY <1>2 DEF BookingRows, HoldsSeats, Releasing
<1> HIDE DEF row
<1> QED
  BY <1>1, <1>3, PlainAnswered

LEMMA RejectAnswered ==
    ASSUME PoolInv, AllTripsSized, NEW b \in Bookings, Reject(b)
    PROVE  Answered(b, booking'[b]) /\ Yields(booking[b], booking'[b])
<1> DEFINE row == [booking[b] EXCEPT !.status = "rejected", !.approval = NotAsked]
<1>1. Exists(b) /\ booking' = [booking EXCEPT ![b] = row]
  BY DEF Reject, WaitsForSeats, Exists
<1>2. booking[b] \in BookingRows
  BY <1>1, RowFacts
<1>3. row.trips = booking[b].trips /\ ~HoldsSeats(row)
  BY <1>2 DEF BookingRows, HoldsSeats, Releasing
<1> HIDE DEF row
<1> QED
  BY <1>1, <1>3, PlainAnswered

LEMMA ConfirmAnswered ==
    ASSUME PoolInv, AllTripsSized, NEW b \in Bookings, Confirm(b) PROVE Answered(b, booking'[b])
<1> DEFINE row == [booking[b] EXCEPT !.status = "confirmed"]
<1>1. Exists(b) /\ booking' = [booking EXCEPT ![b] = row]
  BY DEF Confirm, Exists
<1>2. booking[b] \in BookingRows
  BY <1>1, RowFacts
<1>3. row.trips = booking[b].trips
  BY <1>2 DEF BookingRows
<1>4. HoldsSeats(booking[b])
  BY DEF Confirm, HoldsSeats, WaitsForSeats, Releasing
<1> HIDE DEF row
<1> QED
  BY <1>1, <1>3, <1>4, PlainAnswered

LEMMA ApproveAnswered ==
    ASSUME PoolInv, AllTripsSized, NEW b \in Bookings, Approve(b) PROVE Answered(b, booking'[b])
<1> DEFINE row == [booking[b] EXCEPT !.status = booking[b].approval.target, !.approval = Granted]
<1>1. Exists(b) /\ booking[b].approval.state = "pending" /\ booking' = [booking EXCEPT ![b] = row]
  BY DEF Approve, WaitsForSeats, Exists
<1>2. booking[b] \in BookingRows /\ AllSized(booking[b].trips)
  BY <1>1, RowFacts DEF AllTripsSized
<1>3. row.trips = booking[b].trips /\ row.approval.state = "approved"
  BY <1>2 DEF BookingRows, Granted
<1> HIDE DEF row
<1>4. ByApproval(b, row)
  BY <1>1, <1>3 DEF ByApproval
<1>5. Answered(b, row)
  BY <1>2, <1>3, <1>4 DEF Answered
<1> QED
  BY <1>1, <1>5, AnsweredBy

LEMMA UnconfirmAnswered ==
    ASSUME PoolInv, AllTripsSized, NEW b \in Bookings, Unconfirm(b, Seen(b)) PROVE Answered(b, booking'[b])
<1> DEFINE bk == booking[b]
           weights == IF WaitsForSeats(bk) THEN Weighed(Seen(b), bk.trips, bk.agent, FALSE) ELSE Unweighed(bk.trips)
           over == OverAllotment(weights)
           status == IF over THEN "pending_approval" ELSE "quote"
           approval == IF over THEN Asking("quote") ELSE Replaced(bk.approval)
           row == [bk EXCEPT !.status = status, !.approval = approval]
<1>1. /\ bk.status \in {"confirmed", "pending_approval"} /\ ~Refused(weights)
      /\ booking' = [booking EXCEPT ![b] = row]
  BY Zenon DEF Unconfirm
<1>2. Exists(b)
  BY <1>1 DEF Exists
<1>3. bk \in BookingRows /\ bk.trips \in TripPlans /\ AllSized(bk.trips)
  BY <1>2, RowFacts DEF AllTripsSized
<1>4. row.trips = bk.trips /\ row.agent = bk.agent /\ row.status = status /\ row.approval = approval
  BY <1>3 DEF BookingRows
<1>5. CASE ~WaitsForSeats(bk)
  <2>1. HoldsSeats(bk)
    BY <1>1, <1>5 DEF HoldsSeats, Releasing
  <2> HIDE DEF row
  <2> QED
    BY <1>1, <1>2, <1>4, <2>1, PlainAnswered
<1>6. CASE WaitsForSeats(bk) /\ over
  <2>1. row.status = "pending_approval" /\ row.approval = Asking("quote")
    BY <1>4, <1>6
  <2> HIDE DEF row, over
  <2>2. ~HoldsSeats(row)
    BY <2>1 DEF HoldsSeats, WaitsForSeats, Asking
  <2> QED
    BY <1>1, <1>2, <1>4, <2>2, PlainAnswered
<1>7. CASE WaitsForSeats(bk) /\ ~over
  <2>1. weights = Weighed(Seen(b), bk.trips, bk.agent, FALSE) /\ ~Refused(weights) /\ ~OverAllotment(weights)
    BY <1>1, <1>7
  <2> HIDE DEF weights, row
  <2>2. ASSUME NEW d \in DOMAIN row.trips PROVE WeighDay(Day(d, {b}), row.trips[d], row.agent, FALSE) = "fits"
    <3> DEFINE w == WeighDay(Day(d, {b}), bk.trips[d], bk.agent, FALSE)
    <3>1. d \in Days /\ d \in DOMAIN bk.trips
      BY <1>3, <1>4, PlanFacts
    <3>2. d \in DOMAIN weights /\ weights[d] = w
      BY <2>1, <3>1 DEF Weighed, Seen
    <3>3. w # "refused" /\ w # "over"
      BY <2>1, <3>2 DEF Refused, OverAllotment
    <3>4. w \in {"fits", "over", "displaced", "refused"}
      BY WeighAnswers
    <3>5. w # "displaced"
      BY DEF WeighDay, WeighCharter, WeighSeats
    <3> QED
      BY <1>4, <3>3, <3>4, <3>5
  <2>3. Weighty(b, row)
    BY <2>2 DEF Weighty
  <2>4. Answered(b, row)
    BY <1>3, <1>4, <2>3 DEF Answered
  <2> QED
    BY <1>1, <2>4, AnsweredBy
<1> QED
  BY <1>5, <1>6, <1>7

LEMMA RescheduleAnswered ==
    ASSUME PoolInv, AllTripsSized, NEW b \in Bookings, NEW from \in Days, NEW to \in Days,
           Reschedule(b, Seen(b), from, to)
    PROVE  Answered(b, booking'[b])
<1> DEFINE bk == booking[b]
           none == [l \in LockIds |-> 0]
           moved == [bk.trips[from] EXCEPT !.draws = none]
           trips == [d \in (DOMAIN bk.trips \ {from}) \cup {to} |-> IF d = to THEN moved ELSE bk.trips[d]]
           made == Planned(bk.trips, trips)
           row == [bk EXCEPT !.trips = made]
<1>1. /\ IsOpen(bk) /\ from \in DOMAIN bk.trips /\ to \in Days \ DOMAIN bk.trips
      /\ \A d \in DOMAIN trips : AssertDayFits(Seen(b)[d], trips[d], bk.agent)
      /\ booking' = [booking EXCEPT ![b] = row]
  BY DEF Reschedule
<1>2. Exists(b)
  BY <1>1 DEF IsOpen, Exists
<1>3. bk \in BookingRows /\ bk.trips \in TripPlans /\ IsOld(bk.trips) /\ AllSized(bk.trips)
  BY <1>2, RowFacts DEF AllTripsSized
<1>4. DOMAIN bk.trips \subseteq Days /\ \A d \in DOMAIN bk.trips : bk.trips[d] \in SoldTrips /\ bk.trips[d] \in Trips
  BY <1>3, PlanFacts
<1>5. moved \in SoldTrips /\ Sized(moved)
  <2>1. none \in Draws
    BY PoolAssumption DEF Draws
  <2>2. bk.trips[from] \in Trips /\ Sized(bk.trips[from])
    BY <1>1, <1>3, <1>4 DEF AllSized
  <2>3. moved \in SoldTrips /\ moved.draws = none /\ moved.pax = bk.trips[from].pax
        /\ moved.mode = bk.trips[from].mode /\ moved.boat = bk.trips[from].boat
    BY <2>1, <2>2 DEF SoldTrips, Trips
  <2>4. Total(none) = 0
    <3> DEFINE nobody == [l \in {} |-> 0]
    <3>1. DOMAIN nobody = {} /\ DOMAIN nobody \subseteq DOMAIN none /\ (\A x \in DOMAIN nobody : nobody[x] = none[x])
          /\ \A x \in DOMAIN none \ DOMAIN nobody : none[x] = 0
      OBVIOUS
    <3> HIDE DEF nobody, none
    <3> QED
      BY <3>1, TotalSupport, TotalEmpty
  <2>5. moved.pax \in Nat
    BY <2>2, <2>3, TripFacts
  <2> HIDE DEF moved, none
  <2>6. Sized(moved)
    BY <2>2, <2>3, <2>4, <2>5 DEF Sized, DrawnTotal
  <2> QED
    BY <2>3, <2>6
<1> HIDE DEF moved
<1>6. \A d \in DOMAIN trips : trips[d] \in SoldTrips
  BY <1>4, <1>5
<1>7. DOMAIN trips \subseteq Days /\ DOMAIN trips # {} /\ trips = [d \in DOMAIN trips |-> trips[d]]
  BY <1>1, <1>4
<1>8. AllSized(trips)
  BY <1>3, <1>5 DEF AllSized
<1> HIDE DEF trips
<1>9. trips \in TripPlans
  BY <1>6, <1>7, PlanMade
<1>10. made \in TripPlans /\ SameButMarked(trips, made)
  BY <1>3, <1>9, PlannedFacts
<1>11. AllSized(made)
  BY <1>8, <1>10, MarkedSized
<1> HIDE DEF made
<1>12. row.trips = made /\ row.agent = bk.agent
  BY <1>3 DEF BookingRows
<1> HIDE DEF row
<1>13. ASSUME NEW d \in DOMAIN row.trips PROVE WeighDay(Day(d, {b}), row.trips[d], row.agent, FALSE) = "fits"
  <2>1. d \in DOMAIN trips /\ d \in Days
    BY <1>7, <1>10, <1>12 DEF SameButMarked
  <2>2. WeighDay(Day(d, {b}), trips[d], bk.agent, FALSE) = "fits"
    <3>1. AssertDayFits(Seen(b)[d], trips[d], bk.agent)
      BY <1>1, <2>1
    <3>2. Seen(b)[d] = Day(d, {b})
      BY <2>1 DEF Seen
    <3> QED
      BY <3>1, <3>2 DEF AssertDayFits
  <2>3. made[d].mode = trips[d].mode /\ made[d].pax = trips[d].pax /\ made[d].boat = trips[d].boat /\ made[d].draws = trips[d].draws
    BY <1>10, <2>1 DEF SameButMarked
  <2> QED
    <3>1. row.trips[d] = made[d] /\ row.agent = bk.agent
      BY <1>12
    <3>2. WeighDay(Day(d, {b}), made[d], bk.agent, FALSE) = WeighDay(Day(d, {b}), trips[d], bk.agent, FALSE)
      <4> DEFINE anyway == FALSE
                 m == made[d]
                 t == trips[d]
                 day == Day(d, {b})
      <4>1. m.mode = t.mode /\ m.pax = t.pax /\ m.boat = t.boat /\ m.draws = t.draws
        BY <2>3
      <4> HIDE DEF anyway, m, t, day
      <4>2. WeighDay(day, m, bk.agent, anyway) = WeighDay(day, t, bk.agent, anyway)
        BY <4>1, MarkedWeighs
      <4> QED
        BY <4>2 DEF anyway, m, t, day
    <3> QED
      BY <2>2, <3>1, <3>2
<1>14. Weighty(b, row)
  BY <1>13 DEF Weighty
<1>15. Answered(b, row)
  BY <1>11, <1>12, <1>14 DEF Answered
<1> QED
  BY <1>1, <1>15, AnsweredBy

\* Fewer passengers and fewer draws written on one trip.
LEMMA ShrunkAnswered ==
    ASSUME PoolInv, AllTripsSized, NEW b \in Bookings, IsOpen(booking[b]), NEW d \in DOMAIN booking[b].trips,
           NEW pax \in Nat, NEW draws \in [LockIds -> Nat], \A l \in LockIds : draws[l] <= booking[b].trips[d].draws[l],
           pax <= booking[b].trips[d].pax, Total(draws) \in Nat, Total(draws) <= pax,
           pax - Total(draws) <= General(booking[b].trips[d]),
           Shrunk(b, d, pax, draws)
    PROVE  Answered(b, booking'[b]) /\ Yields(booking[b], booking'[b])
<1> DEFINE bk == booking[b]
           old == bk.trips[d]
           trip == [old EXCEPT !.pax = pax, !.draws = draws]
           new == [bk.trips EXCEPT ![d] = trip]
           made == Planned(bk.trips, new)
           row == [bk EXCEPT !.trips = made]
<1>1. booking' = [booking EXCEPT ![b] = row] /\ Exists(b)
  BY DEF Shrunk, TripWritten, IsOpen, Exists
<1>2. bk \in BookingRows /\ bk.trips \in TripPlans /\ IsOld(bk.trips) /\ AllSized(bk.trips)
  BY <1>1, RowFacts DEF AllTripsSized
<1>3. old \in SoldTrips /\ old \in Trips /\ Sized(old) /\ \A l \in LockIds : old.draws[l] \in 0..MaxLockPax
  BY <1>2, PlanFacts, TripFacts DEF AllSized
<1>4. trip \in SoldTrips /\ trip.mode = old.mode /\ trip.boat = old.boat /\ trip.draws = draws /\ trip.pax = pax
  <2>1. draws \in Draws
    <3>1. draws = [l \in LockIds |-> draws[l]] /\ \A l \in LockIds : draws[l] \in 0..MaxLockPax
      BY <1>3, PoolAssumption
    <3> QED
      BY <3>1 DEF Draws
  <2>2. trip \in Trips /\ trip.mode = old.mode /\ trip.boat = old.boat /\ trip.draws = draws /\ trip.pax = pax
    BY <1>3, <2>1 DEF Trips
  <2>3. trip.mode = "charter" => \A l \in LockIds : trip.draws[l] = 0
    BY <1>3, <2>2 DEF SoldTrips
  <2> QED
    BY <2>2, <2>3 DEF SoldTrips
<1> HIDE DEF trip
<1>5. Sized(trip) /\ General(trip) = pax - Total(draws)
  BY <1>3, <1>4 DEF Sized, General, DrawnTotal
<1>6. new \in TripPlans
  BY <1>2, <1>4, PlanRewritten
<1>7. DOMAIN new = DOMAIN bk.trips /\ new[d] = trip /\ \A e \in DOMAIN new : e # d => new[e] = bk.trips[e]
  OBVIOUS
<1> HIDE DEF new
<1>8. AllSized(new)
  BY <1>2, <1>5, <1>7 DEF AllSized
<1>9. Lessens(bk.trips, new)
  <2> SUFFICES ASSUME NEW e \in DOMAIN new
               PROVE  /\ e \in DOMAIN bk.trips /\ bk.trips[e].mode = new[e].mode /\ bk.trips[e].boat = new[e].boat
                      /\ new[e].pax <= bk.trips[e].pax /\ General(new[e]) <= General(bk.trips[e])
                      /\ \A l \in LockIds : new[e].draws[l] <= bk.trips[e].draws[l]
    BY DEF Lessens
  <2>1. CASE e = d
    BY <1>4, <1>5, <1>7, <2>1
  <2>2. CASE e # d
    <3>1. e \in DOMAIN bk.trips /\ new[e] = bk.trips[e]
      BY <1>7, <2>2
    <3> QED
      BY <1>2, <3>1, PlanNumbers
  <2> QED
    BY <2>1, <2>2
<1>10. made \in TripPlans /\ SameButMarked(new, made)
  BY <1>2, <1>6, PlannedFacts
<1>11. AllSized(made) /\ Lessens(bk.trips, made)
  BY <1>8, <1>9, <1>10, MarkedSized, MarkedLessens
<1> HIDE DEF made
<1>12. row.trips = made /\ row.status = bk.status /\ row.approval = bk.approval
  BY <1>2 DEF BookingRows
<1> HIDE DEF row
<1>13. HoldsSeats(row) => HoldsSeats(bk)
  BY <1>12 DEF HoldsSeats, WaitsForSeats
<1>14. Yields(bk, row)
  BY <1>11, <1>12, <1>13 DEF Yields
<1>15. Answered(b, row)
  BY <1>11, <1>12, <1>14 DEF Answered
<1>16. booking'[b] = row
  BY <1>1 DEF PoolInv, IsBookings
<1> QED
  BY <1>14, <1>15, <1>16

LEMMA PartialCancelAnswered ==
    ASSUME PoolInv, AllTripsSized, NEW b \in Bookings, NEW n \in 1..MaxLockPax,
           PartialCancelCount(b, n) \/ \E d \in Days : PartialCancelRecord(b, d, n)
    PROVE  Answered(b, booking'[b]) /\ Yields(booking[b], booking'[b])
<1>1. IsOpen(booking[b])
  BY DEF PartialCancelCount, PartialCancelRecord
<1>2. booking[b].trips \in TripPlans /\ AllSized(booking[b].trips)
  BY <1>1, RowFacts DEF IsOpen, Exists, AllTripsSized
<1>3. ASSUME NEW d \in DOMAIN booking[b].trips
      PROVE  /\ booking[b].trips[d] \in Trips /\ booking[b].trips[d].pax \in Nat
             /\ DrawnTotal(booking[b].trips[d]) \in Nat /\ DrawnTotal(booking[b].trips[d]) <= booking[b].trips[d].pax
             /\ General(booking[b].trips[d]) = booking[b].trips[d].pax - DrawnTotal(booking[b].trips[d])
  BY <1>2, PlanFacts, PlanNumbers DEF AllSized, Sized
<1>4. CASE PartialCancelCount(b, n)
  <2>1. PICK d \in DOMAIN booking[b].trips :
           /\ n \in 1..booking[b].trips[d].pax
           /\ Shrunk(b, d, booking[b].trips[d].pax - n, ClampDraws(booking[b].trips[d], booking[b].trips[d].pax - n))
    BY <1>4 DEF PartialCancelCount
  <2> DEFINE trip == booking[b].trips[d]
             pax == trip.pax - n
             draws == ClampDraws(trip, pax)
             x == DrawnTotal(trip)
             m == trip.pax
  <2>2. pax \in Nat /\ pax <= m /\ m \in Nat /\ x \in Nat /\ x <= m /\ General(trip) = m - x /\ trip \in Trips
    BY <1>3, <2>1
  <2>3. /\ draws \in [LockIds -> Nat] /\ \A l \in LockIds : draws[l] <= trip.draws[l]
        /\ Total(draws) = Least(x, pax)
    BY <2>2, ClampedTotal
  <2>4. Shrunk(b, d, pax, draws)
    BY <2>1
  <2> HIDE DEF draws, pax, x, m
  <2>5. Total(draws) \in Nat /\ Total(draws) <= pax /\ pax - Total(draws) <= m - x
    BY <2>2, <2>3 DEF Least
  <2>6. pax <= trip.pax /\ pax - Total(draws) <= General(trip)
    BY <2>2, <2>5 DEF m
  <2> HIDE DEF trip
  <2>7. Answered(b, booking'[b]) /\ Yields(booking[b], booking'[b])
    BY <1>1, <2>2, <2>3, <2>4, <2>5, <2>6, ShrunkAnswered DEF trip
  <2> QED
    BY <2>7
<1>5. CASE \E d \in Days : PartialCancelRecord(b, d, n)
  <2>1. PICK d \in DOMAIN booking[b].trips :
           /\ n \in 1..booking[b].trips[d].pax - 1
           /\ Shrunk(b, d, booking[b].trips[d].pax - n, ReturnDrawsFirst(booking[b].trips[d], n))
    BY <1>5 DEF PartialCancelRecord
  <2> DEFINE trip == booking[b].trips[d]
             pax == trip.pax - n
             draws == ReturnDrawsFirst(trip, n)
             x == DrawnTotal(trip)
             m == trip.pax
  <2>2. pax \in Nat /\ pax = m - n /\ n \in Nat /\ m \in Nat /\ x \in Nat /\ x <= m /\ General(trip) = m - x /\ trip \in Trips
    BY <1>3, <2>1
  <2>3. /\ draws \in [LockIds -> Nat] /\ \A l \in LockIds : draws[l] <= trip.draws[l]
        /\ Total(draws) = Clip(x - n)
    BY <2>2, ReturnedTotal
  <2>4. Shrunk(b, d, pax, draws)
    BY <2>1
  <2> HIDE DEF draws, pax, x, m
  <2>5. Total(draws) \in Nat /\ Total(draws) <= pax /\ pax - Total(draws) <= m - x /\ pax <= m
    BY <2>2, <2>3 DEF Clip
  <2>6. pax <= trip.pax /\ pax - Total(draws) <= General(trip)
    BY <2>2, <2>5 DEF m
  <2> HIDE DEF trip
  <2>7. Answered(b, booking'[b]) /\ Yields(booking[b], booking'[b])
    BY <1>1, <2>2, <2>3, <2>4, <2>5, <2>6, ShrunkAnswered DEF trip
  <2> QED
    BY <2>7
<1> QED
  BY <1>4, <1>5

\* A trip restored keeps its head count, and loses its boat or some of its draws.
LEMMA RestoredSized ==
    ASSUME PoolInv, AllTripsSized, NEW b \in Bookings, Exists(b)
    PROVE  AllSized(RestoredTrips(b, Seen(b)))
<1> DEFINE seen == Seen(b)
           trips == booking[b].trips
           drawing == {d \in DOMAIN trips : ~BoatTaken(seen[d], trips[d])}
           ahead(d, l) == {e \in drawing : e < d /\ trips[e].draws[l] > 0}
           first(d, l) == Min(ahead(d, l) \cup {d})
           left(d, l) == IF l \in DOMAIN seen[first(d, l)].remaining THEN seen[first(d, l)].remaining[l] ELSE 0
           spent(d, l) == Total([e \in ahead(d, l) |-> trips[e].draws[l]])
           back(d, l) == Least(trips[d].draws[l], Clip(left(d, l) - spent(d, l)))
           new == [d \in DOMAIN trips |->
              IF d \notin drawing THEN [trips[d] EXCEPT !.boat = NoBoat]
              ELSE [trips[d] EXCEPT !.draws = [l \in LockIds |-> back(d, l)]]]
<1>1. RestoredTrips(b, seen) = new
  BY Zenon DEF RestoredTrips
<1>2. trips \in TripPlans /\ AllSized(trips)
  BY RowFacts DEF AllTripsSized
<1>3. new \in TripPlans /\ DOMAIN new = DOMAIN trips
      /\ \A d \in DOMAIN trips : \A l \in LockIds : new[d].draws[l] <= trips[d].draws[l]
  BY <1>1, RestoredFacts
<1> SUFFICES ASSUME NEW d \in DOMAIN trips PROVE Sized(new[d])
  BY <1>1, <1>3 DEF AllSized
<1>4. trips[d] \in Trips /\ Sized(trips[d]) /\ trips[d].pax \in Nat /\ DrawnTotal(trips[d]) \in Nat
      /\ trips[d].draws \in [LockIds -> Nat]
  BY <1>2, PlanFacts, PlanNumbers DEF AllSized
<1>5. new[d].draws \in [LockIds -> Nat] /\ DrawnTotal(new[d]) \in Nat
  BY <1>3, PlanNumbers
<1>6. CASE d \notin drawing
  <2>1. new[d] = [trips[d] EXCEPT !.boat = NoBoat]
    BY <1>6
  <2> HIDE DEF new, drawing
  <2>2. new[d].draws = trips[d].draws /\ new[d].pax = trips[d].pax /\ new[d].boat = NoBoat
    BY <1>4, <2>1 DEF Trips
  <2> QED
    BY <1>4, <2>2 DEF Sized, DrawnTotal
<1>7. CASE d \in drawing
  <2> DEFINE draws == [l \in LockIds |-> back(d, l)]
  <2>1. new[d] = [trips[d] EXCEPT !.draws = draws]
    BY <1>7
  <2> HIDE DEF new, drawing, draws
  <2>2. new[d].draws = draws /\ new[d].pax = trips[d].pax /\ new[d].boat = trips[d].boat /\ new[d].mode = trips[d].mode
    BY <1>4, <2>1 DEF Trips
  <2>3. Total(new[d].draws) <= Total(trips[d].draws)
    BY <1>3, <1>4, <1>5, LockAssumption, TotalMono
  <2> QED
    BY <1>4, <1>5, <2>2, <2>3 DEF Sized, DrawnTotal
<1> QED
  BY <1>6, <1>7

LEMMA RestoreAnswered ==
    ASSUME PoolInv, AllTripsSized, NEW b \in Bookings, RestoreBooking(b, Seen(b)) PROVE Answered(b, booking'[b])
<1> DEFINE bk == booking[b]
           new == RestoredTrips(b, Seen(b))
           made == Planned(bk.trips, new)
           row == [bk EXCEPT !.status = "confirmed", !.trips = made]
<1>1. bk.status \in Releasing /\ booking' = [booking EXCEPT ![b] = row]
  BY DEF RestoreBooking
<1>2. Exists(b)
  BY <1>1 DEF Exists, Releasing
<1>3. bk \in BookingRows /\ IsOld(bk.trips)
  BY <1>2, RowFacts
<1>4. new \in TripPlans /\ AllSized(new)
  BY <1>2, RestoredFacts, RestoredSized
<1> HIDE DEF new
<1>5. made \in TripPlans /\ SameButMarked(new, made)
  BY <1>3, <1>4, PlannedFacts
<1>6. AllSized(made)
  BY <1>4, <1>5, MarkedSized
<1> HIDE DEF made
<1>7. row.trips = made /\ row.status = "confirmed"
  BY <1>3 DEF BookingRows
<1> HIDE DEF row
<1>8. ByRestore(b, row)
  BY <1>1, <1>7 DEF ByRestore
<1>9. Answered(b, row)
  BY <1>6, <1>7, <1>8 DEF Answered
<1> QED
  BY <1>1, <1>9, AnsweredBy

LEMMA BookingAnswered ==
    ASSUME PoolInv, AllTripsSized, NEW b \in Bookings, BookingStep(b)
    PROVE  Answered(b, booking'[b])
<1>1. CASE \E intent \in Intents, agent \in Agents, trips \in Itineraries, anyway \in BOOLEAN :
              CreateBooking(b, Seen(b), intent, agent, trips, anyway)
  BY <1>1, CreateAnswered
<1>2. CASE \E trips \in Itineraries, anyway \in BOOLEAN : AmendBooking(b, Seen(b), trips, anyway)
  BY <1>2, AmendAnswered
<1>3. CASE Unconfirm(b, Seen(b)) \/ RestoreBooking(b, Seen(b))
  BY <1>3, UnconfirmAnswered, RestoreAnswered
<1>4. CASE \E from, to \in Days : Reschedule(b, Seen(b), from, to)
  BY <1>4, RescheduleAnswered
<1>5. CASE CancelBooking(b) \/ Confirm(b) \/ Approve(b) \/ Reject(b)
  BY <1>5, CancelAnswered, ConfirmAnswered, ApproveAnswered, RejectAnswered
<1>6. CASE \/ \E n \in 1..MaxLockPax : PartialCancelCount(b, n)
           \/ \E d \in Days, n \in 1..MaxLockPax : PartialCancelRecord(b, d, n)
  BY <1>6, PartialCancelAnswered
<1> QED
  BY <1>1, <1>2, <1>3, <1>4, <1>5, <1>6 DEF BookingStep

-----------------------------------------------------------------------------
(* The days when a booking command is done                                  *)

\* Draws of a booking written anew are of its own days, unless it is approved or restored.
LEMMA MovedSeemly ==
    ASSUME PoolInv, AllTripsSized, NEW b \in Bookings, BookingMoved(b), Answered(b, booking'[b]), ~StrayDraws(b)
    PROVE  /\ Seemly(booking[b], lock)
           /\ ByApproval(b, booking'[b]) \/ ByRestore(b, booking'[b]) \/ Seemly(booking'[b], lock)
<1>1. HoldsSeats(booking[b]) => Exists(b)
  BY DEF HoldsSeats, Exists
<1>2. HoldsSeats(booking[b]) => AtHome(booking[b], lock)
  <2> SUFFICES ASSUME HoldsSeats(booking[b]), NEW d \in DOMAIN booking[b].trips, NEW l \in LockIds, booking[b].trips[d].draws[l] > 0
               PROVE  lock[l].day = d
    BY DEF AtHome
  <2>1. l \in DOMAIN lock
    BY <1>1 DEF PoolInv, DrawsExist, Exists
  <2> QED
    BY <2>1 DEF StrayDraws
<1>3. Seemly(booking[b], lock)
  BY <1>1, <1>2 DEF Seemly, AllTripsSized, AllSized
<1>4. SUFFICES ASSUME HoldsSeats(booking'[b]), ~ByApproval(b, booking'[b]), ~ByRestore(b, booking'[b])
               PROVE  Seemly(booking'[b], lock)
  BY <1>3 DEF Seemly
<1>5. DrawsEntitled(b, booking'[b])
  BY <1>4 DEF BookingMoved, Admissible
<1>6. AtHome(booking'[b], lock)
  BY <1>2, <1>5 DEF AtHome, DrawsEntitled
<1> QED
  BY <1>6 DEF Seemly, Answered, AllSized

LEMMA MovedStands ==
    ASSUME PoolInv, NEW b \in Bookings, BookingMoved(b), NEW d \in Days
    PROVE  /\ Standing(booking, lock, deployed, d) /\ Standing(booking', lock, deployed, d)
           /\ Beside(booking, booking', b) /\ lock' = lock /\ deployed' = deployed
           /\ booking'[b] = booking[b] => booking' = booking
<1>1. IsFleet(deployed[d])
  BY PoolAssumption DEF PoolInv, IsDeployed, IsFleet
<1>2. IsBookings(booking')
  BY BookingKeepsSound DEF PoolInv
<1>3. booking' = [booking EXCEPT ![b] = booking'[b]] /\ lock' = lock /\ deployed' = deployed
  BY DEF BookingMoved
<1>4. booking \in [Bookings -> BookingRows \cup {NoBooking}]
  BY DEF PoolInv, IsBookings
<1>5. Beside(booking, booking', b) /\ (booking'[b] = booking[b] => booking' = booking)
  BY <1>3, <1>4 DEF Beside
<1> QED
  BY <1>1, <1>2, <1>3, <1>5 DEF Standing, PoolInv

\* What a booking draws together on a day is what its trip does.
LEMMA ApartUnless ==
    ASSUME NEW b \in Bookings, NEW d \in Days, lock' = lock, booking'[b] # booking[b], HoldsSeats(booking'[b]),
           d \in DOMAIN booking'[b].trips, ~DrawsTogether(b, d)
    PROVE  ApartOn(booking', lock, booking'[b].trips[d], d)
<1>1. Exists(b)'
  BY DEF HoldsSeats, Exists
<1> SUFFICES ASSUME NEW top \in DOMAIN lock, lock[top].parent = NoLock, lock[top].day = d,
                    NEW l \in FamilyOf(lock, top), NEW k \in FamilyOf(lock, top), l # k,
                    booking'[b].trips[d].draws[l] > 0, booking'[b].trips[d].draws[k] > 0,
                    Overcommitted(booking', lock, top) > 0
             PROVE  FALSE
  BY DEF ApartOn
<1>2. IsTop(top) /\ l \in Kids(top) \cup {top} /\ k \in Kids(top) \cup {top}
  BY DEF IsTop, Kids, FamilyOf
<1>3. Overcommitted(booking', lock', top) > 0
  OBVIOUS
<1> QED
  BY <1>1, <1>2, <1>3 DEF DrawsTogether

LEMMA DayInts ==
    ASSUME NEW bks, NEW lks, NEW deps, NEW d, Standing(bks, lks, deps, d), NEW b \in Bookings
    PROVE  DayOf(bks, lks, deps, d, {}).available \in Int /\ DayOf(bks, lks, deps, d, {b}).available \in Int
<1> DEFINE W == DayOf(bks, lks, deps, d, {b})
           D == DayOf(bks, lks, deps, d, {})
<1>1. W.available \in Int /\ D.available \in Int
  BY DayBeside
<1> QED
  BY <1>1

\* A booking command leaves no day short of seats it was not short of, unless somebody consents.
LEMMA MovedSells ==
    ASSUME PoolInv, AllTripsSized, NEW b \in Bookings, BookingMoved(b), Answered(b, booking'[b]), NEW d \in Days,
           ~Approved(b), ~Restored(b), ~(Exists(b)' /\ DisplacedAnyway(b, d)),
           ~(booking'[b] # booking[b] /\ StrayDraws(b)), ~DrawsTogether(b, d)
    PROVE  ~(AvailableAfter(d) < Least(0, Available(d)))
<1> DEFINE row == booking'[b]
           before == Available(d)
           after == AvailableAfter(d)
           W == DayOf(booking, lock, deployed, d, {b})
           V == DayOf(booking', lock, deployed, d, {b})
<1>1. /\ Standing(booking, lock, deployed, d) /\ Standing(booking', lock, deployed, d)
      /\ Beside(booking, booking', b) /\ lock' = lock /\ deployed' = deployed
      /\ row = booking[b] => booking' = booking
  BY MovedStands
<1>2. before = DayOf(booking, lock, deployed, d, {}).available
  BY DEF Available, Day
<1>3. after = DayOf(booking', lock, deployed, d, {}).available
  BY <1>1 DEF AvailableAfter
<1>4. W = Day(d, {b})
  BY DEF Day
<1>5. before \in Int /\ W.available \in Int
  BY <1>1, <1>2, DayInts
<1>6. after \in Int
  BY <1>1, <1>3, DayInts
<1>7. before <= after \/ Least(0, before) <= after => ~(after < Least(0, before))
  <2> HIDE DEF before, after
  <2> QED
    BY <1>5, <1>6 DEF Least
<1> SUFFICES before <= after \/ Least(0, before) <= after
  BY <1>7
<1>8. CASE row = booking[b]
  <2>1. after = before
    BY <1>1, <1>2, <1>3, <1>8
  <2> HIDE DEF before, after
  <2> QED
    BY <1>5, <2>1
<1>9. CASE row # booking[b]
  <2>1. ~StrayDraws(b)
    BY <1>9
  <2>2. ~ByApproval(b, row) /\ ~ByRestore(b, row)
    BY DEF Approved, Restored, ByApproval, ByRestore
  <2>3. Seemly(booking[b], lock) /\ Seemly(row, lock)
    BY <2>1, <2>2, MovedSeemly
  <2>4. CASE Yields(booking[b], row)
    BY <1>1, <1>2, <1>3, <2>3, <2>4, DayLessened
  <2>5. CASE ~Yields(booking[b], row)
    <3>1. HoldsSeats(row) /\ Weighty(b, row)
      BY <2>2, <2>5 DEF Answered, Yields
    <3>2. AtHome(row, lock) /\ \A e \in DOMAIN row.trips : Sized(row.trips[e])
      BY <2>3, <3>1 DEF Seemly
    <3>3. HoldsSeats(booking[b]) => AtHome(booking[b], lock) /\ \A e \in DOMAIN booking[b].trips : Sized(booking[b].trips[e])
      BY <2>3 DEF Seemly
    <3>4. before <= W.available
      BY <1>1, <1>2, <3>3, DayTaken
    <3>5. CASE d \notin DOMAIN row.trips
      <4>1. after = V.available
        BY <1>1, <1>3, <3>2, <3>5, DayTaken
      <4>2. V.available = W.available
        BY <1>1, SeenAlike
      <4> QED
        BY <3>4, <4>1, <4>2
    <3>6. CASE d \in DOMAIN row.trips
      <4>1. PICK anyway \in BOOLEAN :
               \/ WeighDay(W, row.trips[d], row.agent, anyway) = "fits"
               \/ WeighDay(W, row.trips[d], row.agent, anyway) = "displaced" /\ row.trips[d].displaced
        BY <1>4, <3>1, <3>6 DEF Weighty
      <4>2. CASE WeighDay(W, row.trips[d], row.agent, anyway) = "fits"
        <5>1. ApartOn(booking', lock, row.trips[d], d)
          BY <1>1, <1>9, <3>1, <3>6, ApartUnless
        <5>2. Least(0, W.available) <= after
          BY <1>1, <1>3, <3>1, <3>2, <3>6, <4>2, <5>1, DayWeighed
        <5> DEFINE av == W.available
        <5>3. av \in Int /\ before <= av /\ Least(0, av) <= after
          BY <1>5, <3>4, <5>2
        <5> HIDE DEF before, after, av
        <5> QED
          BY <1>5, <1>6, <5>3 DEF Least
      <4>3. CASE WeighDay(W, row.trips[d], row.agent, anyway) = "displaced" /\ row.trips[d].displaced
        <5>1. row.trips[d].mode = "charter" /\ row.trips[d].boat # NoBoat /\ row.trips[d].boat \in W.open
          BY <4>3, WeighAnswers
        <5>2. Exists(b)'
          BY <3>1 DEF HoldsSeats, Exists
        <5>3. HoldsSeats(booking[b]) /\ d \in DOMAIN booking[b].trips /\ booking[b].trips[d].boat = row.trips[d].boat
          BY <3>6, <4>3, <5>2 DEF DisplacedAnyway
        <5>4. booking[b].trips[d].mode = "charter"
          BY <3>3, <5>1, <5>3 DEF Sized
        <5>5. after = before
          BY <1>1, <1>2, <1>3, <3>1, <3>2, <3>3, <3>6, <5>1, <5>3, <5>4, DayRetaken
        <5> HIDE DEF before, after
        <5> QED
          BY <1>5, <5>5
      <4> QED
        BY <4>1, <4>2, <4>3
    <3> QED
      BY <3>5, <3>6
  <2> QED
    BY <2>4, <2>5
<1> QED
  BY <1>8, <1>9

LEMMA GivesBackYields ==
    ASSUME PoolInv, AllTripsSized, NEW b \in Bookings, GivesBack(b)
    PROVE  /\ BookingMoved(b) /\ Answered(b, booking'[b]) /\ Yields(booking[b], booking'[b])
           /\ booking[b] \in BookingRows /\ booking'[b] \in BookingRows
<1>1. Answered(b, booking'[b]) /\ Yields(booking[b], booking'[b])
  BY CancelAnswered, RejectAnswered, PartialCancelAnswered DEF GivesBack
<1>2. BookingStep(b)
  <2>1. CASE CancelBooking(b) \/ Reject(b)
    BY <2>1 DEF BookingStep
  <2>2. CASE \E n \in 1..MaxLockPax : PartialCancelCount(b, n) \/ \E d \in Days : PartialCancelRecord(b, d, n)
    BY <2>2 DEF BookingStep
  <2> QED
    BY <2>1, <2>2 DEF GivesBack
<1>3. BookingMoved(b)
  BY <1>2, BookingMoves
<1>4. Exists(b)
  BY DEF GivesBack, CancelBooking, Reject, PartialCancelCount, PartialCancelRecord, IsOpen, WaitsForSeats, Exists
<1>5. booking[b] \in BookingRows
  BY <1>4, RowFacts
<1> QED
  BY <1>1, <1>3, <1>5 DEF BookingMoved, Admissible

\* A booking that gives seats back frees seats of every day, and of every lock.
LEMMA GivingFrees ==
    ASSUME PoolInv, AllTripsSized, NEW b \in Bookings, GivesBack(b), ~StrayDraws(b), NEW d \in Days
    PROVE  /\ AvailableAfter(d) >= Available(d)
           /\ \A l \in DOMAIN Day(d, {}).remaining :
                DayOf(booking', lock', deployed', d, {}).remaining[l] >= Day(d, {}).remaining[l]
<1> DEFINE rows == PoolLocks(lock, d)
           more == DrawnByLock(booking, {})
           less == DrawnByLock(booking', {})
           fall == FallOf(booking[b], booking'[b])
           top(l) == TopOf(rows, l)
<1>1. /\ BookingMoved(b) /\ Answered(b, booking'[b]) /\ Yields(booking[b], booking'[b])
      /\ booking[b] \in BookingRows /\ booking'[b] \in BookingRows
  BY GivesBackYields
<1>2. /\ Standing(booking, lock, deployed, d) /\ Standing(booking', lock, deployed, d)
      /\ Beside(booking, booking', b) /\ lock' = lock /\ deployed' = deployed
  BY <1>1, MovedStands
<1>3. Seemly(booking[b], lock)
  BY <1>1, MovedSeemly
<1>4. Seemly(booking'[b], lock)
  <2> SUFFICES ASSUME HoldsSeats(booking'[b]) PROVE Seemly(booking'[b], lock)
    BY DEF Seemly
  <2>1. /\ AtHome(booking[b], lock) /\ Lessens(booking[b].trips, booking'[b].trips)
        /\ booking[b].trips \in TripPlans /\ booking'[b].trips \in TripPlans
    BY <1>1, <1>3 DEF Yields, Seemly, BookingRows
  <2>2. AtHome(booking'[b], lock)
    <3> SUFFICES ASSUME NEW e \in DOMAIN booking'[b].trips, NEW l \in LockIds, booking'[b].trips[e].draws[l] > 0
                 PROVE  lock[l].day = e
      BY DEF AtHome
    <3>1. e \in DOMAIN booking[b].trips /\ booking'[b].trips[e].draws[l] <= booking[b].trips[e].draws[l]
      BY <2>1 DEF Lessens
    <3>2. booking[b].trips[e].draws[l] \in Nat /\ booking'[b].trips[e].draws[l] \in Nat
      BY <2>1, <3>1, PlanNumbers
    <3> QED
      BY <2>1, <3>1, <3>2 DEF AtHome
  <2> QED
    BY <1>1, <2>2 DEF Seemly, Answered, AllSized
<1>5. AvailableAfter(d) >= Available(d)
  <2> DEFINE before == DayOf(booking, lock, deployed, d, {}).available
             after == DayOf(booking', lock, deployed, d, {}).available
  <2>1. before \in Int /\ after \in Int /\ before <= after
    BY <1>1, <1>2, <1>3, <1>4, DayLessened
  <2>2. Available(d) = before /\ AvailableAfter(d) = after
    BY <1>2 DEF Available, AvailableAfter, Day
  <2> HIDE DEF before, after
  <2> QED
    BY <2>1, <2>2
<1>6. ASSUME NEW l \in DOMAIN Day(d, {}).remaining
      PROVE  DayOf(booking', lock', deployed', d, {}).remaining[l] >= Day(d, {}).remaining[l]
  <2>1. IsBookings(booking) /\ IsBookings(booking') /\ IsLocks(lock) /\ Family(lock)
    BY <1>2 DEF Standing
  <2>2. Falls(more, less, fall)
    BY <1>1, <1>2, <2>1, YieldFalls DEF Beside
  <2>3. IsFamilies(rows) /\ IsLocks(rows)
    BY <2>1, DayRows DEF IsFamilies
  <2>4. DOMAIN Day(d, {}).remaining = DOMAIN rows
    BY DayIs DEF Day
  <2>5. l \in DOMAIN rows /\ top(l) \in DOMAIN rows /\ rows[top(l)].parent = NoLock /\ l \in FamilyOf(rows, top(l))
    BY <2>3, <2>4 DEF IsFamilies, Tops, TopOf, FamilyOf, KidsIn
  <2>6. Day(d, {}).remaining[l] = TreeOf(rows, more, top(l)).remaining[l]
    BY <2>3, <2>5, DayIs DEF Day, IsFamilies
  <2>7. DayOf(booking', lock', deployed', d, {}).remaining[l] = TreeOf(rows, less, top(l)).remaining[l]
    BY <1>2, <2>3, <2>5, DayIs DEF IsFamilies
  <2>8. TreeOf(rows, more, top(l)).remaining[l] <= TreeOf(rows, less, top(l)).remaining[l]
    BY <2>2, <2>3, <2>5, TreeFalls
  <2> QED
    BY <2>6, <2>7, <2>8
<1> QED
  BY <1>5, <1>6

LEMMA SizedStep ==
    ASSUME PoolInv, AllTripsSized, [Next]_vars PROVE AllTripsSized'
<1>1. ASSUME NEW b \in Bookings, BookingStep(b) PROVE AllTripsSized'
  <2>1. BookingMoved(b) /\ Answered(b, booking'[b])
    BY <1>1, BookingMoves, BookingAnswered
  <2>2. booking \in [Bookings -> BookingRows \cup {NoBooking}] /\ booking' = [booking EXCEPT ![b] = booking'[b]]
    BY <2>1 DEF PoolInv, IsBookings, BookingMoved
  <2>3. \A c \in Bookings \ {b} : booking'[c] = booking[c]
    BY <2>2
  <2> QED
    BY <2>1, <2>3 DEF AllTripsSized, Answered, Exists
<1>2. ASSUME UNCHANGED booking PROVE AllTripsSized'
  BY <1>2 DEF AllTripsSized, Exists
<1>3. ASSUME NEW l \in LockIds, LockStep(l) PROVE AllTripsSized'
  BY <1>2, <1>3, LockMoves DEF LockMoved
<1>4. ASSUME NEW d \in Days, DeploymentStep(d) PROVE AllTripsSized'
  BY <1>2, <1>4, DeploymentKeepsSound
<1>5. CASE UNCHANGED vars
  BY <1>2, <1>5 DEF vars
<1> QED
  BY <1>1, <1>3, <1>4, <1>5 DEF Next

(* Every trip of the table draws no more seats than it has passengers, and *)
(* only a charter names a boat, whichever way it was cut down or restored. *)
THEOREM TripsStaySized == Spec => []AllTripsSized
<1>1. Init => AllTripsSized
  BY DEF Init, AllTripsSized, Exists, NoBooking
<1>2. PoolInv /\ AllTripsSized /\ [Next]_vars => AllTripsSized'
  BY SizedStep
<1> QED
  BY <1>1, <1>2, PoolHolds, PTL DEF Spec

(* Cancelling, rejecting and partly cancelling never take a seat off a day *)
(* or off a lock, whatever the booking, the day and the locks it draws on. *)
THEOREM GivingBackFrees == Spec => GivingBackFreesSeats
<1>1. PoolInv /\ AllTripsSized /\ [Next]_vars =>
         ((\E b \in Bookings : GivesBack(b) /\ ~StrayDraws(b)) =>
             \A d \in Days :
                /\ AvailableAfter(d) >= Available(d)
                /\ \A l \in DOMAIN Day(d, {}).remaining :
                      DayOf(booking', lock', deployed', d, {}).remaining[l] >= Day(d, {}).remaining[l])
  BY GivingFrees
<1> QED
  BY <1>1, PoolHolds, TripsStaySized, PTL DEF Spec, GivingBackFreesSeats

-----------------------------------------------------------------------------
(* What the locks of a day hold, lock by lock                              *)

\* Seats a lock holds of a day, its sub-groups' among them: none if it is another day's, or no longer holds.
HeldOn(lks, drawn, d, t) ==
    IF t \in DOMAIN lks /\ lks[t].parent = NoLock /\ lks[t].day = d /\ IsHolding(lks, t)
    THEN HeldOf(Asked(lks, t), lks[t].pending, drawn[t] + SumOver(drawn, KidsIn(lks, t))) ELSE 0

HeldTable(lks, drawn, d) == [t \in LockIds |-> HeldOn(lks, drawn, d, t)]

LEMMA PendGrows ==
    ASSUME NEW p \in Int, NEW r \in Int, p <= r, NEW q \in Nat, NEW u \in Nat
    PROVE  PendOf(p, q, u) \in Nat /\ PendOf(p, q, u) <= PendOf(r, q, u)
  BY DEF PendOf, Clip, Least

\* Seats asked beyond the free ones wait, so a lock holds no more than were free to it.
LEMMA HeldGrown ==
    ASSUME NEW p \in Int, NEW q \in Nat, NEW u \in Nat, NEW av \in Int, NEW own \in Nat, NEW pend \in Nat,
           pend <= PendOf(p, q, u), NEW short, short = Clip(Clip(p - u) - Clip(av + own)),
           NEW kept, kept = IF short > pend THEN short ELSE q
    PROVE  HeldOf(p, kept, u) <= own + Clip(av)
<1> DEFINE w == PendOf(p, kept, u)
<1>1. short \in Nat /\ Clip(p - u) <= short + Clip(av + own) /\ Clip(av + own) <= own + Clip(av)
  BY DEF Clip
<1>2. w >= short \/ w >= p - u
  <2>1. CASE short > pend
    BY <1>1, <2>1 DEF PendOf, Clip, Least
  <2>2. CASE ~(short > pend)
    BY <1>1, <2>2 DEF PendOf, Clip, Least
  <2> QED
    BY <2>1, <2>2
<1>3. w \in Nat
  BY <1>1 DEF PendOf, Clip, Least
<1> HIDE DEF w
<1>4. HeldOf(p, kept, u) = Clip(p - u - w)
  BY DEF HeldOf, w
<1>5. CASE w >= short
  BY <1>1, <1>3, <1>4, <1>5 DEF Clip
<1>6. CASE w >= p - u
  BY <1>1, <1>3, <1>4, <1>6 DEF Clip
<1> QED
  BY <1>2, <1>5, <1>6

\* Seats released come off the waiting ones first, so no more are held.
LEMMA HeldShrunk ==
    ASSUME NEW p \in Int, NEW q \in Nat, NEW u \in Nat, NEW n \in Nat
    PROVE  HeldOf(p - n, Clip(q - n), u) <= HeldOf(p, q, u)
  BY DEF HeldOf, PendOf, Clip, Least

\* Waiting seats confirmed are as many seats more held.
LEMMA HeldConfirmed ==
    ASSUME NEW p \in Int, NEW q \in Nat, NEW u \in Nat, NEW n \in Nat, n <= PendOf(p, q, u)
    PROVE  HeldOf(p, PendOf(p, q, u) - n, u) <= HeldOf(p, q, u) + n
  BY DEF HeldOf, PendOf, Clip, Least

\* One table of seats above another by some at one entry only.
LEMMA TotalOneMore ==
    ASSUME NEW f \in [LockIds -> Nat], NEW g \in [LockIds -> Nat], NEW t \in LockIds, NEW n \in Nat,
           g[t] <= f[t] + n, \A x \in LockIds \ {t} : g[x] <= f[x]
    PROVE  Total(f) \in Nat /\ Total(g) \in Nat /\ Total(g) <= Total(f) + n
<1> DEFINE more == [x \in LockIds |-> IF x = t THEN n ELSE 0]
           sum == [x \in LockIds |-> f[x] + more[x]]
           one == [x \in {t} |-> n]
<1>1. IsFiniteSet(LockIds)
  BY LockAssumption
<1>2. more \in [LockIds -> Nat] /\ sum \in [LockIds -> Nat]
  OBVIOUS
<1>3. \A x \in LockIds : g[x] <= sum[x]
  OBVIOUS
<1>4. Total(more) = Total(one)
  <2> HIDE DEF more, one
  <2>1. DOMAIN one \subseteq DOMAIN more /\ (\A x \in DOMAIN one : one[x] = more[x]) /\ \A x \in DOMAIN more \ DOMAIN one : more[x] = 0
    BY DEF more, one
  <2> QED
    BY <2>1, TotalSupport
<1>5. Total(one) = n
  <2>1. DOMAIN one = {t} /\ one[t] \in Nat /\ one[t] = n
    OBVIOUS
  <2> HIDE DEF one
  <2> QED
    BY <2>1, TotalOne
<1>6. \A x \in LockIds : sum[x] = f[x] + more[x]
  OBVIOUS
<1> HIDE DEF more, sum, one
<1>7. Total(sum) = Total(f) + Total(more)
  BY <1>1, <1>2, <1>6, TotalAdd
<1>8. Total(g) <= Total(sum)
  BY <1>1, <1>2, <1>3, TotalMono
<1>9. Total(f) \in Nat /\ Total(g) \in Nat
  BY <1>1, TableTotal DEF IsTable
<1> QED
  BY <1>4, <1>5, <1>7, <1>8, <1>9

LEMMA HeldOnFacts ==
    ASSUME NEW lks, IsLocks(lks), NEW drawn \in [LockIds -> Nat], NEW d
    PROVE  HeldTable(lks, drawn, d) \in [LockIds -> Nat] /\ \A t \in LockIds : HeldOn(lks, drawn, d, t) \in Nat
<1> SUFFICES ASSUME NEW t \in LockIds PROVE HeldOn(lks, drawn, d, t) \in Nat
  BY DEF HeldTable
<1>1. CASE t \in DOMAIN lks
  <2> DEFINE p == Asked(lks, t)
             q == lks[t].pending
             u == drawn[t] + SumOver(drawn, KidsIn(lks, t))
  <2>1. p \in Int /\ q \in Nat
    BY <1>1 DEF IsLocks, LockRows, Asked
  <2>2. u \in Int
    <3>1. KidsIn(lks, t) \in SUBSET LockIds
      BY DEF KidsIn, IsLocks
    <3> QED
      BY <3>1, LockSum
  <2>3. HeldOf(p, q, u) \in Nat
    <3> HIDE DEF p, q, u
    <3> QED
      BY <2>1, <2>2 DEF HeldOf, PendOf, Clip, Least
  <2> HIDE DEF p, q, u
  <2>4. HeldOn(lks, drawn, d, t) \in {0, HeldOf(p, q, u)}
    BY DEF HeldOn, p, q, u
  <2> QED
    BY <2>3, <2>4
<1>2. CASE t \notin DOMAIN lks
  BY <1>2 DEF HeldOn
<1> QED
  BY <1>1, <1>2

\* The seats locked on a day are what its locks hold of it.
LEMMA LockedIs ==
    ASSUME NEW lks, IsLocks(lks), Family(lks), NEW drawn \in [LockIds -> Nat], NEW d
    PROVE  Locked(PoolLocks(lks, d), drawn) = Total(HeldTable(lks, drawn, d))
<1> DEFINE rows == PoolLocks(lks, d)
           f == HeldTable(lks, drawn, d)
           g == SeatsHeld(rows, drawn)
<1>1. /\ IsFamilies(rows) /\ IsLocks(rows)
      /\ \A l \in DOMAIN rows : l \in DOMAIN lks /\ rows[l] = lks[l] /\ lks[l].day = d
      /\ \A t \in Tops(rows) : KidsIn(rows, t) = KidsIn(lks, t)
  BY DayRows DEF IsFamilies
<1>2. DOMAIN f = LockIds /\ DOMAIN g = Tops(rows) /\ Tops(rows) \subseteq LockIds
  BY <1>1 DEF HeldTable, SeatsHeld, Tops, IsLocks
<1>3. ASSUME NEW t \in LockIds
      PROVE  t \in Tops(rows) <=> t \in DOMAIN lks /\ lks[t].parent = NoLock /\ lks[t].day = d /\ IsHolding(lks, t)
  BY <1>1 DEF Tops, PoolLocks, TopOf
<1>4. ASSUME NEW t \in Tops(rows) PROVE g[t] = f[t]
  <2>1. t \in DOMAIN rows /\ rows[t].parent = NoLock /\ t \in LockIds
    BY <1>2 DEF Tops
  <2>2. TreeOf(rows, drawn, t).held = HeldOf(Asked(rows, t), rows[t].pending, TreeOf(rows, drawn, t).used)
    BY <1>1, <2>1, TreeIs
  <2>3. TreeOf(rows, drawn, t).used = drawn[t] + SumOver(drawn, KidsIn(rows, t))
    BY <1>1, <2>1, TreeIs
  <2>4. KidsIn(rows, t) = KidsIn(lks, t) /\ rows[t] = lks[t]
    BY <1>1, <2>1
  <2>5. HeldOn(lks, drawn, d, t) = HeldOf(Asked(rows, t), rows[t].pending, drawn[t] + SumOver(drawn, KidsIn(rows, t)))
    BY <1>3, <2>1, <2>4 DEF HeldOn, Asked
  <2> QED
    BY <2>1, <2>2, <2>3, <2>5 DEF HeldTable, SeatsHeld
<1>5. ASSUME NEW t \in LockIds \ Tops(rows) PROVE f[t] = 0
  BY <1>3, <1>5 DEF HeldTable, HeldOn
<1> HIDE DEF f, g
<1>6. Total(f) = Total(g)
  BY <1>2, <1>4, <1>5, TotalSupport
<1> QED
  BY <1>6 DEF Locked, f, g

-----------------------------------------------------------------------------
(* What a lock command leaves of a day                                     *)

HoldsBefore(d, t) == HeldOn(lock, DrawnByLock(booking, {}), d, t)
HoldsAfter(d, t) == HeldOn(lock', DrawnByLock(booking, {}), d, t)

\* One lock comes to hold at most the day's free seats more than it did, and no other any more.
LockFits(d) ==
    Pooled(deployed, d) => \E t \in LockIds :
        /\ HoldsAfter(d, t) <= HoldsBefore(d, t) + Clip(Available(d))
        /\ \A x \in LockIds \ {t} : HoldsAfter(d, x) <= HoldsBefore(d, x)

LEMMA LockSells ==
    ASSUME PoolInv, LockMoved, NEW d \in Days, LockFits(d)
    PROVE  ~(AvailableAfter(d) < Least(0, Available(d)))
<1> DEFINE drawn == DrawnByLock(booking, {})
           net == Net(deployed[d], TripsOn(booking, d, {}))
           f == HeldTable(lock, drawn, d)
           g == HeldTable(lock', drawn, d)
           lf == Total(f)
           lg == Total(g)
           before == Available(d)
           after == AvailableAfter(d)
<1>1. /\ IsBookings(booking) /\ IsLocks(lock) /\ Family(lock) /\ IsLocks(lock') /\ Family(lock')
      /\ booking' = booking /\ deployed' = deployed
  BY DEF PoolInv, LockMoved
<1>2. drawn \in [LockIds -> Nat]
  BY <1>1, DrawnIsFunction
<1>3. net \in Int
  <2>1. IsFleet(deployed[d])
    BY PoolAssumption DEF PoolInv, IsDeployed, IsFleet
  <2>2. IsTrips(TripsOn(booking, d, {}))
    <3>1. CASE Bookings = {}
      <4>1. TripsOn(booking, d, {}) = [b \in {} |-> booking[b].trips[d]]
        BY <3>1 DEF TripsOn, Counted
      <4> QED
        BY <4>1, FS_EmptySet DEF IsTrips
    <3>2. CASE Bookings # {}
      BY <1>1, <3>2, TripsBeside
    <3> QED
      BY <3>1, <3>2
  <2> QED
    BY <2>1, <2>2, NetTables
<1>4. before = IF Pooled(deployed, d) THEN net - lf ELSE 0
  <2>1. Locked(PoolLocks(lock, d), drawn) = lf
    BY <1>1, <1>2, LockedIs
  <2> QED
    BY <2>1, DayIs DEF Available, Day
<1>5. after = IF Pooled(deployed, d) THEN net - lg ELSE 0
  <2>1. Locked(PoolLocks(lock', d), drawn) = lg
    BY <1>1, <1>2, LockedIs
  <2>2. after = DayOf(booking, lock', deployed, d, {}).available
    BY <1>1 DEF AvailableAfter
  <2> QED
    BY <2>1, <2>2, DayIs
<1>6. CASE ~Pooled(deployed, d)
  BY <1>4, <1>5, <1>6 DEF Least
<1>7. CASE Pooled(deployed, d)
  <2> DEFINE n == Clip(before)
  <2>1. f \in [LockIds -> Nat] /\ g \in [LockIds -> Nat]
    BY <1>1, <1>2, HeldOnFacts
  <2>2. lf \in Nat /\ lg \in Nat
    BY <2>1, LockAssumption, TableTotal DEF IsTable
  <2>3. before \in Int /\ n \in Nat /\ before = net - lf /\ after = net - lg
    BY <1>3, <1>4, <1>5, <1>7, <2>2 DEF Clip
  <2>4. PICK t \in LockIds : /\ HoldsAfter(d, t) <= HoldsBefore(d, t) + n
                             /\ \A x \in LockIds \ {t} : HoldsAfter(d, x) <= HoldsBefore(d, x)
    BY <1>7 DEF LockFits
  <2>5. \A x \in LockIds : f[x] = HoldsBefore(d, x) /\ g[x] = HoldsAfter(d, x)
    BY DEF HeldTable, HoldsBefore, HoldsAfter
  <2> HIDE DEF n, before, after, f, g, net
  <2>6. g[t] <= f[t] + n /\ \A x \in LockIds \ {t} : g[x] <= f[x]
    BY <2>4, <2>5
  <2>7. lg <= lf + n
    BY <2>1, <2>3, <2>6, TotalOneMore
  <2> HIDE DEF lf, lg
  <2> QED
    BY <1>3, <2>2, <2>3, <2>7 DEF Least, Clip, n, before, after
<1> QED
  BY <1>6, <1>7

\* A lock not written, or a sub-group, holds no more of any day: its tree draws no less.
LEMMA OthersHold ==
    ASSUME PoolInv, LockMoved, NEW d \in Days, NEW x \in LockIds,
           x \in DOMAIN lock' => lock'[x].parent # NoLock \/ (x \in DOMAIN lock /\ lock'[x] = lock[x])
    PROVE  HoldsAfter(d, x) <= HoldsBefore(d, x)
<1> DEFINE drawn == DrawnByLock(booking, {})
<1>1. IsLocks(lock) /\ IsLocks(lock') /\ drawn \in [LockIds -> Nat]
  BY DrawnIsFunction DEF PoolInv, LockMoved
<1>2. HoldsBefore(d, x) \in Nat /\ HoldsAfter(d, x) \in Nat
  BY <1>1, HeldOnFacts DEF HoldsBefore, HoldsAfter
<1>3. CASE ~(x \in DOMAIN lock' /\ lock'[x].parent = NoLock /\ lock'[x].day = d /\ IsHolding(lock', x))
  BY <1>2, <1>3 DEF HoldsAfter, HeldOn
<1>4. CASE x \in DOMAIN lock' /\ lock'[x].parent = NoLock /\ lock'[x].day = d /\ IsHolding(lock', x)
  <2> DEFINE p == Asked(lock, x)
             q == lock[x].pending
             u == drawn[x] + SumOver(drawn, KidsIn(lock, x))
             v == drawn[x] + SumOver(drawn, KidsIn(lock', x))
  <2>1. x \in DOMAIN lock /\ lock'[x] = lock[x]
    BY <1>4
  <2>2. HoldsBefore(d, x) = HeldOf(p, q, u) /\ HoldsAfter(d, x) = HeldOf(p, q, v)
    BY <1>4, <2>1 DEF HoldsBefore, HoldsAfter, HeldOn, IsHolding, Asked
  <2>3. p \in Nat /\ q \in Nat
    BY <1>1, <2>1 DEF IsLocks, LockRows, Asked
  <2>4. KidsIn(lock, x) \subseteq KidsIn(lock', x)
    BY DEF KidsIn, LockMoved
  <2>5. KidsIn(lock', x) \in SUBSET LockIds
    BY <1>1 DEF KidsIn, IsLocks
  <2>6. SumOver(drawn, KidsIn(lock, x)) <= SumOver(drawn, KidsIn(lock', x))
    BY <1>1, <2>4, <2>5, LockSumPart
  <2>7. SumOver(drawn, KidsIn(lock, x)) \in Nat /\ SumOver(drawn, KidsIn(lock', x)) \in Nat
    BY <1>1, <2>4, <2>5, LockSum
  <2>8. u \in Nat /\ v \in Nat /\ u <= v
    BY <1>1, <2>6, <2>7
  <2> HIDE DEF p, q, u, v
  <2>9. HeldOf(p, q, v) <= HeldOf(p, q, u)
    BY <2>3, <2>8, HeldFalls
  <2> QED
    BY <2>2, <2>9
<1> QED
  BY <1>3, <1>4

\* A command that writes only sub-groups leaves every day as it was.
LEMMA SubGroupsFit ==
    ASSUME PoolInv, LockMoved, NEW d \in Days, NEW l \in LockIds,
           \A x \in DOMAIN lock' : lock'[x].parent # NoLock \/ (x \in DOMAIN lock /\ lock'[x] = lock[x])
    PROVE  LockFits(d)
<1> DEFINE n == Clip(Available(d))
<1>1. \A x \in LockIds : HoldsAfter(d, x) <= HoldsBefore(d, x)
  BY OthersHold
<1>2. HoldsAfter(d, l) \in Nat /\ HoldsBefore(d, l) \in Nat
  BY HeldOnFacts, DrawnIsFunction DEF HoldsBefore, HoldsAfter, PoolInv, LockMoved
<1>3. Available(d) \in Int
  BY DayNumbers DEF SoundDay, Available
<1>4. n \in Nat
  BY <1>3 DEF Clip
<1> HIDE DEF n
<1>5. HoldsAfter(d, l) <= HoldsBefore(d, l) + n
  BY <1>1, <1>2, <1>4
<1> QED
  BY <1>1, <1>5 DEF LockFits, n

(* A top-level lock written alone, or with its sub-groups, comes to hold at *)
(* most the day's free seats more than it did.                             *)
LEMMA TopFits ==
    ASSUME PoolInv, LockMoved, NEW d \in Days, NEW l \in LockIds, l \in DOMAIN lock', lock'[l].parent = NoLock,
           \A x \in DOMAIN lock' \ {l} : lock'[x].parent # NoLock \/ (x \in DOMAIN lock /\ lock'[x] = lock[x]),
           NEW u \in Nat, u = DrawnByLock(booking, {})[l] + SumOver(DrawnByLock(booking, {}), KidsIn(lock', l)),
           Pooled(deployed, d) /\ lock'[l].day = d /\ IsHolding(lock', l) =>
              HeldOf(Asked(lock', l), lock'[l].pending, u) <= HoldsBefore(d, l) + Clip(Available(d))
    PROVE  LockFits(d)
<1> SUFFICES ASSUME Pooled(deployed, d)
             PROVE  HoldsAfter(d, l) <= HoldsBefore(d, l) + Clip(Available(d))
  BY OthersHold DEF LockFits
<1>1. CASE lock'[l].day = d /\ IsHolding(lock', l)
  BY <1>1 DEF HoldsAfter, HeldOn
<1>2. CASE ~(lock'[l].day = d /\ IsHolding(lock', l))
  <2> DEFINE n == Clip(Available(d))
  <2>1. HoldsAfter(d, l) = 0
    BY <1>2 DEF HoldsAfter, HeldOn
  <2>2. HoldsBefore(d, l) \in Nat
    BY HeldOnFacts, DrawnIsFunction DEF HoldsBefore, PoolInv
  <2>3. Available(d) \in Int
    BY DayNumbers DEF SoundDay, Available
  <2>4. n \in Nat
    BY <2>3 DEF Clip
  <2> HIDE DEF n
  <2>5. HoldsAfter(d, l) <= HoldsBefore(d, l) + n
    BY <2>1, <2>2, <2>4
  <2> QED
    BY <2>5 DEF n
<1> QED
  BY <1>1, <1>2

-----------------------------------------------------------------------------
(* The lock commands, one by one                                           *)

LEMMA ShortIs ==
    ASSUME PoolInv, NEW d \in Days, Pooled(deployed, d), NEW own, NEW want
    PROVE  /\ ShortBy(Day(d, {}), own, want) = Clip(Clip(want) - Clip(Available(d) + own))
           /\ ~SellsUngated(Day(d, {})) /\ FreeForLock(Day(d, {}), own) = Clip(Available(d) + own)
           /\ Available(d) \in Int
<1>1. Day(d, {}).pooled = Pooled(deployed, d)
  BY DayIs DEF Day
<1>2. Available(d) \in Int
  BY DayNumbers DEF SoundDay, Available
<1> QED
  BY <1>1, <1>2 DEF ShortBy, SellsUngated, FreeForLock, Available

\* What a top-level lock holds, in the numbers of its tree.
LEMMA TopNow ==
    ASSUME PoolInv, NEW l \in DOMAIN lock, lock[l].parent = NoLock
    PROVE  /\ l \in LockIds /\ Asked(lock, l) \in Nat /\ lock[l].pending \in Nat /\ Tree(l).used \in Nat
           /\ Tree(l).used = DrawnByLock(booking, {})[l] + SumOver(DrawnByLock(booking, {}), KidsIn(lock, l))
           /\ Tree(l).pend = PendOf(Asked(lock, l), lock[l].pending, Tree(l).used)
           /\ Tree(l).held = HeldOf(Asked(lock, l), lock[l].pending, Tree(l).used)
           /\ Tree(l).pend \in Nat /\ Tree(l).held \in Nat
           /\ \A d : HoldsBefore(d, l) = IF lock[l].day = d /\ IsHolding(lock, l) THEN Tree(l).held ELSE 0
<1>1. IsLocks(lock) /\ DrawnByLock(booking, {}) \in [LockIds -> Nat]
  BY DrawnIsFunction DEF PoolInv
<1>2. /\ l \in LockIds /\ Asked(lock, l) \in Nat /\ lock[l].pending \in Nat /\ Tree(l).used \in Nat
      /\ Tree(l).pend \in Nat /\ Tree(l).held \in Nat
  BY LockFacts DEF Asked
<1>3. Tree(l).used = DrawnByLock(booking, {})[l] + SumOver(DrawnByLock(booking, {}), KidsIn(lock, l))
  BY <1>1, TreeIs DEF Tree
<1>4. Tree(l).pend = PendOf(Asked(lock, l), lock[l].pending, Tree(l).used)
  BY <1>1, TreeIs DEF Tree
<1>5. Tree(l).held = HeldOf(Asked(lock, l), lock[l].pending, Tree(l).used)
  BY <1>1, TreeIs DEF Tree
<1>6. ASSUME NEW d PROVE HoldsBefore(d, l) = IF lock[l].day = d /\ IsHolding(lock, l) THEN Tree(l).held ELSE 0
  BY <1>3, <1>5 DEF HoldsBefore, HeldOn
<1> QED
  BY <1>2, <1>3, <1>4, <1>5, <1>6

\* A top-level lock's row written anew.
LEMMA OwnRowFits ==
    ASSUME PoolInv, LockMoved, NEW d \in Days, NEW l \in DOMAIN lock, lock[l].parent = NoLock,
           NEW row, row.parent = NoLock, WriteLock(l, row),
           Pooled(deployed, d) /\ row.day = d /\ row.status = "active" /\ ~row.lapsed =>
              HeldOf(row.pax - row.released, row.pending, Tree(l).used) <= HoldsBefore(d, l) + Clip(Available(d))
    PROVE  LockFits(d)
<1>1. /\ lock' = [j \in DOMAIN lock \cup {l} |-> IF j = l THEN row ELSE lock[j]] /\ DOMAIN lock' = DOMAIN lock
      /\ lock'[l] = row /\ \A x \in DOMAIN lock' \ {l} : x \in DOMAIN lock /\ lock'[x] = lock[x]
  BY DEF WriteLock
<1>2. KidsIn(lock', l) = KidsIn(lock, l)
  BY <1>1 DEF KidsIn
<1>3. l \in LockIds /\ Tree(l).used \in Nat
      /\ Tree(l).used = DrawnByLock(booking, {})[l] + SumOver(DrawnByLock(booking, {}), KidsIn(lock', l))
  BY <1>2, TopNow
<1>4. Pooled(deployed, d) /\ lock'[l].day = d /\ IsHolding(lock', l) =>
         HeldOf(Asked(lock', l), lock'[l].pending, Tree(l).used) <= HoldsBefore(d, l) + Clip(Available(d))
  BY <1>1 DEF IsHolding, Asked
<1> QED
  BY <1>1, <1>3, <1>4, TopFits

\* More seats asked of a lock: those not free wait, beyond the ones that wait already.
LEMMA GrownFits ==
    ASSUME PoolInv, NEW l \in DOMAIN lock, lock[l].parent = NoLock, NEW d \in Days, lock[l].day = d, Pooled(deployed, d),
           NEW p \in Int, Asked(lock, l) <= p, NEW pend \in {0, Tree(l).pend},
           NEW short, short = ShortBy(Day(d, {}), IF IsHolding(lock, l) THEN Tree(l).held ELSE 0, p - Tree(l).used),
           NEW kept, kept = IF short > pend THEN short ELSE lock[l].pending
    PROVE  HeldOf(p, kept, Tree(l).used) <= HoldsBefore(d, l) + Clip(Available(d))
<1> DEFINE own == IF IsHolding(lock, l) THEN Tree(l).held ELSE 0
           a == Asked(lock, l)
           q == lock[l].pending
           u == Tree(l).used
           w == Tree(l).pend
           av == Available(d)
<1>1. a \in Nat /\ q \in Nat /\ u \in Nat /\ w \in Nat /\ own \in Nat /\ w = PendOf(a, q, u) /\ HoldsBefore(d, l) = own
  BY TopNow
<1>2. short = Clip(Clip(p - u) - Clip(av + own)) /\ av \in Int
  BY ShortIs
<1>3. a <= p /\ pend \in {0, w} /\ kept = IF short > pend THEN short ELSE q
  OBVIOUS
<1> HIDE DEF own, a, q, u, w, av
<1>4. PendOf(a, q, u) <= PendOf(p, q, u) /\ PendOf(p, q, u) \in Nat
  BY <1>1, <1>3, PendGrows
<1>5. pend \in Nat /\ pend <= PendOf(p, q, u)
  BY <1>1, <1>3, <1>4
<1>6. HeldOf(p, kept, u) <= own + Clip(av)
  BY <1>1, <1>2, <1>3, <1>5, HeldGrown
<1> QED
  BY <1>1, <1>6 DEF u, av

LEMMA AddSeatsFits ==
    ASSUME PoolInv, NEW l \in LockIds, NEW n \in 1..MaxLockPax, AddSeats(l, n), NEW d \in Days
    PROVE  LockFits(d)
<1> DEFINE tree == Tree(l)
           more == lock[l].pax + n
           own == IF IsHolding(lock, l) THEN tree.held ELSE 0
           pend == IF IsHolding(lock, l) THEN tree.pend ELSE 0
           short == ShortBy(Day(lock[l].day, {}), own, more - lock[l].released - tree.used)
           kept == IF short > pend THEN short ELSE lock[l].pending
           row == [lock[l] EXCEPT !.pax = more, !.status = "active", !.pending = kept]
<1>1. l \in DOMAIN lock /\ lock[l].parent = NoLock /\ WriteLock(l, row)
  BY DEF AddSeats, IsTop
<1>2. LockMoved
  BY <1>1, AddSeatsMoves
<1>3. /\ row.pax = more /\ row.status = "active" /\ row.pending = kept /\ row.released = lock[l].released
      /\ row.day = lock[l].day /\ row.lapsed = lock[l].lapsed /\ row.parent = NoLock
  BY <1>1 DEF PoolInv, IsLocks, LockRows
<1>4. n \in Nat /\ lock[l].pax \in Nat /\ lock[l].released \in Nat
  BY <1>1, LockFacts, PoolAssumption
<1>5. more - lock[l].released \in Int /\ Asked(lock, l) <= more - lock[l].released
  BY <1>4 DEF Asked
<1>6. ASSUME Pooled(deployed, d), row.day = d
      PROVE  HeldOf(row.pax - row.released, row.pending, tree.used) <= HoldsBefore(d, l) + Clip(Available(d))
  <2>1. lock[l].day = d /\ row.pax - row.released = more - lock[l].released /\ row.pending = kept
    BY <1>3, <1>6
  <2>2. pend \in {0, tree.pend}
    OBVIOUS
  <2>3. HeldOf(more - lock[l].released, kept, tree.used) <= HoldsBefore(d, l) + Clip(Available(d))
    BY <1>1, <1>5, <1>6, <2>1, <2>2, GrownFits
  <2> QED
    BY <2>1, <2>3
<1> QED
  <2> HIDE DEF row
  <2> QED
    BY <1>1, <1>2, <1>3, <1>6, OwnRowFits

\* A row of a sub-group written, or written first.
LEMMA KidRowFits ==
    ASSUME PoolInv, LockMoved, NEW d \in Days, NEW l \in LockIds, NEW row, row.parent # NoLock, WriteLock(l, row)
    PROVE  LockFits(d)
<1>1. \A x \in DOMAIN lock' : lock'[x].parent # NoLock \/ (x \in DOMAIN lock /\ lock'[x] = lock[x])
  BY DEF WriteLock
<1> QED
  BY <1>1, SubGroupsFit

LEMMA SubGroupStepsFit ==
    ASSUME PoolInv, NEW l \in LockIds, NEW n \in 1..MaxLockPax, NEW d \in Days,
           AmendSubGroup(l, n) \/ (l \in DOMAIN lock /\ AddToSubGroup(l, n))
              \/ \E top \in DOMAIN lock : CreateSubGroup(l, top, n)
    PROVE  LockFits(d)
<1>1. CASE AmendSubGroup(l, n)
  <2> DEFINE row == [lock[l] EXCEPT !.pax = n]
  <2>1. l \in DOMAIN lock /\ lock[l].parent # NoLock /\ WriteLock(l, row)
    BY <1>1 DEF AmendSubGroup, IsTop
  <2>2. row.parent # NoLock
    BY <2>1 DEF PoolInv, IsLocks, LockRows
  <2> HIDE DEF row
  <2> QED
    BY <1>1, <2>1, <2>2, AmendSubGroupMoves, KidRowFits
<1>2. CASE l \in DOMAIN lock /\ AddToSubGroup(l, n)
  <2> DEFINE row == [lock[l] EXCEPT !.pax = @ + n, !.status = "active"]
  <2>1. l \in DOMAIN lock /\ lock[l].parent # NoLock /\ WriteLock(l, row)
    BY <1>2 DEF AddToSubGroup, IsTop
  <2>2. row.parent # NoLock
    BY <2>1 DEF PoolInv, IsLocks, LockRows
  <2> HIDE DEF row
  <2> QED
    BY <1>2, <2>1, <2>2, AddSeatsMoves, KidRowFits
<1>3. ASSUME NEW top \in DOMAIN lock, CreateSubGroup(l, top, n) PROVE LockFits(d)
  <2> DEFINE row == [day |-> lock[top].day, pax |-> n, released |-> 0, holder |-> lock[top].holder,
                     status |-> "active", pending |-> 0, lapsed |-> FALSE, parent |-> top]
  <2>1. WriteLock(l, row)
    BY <1>3 DEF CreateSubGroup
  <2>2. row.parent # NoLock
    BY LockAssumption DEF PoolInv, IsLocks
  <2> HIDE DEF row
  <2> QED
    BY <1>3, <2>1, <2>2, CreateSubGroupMoves, KidRowFits
<1> QED
  BY <1>1, <1>2, <1>3

\* A row of the table's locks written with fewer seats, the waiting ones gone first, or standing for nothing.
LEMMA LowerRowFits ==
    ASSUME PoolInv, LockMoved, NEW d \in Days, NEW l \in DOMAIN lock, lock[l].parent = NoLock,
           NEW row, WriteLock(l, row), row.parent = NoLock, row.day = lock[l].day,
           ~(row.status = "active" /\ ~row.lapsed)
              \/ /\ IsHolding(lock, l)
                 /\ \E n \in Nat : /\ row.pax - row.released = Asked(lock, l) - n
                                   /\ row.pending = Clip(lock[l].pending - n)
    PROVE  LockFits(d)
<1> SUFFICES ASSUME Pooled(deployed, d), row.day = d, row.status = "active", ~row.lapsed
             PROVE  HeldOf(row.pax - row.released, row.pending, Tree(l).used) <= HoldsBefore(d, l) + Clip(Available(d))
  BY OwnRowFits
<1> DEFINE a == Asked(lock, l)
           q == lock[l].pending
           u == Tree(l).used
           av == Available(d)
           h == Tree(l).held
<1>1. PICK n \in Nat : row.pax - row.released = a - n /\ row.pending = Clip(q - n)
  OBVIOUS
<1>2. IsHolding(lock, l) /\ lock[l].day = d
  OBVIOUS
<1>3. a \in Nat /\ q \in Nat /\ u \in Nat /\ h \in Nat /\ h = HeldOf(a, q, u) /\ HoldsBefore(d, l) = h
  BY <1>2, TopNow
<1>4. av \in Int
  BY ShortIs
<1>5. HeldOf(a - n, Clip(q - n), u) \in Nat
  <2> HIDE DEF a, q, u
  <2> QED
    BY <1>3 DEF HeldOf, PendOf, Clip, Least
<1> HIDE DEF a, q, u, av, h
<1>6. HeldOf(a - n, Clip(q - n), u) <= h
  <2>1. a \in Int /\ q \in Nat /\ u \in Nat /\ h = HeldOf(a, q, u)
    BY <1>3
  <2>2. HeldOf(a - n, Clip(q - n), u) <= HeldOf(a, q, u)
    BY <2>1, HeldShrunk
  <2> QED
    BY <2>1, <2>2
<1>7. HeldOf(a - n, Clip(q - n), u) <= h + Clip(av)
  BY <1>3, <1>4, <1>5, <1>6 DEF Clip
<1> QED
  BY <1>1, <1>3, <1>7 DEF u, av

LEMMA ReleaseSeatsFits ==
    ASSUME PoolInv, NEW l \in LockIds, NEW n \in 1..MaxLockPax, ReleaseSeats(l, n), NEW d \in Days
    PROVE  LockFits(d)
<1> DEFINE own == Drawn(l)
           pending == Clip(lock[l].pending - n)
           done == lock[l].pax - lock[l].released - n <= own /\ (IsTop(l) => pending = 0 /\ Kids(l) = {})
           row == [lock[l] EXCEPT !.released = @ + n, !.pending = pending, !.status = IF done THEN "released" ELSE @]
<1>1. l \in DOMAIN lock /\ lock[l].status = "active" /\ WriteLock(l, row)
  BY DEF ReleaseSeats
<1>2. LockMoved
  BY ReleaseSeatsMoves
<1>3. /\ row.released = lock[l].released + n /\ row.pending = pending /\ row.pax = lock[l].pax
      /\ row.day = lock[l].day /\ row.parent = lock[l].parent /\ row.lapsed = lock[l].lapsed
  BY <1>1 DEF PoolInv, IsLocks, LockRows
<1>4. n \in Nat /\ lock[l].pax \in Nat /\ lock[l].released \in Nat
  BY <1>1, LockFacts, PoolAssumption
<1>5. row.pax - row.released = Asked(lock, l) - n
  BY <1>3, <1>4 DEF Asked
<1> HIDE DEF row
<1>6. CASE lock[l].parent = NoLock
  <2>1. CASE row.lapsed
    BY <1>1, <1>2, <1>3, <1>6, <2>1, LowerRowFits
  <2>2. CASE ~row.lapsed
    <3>1. IsHolding(lock, l)
      BY <1>1, <1>3, <2>2 DEF IsHolding
    <3> QED
      BY <1>1, <1>2, <1>3, <1>4, <1>5, <1>6, <3>1, LowerRowFits
  <2> QED
    BY <2>1, <2>2
<1>7. CASE lock[l].parent # NoLock
  BY <1>1, <1>2, <1>3, <1>7, KidRowFits
<1> QED
  BY <1>6, <1>7

LEMMA ReleaseDepartureFits ==
    ASSUME PoolInv, NEW l \in LockIds, ReleaseDeparture(l), NEW d \in Days
    PROVE  LockFits(d)
<1>1. l \in DOMAIN lock /\ lock[l].parent = NoLock /\ WriteLock(l, ReleasedWhole(l))
  BY DEF ReleaseDeparture, IsTop
<1>2. LockMoved
  BY ReleaseDepartureMoves
<1>3. ReleasedWhole(l).status = "released"
  BY <1>1 DEF ReleasedWhole, PoolInv, IsLocks, LockRows
<1>4. ReleasedWhole(l).parent = NoLock /\ ReleasedWhole(l).day = lock[l].day
  BY <1>1, ReleasedWholeFacts
<1> QED
  BY <1>1, <1>2, <1>3, <1>4, LowerRowFits

LEMMA LapseFits ==
    ASSUME PoolInv, NEW l \in LockIds, Lapse(l), NEW d \in Days
    PROVE  LockFits(d)
<1> DEFINE row == [lock[l] EXCEPT !.lapsed = TRUE]
<1>1. l \in DOMAIN lock /\ lock[l].parent = NoLock /\ WriteLock(l, row)
  BY DEF Lapse, IsTop
<1>2. LockMoved
  BY LapseMoves
<1>3. row.lapsed /\ row.parent = NoLock /\ row.day = lock[l].day
  BY <1>1 DEF PoolInv, IsLocks, LockRows
<1> HIDE DEF row
<1> QED
  BY <1>1, <1>2, <1>3, LowerRowFits

LEMMA ConfirmPendingFits ==
    ASSUME PoolInv, NEW l \in LockIds, NEW n \in 1..MaxLockPax, ConfirmPending(l, n), NEW d \in Days
    PROVE  LockFits(d)
<1> DEFINE row == [lock[l] EXCEPT !.pending = Tree(l).pend - n]
           a == Asked(lock, l)
           q == lock[l].pending
           u == Tree(l).used
           w == Tree(l).pend
           h == Tree(l).held
           av == Available(d)
<1>1. l \in DOMAIN lock /\ lock[l].parent = NoLock /\ IsHolding(lock, l) /\ WriteLock(l, row)
  BY DEF ConfirmPending, IsTop
<1>2. LockMoved
  BY ConfirmPendingMoves
<1>3. /\ row.pending = w - n /\ row.pax = lock[l].pax /\ row.released = lock[l].released
      /\ row.day = lock[l].day /\ row.parent = NoLock
  BY <1>1 DEF PoolInv, IsLocks, LockRows
<1>4. ASSUME Pooled(deployed, d), row.day = d
      PROVE  HeldOf(row.pax - row.released, row.pending, Tree(l).used) <= HoldsBefore(d, l) + Clip(Available(d))
  <2>1. lock[l].day = d
    BY <1>3, <1>4
  <2>2. n \in 1..Least(w, Clip(av + 0)) /\ av \in Int
    BY <1>4, <2>1, ShortIs DEF ConfirmPending
  <2>3. /\ a \in Int /\ q \in Nat /\ u \in Nat /\ w \in Nat /\ w = PendOf(a, q, u)
        /\ h = HeldOf(a, q, u) /\ HoldsBefore(d, l) = h /\ h \in Nat
    BY <1>1, <2>1, TopNow
  <2>4. row.pax - row.released = a /\ row.pending = w - n
    BY <1>3 DEF Asked
  <2> HIDE DEF row, a, q, u, w, h, av
  <2>5. n \in Nat /\ n <= w /\ n <= Clip(av) /\ w - n \in Nat
    BY <2>2, <2>3 DEF Least, Clip
  <2>6. HeldOf(a, PendOf(a, q, u) - n, u) <= HeldOf(a, q, u) + n
    BY <2>3, <2>5, HeldConfirmed
  <2>7. HeldOf(a, w - n, u) \in Nat
    BY <2>3, <2>5 DEF HeldOf, PendOf, Clip, Least
  <2>8. HeldOf(a, w - n, u) <= h + n
    BY <2>3, <2>6
  <2>9. HeldOf(a, w - n, u) <= h + Clip(av)
    BY <2>2, <2>3, <2>5, <2>7, <2>8 DEF Clip
  <2> QED
    BY <2>3, <2>4, <2>9 DEF u, av
<1> HIDE DEF row
<1> QED
  BY <1>1, <1>2, <1>3, <1>4, OwnRowFits

\* A lock made, or moved to a day: what is not free of it there waits.
LEMMA NewFits ==
    ASSUME PoolInv, NEW d \in Days, Pooled(deployed, d), NEW p \in Nat, NEW u \in Nat,
           NEW short, short = ShortBy(Day(d, {}), 0, p), NEW q \in Nat, q = short \/ q = p \/ (short = 0 /\ q = 0)
    PROVE  HeldOf(p, q, u) <= Clip(Available(d))
<1> DEFINE av == Available(d)
<1>1. short = Clip(Clip(p) - Clip(av + 0)) /\ av \in Int
  BY ShortIs
<1> HIDE DEF av
<1>2. HeldOf(p, q, u) <= Clip(av)
  BY <1>1 DEF HeldOf, PendOf, Clip, Least
<1> QED
  BY <1>2 DEF av

LEMMA CreateLockFits ==
    ASSUME PoolInv, NEW l \in LockIds, NEW e \in Days, NEW pax \in 1..MaxLockPax, NEW h \in Holders,
           NEW lapsed \in BOOLEAN, NEW choice, CreateLock(l, e, pax, h, lapsed, choice), NEW d \in Days
    PROVE  LockFits(d)
<1> DEFINE short == ShortBy(Day(e, {}), 0, pax)
           q == IF short = 0 THEN 0 ELSE IF choice = "all" THEN pax ELSE short
           row == [day |-> e, pax |-> pax, released |-> 0, holder |-> h, status |-> "active",
                   pending |-> q, lapsed |-> lapsed, parent |-> NoLock]
           drawn == DrawnByLock(booking, {})
           u == drawn[l] + SumOver(drawn, KidsIn(lock', l))
<1>1. WriteLock(l, row) /\ l \notin DOMAIN lock
  BY DEF CreateLock, NextLockId
<1>2. LockMoved
  BY CreateLockMoves
<1>3. /\ lock' = [j \in DOMAIN lock \cup {l} |-> IF j = l THEN row ELSE lock[j]] /\ l \in DOMAIN lock' /\ lock'[l] = row
      /\ \A x \in DOMAIN lock' \ {l} : x \in DOMAIN lock /\ lock'[x] = lock[x]
  BY <1>1 DEF WriteLock
<1>4. pax \in Nat /\ short \in Nat /\ q \in Nat
  <2>1. pax \in Nat /\ 0 \in Nat
    BY PoolAssumption
  <2>2. short \in Nat
    BY <2>1, ShortFacts
  <2> QED
    BY <2>1, <2>2
<1>5. u \in Nat
  <2>1. drawn \in [LockIds -> Nat]
    BY DrawnIsFunction DEF PoolInv
  <2>2. KidsIn(lock', l) \in SUBSET LockIds
    BY <1>2 DEF LockMoved, IsLocks, KidsIn
  <2>3. SumOver(drawn, KidsIn(lock', l)) \in Nat
    BY <2>1, <2>2, LockSum
  <2> HIDE DEF drawn
  <2> QED
    BY <2>1, <2>3
<1>6. HoldsBefore(d, l) = 0
  BY <1>1 DEF HoldsBefore, HeldOn
<1>7. ASSUME Pooled(deployed, d), lock'[l].day = d
      PROVE  HeldOf(Asked(lock', l), lock'[l].pending, u) <= HoldsBefore(d, l) + Clip(Available(d))
  <2>1. e = d /\ lock'[l].pax = pax /\ lock'[l].released = 0 /\ lock'[l].pending = q
    BY <1>3, <1>7
  <2>2. Asked(lock', l) = pax
    BY <1>4, <2>1 DEF Asked
  <2>3. q = short \/ q = pax \/ (short = 0 /\ q = 0)
    OBVIOUS
  <2>4. short = ShortBy(Day(d, {}), 0, pax)
    BY <2>1
  <2>5. Clip(Available(d)) \in Nat
    BY <1>7, ShortIs DEF Clip
  <2> HIDE DEF short, q, u
  <2>6. HeldOf(pax, q, u) <= Clip(Available(d))
    BY <1>4, <1>5, <1>7, <2>3, <2>4, NewFits
  <2> QED
    BY <1>6, <2>1, <2>2, <2>5, <2>6
<1>8. lock'[l].parent = NoLock
  BY <1>3
<1> HIDE DEF row, u
<1> QED
  BY <1>2, <1>3, <1>5, <1>7, <1>8, TopFits DEF u

\* A lock edited: weighed for more seats or another day, it may only be brought back unweighed.
LEMMA AmendLockFits ==
    ASSUME PoolInv, NEW l \in LockIds, NEW pax \in 1..MaxLockPax, NEW e \in Days, NEW h \in Holders,
           NEW lapsed \in BOOLEAN, AmendLock(l, pax, e, h, lapsed), NEW d \in Days, ~Revived(d)
    PROVE  LockFits(d)
<1> DEFINE row == lock[l]
           tree == Tree(l)
           moving == e # row.day
           kept == IF moving THEN 0
                   ELSE IF pax < row.pax THEN Clip(row.pending - (row.pax - pax)) ELSE row.pending
           used == IF moving THEN 0 ELSE tree.used
           own == IF moving \/ ~IsHolding(lock, l) THEN 0 ELSE tree.held
           short == IF pax > row.pax \/ moving THEN ShortBy(Day(e, {}), own, pax - row.released - used) ELSE 0
           q == IF short > (IF moving THEN 0 ELSE tree.pend) THEN short ELSE kept
           new == [row EXCEPT !.pax = pax, !.day = e, !.holder = h, !.lapsed = lapsed, !.pending = q]
           p == pax - row.released
           av == Available(d)
<1>1. /\ l \in DOMAIN lock /\ row.parent = NoLock /\ (moving => tree.used = 0)
      /\ pax >= row.released + Drawn(l) + tree.allocated
      /\ lock' = [j \in DOMAIN lock |-> IF j = l THEN new
                    ELSE IF j \in Kids(l) THEN [lock[j] EXCEPT !.day = e, !.holder = h] ELSE lock[j]]
  BY DEF AmendLock, IsTop
<1>2. LockMoved
  BY AmendLockMoves
<1>3. /\ new.pax = pax /\ new.day = e /\ new.lapsed = lapsed /\ new.pending = q /\ new.released = row.released
      /\ new.parent = NoLock /\ new.status = row.status
  BY <1>1 DEF PoolInv, IsLocks, LockRows
<1>4. \A j \in DOMAIN lock : [lock[j] EXCEPT !.day = e, !.holder = h].parent = lock[j].parent
  BY DEF PoolInv, IsLocks, LockRows
<1>5. DOMAIN lock' = DOMAIN lock /\ lock'[l] = new /\ \A j \in DOMAIN lock : lock'[j].parent = lock[j].parent
  <2> HIDE DEF new
  <2> QED
    BY <1>1, <1>3, <1>4
<1>6. \A x \in DOMAIN lock' \ {l} : lock'[x].parent # NoLock \/ (x \in DOMAIN lock /\ lock'[x] = lock[x])
  <2> SUFFICES ASSUME NEW x \in DOMAIN lock \ {l}, lock'[x].parent = NoLock PROVE lock'[x] = lock[x]
    BY <1>5
  <2>1. lock[x].parent = NoLock
    BY <1>5
  <2>2. x \notin Kids(l)
    BY <1>1, <2>1, LockAssumption DEF Kids, KidsIn, PoolInv, IsLocks
  <2> QED
    BY <1>1, <2>2
<1>7. KidsIn(lock', l) = KidsIn(lock, l)
  BY <1>5 DEF KidsIn
<1>8. /\ tree.used \in Nat /\ Asked(lock, l) \in Nat /\ row.pending \in Nat /\ tree.pend \in Nat /\ tree.held \in Nat
      /\ tree.used = DrawnByLock(booking, {})[l] + SumOver(DrawnByLock(booking, {}), KidsIn(lock', l))
      /\ tree.held = HeldOf(Asked(lock, l), row.pending, tree.used)
      /\ HoldsBefore(d, l) = IF row.day = d /\ IsHolding(lock, l) THEN tree.held ELSE 0
  BY <1>1, <1>7, TopNow
<1>9. pax \in Nat /\ row.pax \in Nat /\ row.released \in Nat /\ p \in Nat
  <2>1. l \in DOMAIN lock
    BY <1>1
  <2>2. row.pax \in Nat /\ row.released \in Nat /\ Drawn(l) \in Nat /\ tree.allocated \in Nat
    BY <2>1, LockFacts
  <2>3. pax \in Nat
    BY PoolAssumption
  <2>4. pax >= row.released + Drawn(l) + tree.allocated
    BY <1>1
  <2> HIDE DEF row, tree
  <2> QED
    BY <2>2, <2>3, <2>4
<1> SUFFICES ASSUME Pooled(deployed, d), lock'[l].day = d, IsHolding(lock', l)
             PROVE  HeldOf(Asked(lock', l), lock'[l].pending, tree.used) <= HoldsBefore(d, l) + Clip(av)
  <2> HIDE DEF new, av, tree
  <2> QED
    BY <1>1, <1>2, <1>3, <1>5, <1>6, <1>8, TopFits DEF av, tree
<1>10. e = d /\ lapsed = FALSE /\ row.status = "active" /\ Asked(lock', l) = p /\ lock'[l].pending = q
  BY <1>3, <1>5 DEF IsHolding, Asked
<1>11. IsHolding(lock, l)
  BY <1>1, <1>3, <1>5, <1>10 DEF Revived, IsHolding, PoolInv, IsLocks, LockRows
<1>12. av \in Int /\ Clip(av) \in Nat
  BY ShortIs DEF Clip
<1>13. CASE moving
  <2>1. tree.used = 0 /\ used = 0 /\ own = 0 /\ HoldsBefore(d, l) = 0
    BY <1>1, <1>8, <1>10, <1>13
  <2>2. short = ShortBy(Day(d, {}), 0, p)
    BY <1>9, <1>10, <1>13, <2>1
  <2>3. short \in Nat
    <3> HIDE DEF short, p
    <3>1. p \in Int /\ 0 \in Nat
      BY <1>9
    <3> QED
      BY <2>2, <3>1, ShortFacts
  <2>4. q = short \/ (short = 0 /\ q = 0)
    BY <1>13, <2>3
  <2> HIDE DEF short, q, p, av, tree, used, own
  <2>5. HeldOf(p, q, 0) <= Clip(Available(d))
    BY <1>9, <2>2, <2>3, <2>4, NewFits
  <2> QED
    BY <1>10, <1>12, <2>1, <2>5 DEF av
<1>14. CASE ~moving /\ pax > row.pax
  <2>1. row.day = d /\ p \in Int /\ Asked(lock, l) <= p
    BY <1>9, <1>10, <1>14 DEF Asked
  <2>2. short = ShortBy(Day(d, {}), IF IsHolding(lock, l) THEN Tree(l).held ELSE 0, p - Tree(l).used)
    BY <1>10, <1>14
  <2>3. q = IF short > Tree(l).pend THEN short ELSE lock[l].pending
    BY <1>9, <1>14
  <2> HIDE DEF short, q, p, av
  <2>4. HeldOf(p, q, Tree(l).used) <= HoldsBefore(d, l) + Clip(Available(d))
    BY <1>1, <2>1, <2>2, <2>3, GrownFits
  <2> QED
    BY <1>10, <2>4 DEF av
<1>15. CASE ~moving /\ ~(pax > row.pax)
  <2> DEFINE a == Asked(lock, l)
             n == row.pax - pax
             u == tree.used
  <2>1. short = 0 /\ ~(short > tree.pend)
    BY <1>8, <1>15
  <2>2. n \in Nat /\ p = a - n
    BY <1>9, <1>15 DEF Asked
  <2>3. q = Clip(row.pending - n)
    <3>1. q = kept
      BY <1>15, <2>1
    <3> QED
      BY <1>8, <1>9, <1>15, <3>1 DEF Clip
  <2>4. HoldsBefore(d, l) = HeldOf(a, row.pending, u) /\ HoldsBefore(d, l) \in Nat
    BY <1>8, <1>10, <1>11, <1>15
  <2> HIDE DEF a, n, u, q, p, av
  <2>5. HeldOf(a - n, Clip(row.pending - n), u) <= HeldOf(a, row.pending, u)
    <3>1. a \in Int /\ row.pending \in Nat /\ u \in Nat
      BY <1>8 DEF a, u
    <3> QED
      BY <2>2, <3>1, HeldShrunk
  <2>6. HeldOf(p, q, u) \in Nat
    <3>1. p \in Int /\ q \in Nat /\ u \in Nat
      BY <1>8, <1>9, <2>2, <2>3 DEF u, Clip
    <3> QED
      BY <3>1 DEF HeldOf, PendOf, Clip, Least
  <2> QED
    BY <1>10, <1>12, <2>2, <2>3, <2>4, <2>5, <2>6 DEF u
<1> QED
  BY <1>13, <1>14, <1>15

\* No lock command leaves a day short of seats it was not short of, but an edit that brings a lapsed lock back.
LEMMA LockStepSells ==
    ASSUME PoolInv, NEW l \in LockIds, LockStep(l), NEW d \in Days, ~Revived(d)
    PROVE  ~(AvailableAfter(d) < Least(0, Available(d)))
<1>1. LockMoved
  BY LockMoves
<1>2. SUFFICES LockFits(d)
  BY <1>1, LockSells
<1>3. CASE \E e \in Days, pax \in 1..MaxLockPax, h \in Holders, lapsed \in BOOLEAN, choice \in {"split", "all"} :
              CreateLock(l, e, pax, h, lapsed /\ Relapse, choice)
  <2> PICK e \in Days, pax \in 1..MaxLockPax, h \in Holders, lapsed \in BOOLEAN, choice \in {"split", "all"} :
              CreateLock(l, e, pax, h, lapsed /\ Relapse, choice)
    BY <1>3
  <2> DEFINE past == lapsed /\ Relapse
  <2>1. past \in BOOLEAN /\ CreateLock(l, e, pax, h, past, choice)
    OBVIOUS
  <2> HIDE DEF past
  <2> QED
    BY <2>1, CreateLockFits
<1>4. CASE \E pax \in 1..MaxLockPax, e \in Days, h \in Holders, lapsed \in BOOLEAN : AmendLock(l, pax, e, h, lapsed)
  BY <1>4, AmendLockFits
<1>5. CASE \E pax \in 1..MaxLockPax : AmendSubGroup(l, pax)
  BY <1>5, SubGroupStepsFit
<1>6. CASE \E n \in 1..MaxLockPax : /\ l \in DOMAIN lock /\ lock[l].pax + n <= MaxLockPax
                                    /\ AddSeats(l, n) \/ AddToSubGroup(l, n)
  BY <1>6, AddSeatsFits, SubGroupStepsFit
<1>7. CASE \E n \in 1..MaxLockPax : ReleaseSeats(l, n) \/ ConfirmPending(l, n)
  BY <1>7, ReleaseSeatsFits, ConfirmPendingFits
<1>8. CASE ReleaseDeparture(l) \/ Lapse(l)
  BY <1>8, ReleaseDepartureFits, LapseFits
<1>9. CASE \E top \in DOMAIN lock, pax \in 1..MaxLockPax : CreateSubGroup(l, top, pax)
  BY <1>9, SubGroupStepsFit
<1> QED
  BY <1>3, <1>4, <1>5, <1>6, <1>7, <1>8, <1>9 DEF LockStep

\* Nor does any step leave a day whose boats stay short of seats it was not short of, without a consent.
LEMMA OversellStep ==
    ASSUME PoolInv, AllTripsSized, [Next]_vars, NEW d \in Days, deployed'[d] = deployed[d],
           AvailableAfter(d) < Least(0, Available(d))
    PROVE  \/ Revived(d)
           \/ \E b \in Bookings :
                 \/ Approved(b) \/ Restored(b) \/ (Exists(b)' /\ DisplacedAnyway(b, d))
                 \/ (booking'[b] # booking[b] /\ StrayDraws(b)) \/ DrawsTogether(b, d)
<1>1. ASSUME NEW b \in Bookings, BookingStep(b)
      PROVE  \/ Approved(b) \/ Restored(b) \/ (Exists(b)' /\ DisplacedAnyway(b, d))
             \/ (booking'[b] # booking[b] /\ StrayDraws(b)) \/ DrawsTogether(b, d)
  BY <1>1, BookingMoves, BookingAnswered, MovedSells
<1>2. ASSUME NEW l \in LockIds, LockStep(l) PROVE Revived(d)
  BY <1>2, LockStepSells
<1>3. ASSUME UNCHANGED <<booking, lock>> PROVE FALSE
  <2>1. AvailableAfter(d) = Available(d)
    <3>1. AvailableAfter(d) = DayOf(booking, lock, deployed', d, {}).available
      BY <1>3 DEF AvailableAfter
    <3>2. DayOf(booking, lock, deployed', d, {}) = DayOf(booking, lock, deployed, d, {})
      BY DEF DayOf
    <3> QED
      BY <3>1, <3>2 DEF Available, Day
  <2>2. Available(d) \in Int
    BY DayNumbers DEF SoundDay, Available
  <2> QED
    BY <2>1, <2>2 DEF Least
<1>4. ASSUME NEW e \in Days, DeploymentStep(e) PROVE FALSE
  BY <1>3, <1>4, DeploymentKeepsSound
<1>5. CASE UNCHANGED vars
  BY <1>3, <1>5 DEF vars
<1> QED
  BY <1>1, <1>2, <1>4, <1>5 DEF Next

(* No day is sold past its seats, nor one that is sold past them further,  *)
(* without a consent: an approval, a restore, a charter that takes sold    *)
(* seats because somebody said so, a lapsed lock brought back by an edit   *)
(* of its expiry (none of them weighs the day), or a booking drawing on    *)
(* locks of other days or on several locks of one tree at once, each       *)
(* weighed alone.                                                          *)
THEOREM DayIsNotOversold == Spec => OversellNeedsConsent
<1>1. PoolInv /\ AllTripsSized /\ [Next]_vars =>
         \A d \in Days :
            deployed'[d] = deployed[d] /\ AvailableAfter(d) < Least(0, Available(d)) =>
               \/ Revived(d)
               \/ \E b \in Bookings :
                     \/ Approved(b) \/ Restored(b) \/ (Exists(b)' /\ DisplacedAnyway(b, d))
                     \/ (booking'[b] # booking[b] /\ StrayDraws(b)) \/ DrawsTogether(b, d)
  BY OversellStep
<1> QED
  BY <1>1, PoolHolds, TripsStaySized, PTL DEF Spec, OversellNeedsConsent

-----------------------------------------------------------------------------
(* Sub-groups inside their departure                                       *)

\* The seats the sub-groups of a lock ask for.
Split(rows, l) == Total([k \in KidsIn(rows, l) |-> Asked(rows, k)])

LEMMA SplitFacts ==
    ASSUME NEW rows, IsLocks(rows), NEW l \in DOMAIN rows
    PROVE  /\ l \in LockIds /\ KidsIn(rows, l) \subseteq DOMAIN rows /\ KidsIn(rows, l) \in SUBSET LockIds
           /\ IsFiniteSet(KidsIn(rows, l))
           /\ \A k \in DOMAIN rows : Asked(rows, k) \in Nat
           /\ IsTable([k \in KidsIn(rows, l) |-> Asked(rows, k)]) /\ Split(rows, l) \in Nat
<1>1. l \in LockIds /\ KidsIn(rows, l) \subseteq DOMAIN rows /\ KidsIn(rows, l) \in SUBSET LockIds
  BY DEF IsLocks, KidsIn
<1>2. IsFiniteSet(KidsIn(rows, l))
  BY <1>1, LockAssumption, FS_Subset
<1>3. ASSUME NEW k \in DOMAIN rows PROVE Asked(rows, k) \in Nat
  <2>1. rows[k].pax \in Nat /\ rows[k].released \in Nat /\ rows[k].released <= rows[k].pax
    BY DEF IsLocks, LockRows
  <2> QED
    BY <2>1 DEF Asked
<1>4. IsTable([k \in KidsIn(rows, l) |-> Asked(rows, k)])
  BY <1>1, <1>2, <1>3 DEF IsTable
<1> QED
  BY <1>1, <1>2, <1>3, <1>4, TableTotal DEF Split

\* The room of a tree: what is asked and not split into sub-groups, less what the lock itself gave.
LEMMA TreeSplit ==
    ASSUME NEW rows, IsLocks(rows), NEW drawn, NEW top \in DOMAIN rows
    PROVE  LET tree == TreeOf(rows, drawn, top)
           IN  /\ tree.allocated = Split(rows, top)
               /\ tree.unallocated = Clip(Asked(rows, top) - Split(rows, top))
               /\ tree.room = Clip(tree.unallocated - drawn[top])
<1> DEFINE kids == KidsIn(rows, top)
           node == NodesOf(rows, drawn)
           tree == TreeOf(rows, drawn, top)
<1>1. ASSUME NEW k \in DOMAIN rows PROVE node[k].pax = Asked(rows, k) /\ node[k].drawn = drawn[k]
  BY DEF NodesOf, Asked
<1>2. kids \subseteq DOMAIN rows
  BY DEF KidsIn
<1> HIDE DEF kids, node
<1>3. [k \in kids |-> node[k].pax] = [k \in kids |-> Asked(rows, k)]
  BY <1>1, <1>2
<1>4. /\ tree.allocated = Total([k \in kids |-> node[k].pax])
      /\ tree.unallocated = Clip(node[top].pax - tree.allocated)
      /\ tree.room = Clip(tree.unallocated - node[top].drawn)
  BY DEF TreeOf, LockTree, kids, node
<1> HIDE DEF tree
<1>5. tree.allocated = Split(rows, top)
  BY <1>3, <1>4 DEF Split, kids
<1> QED
  BY <1>1, <1>4, <1>5 DEF tree

\* A lock fits when what it gave and what is split into sub-groups are within what it is asked for.
LEMMA FitsIs ==
    ASSUME NEW lks, IsLocks(lks), NEW bks, IsBookings(bks), NEW l \in DOMAIN lks
    PROVE  /\ DrawnByLock(bks, {})[l] \in Nat /\ Split(lks, l) \in Nat /\ Asked(lks, l) \in Nat
           /\ Fits(lks, bks, l) <=> DrawnByLock(bks, {})[l] + Split(lks, l) <= Asked(lks, l)
<1> DEFINE drawn == DrawnByLock(bks, {})
<1>1. drawn \in [LockIds -> Nat] /\ l \in LockIds
  BY DrawnIsFunction, SplitFacts
<1>2. TreeOf(lks, drawn, l).allocated = Split(lks, l)
  BY TreeSplit
<1>3. Split(lks, l) \in Nat /\ Asked(lks, l) \in Nat
  BY SplitFacts
<1>4. Fits(lks, bks, l) <=> drawn[l] + TreeOf(lks, drawn, l).allocated <= lks[l].pax - lks[l].released
  BY DEF Fits
<1> HIDE DEF drawn
<1> QED
  BY <1>1, <1>2, <1>3, <1>4 DEF drawn, Asked

\* Sub-groups that ask for no more split no more.
LEMMA SplitFalls ==
    ASSUME NEW lks, IsLocks(lks), NEW new, IsLocks(new), NEW l \in DOMAIN lks, l \in DOMAIN new,
           KidsIn(new, l) = KidsIn(lks, l), \A k \in KidsIn(lks, l) : Asked(new, k) <= Asked(lks, k)
    PROVE  Split(new, l) <= Split(lks, l)
<1> DEFINE kids == KidsIn(lks, l)
           f == [k \in kids |-> Asked(new, k)]
           g == [k \in kids |-> Asked(lks, k)]
<1>1. IsFiniteSet(kids) /\ f \in [kids -> Nat] /\ g \in [kids -> Nat]
  BY SplitFacts
<1>2. \A k \in kids : f[k] <= g[k]
  OBVIOUS
<1> HIDE DEF f, g, kids
<1>3. Total(f) <= Total(g)
  BY <1>1, <1>2, TotalMono
<1> QED
  BY <1>3 DEF Split, f, g, kids

\* One sub-group asking for more splits as much more.
LEMMA SplitOne ==
    ASSUME NEW lks, IsLocks(lks), NEW new, IsLocks(new), NEW l \in DOMAIN lks, l \in DOMAIN new,
           KidsIn(new, l) = KidsIn(lks, l), NEW j \in KidsIn(lks, l),
           \A k \in KidsIn(lks, l) \ {j} : Asked(new, k) = Asked(lks, k)
    PROVE  Split(new, l) = Split(lks, l) + Asked(new, j) - Asked(lks, j)
<1> DEFINE kids == KidsIn(lks, l)
           f == [k \in kids |-> Asked(new, k)]
           g == [k \in kids |-> Asked(lks, k)]
<1>1. IsTable(f) /\ IsTable(g) /\ DOMAIN f = kids /\ DOMAIN g = kids /\ kids \subseteq DOMAIN lks /\ kids \subseteq DOMAIN new
  BY SplitFacts
<1>2. [k \in DOMAIN f \ {j} |-> f[k]] = [k \in DOMAIN g \ {j} |-> g[k]] /\ f[j] = Asked(new, j) /\ g[j] = Asked(lks, j)
  OBVIOUS
<1>3. Asked(new, j) \in Nat /\ Asked(lks, j) \in Nat /\ j \in kids
  BY <1>1, SplitFacts
<1>4. Split(new, l) = Total(f) /\ Split(lks, l) = Total(g)
  BY DEF Split
<1> HIDE DEF f, g, kids
<1>5. /\ Total(f) = Total([k \in DOMAIN f \ {j} |-> f[k]]) + f[j]
      /\ Total(g) = Total([k \in DOMAIN g \ {j} |-> g[k]]) + g[j]
  BY <1>1, <1>3, TotalSplit
<1>6. Total(g) \in Nat /\ Total(f) \in Nat /\ Total([k \in DOMAIN g \ {j} |-> g[k]]) \in Nat
  <2>1. DOMAIN g \ {j} \in SUBSET DOMAIN g
    OBVIOUS
  <2> QED
    BY <1>1, <2>1, TotalPart, TableTotal
<1> QED
  BY <1>2, <1>3, <1>4, <1>5, <1>6

\* At most one new sub-group, the others as they were, splits at most what it asks for.
LEMMA SplitMore ==
    ASSUME NEW lks, IsLocks(lks), NEW new, IsLocks(new), NEW l \in DOMAIN lks, l \in DOMAIN new,
           KidsIn(lks, l) \subseteq KidsIn(new, l), \A k \in KidsIn(lks, l) : Asked(new, k) = Asked(lks, k),
           NEW j, KidsIn(new, l) \subseteq KidsIn(lks, l) \cup {j}, NEW n \in Nat, j \in DOMAIN new => Asked(new, j) = n
    PROVE  Split(new, l) <= Split(lks, l) + n
<1>1. CASE KidsIn(new, l) = KidsIn(lks, l)
  <2>1. Split(new, l) = Split(lks, l)
    BY <1>1 DEF Split
  <2>2. Split(lks, l) \in Nat
    BY SplitFacts
  <2> QED
    BY <2>1, <2>2
<1>2. CASE KidsIn(new, l) # KidsIn(lks, l)
  <2> DEFINE f == [k \in KidsIn(new, l) |-> Asked(new, k)]
  <2>1. j \in KidsIn(new, l) /\ j \notin KidsIn(lks, l) /\ KidsIn(new, l) \ {j} = KidsIn(lks, l) /\ j \in DOMAIN new
    BY <1>2, SplitFacts
  <2>2. IsTable(f) /\ j \in DOMAIN f /\ f[j] = n
    BY <2>1, SplitFacts
  <2>5. [k \in DOMAIN f \ {j} |-> f[k]] = [k \in KidsIn(lks, l) |-> Asked(lks, k)]
    BY <2>1
  <2>3. Total(f) = Split(new, l)
    BY DEF Split
  <2> HIDE DEF f
  <2>4. Total(f) = Total([k \in DOMAIN f \ {j} |-> f[k]]) + f[j]
    BY <2>2, TotalSplit
  <2> QED
    BY <2>2, <2>3, <2>4, <2>5, SplitFacts DEF Split
<1> QED
  BY <1>1, <1>2
\* What a lock command may do to a top-level lock, in seats drawn, split and asked for.
LEMMA InsideIs ==
    ASSUME PoolInv, LockMoved, NEW t \in DOMAIN lock, lock[t].parent = NoLock
    PROVE  /\ IsLocks(lock) /\ IsLocks(lock') /\ t \in DOMAIN lock'
           /\ Drawn(t) \in Nat /\ Split(lock, t) \in Nat /\ Asked(lock, t) \in Nat
           /\ Split(lock', t) \in Nat /\ Asked(lock', t) \in Nat
           /\ Fits(lock, booking, t) <=> Drawn(t) + Split(lock, t) <= Asked(lock, t)
           /\ Fits(lock', booking', t) <=> Drawn(t) + Split(lock', t) <= Asked(lock', t)
           /\ Tree(t).allocated = Split(lock, t)
           /\ Tree(t).unallocated = Clip(Asked(lock, t) - Split(lock, t))
           /\ Tree(t).room = Clip(Tree(t).unallocated - Drawn(t))
           /\ DOMAIN lock \subseteq DOMAIN lock' /\ KidsIn(lock, t) \subseteq KidsIn(lock', t)
           /\ DOMAIN lock' = DOMAIN lock => KidsIn(lock', t) = KidsIn(lock, t)
<1>1. IsLocks(lock) /\ IsLocks(lock') /\ IsBookings(booking) /\ t \in DOMAIN lock' /\ booking' = booking
  BY DEF PoolInv, LockMoved
<1>2. /\ Drawn(t) \in Nat /\ Split(lock, t) \in Nat /\ Asked(lock, t) \in Nat
      /\ Fits(lock, booking, t) <=> Drawn(t) + Split(lock, t) <= Asked(lock, t)
  BY <1>1, FitsIs DEF Drawn
<1>3. /\ Split(lock', t) \in Nat /\ Asked(lock', t) \in Nat
      /\ Fits(lock', booking, t) <=> Drawn(t) + Split(lock', t) <= Asked(lock', t)
  BY <1>1, FitsIs DEF Drawn
<1>4. /\ Tree(t).allocated = Split(lock, t)
      /\ Tree(t).unallocated = Clip(Asked(lock, t) - Split(lock, t))
      /\ Tree(t).room = Clip(Tree(t).unallocated - Drawn(t))
  BY <1>1, TreeSplit DEF Tree, Drawn
<1>5. /\ DOMAIN lock \subseteq DOMAIN lock' /\ KidsIn(lock, t) \subseteq KidsIn(lock', t)
      /\ DOMAIN lock' = DOMAIN lock => KidsIn(lock', t) = KidsIn(lock, t)
  BY DEF KidsIn, LockMoved
<1> QED
  BY <1>1, <1>2, <1>3, <1>4, <1>5

\* Sub-groups that ask for no more stay inside a lock not lowered below them.
LEMMA StaysInside ==
    ASSUME PoolInv, LockMoved, NEW t \in DOMAIN lock, lock[t].parent = NoLock, DOMAIN lock' = DOMAIN lock,
           \A k \in KidsIn(lock, t) : Asked(lock', k) <= Asked(lock, k),
           Asked(lock, t) <= Asked(lock', t) \/ Drawn(t) + Split(lock, t) <= Asked(lock', t),
           Fits(lock, booking, t)
    PROVE  Fits(lock', booking', t)
<1>1. Split(lock', t) <= Split(lock, t)
  BY InsideIs, SplitFalls
<1> QED
  BY <1>1, InsideIs

\* What may be given back or split off a lock that fits is what it neither gave nor split.
LEMMA RoomInside ==
    ASSUME PoolInv, LockMoved, NEW t \in DOMAIN lock, lock[t].parent = NoLock, Fits(lock, booking, t)
    PROVE  Tree(t).room = Asked(lock, t) - Split(lock, t) - Drawn(t) /\ Tree(t).room \in Nat
<1>1. /\ Drawn(t) \in Nat /\ Split(lock, t) \in Nat /\ Asked(lock, t) \in Nat
      /\ Drawn(t) + Split(lock, t) <= Asked(lock, t)
      /\ Tree(t).unallocated = Clip(Asked(lock, t) - Split(lock, t))
      /\ Tree(t).room = Clip(Tree(t).unallocated - Drawn(t))
  BY InsideIs
<1> QED
  BY <1>1 DEF Clip

\* One row written: a lock not lowered below its sub-groups, or a sub-group that grows within the room.
LEMMA RowStaysInside ==
    ASSUME PoolInv, LockMoved, NEW j \in DOMAIN lock, NEW row, WriteLock(j, row),
           NEW t \in DOMAIN lock, lock[t].parent = NoLock, Fits(lock, booking, t),
           t = j => Asked(lock, t) <= row.pax - row.released \/ Drawn(t) + Split(lock, t) <= row.pax - row.released,
           lock[j].parent = t => row.pax - row.released <= Asked(lock, j) + Tree(t).room
    PROVE  Fits(lock', booking', t)
<1>1. /\ DOMAIN lock' = DOMAIN lock /\ lock'[j] = row /\ Asked(lock', j) = row.pax - row.released
      /\ \A k \in DOMAIN lock : k # j => Asked(lock', k) = Asked(lock, k)
  BY DEF WriteLock, Asked
<1>2. \A k \in DOMAIN lock : Asked(lock, k) \in Nat /\ Asked(lock', k) \in Nat
  BY <1>1, SplitFacts DEF PoolInv, LockMoved
<1>3. CASE j \in KidsIn(lock, t)
  <2>1. lock[j].parent = t /\ t # j
    BY <1>3, LockAssumption DEF KidsIn, PoolInv, IsLocks
  <2>2. KidsIn(lock', t) = KidsIn(lock, t) /\ KidsIn(lock, t) \subseteq DOMAIN lock
    BY <1>1, InsideIs DEF KidsIn
  <2>3. Split(lock', t) = Split(lock, t) + Asked(lock', j) - Asked(lock, j)
    BY <1>1, <1>3, <2>2, InsideIs, SplitOne
  <2>4. Tree(t).room = Asked(lock, t) - Split(lock, t) - Drawn(t) /\ Tree(t).room \in Nat
    BY RoomInside
  <2>5. /\ Drawn(t) \in Nat /\ Split(lock, t) \in Nat /\ Asked(lock, t) \in Nat
        /\ Fits(lock', booking', t) <=> Drawn(t) + Split(lock', t) <= Asked(lock', t)
    BY InsideIs
  <2>6. Asked(lock', t) = Asked(lock, t) /\ Asked(lock', j) <= Asked(lock, j) + Tree(t).room
    BY <1>1, <2>1
  <2> QED
    BY <1>2, <2>3, <2>4, <2>5, <2>6
<1>4. CASE j \notin KidsIn(lock, t)
  <2>1. \A k \in KidsIn(lock, t) : Asked(lock', k) <= Asked(lock, k)
    BY <1>1, <1>2, <1>4 DEF KidsIn
  <2>2. Asked(lock, t) <= Asked(lock', t) \/ Drawn(t) + Split(lock, t) <= Asked(lock', t)
    BY <1>1, <1>2
  <2> QED
    BY <1>1, <2>1, <2>2, StaysInside
<1> QED
  BY <1>3, <1>4

\* Several rows written, sub-groups as they were: each lock not lowered below its sub-groups.
LEMMA RowsStayInside ==
    ASSUME PoolInv, LockMoved, NEW rows, DOMAIN rows \subseteq DOMAIN lock, WriteRows(rows),
           NEW t \in DOMAIN lock, lock[t].parent = NoLock, Fits(lock, booking, t),
           \A k \in DOMAIN rows : lock[k].parent # NoLock => Asked(rows, k) = Asked(lock, k),
           t \in DOMAIN rows => Asked(lock, t) <= Asked(rows, t) \/ Drawn(t) + Split(lock, t) <= Asked(rows, t)
    PROVE  Fits(lock', booking', t)
<1>1. /\ DOMAIN lock' = DOMAIN lock
      /\ \A k \in DOMAIN lock : Asked(lock', k) = IF k \in DOMAIN rows THEN Asked(rows, k) ELSE Asked(lock, k)
  BY DEF WriteRows, Asked
<1>2. \A k \in DOMAIN lock : Asked(lock, k) \in Nat
  BY SplitFacts DEF PoolInv
<1>3. ASSUME NEW k \in KidsIn(lock, t) PROVE Asked(lock', k) <= Asked(lock, k)
  <2>1. k \in DOMAIN lock /\ lock[k].parent # NoLock
    BY LockAssumption DEF KidsIn, PoolInv, IsLocks
  <2> QED
    BY <1>1, <1>2, <2>1
<1>4. Asked(lock, t) <= Asked(lock', t) \/ Drawn(t) + Split(lock, t) <= Asked(lock', t)
  BY <1>1, <1>2
<1> QED
  BY <1>1, <1>3, <1>4, StaysInside

\* PATCH of a departure: not below what is released, drawn and in sub-groups.
LEMMA AmendLockInside ==
    ASSUME PoolInv, LockMoved, NEW l \in LockIds, NEW pax \in Nat, NEW d, NEW h, NEW lapsed,
           AmendLock(l, pax, d, h, lapsed),
           NEW t \in DOMAIN lock, lock[t].parent = NoLock, Fits(lock, booking, t)
    PROVE  Fits(lock', booking', t)
<1> DEFINE row == lock[l]
           tree == Tree(l)
           moving == d # row.day
           kept == IF moving THEN 0
                   ELSE IF pax < row.pax THEN Clip(row.pending - (row.pax - pax)) ELSE row.pending
           used == IF moving THEN 0 ELSE tree.used
           ownHeld == IF moving \/ ~IsHolding(lock, l) THEN 0 ELSE tree.held
           short == IF pax > row.pax \/ moving THEN ShortBy(Day(d, {}), ownHeld, pax - row.released - used) ELSE 0
           pending == IF short > (IF moving THEN 0 ELSE tree.pend) THEN short ELSE kept
           new == [row EXCEPT !.pax = pax, !.day = d, !.holder = h, !.lapsed = lapsed, !.pending = pending]
<1>1. /\ l \in DOMAIN lock /\ row.parent = NoLock
      /\ pax >= row.released + Drawn(l) + tree.allocated
      /\ lock' = [j \in DOMAIN lock |->
            IF j = l THEN new
            ELSE IF j \in Kids(l) THEN [lock[j] EXCEPT !.day = d, !.holder = h] ELSE lock[j]]
  BY Zenon DEF AmendLock, IsTop
<1> HIDE DEF pending
<1>2. \A j \in DOMAIN lock : lock[j] \in LockRows
  BY DEF PoolInv, IsLocks
<1>3. new.pax = pax /\ new.released = row.released
  BY <1>1, <1>2 DEF LockRows
<1>4. ASSUME NEW j \in DOMAIN lock, j # l PROVE lock'[j].pax = lock[j].pax /\ lock'[j].released = lock[j].released
  BY <1>1, <1>2, <1>4 DEF LockRows
<1> HIDE DEF new
<1>5. DOMAIN lock' = DOMAIN lock /\ lock'[l].pax = pax /\ lock'[l].released = row.released
  BY <1>1, <1>3
<1>6. \A k \in DOMAIN lock : Asked(lock, k) \in Nat
  BY SplitFacts DEF PoolInv
<1>7. ASSUME NEW k \in KidsIn(lock, t) PROVE Asked(lock', k) <= Asked(lock, k)
  <2>1. k \in DOMAIN lock /\ k # l
    BY <1>1, LockAssumption DEF KidsIn, PoolInv, IsLocks
  <2> QED
    BY <1>4, <1>6, <2>1 DEF Asked
<1>8. Asked(lock, t) <= Asked(lock', t) \/ Drawn(t) + Split(lock, t) <= Asked(lock', t)
  <2>1. CASE t # l
    BY <1>4, <1>6, <2>1 DEF Asked
  <2>2. CASE t = l
    <3>1. tree.allocated = Split(lock, t) /\ Split(lock, t) \in Nat /\ Drawn(t) \in Nat
      BY <2>2, InsideIs
    <3>2. row.released \in Nat /\ pax >= row.released + Drawn(l) + tree.allocated
      BY <1>1, <1>2 DEF LockRows
    <3>3. Asked(lock', t) = pax - row.released
      BY <1>5, <2>2 DEF Asked
    <3> HIDE DEF row, tree
    <3> QED
      BY <2>2, <3>1, <3>2, <3>3
  <2> QED
    BY <2>1, <2>2
<1> QED
  BY <1>5, <1>7, <1>8, StaysInside

\* A sub-group grows within its departure's room.
LEMMA SubGroupInside ==
    ASSUME PoolInv, LockMoved, NEW l \in DOMAIN lock, NEW n \in Nat,
           AmendSubGroup(l, n) \/ AddToSubGroup(l, n),
           NEW t \in DOMAIN lock, lock[t].parent = NoLock, Fits(lock, booking, t)
    PROVE  Fits(lock', booking', t)
<1>1. lock[l] \in LockRows /\ lock[l].pax \in Nat /\ lock[l].released \in Nat
  BY LockFacts
<1>2. lock[l].parent # NoLock
  BY DEF AmendSubGroup, AddToSubGroup, IsTop
<1>3. Tree(t).room \in Nat
  BY RoomInside
<1>4. CASE AmendSubGroup(l, n)
  <2> DEFINE row == [lock[l] EXCEPT !.pax = n]
  <2>1. WriteLock(l, row) /\ n - lock[l].pax <= Tree(lock[l].parent).room
    BY <1>4 DEF AmendSubGroup
  <2>2. row.pax = n /\ row.released = lock[l].released
    BY <1>1 DEF LockRows
  <2> HIDE DEF row
  <2>3. lock[l].parent = t => row.pax - row.released <= Asked(lock, l) + Tree(t).room
    BY <1>1, <1>3, <2>1, <2>2 DEF Asked
  <2> QED
    BY <1>2, <2>1, <2>3, RowStaysInside
<1>5. CASE AddToSubGroup(l, n)
  <2> DEFINE row == [lock[l] EXCEPT !.pax = lock[l].pax + n, !.status = "active"]
  <2>1. WriteLock(l, row) /\ n <= Tree(lock[l].parent).room
    BY <1>5 DEF AddToSubGroup
  <2>2. row.pax = lock[l].pax + n /\ row.released = lock[l].released
    BY <1>1 DEF LockRows
  <2> HIDE DEF row
  <2>3. lock[l].parent = t => row.pax - row.released <= Asked(lock, l) + Tree(t).room
    BY <1>1, <1>3, <2>1, <2>2 DEF Asked
  <2> QED
    BY <1>2, <2>1, <2>3, RowStaysInside
<1> QED
  BY <1>4, <1>5

\* "+ seats" and pending seats confirmed take nothing off a departure.
LEMMA GrownInside ==
    ASSUME PoolInv, LockMoved, NEW l \in DOMAIN lock, NEW n \in Nat, AddSeats(l, n) \/ ConfirmPending(l, n),
           NEW t \in DOMAIN lock, lock[t].parent = NoLock, Fits(lock, booking, t)
    PROVE  Fits(lock', booking', t)
<1>1. lock[l] \in LockRows /\ lock[l].pax \in Nat /\ lock[l].released \in Nat
  BY LockFacts
<1>2. lock[l].parent = NoLock /\ t \in LockIds /\ NoLock \notin LockIds
  BY LockFacts, LockAssumption DEF AddSeats, ConfirmPending, IsTop
<1>3. CASE AddSeats(l, n)
  <2>1. PICK pending : WriteLock(l, [lock[l] EXCEPT !.pax = lock[l].pax + n, !.status = "active", !.pending = pending])
    BY <1>3, Zenon DEF AddSeats
  <2> DEFINE row == [lock[l] EXCEPT !.pax = lock[l].pax + n, !.status = "active", !.pending = pending]
  <2>2. WriteLock(l, row) /\ row.pax = lock[l].pax + n /\ row.released = lock[l].released
    BY <1>1, <2>1 DEF LockRows
  <2> HIDE DEF row
  <2>3. Asked(lock, l) <= row.pax - row.released
    BY <1>1, <2>2 DEF Asked
  <2> QED
    BY <1>2, <2>2, <2>3, RowStaysInside
<1>4. CASE ConfirmPending(l, n)
  <2>1. PICK pending : WriteLock(l, [lock[l] EXCEPT !.pending = pending])
    BY <1>4, Zenon DEF ConfirmPending
  <2> DEFINE row == [lock[l] EXCEPT !.pending = pending]
  <2>2. WriteLock(l, row) /\ row.pax = lock[l].pax /\ row.released = lock[l].released
    BY <1>1, <2>1 DEF LockRows
  <2> HIDE DEF row
  <2>3. Asked(lock, l) <= row.pax - row.released
    BY <1>1, <2>2 DEF Asked
  <2> QED
    BY <1>2, <2>2, <2>3, RowStaysInside
<1> QED
  BY <1>3, <1>4

\* A departure gives back what it neither drew nor split; a sub-group giving back splits less.
LEMMA ReleaseInside ==
    ASSUME PoolInv, LockMoved, NEW l \in DOMAIN lock, NEW n \in Nat, ReleaseSeats(l, n),
           NEW t \in DOMAIN lock, lock[t].parent = NoLock, Fits(lock, booking, t)
    PROVE  Fits(lock', booking', t)
<1>1. lock[l] \in LockRows /\ lock[l].pax \in Nat /\ lock[l].released \in Nat
  BY LockFacts
<1>2. PICK pending, status : WriteLock(l, [lock[l] EXCEPT !.released = lock[l].released + n, !.pending = pending, !.status = status])
  BY Zenon DEF ReleaseSeats
<1> DEFINE row == [lock[l] EXCEPT !.released = lock[l].released + n, !.pending = pending, !.status = status]
<1>3. WriteLock(l, row) /\ row.pax = lock[l].pax /\ row.released = lock[l].released + n
  BY <1>1, <1>2 DEF LockRows
<1> HIDE DEF row
<1>4. row.pax - row.released = Asked(lock, l) - n /\ Asked(lock, l) \in Int
  BY <1>1, <1>3 DEF Asked
<1>5. lock[l].parent = t => row.pax - row.released <= Asked(lock, l) + Tree(t).room
  BY <1>4, RoomInside
<1>6. ASSUME t = l PROVE Drawn(t) + Split(lock, t) <= row.pax - row.released
  <2>1. n \in 1..Clip(Tree(t).unallocated - Drawn(t))
    BY <1>6 DEF ReleaseSeats, IsTop
  <2>2. Tree(t).room = Clip(Tree(t).unallocated - Drawn(t))
    BY InsideIs
  <2>3. Tree(t).room = Asked(lock, t) - Split(lock, t) - Drawn(t)
    BY RoomInside
  <2>4. Split(lock, t) \in Nat /\ Drawn(t) \in Nat /\ Asked(lock, t) \in Nat
    BY InsideIs
  <2> QED
    BY <1>4, <1>6, <2>1, <2>2, <2>3, <2>4
<1> QED
  BY <1>3, <1>5, <1>6, RowStaysInside

\* Every departure of a bulk lock is a top-level lock.
LEMMA DepartureIsTop ==
    ASSUME BulkInv, NEW t \in bulk.rows
    PROVE  /\ PoolInv /\ t \in DOMAIN lock /\ lock[t].parent = NoLock /\ t \in LockIds
           /\ \A k \in DOMAIN lock : lock[k].parent # NoLock => k \notin bulk.rows
           /\ lock[t].status = "active" => t \in Departures
  BY DEF BulkInv, Departures, PoolInv, IsLocks

LEMMA RowStepInside ==
    ASSUME BulkInv, NEW l \in LockIds, RowStep(l), NEW t \in bulk.rows, lock'[t].status = "active",
           Fits(lock, booking, t)
    PROVE  Fits(lock', booking', t)
<1>1. PoolInv /\ LockMoved /\ t \in DOMAIN lock /\ lock[t].parent = NoLock /\ t \in LockIds
  BY RowStepMoves, DepartureIsTop
<1>2. l \in DOMAIN lock
  BY RowsFacts DEF RowStep
<1>3. CASE \E pax \in 1..MaxLockPax : AmendLock(l, pax, lock[l].day, lock[l].holder, lock[l].lapsed)
  <2> DEFINE d == lock[l].day
             h == lock[l].holder
             lapsed == lock[l].lapsed
  <2>1. PICK pax \in 1..MaxLockPax : AmendLock(l, pax, d, h, lapsed)
    BY <1>3
  <2>2. pax \in Nat
    OBVIOUS
  <2> HIDE DEF d, h, lapsed
  <2> QED
    BY <1>1, <2>1, <2>2, AmendLockInside
<1>4. CASE \E pax \in 1..MaxLockPax : AmendSubGroup(l, pax)
  <2>1. PICK pax \in 1..MaxLockPax : AmendSubGroup(l, pax)
    BY <1>4
  <2> QED
    BY <1>1, <1>2, <2>1, SubGroupInside
<1>5. CASE \E n \in 1..MaxLockPax : AddSeats(l, n) \/ AddToSubGroup(l, n)
  <2>1. PICK n \in 1..MaxLockPax : AddSeats(l, n) \/ AddToSubGroup(l, n)
    BY <1>5
  <2> QED
    BY <1>1, <1>2, <2>1, SubGroupInside, GrownInside
<1>6. CASE \E n \in 1..MaxLockPax : ReleaseSeats(l, n) \/ ConfirmPending(l, n)
  <2>1. PICK n \in 1..MaxLockPax : ReleaseSeats(l, n) \/ ConfirmPending(l, n)
    BY <1>6
  <2> QED
    BY <1>1, <1>2, <2>1, ReleaseInside, GrownInside
<1>7. CASE ReleaseDeparture(l)
  <2>1. WriteLock(l, ReleasedWhole(l)) /\ lock[l].parent = NoLock
    BY <1>7 DEF ReleaseDeparture, IsTop
  <2>2. ReleasedWhole(l).status = "released"
    <3>1. lock[l] \in LockRows
      BY <1>1, <1>2, LockFacts
    <3> QED
      BY <3>1 DEF ReleasedWhole, LockRows
  <2>3. t # l
    BY <1>2, <2>1, <2>2 DEF WriteLock
  <2> QED
    BY <1>1, <1>2, <2>1, <2>3, LockAssumption, RowStaysInside
<1> QED
  BY <1>3, <1>4, <1>5, <1>6, <1>7 DEF RowStep

\* A bulk amendment: not below what any departure has released, drawn and in sub-groups.
LEMMA AmendGroupInside ==
    ASSUME BulkInv, NEW pax \in 1..MaxLockPax, NEW h \in Holders, NEW c \in Cutoffs, AmendGroup(pax, h, c),
           NEW t \in bulk.rows, lock[t].status = "active", Fits(lock, booking, t)
    PROVE  Fits(lock', booking', t)
<1> DEFINE resized(l) == IF pax = bulk.pax \/ l \notin Departures THEN lock[l]
                         ELSE IF pax < lock[l].pax THEN Lowered(l, pax) ELSE Grown(l, pax)
           rows == [l \in BulkRows |-> resized(l)]
           written == IF h = bulk.holder THEN rows ELSE HeldBy(rows, h)
<1>1. /\ pax # bulk.pax => \A l \in Departures : pax >= Floor(l)
      /\ WriteRows(written)
  BY DEF AmendGroup
<1>2. LockMoved /\ PoolInv /\ t \in DOMAIN lock /\ lock[t].parent = NoLock /\ t \in Departures
      /\ \A k \in DOMAIN lock : lock[k].parent # NoLock => k \notin bulk.rows
  BY AmendGroupMoves, DepartureIsTop
<1>3. BulkRows \subseteq DOMAIN lock /\ Departures \subseteq bulk.rows
  BY RowsFacts
<1>4. ASSUME NEW l \in BulkRows
      PROVE  /\ resized(l).released = lock[l].released
             /\ resized(l).pax = IF pax = bulk.pax \/ l \notin Departures THEN lock[l].pax ELSE pax
  <2>1. lock[l] \in LockRows
    BY <1>2, <1>3, LockFacts
  <2>2. Lowered(l, pax).pax = pax /\ Lowered(l, pax).released = lock[l].released
    BY <2>1 DEF Lowered, LockRows
  <2>3. Grown(l, pax).pax = pax /\ Grown(l, pax).released = lock[l].released
    BY <2>1 DEF Grown, LockRows
  <2> QED
    BY <2>2, <2>3
<1>5. ASSUME NEW l \in BulkRows PROVE resized(l) \in LockRows
  <2>1. lock[l] \in LockRows /\ lock[l].released <= lock[l].pax /\ lock[l].released \in Nat /\ pax \in Nat
        /\ Drawn(l) \in Nat /\ Tree(l).allocated \in Nat
    BY <1>2, <1>3, LockFacts
  <2>2. ~(pax = bulk.pax \/ l \notin Departures) => lock[l].released <= pax
    BY <1>1, <2>1 DEF Floor
  <2>3. lock[l].released <= pax => Lowered(l, pax) \in LockRows /\ Grown(l, pax) \in LockRows
    BY <1>3, <2>1, ResizedFacts
  <2> QED
    BY <2>1, <2>2, <2>3
<1> HIDE DEF resized
<1>6. ASSUME NEW l \in BulkRows PROVE written[l].pax = resized(l).pax /\ written[l].released = resized(l).released
  BY <1>5 DEF HeldBy, LockRows
<1>7. DOMAIN written = BulkRows
  BY DEF HeldBy
<1> HIDE DEF written
<1>8. ASSUME NEW k \in DOMAIN written, lock[k].parent # NoLock PROVE Asked(written, k) = Asked(lock, k)
  <2>1. k \in BulkRows /\ k \notin Departures
    BY <1>2, <1>3, <1>7, <1>8
  <2> QED
    BY <1>4, <1>6, <2>1 DEF Asked
<1>9. ASSUME t \in DOMAIN written
      PROVE  Asked(lock, t) <= Asked(written, t) \/ Drawn(t) + Split(lock, t) <= Asked(written, t)
  <2>1. Split(lock, t) \in Nat /\ Drawn(t) \in Nat /\ Asked(lock, t) \in Nat /\ Tree(t).allocated = Split(lock, t)
        /\ lock[t].released \in Nat
    BY <1>2, InsideIs, LockFacts
  <2>2. written[t].released = lock[t].released /\ written[t].pax = IF pax = bulk.pax THEN lock[t].pax ELSE pax
    BY <1>2, <1>4, <1>6, <1>7, <1>9
  <2>3. CASE pax = bulk.pax
    BY <2>1, <2>2, <2>3 DEF Asked
  <2>4. CASE pax # bulk.pax
    <3>1. pax >= lock[t].released + Drawn(t) + Split(lock, t)
      BY <1>1, <1>2, <2>1, <2>4 DEF Floor
    <3> QED
      BY <2>1, <2>2, <2>4, <3>1 DEF Asked
  <2> QED
    BY <2>3, <2>4
<1> QED
  BY <1>1, <1>2, <1>3, <1>7, <1>8, <1>9, RowsStayInside

\* "+ seats" on every departure takes nothing off any.
LEMMA AddGroupInside ==
    ASSUME BulkInv, NEW n \in 1..MaxLockPax, AddGroup(n), NEW t \in bulk.rows, Fits(lock, booking, t)
    PROVE  Fits(lock', booking', t)
<1> DEFINE rows == [l \in Departures |-> Grown(l, lock[l].pax + n)]
<1>1. WriteRows(rows) /\ LockMoved /\ PoolInv /\ t \in DOMAIN lock /\ lock[t].parent = NoLock
      /\ \A k \in DOMAIN lock : lock[k].parent # NoLock => k \notin bulk.rows
  BY AddGroupMoves, DepartureIsTop DEF AddGroup
<1>2. Departures \subseteq bulk.rows /\ bulk.rows \subseteq DOMAIN lock
  BY RowsFacts
<1>3. ASSUME NEW l \in Departures PROVE Asked(lock, l) <= Asked(rows, l)
  <2>1. lock[l] \in LockRows /\ lock[l].pax \in Nat /\ lock[l].released \in Nat
    BY <1>1, <1>2, LockFacts
  <2>2. Grown(l, lock[l].pax + n).pax = lock[l].pax + n /\ Grown(l, lock[l].pax + n).released = lock[l].released
    BY <2>1 DEF Grown, LockRows
  <2>3. rows[l] = Grown(l, lock[l].pax + n)
    OBVIOUS
  <2> HIDE DEF rows
  <2> QED
    BY <2>1, <2>2, <2>3 DEF Asked
<1>4. DOMAIN rows = Departures
  OBVIOUS
<1> HIDE DEF rows
<1>5. DOMAIN rows \subseteq DOMAIN lock
  BY <1>2, <1>4
<1>6. \A k \in DOMAIN rows : lock[k].parent # NoLock => Asked(rows, k) = Asked(lock, k)
  BY <1>1, <1>2, <1>4
<1>7. t \in DOMAIN rows => Asked(lock, t) <= Asked(rows, t)
  BY <1>3, <1>4
<1> QED
  BY <1>1, <1>5, <1>6, <1>7, RowsStayInside

\* The same seats off every departure: no more than any has neither drawn nor split.
LEMMA ReleaseGroupInside ==
    ASSUME BulkInv, NEW n \in 1..MaxLockPax, ReleaseGroup(n),
           NEW t \in bulk.rows, lock[t].status = "active", Fits(lock, booking, t)
    PROVE  Fits(lock', booking', t)
<1> DEFINE given(l) == [lock[l] EXCEPT !.released = lock[l].released + n, !.pending = Clip(lock[l].pending - n)]
           done(l) == given(l).pax - given(l).released <= Drawn(l) /\ given(l).pending = 0 /\ Kids(l) = {}
           row(l) == IF done(l) THEN [given(l) EXCEPT !.status = "released"] ELSE given(l)
           rows == [l \in Departures |-> row(l)]
<1>1. WriteRows(rows) /\ n \in 1..GroupReleasable
  BY DEF ReleaseGroup
<1>2. LockMoved /\ PoolInv /\ t \in DOMAIN lock /\ lock[t].parent = NoLock /\ t \in Departures
      /\ \A k \in DOMAIN lock : lock[k].parent # NoLock => k \notin bulk.rows
  BY ReleaseGroupMoves, DepartureIsTop
<1>3. Departures \subseteq bulk.rows /\ bulk.rows \subseteq DOMAIN lock
  BY RowsFacts
<1>4. row(t).pax = lock[t].pax /\ row(t).released = lock[t].released + n
  <2>1. lock[t] \in LockRows
    BY <1>2, LockFacts
  <2> QED
    BY <2>1 DEF LockRows
<1>5. rows[t] = row(t) /\ DOMAIN rows = Departures
  BY <1>2
<1> HIDE DEF row, rows
<1>6. n <= Releasable(t)
  <2> DEFINE S == {Releasable(l) : l \in Departures}
  <2>1. ASSUME NEW l \in Departures PROVE Releasable(l) \in Nat
    <3>1. Tree(l).unallocated \in Nat /\ Drawn(l) \in Nat
      BY <1>2, <1>3, LockFacts
    <3> QED
      BY <3>1, ClipIsNat DEF Releasable
  <2>2. S \in SUBSET Nat /\ Releasable(t) \in S
    BY <1>2, <2>1
  <2> HIDE DEF S
  <2>3. Min(S) <= Releasable(t) /\ Min(S) \in Nat
    BY <2>2, MinIsIn
  <2>4. GroupReleasable = Min(S)
    BY DEF GroupReleasable, S
  <2> QED
    BY <1>1, <1>2, <2>1, <2>3, <2>4
<1>7. Drawn(t) + Split(lock, t) <= Asked(rows, t)
  <2>1. Tree(t).room = Asked(lock, t) - Split(lock, t) - Drawn(t) /\ Releasable(t) = Tree(t).room
    BY <1>2, RoomInside, InsideIs DEF Releasable
  <2>2. Split(lock, t) \in Nat /\ Drawn(t) \in Nat /\ lock[t].pax \in Nat /\ lock[t].released \in Nat
    BY <1>2, InsideIs, LockFacts
  <2> QED
    BY <1>4, <1>5, <1>6, <2>1, <2>2 DEF Asked
<1>8. DOMAIN rows \subseteq DOMAIN lock
  BY <1>3, <1>5
<1>9. \A k \in DOMAIN rows : lock[k].parent # NoLock => Asked(rows, k) = Asked(lock, k)
  BY <1>2, <1>3, <1>5
<1> QED
  BY <1>1, <1>2, <1>7, <1>8, <1>9, RowsStayInside

\* An overdue departure is given back whole; the others are left alone.
LEMMA ReleaseOverdueInside ==
    ASSUME BulkInv, NEW d \in Days, NEW late \in BOOLEAN, ReleaseOverdue(d, late), Made,
           NEW t \in bulk.rows, lock'[t].status = "active", Fits(lock, booking, t)
    PROVE  Fits(lock', booking', t)
<1> DEFINE due == {l \in bulk.rows : lock[l].day = d /\ Overdue(l, late)}
           rows == [l \in due |-> ReleasedWhole(l)]
<1>1. WriteRows(rows)
  BY DEF ReleaseOverdue
<1>2. LockMoved /\ PoolInv /\ t \in DOMAIN lock /\ lock[t].parent = NoLock
      /\ \A k \in DOMAIN lock : lock[k].parent # NoLock => k \notin bulk.rows
  BY ReleaseOverdueMoves, DepartureIsTop
<1>3. bulk.rows \subseteq DOMAIN lock
  BY RowsFacts
<1>4. ASSUME NEW l \in due PROVE rows[l].status = "released"
  <2>1. lock[l] \in LockRows
    BY <1>2, <1>3, LockFacts
  <2>2. ReleasedWhole(l).status = "released"
    BY <2>1 DEF ReleasedWhole, LockRows
  <2> QED
    BY <2>2
<1>5. DOMAIN rows = due /\ due \subseteq bulk.rows
  OBVIOUS
<1> HIDE DEF rows, due
<1>6. t \notin DOMAIN rows
  <2>1. t \in DOMAIN rows => lock'[t] = rows[t]
    BY <1>1 DEF WriteRows
  <2> QED
    BY <1>4, <1>5, <2>1
<1>7. DOMAIN rows \subseteq DOMAIN lock
  BY <1>3, <1>5
<1>8. \A k \in DOMAIN rows : lock[k].parent # NoLock => Asked(rows, k) = Asked(lock, k)
  BY <1>2, <1>3, <1>5
<1> QED
  BY <1>1, <1>2, <1>6, <1>7, <1>8, RowsStayInside

\* The same new sub-group on every departure: each has the room for the one it gets.
LEMMA GroupSubGroupsInside ==
    ASSUME BulkInv, NEW pax \in 1..MaxLockPax, GroupSubGroups(pax),
           NEW t \in bulk.rows, Fits(lock, booking, t)
    PROVE  Fits(lock', booking', t)
<1> DEFINE parents == {l \in Departures : lock[l].day >= today}
           days == {lock[l].day : l \in parents}
<1>1. PICK row \in NextRows(days) :
        LET parentOf(k) == CHOOSE l \in parents : row[lock[l].day] = k
        IN  WriteRows([k \in {row[d] : d \in days} |->
               [day |-> lock[parentOf(k)].day, pax |-> pax, released |-> 0, holder |-> bulk.holder,
                status |-> "active", pending |-> 0, lapsed |-> FALSE, parent |-> parentOf(k)]])
  BY DEF GroupSubGroups
<1> DEFINE ids == {row[d] : d \in days}
           parentOf(k) == CHOOSE l \in parents : row[lock[l].day] = k
           made(k) == [day |-> lock[parentOf(k)].day, pax |-> pax, released |-> 0, holder |-> bulk.holder,
                       status |-> "active", pending |-> 0, lapsed |-> FALSE, parent |-> parentOf(k)]
           rows == [k \in ids |-> made(k)]
<1>2. WriteRows(rows)
  BY <1>1
<1>3. ids \subseteq LockIds \ DOMAIN lock
  BY DEF NextRows, Unused
<1>4. ASSUME NEW k \in ids PROVE parentOf(k) \in parents /\ row[lock[parentOf(k)].day] = k
  <2>1. \E l \in parents : row[lock[l].day] = k
    OBVIOUS
  <2> QED
    BY <2>1
<1>5. t \in parents => row[lock[t].day] \in ids /\ pax <= Tree(t).room
  BY DEF GroupSubGroups, RoomOnAll
<1>6. LockMoved /\ PoolInv /\ t \in DOMAIN lock /\ lock[t].parent = NoLock
  BY GroupSubGroupsMoves, DepartureIsTop
<1>7. DOMAIN lock' = DOMAIN lock \cup ids /\ (\A k \in ids : lock'[k] = rows[k]) /\ \A k \in DOMAIN lock : lock'[k] = lock[k]
  BY <1>2, <1>3 DEF WriteRows
<1>8. ASSUME NEW k \in ids PROVE lock'[k].parent = parentOf(k) /\ Asked(lock', k) = pax
  <2>1. lock'[k] = made(k)
    BY <1>7
  <2> HIDE DEF parentOf, ids
  <2>2. made(k).parent = parentOf(k) /\ made(k).pax = pax /\ made(k).released = 0
    OBVIOUS
  <2> HIDE DEF made, rows
  <2>3. pax - 0 = pax
    OBVIOUS
  <2> QED
    BY <2>1, <2>2, <2>3 DEF Asked
<1> HIDE DEF rows, made
<1> HIDE DEF ids, parentOf, parents, days
<1>9. \A k \in DOMAIN lock : Asked(lock', k) = Asked(lock, k) /\ Asked(lock, k) \in Nat
  BY <1>6, <1>7, SplitFacts DEF Asked, PoolInv
<1>10. KidsIn(lock, t) \subseteq DOMAIN lock /\ KidsIn(lock, t) \subseteq KidsIn(lock', t)
  BY <1>6, InsideIs DEF KidsIn
<1>11. ASSUME NEW k \in KidsIn(lock', t), k \notin KidsIn(lock, t) PROVE t \in parents /\ k = row[lock[t].day]
  <2>1. k \in ids
    BY <1>7, <1>11 DEF KidsIn
  <2>2. parentOf(k) = t
    BY <1>8, <2>1 DEF KidsIn
  <2> QED
    BY <1>4, <2>1, <2>2
<1>12. CASE t \in parents
  <2>1. KidsIn(lock', t) \subseteq KidsIn(lock, t) \cup {row[lock[t].day]}
    BY <1>11
  <2>2. Asked(lock', row[lock[t].day]) = pax /\ pax \in Nat
    BY <1>5, <1>8, <1>12
  <2>3. IsLocks(lock) /\ IsLocks(lock') /\ t \in DOMAIN lock'
    BY <1>6, InsideIs
  <2>4. \A k \in KidsIn(lock, t) : Asked(lock', k) = Asked(lock, k)
    BY <1>9, <1>10
  <2>5. Split(lock', t) <= Split(lock, t) + pax
    BY <1>6, <1>10, <2>1, <2>2, <2>3, <2>4, SplitMore
  <2>6. Tree(t).room = Asked(lock, t) - Split(lock, t) - Drawn(t) /\ pax <= Tree(t).room
    BY <1>5, <1>6, <1>12, RoomInside
  <2>7. /\ Drawn(t) \in Nat /\ Split(lock, t) \in Nat /\ Asked(lock, t) \in Nat /\ Split(lock', t) \in Nat
        /\ Fits(lock', booking', t) <=> Drawn(t) + Split(lock', t) <= Asked(lock', t)
    BY <1>6, InsideIs
  <2>8. Asked(lock', t) = Asked(lock, t)
    BY <1>6, <1>9
  <2> QED
    BY <2>2, <2>5, <2>6, <2>7, <2>8
<1>13. CASE t \notin parents
  <2>1. KidsIn(lock', t) = KidsIn(lock, t)
    BY <1>10, <1>11, <1>13
  <2>2. Split(lock', t) = Split(lock, t)
    <3>1. [k \in KidsIn(lock', t) |-> Asked(lock', k)] = [k \in KidsIn(lock, t) |-> Asked(lock, k)]
      BY <1>9, <1>10, <2>1
    <3> QED
      BY <3>1 DEF Split
  <2>3. Asked(lock', t) = Asked(lock, t)
    BY <1>6, <1>9
  <2> QED
    BY <1>6, <2>2, <2>3, InsideIs
<1> QED
  BY <1>12, <1>13

LEMMA GroupStepInside ==
    ASSUME BulkInv, GroupStep, NEW t \in bulk.rows, lock[t].status = "active", lock'[t].status = "active",
           Fits(lock, booking, t)
    PROVE  Fits(lock', booking', t)
<1>1. ~\E days \in Weekdays, pax \in 1..MaxLockPax, h \in Holders, c \in Cutoffs, choice \in {"split", "all"} :
          CreateGroup(days, pax, h, c, choice)
  BY DEF CreateGroup, Made
<1>2. CASE \E pax \in 1..MaxLockPax, h \in Holders, c \in Cutoffs : AmendGroup(pax, h, c)
  BY <1>2, AmendGroupInside
<1>3. CASE \E n \in 1..MaxLockPax : AddGroup(n) \/ ReleaseGroup(n) \/ GroupSubGroups(n)
  BY <1>3, AddGroupInside, ReleaseGroupInside, GroupSubGroupsInside
<1>4. CASE Made /\ \E d \in Days, late \in BOOLEAN : ReleaseOverdue(d, late)
  BY <1>4, ReleaseOverdueInside
<1> QED
  BY <1>1, <1>2, <1>3, <1>4 DEF GroupStep

\* What a lock outside any sub-group may still give on a day is within what it neither gave nor split.
LEMMA LeftInside ==
    ASSUME PoolInv, NEW b \in Bookings, NEW t \in DOMAIN lock, lock[t].parent = NoLock, NEW d \in Days
    PROVE  LET less == DrawnByLock(booking, {b})
           IN  /\ Clip(Clip(Asked(lock, t) - Split(lock, t)) - less[t]) \in Nat
               /\ t \in DOMAIN PoolLocks(lock, d) =>
                     TreeOf(PoolLocks(lock, d), less, TopOf(PoolLocks(lock, d), t)).remaining[t]
                        <= Clip(Clip(Asked(lock, t) - Split(lock, t)) - less[t])
               /\ t \in DOMAIN Day(d, {b}).remaining =>
                     Day(d, {b}).remaining[t] <= Clip(Clip(Asked(lock, t) - Split(lock, t)) - less[t])
<1> DEFINE less == DrawnByLock(booking, {b})
           rows == PoolLocks(lock, d)
           most == Clip(Clip(Asked(lock, t) - Split(lock, t)) - less[t])
<1>1. IsLocks(lock) /\ Family(lock) /\ IsBookings(booking) /\ less \in [LockIds -> Nat] /\ t \in LockIds
  BY DrawnIsFunction DEF PoolInv, IsLocks
<1>2. Split(lock, t) \in Nat /\ Asked(lock, t) \in Nat
  BY <1>1, SplitFacts
<1> HIDE DEF less
<1>3. Clip(Asked(lock, t) - Split(lock, t)) \in Nat /\ most \in Nat
  <2>1. Clip(Asked(lock, t) - Split(lock, t)) \in Nat
    BY <1>2, ClipIsNat
  <2>2. less[t] \in Nat
    BY <1>1
  <2> QED
    BY <2>1, <2>2, ClipIsNat
<1>4. ASSUME t \in DOMAIN rows PROVE TreeOf(rows, less, TopOf(rows, t)).remaining[t] <= most
  <2>1. /\ IsLocks(rows) /\ rows[t] = lock[t] /\ \A k \in DOMAIN rows : rows[k] = lock[k]
        /\ t \in Tops(rows) /\ KidsIn(rows, t) = KidsIn(lock, t) /\ TopOf(rows, t) = t
    BY <1>1, <1>4, DayRows DEF IsFamilies, Tops, TopOf
  <2> HIDE DEF rows
  <2>2. KidsIn(rows, t) \subseteq DOMAIN rows
    BY DEF KidsIn
  <2>3. [k \in KidsIn(rows, t) |-> Asked(rows, k)] = [k \in KidsIn(lock, t) |-> Asked(lock, k)]
    BY <2>1, <2>2 DEF Asked
  <2>4. Total([k \in KidsIn(rows, t) |-> Asked(rows, k)]) = Split(lock, t) /\ Asked(rows, t) = Asked(lock, t)
    BY <2>1, <2>3 DEF Split, Asked
  <2> DEFINE tree == TreeOf(rows, less, t)
             unsplit == IF tree.pend > 0 THEN Clip(tree.held - Owns(rows, less, KidsIn(rows, t))) ELSE tree.held
  <2>5. /\ tree.unallocated = Clip(Asked(rows, t) - Total([k \in KidsIn(rows, t) |-> Asked(rows, k)]))
        /\ tree.remaining[t] = Least(Clip(tree.unallocated - less[t]), unsplit)
    BY <1>1, <1>4, <2>1, TreeIs DEF Tops
  <2>6. tree.remaining[t] = Least(most, unsplit)
    BY <2>4, <2>5
  <2>7. unsplit \in Int
    <3>1. TreeOf(rows, less, t).held \in Nat
      BY <1>1, <1>4, <2>1, TreeNumbers DEF Tops
    <3>2. Owns(rows, less, KidsIn(rows, t)) \in Nat
      <4>1. Falls(less, less, [x \in LockIds |-> 0])
        BY <1>1 DEF Falls
      <4> QED
        BY <2>1, <2>2, <4>1, OwnsFall
    <3> QED
      BY <3>1, <3>2 DEF Clip
  <2> HIDE DEF tree, unsplit, most
  <2>8. tree.remaining[t] <= most
    BY <1>3, <2>6, <2>7 DEF Least
  <2> QED
    BY <2>1, <2>8 DEF tree
<1>5. ASSUME t \in DOMAIN Day(d, {b}).remaining PROVE Day(d, {b}).remaining[t] <= most
  <2>1. DOMAIN Day(d, {b}).remaining = DOMAIN rows /\ IsFamilies(rows)
    BY <1>1, DayIs, DayRows DEF Day
  <2>2. Day(d, {b}).remaining[t] = TreeOf(rows, less, TopOf(rows, t)).remaining[t]
    BY <1>5, <2>1, DayIs DEF Day, less, IsFamilies
  <2> QED
    BY <1>4, <1>5, <2>1, <2>2
<1> QED
  BY <1>3, <1>4, <1>5 DEF less

\* Draws capped one day after another by what the days before left are together within the cap.
LEMMA CappedTotal ==
    ASSUME NEW S \in SUBSET Nat, IsFiniteSet(S), NEW x \in [S -> Nat], NEW y \in [S -> Nat], NEW most \in Nat,
           \A d \in S : y[d] <= x[d] /\ y[d] <= Clip(most - Below(x, d))
    PROVE  Total(y) <= most
<1>1. \A n \in Nat : Below(x, n) \in Nat /\ Below(y, n) \in Nat
  BY BelowFacts
<1> DEFINE Capped(n) == Below(y, n) <= most /\ Below(y, n) <= Below(x, n)
           Bad == {n \in Nat : ~Capped(n)}
<1>2. Bad = {}
  <2> SUFFICES ASSUME Bad # {} PROVE FALSE
    OBVIOUS
  <2>1. Min(Bad) \in Bad /\ \A n \in Bad : Min(Bad) <= n
    BY MinIsIn
  <2> DEFINE m == Min(Bad) - 1
  <2>2. Min(Bad) # 0
    <3>1. Capped(0)
      BY BelowFacts
    <3> QED
      BY <2>1, <3>1
  <2>3. m \in Nat /\ m + 1 = Min(Bad) /\ m \notin Bad
    <3>1. Min(Bad) \in Nat
      BY <2>1
    <3> HIDE DEF Bad
    <3> QED
      BY <2>1, <2>2, <3>1
  <2>4. Capped(m) /\ ~Capped(m + 1)
    BY <2>1, <2>3
  <2> HIDE DEF m, Bad
  <2>5. Below(x, m) \in Nat /\ Below(y, m) \in Nat /\ Below(y, m) <= most /\ Below(y, m) <= Below(x, m)
    BY <1>1, <2>3, <2>4
  <2>6. CASE m \in S
    <3>1. Below(x, m + 1) = Below(x, m) + x[m] /\ Below(y, m + 1) = Below(y, m) + y[m]
      BY <2>3, <2>6, BelowFacts
    <3>2. x[m] \in Nat /\ y[m] \in Nat /\ y[m] <= x[m] /\ y[m] <= Clip(most - Below(x, m))
      BY <2>6
    <3>3. Capped(m + 1)
      BY <2>5, <3>1, <3>2 DEF Clip
    <3> QED
      BY <2>4, <3>3
  <2>7. CASE m \notin S
    <3>1. Below(x, m + 1) = Below(x, m) /\ Below(y, m + 1) = Below(y, m)
      BY <2>3, <2>7, BelowFacts
    <3> QED
      BY <2>4, <3>1
  <2> QED
    BY <2>6, <2>7
<1>3. PICK n \in Nat : \A d \in S : d < n
  BY Beyond
<1>4. Below(y, n) = Total(y) /\ Capped(n)
  BY <1>2, <1>3, AllBelow
<1> QED
  BY <1>4

\* A restored booking draws on a lock, over all its days, no more than that lock has left.
LEMMA RestoredWithin ==
    ASSUME PoolInv, NEW b \in Bookings, Exists(b), NEW l \in LockIds, NEW most \in Nat,
           \A d \in Days : l \in DOMAIN Day(d, {b}).remaining => Day(d, {b}).remaining[l] <= most
    PROVE  LET made == RestoredTrips(b, Seen(b)) IN Total([d \in DOMAIN made |-> made[d].draws[l]]) <= most
<1> DEFINE seen == Seen(b)
           trips == booking[b].trips
           drawing == {d \in DOMAIN trips : ~BoatTaken(seen[d], trips[d])}
           ahead(d, k) == {e \in drawing : e < d /\ trips[e].draws[k] > 0}
           first(d, k) == Min(ahead(d, k) \cup {d})
           left(d, k) == IF k \in DOMAIN seen[first(d, k)].remaining THEN seen[first(d, k)].remaining[k] ELSE 0
           spent(d, k) == Total([e \in ahead(d, k) |-> trips[e].draws[k]])
           back(d, k) == Least(trips[d].draws[k], Clip(left(d, k) - spent(d, k)))
           new == [d \in DOMAIN trips |->
              IF d \notin drawing THEN [trips[d] EXCEPT !.boat = NoBoat]
              ELSE [trips[d] EXCEPT !.draws = [k \in LockIds |-> back(d, k)]]]
           S == {d \in drawing : trips[d].draws[l] > 0}
           x == [d \in S |-> trips[d].draws[l]]
           y == [d \in S |-> new[d].draws[l]]
<1>1. RestoredTrips(b, seen) = new
  BY Zenon DEF RestoredTrips
<1>2. trips \in TripPlans
  BY RowFacts
<1>3. /\ DOMAIN trips \subseteq Days /\ IsFiniteSet(DOMAIN trips)
      /\ \A d \in DOMAIN trips : trips[d] \in SoldTrips /\ trips[d] \in Trips /\ trips[d].draws[l] \in Nat
  <2>1. /\ DOMAIN trips \subseteq Days /\ IsFiniteSet(DOMAIN trips)
        /\ \A d \in DOMAIN trips : trips[d] \in SoldTrips /\ trips[d] \in Trips
    BY <1>2, PlanFacts
  <2> QED
    BY <1>2, <2>1, PlanNumbers
<1>4. /\ new \in TripPlans /\ DOMAIN new = DOMAIN trips
      /\ \A d \in DOMAIN trips : new[d].draws[l] <= trips[d].draws[l]
  BY <1>1, RestoredFacts
<1>5. \A d \in DOMAIN trips : new[d].draws[l] \in Nat
  BY <1>4, PlanNumbers
<1>6. ASSUME NEW d \in drawing PROVE new[d].draws[l] = back(d, l)
  <2> DEFINE draws == [k \in LockIds |-> back(d, k)]
  <2>1. new[d] = [trips[d] EXCEPT !.draws = draws] /\ trips[d] \in Trips /\ draws[l] = back(d, l)
    BY <1>3
  <2> HIDE DEF new, draws, back
  <2> QED
    BY <2>1 DEF Trips
<1>7. ASSUME NEW d \in DOMAIN trips \ S PROVE new[d].draws[l] = 0
  <2>1. trips[d].draws[l] = 0
    <3>1. CASE d \in drawing
      BY <1>3, <1>7, <3>1
    <3>2. CASE d \notin drawing
      BY <1>3, <1>7, <3>2 DEF BoatTaken, SoldTrips
    <3> QED
      BY <3>1, <3>2
  <2> HIDE DEF new, S
  <2> QED
    BY <1>4, <1>5, <1>7, <2>1
<1>8. S \in SUBSET Nat /\ S \subseteq DOMAIN trips /\ IsFiniteSet(S)
  <2>1. S \subseteq DOMAIN trips /\ DOMAIN trips \subseteq Nat
    BY <1>3, PoolAssumption
  <2> HIDE DEF S
  <2> QED
    BY <1>3, <2>1, FS_Subset
<1>9. ASSUME NEW d \in S PROVE y[d] <= x[d] /\ y[d] <= Clip(most - Below(x, d))
  <2>1. d \in drawing /\ d \in DOMAIN trips /\ d \in Days /\ d \in Nat /\ y[d] = back(d, l) /\ x[d] = trips[d].draws[l]
        /\ trips[d].draws[l] \in Nat
    BY <1>3, <1>6, <1>8
  <2>2. ahead(d, l) = {e \in DOMAIN x : e < d}
    OBVIOUS
  <2>3. [e \in ahead(d, l) |-> trips[e].draws[l]] = [e \in {i \in DOMAIN x : i < d} |-> x[e]]
    BY <2>2
  <2>4. spent(d, l) = Below(x, d)
    BY <2>3 DEF Below
  <2>5. Below(x, d) \in Nat
    <3>1. x \in [S -> Nat]
      BY <1>3, <1>8
    <3> HIDE DEF x, S
    <3> QED
      BY <1>8, <2>1, <3>1, BelowFacts
  <2>6. ahead(d, l) \cup {d} \in SUBSET Nat /\ ahead(d, l) \cup {d} \subseteq Days
    BY <1>3, <2>1, PoolAssumption
  <2> HIDE DEF ahead, x, y
  <2>7. first(d, l) \in Days
    BY <2>6, MinIsIn
  <2>8. seen[first(d, l)] = Day(first(d, l), {b}) /\ SoundDay(seen[first(d, l)], first(d, l), {b})
    BY <2>7, DayNumbers DEF Seen
  <2>9. left(d, l) \in Nat /\ left(d, l) <= most
    <3> DEFINE e == first(d, l)
    <3>1. e \in Days /\ seen[e] = Day(e, {b}) /\ SoundDay(seen[e], e, {b})
      BY <2>7, <2>8
    <3>2. left(d, l) = IF l \in DOMAIN seen[e].remaining THEN seen[e].remaining[l] ELSE 0
      OBVIOUS
    <3> HIDE DEF e, seen, left, first
    <3>3. CASE l \in DOMAIN seen[e].remaining
      <4>1. seen[e].remaining[l] \in Nat
        BY <3>1, <3>3 DEF SoundDay
      <4>2. seen[e].remaining[l] <= most
        BY <3>1, <3>3
      <4> QED
        BY <3>2, <3>3, <4>1, <4>2
    <3> QED
      BY <3>2, <3>3
  <2> HIDE DEF left, spent, first, S, drawing, seen, trips
  <2>10. y[d] = Least(x[d], Clip(left(d, l) - Below(x, d))) /\ x[d] \in Nat
    BY <2>1, <2>4
  <2> QED
    BY <2>5, <2>9, <2>10 DEF Least, Clip
<1>10. x \in [S -> Nat] /\ y \in [S -> Nat]
  BY <1>3, <1>5, <1>8
<1> DEFINE f == [d \in DOMAIN new |-> new[d].draws[l]]
<1>11. Total(f) = Total(y)
  <2>1. DOMAIN y \subseteq DOMAIN f /\ (\A d \in DOMAIN y : y[d] = f[d]) /\ \A d \in DOMAIN f \ DOMAIN y : f[d] = 0
    <3>1. DOMAIN y = S /\ DOMAIN f = DOMAIN trips /\ \A d \in S : y[d] = new[d].draws[l]
      BY <1>4
    <3>2. \A d \in DOMAIN trips : f[d] = new[d].draws[l]
      BY <1>4
    <3> HIDE DEF S, y, f, new
    <3> QED
      BY <1>7, <1>8, <3>1, <3>2
  <2> HIDE DEF f, y
  <2> QED
    BY <2>1, TotalSupport
<1>12. Total(y) <= most
  <2> HIDE DEF x, y, S
  <2> QED
    BY <1>8, <1>9, <1>10, CappedTotal
<1> HIDE DEF f, new
<1>13. Total(f) <= most
  BY <1>11, <1>12
<1> QED
  BY <1>1, <1>13 DEF f

\* What a lock outside any sub-group has neither given nor split, less what the other bookings draw on it.
LeftBeside(t, b) == Clip(Clip(Asked(lock, t) - Split(lock, t)) - DrawnByLock(booking, {b})[t])

\* A booking weighed draws on a lock no more than it has left beside its sub-groups.
LEMMA WeighedWithin ==
    ASSUME PoolInv, NEW b \in Bookings, NEW row \in BookingRows, HoldsSeats(row), AtHome(row, lock), Weighty(b, row),
           NEW t \in DOMAIN lock, lock[t].parent = NoLock
    PROVE  Takes(row)[t] <= LeftBeside(t, b)
<1> DEFINE d == lock[t].day
           trip == row.trips[d]
           day == Day(d, {b})
<1>1. t \in LockIds /\ row.trips \in TripPlans
  BY LockFacts DEF BookingRows
<1>2. Takes(row)[t] = IF d \in DOMAIN row.trips THEN trip.draws[t] ELSE 0
  BY <1>1, TakesOn
<1>3. lock[t].day \in Days
  BY LockFacts DEF LockRows
<1>4. LeftBeside(t, b) \in Nat
  BY <1>3, LeftInside DEF LeftBeside
<1>5. ASSUME d \in DOMAIN row.trips, trip.draws[t] > 0 PROVE trip.draws[t] <= LeftBeside(t, b)
  <2>1. d \in Days /\ trip \in SoldTrips
    BY <1>1, <1>5, PlanFacts
  <2>2. trip.mode # "charter"
    <3>1. trip.mode = "charter" => trip.draws[t] = 0
      BY <1>1, <2>1, SoldFacts
    <3> QED
      BY <1>5, <3>1
  <2>3. PICK anyway \in BOOLEAN :
           \/ WeighDay(day, trip, row.agent, anyway) = "fits"
           \/ WeighDay(day, trip, row.agent, anyway) = "displaced" /\ trip.displaced
    BY <1>5 DEF Weighty
  <2> HIDE DEF day, trip, d
  <2>4. Drawable(day, trip, row.agent)
    BY <2>2, <2>3 DEF WeighDay, WeighSeats
  <2>5. t \in DOMAIN day.rows /\ trip.draws[t] <= day.remaining[t]
    BY <1>1, <1>5, <2>4 DEF Drawable
  <2>6. DOMAIN day.remaining = DOMAIN day.rows /\ (t \in DOMAIN day.remaining => day.remaining[t] \in Nat)
    <3>1. SoundDay(day, d, {b})
      BY <2>1, DayNumbers DEF day
    <3> QED
      BY <3>1 DEF SoundDay
  <2>7. t \in DOMAIN day.remaining => day.remaining[t] <= LeftBeside(t, b)
    BY <2>1, LeftInside DEF day, LeftBeside
  <2>8. trip.draws[t] \in Nat
    BY <1>1, <2>1, SoldFacts
  <2> QED
    BY <1>4, <2>5, <2>6, <2>7, <2>8
<1>6. d \in DOMAIN row.trips => trip.draws[t] \in Nat
  <2>1. ASSUME d \in DOMAIN row.trips PROVE trip.draws \in [LockIds -> Nat]
    BY <1>1, <2>1, PlanFacts, SoldFacts
  <2> QED
    BY <1>1, <2>1
<1> HIDE DEF d, trip
<1> QED
  BY <1>2, <1>4, <1>5, <1>6

\* So does a booking made, which is weighed against its own days' locks.
LEMMA MadeWithin ==
    ASSUME PoolInv, AllTripsSized, NEW b \in Bookings, BookingMoved(b), ~Exists(b), Answered(b, booking'[b]),
           HoldsSeats(booking'[b]), NEW t \in DOMAIN lock, lock[t].parent = NoLock
    PROVE  Takes(booking'[b])[t] <= LeftBeside(t, b)
<1> DEFINE row == booking'[b]
<1>1. ~HoldsSeats(booking[b]) /\ ~ByApproval(b, row) /\ ~ByRestore(b, row)
  BY DEF HoldsSeats, Exists, ByApproval, ByRestore, Releasing
<1>2. row \in BookingRows /\ DrawsEntitled(b, row)
  BY <1>1 DEF BookingMoved, Admissible
<1>3. AtHome(row, lock)
  BY <1>1, <1>2 DEF AtHome, DrawsEntitled
<1>4. Weighty(b, row)
  BY <1>1 DEF Answered, Yields
<1> HIDE DEF row
<1>5. HoldsSeats(row)
  BY DEF row
<1>6. Takes(row)[t] <= LeftBeside(t, b)
  BY <1>2, <1>3, <1>4, <1>5, WeighedWithin
<1> QED
  BY <1>6 DEF row

\* So does a booking restored, which draws what is left.
LEMMA RestoredLess ==
    ASSUME PoolInv, NEW b \in Bookings, RestoreBooking(b, Seen(b)), NEW t \in DOMAIN lock, lock[t].parent = NoLock
    PROVE  Takes(booking'[b])[t] <= LeftBeside(t, b)
<1> DEFINE bk == booking[b]
           new == RestoredTrips(b, Seen(b))
           made == Planned(bk.trips, new)
           row == [bk EXCEPT !.status = "confirmed", !.trips = made]
<1>1. bk.status \in Releasing /\ booking' = [booking EXCEPT ![b] = row]
  BY DEF RestoreBooking
<1>2. Exists(b) /\ t \in LockIds
  BY <1>1, LockFacts DEF Exists, Releasing
<1>3. bk \in BookingRows /\ IsOld(bk.trips)
  BY <1>2, RowFacts
<1>4. new \in TripPlans
  BY <1>2, RestoredFacts
<1>5. booking'[b] = row
  BY <1>1 DEF PoolInv, IsBookings
<1>6. LeftBeside(t, b) \in Nat /\ \A d \in Days : t \in DOMAIN Day(d, {b}).remaining => Day(d, {b}).remaining[t] <= LeftBeside(t, b)
  <2>1. \A d \in Days : /\ LeftBeside(t, b) \in Nat
                        /\ t \in DOMAIN Day(d, {b}).remaining => Day(d, {b}).remaining[t] <= LeftBeside(t, b)
    BY LeftInside DEF LeftBeside
  <2>2. lock[t].day \in Days
    BY LockFacts DEF LockRows
  <2> QED
    BY <2>1, <2>2
<1>7. Total([d \in DOMAIN new |-> new[d].draws[t]]) <= LeftBeside(t, b)
  BY <1>2, <1>6, RestoredWithin
<1> HIDE DEF new
<1>8. made \in TripPlans /\ SameButMarked(new, made)
  BY <1>3, <1>4, PlannedFacts
<1> HIDE DEF made
<1>9. row.trips = made
  BY <1>3 DEF BookingRows
<1> HIDE DEF row
<1>10. [d \in DOMAIN made |-> made[d].draws[t]] = [d \in DOMAIN new |-> new[d].draws[t]]
  BY <1>8 DEF SameButMarked
<1>11. DrawnBy(row, t) <= LeftBeside(t, b)
  BY <1>7, <1>9, <1>10 DEF DrawnBy
<1> QED
  BY <1>2, <1>5, <1>6, <1>11 DEF Takes

\* A lock its sub-groups fit goes on fitting them when a booking draws on it no more than it did, or what is left.
LEMMA BookingInside ==
    ASSUME PoolInv, NEW b \in Bookings, BookingMoved(b), NEW t \in DOMAIN lock, lock[t].parent = NoLock,
           \/ Takes(booking'[b])[t] <= Takes(booking[b])[t]
           \/ Takes(booking'[b])[t] <= LeftBeside(t, b),
           Fits(lock, booking, t)
    PROVE  Fits(lock', booking', t)
<1> DEFINE less == DrawnByLock(booking, {b})
<1>1. /\ lock' = lock /\ IsLocks(lock) /\ IsBookings(booking) /\ IsBookings(booking')
      /\ booking' = [booking EXCEPT ![b] = booking'[b]] /\ t \in LockIds
  BY BookingKeepsSound, LockFacts DEF PoolInv, BookingMoved
<1>2. DrawnByLock(booking', {b}) = less
  <2>1. \A c \in Bookings \ {b} : booking'[c] = booking[c]
    BY <1>1 DEF IsBookings
  <2> QED
    BY <2>1, OthersStand
<1> HIDE DEF less
<1>3. Falls(DrawnByLock(booking, {}), less, Takes(booking[b])) /\ Falls(DrawnByLock(booking', {}), less, Takes(booking'[b]))
  <2>1. Falls(DrawnByLock(booking, {}), DrawnByLock(booking, {b}), Takes(booking[b]))
    BY <1>1, TakesFacts
  <2>2. Falls(DrawnByLock(booking', {}), DrawnByLock(booking', {b}), Takes(booking'[b]))
    BY <1>1, TakesFacts
  <2> QED
    BY <1>2, <2>1, <2>2 DEF less
<1> DEFINE was == DrawnByLock(booking, {})[t]
           now == DrawnByLock(booking', {})[t]
           gives == Takes(booking[b])[t]
           takes == Takes(booking'[b])[t]
<1>4. /\ was \in Nat /\ now \in Nat /\ less[t] \in Nat /\ gives \in Nat /\ takes \in Nat
      /\ was = less[t] + gives /\ now = less[t] + takes
  BY <1>1, <1>3 DEF Falls
<1>5. /\ Split(lock, t) \in Nat /\ Asked(lock, t) \in Nat
      /\ was + Split(lock, t) <= Asked(lock, t)
      /\ (now + Split(lock, t) <= Asked(lock, t) => Fits(lock, booking', t))
  <2>1. /\ Split(lock, t) \in Nat /\ Asked(lock, t) \in Nat
        /\ Fits(lock, booking, t) <=> was + Split(lock, t) <= Asked(lock, t)
    BY <1>1, FitsIs
  <2>2. Fits(lock, booking', t) <=> now + Split(lock, t) <= Asked(lock, t)
    BY <1>1, FitsIs
  <2> QED
    BY <2>1, <2>2
<1>6. takes <= gives \/ takes <= Clip(Clip(Asked(lock, t) - Split(lock, t)) - less[t])
  BY DEF LeftBeside, less
<1> HIDE DEF was, now, gives, takes
<1>7. now + Split(lock, t) <= Asked(lock, t)
  BY <1>4, <1>5, <1>6 DEF Clip
<1> QED
  BY <1>1, <1>5, <1>7

LEMMA GuestInside ==
    ASSUME BulkInv, AllTripsSized, NEW b \in Bookings, GuestStep(b), NEW t \in bulk.rows, Fits(lock, booking, t)
    PROVE  Fits(lock', booking', t)
<1>1. BookingMoved(b) /\ PoolInv /\ t \in DOMAIN lock /\ lock[t].parent = NoLock /\ t \in LockIds
  BY GuestMoves, DepartureIsTop
<1>2. ASSUME NEW agent \in Agents, NEW trips \in Itineraries, CreateBooking(b, Seen(b), "confirm", agent, trips, FALSE)
      PROVE  Answered(b, booking'[b]) /\ ~Exists(b)
  BY <1>1, <1>2, CreateAnswered DEF CreateBooking
<1>3. CASE \E agent \in Agents, trips \in Itineraries : CreateBooking(b, Seen(b), "confirm", agent, trips, FALSE)
  <2>1. Answered(b, booking'[b]) /\ ~Exists(b)
    BY <1>2, <1>3
  <2>2. CASE HoldsSeats(booking'[b])
    BY <1>1, <2>1, <2>2, MadeWithin, BookingInside
  <2>3. CASE ~HoldsSeats(booking'[b])
    <3>1. Takes(booking'[b])[t] = 0 /\ LeftBeside(t, b) \in Nat
      BY <1>1, <2>3, LeftInside, LockFacts DEF Takes, LeftBeside, LockRows
    <3> QED
      BY <1>1, <3>1, BookingInside
  <2> QED
    BY <2>1, <2>2, <2>3
<1>4. CASE CancelBooking(b)
  <2>1. Answered(b, booking'[b]) /\ Yields(booking[b], booking'[b])
    BY <1>1, <1>4, CancelAnswered
  <2>2. booking[b] \in BookingRows /\ booking'[b] \in BookingRows
    BY <1>1, <1>4, RowFacts DEF CancelBooking, IsOpen, Exists, BookingMoved, Admissible
  <2>3. Takes(booking'[b])[t] <= Takes(booking[b])[t]
    BY <1>1, <2>1, <2>2, TakesLess
  <2> QED
    BY <1>1, <2>3, BookingInside
<1>5. CASE RestoreBooking(b, Seen(b))
  BY <1>1, <1>5, RestoredLess, BookingInside
<1> QED
  BY <1>3, <1>4, <1>5 DEF GuestStep

LEMMA GuestSized ==
    ASSUME PoolInv, AllTripsSized, NEW b \in Bookings, BookingMoved(b), GuestStep(b) PROVE AllTripsSized'
<1>1. Answered(b, booking'[b])
  <2>1. CASE \E agent \in Agents, trips \in Itineraries : CreateBooking(b, Seen(b), "confirm", agent, trips, FALSE)
    BY <2>1, CreateAnswered
  <2>2. CASE CancelBooking(b)
    BY <2>2, CancelAnswered
  <2>3. CASE RestoreBooking(b, Seen(b))
    BY <2>3, RestoreAnswered
  <2> QED
    BY <2>1, <2>2, <2>3 DEF GuestStep
<1>2. \A c \in Bookings \ {b} : booking'[c] = booking[c]
  <2>1. booking \in [Bookings -> BookingRows \cup {NoBooking}] /\ booking' = [booking EXCEPT ![b] = booking'[b]]
    BY DEF PoolInv, IsBookings, BookingMoved
  <2> QED
    BY <2>1
<1> QED
  BY <1>1, <1>2 DEF AllTripsSized, Answered, Exists

(* The trips sold while departures of a bulk lock are on sale draw no more *)
(* seats than they have passengers, as everywhere else.                    *)
THEOREM BulkTripsStaySized == BulkSpec => []AllTripsSized
<1>1. BulkInit => AllTripsSized
  BY DEF BulkInit, Init, AllTripsSized, Exists, NoBooking
<1>2. ASSUME BulkInv, AllTripsSized, [BulkNext]_bulkVars PROVE AllTripsSized'
  <2>1. ASSUME UNCHANGED booking PROVE AllTripsSized'
    BY <1>2, <2>1 DEF AllTripsSized, Exists
  <2>2. CASE GroupStep \/ \E l \in LockIds : RowStep(l)
    BY <1>2, <2>1, <2>2, GroupMoves, RowStepMoves DEF LockMoved
  <2>3. ASSUME NEW b \in Bookings, GuestStep(b) PROVE AllTripsSized'
    <3>1. PoolInv /\ BookingMoved(b)
      BY <1>2, <2>3, GuestMoves DEF BulkInv
    <3> QED
      BY <1>2, <2>3, <3>1, GuestSized
  <2>4. CASE UNCHANGED booking
    BY <2>1, <2>4
  <2> QED
    BY <1>2, <2>2, <2>3, <2>4 DEF BulkNext, bulkVars
<1> QED
  BY <1>1, <1>2, BulkHolds, PTL DEF BulkSpec

LEMMA BulkStepInside ==
    ASSUME BulkInv, AllTripsSized, [BulkNext]_bulkVars, NEW t \in bulk.rows,
           lock[t].status = "active", lock'[t].status = "active", Fits(lock, booking, t)
    PROVE  Fits(lock', booking', t)
<1>1. CASE GroupStep
  BY <1>1, GroupStepInside
<1>2. CASE \E l \in LockIds : RowStep(l)
  BY <1>2, RowStepInside
<1>3. CASE \E b \in Bookings : GuestStep(b)
  BY <1>3, GuestInside
<1>4. CASE lock' = lock /\ booking' = booking
  BY <1>4
<1> QED
  BY <1>1, <1>2, <1>3, <1>4 DEF BulkNext, bulkVars

(* The sub-groups of a departure and the seats drawn outside them never    *)
(* come to ask for more than it has, whichever commands, on the bulk lock  *)
(* or on one of its rows, lower, release, split or draw on it.             *)
THEOREM SubGroupsAreInside == BulkSpec => SubGroupsStayInside
<1>1. BulkInv /\ AllTripsSized /\ [BulkNext]_bulkVars => \A l \in bulk.rows : GoesOnFitting(l)
  BY BulkStepInside DEF GoesOnFitting
<1> QED
  BY <1>1, BulkHolds, BulkTripsStaySized, PTL DEF BulkSpec, SubGroupsStayInside

-----------------------------------------------------------------------------
(* Departures keep their seats. No command moves a lock of the bulk locks  *)
(* to another day, so the departures stay on days of their own and every   *)
(* booking's draws on its own days' locks.                                 *)

DaysStand == \A l \in DOMAIN lock : l \in DOMAIN lock' /\ lock'[l].day = lock[l].day

\* Rows written keep the days of the rows there were.
LEMMA RowsStand ==
    ASSUME NEW rows, WriteRows(rows), \A l \in DOMAIN rows \cap DOMAIN lock : rows[l].day = lock[l].day
    PROVE  DaysStand
  BY DEF WriteRows, DaysStand

\* A departure's row resized stays on its day, a top-level lock.
LEMMA DepartureResized ==
    ASSUME BulkInv, NEW l \in Departures, NEW pax \in Nat, lock[l].released <= pax
    PROVE  \A row \in {Lowered(l, pax), Grown(l, pax)} :
              /\ row.day = lock[l].day /\ row.parent = NoLock /\ row.pax = pax /\ row.released = lock[l].released
              /\ row.status = lock[l].status /\ row.lapsed = lock[l].lapsed
<1>1. l \in DOMAIN lock /\ lock[l].parent = NoLock /\ PoolInv /\ lock[l] \in LockRows
  BY DepartureIsTop, LockFacts DEF Departures
<1>2. Lowered(l, pax).day = lock[l].day /\ Lowered(l, pax).parent = NoLock /\ Lowered(l, pax).pax = pax
      /\ Lowered(l, pax).released = lock[l].released
      /\ Lowered(l, pax).status = lock[l].status /\ Lowered(l, pax).lapsed = lock[l].lapsed
  BY <1>1 DEF Lowered, LockRows
<1>3. Grown(l, pax).day = lock[l].day /\ Grown(l, pax).parent = NoLock /\ Grown(l, pax).pax = pax
      /\ Grown(l, pax).released = lock[l].released
      /\ Grown(l, pax).status = lock[l].status /\ Grown(l, pax).lapsed = lock[l].lapsed
  BY <1>1 DEF Grown, LockRows
<1> QED
  BY <1>2, <1>3

(* What a command on the whole bulk lock writes: rows there are, their day, *)
(* parent and expiry as they were, the sub-groups' but for their holder; a *)
(* departure's as itself, more or fewer seats, some given back, or all.    *)
Resized(l, row) ==
    \/ row.pax = lock[l].pax /\ row.released = lock[l].released /\ row.pending = lock[l].pending
       /\ row.status = lock[l].status
    \/ \E pax \in Nat : /\ row.released = lock[l].released /\ row.status = lock[l].status /\ row.pax = pax
                        /\ \/ lock[l].pax <= pax /\ row.pending = Grown(l, pax).pending
                           \/ /\ pax < lock[l].pax /\ Floor(l) <= pax
                              /\ row.pending = Clip(lock[l].pending - (lock[l].pax - pax))
    \/ \E n \in Nat : /\ row.pax = lock[l].pax /\ row.released = lock[l].released + n /\ n > 0 /\ n <= Releasable(l)
                      /\ row.pending = Clip(lock[l].pending - n)
                      /\ row.status \in {lock[l].status, "released"}
    \/ row.pax = lock[l].pax /\ row.released = ReleasedWhole(l).released /\ row.pending = 0 /\ row.status = "released"

Regrouped(rows) ==
    /\ WriteRows(rows) /\ DOMAIN rows \subseteq DOMAIN lock
    /\ \A l \in DOMAIN rows :
          /\ rows[l].day = lock[l].day /\ rows[l].parent = lock[l].parent /\ rows[l].lapsed = lock[l].lapsed
          /\ lock[l].parent = NoLock => l \in bulk.rows /\ Resized(l, rows[l])

LEMMA AmendRegroups ==
    ASSUME BulkInv, NEW pax \in 1..MaxLockPax, NEW h \in Holders, NEW c \in Cutoffs, AmendGroup(pax, h, c)
    PROVE  \E rows : Regrouped(rows)
<1> DEFINE resized(l) == IF pax = bulk.pax \/ l \notin Departures THEN lock[l]
                         ELSE IF pax < lock[l].pax THEN Lowered(l, pax) ELSE Grown(l, pax)
           rows == [l \in BulkRows |-> resized(l)]
           written == IF h = bulk.holder THEN rows ELSE HeldBy(rows, h)
<1>1. /\ pax # bulk.pax => \A l \in Departures : pax >= Floor(l)
      /\ WriteRows(written) /\ PoolInv
  BY DEF AmendGroup, BulkInv
<1>2. ASSUME NEW l \in BulkRows
      PROVE  /\ resized(l) \in LockRows /\ resized(l).day = lock[l].day /\ resized(l).parent = lock[l].parent
             /\ resized(l).lapsed = lock[l].lapsed /\ Resized(l, resized(l))
  <2>1. l \in DOMAIN lock /\ l \in LockIds
    BY <1>1, RowsFacts, LockFacts
  <2>2. /\ lock[l] \in LockRows /\ lock[l].released \in Nat /\ lock[l].pax \in Nat
        /\ lock[l].released <= lock[l].pax /\ Drawn(l) \in Nat /\ Tree(l).allocated \in Nat
    BY <1>1, <2>1, LockFacts
  <2>3. CASE pax = bulk.pax \/ l \notin Departures
    <3>1. resized(l) = lock[l]
      BY <2>3
    <3> HIDE DEF resized
    <3> QED
      BY <2>2, <3>1 DEF Resized
  <2>4. CASE ~(pax = bulk.pax \/ l \notin Departures)
    <3>1. l \in Departures /\ pax \in Nat /\ Floor(l) <= pax
      BY <1>1, <2>4
    <3>2. lock[l].released <= pax
      BY <2>2, <3>1 DEF Floor
    <3>3. ASSUME NEW row \in {Lowered(l, pax), Grown(l, pax)}
          PROVE  /\ row \in LockRows /\ row.day = lock[l].day /\ row.parent = lock[l].parent
                 /\ row.lapsed = lock[l].lapsed /\ row.status = lock[l].status /\ row.pax = pax
                 /\ row.released = lock[l].released
      BY <2>1, <3>1, <3>2, <3>3, DepartureResized, ResizedFacts
    <3>4. CASE pax < lock[l].pax
      <4>1. resized(l) = Lowered(l, pax)
        BY <2>4, <3>4
      <4>2. Lowered(l, pax).pending = Clip(lock[l].pending - (lock[l].pax - pax))
        BY <2>2 DEF Lowered, LockRows
      <4> HIDE DEF resized
      <4> QED
        BY <3>1, <3>3, <3>4, <4>1, <4>2 DEF Resized
    <3>5. CASE ~(pax < lock[l].pax)
      <4>1. resized(l) = Grown(l, pax)
        BY <2>4, <3>5
      <4>2. lock[l].pax <= pax
        BY <2>2, <3>5
      <4> HIDE DEF resized
      <4> QED
        BY <3>1, <3>3, <4>1, <4>2 DEF Resized
    <3> QED
      BY <3>4, <3>5
  <2> QED
    BY <2>3, <2>4
<1> HIDE DEF resized
<1>3. DOMAIN written = BulkRows /\ BulkRows \subseteq DOMAIN lock
  BY RowsFacts DEF HeldBy
<1>4. ASSUME NEW l \in BulkRows
      PROVE  /\ written[l].day = lock[l].day /\ written[l].parent = lock[l].parent /\ written[l].lapsed = lock[l].lapsed
             /\ Resized(l, written[l])
  <2>1. CASE h = bulk.holder
    BY <1>2, <2>1
  <2>2. CASE h # bulk.holder
    <3> DEFINE row == resized(l)
               new == [row EXCEPT !.holder = h]
    <3>1. written[l] = new
      BY <2>2 DEF HeldBy
    <3>2. /\ row \in LockRows /\ row.day = lock[l].day /\ row.parent = lock[l].parent /\ row.lapsed = lock[l].lapsed
          /\ Resized(l, row)
      BY <1>2
    <3> HIDE DEF row, written
    <3>3. /\ new.day = row.day /\ new.parent = row.parent /\ new.lapsed = row.lapsed /\ new.pax = row.pax
          /\ new.released = row.released /\ new.pending = row.pending /\ new.status = row.status
      BY <3>2 DEF LockRows
    <3> HIDE DEF new
    <3>4. Resized(l, new)
      BY <3>2, <3>3 DEF Resized
    <3> QED
      BY <3>1, <3>2, <3>3, <3>4
  <2> QED
    BY <2>1, <2>2
<1> HIDE DEF written
<1>5. ASSUME NEW l \in BulkRows, lock[l].parent = NoLock PROVE l \in bulk.rows
  BY <1>5 DEF BulkRows, TopOf
<1>6. Regrouped(written)
  BY <1>1, <1>3, <1>4, <1>5 DEF Regrouped
<1> QED
  BY <1>6

LEMMA AddRegroups ==
    ASSUME BulkInv, NEW n \in 1..MaxLockPax, AddGroup(n)
    PROVE  \E rows : Regrouped(rows)
<1> DEFINE rows == [l \in Departures |-> Grown(l, lock[l].pax + n)]
<1>1. WriteRows(rows) /\ PoolInv
  BY DEF AddGroup, BulkInv
<1>2. ASSUME NEW l \in Departures
      PROVE  /\ l \in DOMAIN lock /\ l \in bulk.rows /\ rows[l].day = lock[l].day /\ rows[l].parent = lock[l].parent
             /\ rows[l].lapsed = lock[l].lapsed /\ Resized(l, rows[l])
  <2> DEFINE more == lock[l].pax + n
  <2>1. l \in bulk.rows /\ l \in DOMAIN lock /\ lock[l].parent = NoLock
    BY DepartureIsTop DEF Departures
  <2>2. lock[l].released \in Nat /\ lock[l].pax \in Nat /\ lock[l].released <= lock[l].pax
    BY <1>1, <2>1, LockFacts
  <2>3. more \in Nat /\ lock[l].pax <= more /\ lock[l].released <= more
    BY <2>2
  <2>4. rows[l] = Grown(l, more)
    OBVIOUS
  <2> HIDE DEF more, rows
  <2>5. /\ rows[l].day = lock[l].day /\ rows[l].parent = NoLock /\ rows[l].pax = more /\ rows[l].released = lock[l].released
        /\ rows[l].status = lock[l].status /\ rows[l].lapsed = lock[l].lapsed
    BY <2>3, <2>4, DepartureResized
  <2>6. Resized(l, rows[l])
    BY <2>3, <2>4, <2>5 DEF Resized
  <2> QED
    BY <2>1, <2>5, <2>6
<1>3. DOMAIN rows = Departures
  OBVIOUS
<1> HIDE DEF rows
<1>4. Regrouped(rows)
  BY <1>1, <1>2, <1>3 DEF Regrouped
<1> QED
  BY <1>4

LEMMA ReleaseRegroups ==
    ASSUME BulkInv, NEW n \in 1..MaxLockPax, ReleaseGroup(n)
    PROVE  \E rows : Regrouped(rows)
<1> DEFINE given(l) == [lock[l] EXCEPT !.released = @ + n, !.pending = Clip(@ - n)]
           done(l) == given(l).pax - given(l).released <= Drawn(l) /\ given(l).pending = 0 /\ Kids(l) = {}
           written(l) == IF done(l) THEN [given(l) EXCEPT !.status = "released"] ELSE given(l)
           rows == [l \in Departures |-> written(l)]
<1>1. Departures # {} /\ n \in 1..GroupReleasable /\ WriteRows(rows) /\ PoolInv
  BY DEF ReleaseGroup, BulkInv
<1>2. ASSUME NEW l \in Departures
      PROVE  l \in DOMAIN lock /\ l \in bulk.rows /\ lock[l].parent = NoLock /\ lock[l] \in LockRows /\ Releasable(l) \in Nat
  <2>1. l \in bulk.rows /\ l \in DOMAIN lock /\ lock[l].parent = NoLock
    BY DepartureIsTop DEF Departures
  <2>2. lock[l] \in LockRows /\ Tree(l).unallocated \in Nat /\ Drawn(l) \in Nat
    BY <1>1, <2>1, LockFacts
  <2>3. Releasable(l) \in Nat
    BY <2>2 DEF Releasable, Clip
  <2> QED
    BY <2>1, <2>2, <2>3
<1>3. ASSUME NEW l \in Departures PROVE n \in Nat /\ n > 0 /\ n <= Releasable(l)
  <2> DEFINE S == {Releasable(x) : x \in Departures}
  <2>1. S \in SUBSET Nat /\ S # {} /\ Releasable(l) \in S
    BY <1>1, <1>2
  <2>2. Min(S) \in Nat /\ Min(S) <= Releasable(l)
    <3> HIDE DEF S
    <3>1. Min(S) \in S /\ \A x \in S : Min(S) <= x
      BY <2>1, MinIsIn
    <3> QED
      BY <2>1, <3>1
  <2>3. n \in 1..Min(S)
    BY <1>1 DEF GroupReleasable
  <2> HIDE DEF S
  <2> QED
    BY <1>2, <2>2, <2>3
<1>4. ASSUME NEW l \in Departures
      PROVE  /\ written(l).day = lock[l].day /\ written(l).parent = lock[l].parent /\ written(l).lapsed = lock[l].lapsed
             /\ Resized(l, written(l))
  <2> DEFINE more == lock[l].released + n
             less == Clip(lock[l].pending - n)
             kept == [lock[l] EXCEPT !.released = more, !.pending = less]
             closed == [kept EXCEPT !.status = "released"]
             row == written(l)
  <2>1. kept = given(l)
    OBVIOUS
  <2>2. row = closed \/ row = kept
    BY <2>1
  <2> HIDE DEF more, less, written, given, done
  <2>3. /\ kept.day = lock[l].day /\ kept.parent = lock[l].parent /\ kept.lapsed = lock[l].lapsed /\ kept.pax = lock[l].pax
        /\ kept.released = more /\ kept.pending = less /\ kept.status = lock[l].status
    BY <1>2 DEF LockRows
  <2>4. /\ closed.day = lock[l].day /\ closed.parent = lock[l].parent /\ closed.lapsed = lock[l].lapsed
        /\ closed.pax = lock[l].pax /\ closed.released = more /\ closed.pending = less /\ closed.status = "released"
    BY <1>2 DEF LockRows
  <2> HIDE DEF kept, closed
  <2>5. /\ row.day = lock[l].day /\ row.parent = lock[l].parent /\ row.lapsed = lock[l].lapsed /\ row.pax = lock[l].pax
        /\ row.released = more /\ row.pending = less /\ row.status \in {lock[l].status, "released"}
    BY <2>2, <2>3, <2>4
  <2> HIDE DEF row
  <2>6. Resized(l, row)
    BY <1>3, <2>5 DEF Resized, more, less
  <2> QED
    BY <2>5, <2>6 DEF row
<1>5. DOMAIN rows = Departures /\ \A l \in Departures : rows[l] = written(l)
  OBVIOUS
<1> HIDE DEF rows, written
<1>6. Regrouped(rows)
  BY <1>1, <1>2, <1>4, <1>5 DEF Regrouped
<1> QED
  BY <1>6

LEMMA OverdueRegroups ==
    ASSUME BulkInv, NEW d \in Days, NEW late, ReleaseOverdue(d, late)
    PROVE  \E rows : Regrouped(rows)
<1> DEFINE due == {l \in bulk.rows : lock[l].day = d /\ Overdue(l, late)}
           rows == [l \in due |-> ReleasedWhole(l)]
<1>1. WriteRows(rows) /\ PoolInv
  BY DEF ReleaseOverdue, BulkInv
<1>2. ASSUME NEW l \in due
      PROVE  /\ l \in DOMAIN lock /\ l \in bulk.rows /\ rows[l].day = lock[l].day /\ rows[l].parent = lock[l].parent
             /\ rows[l].lapsed = lock[l].lapsed /\ Resized(l, rows[l])
  <2> DEFINE row == ReleasedWhole(l)
  <2>1. l \in bulk.rows /\ l \in DOMAIN lock /\ lock[l].parent = NoLock
    BY DepartureIsTop
  <2>2. lock[l] \in LockRows /\ rows[l] = row
    BY <1>1, <2>1, LockFacts
  <2>3. row.day = lock[l].day /\ row.parent = lock[l].parent
    BY <1>1, <2>1, ReleasedWholeFacts
  <2>4. row.pax = lock[l].pax /\ row.lapsed = lock[l].lapsed /\ row.status = "released" /\ row.pending = 0
    BY <2>2 DEF ReleasedWhole, LockRows
  <2>5. Resized(l, row)
    BY <2>4 DEF Resized
  <2> QED
    BY <2>1, <2>2, <2>3, <2>4, <2>5
<1>3. DOMAIN rows = due
  OBVIOUS
<1> HIDE DEF rows, due
<1>4. Regrouped(rows)
  BY <1>1, <1>2, <1>3 DEF Regrouped
<1> QED
  BY <1>4

-----------------------------------------------------------------------------
(* How far a lock's seats drawn, waiting and released overlap.             *)

Over(p, q, u) == Clip(u + q - p)

\* Nothing is drawn from a lock not made yet.
LEMMA UnmadeUndrawn ==
    ASSUME PoolInv, NEW l \in LockIds \ DOMAIN lock
    PROVE  DrawnByLock(booking, {})[l] = 0
<1> DEFINE f == [b \in Counted(booking, {}) |-> DrawnBy(booking[b], l)]
<1>1. IsBookings(booking) /\ DrawsExist(booking, lock)
  BY DEF PoolInv
<1>2. ASSUME NEW b \in Counted(booking, {}) PROVE f[b] = 0
  <2> DEFINE trips == booking[b].trips
             g == [d \in DOMAIN trips |-> trips[d].draws[l]]
  <2>1. b \in Bookings /\ booking[b].status # "absent"
    BY DEF Counted, HoldsSeats
  <2>2. trips \in TripPlans
    BY <1>1, <2>1, BookingFacts
  <2>3. \A d \in DOMAIN trips : trips[d].draws[l] \in Nat
    BY <2>2, PlanNumbers
  <2>4. \A d \in DOMAIN trips : g[d] = 0
    BY <1>1, <2>1, <2>3 DEF DrawsExist
  <2>5. DrawnBy(booking[b], l) = Total(g)
    BY DEF DrawnBy
  <2> HIDE DEF trips
  <2>6. g = [d \in DOMAIN trips |-> g[d]]
    OBVIOUS
  <2> HIDE DEF g
  <2>7. SumOver(g, DOMAIN trips) = 0
    BY <2>4, LockSumNone
  <2> QED
    BY <2>5, <2>6, <2>7 DEF SumOver
<1>3. DrawnByLock(booking, {})[l] = Total(f)
  BY DEF DrawnByLock
<1>4. f = [b \in Counted(booking, {}) |-> f[b]]
  OBVIOUS
<1> HIDE DEF f
<1>5. SumOver(f, Counted(booking, {})) = 0
  BY <1>2, LockSumNone
<1> QED
  BY <1>3, <1>4, <1>5 DEF SumOver

\* A lock step makes sub-groups nothing is drawn from, so a tree there is draws as much as it did.
LEMMA UsedStands ==
    ASSUME PoolInv, LockMoved, NEW t \in DOMAIN lock, lock[t].parent = NoLock
    PROVE  SumOver(DrawnByLock(booking, {}), KidsIn(lock', t)) = SumOver(DrawnByLock(booking, {}), KidsIn(lock, t))
<1> DEFINE drawn == DrawnByLock(booking, {})
           S == KidsIn(lock, t)
           T == KidsIn(lock', t)
           f == [l \in T |-> drawn[l]]
           g == [l \in S |-> drawn[l]]
<1>1. S \subseteq T /\ T \subseteq DOMAIN lock' /\ DOMAIN lock' \subseteq LockIds
  BY DEF KidsIn, LockMoved, IsLocks
<1>2. \A l \in T \ S : l \notin DOMAIN lock
  BY DEF KidsIn, LockMoved
<1>3. \A l \in T \ S : drawn[l] = 0
  BY <1>1, <1>2, UnmadeUndrawn
<1>4. SumOver(drawn, T) = Total(f) /\ SumOver(drawn, S) = Total(g)
  BY DEF SumOver
<1>5. DOMAIN g \subseteq DOMAIN f /\ (\A x \in DOMAIN g : g[x] = f[x]) /\ \A x \in DOMAIN f \ DOMAIN g : f[x] = 0
  BY <1>1, <1>3
<1> HIDE DEF f, g
<1>6. Total(f) = Total(g)
  BY <1>5, TotalSupport
<1> QED
  BY <1>4, <1>6

LEMMA OverIs ==
    ASSUME PoolInv, NEW t \in DOMAIN lock, lock[t].parent = NoLock
    PROVE  /\ Overcommitted(booking, lock, t) = Over(Asked(lock, t), lock[t].pending, Tree(t).used)
           /\ Asked(lock, t) \in Nat /\ lock[t].pending \in Nat /\ Tree(t).used \in Nat
<1>1. Asked(lock, t) \in Nat /\ lock[t].pending \in Nat /\ Tree(t).used \in Nat
  BY TopNow
<1>2. Overcommitted(booking, lock, t) = Over(Asked(lock, t), lock[t].pending, Tree(t).used)
  BY DEF Overcommitted, Over, Asked, Tree
<1> QED
  BY <1>1, <1>2

LEMMA OverAfter ==
    ASSUME PoolInv, LockMoved, NEW t \in DOMAIN lock, lock[t].parent = NoLock
    PROVE  /\ Overcommitted(booking', lock', t) = Over(Asked(lock', t), lock'[t].pending, Tree(t).used)
           /\ Asked(lock', t) \in Nat /\ lock'[t].pending \in Nat
<1> DEFINE drawn == DrawnByLock(booking, {})
<1>1. /\ IsLocks(lock') /\ t \in DOMAIN lock' /\ lock'[t].parent = NoLock /\ booking' = booking
      /\ drawn \in [LockIds -> Nat]
  BY DrawnIsFunction DEF LockMoved, PoolInv
<1>2. Tree(t).used = drawn[t] + SumOver(drawn, KidsIn(lock', t))
  BY TopNow, UsedStands
<1>3. TreeOf(lock', drawn, t).used = drawn[t] + SumOver(drawn, KidsIn(lock', t))
  BY <1>1, TreeIs
<1>4. Overcommitted(booking', lock', t) = Clip(TreeOf(lock', drawn, t).used + lock'[t].pending - (lock'[t].pax - lock'[t].released))
  BY <1>1 DEF Overcommitted
<1>5. Asked(lock', t) \in Nat /\ lock'[t].pending \in Nat
  BY <1>1 DEF IsLocks, LockRows, Asked
<1> HIDE DEF drawn
<1> QED
  BY <1>2, <1>3, <1>4, <1>5 DEF Over, Asked

\* A row keeps no more waiting against what it asks than it did, or as much as it asks beside what is drawn.
Light(t, row) ==
    \/ row.pending - (row.pax - row.released) <= lock[t].pending - Asked(lock, t)
    \/ Tree(t).used + row.pending <= row.pax - row.released

LEMMA LightStays ==
    ASSUME PoolInv, LockMoved, NEW t \in DOMAIN lock, lock[t].parent = NoLock, Light(t, lock'[t])
    PROVE  ~(Overcommitted(booking', lock', t) > Overcommitted(booking, lock, t))
<1> DEFINE p == Asked(lock, t)
           q == lock[t].pending
           r == Asked(lock', t)
           s == lock'[t].pending
           u == Tree(t).used
<1>1. /\ Overcommitted(booking, lock, t) = Over(p, q, u) /\ Overcommitted(booking', lock', t) = Over(r, s, u)
      /\ p \in Nat /\ q \in Nat /\ r \in Nat /\ s \in Nat /\ u \in Nat
  BY OverIs, OverAfter
<1>2. s - r <= q - p \/ u + s <= r
  BY DEF Light, Asked
<1> HIDE DEF p, q, r, s, u
<1> QED
  BY <1>1, <1>2 DEF Over, Clip

LEMMA SameLight ==
    ASSUME PoolInv, NEW t \in DOMAIN lock, NEW row,
           row.pax = lock[t].pax, row.released = lock[t].released, row.pending \in Nat, row.pending <= lock[t].pending
    PROVE  Light(t, row)
<1>1. lock[t].pax \in Nat /\ lock[t].released \in Nat /\ lock[t].pending \in Nat
  BY LockFacts
<1> QED
  BY <1>1 DEF Light, Asked

\* Where no lock of a tree is drawn past its own seats, the tree's draws are within its sub-groups and the rest.
LEMMA UsedInside ==
    ASSUME PoolInv, NEW t \in DOMAIN lock, lock[t].parent = NoLock, ~Overdrawn(t)
    PROVE  /\ Tree(t).used <= Drawn(t) + Split(lock, t) /\ Tree(t).used \in Nat
           /\ Drawn(t) <= Asked(lock, t) /\ Drawn(t) \in Nat /\ Split(lock, t) \in Nat /\ Asked(lock, t) \in Nat
           /\ Tree(t).allocated = Split(lock, t) /\ Tree(t).unallocated = Clip(Asked(lock, t) - Split(lock, t))
<1> DEFINE drawn == DrawnByLock(booking, {})
           S == KidsIn(lock, t)
           f == [k \in S |-> drawn[k]]
           g == [k \in S |-> Asked(lock, k)]
<1>1. IsLocks(lock) /\ drawn \in [LockIds -> Nat]
  BY DrawnIsFunction DEF PoolInv
<1>2. S \subseteq DOMAIN lock /\ S \in SUBSET LockIds /\ IsFiniteSet(S) /\ (\A k \in DOMAIN lock : Asked(lock, k) \in Nat)
      /\ Split(lock, t) \in Nat
  BY <1>1, SplitFacts
<1>3. Tree(t).used = drawn[t] + SumOver(drawn, S) /\ Tree(t).used \in Nat /\ t \in LockIds
  BY TopNow
<1>4. \A k \in S \cup {t} : drawn[k] <= Asked(lock, k)
  <2>1. \A k \in S \cup {t} : k \in DOMAIN lock /\ k \in LockIds /\ drawn[k] \in Nat /\ Asked(lock, k) \in Nat
    BY <1>1, <1>2, <1>3
  <2>2. \A k \in S \cup {t} : ~(drawn[k] > lock[k].pax - lock[k].released)
    BY DEF Overdrawn, Drawn, Kids
  <2> QED
    BY <2>1, <2>2 DEF Asked
<1>5. f \in [S -> Nat] /\ g \in [S -> Nat] /\ \A k \in S : f[k] <= g[k]
  BY <1>1, <1>2, <1>4
<1>6. SumOver(drawn, S) = Total(f) /\ Split(lock, t) = Total(g)
  BY DEF SumOver, Split
<1>7. SumOver(drawn, S) \in Nat
  BY <1>1, <1>2, LockSum
<1>8. Tree(t).allocated = Split(lock, t) /\ Tree(t).unallocated = Clip(Asked(lock, t) - Split(lock, t))
  BY <1>1, TreeSplit DEF Tree
<1> HIDE DEF f, g
<1>9. Total(f) <= Total(g)
  BY <1>2, <1>5, TotalMono
<1>10. drawn[t] \in Nat /\ drawn[t] <= Asked(lock, t) /\ Asked(lock, t) \in Nat
  BY <1>1, <1>2, <1>3, <1>4
<1> HIDE DEF S
<1> QED
  BY <1>2, <1>3, <1>6, <1>7, <1>8, <1>9, <1>10 DEF Drawn

\* A shortfall is never more than is asked beyond what is drawn.
LEMMA ShortBound ==
    ASSUME PoolInv, NEW d \in Days, NEW own \in Nat, NEW want \in Int
    PROVE  \A short \in {ShortBy(Day(d, {}), own, want), ShortOn(d, own, want)} :
              short \in Nat /\ (short > 0 => short <= want)
<1>1. FreeForLock(Day(d, {}), own) \in Nat
  BY FreeFacts
<1>2. ShortBy(Day(d, {}), own, want) \in Nat /\ (ShortBy(Day(d, {}), own, want) > 0 => ShortBy(Day(d, {}), own, want) <= want)
  BY <1>1 DEF ShortBy, Clip
<1> QED
  BY <1>2 DEF ShortOn

LEMMA KeptLight ==
    ASSUME NEW p \in Nat, NEW q \in Nat, NEW u \in Nat, NEW r \in Nat, p <= r, NEW pend \in Nat,
           NEW short \in Nat, short > 0 => short <= r - u, NEW kept, kept = IF short > pend THEN short ELSE q
    PROVE  kept \in Nat /\ (kept - r <= q - p \/ u + kept <= r)
  OBVIOUS

LEMMA LowerLight ==
    ASSUME NEW p \in Nat, NEW q \in Nat, NEW u \in Nat, NEW n \in Nat, u <= p - n
    PROVE  Clip(q - n) - (p - n) <= q - p \/ u + Clip(q - n) <= p - n
  BY DEF Clip

\* A lock given back whole keeps none waiting, and asks for what is drawn of it or for what it asked.
LEMMA WholeLight ==
    ASSUME PoolInv, NEW t \in DOMAIN lock, NEW row,
           row.pax = lock[t].pax, row.released = ReleasedWhole(t).released, row.pending = 0
    PROVE  Light(t, row)
<1> DEFINE a == lock[t].pax
           r == lock[t].released
           q == lock[t].pending
           u == Tree(t).used
           m == Max({r, a - u})
<1>1. a \in Nat /\ r \in Nat /\ r <= a /\ q \in Nat /\ u \in Nat /\ lock[t] \in LockRows
  BY LockFacts
<1>2. m \in {r, a - u}
  BY <1>1, MaxOfTwo
<1>3. ReleasedWhole(t).released = Least(a, m)
  BY <1>1 DEF ReleasedWhole, LockRows
<1>4. row.pax = a /\ row.released = Least(a, m) /\ row.pending = 0 /\ Asked(lock, t) = a - r
  BY <1>3 DEF Asked
<1> HIDE DEF a, r, m, u, q
<1>5. row.pending - (row.pax - row.released) <= q - (a - r) \/ u + row.pending <= row.pax - row.released
  BY <1>1, <1>2, <1>4 DEF Least
<1> QED
  BY <1>4, <1>5 DEF Light, u, q

\* More seats asked of a lock wait only as far as none are drawn.
LEMMA GrownLight ==
    ASSUME PoolInv, NEW t \in DOMAIN lock, lock[t].parent = NoLock, NEW more \in Nat, lock[t].pax <= more,
           NEW pend \in Nat, NEW own \in Nat,
           NEW short \in {ShortBy(Day(lock[t].day, {}), own, more - lock[t].released - Tree(t).used),
                          ShortOn(lock[t].day, own, more - lock[t].released - Tree(t).used)},
           NEW row, row.pax = more, row.released = lock[t].released,
           row.pending = IF short > pend THEN short ELSE lock[t].pending
    PROVE  Light(t, row)
<1> DEFINE a == lock[t].pax
           r == lock[t].released
           q == lock[t].pending
           u == Tree(t).used
           d == lock[t].day
           want == more - r - u
<1>1. a \in Nat /\ r \in Nat /\ r <= a /\ q \in Nat /\ u \in Nat /\ d \in Days
  BY LockFacts
<1>2. want \in Int /\ want = (more - r) - u /\ short \in {ShortBy(Day(d, {}), own, want), ShortOn(d, own, want)}
  BY <1>1
<1> HIDE DEF want
<1>3. short \in Nat /\ (short > 0 => short <= want)
  BY <1>1, <1>2, ShortBound
<1>4. row.pending = IF short > pend THEN short ELSE q
  OBVIOUS
<1>5. Asked(lock, t) = a - r
  BY DEF Asked
<1> HIDE DEF a, r, q, u, d
<1>6. a - r \in Nat /\ more - r \in Nat /\ a - r <= more - r /\ (short > 0 => short <= (more - r) - u)
  BY <1>1, <1>2, <1>3 DEF a
<1>7. row.pending - (more - r) <= q - (a - r) \/ u + row.pending <= more - r
  BY <1>1, <1>3, <1>4, <1>6, KeptLight
<1> QED
  BY <1>5, <1>7 DEF Light, u, q, r

\* Whatever a command on the whole bulk lock writes of a departure, it overlaps no more.
LEMMA ResizedLight ==
    ASSUME BulkInv, NEW t \in bulk.rows, NEW row, Resized(t, row), ~Overdrawn(t)
    PROVE  Light(t, row)
<1> DEFINE a == lock[t].pax
           r == lock[t].released
           q == lock[t].pending
           u == Tree(t).used
           w == Drawn(t)
           s == Split(lock, t)
<1>1. PoolInv /\ t \in DOMAIN lock /\ lock[t].parent = NoLock
  BY DepartureIsTop
<1>2. /\ a \in Nat /\ r \in Nat /\ r <= a /\ q \in Nat /\ u \in Nat /\ Tree(t).pend \in Nat /\ Tree(t).held \in Nat
      /\ lock[t] \in LockRows
  BY <1>1, LockFacts
<1>3. /\ u <= w + s /\ w \in Nat /\ s \in Nat /\ Tree(t).allocated = s /\ Tree(t).unallocated = Clip((a - r) - s)
      /\ Asked(lock, t) = a - r
  BY <1>1, UsedInside DEF Asked
<1>4. CASE row.pax = a /\ row.released = r /\ row.pending = q
  BY <1>1, <1>2, <1>4, SameLight
<1>5. ASSUME NEW pax \in Nat, row.released = r, row.pax = pax, a <= pax, row.pending = Grown(t, pax).pending
      PROVE  Light(t, row)
  <2> DEFINE short == ShortOn(lock[t].day, Tree(t).held, pax - r - u)
  <2>1. Grown(t, pax).pending = IF short > Tree(t).pend THEN short ELSE q
    BY <1>2 DEF Grown, LockRows
  <2> QED
    BY <1>1, <1>2, <1>5, <2>1, GrownLight
<1>6. ASSUME NEW pax \in Nat, row.released = r, row.pax = pax, pax < a, Floor(t) <= pax, row.pending = Clip(q - (a - pax))
      PROVE  Light(t, row)
  <2> DEFINE n == a - pax
  <2>1. r + w + s <= pax
    BY <1>3, <1>6 DEF Floor
  <2> HIDE DEF a, r, q, u, w, s
  <2>2. n \in Nat /\ a - r \in Nat /\ u <= (a - r) - n /\ pax - r = (a - r) - n
    BY <1>2, <1>3, <1>6, <2>1
  <2>3. Clip(q - n) - ((a - r) - n) <= q - (a - r) \/ u + Clip(q - n) <= (a - r) - n
    BY <1>2, <2>2, LowerLight
  <2>4. row.pending - (row.pax - row.released) <= q - Asked(lock, t) \/ u + row.pending <= row.pax - row.released
    BY <1>3, <1>6, <2>2, <2>3
  <2> QED
    BY <2>4 DEF Light, u, q
<1>7. ASSUME NEW n \in Nat, row.pax = a, row.released = r + n, n > 0, n <= Releasable(t), row.pending = Clip(q - n)
      PROVE  Light(t, row)
  <2>1. n <= Clip(Clip((a - r) - s) - w)
    BY <1>3, <1>7 DEF Releasable
  <2> HIDE DEF a, r, q, u, w, s
  <2>2. a - r \in Nat /\ u <= (a - r) - n /\ a - (r + n) = (a - r) - n
    BY <1>2, <1>3, <1>7, <2>1 DEF Clip
  <2>3. Clip(q - n) - ((a - r) - n) <= q - (a - r) \/ u + Clip(q - n) <= (a - r) - n
    BY <1>2, <2>2, LowerLight
  <2>4. row.pending - (row.pax - row.released) <= q - Asked(lock, t) \/ u + row.pending <= row.pax - row.released
    BY <1>3, <1>7, <2>2, <2>3
  <2> QED
    BY <2>4 DEF Light, u, q
<1>8. CASE row.pax = a /\ row.released = ReleasedWhole(t).released /\ row.pending = 0
  BY <1>1, <1>8, WholeLight
<1> HIDE DEF a, r, q, u, w, s
<1> QED
  BY <1>4, <1>5, <1>6, <1>7, <1>8 DEF Resized, a, r, q

LEMMA RegroupedLight ==
    ASSUME BulkInv, NEW rows, Regrouped(rows), NEW t \in DOMAIN lock, lock[t].parent = NoLock, ~Overdrawn(t)
    PROVE  Light(t, lock'[t])
<1>1. PoolInv /\ lock' = [l \in DOMAIN lock \cup DOMAIN rows |-> IF l \in DOMAIN rows THEN rows[l] ELSE lock[l]]
  BY DEF Regrouped, WriteRows, BulkInv
<1>2. CASE t \in DOMAIN rows
  <2>1. t \in bulk.rows /\ Resized(t, rows[t]) /\ lock'[t] = rows[t]
    BY <1>1, <1>2 DEF Regrouped
  <2> QED
    BY <2>1, ResizedLight
<1>3. CASE t \notin DOMAIN rows
  BY <1>1, <1>3, SameLight, LockFacts
<1> QED
  BY <1>2, <1>3

-----------------------------------------------------------------------------
(* The commands on one departure or sub-group.                             *)

\* A row written is the tree's own, or none of its top-level lock's.
LEMMA RowLight ==
    ASSUME PoolInv, NEW j \in DOMAIN lock, NEW row, WriteLock(j, row), NEW t \in DOMAIN lock,
           j = t => Light(t, row)
    PROVE  Light(t, lock'[t])
<1>1. lock' = [x \in DOMAIN lock \cup {j} |-> IF x = j THEN row ELSE lock[x]]
  BY DEF WriteLock
<1>2. CASE j = t
  BY <1>1, <1>2
<1>3. CASE j # t
  BY <1>1, <1>3, SameLight, LockFacts
<1> QED
  BY <1>2, <1>3

LEMMA AmendLockLight ==
    ASSUME PoolInv, NEW l \in DOMAIN lock, NEW pax \in 1..MaxLockPax,
           AmendLock(l, pax, lock[l].day, lock[l].holder, lock[l].lapsed),
           NEW t \in DOMAIN lock, lock[t].parent = NoLock, ~Overdrawn(t)
    PROVE  Light(t, lock'[t])
<1> DEFINE d == lock[l].day
           h == lock[l].holder
           lapsed == lock[l].lapsed
           row == lock[l]
           tree == Tree(l)
           floor == row.released + Drawn(l) + tree.allocated
           kept == IF pax < row.pax THEN Clip(row.pending - (row.pax - pax)) ELSE row.pending
           ownHeld == IF ~IsHolding(lock, l) THEN 0 ELSE tree.held
           short == IF pax > row.pax THEN ShortBy(Day(d, {}), ownHeld, pax - row.released - tree.used) ELSE 0
           pending == IF short > tree.pend THEN short ELSE kept
           new == [row EXCEPT !.pax = pax, !.day = d, !.holder = h, !.lapsed = lapsed, !.pending = pending]
<1>1. /\ IsTop(l) /\ pax >= floor
      /\ lock' = [j \in DOMAIN lock |->
              IF j = l THEN new
              ELSE IF j \in Kids(l) THEN [lock[j] EXCEPT !.day = d, !.holder = h]
              ELSE lock[j]]
  BY DEF AmendLock
<1>2. lock[l] \in LockRows /\ lock[l].parent = NoLock /\ l \in LockIds
  BY <1>1, LockFacts DEF IsTop
<1>3. t \notin Kids(l)
  BY <1>2, LockAssumption DEF Kids, KidsIn
<1>4. CASE t # l
  <2>1. lock'[t] = lock[t]
    BY <1>1, <1>3, <1>4
  <2>2. lock[t].pending \in Nat /\ lock[t].pending <= lock[t].pending
    BY LockFacts
  <2>3. Light(t, lock[t])
    BY <2>2, SameLight
  <2> QED
    BY <2>1, <2>3
<1>5. CASE t = l
  <2>1. lock'[t] = new /\ pax \in Nat
    <3> HIDE DEF new, floor
    <3>1. lock'[t] = new
      BY <1>1, <1>5
    <3>2. pax \in Nat
      BY PoolAssumption
    <3> QED
      BY <3>1, <3>2
  <2>2. new.pax = pax /\ new.released = row.released /\ new.pending = pending
    BY <1>2 DEF LockRows
  <2>3. /\ row.pax \in Nat /\ row.released \in Nat /\ row.pending \in Nat /\ tree.pend \in Nat /\ tree.held \in Nat
        /\ row.released <= row.pax /\ tree.used \in Nat /\ ownHeld \in Nat
    BY LockFacts
  <2> HIDE DEF new
  <2>4. CASE pax > row.pax
    <3> DEFINE need == ShortBy(Day(lock[t].day, {}), ownHeld, pax - lock[t].released - Tree(t).used)
    <3>1. new.pending = IF need > tree.pend THEN need ELSE lock[t].pending
      BY <1>5, <2>2, <2>3, <2>4
    <3>2. lock[t].pax <= pax /\ new.released = lock[t].released /\ lock[t].parent = NoLock
      BY <1>5, <2>2, <2>3, <2>4
    <3>3. need \in {need, ShortOn(lock[t].day, ownHeld, pax - lock[t].released - Tree(t).used)}
      OBVIOUS
    <3>4. Light(t, new)
      <4> HIDE DEF ownHeld, pending, kept, floor, tree
      <4> QED
        BY <2>1, <2>2, <2>3, <3>1, <3>2, GrownLight
    <3> QED
      BY <2>1, <3>4
  <2>5. CASE ~(pax > row.pax)
    <3> DEFINE n == row.pax - pax
               p == row.pax - row.released
               q == row.pending
               u == tree.used
    <3>1. new.pending = Clip(q - n)
      BY <2>1, <2>2, <2>3, <2>5 DEF Clip
    <3>2. n \in Nat /\ p \in Nat /\ p = Asked(lock, t) /\ new.pax - new.released = p - n
      BY <1>5, <2>1, <2>2, <2>3, <2>5 DEF Asked
    <3>3. u <= Drawn(t) + Split(lock, t) /\ tree.allocated = Split(lock, t) /\ Drawn(t) \in Nat /\ Split(lock, t) \in Nat
      BY <1>5, UsedInside
    <3>4. u <= p - n
      <4> DEFINE a == row.pax
                 r == row.released
                 w == Drawn(t)
                 s == Split(lock, t)
      <4>1. pax >= r + w + s
        BY <1>1, <1>5, <3>3
      <4>2. a \in Nat /\ r \in Nat /\ pax \in Nat /\ w \in Nat /\ s \in Nat /\ u <= w + s /\ u \in Nat
        BY <1>5, <2>1, <2>3, <3>3
      <4>3. n = a - pax /\ p = a - r
        OBVIOUS
      <4> HIDE DEF a, r, w, s, n, p, u
      <4> QED
        BY <4>1, <4>2, <4>3
    <3>5. Clip(q - n) - (p - n) <= q - p \/ u + Clip(q - n) <= p - n
      <4> HIDE DEF n, p, q, u
      <4> QED
        BY <2>3, <3>2, <3>4, LowerLight DEF q, u
    <3>6. u = Tree(t).used /\ q = lock[t].pending
      BY <1>5
    <3> HIDE DEF n, p, q, u
    <3> QED
      BY <2>1, <3>1, <3>2, <3>5, <3>6 DEF Light
  <2> QED
    BY <2>4, <2>5
<1> QED
  BY <1>4, <1>5

LEMMA AddSeatsLight ==
    ASSUME PoolInv, NEW l \in DOMAIN lock, NEW n \in 1..MaxLockPax, AddSeats(l, n),
           NEW t \in DOMAIN lock, lock[t].parent = NoLock
    PROVE  Light(t, lock'[t])
<1> DEFINE more == lock[l].pax + n
           own == IF IsHolding(lock, l) THEN Tree(l).held ELSE 0
           pend == IF IsHolding(lock, l) THEN Tree(l).pend ELSE 0
           short == ShortBy(Day(lock[l].day, {}), own, more - lock[l].released - Tree(l).used)
           kept == IF short > pend THEN short ELSE lock[l].pending
           row == [lock[l] EXCEPT !.pax = more, !.status = "active", !.pending = kept]
<1>1. WriteLock(l, row) /\ lock[l].parent = NoLock
  BY DEF AddSeats, IsTop
<1>2. lock[l] \in LockRows /\ lock[l].pax \in Nat /\ Tree(l).held \in Nat /\ Tree(l).pend \in Nat
  BY LockFacts
<1>3. row.pax = more /\ row.released = lock[l].released /\ row.pending = kept
  BY <1>2 DEF LockRows
<1>4. more \in Nat /\ lock[l].pax <= more /\ own \in Nat /\ pend \in Nat
  BY <1>2
<1>5. Light(l, row)
  <2> HIDE DEF row, more, own, pend
  <2> QED
    BY <1>1, <1>3, <1>4, GrownLight
<1> HIDE DEF row
<1> QED
  BY <1>1, <1>5, RowLight

LEMMA ReleaseSeatsLight ==
    ASSUME PoolInv, NEW l \in DOMAIN lock, NEW n \in 1..MaxLockPax, ReleaseSeats(l, n),
           NEW t \in DOMAIN lock, lock[t].parent = NoLock, ~Overdrawn(t)
    PROVE  Light(t, lock'[t])
<1> DEFINE own == Drawn(l)
           mine == IF IsTop(l) THEN Tree(l).unallocated ELSE lock[l].pax - lock[l].released
           pending == Clip(lock[l].pending - n)
           done == lock[l].pax - lock[l].released - n <= own /\ (IsTop(l) => pending = 0 /\ Kids(l) = {})
           row == [lock[l] EXCEPT !.released = @ + n, !.pending = pending, !.status = IF done THEN "released" ELSE @]
<1>1. WriteLock(l, row) /\ n \in 1..Clip(mine - own)
  BY DEF ReleaseSeats
<1>2. lock[l] \in LockRows /\ lock[l].pax \in Nat /\ lock[l].released \in Nat /\ lock[l].pending \in Nat
      /\ lock[l].released <= lock[l].pax
  BY LockFacts
<1>3. row.pax = lock[l].pax /\ row.released = lock[l].released + n /\ row.pending = pending
  BY <1>2 DEF LockRows
<1>4. ASSUME l = t PROVE Light(t, row)
  <2> DEFINE a == lock[t].pax
             r == lock[t].released
             q == lock[t].pending
             u == Tree(t).used
             w == Drawn(t)
             s == Split(lock, t)
  <2>1. /\ u <= w + s /\ w \in Nat /\ s \in Nat /\ u \in Nat /\ Tree(t).unallocated = Clip((a - r) - s)
        /\ Asked(lock, t) = a - r
    BY UsedInside DEF Asked
  <2>2. n \in 1..Clip(Clip((a - r) - s) - w)
    BY <1>1, <1>4, <2>1 DEF IsTop
  <2>3. a \in Nat /\ r \in Nat /\ r <= a /\ q \in Nat
    BY <1>2, <1>4
  <2>4. row.pax = a /\ row.released = r + n /\ row.pending = Clip(q - n)
    BY <1>3, <1>4
  <2> HIDE DEF a, r, q, u, w, s, row, mine, own
  <2>5. n \in Nat /\ a - r \in Nat /\ u <= (a - r) - n /\ a - (r + n) = (a - r) - n
    BY <2>1, <2>2, <2>3 DEF Clip
  <2>6. Clip(q - n) - ((a - r) - n) <= q - (a - r) \/ u + Clip(q - n) <= (a - r) - n
    BY <2>1, <2>3, <2>5, LowerLight
  <2>7. row.pending - (row.pax - row.released) <= q - Asked(lock, t) \/ u + row.pending <= row.pax - row.released
    BY <2>1, <2>4, <2>5, <2>6
  <2> QED
    BY <2>7 DEF Light, u, q
<1> HIDE DEF row
<1> QED
  BY <1>1, <1>4, RowLight

LEMMA ConfirmPendingLight ==
    ASSUME PoolInv, NEW l \in DOMAIN lock, NEW n \in 1..MaxLockPax, ConfirmPending(l, n),
           NEW t \in DOMAIN lock
    PROVE  Light(t, lock'[t])
<1> DEFINE w == Tree(l).pend
           row == [lock[l] EXCEPT !.pending = w - n]
           day == Day(lock[l].day, {})
<1>1. WriteLock(l, row) /\ lock[l].parent = NoLock
      /\ n \in 1..(IF SellsUngated(day) THEN w ELSE Least(w, FreeForLock(day, 0)))
  BY DEF ConfirmPending, IsTop
<1>2. lock[l] \in LockRows /\ lock[l].day \in Days /\ w \in Nat
  BY LockFacts
<1>3. FreeForLock(day, 0) \in Nat
  BY <1>2, FreeFacts
<1>4. w = PendOf(Asked(lock, l), lock[l].pending, Tree(l).used) /\ Asked(lock, l) \in Nat /\ lock[l].pending \in Nat
      /\ Tree(l).used \in Nat
  BY <1>1, TopNow
<1>5. w <= lock[l].pending
  <2> DEFINE p == Asked(lock, l)
             q == lock[l].pending
             u == Tree(l).used
  <2> HIDE DEF p, q, u, w
  <2>1. w = PendOf(p, q, u) /\ p \in Nat /\ q \in Nat /\ u \in Nat
    BY <1>4 DEF p, q, u
  <2> QED
    BY <2>1 DEF PendOf, Clip, Least, q
<1>6. row.pax = lock[l].pax /\ row.released = lock[l].released /\ row.pending = w - n
  BY <1>2 DEF LockRows
<1> HIDE DEF w, day
<1>7. w - n \in Nat /\ w - n <= lock[l].pending
  BY <1>1, <1>2, <1>3, <1>4, <1>5 DEF Least
<1> HIDE DEF row
<1>8. Light(l, row)
  BY <1>6, <1>7, SameLight
<1> QED
  BY <1>1, <1>8, RowLight

LEMMA SubGroupLight ==
    ASSUME PoolInv, NEW l \in DOMAIN lock, NEW n, AmendSubGroup(l, n) \/ AddToSubGroup(l, n),
           NEW t \in DOMAIN lock, lock[t].parent = NoLock
    PROVE  Light(t, lock'[t])
<1>1. PICK row : WriteLock(l, row)
  BY DEF AmendSubGroup, AddToSubGroup
<1>2. l # t
  BY DEF AmendSubGroup, AddToSubGroup, IsTop
<1> QED
  BY <1>1, <1>2, RowLight

\* No command on one row makes a tree overlap more than it did, but on a tree overdrawn.
LEMMA RowStepLight ==
    ASSUME BulkInv, NEW l \in LockIds, RowStep(l), NEW t \in DOMAIN lock, lock[t].parent = NoLock, ~Overdrawn(t)
    PROVE  Light(t, lock'[t])
<1>1. PoolInv /\ l \in DOMAIN lock
  BY RowsFacts DEF BulkInv, RowStep
<1>2. CASE \E pax \in 1..MaxLockPax : AmendLock(l, pax, lock[l].day, lock[l].holder, lock[l].lapsed)
  BY <1>1, <1>2, AmendLockLight
<1>3. CASE \E n \in 1..MaxLockPax : AmendSubGroup(l, n) \/ AddToSubGroup(l, n)
  BY <1>1, <1>3, SubGroupLight
<1>4. CASE \E n \in 1..MaxLockPax : AddSeats(l, n)
  BY <1>1, <1>4, AddSeatsLight
<1>5. CASE \E n \in 1..MaxLockPax : ReleaseSeats(l, n)
  BY <1>1, <1>5, ReleaseSeatsLight
<1>6. CASE \E n \in 1..MaxLockPax : ConfirmPending(l, n)
  BY <1>1, <1>6, ConfirmPendingLight
<1>7. CASE ReleaseDeparture(l)
  <2>1. WriteLock(l, ReleasedWhole(l))
    BY <1>7 DEF ReleaseDeparture
  <2>2. ReleasedWhole(l).pax = lock[l].pax /\ ReleasedWhole(l).pending = 0
    BY <1>1, LockFacts DEF ReleasedWhole, LockRows
  <2>3. Light(l, ReleasedWhole(l))
    BY <1>1, <2>2, WholeLight
  <2> QED
    BY <1>1, <2>1, <2>3, RowLight
<1> QED
  BY <1>2, <1>3, <1>4, <1>5, <1>6, <1>7 DEF RowStep

\* Rows made leave those there were as they were.
LEMMA MadeLight ==
    ASSUME PoolInv, NEW t \in DOMAIN lock, NEW rows, WriteRows(rows), t \notin DOMAIN rows
    PROVE  Light(t, lock'[t])
<1>1. lock'[t] = lock[t]
  BY DEF WriteRows
<1> QED
  BY <1>1, SameLight, LockFacts

(* Rows a command on the whole bulk lock makes: departures, each of a day   *)
(* of its own and short ones with seats waiting, or sub-groups.            *)
Created(rows) ==
    /\ WriteRows(rows) /\ DOMAIN rows \cap DOMAIN lock = {} /\ DOMAIN rows # {} /\ DOMAIN rows \subseteq LockIds
    /\ \A k, l \in DOMAIN rows : rows[k].parent = NoLock /\ rows[l].parent = NoLock /\ rows[k].day = rows[l].day => k = l
    /\ \A k \in DOMAIN rows : rows[k].parent = NoLock =>
          LET short == ShortOn(rows[k].day, 0, rows[k].pax)
          IN  /\ rows[k].pax \in Nat /\ rows[k].released = 0
              /\ rows[k].pending = short \/ (short > 0 /\ rows[k].pending = rows[k].pax)

LEMMA GroupCreates ==
    ASSUME BulkInv, NEW days \in Weekdays, NEW pax \in 1..MaxLockPax, NEW h, NEW c, NEW choice,
           CreateGroup(days, pax, h, c, choice)
    PROVE  \E rows : Created(rows) /\ bulk'.rows = DOMAIN rows /\ \A l \in DOMAIN rows : rows[l].parent = NoLock
<1> DEFINE open == days \cap RunsOn
           pending(d) == LET short == ShortOn(d, 0, pax) IN IF short > 0 /\ choice = "all" THEN pax ELSE short
<1>1. PICK row \in NextRows(open) :
        LET ids == {row[d] : d \in open}
            dayOf(l) == CHOOSE d \in open : row[d] = l
        IN  /\ WriteRows([l \in ids |->
                  [day |-> dayOf(l), pax |-> pax, released |-> 0, holder |-> h, status |-> "active",
                   pending |-> pending(dayOf(l)), lapsed |-> FALSE, parent |-> NoLock]])
            /\ bulk' = [rows |-> ids, pax |-> pax, holder |-> h, cutoff |-> c]
  BY DEF CreateGroup
<1> DEFINE ids == {row[d] : d \in open}
           dayOf(l) == CHOOSE d \in open : row[d] = l
           made(l) == [day |-> dayOf(l), pax |-> pax, released |-> 0, holder |-> h, status |-> "active",
                       pending |-> pending(dayOf(l)), lapsed |-> FALSE, parent |-> NoLock]
           rows == [l \in ids |-> made(l)]
<1>2. WriteRows(rows) /\ bulk'.rows = ids /\ open # {}
  BY <1>1 DEF CreateGroup
<1>3. ids \subseteq LockIds \ DOMAIN lock /\ ids # {}
  BY <1>2 DEF NextRows, Unused
<1>4. ASSUME NEW l \in ids PROVE row[dayOf(l)] = l
  OBVIOUS
<1> HIDE DEF ids, dayOf
<1>5. ASSUME NEW l \in ids
      PROVE  LET short == ShortOn(dayOf(l), 0, pax)
             IN  pending(dayOf(l)) = short \/ (short > 0 /\ pending(dayOf(l)) = pax)
  OBVIOUS
<1>6. ASSUME NEW l \in ids
      PROVE  LET short == ShortOn(rows[l].day, 0, rows[l].pax)
             IN  /\ rows[l].parent = NoLock /\ rows[l].day = dayOf(l) /\ rows[l].pax \in Nat /\ rows[l].released = 0
                 /\ rows[l].pending = short \/ (short > 0 /\ rows[l].pending = rows[l].pax)
  <2> HIDE DEF pending
  <2>1. rows[l].parent = NoLock /\ rows[l].day = dayOf(l) /\ rows[l].pax = pax /\ rows[l].released = 0
        /\ rows[l].pending = pending(dayOf(l))
    OBVIOUS
  <2> HIDE DEF rows
  <2> QED
    BY <1>5, <2>1
<1>7. DOMAIN rows = ids
  OBVIOUS
<1> HIDE DEF rows
<1>8. \A k, l \in ids : rows[k].day = rows[l].day => k = l
  BY <1>4, <1>6
<1>9. Created(rows)
  BY <1>2, <1>3, <1>6, <1>7, <1>8 DEF Created
<1> QED
  BY <1>2, <1>6, <1>7, <1>9

LEMMA SubGroupsCreate ==
    ASSUME BulkInv, NEW pax \in 1..MaxLockPax, GroupSubGroups(pax)
    PROVE  \E rows : Created(rows) /\ \A l \in DOMAIN rows : rows[l].parent # NoLock
<1> DEFINE parents == {l \in Departures : lock[l].day >= today}
           days == {lock[l].day : l \in parents}
<1>1. PICK row \in NextRows(days) :
        LET parentOf(k) == CHOOSE l \in parents : row[lock[l].day] = k
        IN  WriteRows([k \in {row[d] : d \in days} |->
               [day |-> lock[parentOf(k)].day, pax |-> pax, released |-> 0, holder |-> bulk.holder,
                status |-> "active", pending |-> 0, lapsed |-> FALSE, parent |-> parentOf(k)]])
  BY DEF GroupSubGroups
<1> DEFINE ids == {row[d] : d \in days}
           parentOf(k) == CHOOSE l \in parents : row[lock[l].day] = k
           made(k) == [day |-> lock[parentOf(k)].day, pax |-> pax, released |-> 0, holder |-> bulk.holder,
                       status |-> "active", pending |-> 0, lapsed |-> FALSE, parent |-> parentOf(k)]
           rows == [k \in ids |-> made(k)]
<1>2. WriteRows(rows) /\ parents # {}
  BY <1>1 DEF GroupSubGroups
<1>3. ids \subseteq LockIds \ DOMAIN lock /\ ids # {}
  <2>1. days # {}
    BY <1>2
  <2> HIDE DEF days, rows
  <2>2. row \in NextRows(days)
    BY <1>1
  <2>3. row \in [days -> Unused]
    BY <2>2 DEF NextRows
  <2> QED
    BY <2>1, <2>3 DEF Unused
<1>4. ASSUME NEW k \in ids PROVE parentOf(k) \in parents
  <2>1. \E l \in parents : row[lock[l].day] = k
    OBVIOUS
  <2> QED
    BY <2>1
<1>5. \A l \in parents : l \in LockIds
  BY DepartureIsTop DEF Departures
<1> HIDE DEF ids, parentOf, parents
<1>6. ASSUME NEW k \in ids PROVE rows[k].parent # NoLock
  BY <1>4, <1>5, <1>6, LockAssumption
<1>7. DOMAIN rows = ids
  OBVIOUS
<1> HIDE DEF rows
<1>8. Created(rows)
  BY <1>2, <1>3, <1>6, <1>7 DEF Created
<1> QED
  BY <1>6, <1>7, <1>8

LEMMA GroupWrites ==
    ASSUME BulkInv, GroupStep
    PROVE  \/ bulk'.rows = bulk.rows /\ Made /\ \E rows : Regrouped(rows)
           \/ bulk'.rows = bulk.rows /\ \E rows : Created(rows) /\ \A l \in DOMAIN rows : rows[l].parent # NoLock
           \/ bulk.rows = {} /\ \E rows : Created(rows) /\ bulk'.rows = DOMAIN rows
<1>1. CASE \E days \in Weekdays, pax \in 1..MaxLockPax, h \in Holders, c \in Cutoffs, choice \in {"split", "all"} :
              CreateGroup(days, pax, h, c, choice)
  <2>1. PICK days \in Weekdays, pax \in 1..MaxLockPax, h \in Holders, c \in Cutoffs, choice \in {"split", "all"} :
              CreateGroup(days, pax, h, c, choice)
    BY <1>1
  <2>2. bulk.rows = {}
    BY <2>1 DEF CreateGroup, Made
  <2> QED
    BY <2>1, <2>2, GroupCreates
<1>2. CASE \E pax \in 1..MaxLockPax, h \in Holders, c \in Cutoffs : AmendGroup(pax, h, c)
  <2>1. PICK pax \in 1..MaxLockPax, h \in Holders, c \in Cutoffs : AmendGroup(pax, h, c)
    BY <1>2
  <2>2. Made /\ bulk' = [bulk EXCEPT !.pax = pax, !.holder = h, !.cutoff = c]
    BY <2>1 DEF AmendGroup
  <2>3. bulk'.rows = bulk.rows
    BY <2>2 DEF BulkInv, BulkRecords
  <2> QED
    BY <2>1, <2>2, <2>3, AmendRegroups
<1>3. ASSUME NEW n \in 1..MaxLockPax, AddGroup(n)
      PROVE  bulk'.rows = bulk.rows /\ Made /\ \E rows : Regrouped(rows)
  <2>1. Made /\ bulk' = [bulk EXCEPT !.pax = @ + n]
    BY <1>3 DEF AddGroup
  <2>2. bulk'.rows = bulk.rows
    BY <2>1 DEF BulkInv, BulkRecords
  <2> QED
    BY <1>3, <2>1, <2>2, AddRegroups
<1>4. ASSUME NEW n \in 1..MaxLockPax, ReleaseGroup(n)
      PROVE  bulk'.rows = bulk.rows /\ Made /\ \E rows : Regrouped(rows)
  BY <1>4, ReleaseRegroups DEF ReleaseGroup
<1>5. ASSUME NEW n \in 1..MaxLockPax, GroupSubGroups(n)
      PROVE  bulk'.rows = bulk.rows /\ \E rows : Created(rows) /\ \A l \in DOMAIN rows : rows[l].parent # NoLock
  BY <1>5, SubGroupsCreate DEF GroupSubGroups
<1>6. CASE Made /\ \E d \in Days, late \in BOOLEAN : ReleaseOverdue(d, late)
  BY <1>6, OverdueRegroups DEF ReleaseOverdue
<1> QED
  BY <1>1, <1>2, <1>3, <1>4, <1>5, <1>6 DEF GroupStep

\* A lock step overlaps no tree further but one that was overdrawn.
LEMMA LockStepLight ==
    ASSUME BulkInv, GroupStep \/ \E l \in LockIds : RowStep(l),
           NEW t \in DOMAIN lock, lock[t].parent = NoLock, ~Overdrawn(t)
    PROVE  ~(Overcommitted(booking', lock', t) > Overcommitted(booking, lock, t))
<1>1. LockMoved /\ PoolInv
  BY GroupMoves, RowStepMoves DEF BulkInv
<1>2. CASE \E l \in LockIds : RowStep(l)
  BY <1>1, <1>2, RowStepLight, LightStays
<1>3. CASE \E rows : Regrouped(rows)
  BY <1>1, <1>3, RegroupedLight, LightStays
<1>4. ASSUME NEW rows, Created(rows) PROVE Light(t, lock'[t])
  <2>1. WriteRows(rows) /\ t \notin DOMAIN rows
    BY <1>4 DEF Created
  <2> QED
    BY <1>1, <2>1, MadeLight
<1> QED
  BY <1>1, <1>2, <1>3, <1>4, GroupWrites, LightStays

-----------------------------------------------------------------------------
(* Each departure has a day of its own, and every booking draws on its own *)
(* days' locks.                                                            *)

DaysApart == \A l, m \in bulk.rows : lock[l].day = lock[m].day => l = m
AllAtHome == \A b \in Bookings : Exists(b) => AtHome(booking[b], lock)
KeepInv == BulkInv /\ AllTripsSized /\ DaysApart /\ AllAtHome /\ today \in Nat

LEMMA GroupDaysStand ==
    ASSUME BulkInv, GroupStep PROVE DaysStand
<1>1. ASSUME NEW rows, Regrouped(rows) PROVE DaysStand
  <2>1. WriteRows(rows) /\ \A l \in DOMAIN rows \cap DOMAIN lock : rows[l].day = lock[l].day
    BY <1>1 DEF Regrouped
  <2> QED
    BY <2>1, RowsStand
<1>2. ASSUME NEW rows, Created(rows) PROVE DaysStand
  <2>1. WriteRows(rows) /\ DOMAIN rows \cap DOMAIN lock = {}
    BY <1>2 DEF Created
  <2> QED
    BY <2>1, RowsStand
<1> QED
  BY <1>1, <1>2, GroupWrites

LEMMA RowDaysStand ==
    ASSUME BulkInv, NEW l \in LockIds, RowStep(l) PROVE DaysStand
<1>1. PoolInv /\ l \in BulkRows
  BY DEF BulkInv, RowStep
<1>2. l \in DOMAIN lock /\ lock[l].holder \in Holders
  BY <1>1, RowsFacts
<1>3. lock[l].day \in Days /\ lock[l].lapsed \in BOOLEAN
  BY <1>1, <1>2, LockFacts DEF LockRows
<1>4. LockMoved /\ KeepsHomes
  <2>1. ASSUME NEW pax \in 1..MaxLockPax, AmendLock(l, pax, lock[l].day, lock[l].holder, lock[l].lapsed)
        PROVE  LockMoved /\ KeepsHomes
    <3> DEFINE d == lock[l].day
               h == lock[l].holder
               lapsed == lock[l].lapsed
    <3>1. AmendLock(l, pax, d, h, lapsed) /\ d \in Days /\ h \in Holders /\ lapsed \in BOOLEAN
          /\ d = lock[l].day /\ h = lock[l].holder
      BY <1>2, <1>3, <2>1
    <3> HIDE DEF d, h, lapsed
    <3> QED
      BY <1>1, <3>1, AmendLockMoves
  <2>2. CASE \E pax \in 1..MaxLockPax : AmendSubGroup(l, pax)
    BY <1>1, <2>2, AmendSubGroupMoves
  <2>3. CASE \E n \in 1..MaxLockPax : AddSeats(l, n) \/ AddToSubGroup(l, n)
    BY <1>1, <1>2, <2>3, AddSeatsMoves
  <2>4. CASE \E n \in 1..MaxLockPax : ReleaseSeats(l, n) \/ ConfirmPending(l, n)
    BY <1>1, <2>4, ReleaseSeatsMoves, ConfirmPendingMoves
  <2>5. CASE ReleaseDeparture(l)
    BY <1>1, <2>5, ReleaseDepartureMoves
  <2> QED
    BY <2>1, <2>2, <2>3, <2>4, <2>5 DEF RowStep
<1> QED
  BY <1>4 DEF LockMoved, KeepsHomes, DaysStand

LEMMA LockApart ==
    ASSUME BulkInv, DaysApart, GroupStep \/ \E l \in LockIds : RowStep(l) PROVE DaysApart'
<1>1. DaysStand /\ \A l \in bulk.rows : l \in DOMAIN lock
  BY GroupDaysStand, RowDaysStand DEF BulkInv
<1>2. ASSUME bulk'.rows = bulk.rows PROVE DaysApart'
  BY <1>1, <1>2 DEF DaysApart, DaysStand
<1>3. ASSUME NEW rows, Created(rows), bulk'.rows = DOMAIN rows, GroupStep PROVE DaysApart'
  <2>1. \A l \in bulk'.rows : lock'[l].parent = NoLock
    BY <1>3, GroupMoves DEF BulkInv
  <2>2. \A l \in DOMAIN rows : lock'[l] = rows[l]
    BY <1>3 DEF Created, WriteRows
  <2>3. \A k, l \in DOMAIN rows : rows[k].parent = NoLock /\ rows[l].parent = NoLock /\ rows[k].day = rows[l].day => k = l
    BY <1>3 DEF Created
  <2> QED
    BY <1>3, <2>1, <2>2, <2>3 DEF DaysApart
<1>4. CASE GroupStep
  BY <1>2, <1>3, <1>4, GroupWrites
<1>5. CASE \E l \in LockIds : RowStep(l)
  BY <1>2, <1>5 DEF RowStep
<1> QED
  BY <1>4, <1>5

LEMMA LockAtHome ==
    ASSUME BulkInv, AllAtHome, GroupStep \/ \E l \in LockIds : RowStep(l) PROVE AllAtHome'
<1>1. DaysStand /\ booking' = booking /\ DrawsExist(booking, lock)
  BY GroupDaysStand, RowDaysStand, GroupMoves, RowStepMoves DEF BulkInv, PoolInv, LockMoved
<1> SUFFICES ASSUME NEW b \in Bookings, Exists(b), NEW d \in DOMAIN booking[b].trips, NEW l \in LockIds,
                    booking[b].trips[d].draws[l] > 0
             PROVE  lock'[l].day = d
  BY <1>1 DEF AllAtHome, AtHome, Exists
<1>2. l \in DOMAIN lock
  BY <1>1 DEF DrawsExist, Exists
<1>3. lock[l].day = d
  BY DEF AllAtHome, AtHome
<1> QED
  BY <1>1, <1>2, <1>3 DEF DaysStand

\* An itinerary that draws nowhere more than one at home is at home too.
LEMMA HomeLess ==
    ASSUME NEW old, NEW new, old.trips \in TripPlans, new.trips \in TripPlans, AtHome(old, lock),
           \A d \in DOMAIN new.trips : d \in DOMAIN old.trips
              /\ \A l \in LockIds : new.trips[d].draws[l] <= old.trips[d].draws[l]
    PROVE  AtHome(new, lock)
<1> SUFFICES ASSUME NEW d \in DOMAIN new.trips, NEW l \in LockIds, new.trips[d].draws[l] > 0
             PROVE  lock[l].day = d
  BY DEF AtHome
<1>1. new.trips[d].draws[l] \in Nat /\ old.trips[d].draws[l] \in Nat
  BY PlanNumbers
<1>2. old.trips[d].draws[l] > 0
  BY <1>1
<1> QED
  BY <1>2 DEF AtHome

(* A booking made draws on its own days' locks, and shifts no charter.     *)
LEMMA MadeAtHome ==
    ASSUME PoolInv, NEW b \in Bookings, NEW intent, NEW agent \in Agents, NEW trips \in Itineraries,
           CreateBooking(b, Seen(b), intent, agent, trips, FALSE)
    PROVE  AtHome(booking'[b], lock) /\ \A d \in DOMAIN booking'[b].trips : ~booking'[b].trips[d].displaced
<1> DEFINE weights == Weighed(Seen(b), trips, agent, FALSE)
           base == IF intent = "quote" THEN "quote" ELSE "confirmed"
           over == OverAllotment(weights)
           planned == Planned(<<>>, trips)
           made == Stamped(planned, weights)
           row == [status |-> IF over THEN "pending_approval" ELSE base, agent |-> agent,
                   trips |-> made, approval |-> IF over THEN Asking(base) ELSE NotAsked]
<1>1. ~Exists(b) /\ ~Refused(weights) /\ booking' = [booking EXCEPT ![b] = row]
  BY DEF CreateBooking
<1>2. trips \in TripPlans
  BY ItineraryFacts
<1>3. Claimable(Seen(b), trips, agent)
  BY <1>1, <1>2, WeighedPlan
<1>4. planned \in TripPlans /\ SameButMarked(trips, planned)
  BY <1>2, PlannedFacts DEF IsOld
<1>5. made \in TripPlans /\ SameButMarked(planned, made)
  BY <1>4, StampedFacts
<1>6. \A d \in DOMAIN planned : ~planned[d].displaced
  <2> SUFFICES ASSUME NEW d \in DOMAIN planned PROVE ~planned[d].displaced
    OBVIOUS
  <2> DEFINE none == <<>>
             kept == /\ trips[d].mode = "charter" /\ d \in DOMAIN none /\ none[d].mode = "charter"
                     /\ none[d].boat = trips[d].boat /\ none[d].displaced
  <2>1. DOMAIN none = {}
    OBVIOUS
  <2>2. ~kept
    BY <2>1
  <2>3. d \in DOMAIN trips /\ trips[d] \in Trips
    BY <1>2, <1>4, PlanFacts DEF SameButMarked
  <2>4. planned[d] = [trips[d] EXCEPT !.displaced = kept]
    BY <2>3 DEF Planned
  <2> HIDE DEF planned, kept, none
  <2> QED
    BY <2>2, <2>3, <2>4 DEF Trips
<1>7. \A d \in DOMAIN made : ~made[d].displaced
  <2> SUFFICES ASSUME NEW d \in DOMAIN made PROVE ~made[d].displaced
    OBVIOUS
  <2>1. d \in DOMAIN trips /\ d \in DOMAIN planned /\ planned[d] \in Trips /\ ~planned[d].displaced
    BY <1>2, <1>4, <1>5, <1>6, PlanFacts DEF SameButMarked
  <2>2. weights[d] = WeighDay(Seen(b)[d], trips[d], agent, FALSE)
    BY <2>1 DEF Weighed
  <2>3. weights[d] # "displaced"
    <3>1. WeighSeats(Seen(b)[d], trips[d], agent) # "displaced"
      BY DEF WeighSeats
    <3>2. WeighCharter(Seen(b)[d], trips[d], FALSE) # "displaced"
      BY DEF WeighCharter
    <3> QED
      BY <2>2, <3>1, <3>2 DEF WeighDay
  <2> DEFINE mark == planned[d].displaced \/ weights[d] = "displaced"
  <2>4. made[d] = [planned[d] EXCEPT !.displaced = mark]
    BY <2>1 DEF Stamped
  <2>5. ~mark
    BY <2>1, <2>3
  <2> HIDE DEF planned, weights, made, mark
  <2> QED
    BY <2>1, <2>4, <2>5 DEF Trips
<1> HIDE DEF weights, over, planned, made, base
<1>8. Claimable(Seen(b), made, agent)
  BY <1>3, <1>4, <1>5, MarkedTwice, MarkedClaimable
<1>9. row.trips = made /\ row.agent = agent
  OBVIOUS
<1>10. booking'[b] = row
  BY <1>1 DEF PoolInv, IsBookings
<1> HIDE DEF row
<1>11. DrawsEntitled(b, row)
  BY <1>5, <1>8, <1>9, ClaimsAreEntitled
<1>12. ~HoldsSeats(booking[b])
  BY <1>1 DEF HoldsSeats, Exists
<1>13. AtHome(row, lock)
  BY <1>11, <1>12 DEF AtHome, DrawsEntitled
<1> QED
  BY <1>7, <1>9, <1>10, <1>13

\* What a restored booking is, beside what it was.
LEMMA RestoredRow ==
    ASSUME PoolInv, NEW b \in Bookings, RestoreBooking(b, Seen(b))
    PROVE  LET new == RestoredTrips(b, Seen(b))
               old == booking[b].trips
               row == booking'[b]
           IN  /\ Exists(b) /\ ~HoldsSeats(booking[b]) /\ HoldsSeats(row) /\ Restored(b)
               /\ old \in TripPlans /\ new \in TripPlans /\ row.trips \in TripPlans /\ row \in BookingRows
               /\ DOMAIN new = DOMAIN old /\ SameButMarked(new, row.trips)
               /\ \A d \in DOMAIN old, l \in LockIds : new[d].draws[l] <= old[d].draws[l]
<1> DEFINE bk == booking[b]
           new == RestoredTrips(b, Seen(b))
           made == Planned(bk.trips, new)
           row == [bk EXCEPT !.status = "confirmed", !.trips = made]
<1>1. bk.status \in Releasing /\ booking' = [booking EXCEPT ![b] = row]
  BY DEF RestoreBooking
<1>2. Exists(b) /\ ~HoldsSeats(bk)
  BY <1>1 DEF Exists, Releasing, HoldsSeats
<1>3. bk \in BookingRows /\ bk.trips \in TripPlans /\ IsOld(bk.trips)
  BY <1>2, RowFacts
<1>4. /\ new \in TripPlans /\ DOMAIN new = DOMAIN bk.trips
      /\ \A d \in DOMAIN bk.trips : \A l \in LockIds : new[d].draws[l] <= bk.trips[d].draws[l]
  BY <1>2, RestoredFacts
<1>5. booking'[b] = row
  BY <1>1 DEF PoolInv, IsBookings
<1> HIDE DEF new
<1>6. made \in TripPlans /\ SameButMarked(new, made)
  BY <1>3, <1>4, PlannedFacts
<1> HIDE DEF made
<1>7. row.trips = made /\ row.status = "confirmed" /\ row \in BookingRows
  BY <1>3, <1>6 DEF BookingRows, Statuses
<1> HIDE DEF row
<1>8. HoldsSeats(row)
  BY <1>7 DEF HoldsSeats, WaitsForSeats, Releasing
<1>9. Restored(b)
  BY <1>1, <1>5, <1>7 DEF Restored
<1> QED
  BY <1>2, <1>3, <1>4, <1>5, <1>6, <1>7, <1>8, <1>9 DEF new

LEMMA GuestAtHome ==
    ASSUME BulkInv, AllAtHome, NEW b \in Bookings, GuestStep(b) PROVE AllAtHome'
<1>1. PoolInv /\ BookingMoved(b)
  BY GuestMoves DEF BulkInv
<1>2. lock' = lock /\ \A c \in Bookings \ {b} : booking'[c] = booking[c]
  BY <1>1 DEF PoolInv, IsBookings, BookingMoved
<1>3. AtHome(booking'[b], lock)
  <2>1. CASE \E agent \in Agents, trips \in Itineraries : CreateBooking(b, Seen(b), "confirm", agent, trips, FALSE)
    BY <1>1, <2>1, MadeAtHome
  <2>2. CASE CancelBooking(b)
    <3> DEFINE row == [booking[b] EXCEPT !.status = "cancelled"]
    <3>1. Exists(b) /\ booking'[b] = row
      BY <1>1, <2>2 DEF CancelBooking, IsOpen, Exists, PoolInv, IsBookings
    <3>2. booking[b] \in BookingRows
      BY <1>1, <3>1, RowFacts
    <3>3. row.trips = booking[b].trips
      BY <3>2 DEF BookingRows
    <3> HIDE DEF row
    <3> QED
      BY <3>1, <3>3 DEF AllAtHome, AtHome
  <2>3. CASE RestoreBooking(b, Seen(b))
    <3> DEFINE new == RestoredTrips(b, Seen(b))
               row == booking'[b]
               old == booking[b]
    <3>1. /\ Exists(b) /\ old.trips \in TripPlans /\ row.trips \in TripPlans
          /\ DOMAIN new = DOMAIN old.trips /\ SameButMarked(new, row.trips)
          /\ \A d \in DOMAIN old.trips, l \in LockIds : new[d].draws[l] <= old.trips[d].draws[l]
      BY <1>1, <2>3, RestoredRow
    <3>2. AtHome(old, lock)
      BY <3>1 DEF AllAtHome
    <3> HIDE DEF new, row, old
    <3>3. \A d \in DOMAIN row.trips : d \in DOMAIN old.trips
             /\ \A l \in LockIds : row.trips[d].draws[l] <= old.trips[d].draws[l]
      BY <3>1 DEF SameButMarked
    <3>4. AtHome(row, lock)
      BY <3>1, <3>2, <3>3, HomeLess
    <3> QED
      BY <3>4 DEF row
  <2> QED
    BY <2>1, <2>2, <2>3 DEF GuestStep
<1> QED
  BY <1>2, <1>3 DEF AllAtHome, Exists

-----------------------------------------------------------------------------
(* Seats drawn as far as each lock had them left overlap no tree further,  *)
(* but those one booking draws on several locks of the tree.               *)

LEMMA OverDrawn ==
    ASSUME NEW p \in Nat, NEW q \in Nat, NEW u \in Nat, NEW drop \in Nat,
           drop = 0 \/ drop <= HeldOf(p, q, u) \/ u + drop + q <= p
    PROVE  ~(Over(p, q, u + drop) > Over(p, q, u))
  BY DEF Over, HeldOf, PendOf, Clip, Least

\* A lock of the day has so many seats left, whatever one booking draws itself.
HasLeft(b, d, l, n) ==
    l \in DOMAIN PoolLocks(lock, d)
    /\ n <= TreeOf(PoolLocks(lock, d), DrawnByLock(booking, {b}), TopOf(PoolLocks(lock, d), l)).remaining[l]

LEMMA DropHeld ==
    ASSUME PoolInv, NEW b \in Bookings, BookingMoved(b), ~HoldsSeats(booking[b]), HoldsSeats(booking'[b]),
           AtHome(booking'[b], lock),
           \A d \in DOMAIN booking'[b].trips, l \in LockIds :
              booking'[b].trips[d].draws[l] > 0 => HasLeft(b, d, l, booking'[b].trips[d].draws[l]),
           NEW t \in DOMAIN lock, lock[t].parent = NoLock, ~DrawsTogether(b, lock[t].day)
    PROVE  LET drop == SumOver(Takes(booking'[b]), FamilyOf(lock, t))
               less == DrawnByLock(booking, {b})
               tree == TreeOf(lock, less, t)
           IN  \/ drop = 0 \/ drop <= HeldOf(Asked(lock, t), lock[t].pending, tree.used)
               \/ TreeOf(lock, DrawnByLock(booking', {}), t).used + lock[t].pending <= Asked(lock, t)
<1> DEFINE d == lock[t].day
           rows == PoolLocks(lock, d)
           less == DrawnByLock(booking, {b})
           more == DrawnByLock(booking', {})
           fam == FamilyOf(lock, t)
           row == booking'[b]
<1>1. /\ t \in LockIds /\ d \in Days /\ IsLocks(lock) /\ Family(lock) /\ IsBookings(booking) /\ IsBookings(booking')
      /\ row \in BookingRows /\ row.trips \in TripPlans
  BY LockFacts, BookingKeepsSound DEF PoolInv, LockRows, BookingMoved, Admissible, BookingRows
<1>2. Standing(booking', lock, deployed, d) /\ Beside(booking, booking', b) /\ lock' = lock /\ booking'[b] # booking[b]
  BY <1>1, MovedStands
<1>3. DrawnByLock(booking', {b}) = less
  BY <1>2, OthersStand DEF Beside
<1>4. less \in [LockIds -> Nat] /\ more \in [LockIds -> Nat]
  BY <1>1, DrawnIsFunction
<1>5. fam \subseteq LockIds /\ (\A l \in fam : l \in DOMAIN lock /\ lock[l].day = d /\ TopOf(lock, l) = t)
  BY <1>1, LockAssumption DEF FamilyOf, KidsIn, Family, TopOf, IsLocks
<1>6. \A l \in fam : Takes(row)[l] = IF d \in DOMAIN row.trips THEN row.trips[d].draws[l] ELSE 0
  BY <1>1, <1>5, TakesOn
<1>7. CASE d \notin DOMAIN row.trips
  <2>1. \A l \in fam : Takes(row)[l] = 0
    BY <1>6, <1>7
  <2>2. SumOver(Takes(row), fam) = 0
    BY <2>1, LockSumNone
  <2> QED
    BY <2>2
<1>8. CASE d \in DOMAIN row.trips /\ t \notin DOMAIN rows
  <2>1. \A l \in fam : l \notin DOMAIN rows
    BY <1>5, <1>8, LockAssumption DEF PoolLocks, TopOf, FamilyOf, KidsIn
  <2>2. \A l \in LockIds : row.trips[d].draws[l] \in Nat
    BY <1>1, <1>8, PlanNumbers
  <2>3. \A l \in fam : row.trips[d].draws[l] = 0
    BY <1>5, <1>8, <2>1, <2>2 DEF HasLeft
  <2>4. \A l \in fam : Takes(row)[l] = 0
    BY <1>6, <2>3
  <2>5. SumOver(Takes(row), fam) = 0
    BY <2>4, LockSumNone
  <2> QED
    BY <2>5
<1>9. CASE d \in DOMAIN row.trips /\ t \in DOMAIN rows
  <2>1. /\ IsLocks(rows) /\ rows[t] = lock[t] /\ t \in Tops(rows) /\ rows[t].parent = NoLock
        /\ KidsIn(rows, t) = KidsIn(lock, t) /\ FamilyOf(rows, t) = fam
    BY <1>1, <1>9, DayRows DEF IsFamilies, Tops, FamilyOf
  <2>2. ApartOn(booking', lock, row.trips[d], d)
    BY <1>1, <1>2, <1>9, ApartUnless
  <2>3. \A l \in LockIds : row.trips[d].draws[l] > 0 =>
           l \in DOMAIN rows /\ row.trips[d].draws[l] <= TreeOf(rows, DrawnByLock(booking', {b}), TopOf(rows, l)).remaining[l]
    BY <1>3, <1>9 DEF HasLeft
  <2>4. \/ SumOver(Takes(row), fam) <= TreeOf(rows, less, t).held
        \/ TreeOf(rows, more, t).used + rows[t].pending <= Asked(rows, t)
    BY <1>2, <1>3, <1>9, <2>1, <2>2, <2>3, TreeHeldIt
  <2> HIDE DEF rows, less, more, fam, row
  <2>11. t \in DOMAIN rows
    BY <2>1 DEF Tops
  <2>5. TreeOf(rows, more, t).used = TreeOf(lock, more, t).used
    <3>1. TreeOf(rows, more, t).used = more[t] + SumOver(more, KidsIn(rows, t))
      BY <1>4, <2>1, <2>11, TreeIs
    <3>2. TreeOf(lock, more, t).used = more[t] + SumOver(more, KidsIn(lock, t))
      BY <1>1, <1>4, TreeIs
    <3> QED
      BY <2>1, <3>1, <3>2
  <2>6. TreeOf(rows, less, t).held = HeldOf(Asked(rows, t), rows[t].pending, TreeOf(rows, less, t).used)
    BY <1>4, <2>1, <2>11, TreeIs
  <2>7. TreeOf(rows, less, t).used = TreeOf(lock, less, t).used
    <3>1. TreeOf(rows, less, t).used = less[t] + SumOver(less, KidsIn(rows, t))
      BY <1>4, <2>1, <2>11, TreeIs
    <3>2. TreeOf(lock, less, t).used = less[t] + SumOver(less, KidsIn(lock, t))
      BY <1>1, <1>4, TreeIs
    <3> QED
      BY <2>1, <3>1, <3>2
  <2>8. Asked(rows, t) = Asked(lock, t)
    BY <2>1 DEF Asked
  <2>9. \/ SumOver(Takes(row), fam) <= HeldOf(Asked(lock, t), lock[t].pending, TreeOf(lock, less, t).used)
        \/ TreeOf(lock, more, t).used + lock[t].pending <= Asked(lock, t)
    BY <2>1, <2>4, <2>5, <2>6, <2>7, <2>8
  <2> QED
    BY <2>9 DEF less, more, fam, row
<1> QED
  BY <1>7, <1>8, <1>9

LEMMA DrawnLight ==
    ASSUME PoolInv, NEW b \in Bookings, BookingMoved(b), ~HoldsSeats(booking[b]), HoldsSeats(booking'[b]),
           AtHome(booking'[b], lock),
           \A d \in DOMAIN booking'[b].trips, l \in LockIds :
              booking'[b].trips[d].draws[l] > 0 => HasLeft(b, d, l, booking'[b].trips[d].draws[l]),
           NEW t \in DOMAIN lock, lock[t].parent = NoLock, ~DrawsTogether(b, lock[t].day)
    PROVE  ~(Overcommitted(booking', lock', t) > Overcommitted(booking, lock, t))
<1> DEFINE less == DrawnByLock(booking, {b})
           more == DrawnByLock(booking', {})
           drop == SumOver(Takes(booking'[b]), FamilyOf(lock, t))
           p == Asked(lock, t)
           q == lock[t].pending
           u == TreeOf(lock, less, t).used
           v == TreeOf(lock, more, t).used
<1>1. /\ IsLocks(lock) /\ IsBookings(booking) /\ IsBookings(booking') /\ lock' = lock
      /\ Beside(booking, booking', b)
  <2>1. lock[t].day \in Days
    BY LockFacts DEF LockRows
  <2> QED
    BY <2>1, MovedStands DEF Standing
<1>2. Counted(booking, {}) = Counted(booking, {b})
  BY DEF Counted
<1>3. DrawnByLock(booking, {}) = less
  BY <1>2 DEF DrawnByLock
<1>4. Falls(more, less, Takes(booking'[b]))
  <2>1. DrawnByLock(booking', {b}) = less
    BY <1>1, OthersStand DEF Beside
  <2>2. Falls(DrawnByLock(booking', {}), DrawnByLock(booking', {b}), Takes(booking'[b]))
    BY <1>1, TakesFacts
  <2> QED
    BY <2>1, <2>2
<1>5. v = u + drop /\ drop \in Nat
  BY <1>1, <1>4, TreeFalls
<1>6. Overcommitted(booking, lock, t) = Over(p, q, u) /\ p \in Nat /\ q \in Nat /\ u \in Nat
  BY <1>3, OverIs DEF Tree
<1>7. Overcommitted(booking', lock', t) = Over(p, q, v)
  BY <1>1 DEF Overcommitted, Over, Asked
<1>8. drop = 0 \/ drop <= HeldOf(p, q, u) \/ v + q <= p
  BY DropHeld
<1> HIDE DEF less, more, drop, p, q, u, v
<1> QED
  BY <1>5, <1>6, <1>7, <1>8, OverDrawn

LEMMA WeightyDraws ==
    ASSUME PoolInv, NEW b \in Bookings, NEW row \in BookingRows, Weighty(b, row),
           NEW d \in DOMAIN row.trips, NEW l \in LockIds, row.trips[d].draws[l] > 0
    PROVE  HasLeft(b, d, l, row.trips[d].draws[l])
<1> DEFINE trip == row.trips[d]
           day == Day(d, {b})
<1>1. d \in Days /\ trip \in SoldTrips
  BY PlanFacts DEF BookingRows
<1>2. trip.mode # "charter"
  <2>1. trip.mode = "charter" => trip.draws[l] = 0
    BY <1>1, SoldFacts
  <2> QED
    BY <2>1
<1>3. PICK anyway \in BOOLEAN :
         \/ WeighDay(day, trip, row.agent, anyway) = "fits"
         \/ WeighDay(day, trip, row.agent, anyway) = "displaced" /\ trip.displaced
  BY DEF Weighty
<1>4. Standing(booking, lock, deployed, d)
  <2>1. IsFleet(deployed[d])
    BY <1>1, PoolAssumption DEF PoolInv, IsDeployed, IsFleet
  <2> QED
    BY <2>1 DEF Standing, PoolInv
<1> HIDE DEF trip, day
<1>5. Drawable(day, trip, row.agent)
  BY <1>2, <1>3 DEF WeighDay, WeighSeats
<1>6. Drawable(DayOf(booking, lock, deployed, d, {b}), trip, row.agent) /\ trip.draws[l] > 0
  BY <1>5 DEF day, Day, trip
<1>7. l \in DOMAIN PoolLocks(lock, d)
      /\ trip.draws[l] <= TreeOf(PoolLocks(lock, d), DrawnByLock(booking, {b}), TopOf(PoolLocks(lock, d), l)).remaining[l]
  BY <1>4, <1>6, DrawsWeighed
<1> QED
  BY <1>7 DEF HasLeft, trip

\* A booking restored draws on each day's locks what they have left: no other of its days draws on them.
LEMMA RestoredDraws ==
    ASSUME PoolInv, NEW b \in Bookings, RestoreBooking(b, Seen(b)), AtHome(booking[b], lock),
           NEW d \in DOMAIN booking'[b].trips, NEW l \in LockIds, booking'[b].trips[d].draws[l] > 0
    PROVE  HasLeft(b, d, l, booking'[b].trips[d].draws[l])
<1> DEFINE seen == Seen(b)
           trips == booking[b].trips
           drawing == {e \in DOMAIN trips : ~BoatTaken(seen[e], trips[e])}
           ahead(e, k) == {i \in drawing : i < e /\ trips[i].draws[k] > 0}
           first(e, k) == Min(ahead(e, k) \cup {e})
           left(e, k) == IF k \in DOMAIN seen[first(e, k)].remaining THEN seen[first(e, k)].remaining[k] ELSE 0
           spent(e, k) == Total([i \in ahead(e, k) |-> trips[i].draws[k]])
           back(e, k) == Least(trips[e].draws[k], Clip(left(e, k) - spent(e, k)))
           new == [e \in DOMAIN trips |->
              IF e \notin drawing THEN [trips[e] EXCEPT !.boat = NoBoat]
              ELSE [trips[e] EXCEPT !.draws = [k \in LockIds |-> back(e, k)]]]
           n == booking'[b].trips[d].draws[l]
<1>1. RestoredTrips(b, seen) = new
  BY Zenon DEF RestoredTrips
<1>2. /\ Exists(b) /\ trips \in TripPlans /\ booking'[b].trips \in TripPlans
      /\ DOMAIN RestoredTrips(b, seen) = DOMAIN trips /\ SameButMarked(RestoredTrips(b, seen), booking'[b].trips)
      /\ \A e \in DOMAIN trips, k \in LockIds : RestoredTrips(b, seen)[e].draws[k] <= trips[e].draws[k]
  BY RestoredRow
<1>3. d \in DOMAIN trips /\ n = RestoredTrips(b, seen)[d].draws[l] /\ n <= trips[d].draws[l]
  BY <1>2 DEF SameButMarked
<1>4. /\ DOMAIN trips \subseteq Days /\ d \in Days /\ n \in Nat /\ n > 0
      /\ \A e \in DOMAIN trips : trips[e] \in SoldTrips /\ trips[e] \in Trips /\ trips[e].draws[l] \in Nat
  BY <1>2, <1>3, PlanFacts, PlanNumbers
<1>5. trips[d].draws[l] > 0
  BY <1>3, <1>4
<1>6. d \in drawing
  <2>1. trips[d].mode # "charter"
    BY <1>3, <1>4, <1>5, SoldFacts
  <2> QED
    BY <1>3, <2>1 DEF BoatTaken
<1>7. n = back(d, l)
  <2> DEFINE draws == [k \in LockIds |-> back(d, k)]
  <2>1. new[d] = [trips[d] EXCEPT !.draws = draws] /\ trips[d] \in Trips /\ draws[l] = back(d, l)
    BY <1>3, <1>4, <1>6
  <2> HIDE DEF new, draws, back
  <2>2. new[d].draws[l] = back(d, l)
    BY <2>1 DEF Trips
  <2> QED
    BY <1>1, <1>3, <2>2
<1>8. ahead(d, l) = {}
  <2>1. \A e \in DOMAIN trips : trips[e].draws[l] > 0 => e = d
    BY <1>3, <1>5 DEF AtHome
  <2>2. d \in Nat
    BY <1>4, PoolAssumption
  <2> QED
    BY <2>1, <2>2
<1>9. first(d, l) = d
  <2>1. ahead(d, l) \cup {d} = {d}
    BY <1>8
  <2>2. {d} \in SUBSET Nat
    BY <1>4, PoolAssumption
  <2>3. Min({d}) \in {d}
    BY <2>2, MinIsIn
  <2> HIDE DEF ahead
  <2> QED
    BY <2>1, <2>3
<1>10. spent(d, l) = 0
  <2> DEFINE f == [i \in ahead(d, l) |-> trips[i].draws[l]]
  <2>1. SumOver(f, {}) = 0
    BY LockSumNone
  <2>2. f = [i \in {} |-> f[i]]
    BY <1>8
  <2> QED
    BY <2>1, <2>2 DEF SumOver
<1>11. seen[d] = Day(d, {b}) /\ SoundDay(Day(d, {b}), d, {b})
  BY <1>4, DayNumbers DEF Seen
<1> DEFINE day == Day(d, {b})
<1>12. left(d, l) = IF l \in DOMAIN day.remaining THEN day.remaining[l] ELSE 0
  BY <1>9, <1>11
<1>13. l \in DOMAIN day.remaining => day.remaining[l] \in Nat
  BY <1>11 DEF SoundDay
<1> HIDE DEF left, spent, day, n, trips
<1>14. l \in DOMAIN day.remaining /\ n <= day.remaining[l]
  BY <1>4, <1>5, <1>7, <1>10, <1>12, <1>13 DEF Least, Clip
<1> DEFINE rows == PoolLocks(lock, d)
<1>15. DOMAIN day.remaining = DOMAIN rows /\ day.remaining[l] = TreeOf(rows, DrawnByLock(booking, {b}), TopOf(rows, l)).remaining[l]
  <2>1. IsFamilies(rows)
    BY DayRows DEF PoolInv
  <2>2. DOMAIN day.remaining = DOMAIN rows
    BY DayIs DEF Day, day
  <2> QED
    BY <1>14, <2>1, <2>2, DayIs DEF Day, day, IsFamilies
<1> QED
  BY <1>14, <1>15 DEF HasLeft, n

\* No command of a guest overlaps a tree further, but a booking that draws on several of its locks.
LEMMA GuestLight ==
    ASSUME BulkInv, AllTripsSized, AllAtHome, NEW b \in Bookings, GuestStep(b),
           NEW t \in DOMAIN lock, lock[t].parent = NoLock, ~DrawsTogether(b, lock[t].day)
    PROVE  ~(Overcommitted(booking', lock', t) > Overcommitted(booking, lock, t))
<1>1. BookingMoved(b) /\ PoolInv
  BY GuestMoves DEF BulkInv
<1>2. /\ lock' = lock /\ booking'[b] \in BookingRows /\ IsBookings(booking) /\ IsBookings(booking') /\ IsLocks(lock)
      /\ Beside(booking, booking', b)
  <2>1. lock[t].day \in Days
    BY <1>1, LockFacts DEF LockRows
  <2> QED
    BY <1>1, <2>1, MovedStands DEF Standing, BookingMoved, Admissible
<1>3. ASSUME NEW agent \in Agents, NEW trips \in Itineraries, CreateBooking(b, Seen(b), "confirm", agent, trips, FALSE)
      PROVE  Answered(b, booking'[b]) /\ ~Exists(b) /\ AtHome(booking'[b], lock)
  BY <1>1, <1>3, CreateAnswered, MadeAtHome DEF CreateBooking
<1>4. CASE \E agent \in Agents, trips \in Itineraries : CreateBooking(b, Seen(b), "confirm", agent, trips, FALSE)
  <2>1. Answered(b, booking'[b]) /\ ~Exists(b) /\ AtHome(booking'[b], lock)
    BY <1>3, <1>4
  <2>2. ~HoldsSeats(booking[b]) /\ ~ByApproval(b, booking'[b]) /\ ~ByRestore(b, booking'[b])
    BY <2>1 DEF HoldsSeats, Exists, ByApproval, ByRestore, Releasing
  <2>3. CASE HoldsSeats(booking'[b])
    <3>1. Weighty(b, booking'[b])
      BY <2>1, <2>2, <2>3 DEF Answered, Yields
    <3>2. \A d \in DOMAIN booking'[b].trips, l \in LockIds :
             booking'[b].trips[d].draws[l] > 0 => HasLeft(b, d, l, booking'[b].trips[d].draws[l])
      <4> DEFINE row == booking'[b]
      <4>1. row \in BookingRows /\ Weighty(b, row)
        BY <1>2, <3>1
      <4> HIDE DEF row
      <4>2. \A d \in DOMAIN row.trips, l \in LockIds : row.trips[d].draws[l] > 0 => HasLeft(b, d, l, row.trips[d].draws[l])
        BY <1>1, <4>1, WeightyDraws
      <4> QED
        BY <4>2 DEF row
    <3> QED
      BY <1>1, <2>1, <2>2, <2>3, <3>2, DrawnLight
  <2>4. CASE ~HoldsSeats(booking'[b])
    <3>1. Counted(booking, {}) = Counted(booking, {b}) /\ Counted(booking', {}) = Counted(booking', {b})
      BY <2>2, <2>4 DEF Counted
    <3>2. DrawnByLock(booking, {}) = DrawnByLock(booking, {b}) /\ DrawnByLock(booking', {}) = DrawnByLock(booking', {b})
      BY <3>1 DEF DrawnByLock
    <3>3. DrawnByLock(booking', {b}) = DrawnByLock(booking, {b})
      BY <1>2, OthersStand DEF Beside
    <3>4. Overcommitted(booking', lock', t) = Overcommitted(booking, lock, t)
      BY <1>2, <3>2, <3>3 DEF Overcommitted
    <3>5. Overcommitted(booking, lock, t) \in Int
      BY <1>1, OverIs DEF Over, Clip
    <3> QED
      BY <3>4, <3>5
  <2> QED
    BY <2>3, <2>4
<1>5. CASE CancelBooking(b)
  <2> DEFINE more == DrawnByLock(booking, {})
             less == DrawnByLock(booking', {})
             fall == FallOf(booking[b], booking'[b])
             drop == SumOver(fall, FamilyOf(lock, t))
             u == TreeOf(lock, more, t).used
             v == TreeOf(lock, less, t).used
             p == Asked(lock, t)
             q == lock[t].pending
  <2>1. Yields(booking[b], booking'[b]) /\ booking[b] \in BookingRows /\ booking'[b] \in BookingRows
    BY <1>1, <1>5, GivesBackYields DEF GivesBack
  <2>2. Falls(more, less, fall)
    BY <1>2, <2>1, YieldFalls DEF Beside
  <2>3. u = v + drop /\ drop \in Nat
    BY <1>2, <2>2, TreeFalls
  <2>4. Overcommitted(booking, lock, t) = Over(p, q, u) /\ p \in Nat /\ q \in Nat /\ u \in Nat
    BY <1>1, OverIs DEF Tree
  <2>5. Overcommitted(booking', lock', t) = Over(p, q, v)
    BY <1>2 DEF Overcommitted, Over, Asked
  <2>6. v \in Nat
    <3>1. v = less[t] + SumOver(less, KidsIn(lock, t))
      BY <1>2, <2>2, TreeIs DEF Falls
    <3>2. less[t] \in Nat /\ SumOver(less, KidsIn(lock, t)) \in Nat
      BY <1>2, <2>2, FamilyFacts DEF Falls
    <3> QED
      BY <3>1, <3>2
  <2> HIDE DEF more, less, fall, drop, u, v, p, q
  <2> QED
    BY <2>3, <2>4, <2>5, <2>6 DEF Over, Clip
<1>6. CASE RestoreBooking(b, Seen(b))
  <2>1. Exists(b) /\ ~HoldsSeats(booking[b]) /\ HoldsSeats(booking'[b])
    BY <1>1, <1>6, RestoredRow
  <2>2. AtHome(booking[b], lock) /\ AtHome(booking'[b], lock)
    <3>1. AllAtHome'
      BY GuestAtHome
    <3> QED
      BY <1>2, <2>1, <3>1 DEF AllAtHome, Exists, HoldsSeats
  <2>3. \A d \in DOMAIN booking'[b].trips, l \in LockIds :
           booking'[b].trips[d].draws[l] > 0 => HasLeft(b, d, l, booking'[b].trips[d].draws[l])
    BY <1>1, <1>6, <2>2, RestoredDraws
  <2> QED
    BY <1>1, <2>1, <2>2, <2>3, DrawnLight
<1> QED
  BY <1>4, <1>5, <1>6 DEF GuestStep

-----------------------------------------------------------------------------
(* On a day to come, a command on the bulk lock leaves no more seats held   *)
(* than were free: one departure a day is written, as one lock would be.   *)

LEMMA OneDayFits ==
    ASSUME PoolInv, LockMoved, NEW d \in Days, NEW t \in LockIds,
           \A x \in DOMAIN lock' \ {t} :
              lock'[x].parent # NoLock \/ lock'[x].day # d \/ (x \in DOMAIN lock /\ lock'[x] = lock[x]),
           Pooled(deployed, d) /\ t \in DOMAIN lock' /\ lock'[t].parent = NoLock /\ lock'[t].day = d /\ IsHolding(lock', t) =>
              HoldsAfter(d, t) <= HoldsBefore(d, t) + Clip(Available(d))
    PROVE  LockFits(d)
<1> DEFINE n == Clip(Available(d))
<1>1. \A x \in LockIds : HoldsBefore(d, x) \in Nat /\ HoldsAfter(d, x) \in Nat
  BY HeldOnFacts, DrawnIsFunction DEF HoldsBefore, HoldsAfter, PoolInv, LockMoved
<1>2. n \in Nat
  <2>1. Available(d) \in Int
    BY DayNumbers DEF SoundDay, Available
  <2> QED
    BY <2>1 DEF Clip
<1>3. ASSUME NEW x \in LockIds \ {t} PROVE HoldsAfter(d, x) <= HoldsBefore(d, x)
  <2>1. CASE x \in DOMAIN lock' /\ lock'[x].day # d
    <3>1. HoldsAfter(d, x) = 0
      BY <2>1 DEF HoldsAfter, HeldOn
    <3> QED
      BY <1>1, <3>1
  <2>2. CASE ~(x \in DOMAIN lock' /\ lock'[x].day # d)
    BY <2>2, OthersHold
  <2> QED
    BY <2>1, <2>2
<1>4. ASSUME Pooled(deployed, d) PROVE HoldsAfter(d, t) <= HoldsBefore(d, t) + n
  <2>1. CASE t \in DOMAIN lock' /\ lock'[t].parent = NoLock /\ lock'[t].day = d /\ IsHolding(lock', t)
    BY <1>4, <2>1
  <2>2. CASE ~(t \in DOMAIN lock' /\ lock'[t].parent = NoLock /\ lock'[t].day = d /\ IsHolding(lock', t))
    <3>1. HoldsAfter(d, t) = 0
      BY <2>2 DEF HoldsAfter, HeldOn
    <3> HIDE DEF n
    <3> QED
      BY <1>1, <1>2, <3>1
  <2> QED
    BY <2>1, <2>2
<1> QED
  BY <1>3, <1>4 DEF LockFits

\* A departure resized holds at most the day's free seats more than it did.
LEMMA ResizedFits ==
    ASSUME PoolInv, LockMoved, today \in Nat, NEW l \in DOMAIN lock, lock[l].parent = NoLock,
           NEW d \in Days, d >= today, lock[l].day = d, Pooled(deployed, d),
           lock'[l].day = d, lock'[l].lapsed = lock[l].lapsed, Resized(l, lock'[l]), IsHolding(lock', l)
    PROVE  HoldsAfter(d, l) <= HoldsBefore(d, l) + Clip(Available(d))
<1> DEFINE drawn == DrawnByLock(booking, {})
           row == lock'[l]
           a == Asked(lock, l)
           q == lock[l].pending
           u == Tree(l).used
           own == Tree(l).held
           av == Available(d)
           r == Asked(lock', l)
           s == row.pending
<1>1. l \in DOMAIN lock' /\ lock'[l].parent = NoLock
  BY DEF LockMoved
<1>2. u = drawn[l] + SumOver(drawn, KidsIn(lock', l))
  BY TopNow, UsedStands
<1>3. HoldsAfter(d, l) = HeldOf(r, s, u)
  BY <1>1, <1>2 DEF HoldsAfter, HeldOn
<1>4. row.status = "active" /\ ~row.lapsed
  BY DEF IsHolding
<1>5. a \in Nat /\ q \in Nat /\ u \in Nat /\ own \in Nat /\ own = HeldOf(a, q, u) /\ lock[l].pax \in Nat /\ lock[l].released \in Nat
  BY TopNow, LockFacts
<1>6. av \in Int
  BY ShortIs
<1>7. IsHolding(lock, l) => HoldsBefore(d, l) = own
  BY TopNow
<1>8. ASSUME IsHolding(lock, l), NEW n \in Nat, r = a - n, s = Clip(q - n)
      PROVE  HoldsAfter(d, l) <= HoldsBefore(d, l) + Clip(Available(d))
  <2> HIDE DEF a, q, u, own, av, r, s
  <2>4. a \in Int /\ q \in Nat /\ u \in Nat
    BY <1>5
  <2>1. HeldOf(a - n, Clip(q - n), u) <= HeldOf(a, q, u)
    BY <2>4, HeldShrunk
  <2>2. HeldOf(a - n, Clip(q - n), u) \in Nat
    BY <1>5 DEF HeldOf, PendOf, Clip, Least
  <2>3. Clip(av) \in Nat
    BY <1>6 DEF Clip
  <2> QED
    BY <1>3, <1>5, <1>7, <1>8, <2>1, <2>2, <2>3 DEF av
<1>9. CASE row.pax = lock[l].pax /\ row.released = lock[l].released /\ row.pending = lock[l].pending
           /\ row.status = lock[l].status
  <2>1. IsHolding(lock, l)
    BY <1>4, <1>9 DEF IsHolding
  <2>2. r = a - 0 /\ s = Clip(q - 0)
    BY <1>5, <1>9 DEF Asked, Clip
  <2> HIDE DEF r, s, a, q, av
  <2> QED
    BY <1>8, <2>1, <2>2
<1>10. ASSUME NEW pax \in Nat, row.released = lock[l].released, row.status = lock[l].status, row.pax = pax,
              lock[l].pax <= pax, row.pending = Grown(l, pax).pending
       PROVE  HoldsAfter(d, l) <= HoldsBefore(d, l) + Clip(Available(d))
  <2> DEFINE p == pax - lock[l].released
             short == ShortOn(lock[l].day, own, pax - lock[l].released - u)
             pend == Tree(l).pend
             kept == IF short > pend THEN short ELSE q
  <2>1. IsHolding(lock, l)
    BY <1>4, <1>10 DEF IsHolding
  <2>2. short = ShortBy(Day(d, {}), IF IsHolding(lock, l) THEN Tree(l).held ELSE 0, p - Tree(l).used)
    <3>1. ~(d < today)
      BY PoolAssumption
    <3> QED
      BY <2>1, <3>1 DEF ShortOn
  <2>3. Grown(l, pax).pending = kept
    BY LockFacts DEF Grown, LockRows
  <2>4. p \in Int /\ Asked(lock, l) <= p /\ r = p /\ s = kept
    BY <1>5, <1>10, <2>3 DEF Asked
  <2> HIDE DEF p, short, r, s
  <2>5. HeldOf(p, kept, Tree(l).used) <= HoldsBefore(d, l) + Clip(Available(d))
    BY <2>2, <2>4, GrownFits
  <2> QED
    BY <1>3, <2>4, <2>5
<1>11. ASSUME NEW pax \in Nat, row.released = lock[l].released, row.status = lock[l].status, row.pax = pax,
              pax < lock[l].pax, row.pending = Clip(lock[l].pending - (lock[l].pax - pax))
       PROVE  HoldsAfter(d, l) <= HoldsBefore(d, l) + Clip(Available(d))
  <2> DEFINE n == lock[l].pax - pax
  <2>1. IsHolding(lock, l)
    BY <1>4, <1>11 DEF IsHolding
  <2>2. n \in Nat /\ r = a - n /\ s = Clip(q - n)
    BY <1>5, <1>11 DEF Asked
  <2> HIDE DEF n, r, s, a, q, av
  <2> QED
    BY <1>8, <2>1, <2>2
<1>12. ASSUME NEW n \in Nat, row.pax = lock[l].pax, row.released = lock[l].released + n,
              row.pending = Clip(lock[l].pending - n), row.status \in {lock[l].status, "released"}
       PROVE  HoldsAfter(d, l) <= HoldsBefore(d, l) + Clip(Available(d))
  <2>1. IsHolding(lock, l)
    BY <1>4, <1>12 DEF IsHolding
  <2>2. r = a - n /\ s = Clip(q - n)
    BY <1>5, <1>12 DEF Asked
  <2> HIDE DEF r, s, a, q, av
  <2> QED
    BY <1>8, <2>1, <2>2
<1>13. CASE row.status = "released"
  BY <1>4, <1>13
<1> HIDE DEF row, a, q, u, own, r, s, drawn
<1>14. Resized(l, row)
  BY DEF row
<1> QED
  BY <1>9, <1>10, <1>11, <1>12, <1>13, <1>14 DEF Resized

LEMMA RegroupedFits ==
    ASSUME BulkInv, DaysApart, today \in Nat, LockMoved, Made, NEW rows, Regrouped(rows), NEW d \in Days, d >= today
    PROVE  LockFits(d)
<1>1. PoolInv /\ \A l \in bulk.rows : l \in DOMAIN lock /\ lock[l].parent = NoLock
  BY DEF BulkInv
<1>2. PICK t \in bulk.rows : \A l \in bulk.rows : lock[l].day = d => l = t
  BY DEF DaysApart, Made
<1>3. t \in DOMAIN lock /\ lock[t].parent = NoLock /\ t \in LockIds
  BY <1>1, LockFacts
<1>4. \A x \in DOMAIN lock' : x \in DOMAIN lock /\ lock'[x] = IF x \in DOMAIN rows THEN rows[x] ELSE lock[x]
  BY DEF Regrouped, WriteRows
<1>5. \A x \in DOMAIN lock' \ {t} :
         lock'[x].parent # NoLock \/ lock'[x].day # d \/ (x \in DOMAIN lock /\ lock'[x] = lock[x])
  BY <1>2, <1>4 DEF Regrouped
<1>6. ASSUME Pooled(deployed, d), t \in DOMAIN lock', lock'[t].day = d, IsHolding(lock', t)
      PROVE  HoldsAfter(d, t) <= HoldsBefore(d, t) + Clip(Available(d))
  <2>1. CASE t \in DOMAIN rows
    <3>1. /\ lock'[t].day = lock[t].day /\ lock'[t].lapsed = lock[t].lapsed /\ Resized(t, lock'[t])
      BY <1>3, <1>4, <1>6, <2>1 DEF Regrouped
    <3> QED
      BY <1>1, <1>3, <1>6, <3>1, ResizedFits
  <2>2. CASE t \notin DOMAIN rows
    <3> DEFINE n == Clip(Available(d))
    <3>1. HoldsAfter(d, t) <= HoldsBefore(d, t)
      BY <1>1, <1>3, <1>4, <2>2, OthersHold
    <3>2. HoldsBefore(d, t) \in Nat /\ HoldsAfter(d, t) \in Nat
      BY <1>1, <1>3, HeldOnFacts, DrawnIsFunction DEF HoldsBefore, HoldsAfter, PoolInv, LockMoved
    <3>3. n \in Nat
      BY <1>1, <1>6, ShortIs DEF Clip
    <3> HIDE DEF n
    <3>4. HoldsAfter(d, t) <= HoldsBefore(d, t) + n
      BY <3>1, <3>2, <3>3
    <3> QED
      BY <3>4 DEF n
  <2> QED
    BY <2>1, <2>2
<1> QED
  BY <1>1, <1>3, <1>5, <1>6, OneDayFits

LEMMA CreatedFits ==
    ASSUME PoolInv, LockMoved, today \in Nat, NEW rows, Created(rows), NEW d \in Days, d >= today
    PROVE  LockFits(d)
<1> DEFINE drawn == DrawnByLock(booking, {})
<1>1. /\ DOMAIN rows # {} /\ DOMAIN rows \subseteq LockIds /\ DOMAIN rows \cap DOMAIN lock = {}
      /\ \A k, l \in DOMAIN rows : rows[k].parent = NoLock /\ rows[l].parent = NoLock /\ rows[k].day = rows[l].day => k = l
  BY DEF Created
<1>2. PICK t \in DOMAIN rows : \A l \in DOMAIN rows : rows[l].parent = NoLock /\ rows[l].day = d => l = t
  BY <1>1
<1>3. \A x \in DOMAIN lock' : /\ x \in DOMAIN rows \cup DOMAIN lock
                              /\ lock'[x] = IF x \in DOMAIN rows THEN rows[x] ELSE lock[x]
  BY DEF Created, WriteRows
<1>4. \A x \in DOMAIN lock' \ {t} :
         lock'[x].parent # NoLock \/ lock'[x].day # d \/ (x \in DOMAIN lock /\ lock'[x] = lock[x])
  BY <1>2, <1>3
<1>5. t \in LockIds /\ t \notin DOMAIN lock
  BY <1>1
<1>6. ASSUME Pooled(deployed, d), t \in DOMAIN lock', lock'[t].parent = NoLock, lock'[t].day = d, IsHolding(lock', t)
      PROVE  HoldsAfter(d, t) <= HoldsBefore(d, t) + Clip(Available(d))
  <2> DEFINE u == drawn[t] + SumOver(drawn, KidsIn(lock', t))
             p == rows[t].pax
             q == rows[t].pending
             short == ShortOn(rows[t].day, 0, rows[t].pax)
             n == Clip(Available(d))
  <2>1. lock'[t] = rows[t] /\ rows[t].parent = NoLock /\ rows[t].day = d
    BY <1>3, <1>6
  <2>2. p \in Nat /\ rows[t].released = 0 /\ (q = short \/ (short > 0 /\ q = p))
    BY <2>1 DEF Created
  <2>3. ~(d < today)
    BY PoolAssumption
  <2>4. short = ShortBy(Day(d, {}), 0, p)
    BY <2>1, <2>3 DEF ShortOn
  <2>5. HoldsBefore(d, t) = 0
    BY <1>5 DEF HoldsBefore, HeldOn
  <2>6. Asked(lock', t) = p
    BY <2>1, <2>2 DEF Asked
  <2>7. HoldsAfter(d, t) = HeldOf(p, q, u)
    BY <1>6, <2>1, <2>6 DEF HoldsAfter, HeldOn
  <2>8. drawn \in [LockIds -> Nat] /\ KidsIn(lock', t) \in SUBSET LockIds
    BY DrawnIsFunction DEF PoolInv, LockMoved, IsLocks, KidsIn
  <2> HIDE DEF drawn
  <2>9. u \in Nat
    <3>1. SumOver(drawn, KidsIn(lock', t)) \in Nat
      BY <2>8, LockSum
    <3> QED
      BY <1>5, <2>8, <3>1
  <2>10. q \in Nat
    <3>1. IsLocks(lock')
      BY DEF LockMoved
    <3> QED
      BY <1>6, <2>1, <3>1 DEF IsLocks, LockRows
  <2>11. n \in Nat
    BY <1>6, ShortIs DEF Clip
  <2> HIDE DEF u, p, q, short, n
  <2>12. HeldOf(p, q, u) <= Clip(Available(d))
    BY <1>6, <2>2, <2>4, <2>9, <2>10, NewFits
  <2>13. HeldOf(p, q, u) <= n
    BY <2>12 DEF n
  <2>14. HoldsAfter(d, t) <= HoldsBefore(d, t) + n
    BY <2>5, <2>7, <2>11, <2>13
  <2> QED
    BY <2>14 DEF n
<1> QED
  BY <1>4, <1>5, <1>6, OneDayFits

LEMMA NotRevived ==
    ASSUME PoolInv, NEW l \in LockIds, NEW pax, NEW e, NEW h, AmendLock(l, pax, e, h, lock[l].lapsed), NEW d
    PROVE  ~Revived(d)
<1> DEFINE row == lock[l]
           tree == Tree(l)
           moving == e # row.day
           kept == IF moving THEN 0
                   ELSE IF pax < row.pax THEN Clip(row.pending - (row.pax - pax)) ELSE row.pending
           used == IF moving THEN 0 ELSE tree.used
           own == IF moving \/ ~IsHolding(lock, l) THEN 0 ELSE tree.held
           short == IF pax > row.pax \/ moving THEN ShortBy(Day(e, {}), own, pax - row.released - used) ELSE 0
           q == IF short > (IF moving THEN 0 ELSE tree.pend) THEN short ELSE kept
           new == [row EXCEPT !.pax = pax, !.day = e, !.holder = h, !.lapsed = row.lapsed, !.pending = q]
<1>1. /\ l \in DOMAIN lock
      /\ lock' = [j \in DOMAIN lock |-> IF j = l THEN new
                    ELSE IF j \in Kids(l) THEN [lock[j] EXCEPT !.day = e, !.holder = h] ELSE lock[j]]
  BY DEF AmendLock, IsTop
<1>2. new.lapsed = lock[l].lapsed
  BY <1>1 DEF PoolInv, IsLocks, LockRows
<1>3. \A j \in DOMAIN lock : [lock[j] EXCEPT !.day = e, !.holder = h].lapsed = lock[j].lapsed
  BY DEF PoolInv, IsLocks, LockRows
<1> HIDE DEF new
<1>4. \A j \in DOMAIN lock : lock'[j].lapsed = lock[j].lapsed
  BY <1>1, <1>2, <1>3
<1> QED
  BY <1>4 DEF Revived

LEMMA RowStepFits ==
    ASSUME BulkInv, NEW l \in LockIds, RowStep(l), NEW d \in Days
    PROVE  LockFits(d)
<1>1. PoolInv /\ l \in BulkRows
  BY DEF BulkInv, RowStep
<1>2. l \in DOMAIN lock /\ lock[l].holder \in Holders
  BY <1>1, RowsFacts
<1>3. lock[l].day \in Days /\ lock[l].lapsed \in BOOLEAN
  BY <1>1, <1>2, LockFacts DEF LockRows
<1>4. ASSUME NEW pax \in 1..MaxLockPax, AmendLock(l, pax, lock[l].day, lock[l].holder, lock[l].lapsed) PROVE LockFits(d)
  <2>1. ~Revived(d)
    BY <1>1, <1>4, NotRevived
  <2> DEFINE e == lock[l].day
             h == lock[l].holder
             lapsed == lock[l].lapsed
  <2>2. AmendLock(l, pax, e, h, lapsed) /\ e \in Days /\ h \in Holders /\ lapsed \in BOOLEAN
    BY <1>2, <1>3, <1>4
  <2> HIDE DEF e, h, lapsed
  <2> QED
    BY <1>1, <2>1, <2>2, AmendLockFits
<1>5. CASE \E pax \in 1..MaxLockPax : AmendSubGroup(l, pax)
  BY <1>1, <1>5, SubGroupStepsFit
<1>6. CASE \E n \in 1..MaxLockPax : AddSeats(l, n) \/ AddToSubGroup(l, n)
  BY <1>1, <1>2, <1>6, AddSeatsFits, SubGroupStepsFit
<1>7. CASE \E n \in 1..MaxLockPax : ReleaseSeats(l, n) \/ ConfirmPending(l, n)
  BY <1>1, <1>7, ReleaseSeatsFits, ConfirmPendingFits
<1>8. CASE ReleaseDeparture(l)
  BY <1>1, <1>8, ReleaseDepartureFits
<1> QED
  BY <1>4, <1>5, <1>6, <1>7, <1>8 DEF RowStep

\* No command on the bulk lock or on one of its rows puts a day to come past its seats.
LEMMA LockDaysKept ==
    ASSUME KeepInv, GroupStep \/ \E l \in LockIds : RowStep(l), NEW d \in Days, d >= today
    PROVE  ~(AvailableAfter(d) < Least(0, Available(d)))
<1>1. BulkInv /\ PoolInv /\ DaysApart /\ today \in Nat /\ LockMoved
  BY GroupMoves, RowStepMoves DEF KeepInv, BulkInv
<1> SUFFICES LockFits(d)
  BY <1>1, LockSells
<1>2. CASE \E l \in LockIds : RowStep(l)
  BY <1>1, <1>2, RowStepFits
<1>3. ASSUME Made, NEW rows, Regrouped(rows) PROVE LockFits(d)
  BY <1>1, <1>3, RegroupedFits
<1>4. ASSUME NEW rows, Created(rows) PROVE LockFits(d)
  BY <1>1, <1>4, CreatedFits
<1>5. CASE GroupStep
  BY <1>1, <1>3, <1>4, <1>5, GroupWrites
<1> QED
  BY <1>2, <1>5

\* Nor does a guest's, but a restored booking, or one that draws on several locks of a departure.
LEMMA GuestDaysKept ==
    ASSUME KeepInv, NEW b \in Bookings, GuestStep(b), NEW d \in Days, ~Restored(b), ~DrawsTogether(b, d)
    PROVE  ~(AvailableAfter(d) < Least(0, Available(d)))
<1>1. BulkInv /\ PoolInv /\ AllTripsSized /\ AllAtHome /\ BookingMoved(b)
  BY GuestMoves DEF KeepInv, BulkInv
<1>2. ASSUME NEW agent \in Agents, NEW trips \in Itineraries, CreateBooking(b, Seen(b), "confirm", agent, trips, FALSE)
      PROVE  ~(AvailableAfter(d) < Least(0, Available(d)))
  <2>1. Answered(b, booking'[b]) /\ ~Exists(b)
    BY <1>1, <1>2, CreateAnswered DEF CreateBooking
  <2>2. ~Approved(b) /\ ~StrayDraws(b)
    BY <2>1 DEF Approved, StrayDraws, HoldsSeats, Exists
  <2>3. ~DisplacedAnyway(b, d)
    BY <1>1, <1>2, MadeAtHome DEF DisplacedAnyway
  <2> QED
    BY <1>1, <2>1, <2>2, <2>3, MovedSells
<1>3. CASE CancelBooking(b)
  <2>1. ~StrayDraws(b)
    <3>1. HoldsSeats(booking[b]) => AtHome(booking[b], lock)
      BY <1>1 DEF AllAtHome, HoldsSeats, Exists
    <3>2. DOMAIN lock \subseteq LockIds
      BY <1>1 DEF PoolInv, IsLocks
    <3> QED
      BY <3>1, <3>2 DEF StrayDraws, AtHome
  <2>2. AvailableAfter(d) >= Available(d)
    BY <1>1, <1>3, <2>1, GivingFrees DEF GivesBack
  <2>3. Available(d) \in Int /\ AvailableAfter(d) \in Int
    BY <1>1, MovedStands, DayInts DEF Available, AvailableAfter, Day
  <2> QED
    BY <2>2, <2>3 DEF Least
<1>4. CASE RestoreBooking(b, Seen(b))
  BY <1>1, <1>4, RestoredRow
<1> QED
  BY <1>2, <1>3, <1>4 DEF GuestStep

-----------------------------------------------------------------------------
(* The departures of a bulk lock, at every step                            *)

LEMMA KeepInit ==
    ASSUME BulkInit PROVE KeepInv
<1>1. BulkInv
  BY BulkInitIsSound
<1>2. AllTripsSized /\ AllAtHome
  BY DEF BulkInit, Init, AllTripsSized, AllAtHome, Exists, NoBooking
<1>3. DaysApart /\ today \in Nat
  BY DEF BulkInit, NoBulk, DaysApart
<1> QED
  BY <1>1, <1>2, <1>3 DEF KeepInv

LEMMA KeepStands ==
    ASSUME KeepInv, [BulkNext]_bulkVars PROVE KeepInv'
<1>1. BulkInv /\ AllTripsSized /\ DaysApart /\ AllAtHome /\ today \in Nat /\ PoolInv
  BY DEF KeepInv, BulkInv
<1>2. BulkInv'
  BY <1>1, BulkStep
<1>3. ASSUME UNCHANGED <<booking, lock, bulk>> PROVE AllTripsSized' /\ DaysApart' /\ AllAtHome'
  BY <1>1, <1>3 DEF AllTripsSized, DaysApart, AllAtHome, Exists
<1>4. CASE UNCHANGED today /\ (GroupStep \/ \E l \in LockIds : RowStep(l))
  <2>1. UNCHANGED booking
    BY <1>1, <1>4, GroupMoves, RowStepMoves DEF LockMoved
  <2>2. AllTripsSized'
    BY <1>1, <2>1 DEF AllTripsSized, Exists
  <2> QED
    BY <1>1, <1>2, <1>4, <2>2, LockApart, LockAtHome DEF KeepInv
<1>5. ASSUME NEW b \in Bookings, GuestStep(b), UNCHANGED <<bulk, today, asked>> PROVE KeepInv'
  <2>1. BookingMoved(b)
    BY <1>1, <1>5, GuestMoves
  <2>2. AllTripsSized' /\ AllAtHome'
    BY <1>1, <1>5, <2>1, GuestSized, GuestAtHome
  <2>3. DaysApart'
    BY <1>1, <1>5, <2>1 DEF DaysApart, BookingMoved
  <2> QED
    BY <1>1, <1>2, <1>5, <2>2, <2>3 DEF KeepInv
<1>6. CASE UNCHANGED <<booking, lock, bulk>> /\ (UNCHANGED today \/ \E d \in Days : today' = d)
  <2>1. today' \in Nat
    BY <1>1, <1>6, PoolAssumption
  <2> QED
    BY <1>2, <1>3, <1>6, <2>1 DEF KeepInv
<1> QED
  BY <1>4, <1>5, <1>6 DEF BulkNext, bulkVars

LEMMA TreesKept ==
    ASSUME KeepInv, [BulkNext]_bulkVars, NEW t \in DOMAIN lock, IsTop(t),
           Overcommitted(booking', lock', t) > Overcommitted(booking, lock, t)
    PROVE  Overdrawn(t) \/ \E b \in Bookings : Approved(b) \/ DrawsTogether(b, lock[t].day)
<1>1. BulkInv /\ PoolInv /\ AllTripsSized /\ AllAtHome /\ lock[t].parent = NoLock
  BY DEF KeepInv, BulkInv, IsTop
<1>2. CASE GroupStep \/ \E l \in LockIds : RowStep(l)
  BY <1>1, <1>2, LockStepLight
<1>3. ASSUME NEW b \in Bookings, GuestStep(b) PROVE DrawsTogether(b, lock[t].day)
  BY <1>1, <1>3, GuestLight
<1>4. CASE UNCHANGED <<booking, lock>>
  <2>1. Overcommitted(booking', lock', t) = Overcommitted(booking, lock, t)
    BY <1>4
  <2>2. Overcommitted(booking, lock, t) \in Int
    BY <1>1, OverIs DEF Over, Clip
  <2> QED
    BY <2>1, <2>2
<1> QED
  BY <1>2, <1>3, <1>4 DEF BulkNext, bulkVars

LEMMA DaysKept ==
    ASSUME KeepInv, [BulkNext]_bulkVars, NEW d \in Days, d >= today, AvailableAfter(d) < Least(0, Available(d))
    PROVE  \E b \in Bookings : Restored(b) \/ DrawsTogether(b, d)
<1>1. CASE GroupStep \/ \E l \in LockIds : RowStep(l)
  BY <1>1, LockDaysKept
<1>2. ASSUME NEW b \in Bookings, GuestStep(b) PROVE Restored(b) \/ DrawsTogether(b, d)
  BY <1>2, GuestDaysKept
<1>3. CASE UNCHANGED <<booking, lock, deployed>>
  <2>1. AvailableAfter(d) = Available(d)
    BY <1>3 DEF AvailableAfter, Available, Day
  <2>2. Available(d) \in Int
    BY DayNumbers DEF SoundDay, Available, KeepInv, BulkInv
  <2> QED
    BY <2>1, <2>2 DEF Least
<1> QED
  BY <1>1, <1>2, <1>3 DEF BulkNext, bulkVars

(* No command on a bulk lock, on one of its departures or on a booking      *)
(* makes seats drawn, waiting and released overlap, nor puts a departure   *)
(* to come past its seats, but a booking that draws on several locks of    *)
(* the departure at once, each weighed alone, a command on a departure one *)
(* of whose locks was drawn past its own seats already, and a restored     *)
(* booking, which takes a day's free seats unweighed.                      *)
THEOREM DeparturesKeepSeats == BulkSpec => DeparturesKeepTheirSeats
<1>1. BulkInit => KeepInv
  BY KeepInit
<1>2. KeepInv /\ [BulkNext]_bulkVars => KeepInv'
  BY KeepStands
<1>3. KeepInv /\ [BulkNext]_bulkVars =>
         [\A l \in DOMAIN lock :
             IsTop(l) /\ Overcommitted(booking', lock', l) > Overcommitted(booking, lock, l) =>
                Overdrawn(l) \/ \E b \in Bookings : Approved(b) \/ DrawsTogether(b, lock[l].day)]_vars
  BY TreesKept
<1>4. KeepInv /\ [BulkNext]_bulkVars =>
         \A d \in Days : d >= today /\ AvailableAfter(d) < Least(0, Available(d)) =>
            \E b \in Bookings : Restored(b) \/ DrawsTogether(b, d)
  BY DaysKept
<1> QED
  BY <1>1, <1>2, <1>3, <1>4, PTL DEF BulkSpec, DeparturesKeepTheirSeats, LockNeverOvercommitted
=============================================================================
