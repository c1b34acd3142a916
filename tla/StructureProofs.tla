--------------------------- MODULE StructureProofs ---------------------------
(***************************************************************************)
(* The containers whose representation is a computation: the heap of       *)
(* PriorityQueue.ts, the words of BitSet.ts, the columns of SOA.ts and the *)
(* probes of BloomFilter.ts, for every value of their constants.           *)
(***************************************************************************)
EXTENDS Containers, SequenceTheorems, FiniteSetTheorems, WellFoundedInduction, TLAPS

LEMMA LeastExists ==
  ASSUME NEW S \in SUBSET Nat, S # {}
  PROVE  \E m \in S : \A n \in S : m <= n
<1>1. PICK m \in S : \A n \in S : <<n, m>> \notin OpToRel(<, Nat)
  BY WFMin, NatLessThanWellFounded
<1>2. \A n \in S : ~(n < m)
  BY <1>1 DEF OpToRel
<1>. QED
  BY <1>2

\* Induction over 0..n, on the set of the numbers for which a claim holds.
LEMMA Reached ==
  ASSUME NEW n \in Nat, NEW S, 0 \in S, \A k \in 1..n : k - 1 \in S => k \in S
  PROVE  \A k \in 0..n : k \in S
<1>. DEFINE Bad == {k \in 0..n : k \notin S}
<1>. SUFFICES ASSUME Bad # {} PROVE FALSE
  OBVIOUS
<1>1. PICK m \in Bad : \A k \in Bad : m <= k
  <2>1. Bad \in SUBSET Nat
    OBVIOUS
  <2>. HIDE DEF Bad
  <2>. QED
    BY <2>1, LeastExists
<1>2. m \in 1..n /\ m \notin S
  OBVIOUS
<1>3. m - 1 \notin Bad /\ m - 1 \in 0..n
  <2>1. m - 1 \in 0..n /\ ~(m <= m - 1)
    BY <1>2
  <2>. HIDE DEF Bad
  <2>. QED
    BY <1>1, <2>1
<1>. QED
  BY <1>2, <1>3

\* f starts with z and goes on by the step function of each index.
Recursion(D, n, z, step, f) ==
  f \in [0..n -> D] /\ f[0] = z /\ \A i \in 1..n : f[i] = step[i][f[i - 1]]

\* A recursive function over 0..n exists when each of its values is a member of
\* D: the library's theorem about this has an operator as a parameter.
LEMMA RecursionExists ==
  ASSUME NEW D, NEW n \in Nat, NEW z \in D, NEW step \in [1..n -> [D -> D]]
  PROVE  \E f : Recursion(D, n, z, step, f)
<1>. DEFINE Upto(m, f) == f \in [0..m -> D] /\ f[0] = z /\ \A i \in 1..m : f[i] = step[i][f[i - 1]]
            Bad == {m \in 0..n : ~ \E f : Upto(m, f)}
<1>1. Bad = {}
  <2>. SUFFICES ASSUME Bad # {} PROVE FALSE
    OBVIOUS
  <2>1. PICK m \in Bad : \A k \in Bad : m <= k
    <3>1. Bad \in SUBSET Nat
      OBVIOUS
    <3>. HIDE DEF Bad
    <3>. QED
      BY <3>1, LeastExists
  <2>2. m \in 0..n /\ ~ \E f : Upto(m, f)
    BY <2>1
  <2>3. CASE m = 0
    <3>1. Upto(0, [i \in 0..0 |-> z])
      OBVIOUS
    <3>. HIDE DEF Upto
    <3>. QED
      BY <2>2, <2>3, <3>1
  <2>4. CASE m # 0
    <3>1. m - 1 \in 0..n /\ m - 1 \notin Bad
      <4>. HIDE DEF Bad
      <4>1. m - 1 \in 0..n /\ ~ (m <= m - 1)
        BY <2>2, <2>4
      <4>. QED
        BY <2>1, <4>1
    <3>2. PICK f : Upto(m - 1, f)
      BY <3>1
    <3>. DEFINE g == [i \in 0..m |-> IF i < m THEN f[i] ELSE step[m][f[m - 1]]]
    <3>3. \A i \in 0..(m - 1) : f[i] \in D /\ g[i] = f[i] /\ i \in 0..m
      BY <2>2, <3>2
    <3>4. step[m][f[m - 1]] \in D /\ m \in 0..m /\ g[m] = step[m][f[m - 1]]
      <4>1. m \in 1..n /\ m - 1 \in 0..(m - 1)
        BY <2>2, <2>4
      <4>2. f[m - 1] \in D /\ step[m] \in [D -> D]
        BY <3>3, <4>1
      <4>. QED
        BY <4>1, <4>2
    <3>5. g \in [0..m -> D]
      <4>1. ASSUME NEW i \in 0..m PROVE g[i] \in D
        <5>1. i = m \/ i \in 0..(m - 1)
          BY <2>2
        <5>. HIDE DEF g
        <5>. QED
          BY <3>3, <3>4, <5>1
      <4>. QED
        BY <4>1
    <3>6. g[0] = z
      BY <2>2, <2>4, <3>2, <3>3
    <3>. HIDE DEF g
    <3>7. ASSUME NEW i \in 1..m PROVE g[i] = step[i][g[i - 1]]
      <4>1. i - 1 \in 0..(m - 1) /\ g[i - 1] = f[i - 1]
        BY <2>2, <3>3
      <4>2. CASE i = m
        BY <3>4, <4>1, <4>2
      <4>3. CASE i # m
        <5>1. i \in 0..(m - 1) /\ i \in 1..(m - 1)
          BY <2>2, <4>3
        <5>. QED
          BY <3>2, <3>3, <4>1, <5>1
      <4>. QED
        BY <4>2, <4>3
    <3>8. Upto(m, g)
      BY <3>5, <3>6, <3>7
    <3>. HIDE DEF Upto
    <3>. QED
      BY <2>2, <3>8
  <2>. QED
    BY <2>3, <2>4
<1>2. \E f : Upto(n, f)
  <2>1. n \in 0..n
    OBVIOUS
  <2>. HIDE DEF Upto
  <2>. QED
    BY <1>1, <2>1, Zenon
<1>3. PICK f : Upto(n, f)
  <2>. HIDE DEF Upto
  <2>. QED
    BY <1>2
<1>4. Recursion(D, n, z, step, f)
  BY <1>3 DEF Recursion
<1>. QED
  BY <1>4

-----------------------------------------------------------------------------
(* PriorityQueue: the tree in an array, and what a sift moves. *)

Held == Elem \cup {Undef}

\* An array of some length of which the first n slots hold elements.
HeapArray(items, len, n) ==
  /\ len \in Nat /\ n \in 0..len /\ items \in [0..(len - 1) -> Held]
  /\ \A i \in 0..(n - 1) : items[i] \in Elem

Distinct(items, n) == \A i, j \in 0..(n - 1) : items[i] = items[j] => i = j
Elements(items, n) == {items[i] : i \in 0..(n - 1)}

\* The same elements in other places.
Rearranged(f, g, n) == Elements(f, n) = Elements(g, n) /\ (Distinct(f, n) => Distinct(g, n))

LEMMA HeapSizes ==
  ASSUME NEW S
  PROVE  PQ!Cardinality(S) = Cardinality(S)
BY DEF PQ!Cardinality, Cardinality

\* Node i does not come before its parent.
InOrder(items, i) == ~ (Rank(items[i]) < Rank(items[PQ!Parent(i)]))

LEMMA Family ==
  /\ \A i \in Nat \ {0} : PQ!Parent(i) \in Nat /\ PQ!Parent(i) < i /\ 2 * PQ!Parent(i) + 1 <= i /\ i <= 2 * PQ!Parent(i) + 2
  /\ \A i, j \in Nat : i # 0 /\ PQ!Parent(i) = j <=> i = 2 * j + 1 \/ i = 2 * j + 2
  /\ \A i, j \in Nat : i # 0 /\ i <= j => PQ!Parent(i) <= PQ!Parent(j)
BY DEF PQ!Parent

LEMMA ParentIs ==
  ASSUME NEW n \in Nat
  PROVE  \A i \in 1..n : PQ!Parent(i) \in Nat /\ PQ!Parent(i) < i /\ PQ!Parent(i) \in 0..n /\ PQ!Parent(i) \in 0..(n - 1)
BY DEF PQ!Parent

LEMMA Exchange2 ==
  ASSUME NEW n \in Nat, NEW f, NEW g, NEW p \in 0..(n - 1), NEW q \in 0..(n - 1),
         g[p] = f[q], g[q] = f[p], \A i \in 0..(n - 1) : i # p /\ i # q => g[i] = f[i]
  PROVE  Rearranged(f, g, n)
<1>. DEFINE to(i) == IF i = p THEN q ELSE IF i = q THEN p ELSE i
<1>1. \A i \in 0..(n - 1) : to(i) \in 0..(n - 1) /\ g[i] = f[to(i)] /\ f[i] = g[to(i)]
  OBVIOUS
<1>2. \A i, j \in 0..(n - 1) : to(i) = to(j) => i = j
  OBVIOUS
<1>. HIDE DEF to
<1>3. Elements(f, n) = Elements(g, n)
  BY <1>1 DEF Elements
<1>4. Distinct(f, n) => Distinct(g, n)
  BY <1>1, <1>2 DEF Distinct
<1>. QED
  BY <1>3, <1>4 DEF Rearranged

LEMMA RearrangedOnce ==
  ASSUME NEW f, NEW g, NEW h, NEW n, Rearranged(f, g, n), Rearranged(g, h, n)
  PROVE  Rearranged(f, h, n)
BY DEF Rearranged

-----------------------------------------------------------------------------
(* siftUp. *)

UpStates(len, n) == [items : [0..(len - 1) -> Held], at : 0..n, fuel : Nat]

\* A turn that moves an ancestor down.
Climbs(s, value) == s.at > 0 /\ s.fuel > 0 /\ Rank(value) < Rank(s.items[PQ!Parent(s.at)])

LEMMA ClimbIs ==
  ASSUME NEW len \in Nat, NEW n \in 0..(len - 1), NEW s \in UpStates(len, n), NEW value,
         NEW t, t = PQ!Climb(s, value)
  PROVE  /\ t \in UpStates(len, n)
         /\ ~Climbs(s, value) => t = s
         /\ Climbs(s, value) => /\ t.at = PQ!Parent(s.at) /\ t.fuel = s.fuel - 1
                                /\ t.items = [s.items EXCEPT ![s.at] = s.items[PQ!Parent(s.at)]]
<1>1. s.items \in [0..(len - 1) -> Held] /\ s.at \in 0..n /\ s.fuel \in Nat
  BY DEF UpStates
<1>2. CASE ~Climbs(s, value)
  BY <1>2 DEF PQ!Climb, Climbs
<1>3. CASE Climbs(s, value)
  <2>1. s.at \in Nat \ {0} /\ s.fuel - 1 \in Nat
    BY <1>1, <1>3 DEF Climbs
  <2>2. PQ!Parent(s.at) \in 0..n /\ PQ!Parent(s.at) \in 0..(len - 1) /\ s.at \in 0..(len - 1)
    <3>1. PQ!Parent(s.at) \in Nat /\ PQ!Parent(s.at) < s.at
      BY <2>1, Family
    <3>. QED
      BY <1>1, <3>1
  <2>3. [s.items EXCEPT ![s.at] = s.items[PQ!Parent(s.at)]] \in [0..(len - 1) -> Held]
    BY <1>1, <2>2
  <2>4. t = [items |-> [s.items EXCEPT ![s.at] = s.items[PQ!Parent(s.at)]],
             at |-> PQ!Parent(s.at), fuel |-> s.fuel - 1]
    BY <1>3 DEF PQ!Climb, Climbs
  <2>. QED
    BY <1>3, <2>1, <2>2, <2>3, <2>4 DEF UpStates
<1>. QED
  BY <1>2, <1>3

\* The turns of siftUp's loop, which stay among the states that a turn keeps.
ClimbKept(D, value) == \A s \in D : PQ!Climb(s, value) \in D
ClimbRun(f, D, n, value, z) ==
  /\ f[0] = z /\ \A k \in 0..n : f[k] \in D
  /\ \A k \in 1..n : f[k] = PQ!Climb(f[k - 1], value)

LEMMA ClimbTurns ==
  ASSUME NEW n \in Nat, NEW value, NEW fuel, NEW items, NEW D, ClimbKept(D, value),
         NEW z \in D, z = [items |-> items, at |-> n, fuel |-> fuel]
  PROVE  \E f : ClimbRun(f, D, n, value, z) /\ PQ!SiftUpLoop(items, value, n, fuel) = f[n]
<1>. DEFINE step == [k \in 1..n |-> [s \in D |-> PQ!Climb(s, value)]]
            P(g) == g = [k \in 0..n |-> IF k = 0 THEN z ELSE PQ!Climb(g[k - 1], value)]
            F == CHOOSE g : P(g)
<1>1. step \in [1..n -> [D -> D]]
  BY DEF ClimbKept
<1>2. PICK r : Recursion(D, n, z, step, r)
  <2>. HIDE DEF step
  <2>. QED
    BY <1>1, RecursionExists
<1>3. P(r)
  <2>1. r \in [0..n -> D] /\ r[0] = z /\ \A k \in 1..n : r[k] = step[k][r[k - 1]]
    BY <1>2 DEF Recursion
  <2>2. \A k \in 1..n : r[k] = PQ!Climb(r[k - 1], value)
    <3>1. \A k \in 1..n : k - 1 \in 0..n
      OBVIOUS
    <3>. QED
      BY <2>1, <3>1
  <2>3. \A k \in 0..n : r[k] = IF k = 0 THEN z ELSE PQ!Climb(r[k - 1], value)
    BY <2>1, <2>2
  <2>. QED
    BY <2>1, <2>3
<1>4. P(F)
  <2>. HIDE DEF P
  <2>. QED
    BY <1>3
<1>5. PQ!SiftUpLoop(items, value, n, fuel) = F[n]
  BY DEF PQ!SiftUpLoop
<1>. HIDE DEF F
<1>6. F[0] = z /\ \A k \in 1..n : F[k] = PQ!Climb(F[k - 1], value)
  BY <1>4
<1>7. \A k \in 0..n : F[k] \in D
  <2>. DEFINE S == {k \in 0..n : F[k] \in D}
  <2>1. 0 \in S /\ \A k \in 1..n : k - 1 \in S => k \in S
    BY <1>6 DEF ClimbKept
  <2>. HIDE DEF S
  <2>2. \A k \in 0..n : k \in S
    BY <2>1, Reached
  <2>. QED
    BY <2>2 DEF S
<1>. QED
  BY <1>5, <1>6, <1>7 DEF ClimbRun

\* The turns of siftUp's catch block.
UnclimbKept(D, end) == \A s \in D : PQ!Unclimb(s, end) \in D
UnclimbRun(f, D, n, end, z) ==
  /\ f[0] = z /\ \A k \in 0..n : f[k] \in D
  /\ \A k \in 1..n : f[k] = PQ!Unclimb(f[k - 1], end)

LEMMA UnclimbTurns ==
  ASSUME NEW n \in Nat, NEW value, NEW end, NEW items, NEW D, UnclimbKept(D, end),
         NEW z \in D, z = [items |-> items, at |-> n, carry |-> value]
  PROVE  \E f : UnclimbRun(f, D, n, end, z) /\ PQ!ShiftBack(items, n, end, value) = f[n].items
<1>. DEFINE step == [k \in 1..n |-> [s \in D |-> PQ!Unclimb(s, end)]]
            P(g) == g = [k \in 0..n |-> IF k = 0 THEN z ELSE PQ!Unclimb(g[k - 1], end)]
            F == CHOOSE g : P(g)
<1>1. step \in [1..n -> [D -> D]]
  BY DEF UnclimbKept
<1>2. PICK r : Recursion(D, n, z, step, r)
  <2>. HIDE DEF step
  <2>. QED
    BY <1>1, RecursionExists
<1>3. P(r)
  <2>1. r \in [0..n -> D] /\ r[0] = z /\ \A k \in 1..n : r[k] = step[k][r[k - 1]]
    BY <1>2 DEF Recursion
  <2>2. \A k \in 1..n : r[k] = PQ!Unclimb(r[k - 1], end)
    <3>1. \A k \in 1..n : k - 1 \in 0..n
      OBVIOUS
    <3>. QED
      BY <2>1, <3>1
  <2>3. \A k \in 0..n : r[k] = IF k = 0 THEN z ELSE PQ!Unclimb(r[k - 1], end)
    BY <2>1, <2>2
  <2>. QED
    BY <2>1, <2>3
<1>4. P(F)
  <2>. HIDE DEF P
  <2>. QED
    BY <1>3
<1>5. PQ!ShiftBack(items, n, end, value) = F[n].items
  BY DEF PQ!ShiftBack
<1>. HIDE DEF F
<1>6. F[0] = z /\ \A k \in 1..n : F[k] = PQ!Unclimb(F[k - 1], end)
  BY <1>4
<1>7. \A k \in 0..n : F[k] \in D
  <2>. DEFINE S == {k \in 0..n : F[k] \in D}
  <2>1. 0 \in S /\ \A k \in 1..n : k - 1 \in S => k \in S
    BY <1>6 DEF UnclimbKept
  <2>. HIDE DEF S
  <2>2. \A k \in 0..n : k \in S
    BY <2>1, Reached
  <2>. QED
    BY <2>2 DEF S
<1>. QED
  BY <1>5, <1>6, <1>7 DEF UnclimbRun

LEMMA RearrangedIn ==
  ASSUME NEW f, NEW g, NEW n \in Nat, Rearranged(f, g, n), \A i \in 0..(n - 1) : f[i] \in Elem
  PROVE  \A i \in 0..(n - 1) : g[i] \in Elem
<1>1. \A i \in 0..(n - 1) : g[i] \in Elements(f, n)
  BY DEF Rearranged, Elements
<1>. QED
  BY <1>1 DEF Elements

\* The array with the element that is sifted put in the hole.
Whole(s, value) == [s.items EXCEPT ![s.at] = value]

\* Every node but the hole is in order, and the hole's children are so with its parent.
UpOrder(w, at, n) ==
  /\ \A i \in 1..n : i # at => InOrder(w, i)
  /\ \A i \in 1..n : PQ!Parent(i) = at /\ at > 0 => ~ (Rank(w[i]) < Rank(w[PQ!Parent(at)]))

LEMMA UpKeepsOrder ==
  ASSUME HeapAssumption, NEW n \in Nat, NEW w, NEW v, NEW at \in 1..n, NEW p, p = PQ!Parent(at),
         \A i \in 0..n : w[i] \in Elem,
         UpOrder(w, at, n), Rank(w[at]) < Rank(w[p]),
         v[at] = w[p], v[p] = w[at], \A i \in 0..n : i # at /\ i # p => v[i] = w[i]
  PROVE  UpOrder(v, p, n)
<1>1. p \in Nat /\ p < at /\ at \in Nat /\ at <= n /\ p \in 0..n
  BY ParentIs
<1>2. \A i \in 0..n : Rank(w[i]) \in Int
  BY DEF HeapAssumption
<1>3. \A i \in 1..n : i # at => ~ (Rank(w[i]) < Rank(w[PQ!Parent(i)]))
  BY DEF UpOrder, InOrder
<1>4. \A i \in 1..n : PQ!Parent(i) = at => ~ (Rank(w[i]) < Rank(w[p]))
  BY <1>1 DEF UpOrder
<1>5. \A i \in 1..n : PQ!Parent(i) \in 0..n /\ i \in 0..n /\ PQ!Parent(i) < i
  BY ParentIs
<1>6. ASSUME NEW i \in 1..n, i # p
      PROVE  ~ (Rank(v[i]) < Rank(v[PQ!Parent(i)]))
  <2>1. CASE i = at
    BY <1>1, <1>2, <2>1
  <2>2. CASE i # at /\ PQ!Parent(i) = at
    BY <1>4, <1>5, <1>6, <2>2
  <2>3. CASE i # at /\ PQ!Parent(i) = p
    <3>1. v[i] = w[i] /\ v[PQ!Parent(i)] = w[at]
      BY <1>5, <1>6, <2>3
    <3>2. ~ (Rank(w[i]) < Rank(w[p]))
      BY <1>3, <2>3
    <3>. QED
      BY <1>1, <1>2, <1>5, <3>1, <3>2
  <2>4. CASE i # at /\ PQ!Parent(i) # at /\ PQ!Parent(i) # p
    BY <1>3, <1>5, <1>6, <2>4
  <2>. QED
    BY <2>1, <2>2, <2>3, <2>4
<1>7. ASSUME NEW i \in 1..n, PQ!Parent(i) = p, p > 0
      PROVE  ~ (Rank(v[i]) < Rank(v[PQ!Parent(p)]))
  <2>1. p \in 1..n /\ PQ!Parent(p) \in 0..n /\ PQ!Parent(p) < p /\ v[PQ!Parent(p)] = w[PQ!Parent(p)]
    BY <1>1, <1>5, <1>7
  <2>2. ~ (Rank(w[p]) < Rank(w[PQ!Parent(p)]))
    BY <1>1, <1>3, <2>1
  <2>3. v[i] = w[p] \/ (v[i] = w[i] /\ ~ (Rank(w[i]) < Rank(w[p])))
    BY <1>3, <1>5, <1>7
  <2>4. /\ Rank(w[i]) \in Int /\ Rank(w[p]) \in Int /\ Rank(w[PQ!Parent(p)]) \in Int
    BY <1>1, <1>2, <1>5, <2>1
  <2>5. ~ (Rank(v[i]) < Rank(w[PQ!Parent(p)]))
    <3>1. CASE v[i] = w[p]
      BY <2>2, <3>1
    <3>2. CASE v[i] = w[i] /\ ~ (Rank(w[i]) < Rank(w[p]))
      BY <2>2, <2>4, <3>2
    <3>. QED
      BY <2>3, <3>1, <3>2
  <2>. QED
    BY <2>1, <2>5
<1>. QED
  BY <1>6, <1>7 DEF UpOrder, InOrder

\* The places that a sift has moved an ancestor to: a path, from the start down
\* to the hole, on which every node has what its parent held at first.
UpTrail(V, items, at, first, len, n) ==
  /\ V \subseteq 1..n /\ n \in V \cup {at}
  /\ \A x \in V : x > at /\ PQ!Parent(x) \in V \cup {at} /\ items[x] = first[PQ!Parent(x)]
  /\ \A x \in (0..(len - 1)) \ V : items[x] = first[x]
  /\ \A x, y \in V : x < y => x <= PQ!Parent(y)

LEMMA UpKeepsTrail ==
  ASSUME NEW len \in Nat, NEW n \in 0..(len - 1), NEW V, NEW items \in [0..(len - 1) -> Held],
         NEW at \in 1..n, NEW first, UpTrail(V, items, at, first, len, n),
         NEW new, new = [items EXCEPT ![at] = items[PQ!Parent(at)]]
  PROVE  UpTrail(V \cup {at}, new, PQ!Parent(at), first, len, n)
<1>. DEFINE p == PQ!Parent(at)
            W == V \cup {at}
<1>1. p \in Nat /\ p < at /\ at \in Nat /\ at <= n /\ p \in 0..(len - 1) /\ at \in 0..(len - 1)
  <2>1. p \in Nat /\ p < at
    BY ParentIs
  <2>. QED
    BY <2>1
<1>. HIDE DEF p
<1>2. /\ V \subseteq 1..n /\ n \in V \cup {at}
      /\ \A x \in V : x > at /\ PQ!Parent(x) \in V \cup {at} /\ items[x] = first[PQ!Parent(x)]
      /\ \A x \in (0..(len - 1)) \ V : items[x] = first[x]
      /\ \A x, y \in V : x < y => x <= PQ!Parent(y)
  BY DEF UpTrail
<1>3. at \notin V /\ p \notin V /\ p \notin W
  BY <1>1, <1>2
<1>4. new[at] = first[p] /\ \A x \in 0..(len - 1) : x # at => new[x] = items[x]
  BY <1>1, <1>2, <1>3 DEF p
<1>5. ASSUME NEW x \in W
      PROVE  x > p /\ PQ!Parent(x) \in W \cup {p} /\ new[x] = first[PQ!Parent(x)]
  <2>1. CASE x = at
    BY <1>1, <1>4, <2>1 DEF p
  <2>2. CASE x # at
    <3>1. x \in V /\ x \in 1..n /\ x \in 0..(len - 1)
      BY <1>2, <2>2
    <3>. QED
      BY <1>1, <1>2, <1>4, <2>2, <3>1
  <2>. QED
    BY <2>1, <2>2
<1>6. ASSUME NEW x \in W, NEW y \in W, x < y  PROVE x <= PQ!Parent(y)
  <2>1. CASE y = at
    BY <1>1, <1>2, <1>6, <2>1
  <2>2. CASE y # at /\ x = at
    <3>1. PQ!Parent(y) \in V \cup {at} /\ y \in V
      BY <1>2, <2>2
    <3>2. PQ!Parent(y) = at \/ PQ!Parent(y) > at
      BY <1>2, <3>1
    <3>3. PQ!Parent(y) \in Int
      <4>1. y \in 1..n /\ n \in Nat
        BY <1>1, <1>2, <3>1
      <4>. QED
        BY <4>1, ParentIs
    <3>. QED
      BY <1>1, <2>2, <3>2, <3>3
  <2>3. CASE y # at /\ x # at
    BY <1>2, <1>6, <2>3
  <2>. QED
    BY <2>1, <2>2, <2>3
<1>7. W \subseteq 1..n /\ n \in W \cup {p}
  BY <1>1, <1>2
<1>8. \A x \in (0..(len - 1)) \ W : new[x] = first[x]
  BY <1>2, <1>4
<1>. QED
  BY <1>5, <1>6, <1>7, <1>8 DEF UpTrail, p

\* The catch block of siftUp puts every ancestor back.
LEMMA BackIs ==
  ASSUME NEW len \in Nat, NEW n \in 0..(len - 1), NEW V, NEW items \in [0..(len - 1) -> Held],
         NEW at \in 0..n, NEW first \in [0..(len - 1) -> Held],
         UpTrail(V, items, at, first, len, n)
  PROVE  PQ!ShiftBack(items, n, at, first[n]) = first
<1>. DEFINE States == [items : [0..(len - 1) -> Held], at : 0..n, carry : Held]
            Back(s) == /\ s.at \in V \cup {at} /\ s.carry = first[s.at]
                       /\ \A x \in 0..(len - 1) : x \notin V \/ x > s.at => s.items[x] = first[x]
                       /\ \A x \in V : x <= s.at => s.items[x] = first[PQ!Parent(x)]
            D == {s \in States : Back(s)}
            z == [items |-> items, at |-> n, carry |-> first[n]]
<1>1. /\ V \subseteq 1..n /\ n \in V \cup {at}
      /\ \A x \in V : x > at /\ PQ!Parent(x) \in V \cup {at} /\ items[x] = first[PQ!Parent(x)]
      /\ \A x \in (0..(len - 1)) \ V : items[x] = first[x]
      /\ \A x, y \in V : x < y => x <= PQ!Parent(y)
  BY DEF UpTrail
<1>2. /\ n \in Nat /\ n \in 0..n /\ 0..n \subseteq 0..(len - 1) /\ 1..n \subseteq 0..(len - 1)
      /\ at \in Int
  OBVIOUS
<1>3. z \in D
  <2>1. z \in States
    BY <1>2
  <2>2. Back(z)
    BY <1>1, <1>2
  <2>. QED
    BY <2>1, <2>2
<1>4. ASSUME NEW s \in D  PROVE PQ!Unclimb(s, at) \in D /\ (s.at # at => PQ!Unclimb(s, at).at < s.at)
  <2>1. CASE s.at = at
    BY <2>1 DEF PQ!Unclimb
  <2>2. CASE s.at # at
    <3>. DEFINE t == PQ!Unclimb(s, at)
                new == [s.items EXCEPT ![s.at] = s.carry]
    <3>1. t = [items |-> new, at |-> PQ!Parent(s.at), carry |-> s.items[s.at]]
      BY <2>2 DEF PQ!Unclimb
    <3>2. /\ s.items \in [0..(len - 1) -> Held] /\ s.at \in V /\ s.carry = first[s.at]
          /\ s.carry \in Held
          /\ \A x \in 0..(len - 1) : x \notin V \/ x > s.at => s.items[x] = first[x]
          /\ \A x \in V : x <= s.at => s.items[x] = first[PQ!Parent(x)]
      BY <2>2
    <3>3. s.at \in 1..n /\ s.at \in 0..(len - 1) /\ PQ!Parent(s.at) \in V \cup {at}
          /\ PQ!Parent(s.at) < s.at /\ PQ!Parent(s.at) \in 0..n
      BY <1>1, <1>2, <3>2, ParentIs
    <3>4. s.items[s.at] = first[PQ!Parent(s.at)] /\ s.items[s.at] \in Held
      BY <3>2, <3>3
    <3>5. /\ new \in [0..(len - 1) -> Held] /\ new[s.at] = first[s.at]
          /\ \A x \in 0..(len - 1) : x # s.at => new[x] = s.items[x]
      BY <3>2, <3>3
    <3>. HIDE DEF new, t, D
    <3>6. t.items = new /\ t.at = PQ!Parent(s.at) /\ t.carry = first[t.at] /\ t \in States
      BY <3>1, <3>3, <3>4, <3>5
    <3>7. ASSUME NEW x \in 0..(len - 1), x \notin V \/ x > PQ!Parent(s.at)
          PROVE  new[x] = first[x]
      <4>1. CASE x = s.at
        BY <3>5, <4>1
      <4>2. CASE x # s.at /\ (x \notin V \/ x > s.at)
        BY <3>2, <3>5, <4>2
      <4>3. CASE x \in V /\ x < s.at
        BY <1>1, <3>2, <3>3, <3>7, <4>3
      <4>. QED
        BY <3>3, <4>1, <4>2, <4>3
    <3>8. ASSUME NEW x \in V, x <= PQ!Parent(s.at)
          PROVE  new[x] = first[PQ!Parent(x)]
      <4>1. x \in 0..(len - 1) /\ x < s.at /\ x # s.at /\ x <= s.at
        BY <1>1, <1>2, <3>3, <3>8
      <4>. QED
        BY <3>2, <3>5, <4>1
    <3>9. Back(t)
      BY <3>3, <3>6, <3>7, <3>8
    <3>. QED
      BY <3>3, <3>6, <3>9 DEF D, t
  <2>. QED
    BY <2>1, <2>2
<1>10. z = [items |-> items, at |-> n, carry |-> first[n]] /\ \A s \in D : PQ!Unclimb(s, at) \in D
  <2>. HIDE DEF D
  <2>. QED
    BY <1>4
<1>. HIDE DEF States, D, z, Back
<1>11. PICK f : UnclimbRun(f, D, n, at, z) /\ PQ!ShiftBack(items, n, at, first[n]) = f[n].items
  <2>1. n \in Nat /\ z \in D /\ UnclimbKept(D, at)
    BY <1>2, <1>3, <1>10 DEF UnclimbKept
  <2>. DEFINE carry == first[n]
  <2>2. z = [items |-> items, at |-> n, carry |-> carry]
    BY <1>10
  <2>. HIDE DEF carry
  <2>3. \E f : UnclimbRun(f, D, n, at, z) /\ PQ!ShiftBack(items, n, at, carry) = f[n].items
    BY <2>1, <2>2, UnclimbTurns
  <2>. QED
    BY <2>3 DEF carry
<1>5. /\ f[0] = z /\ \A k \in 0..n : f[k] \in D
      /\ \A k \in 1..n : f[k] = PQ!Unclimb(f[k - 1], at)
  BY <1>11 DEF UnclimbRun
<1>6. \A k \in 0..n : f[k].at \in Int /\ f[k].at >= at
  <2>1. \A s \in D : s.at \in 0..n /\ s.at \in V \cup {at}
    BY DEF D, States, Back
  <2>2. \A s \in D : s.at \in Int /\ s.at >= at
    BY <1>1, <1>2, <2>1
  <2>. QED
    BY <1>5, <2>2
<1>7. \A k \in 0..n : f[k].at = at \/ f[k].at <= n - k
  <2>. DEFINE S == {k \in 0..n : f[k].at = at \/ f[k].at <= n - k}
  <2>1. 0 \in S
    BY <1>2, <1>5, <1>10
  <2>2. ASSUME NEW k \in 1..n, k - 1 \in S  PROVE k \in S
    <3>1. k - 1 \in 0..n /\ k \in 0..n /\ f[k - 1] \in D /\ f[k] = PQ!Unclimb(f[k - 1], at)
      BY <1>5
    <3>2. CASE f[k - 1].at = at
      BY <3>1, <3>2 DEF PQ!Unclimb
    <3>3. CASE f[k - 1].at # at
      BY <1>2, <1>4, <1>6, <2>2, <3>1, <3>3, SMTT(30)
    <3>. QED
      BY <3>2, <3>3
  <2>. HIDE DEF S
  <2>3. \A k \in 0..n : k \in S
    BY <1>2, <2>1, <2>2, Reached
  <2>. QED
    BY <2>3 DEF S
<1>8. f[n] \in D /\ f[n].at = at
  <2>1. f[n].at = at \/ f[n].at <= 0
    BY <1>2, <1>7
  <2>2. f[n].at >= at /\ f[n].at \in Int
    BY <1>2, <1>6
  <2>. QED
    BY <1>2, <1>5, <2>1, <2>2
<1>9. f[n].items \in [0..(len - 1) -> Held] /\ \A x \in 0..(len - 1) : f[n].items[x] = first[x]
  <2>1. f[n].items \in [0..(len - 1) -> Held]
    BY <1>8 DEF D, States
  <2>2. \A x \in 0..(len - 1) : x \notin V \/ x > at => f[n].items[x] = first[x]
    BY <1>8 DEF D, Back
  <2>. QED
    BY <1>1, <2>1, <2>2
<1>. QED
  BY <1>9, <1>11

\* The states of siftUp's loop from an array whose first n nodes are in order.
UpSound(len, n, items) ==
  {s \in UpStates(len, n) :
      /\ Rearranged(items, Whole(s, items[n]), n + 1)
      /\ UpOrder(Whole(s, items[n]), s.at, n)
      /\ \E V : UpTrail(V, s.items, s.at, items, len, n)}

LEMMA UpBegins ==
  ASSUME NEW len \in Nat, NEW n \in 0..(len - 1), NEW items, HeapArray(items, len, n + 1),
         \A i \in 1..(n - 1) : InOrder(items, i), NEW fuel \in Nat
  PROVE  [items |-> items, at |-> n, fuel |-> fuel] \in UpSound(len, n, items)
<1>. DEFINE z == [items |-> items, at |-> n, fuel |-> fuel]
<1>1. n \in Nat /\ n \in 0..(len - 1) /\ items \in [0..(len - 1) -> Held]
  BY DEF HeapArray
<1>2. z \in UpStates(len, n) /\ z.items = items /\ z.at = n
  BY <1>1 DEF UpStates
<1>. HIDE DEF z
<1>3. Whole(z, items[n]) = items
  BY <1>1, <1>2 DEF Whole
<1>4. Rearranged(items, items, n + 1)
  BY DEF Rearranged
<1>5. UpOrder(items, n, n)
  BY <1>1, ParentIs DEF UpOrder
<1>6. UpTrail({}, items, n, items, len, n)
  BY <1>1 DEF UpTrail
<1>. QED
  BY <1>2, <1>3, <1>4, <1>5, <1>6 DEF UpSound, z

LEMMA UpKeeps ==
  ASSUME HeapAssumption, NEW len \in Nat, NEW n \in 0..(len - 1), NEW items, HeapArray(items, len, n + 1),
         NEW s \in UpSound(len, n, items)
  PROVE  PQ!Climb(s, items[n]) \in UpSound(len, n, items)
<1>. DEFINE value == items[n]
            t == PQ!Climb(s, value)
            w == Whole(s, value)
            v == Whole(t, value)
            at == s.at
            p == PQ!Parent(s.at)
<1>1. s \in UpStates(len, n) /\ Rearranged(items, w, n + 1) /\ UpOrder(w, at, n)
  BY DEF UpSound
<1>2. PICK V : UpTrail(V, s.items, at, items, len, n)
  BY DEF UpSound
<1>3. /\ n \in Nat /\ n + 1 \in Nat /\ (n + 1) - 1 = n /\ 0..n \subseteq 0..(len - 1)
      /\ items \in [0..(len - 1) -> Held] /\ s.items \in [0..(len - 1) -> Held] /\ at \in 0..n
  BY <1>1 DEF HeapArray, UpStates
<1>4. \A i \in 0..n : w[i] \in Elem
  <2>1. \A i \in 0..((n + 1) - 1) : items[i] \in Elem
    BY DEF HeapArray
  <2>. HIDE DEF w
  <2>2. \A i \in 0..((n + 1) - 1) : w[i] \in Elem
    BY <1>1, <1>3, <2>1, RearrangedIn
  <2>. QED
    BY <1>3, <2>2
<1>5. w[at] = value /\ \A i \in 0..(len - 1) : i # at => w[i] = s.items[i]
  BY <1>3 DEF Whole
<1>6. /\ t \in UpStates(len, n)
      /\ ~Climbs(s, value) => t = s
      /\ Climbs(s, value) => t.at = p /\ t.items = [s.items EXCEPT ![at] = s.items[p]]
  <2>. HIDE DEF value
  <2>. QED
    BY <1>1, ClimbIs
<1>7. CASE ~Climbs(s, value)
  BY <1>6, <1>7
<1>8. CASE Climbs(s, value)
  <2>1. at \in 1..n /\ Rank(value) < Rank(s.items[p])
    BY <1>3, <1>8 DEF Climbs
  <2>2. p \in 0..n /\ p < at /\ p \in 0..(len - 1) /\ at \in 0..(len - 1) /\ p # at /\ p \in Nat
    BY <1>3, <2>1, ParentIs, SMTT(30)
  <2>3. v = [[s.items EXCEPT ![at] = s.items[p]] EXCEPT ![p] = value]
    BY <1>6, <1>8 DEF Whole
  <2>4. v[at] = w[p] /\ v[p] = w[at] /\ \A i \in 0..(len - 1) : i # at /\ i # p => v[i] = w[i]
    <3>. HIDE DEF v, w, p, value, at
    <3>. QED
      BY <1>3, <1>5, <2>2, <2>3
  <2>5. Rank(w[at]) < Rank(w[p])
    BY <1>5, <2>1, <2>2
  <2>. HIDE DEF v, w, value
  <2>6. UpOrder(v, p, n)
    BY <1>1, <1>3, <1>4, <2>1, <2>4, <2>5, UpKeepsOrder
  <2>7. Rearranged(w, v, n + 1)
    <3>. DEFINE m == n + 1
    <3>1. m \in Nat /\ at \in 0..(m - 1) /\ p \in 0..(m - 1)
          /\ \A i \in 0..(m - 1) : i # at /\ i # p => v[i] = w[i]
      BY <1>3, <2>1, <2>2, <2>4
    <3>. HIDE DEF m, at, p
    <3>2. Rearranged(w, v, m)
      BY <2>4, <3>1, Exchange2
    <3>. QED
      BY <3>2 DEF m
  <2>8. Rearranged(items, v, n + 1)
    BY <1>1, <2>7, RearrangedOnce
  <2>9. UpTrail(V \cup {at}, t.items, t.at, items, len, n)
    <3>. HIDE DEF at, t
    <3>. QED
      BY <1>2, <1>3, <1>6, <1>8, <2>1, UpKeepsTrail DEF p, at
  <2>10. UpOrder(v, t.at, n)
    BY <1>6, <1>8, <2>6
  <2>. QED
    BY <1>6, <2>8, <2>9, <2>10 DEF UpSound, v, value
<1>. QED
  BY <1>7, <1>8

LEMMA SiftUpLoopIs ==
  ASSUME HeapAssumption, NEW len \in Nat, NEW n \in 0..(len - 1), NEW items,
         HeapArray(items, len, n + 1), \A i \in 1..(n - 1) : InOrder(items, i), NEW fuel \in Nat,
         NEW s, s = PQ!SiftUpLoop(items, items[n], n, fuel)
  PROVE  s \in UpSound(len, n, items) /\ ~Climbs(s, items[n])
<1>. DEFINE D == UpSound(len, n, items)
            z == [items |-> items, at |-> n, fuel |-> fuel]
            value == items[n]
<1>1. z \in D
  BY UpBegins
<1>2. ClimbKept(D, value)
  <2>1. ASSUME NEW t \in D  PROVE PQ!Climb(t, value) \in D
    <3>. HIDE DEF D
    <3>. QED
      BY <2>1, UpKeeps DEF D
  <2>. HIDE DEF D
  <2>. QED
    BY <2>1 DEF ClimbKept
<1>3. n \in Nat /\ z = [items |-> items, at |-> n, fuel |-> fuel] /\ z.at = n
  OBVIOUS
<1>4. \A t \in D : t \in UpStates(len, n) /\ t.at \in 0..n
  BY DEF UpSound, UpStates
<1>. HIDE DEF z, D, value
<1>5. PICK f : ClimbRun(f, D, n, value, z) /\ PQ!SiftUpLoop(items, value, n, fuel) = f[n]
  BY <1>1, <1>2, <1>3, ClimbTurns
<1>6. /\ f[0] = z /\ \A k \in 0..n : f[k] \in D
      /\ \A k \in 1..n : f[k] = PQ!Climb(f[k - 1], value)
  BY <1>5 DEF ClimbRun
<1>7. \A k \in 0..n : ~Climbs(f[k], value) \/ f[k].at <= n - k
  <2>. DEFINE S == {k \in 0..n : ~Climbs(f[k], value) \/ f[k].at <= n - k}
  <2>1. 0 \in S
    BY <1>3, <1>6
  <2>2. ASSUME NEW k \in 1..n, k - 1 \in S  PROVE k \in S
    <3>1. k - 1 \in 0..n /\ k \in 0..n /\ f[k - 1] \in D /\ f[k] = PQ!Climb(f[k - 1], value)
      BY <1>6
    <3>2. CASE ~Climbs(f[k - 1], value)
      BY <3>1, <3>2 DEF Climbs, PQ!Climb
    <3>3. CASE Climbs(f[k - 1], value)
      <4>1. f[k].at = PQ!Parent(f[k - 1].at) /\ f[k - 1].at \in 0..n /\ f[k - 1] \in UpStates(len, n)
        <5>. DEFINE e == f[k - 1]
        <5>1. e \in UpStates(len, n) /\ e.at \in 0..n /\ Climbs(e, value)
          BY <1>4, <3>1, <3>3
        <5>. HIDE DEF e
        <5>2. PQ!Climb(e, value).at = PQ!Parent(e.at)
          BY <5>1 DEF PQ!Climb, Climbs
        <5>. QED
          BY <3>1, <5>1, <5>2 DEF e
      <4>2. f[k - 1].at \in 1..n
        BY <1>3, <3>3, <4>1 DEF Climbs
      <4>3. PQ!Parent(f[k - 1].at) \in Nat /\ PQ!Parent(f[k - 1].at) < f[k - 1].at
        BY <1>3, <4>2, ParentIs
      <4>4. f[k - 1].at <= n - (k - 1)
        BY <2>2, <3>3
      <4>. QED
        BY <1>3, <3>1, <4>1, <4>2, <4>3, <4>4
    <3>. QED
      BY <3>2, <3>3
  <2>. HIDE DEF S
  <2>3. \A k \in 0..n : k \in S
    BY <1>3, <2>1, <2>2, Reached
  <2>. QED
    BY <2>3 DEF S
<1>8. ~Climbs(f[n], value)
  <2>1. n \in 0..n /\ f[n].at \in 0..n /\ n - n = 0
    BY <1>3, <1>4, <1>6
  <2>2. ~Climbs(f[n], value) \/ f[n].at <= 0
    BY <1>7, <2>1
  <2>. QED
    BY <2>1, <2>2 DEF Climbs
<1>9. s = f[n] /\ n \in 0..n
  BY <1>3, <1>5 DEF value
<1>. QED
  BY <1>6, <1>8, <1>9 DEF D, value

\* What siftUp returns: the elements in heap order, or the call throws and leaves them
\* where they were, the new one excepted, which is removed.
SiftedUp(r, items, len, n) ==
  \/ /\ r.threw /\ r.size = n /\ r.items = [items EXCEPT ![n] = Undef]
  \/ /\ ~r.threw /\ r.size = n + 1
     /\ HeapArray(r.items, len, n + 1) /\ Rearranged(items, r.items, n + 1)
     /\ \A i \in 1..n : InOrder(r.items, i)
     /\ \A i \in 0..(len - 1) : i > n => r.items[i] = items[i]

\* siftUp of the last element, the others being in heap order.
LEMMA SiftUpIs ==
  ASSUME HeapAssumption, NEW len \in Nat, NEW n \in 0..(len - 1), NEW items,
         HeapArray(items, len, n + 1), \A i \in 1..(n - 1) : InOrder(items, i), NEW fuel \in Nat,
         NEW pq, pq.items = items, pq.size = n + 1, NEW r, r = PQ!SiftUp(pq, n, fuel)
  PROVE  SiftedUp(r, items, len, n)
<1>. SUFFICES \/ /\ r.threw /\ r.size = n /\ r.items = [items EXCEPT ![n] = Undef]
              \/ /\ ~r.threw /\ r.size = n + 1
                 /\ HeapArray(r.items, len, n + 1) /\ Rearranged(items, r.items, n + 1)
                 /\ \A i \in 1..n : InOrder(r.items, i)
                 /\ \A i \in 0..(len - 1) : i > n => r.items[i] = items[i]
  BY DEF SiftedUp
<1>. DEFINE s == PQ!SiftUpLoop(items, items[n], n, fuel)
            w == Whole(s, items[n])
<1>1. s \in UpSound(len, n, items) /\ ~Climbs(s, items[n])
  <2>. HIDE DEF s
  <2>. QED
    BY SiftUpLoopIs DEF s
<1>2. r = IF s.at > 0 /\ s.fuel = 0
          THEN [items |-> [PQ!ShiftBack(s.items, n, s.at, items[n]) EXCEPT ![n] = Undef],
                size |-> n, threw |-> TRUE]
          ELSE [items |-> w, size |-> n + 1, threw |-> FALSE]
  BY DEF PQ!SiftUp, Whole
<1>. HIDE DEF s, w
<1>3. s \in UpStates(len, n) /\ Rearranged(items, w, n + 1) /\ UpOrder(w, s.at, n)
  BY <1>1 DEF UpSound, w
<1>4. PICK V : UpTrail(V, s.items, s.at, items, len, n)
  BY <1>1 DEF UpSound
<1>5. /\ s.items \in [0..(len - 1) -> Held] /\ s.at \in 0..n /\ s.fuel \in Nat
      /\ items \in [0..(len - 1) -> Held] /\ n \in Nat /\ 0..n \subseteq 0..(len - 1)
      /\ (n + 1) - 1 = n /\ n + 1 \in 0..len /\ n + 1 \in Nat
      /\ \A i \in 0..n : items[i] \in Elem
  BY <1>3 DEF UpStates, HeapArray
<1>6. CASE s.at > 0 /\ s.fuel = 0
  <2>1. PQ!ShiftBack(s.items, n, s.at, items[n]) = items
    BY <1>4, <1>5, BackIs
  <2>. QED
    BY <1>2, <1>6, <2>1
<1>7. CASE ~(s.at > 0 /\ s.fuel = 0)
  <2>1. r.threw = FALSE /\ r.size = n + 1 /\ r.items = w
    BY <1>2, <1>7
  <2>2. \A i \in 0..n : w[i] \in Elem
    <3>1. \A i \in 0..((n + 1) - 1) : items[i] \in Elem
      BY <1>5
    <3>2. \A i \in 0..((n + 1) - 1) : w[i] \in Elem
      BY <1>3, <1>5, <3>1, RearrangedIn
    <3>. QED
      BY <1>5, <3>2
  <2>3. w \in [0..(len - 1) -> Held] /\ w[s.at] = items[n]
        /\ \A i \in 0..(len - 1) : i # s.at => w[i] = s.items[i]
    <3>1. items[n] \in Held
      BY <1>5
    <3>. QED
      BY <1>5, <3>1 DEF Whole, w
  <2>4. HeapArray(w, len, n + 1)
    BY <1>5, <2>2, <2>3 DEF HeapArray
  <2>5. ASSUME NEW i \in 1..n  PROVE InOrder(w, i)
    <3>1. CASE i # s.at
      BY <1>3, <3>1 DEF UpOrder
    <3>2. CASE i = s.at
      <4>1. s.at \in 1..n /\ ~ (Rank(items[n]) < Rank(s.items[PQ!Parent(s.at)]))
        BY <1>1, <1>5, <1>7, <3>2 DEF Climbs
      <4>2. PQ!Parent(s.at) \in 0..(len - 1) /\ PQ!Parent(s.at) # s.at
        <5>1. PQ!Parent(s.at) \in 0..n /\ PQ!Parent(s.at) < s.at
          BY <1>5, <4>1, ParentIs
        <5>. QED
          BY <1>5, <5>1
      <4>. QED
        BY <2>3, <3>2, <4>1, <4>2 DEF InOrder
    <3>. QED
      BY <3>1, <3>2
  <2>6. ASSUME NEW i \in 0..(len - 1), i > n  PROVE w[i] = items[i]
    <3>1. i \notin V /\ i # s.at
      BY <1>4, <1>5, <2>6 DEF UpTrail
    <3>2. s.items[i] = items[i]
      BY <1>4, <3>1 DEF UpTrail
    <3>. QED
      BY <2>3, <3>1, <3>2
  <2>. QED
    BY <1>3, <2>1, <2>4, <2>5, <2>6
<1>. QED
  BY <1>6, <1>7

-----------------------------------------------------------------------------
(* siftDown. *)

\* The nodes whose parent is k or a later node are in order.
OrderedFrom(items, k, n) == \A i \in 1..(n - 1) : PQ!Parent(i) >= k => InOrder(items, i)

DownStates(len, n) == [items : [0..(len - 1) -> Held], at : 0..(n - 1), fuel : Nat]

\* A turn that moves the smaller child up.
Sinks(s, n, value) == /\ PQ!LeftOf(s.at) < n /\ PQ!Calls(n, s.at) <= s.fuel
                      /\ Rank(s.items[PQ!Child(s.items, n, s.at)]) < Rank(value)

LEMMA ChildIs ==
  ASSUME HeapAssumption, NEW n \in Nat, NEW at \in 0..(n - 1), PQ!LeftOf(at) < n, NEW items,
         \A i \in 0..(n - 1) : i # at => items[i] \in Elem, NEW c, c = PQ!Child(items, n, at)
  PROVE  /\ c \in 1..(n - 1) /\ PQ!Parent(c) = at /\ at < c
         /\ \A i \in 1..(n - 1) : PQ!Parent(i) = at => ~ (Rank(items[i]) < Rank(items[c]))
<1>1. at \in Nat /\ 2 * at + 1 \in 0..(n - 1) /\ 2 * at + 1 # at
  BY DEF PQ!LeftOf
<1>2. c = IF (2 * at + 1) + 1 < n /\ Rank(items[(2 * at + 1) + 1]) < Rank(items[2 * at + 1])
          THEN (2 * at + 1) + 1 ELSE 2 * at + 1
  BY DEF PQ!Child, PQ!LeftOf
<1>3. \A i \in 1..(n - 1) : PQ!Parent(i) = at <=> i = 2 * at + 1 \/ i = (2 * at + 1) + 1
  BY <1>1 DEF PQ!Parent
<1>4. \A i \in 0..(n - 1) : i # at => Rank(items[i]) \in Int
  BY DEF HeapAssumption
<1>5. c \in 1..(n - 1) /\ at < c /\ (c = 2 * at + 1 \/ c = (2 * at + 1) + 1)
  BY <1>1, <1>2
<1>6. ASSUME NEW i \in 1..(n - 1), PQ!Parent(i) = at
      PROVE  ~ (Rank(items[i]) < Rank(items[c]))
  <2>1. i = 2 * at + 1 \/ i = (2 * at + 1) + 1
    BY <1>3, <1>6
  <2>2. Rank(items[i]) \in Int /\ Rank(items[2 * at + 1]) \in Int /\ Rank(items[c]) \in Int
    BY <1>1, <1>4, <1>5, <2>1
  <2>. QED
    BY <1>2, <2>1, <2>2
<1>. QED
  BY <1>3, <1>5, <1>6

\* Below the start every node but the hole's children is in order, and these are
\* so with the hole's parent.
DownOrder(w, at, start, n) ==
  /\ \A i \in 1..(n - 1) : PQ!Parent(i) >= start /\ PQ!Parent(i) # at => InOrder(w, i)
  /\ \A i \in 1..(n - 1) : PQ!Parent(i) = at /\ at # start => ~ (Rank(w[i]) < Rank(w[PQ!Parent(at)]))

LEMMA DownKeepsOrder ==
  ASSUME HeapAssumption, NEW n \in Nat, NEW start \in 0..(n - 1), NEW w, NEW v, NEW at \in start..(n - 1),
         NEW c \in 1..(n - 1), PQ!Parent(c) = at,
         at # start => at \in 1..(n - 1) /\ PQ!Parent(at) >= start,
         \A i \in 0..(n - 1) : w[i] \in Elem,
         \A i \in 1..(n - 1) : PQ!Parent(i) = at => ~ (Rank(w[i]) < Rank(w[c])),
         DownOrder(w, at, start, n), Rank(w[c]) < Rank(w[at]),
         v[at] = w[c], v[c] = w[at], \A i \in 0..(n - 1) : i # at /\ i # c => v[i] = w[i]
  PROVE  DownOrder(v, c, start, n)
<1>1. n - 1 \in Nat /\ start \in Nat /\ at \in 0..(n - 1) /\ at \in Int /\ at >= start
  OBVIOUS
<1>2. \A i \in 1..(n - 1) : /\ PQ!Parent(i) \in 0..(n - 1) /\ PQ!Parent(i) \in Int /\ PQ!Parent(i) < i
                            /\ i \in 0..(n - 1)
  BY <1>1, ParentIs
<1>3. \A i \in 0..(n - 1) : Rank(w[i]) \in Int
  BY DEF HeapAssumption
<1>4. \A i \in 1..(n - 1) : PQ!Parent(i) >= start /\ PQ!Parent(i) # at => ~ (Rank(w[i]) < Rank(w[PQ!Parent(i)]))
  BY DEF DownOrder, InOrder
<1>5. \A i \in 1..(n - 1) : PQ!Parent(i) = at /\ at # start => ~ (Rank(w[i]) < Rank(w[PQ!Parent(at)]))
  BY DEF DownOrder
<1>6. at < c /\ c \in 0..(n - 1) /\ c # at /\ c # start
  BY <1>1, <1>2
<1>7. ASSUME NEW i \in 1..(n - 1), PQ!Parent(i) >= start, PQ!Parent(i) # c
      PROVE  ~ (Rank(v[i]) < Rank(v[PQ!Parent(i)]))
  <2>1. CASE i = c
    BY <1>1, <1>3, <1>6, <2>1
  <2>2. CASE i # c /\ PQ!Parent(i) = at
    <3>1. i # at /\ v[i] = w[i] /\ v[PQ!Parent(i)] = w[c]
      BY <1>2, <2>2
    <3>. QED
      BY <2>2, <3>1
  <2>3. CASE i = at
    <3>1. at # start
      BY <1>1, <1>2, <1>7, <2>3
    <3>2. v[i] = w[c] /\ v[PQ!Parent(i)] = w[PQ!Parent(at)]
      BY <1>2, <1>6, <1>7, <2>3
    <3>. QED
      BY <1>5, <3>1, <3>2
  <2>4. CASE i # c /\ i # at /\ PQ!Parent(i) # at
    <3>1. v[i] = w[i] /\ v[PQ!Parent(i)] = w[PQ!Parent(i)]
      BY <1>2, <1>7, <2>4
    <3>. QED
      BY <1>4, <1>7, <2>4, <3>1
  <2>. QED
    BY <2>1, <2>2, <2>3, <2>4
<1>8. ASSUME NEW i \in 1..(n - 1), PQ!Parent(i) = c
      PROVE  ~ (Rank(v[i]) < Rank(v[PQ!Parent(c)]))
  <2>1. i # c /\ i # at /\ v[i] = w[i] /\ v[PQ!Parent(c)] = w[c]
    BY <1>2, <1>6, <1>8
  <2>2. ~ (Rank(w[i]) < Rank(w[c]))
    BY <1>1, <1>4, <1>6, <1>8
  <2>. QED
    BY <2>1, <2>2
<1>. QED
  BY <1>7, <1>8 DEF DownOrder, InOrder

\* The places that a sift has moved a child to: a path, from the start down to
\* the parent of the hole, on which every node has what the next one held.
DownTrail(V, items, at, first, start, len, n) ==
  /\ V \subseteq start..(n - 1) /\ start \in V \cup {at} /\ at >= start
  /\ \A x \in V : x < at
  /\ \A y \in (V \cup {at}) \ {start} : PQ!Parent(y) \in V /\ items[PQ!Parent(y)] = first[y]
  /\ \A x \in (0..(len - 1)) \ V : items[x] = first[x]
  /\ \A x \in V, y \in V \cup {at} : x < y => x <= PQ!Parent(y)

LEMMA DownKeepsTrail ==
  ASSUME NEW len \in Nat, NEW n \in 0..len, NEW start \in 0..(n - 1), NEW V,
         NEW items \in [0..(len - 1) -> Held],
         NEW at \in 0..(n - 1), NEW first, DownTrail(V, items, at, first, start, len, n),
         NEW c \in 1..(n - 1), PQ!Parent(c) = at, at < c,
         NEW new, new = [items EXCEPT ![at] = items[c]]
  PROVE  DownTrail(V \cup {at}, new, c, first, start, len, n)
<1>. DEFINE W == V \cup {at}
<1>1. /\ V \subseteq start..(n - 1) /\ start \in V \cup {at} /\ at >= start
      /\ \A x \in V : x < at
      /\ \A y \in (V \cup {at}) \ {start} : PQ!Parent(y) \in V /\ items[PQ!Parent(y)] = first[y]
      /\ \A x \in (0..(len - 1)) \ V : items[x] = first[x]
      /\ \A x \in V, y \in V \cup {at} : x < y => x <= PQ!Parent(y)
  BY DEF DownTrail
<1>2. /\ start \in Int /\ at \in Int /\ c \in Int /\ n \in Int /\ at \in 0..(len - 1) /\ c \in 0..(len - 1)
      /\ V \subseteq Int
  BY <1>1
<1>3. new[at] = first[c] /\ \A x \in 0..(len - 1) : x # at => new[x] = items[x]
  <2>1. c \notin V
    BY <1>1, <1>2
  <2>. QED
    BY <1>1, <1>2, <2>1
<1>4. W \subseteq start..(n - 1) /\ start \in W \cup {c} /\ c >= start /\ \A x \in W : x < c
  BY <1>1, <1>2
<1>5. ASSUME NEW y \in (W \cup {c}) \ {start}
      PROVE  PQ!Parent(y) \in W /\ new[PQ!Parent(y)] = first[y]
  <2>1. CASE y = c
    BY <1>3, <2>1
  <2>2. CASE y # c
    <3>1. PQ!Parent(y) \in V /\ items[PQ!Parent(y)] = first[y]
      BY <1>1, <2>2
    <3>2. PQ!Parent(y) # at /\ PQ!Parent(y) \in 0..(len - 1)
      <4>1. PQ!Parent(y) \in start..(n - 1) /\ PQ!Parent(y) < at
        BY <1>1, <3>1
      <4>. QED
        BY <1>2, <4>1
    <3>. QED
      BY <1>3, <3>1, <3>2
  <2>. QED
    BY <2>1, <2>2
<1>6. \A x \in (0..(len - 1)) \ W : new[x] = first[x]
  BY <1>1, <1>3
<1>7. ASSUME NEW x \in W, NEW y \in W \cup {c}, x < y  PROVE x <= PQ!Parent(y)
  <2>1. CASE y = c
    BY <1>1, <1>2, <2>1
  <2>2. CASE y # c /\ x = at
    BY <1>1, <1>2, <1>7, <2>2
  <2>3. CASE y # c /\ x # at
    BY <1>1, <1>7, <2>3
  <2>. QED
    BY <2>1, <2>2, <2>3
<1>. QED
  BY <1>4, <1>5, <1>6, <1>7 DEF DownTrail
\* The turns of siftDown's catch block.
UnsinkKept(D, start) == \A s \in D : PQ!Unsink(s, start) \in D
UnsinkRun(f, D, n, start, z) ==
  /\ f[0] = z /\ \A k \in 0..n : f[k] \in D
  /\ \A k \in 1..n : f[k] = PQ!Unsink(f[k - 1], start)

LEMMA UnsinkTurns ==
  ASSUME NEW n \in Nat, NEW start, NEW items, NEW D, UnsinkKept(D, start),
         NEW z \in D, z = [items |-> items, at |-> n]
  PROVE  \E f : UnsinkRun(f, D, n, start, z) /\ PQ!ShiftDown(items, n, start) = f[n].items
<1>. DEFINE step == [k \in 1..n |-> [s \in D |-> PQ!Unsink(s, start)]]
            P(g) == g = [k \in 0..n |-> IF k = 0 THEN z ELSE PQ!Unsink(g[k - 1], start)]
            F == CHOOSE g : P(g)
<1>1. step \in [1..n -> [D -> D]]
  BY DEF UnsinkKept
<1>2. PICK r : Recursion(D, n, z, step, r)
  <2>. HIDE DEF step
  <2>. QED
    BY <1>1, RecursionExists
<1>3. P(r)
  <2>1. r \in [0..n -> D] /\ r[0] = z /\ \A k \in 1..n : r[k] = step[k][r[k - 1]]
    BY <1>2 DEF Recursion
  <2>2. \A k \in 1..n : r[k] = PQ!Unsink(r[k - 1], start)
    <3>1. \A k \in 1..n : k - 1 \in 0..n
      OBVIOUS
    <3>. QED
      BY <2>1, <3>1
  <2>3. \A k \in 0..n : r[k] = IF k = 0 THEN z ELSE PQ!Unsink(r[k - 1], start)
    BY <2>1, <2>2
  <2>. QED
    BY <2>1, <2>3
<1>4. P(F)
  <2>. HIDE DEF P
  <2>. QED
    BY <1>3
<1>5. PQ!ShiftDown(items, n, start) = F[n].items
  BY DEF PQ!ShiftDown
<1>. HIDE DEF F
<1>6. F[0] = z /\ \A k \in 1..n : F[k] = PQ!Unsink(F[k - 1], start)
  BY <1>4
<1>7. \A k \in 0..n : F[k] \in D
  <2>. DEFINE S == {k \in 0..n : F[k] \in D}
  <2>1. 0 \in S /\ \A k \in 1..n : k - 1 \in S => k \in S
    BY <1>6 DEF UnsinkKept
  <2>. HIDE DEF S
  <2>2. \A k \in 0..n : k \in S
    BY <2>1, Reached
  <2>. QED
    BY <2>2 DEF S
<1>. QED
  BY <1>5, <1>6, <1>7 DEF UnsinkRun

\* The turns of siftDown's loop.
SinkKept(D, n, value) == \A s \in D : PQ!Sink(s, n, value) \in D
SinkRun(f, D, n, value, z) ==
  /\ f[0] = z /\ \A k \in 0..n : f[k] \in D
  /\ \A k \in 1..n : f[k] = PQ!Sink(f[k - 1], n, value)

LEMMA SinkTurns ==
  ASSUME NEW n \in Nat, NEW value, NEW start, NEW fuel, NEW items, NEW D, SinkKept(D, n, value),
         NEW z \in D, z = [items |-> items, at |-> start, fuel |-> fuel]
  PROVE  \E f : SinkRun(f, D, n, value, z) /\ PQ!SiftDownLoop(items, n, value, start, fuel) = f[n]
<1>. DEFINE step == [k \in 1..n |-> [s \in D |-> PQ!Sink(s, n, value)]]
            P(g) == g = [k \in 0..n |-> IF k = 0 THEN z ELSE PQ!Sink(g[k - 1], n, value)]
            F == CHOOSE g : P(g)
<1>1. step \in [1..n -> [D -> D]]
  BY DEF SinkKept
<1>2. PICK r : Recursion(D, n, z, step, r)
  <2>. HIDE DEF step
  <2>. QED
    BY <1>1, RecursionExists
<1>3. P(r)
  <2>1. r \in [0..n -> D] /\ r[0] = z /\ \A k \in 1..n : r[k] = step[k][r[k - 1]]
    BY <1>2 DEF Recursion
  <2>2. \A k \in 1..n : r[k] = PQ!Sink(r[k - 1], n, value)
    <3>1. \A k \in 1..n : k - 1 \in 0..n
      OBVIOUS
    <3>. QED
      BY <2>1, <3>1
  <2>3. \A k \in 0..n : r[k] = IF k = 0 THEN z ELSE PQ!Sink(r[k - 1], n, value)
    BY <2>1, <2>2
  <2>. QED
    BY <2>1, <2>3
<1>4. P(F)
  <2>. HIDE DEF P
  <2>. QED
    BY <1>3
<1>5. PQ!SiftDownLoop(items, n, value, start, fuel) = F[n]
  BY DEF PQ!SiftDownLoop
<1>. HIDE DEF F
<1>6. F[0] = z /\ \A k \in 1..n : F[k] = PQ!Sink(F[k - 1], n, value)
  BY <1>4
<1>7. \A k \in 0..n : F[k] \in D
  <2>. DEFINE S == {k \in 0..n : F[k] \in D}
  <2>1. 0 \in S /\ \A k \in 1..n : k - 1 \in S => k \in S
    BY <1>6 DEF SinkKept
  <2>. HIDE DEF S
  <2>2. \A k \in 0..n : k \in S
    BY <2>1, Reached
  <2>. QED
    BY <2>2 DEF S
<1>. QED
  BY <1>5, <1>6, <1>7 DEF SinkRun

\* The catch block of siftDown puts every child back.
LEMMA UndoneIs ==
  ASSUME NEW len \in Nat, NEW n \in 0..len, NEW start \in 0..(n - 1), NEW V,
         NEW items \in [0..(len - 1) -> Held],
         NEW at \in 0..(n - 1), NEW first \in [0..(len - 1) -> Held],
         DownTrail(V, items, at, first, start, len, n)
  PROVE  [PQ!ShiftDown(items, at, start) EXCEPT ![start] = first[start]] = first
<1>. DEFINE States == [items : [0..(len - 1) -> Held], at : 0..(n - 1)]
            Back(s) == /\ s.at \in V \cup {at}
                       /\ \A x \in 0..(len - 1) : x \notin V \/ x > s.at => s.items[x] = first[x]
                       /\ \A y \in (V \cup {at}) \ {start} :
                             y <= s.at => s.items[PQ!Parent(y)] = first[y]
            D == {s \in States : Back(s)}
            z == [items |-> items, at |-> at]
<1>1. /\ V \subseteq start..(n - 1) /\ start \in V \cup {at} /\ at >= start
      /\ \A x \in V : x < at
      /\ \A y \in (V \cup {at}) \ {start} : PQ!Parent(y) \in V /\ items[PQ!Parent(y)] = first[y]
      /\ \A x \in (0..(len - 1)) \ V : items[x] = first[x]
      /\ \A x \in V, y \in V \cup {at} : x < y => x <= PQ!Parent(y)
  BY DEF DownTrail
<1>2. /\ at \in Nat /\ at \in 0..at /\ start \in Nat /\ n \in Nat
      /\ 0..(n - 1) \subseteq 0..(len - 1) /\ V \cup {at} \subseteq 0..(n - 1)
  BY <1>1
<1>14. \A y \in V \cup {at} : y \in 0..(n - 1) /\ y \in 0..(len - 1) /\ y \in Int /\ y >= start
  BY <1>1, <1>2
<1>3. z \in D
  <2>1. z \in States
    OBVIOUS
  <2>2. Back(z)
    BY <1>1, <1>2
  <2>. QED
    BY <2>1, <2>2
<1>4. ASSUME NEW s \in D
      PROVE  PQ!Unsink(s, start) \in D /\ (s.at # start => PQ!Unsink(s, start).at < s.at)
  <2>1. CASE s.at = start
    BY <2>1 DEF PQ!Unsink
  <2>2. CASE s.at # start
    <3>. DEFINE t == PQ!Unsink(s, start)
                p == PQ!Parent(s.at)
                new == [s.items EXCEPT ![s.at] = s.items[p]]
    <3>1. t = [items |-> new, at |-> p]
      BY <2>2 DEF PQ!Unsink
    <3>2. /\ s.items \in [0..(len - 1) -> Held] /\ s.at \in (V \cup {at}) \ {start}
          /\ \A x \in 0..(len - 1) : x \notin V \/ x > s.at => s.items[x] = first[x]
          /\ \A y \in (V \cup {at}) \ {start} : y <= s.at => s.items[PQ!Parent(y)] = first[y]
      BY <2>2
    <3>3. s.at \in 0..(n - 1) /\ s.at \in 0..(len - 1) /\ s.at <= s.at /\ s.at \in Int
      BY <1>2, <3>2
    <3>4. p \in V /\ s.items[p] = first[s.at] /\ p \in 0..(n - 1) /\ p \in Int
      <4>1. p \in V
        BY <1>1, <3>2
      <4>2. p \in 0..(n - 1) /\ p \in Int
        <5>. HIDE DEF p
        <5>. QED
          BY <1>14, <4>1
      <4>. QED
        BY <3>2, <3>3, <4>1, <4>2
    <3>5. p < s.at
      <4>1. s.at \in 1..n
        BY <1>1, <1>2, <3>2, <3>3
      <4>. QED
        BY <1>2, <4>1, ParentIs
    <3>6. /\ new \in [0..(len - 1) -> Held] /\ new[s.at] = first[s.at]
          /\ \A x \in 0..(len - 1) : x # s.at => new[x] = s.items[x]
      <4>1. p \in 0..(len - 1)
        BY <1>2, <3>4
      <4>. QED
        BY <3>2, <3>3, <3>4, <4>1
    <3>. HIDE DEF new, t, D, p
    <3>7. t.items = new /\ t.at = p /\ t \in States
      BY <3>1, <3>4, <3>6
    <3>8. ASSUME NEW x \in 0..(len - 1), x \notin V \/ x > p
          PROVE  new[x] = first[x]
      <4>1. CASE x = s.at
        BY <3>6, <4>1
      <4>2. CASE x # s.at /\ (x \notin V \/ x > s.at)
        BY <3>2, <3>6, <4>2
      <4>3. CASE x \in V /\ x < s.at
        <5>1. x <= p
          BY <1>1, <3>2, <4>3 DEF p
        <5>. QED
          BY <3>4, <3>8, <4>3, <5>1
      <4>. QED
        BY <3>3, <4>1, <4>2, <4>3
    <3>9. ASSUME NEW y \in (V \cup {at}) \ {start}, y <= p
          PROVE  new[PQ!Parent(y)] = first[y]
      <4>0. y \in 0..(n - 1) /\ y \in Int
        BY <1>14, <3>9
      <4>1. y \in 0..(n - 1) /\ y \in Int /\ y <= s.at
        BY <3>3, <3>4, <3>5, <3>9, <4>0
      <4>2. PQ!Parent(y) \in V /\ PQ!Parent(y) \in 0..(len - 1) /\ PQ!Parent(y) \in Int
        <5>1. PQ!Parent(y) \in V
          BY <1>1, <3>9
        <5>. QED
          BY <1>14, <5>1
      <4>3. PQ!Parent(y) < y
        <5>1. y \in 1..n
          BY <1>1, <1>2, <3>9, <4>1
        <5>. QED
          BY <1>2, <5>1, ParentIs
      <4>4. PQ!Parent(y) # s.at
        BY <3>3, <3>4, <3>5, <3>9, <4>1, <4>2, <4>3
      <4>. QED
        BY <3>2, <3>6, <4>1, <4>2, <4>4
    <3>10. Back(t)
      BY <3>4, <3>7, <3>8, <3>9
    <3>. QED
      BY <3>5, <3>7, <3>10 DEF D, t
  <2>. QED
    BY <2>1, <2>2
<1>5. UnsinkKept(D, start)
  <2>. HIDE DEF D
  <2>. QED
    BY <1>4 DEF UnsinkKept
<1>6. z = [items |-> items, at |-> at]
  OBVIOUS
<1>. HIDE DEF States, D, z, Back
<1>7. PICK f : UnsinkRun(f, D, at, start, z) /\ PQ!ShiftDown(items, at, start) = f[at].items
  BY <1>2, <1>3, <1>5, <1>6, UnsinkTurns
<1>8. /\ f[0] = z /\ \A k \in 0..at : f[k] \in D
      /\ \A k \in 1..at : f[k] = PQ!Unsink(f[k - 1], start)
  BY <1>7 DEF UnsinkRun
<1>9. \A k \in 0..at : f[k].at \in Int /\ f[k].at >= start
  <2>1. \A s \in D : s.at \in V \cup {at}
    BY DEF D, Back
  <2>2. \A s \in D : s.at \in Int /\ s.at >= start
    BY <1>14, <2>1
  <2>. QED
    BY <1>8, <2>2
<1>10. \A k \in 0..at : f[k].at = start \/ f[k].at <= at - k
  <2>. DEFINE S == {k \in 0..at : f[k].at = start \/ f[k].at <= at - k}
  <2>1. 0 \in S
    BY <1>2, <1>6, <1>8
  <2>2. ASSUME NEW k \in 1..at, k - 1 \in S  PROVE k \in S
    <3>1. k - 1 \in 0..at /\ k \in 0..at /\ f[k - 1] \in D /\ f[k] = PQ!Unsink(f[k - 1], start)
      BY <1>8
    <3>2. CASE f[k - 1].at = start
      BY <3>1, <3>2 DEF PQ!Unsink
    <3>3. CASE f[k - 1].at # start
      <4>1. f[k].at < f[k - 1].at
        BY <1>4, <3>1, <3>3
      <4>. QED
        BY <1>2, <1>9, <2>2, <3>1, <3>3, <4>1, SMTT(30)
    <3>. QED
      BY <3>2, <3>3
  <2>. HIDE DEF S
  <2>3. \A k \in 0..at : k \in S
    BY <1>2, <2>1, <2>2, Reached
  <2>. QED
    BY <2>3 DEF S
<1>11. f[at] \in D /\ f[at].at = start
  <2>1. f[at].at = start \/ f[at].at <= 0
    BY <1>2, <1>10
  <2>2. f[at].at >= start /\ f[at].at \in Int
    BY <1>2, <1>9
  <2>. QED
    BY <1>2, <1>8, <2>1, <2>2
<1>12. /\ f[at].items \in [0..(len - 1) -> Held]
       /\ \A x \in 0..(len - 1) : x # start => f[at].items[x] = first[x]
  <2>1. f[at].items \in [0..(len - 1) -> Held]
    BY <1>11 DEF D, States
  <2>2. \A x \in 0..(len - 1) : x \notin V \/ x > start => f[at].items[x] = first[x]
    BY <1>11 DEF D, Back
  <2>3. \A x \in V : x # start => x > start
    BY <1>1, <1>2
  <2>. QED
    BY <2>1, <2>2, <2>3
<1>. DEFINE a == f[at].items
            b == [a EXCEPT ![start] = first[start]]
<1>13. b = first
  <2>. HIDE DEF a
  <2>1. b \in [0..(len - 1) -> Held] /\ \A x \in 0..(len - 1) : b[x] = first[x]
    BY <1>2, <1>12 DEF a
  <2>. QED
    BY <2>1
<1>. QED
  BY <1>7, <1>13

\* The states of siftDown's loop from any array.
DownSound(len, n, start, items) ==
  {s \in DownStates(len, n) :
      /\ Rearranged(items, Whole(s, items[start]), n)
      /\ OrderedFrom(items, start + 1, n) => DownOrder(Whole(s, items[start]), s.at, start, n)
      /\ \E V : DownTrail(V, s.items, s.at, items, start, len, n)}

LEMMA DownBegins ==
  ASSUME NEW len \in Nat, NEW n \in 0..len, NEW start \in 0..(n - 1), NEW items,
         HeapArray(items, len, n), NEW fuel \in Nat
  PROVE  [items |-> items, at |-> start, fuel |-> fuel] \in DownSound(len, n, start, items)
<1>. DEFINE z == [items |-> items, at |-> start, fuel |-> fuel]
<1>1. n \in Nat /\ start \in 0..(len - 1) /\ items \in [0..(len - 1) -> Held] /\ start \in Nat
  BY DEF HeapArray
<1>2. z \in DownStates(len, n) /\ z.items = items /\ z.at = start
  BY <1>1 DEF DownStates
<1>. HIDE DEF z
<1>3. Whole(z, items[start]) = items
  BY <1>1, <1>2 DEF Whole
<1>4. Rearranged(items, items, n)
  BY DEF Rearranged
<1>5. OrderedFrom(items, start + 1, n) => DownOrder(items, start, start, n)
  <2>1. \A i \in 1..(n - 1) : PQ!Parent(i) \in Int
    BY DEF PQ!Parent
  <2>2. \A i \in 1..(n - 1) : PQ!Parent(i) >= start /\ PQ!Parent(i) # start => PQ!Parent(i) >= start + 1
    BY <1>1, <2>1
  <2>. QED
    BY <2>2 DEF DownOrder, OrderedFrom
<1>6. DownTrail({}, items, start, items, start, len, n)
  BY <1>1 DEF DownTrail
<1>. QED
  BY <1>2, <1>3, <1>4, <1>5, <1>6 DEF DownSound, z

\* What is known of a state of the loop.
LEMMA DownFacts ==
  ASSUME NEW len \in Nat, NEW n \in 0..len, NEW start \in 0..(n - 1), NEW items,
         HeapArray(items, len, n), NEW s \in DownSound(len, n, start, items),
         NEW w, w = Whole(s, items[start])
  PROVE  /\ n \in Nat /\ 0..(n - 1) \subseteq 0..(len - 1)
         /\ items \in [0..(len - 1) -> Held] /\ s.items \in [0..(len - 1) -> Held]
         /\ s.at \in start..(n - 1) /\ s.at \in 0..(n - 1) /\ s.fuel \in Nat
         /\ s.at # start => s.at \in 1..(n - 1) /\ PQ!Parent(s.at) >= start
         /\ w \in [0..(len - 1) -> Held] /\ w[s.at] = items[start]
         /\ \A i \in 0..(len - 1) : i # s.at => w[i] = s.items[i]
         /\ \A i \in 0..(n - 1) : w[i] \in Elem
         /\ \A i \in 0..(n - 1) : i # s.at => s.items[i] \in Elem
         /\ \A i \in 0..(len - 1) : i >= n => s.items[i] = items[i]
<1>1. s \in DownStates(len, n) /\ Rearranged(items, w, n)
  BY DEF DownSound
<1>2. PICK V : DownTrail(V, s.items, s.at, items, start, len, n)
  BY DEF DownSound
<1>3. /\ n \in Nat /\ start \in Nat /\ 0..(n - 1) \subseteq 0..(len - 1)
      /\ items \in [0..(len - 1) -> Held] /\ s.items \in [0..(len - 1) -> Held]
      /\ s.at \in 0..(n - 1) /\ s.fuel \in Nat /\ \A i \in 0..(n - 1) : items[i] \in Elem
  BY <1>1 DEF HeapArray, DownStates
<1>4. s.at \in start..(n - 1)
  BY <1>2, <1>3 DEF DownTrail
<1>5. ASSUME s.at # start  PROVE s.at \in 1..(n - 1) /\ PQ!Parent(s.at) >= start
  <2>1. PQ!Parent(s.at) \in V
    BY <1>2, <1>5 DEF DownTrail
  <2>2. PQ!Parent(s.at) \in start..(n - 1)
    BY <1>2, <2>1 DEF DownTrail
  <2>. QED
    BY <1>3, <1>4, <1>5, <2>2
<1>6. /\ w \in [0..(len - 1) -> Held] /\ w[s.at] = items[start]
      /\ \A i \in 0..(len - 1) : i # s.at => w[i] = s.items[i]
  <2>1. items[start] \in Held
    BY <1>3
  <2>. QED
    BY <1>3, <2>1 DEF Whole
<1>7. \A i \in 0..(n - 1) : w[i] \in Elem
  BY <1>1, <1>3, RearrangedIn
<1>8. \A i \in 0..(n - 1) : i # s.at => s.items[i] \in Elem
  BY <1>3, <1>6, <1>7
<1>9. ASSUME NEW i \in 0..(len - 1), i >= n  PROVE s.items[i] = items[i]
  <2>1. V \subseteq start..(n - 1)
    BY <1>2 DEF DownTrail
  <2>2. i \notin V
    BY <1>3, <1>9, <2>1
  <2>. QED
    BY <1>2, <2>2 DEF DownTrail
<1>. QED
  BY <1>3, <1>4, <1>5, <1>6, <1>7, <1>8, <1>9

LEMMA DownKeeps ==
  ASSUME HeapAssumption, NEW len \in Nat, NEW n \in 0..len, NEW start \in 0..(n - 1), NEW items,
         HeapArray(items, len, n), NEW s \in DownSound(len, n, start, items),
         NEW value, value = items[start], NEW t, t = PQ!Sink(s, n, value)
  PROVE  /\ t \in DownSound(len, n, start, items)
         /\ Sinks(s, n, value) => t.at > s.at
         /\ ~Sinks(s, n, value) => t = s
<1>. DEFINE w == Whole(s, items[start])
            v == Whole(t, items[start])
            at == s.at
            c == PQ!Child(s.items, n, s.at)
<1>1. w = Whole(s, items[start])
  OBVIOUS
<1>. HIDE DEF w
<1>2. /\ n \in Nat /\ 0..(n - 1) \subseteq 0..(len - 1)
      /\ items \in [0..(len - 1) -> Held] /\ s.items \in [0..(len - 1) -> Held]
      /\ at \in start..(n - 1) /\ at \in 0..(n - 1) /\ s.fuel \in Nat
      /\ at # start => at \in 1..(n - 1) /\ PQ!Parent(at) >= start
      /\ w \in [0..(len - 1) -> Held] /\ w[at] = items[start]
      /\ \A i \in 0..(len - 1) : i # at => w[i] = s.items[i]
      /\ \A i \in 0..(n - 1) : w[i] \in Elem
      /\ \A i \in 0..(n - 1) : i # at => s.items[i] \in Elem
  BY <1>1, DownFacts
<1>3. Rearranged(items, w, n) /\ (OrderedFrom(items, start + 1, n) => DownOrder(w, at, start, n))
  BY DEF DownSound, w
<1>4. PICK V : DownTrail(V, s.items, at, items, start, len, n)
  BY DEF DownSound
<1>5. CASE ~Sinks(s, n, value)
  BY <1>5 DEF PQ!Sink, Sinks
<1>6. CASE Sinks(s, n, value)
  <2>1. PQ!LeftOf(at) < n /\ PQ!Calls(n, at) <= s.fuel /\ Rank(s.items[c]) < Rank(value)
    BY <1>6 DEF Sinks
  <2>2. t = [items |-> [s.items EXCEPT ![at] = s.items[c]], at |-> c, fuel |-> s.fuel - PQ!Calls(n, at)]
    BY <2>1 DEF PQ!Sink
  <2>3. /\ c \in 1..(n - 1) /\ PQ!Parent(c) = at /\ at < c
        /\ \A i \in 1..(n - 1) : PQ!Parent(i) = at => ~ (Rank(s.items[i]) < Rank(s.items[c]))
    <3>. DEFINE a == s.items
                d == at
    <3>1. \A i \in 0..(n - 1) : i # d => a[i] \in Elem
      BY <1>2
    <3>2. PQ!LeftOf(d) < n /\ c = PQ!Child(a, n, d) /\ d \in 0..(n - 1)
      BY <1>2, <2>1
    <3>. HIDE DEF c, a, d
    <3>3. /\ c \in 1..(n - 1) /\ PQ!Parent(c) = d /\ d < c
          /\ \A i \in 1..(n - 1) : PQ!Parent(i) = d => ~ (Rank(a[i]) < Rank(a[c]))
      BY <1>2, <3>1, <3>2, ChildIs, SMTT(30)
    <3>. QED
      BY <3>3 DEF a, d
  <2>. HIDE DEF c
  <2>4. c \in 0..(n - 1) /\ c \in 0..(len - 1) /\ at \in 0..(len - 1) /\ c # at /\ s.items[c] \in Held
        /\ s.fuel - PQ!Calls(n, at) \in Nat
    <3>1. c \in 0..(n - 1) /\ c # at
      BY <1>2, <2>3
    <3>2. c \in 0..(len - 1) /\ at \in 0..(len - 1)
      BY <1>2, <3>1
    <3>3. PQ!Calls(n, at) \in Nat
      BY DEF PQ!Calls
    <3>. QED
      BY <1>2, <2>1, <3>1, <3>2, <3>3
  <2>. DEFINE new == [s.items EXCEPT ![at] = s.items[c]]
  <2>5. t \in DownStates(len, n) /\ t.items = new /\ t.at = c
    <3>1. new \in [0..(len - 1) -> Held]
      BY <1>2, <2>4
    <3>. HIDE DEF new
    <3>. QED
      BY <2>2, <2>4, <3>1 DEF DownStates, new
  <2>6. v[at] = w[c] /\ v[c] = w[at] /\ \A i \in 0..(len - 1) : i # at /\ i # c => v[i] = w[i]
    <3>1. v = [new EXCEPT ![c] = items[start]]
      BY <2>5 DEF Whole
    <3>. HIDE DEF v, at
    <3>. QED
      BY <1>2, <2>4, <3>1
  <2>7. Rearranged(w, v, n)
    <3>1. \A i \in 0..(n - 1) : i # at /\ i # c => v[i] = w[i]
      BY <1>2, <2>6
    <3>. HIDE DEF v, at
    <3>. QED
      BY <1>2, <2>4, <2>6, <3>1, Exchange2
  <2>8. Rearranged(items, v, n)
    <3>. HIDE DEF v
    <3>. QED
      BY <1>3, <2>7, RearrangedOnce
  <2>9. ASSUME OrderedFrom(items, start + 1, n)  PROVE DownOrder(v, c, start, n)
    <3>1. DownOrder(w, at, start, n)
      BY <1>3, <2>9
    <3>2. \A i \in 0..(n - 1) : i # at /\ i # c => v[i] = w[i]
      BY <1>2, <2>6
    <3>3. Rank(w[c]) < Rank(w[at])
      BY <1>2, <2>1, <2>4
    <3>4. ASSUME NEW i \in 1..(n - 1), PQ!Parent(i) = at  PROVE ~ (Rank(w[i]) < Rank(w[c]))
      <4>1. PQ!Parent(i) < i
        BY <1>2, ParentIs
      <4>2. i # at /\ i \in 0..(len - 1)
        BY <1>2, <3>4, <4>1
      <4>. QED
        BY <1>2, <2>3, <2>4, <3>4, <4>2
    <3>. HIDE DEF v, at
    <3>. QED
      BY <1>2, <2>3, <2>6, <3>1, <3>2, <3>3, <3>4, DownKeepsOrder
  <2>10. DownTrail(V \cup {at}, new, c, items, start, len, n)
    <3>. HIDE DEF at
    <3>. QED
      BY <1>2, <1>4, <2>3, DownKeepsTrail DEF at
  <2>. HIDE DEF v, new
  <2>. QED
    BY <1>6, <2>3, <2>5, <2>8, <2>9, <2>10 DEF DownSound, v
<1>. QED
  BY <1>5, <1>6

LEMMA SiftDownLoopIs ==
  ASSUME HeapAssumption, NEW len \in Nat, NEW n \in 0..len, NEW start \in 0..(n - 1), NEW items,
         HeapArray(items, len, n), NEW fuel \in Nat,
         NEW s, s = PQ!SiftDownLoop(items, n, items[start], start, fuel)
  PROVE  s \in DownSound(len, n, start, items) /\ ~Sinks(s, n, items[start])
<1>. DEFINE D == DownSound(len, n, start, items)
            z == [items |-> items, at |-> start, fuel |-> fuel]
            value == items[start]
<1>1. z \in D
  BY DownBegins
<1>2. \A t \in D : /\ PQ!Sink(t, n, value) \in D
                   /\ Sinks(t, n, value) => PQ!Sink(t, n, value).at > t.at
                   /\ ~Sinks(t, n, value) => PQ!Sink(t, n, value) = t
  <2>1. value = items[start]
    OBVIOUS
  <2>. HIDE DEF D, value
  <2>2. ASSUME NEW t \in D
        PROVE  /\ PQ!Sink(t, n, value) \in D
               /\ Sinks(t, n, value) => PQ!Sink(t, n, value).at > t.at
               /\ ~Sinks(t, n, value) => PQ!Sink(t, n, value) = t
    <3>. DEFINE u == PQ!Sink(t, n, value)
    <3>1. u = PQ!Sink(t, n, value) /\ t \in DownSound(len, n, start, items)
      BY DEF D
    <3>. HIDE DEF u
    <3>2. /\ u \in DownSound(len, n, start, items)
          /\ Sinks(t, n, value) => u.at > t.at
          /\ ~Sinks(t, n, value) => u = t
      BY <2>1, <3>1, DownKeeps
    <3>. QED
      BY <3>1, <3>2 DEF D
  <2>. QED
    BY <2>2
<1>3. SinkKept(D, n, value)
  <2>. HIDE DEF D, value
  <2>. QED
    BY <1>2 DEF SinkKept
<1>4. /\ n \in Nat /\ z = [items |-> items, at |-> start, fuel |-> fuel] /\ z.at = start /\ n \in 0..n
      /\ start \in Nat
  OBVIOUS
<1>5. \A t \in D : t.at \in 0..(n - 1) /\ t.at \in Int
  BY DEF DownSound, DownStates
<1>. HIDE DEF z, D, value
<1>6. PICK f : SinkRun(f, D, n, value, z) /\ PQ!SiftDownLoop(items, n, value, start, fuel) = f[n]
  BY <1>1, <1>3, <1>4, SinkTurns
<1>7. /\ f[0] = z /\ \A k \in 0..n : f[k] \in D
      /\ \A k \in 1..n : f[k] = PQ!Sink(f[k - 1], n, value)
  BY <1>6 DEF SinkRun
<1>8. \A k \in 0..n : ~Sinks(f[k], n, value) \/ f[k].at >= k
  <2>. DEFINE S == {k \in 0..n : ~Sinks(f[k], n, value) \/ f[k].at >= k}
  <2>1. 0 \in S
    BY <1>4, <1>7
  <2>2. ASSUME NEW k \in 1..n, k - 1 \in S  PROVE k \in S
    <3>1. k - 1 \in 0..n /\ k \in 0..n /\ f[k - 1] \in D /\ f[k] \in D /\ f[k] = PQ!Sink(f[k - 1], n, value)
      BY <1>7
    <3>2. CASE ~Sinks(f[k - 1], n, value)
      <4>1. f[k] = f[k - 1]
        BY <1>2, <3>1, <3>2
      <4>. QED
        BY <3>1, <3>2, <4>1
    <3>3. CASE Sinks(f[k - 1], n, value)
      <4>1. f[k].at > f[k - 1].at
        BY <1>2, <3>1, <3>3
      <4>2. f[k].at \in Int /\ f[k - 1].at \in Int
        BY <1>5, <3>1
      <4>3. f[k - 1].at >= k - 1
        BY <2>2, <3>3
      <4>. QED
        BY <3>1, <4>1, <4>2, <4>3
    <3>. QED
      BY <3>2, <3>3
  <2>. HIDE DEF S
  <2>3. \A k \in 0..n : k \in S
    BY <1>4, <2>1, <2>2, Reached
  <2>. QED
    BY <2>3 DEF S
<1>9. ~Sinks(f[n], n, value)
  <2>1. f[n] \in D
    BY <1>4, <1>7
  <2>2. ~ (f[n].at >= n)
    BY <1>4, <1>5, <2>1
  <2>. QED
    BY <1>4, <1>8, <2>2
<1>10. s = f[n]
  BY <1>6 DEF value
<1>. QED
  BY <1>4, <1>7, <1>9, <1>10 DEF D, value

\* siftDown: the elements under the start end in heap order, when those under
\* its children were, or the call throws and leaves every element where it was.
LEMMA SiftDownIs ==
  ASSUME HeapAssumption, NEW len \in Nat, NEW n \in 0..len, NEW start \in 0..(n - 1), NEW items,
         HeapArray(items, len, n), NEW fuel \in Nat,
         NEW pq, pq.items = items, pq.size = n, NEW r, r = PQ!SiftDown(pq, start, fuel)
  PROVE  \/ r = [items |-> items, size |-> n, threw |-> TRUE, fuel |-> 0]
         \/ /\ r = [items |-> r.items, size |-> n, threw |-> FALSE, fuel |-> r.fuel]
            /\ r.fuel \in Nat
            /\ HeapArray(r.items, len, n) /\ Rearranged(items, r.items, n)
            /\ OrderedFrom(items, start + 1, n) => OrderedFrom(r.items, start, n)
            /\ \A i \in 0..(len - 1) : i >= n => r.items[i] = items[i]
<1>. DEFINE s == PQ!SiftDownLoop(items, n, items[start], start, fuel)
            w == Whole(s, items[start])
            at == s.at
            back == [PQ!ShiftDown(s.items, s.at, start) EXCEPT ![start] = items[start]]
<1>1. s \in DownSound(len, n, start, items) /\ ~Sinks(s, n, items[start])
  <2>. HIDE DEF s
  <2>. QED
    BY SiftDownLoopIs DEF s
<1>2. r = IF s.fuel < PQ!Calls(n, s.at)
          THEN [items |-> back, size |-> n, threw |-> TRUE, fuel |-> 0]
          ELSE [items |-> w, size |-> n, threw |-> FALSE, fuel |-> s.fuel - PQ!Calls(n, s.at)]
  BY DEF PQ!SiftDown, Whole
<1>3. w = Whole(s, items[start])
  OBVIOUS
<1>. HIDE DEF s, w
<1>4. /\ n \in Nat /\ 0..(n - 1) \subseteq 0..(len - 1)
      /\ items \in [0..(len - 1) -> Held] /\ s.items \in [0..(len - 1) -> Held]
      /\ at \in start..(n - 1) /\ at \in 0..(n - 1) /\ s.fuel \in Nat
      /\ w \in [0..(len - 1) -> Held] /\ w[at] = items[start]
      /\ \A i \in 0..(len - 1) : i # at => w[i] = s.items[i]
      /\ \A i \in 0..(n - 1) : w[i] \in Elem
      /\ \A i \in 0..(n - 1) : i # at => s.items[i] \in Elem
      /\ \A i \in 0..(len - 1) : i >= n => s.items[i] = items[i]
  BY <1>1, <1>3, DownFacts, SMTT(30)
<1>5. Rearranged(items, w, n) /\ (OrderedFrom(items, start + 1, n) => DownOrder(w, at, start, n))
  BY <1>1 DEF DownSound, w
<1>6. PICK V : DownTrail(V, s.items, at, items, start, len, n)
  BY <1>1 DEF DownSound
<1>7. CASE s.fuel < PQ!Calls(n, s.at)
  <2>1. back = items
    <3>. HIDE DEF at, back
    <3>. QED
      BY <1>4, <1>6, UndoneIs DEF back, at
  <2>. HIDE DEF back
  <2>. QED
    BY <1>2, <1>7, <2>1
<1>8. CASE ~(s.fuel < PQ!Calls(n, s.at))
  <2>1. /\ r = [items |-> w, size |-> n, threw |-> FALSE, fuel |-> s.fuel - PQ!Calls(n, s.at)]
        /\ s.fuel - PQ!Calls(n, s.at) \in Nat /\ PQ!Calls(n, s.at) <= s.fuel
    <3>1. PQ!Calls(n, s.at) \in Nat
      BY DEF PQ!Calls
    <3>. QED
      BY <1>2, <1>4, <1>8, <3>1
  <2>2. HeapArray(w, len, n)
    BY <1>4 DEF HeapArray
  <2>3. ASSUME NEW i \in 0..(len - 1), i >= n  PROVE w[i] = items[i]
    <3>1. at \in Int /\ at < n
      BY <1>4
    <3>2. i # at
      BY <1>4, <2>3, <3>1
    <3>. QED
      BY <1>4, <2>3, <3>2
  <2>4. ASSUME OrderedFrom(items, start + 1, n)  PROVE OrderedFrom(w, start, n)
    <3>1. DownOrder(w, at, start, n)
      BY <1>5, <2>4
    <3>2. ASSUME NEW i \in 1..(n - 1), PQ!Parent(i) >= start  PROVE InOrder(w, i)
      <4>1. CASE PQ!Parent(i) # at
        BY <3>1, <3>2, <4>1 DEF DownOrder
      <4>2. CASE PQ!Parent(i) = at
        <5>. DEFINE a == s.items
                    d == at
                    c == PQ!Child(a, n, d)
        <5>1. PQ!LeftOf(d) < n
          <6>0. d \in Nat /\ i \in Int /\ i < n /\ (i - 1) \div 2 = d
            BY <1>4, <4>2 DEF PQ!Parent
          <6>. HIDE DEF d
          <6>1. i = 2 * d + 1 \/ i = 2 * d + 2
            BY <6>0
          <6>. QED
            BY <1>4, <6>0, <6>1 DEF PQ!LeftOf
        <5>2. (\A j \in 0..(n - 1) : j # d => a[j] \in Elem) /\ d \in 0..(n - 1)
          BY <1>4
        <5>3. ~ (Rank(a[c]) < Rank(items[start]))
          BY <1>1, <2>1, <5>1 DEF Sinks
        <5>4. c = PQ!Child(a, n, d)
          OBVIOUS
        <5>5. PQ!Parent(i) = d
          BY <4>2
        <5>6. i # d
          <6>1. n \in Nat /\ i \in 1..n
            BY <1>4
          <6>2. PQ!Parent(i) < i /\ i \in Int
            BY <6>1, ParentIs
          <6>. QED
            BY <5>5, <6>2
        <5>7. Rank(a[i]) \in Int /\ Rank(items[start]) \in Int /\ w[i] = a[i] /\ w[d] = items[start]
              /\ a[i] \in Elem
          <6>1. a[i] \in Elem /\ w[d] \in Elem /\ w[d] = items[start] /\ w[i] = a[i]
            BY <1>4, <5>2, <5>6
          <6>. QED
            BY <6>1 DEF HeapAssumption
        <5>. HIDE DEF a, c, d
        <5>8. c \in 1..(n - 1) /\ d < c /\ ~ (Rank(a[i]) < Rank(a[c]))
          BY <1>4, <5>1, <5>2, <5>4, <5>5, ChildIs
        <5>9. Rank(a[c]) \in Int
          <6>1. c \in 0..(n - 1) /\ c # d
            BY <1>4, <5>2, <5>8
          <6>2. a[c] \in Elem
            BY <5>2, <6>1
          <6>. QED
            BY <6>2 DEF HeapAssumption
        <5>. QED
          BY <5>3, <5>5, <5>7, <5>8, <5>9 DEF InOrder
      <4>. QED
        BY <4>1, <4>2
    <3>. QED
      BY <3>2 DEF OrderedFrom
  <2>5. r.items = w /\ r.fuel = s.fuel - PQ!Calls(n, s.at)
    BY <2>1
  <2>. QED
    BY <1>5, <2>1, <2>2, <2>3, <2>4, <2>5
<1>. QED
  BY <1>7, <1>8
-----------------------------------------------------------------------------
(* heapify. *)

\* The turns of heapify's loop.
SiftNextKept(D, n) == \A k \in 1..n : \A s \in D : PQ!SiftNext(s, n - k) \in D
SiftNextRun(f, D, n, z) ==
  /\ f[0] = z /\ \A k \in 0..n : f[k] \in D
  /\ \A k \in 1..n : f[k] = PQ!SiftNext(f[k - 1], n - k)

LEMMA SiftNextTurns ==
  ASSUME NEW n \in Nat, NEW pq, n = pq.size \div 2, NEW fuel, NEW D, SiftNextKept(D, n),
         NEW z \in D, z = [items |-> pq.items, size |-> pq.size, threw |-> FALSE, fuel |-> fuel]
  PROVE  \E f : SiftNextRun(f, D, n, z) /\ PQ!SiftAll(pq, fuel) = f[n]
<1>. DEFINE step == [k \in 1..n |-> [s \in D |-> PQ!SiftNext(s, n - k)]]
            P(g) == g = [k \in 0..n |-> IF k = 0 THEN z ELSE PQ!SiftNext(g[k - 1], n - k)]
            F == CHOOSE g : P(g)
<1>1. step \in [1..n -> [D -> D]]
  BY DEF SiftNextKept
<1>2. PICK r : Recursion(D, n, z, step, r)
  <2>. HIDE DEF step
  <2>. QED
    BY <1>1, RecursionExists
<1>3. P(r)
  <2>1. r \in [0..n -> D] /\ r[0] = z /\ \A k \in 1..n : r[k] = step[k][r[k - 1]]
    BY <1>2 DEF Recursion
  <2>2. \A k \in 1..n : r[k] = PQ!SiftNext(r[k - 1], n - k)
    <3>1. \A k \in 1..n : k - 1 \in 0..n
      OBVIOUS
    <3>. QED
      BY <2>1, <3>1
  <2>3. \A k \in 0..n : r[k] = IF k = 0 THEN z ELSE PQ!SiftNext(r[k - 1], n - k)
    BY <2>1, <2>2
  <2>. QED
    BY <2>1, <2>3
<1>4. P(F)
  <2>. HIDE DEF P
  <2>. QED
    BY <1>3
<1>5. PQ!SiftAll(pq, fuel) = F[n]
  BY DEF PQ!SiftAll
<1>. HIDE DEF F
<1>6. F[0] = z /\ \A k \in 1..n : F[k] = PQ!SiftNext(F[k - 1], n - k)
  <2>1. \A k \in 0..n : F[k] = IF k = 0 THEN z ELSE PQ!SiftNext(F[k - 1], n - k)
    BY <1>4
  <2>2. 0 \in 0..n /\ \A k \in 1..n : k \in 0..n /\ k # 0
    OBVIOUS
  <2>. QED
    BY <2>1, <2>2
<1>7. \A k \in 0..n : F[k] \in D
  <2>. DEFINE S == {k \in 0..n : F[k] \in D}
  <2>1. 0 \in S /\ \A k \in 1..n : k - 1 \in S => k \in S
    BY <1>6 DEF SiftNextKept
  <2>. HIDE DEF S
  <2>2. \A k \in 0..n : k \in S
    BY <2>1, Reached
  <2>. QED
    BY <2>2 DEF S
<1>. QED
  BY <1>5, <1>6, <1>7 DEF SiftNextRun

\* heapify's loop: the elements end in heap order, or a call of siftDown threw.
LEMMA SiftAllIs ==
  ASSUME HeapAssumption, NEW n \in Nat, NEW items, HeapArray(items, n, n), NEW fuel \in Nat,
         NEW pq, pq.items = items, pq.size = n, NEW r, r = PQ!SiftAll(pq, fuel)
  PROVE  \/ r.threw
         \/ /\ ~r.threw /\ r.size = n
            /\ HeapArray(r.items, n, n) /\ Rearranged(items, r.items, n) /\ OrderedFrom(r.items, 0, n)
<1>. DEFINE States == [items : [0..(n - 1) -> Held], size : {n}, threw : BOOLEAN, fuel : Nat]
            D == {s \in States : s.threw \/ (HeapArray(s.items, n, n) /\ Rearranged(items, s.items, n))}
            z == [items |-> items, size |-> n, threw |-> FALSE, fuel |-> fuel]
            m == n \div 2
<1>1. m \in Nat /\ m \in 0..m /\ 2 * m <= n /\ n <= 2 * m + 1 /\ \A k \in 1..m : m - k \in 0..(n - 1)
  OBVIOUS
<1>2. z \in D
  <2>1. z \in States
    BY DEF HeapArray
  <2>2. HeapArray(z.items, n, n) /\ Rearranged(items, z.items, n)
    BY DEF Rearranged
  <2>. QED
    BY <2>1, <2>2
<1>3. ASSUME NEW s \in D, NEW i \in 0..(n - 1)
      PROVE  /\ PQ!SiftNext(s, i) \in D
             /\ ~PQ!SiftNext(s, i).threw => ~s.threw
             /\ ~PQ!SiftNext(s, i).threw /\ OrderedFrom(s.items, i + 1, n)
                   => OrderedFrom(PQ!SiftNext(s, i).items, i, n)
  <2>1. CASE s.threw
    BY <2>1 DEF PQ!SiftNext
  <2>2. CASE ~s.threw
    <3>. DEFINE t == PQ!SiftNext(s, i)
                a == s.items
    <3>1. t = PQ!SiftDown(s, i, s.fuel)
      BY <2>2 DEF PQ!SiftNext
    <3>2. s.size = n /\ s.fuel \in Nat /\ HeapArray(a, n, n) /\ Rearranged(items, a, n) /\ s.items = a
          /\ a \in [0..(n - 1) -> Held] /\ n \in 0..n
      BY <2>2
    <3>. HIDE DEF t, D, a
    <3>3. \/ t = [items |-> a, size |-> n, threw |-> TRUE, fuel |-> 0]
          \/ /\ t = [items |-> t.items, size |-> n, threw |-> FALSE, fuel |-> t.fuel]
             /\ t.fuel \in Nat
             /\ HeapArray(t.items, n, n) /\ Rearranged(a, t.items, n)
             /\ OrderedFrom(a, i + 1, n) => OrderedFrom(t.items, i, n)
      <4>. DEFINE l == s.fuel
      <4>1. t = PQ!SiftDown(s, i, l) /\ l \in Nat
        BY <3>1, <3>2
      <4>. HIDE DEF l
      <4>. QED
        BY <3>2, <4>1, SiftDownIs
    <3>4. CASE t = [items |-> a, size |-> n, threw |-> TRUE, fuel |-> 0]
      <4>1. t \in States /\ t.threw
        BY <3>2, <3>4
      <4>2. PQ!SiftNext(s, i) \in D /\ PQ!SiftNext(s, i).threw
        BY <4>1 DEF D, t
      <4>. QED
        BY <4>2
    <3>5. CASE /\ t = [items |-> t.items, size |-> n, threw |-> FALSE, fuel |-> t.fuel]
               /\ t.fuel \in Nat
               /\ HeapArray(t.items, n, n) /\ Rearranged(a, t.items, n)
               /\ OrderedFrom(a, i + 1, n) => OrderedFrom(t.items, i, n)
      <4>1. Rearranged(items, t.items, n)
        BY <3>2, <3>5, RearrangedOnce
      <4>2. t.items \in [0..(n - 1) -> Held]
        BY <3>5 DEF HeapArray
      <4>3. t \in States
        <5>. DEFINE b == t.items
                    f == t.fuel
        <5>1. t = [items |-> b, size |-> n, threw |-> FALSE, fuel |-> f]
          BY <3>5
        <5>2. b \in [0..(n - 1) -> Held] /\ f \in Nat
          BY <3>5, <4>2
        <5>. HIDE DEF b, f
        <5>. QED
          BY <5>1, <5>2
      <4>4. t \in D
        BY <3>5, <4>1, <4>3 DEF D
      <4>. QED
        BY <2>2, <3>2, <3>5, <4>4 DEF t
    <3>. QED
      BY <3>3, <3>4, <3>5
  <2>. QED
    BY <2>1, <2>2
<1>4. SiftNextKept(D, m)
  <2>. HIDE DEF D, m
  <2>. QED
    BY <1>1, <1>3 DEF SiftNextKept
<1>5. /\ z = [items |-> pq.items, size |-> pq.size, threw |-> FALSE, fuel |-> fuel] /\ m = pq.size \div 2
      /\ z.items = items
  OBVIOUS
<1>6. \A s \in D : s.threw \in BOOLEAN /\ s.size = n /\ (s.threw \/ (HeapArray(s.items, n, n) /\ Rearranged(items, s.items, n)))
  OBVIOUS
<1>. HIDE DEF States, D, z
<1>7. PICK f : SiftNextRun(f, D, m, z) /\ PQ!SiftAll(pq, fuel) = f[m]
  <2>. HIDE DEF m
  <2>. QED
    BY <1>1, <1>2, <1>4, <1>5, SiftNextTurns
<1>8. /\ f[0] = z /\ \A k \in 0..m : f[k] \in D
      /\ \A k \in 1..m : f[k] = PQ!SiftNext(f[k - 1], m - k)
  BY <1>7 DEF SiftNextRun
<1>9. OrderedFrom(items, m, n)
  <2>1. \A i \in 1..(n - 1) : PQ!Parent(i) \in Int /\ ~ (PQ!Parent(i) >= m)
    BY <1>1 DEF PQ!Parent
  <2>. QED
    BY <2>1 DEF OrderedFrom
<1>. HIDE DEF m
<1>10. \A k \in 0..m : f[k].threw \/ OrderedFrom(f[k].items, m - k, n)
  <2>. DEFINE S == {k \in 0..m : f[k].threw \/ OrderedFrom(f[k].items, m - k, n)}
  <2>1. 0 \in S
    <3>1. m - 0 = m /\ 0 \in 0..m
      BY <1>1
    <3>. QED
      BY <1>5, <1>8, <1>9, <3>1
  <2>2. ASSUME NEW k \in 1..m, k - 1 \in S  PROVE k \in S
    <3>1. k - 1 \in 0..m /\ k \in 0..m /\ f[k - 1] \in D /\ f[k] = PQ!SiftNext(f[k - 1], m - k)
          /\ m - k \in 0..(n - 1) /\ (m - k) + 1 = m - (k - 1)
      BY <1>1, <1>8
    <3>2. CASE f[k].threw
      BY <3>1, <3>2
    <3>3. CASE ~f[k].threw
      <4>1. ~f[k - 1].threw
        BY <1>3, <3>1, <3>3
      <4>2. OrderedFrom(f[k - 1].items, m - (k - 1), n)
        BY <2>2, <4>1
      <4>3. OrderedFrom(f[k].items, m - k, n)
        BY <1>3, <3>1, <3>3, <4>2, SMTT(30)
      <4>. QED
        BY <3>1, <4>3
    <3>. QED
      BY <3>2, <3>3
  <2>. HIDE DEF S
  <2>3. \A k \in 0..m : k \in S
    BY <1>1, <2>1, <2>2, Reached
  <2>. QED
    BY <2>3 DEF S
<1>11. r = f[m] /\ f[m] \in D /\ m - m = 0 /\ (f[m].threw \/ OrderedFrom(f[m].items, m - m, n))
  BY <1>1, <1>7, <1>8, <1>10
<1>. QED
  BY <1>6, <1>11

-----------------------------------------------------------------------------
(* The heap between calls. *)

\* An array in whose first n slots the elements are in heap order, none twice;
\* the others hold nothing.
HeapOf(items, len, n) ==
  /\ HeapArray(items, len, n) /\ Distinct(items, n) /\ OrderedFrom(items, 0, n)
  /\ \A i \in 0..(len - 1) : i >= n => items[i] = Undef

HeapInv == /\ heap = [items |-> heap.items, size |-> heap.size]
           /\ \E len \in Nat : HeapOf(heap.items, len, heap.size)

\* A call that throws leaves the elements where they were.
Restored == hOut' = Threw => /\ heap'.size = heap.size
                             /\ \A i \in 0..(heap.size - 1) : heap'.items[i] = heap.items[i]

LEMMA HeapContent ==
  \A pq : PQ!Content(pq) = Elements(pq.items, pq.size)
BY DEF PQ!Content, Elements

LEMMA OrderIs ==
  ASSUME NEW items, NEW n \in Nat
  PROVE  OrderedFrom(items, 0, n) <=> \A i \in 1..(n - 1) : InOrder(items, i)
<1>1. \A i \in 1..(n - 1) : PQ!Parent(i) >= 0
  BY DEF PQ!Parent
<1>. QED
  BY <1>1 DEF OrderedFrom

\* No element comes before the root.
LEMMA RootIs ==
  ASSUME HeapAssumption, NEW len, NEW n, NEW items, HeapOf(items, len, n)
  PROVE  \A i \in 0..(n - 1) : ~ (Rank(items[i]) < Rank(items[0]))
<1>. DEFINE Bad == {i \in 0..(n - 1) : Rank(items[i]) < Rank(items[0])}
<1>. SUFFICES ASSUME Bad # {} PROVE FALSE
  OBVIOUS
<1>1. n \in Nat /\ \A i \in 0..(n - 1) : Rank(items[i]) \in Int
  BY DEF HeapOf, HeapArray, HeapAssumption
<1>2. PICK m \in Bad : \A k \in Bad : m <= k
  <2>1. Bad \in SUBSET Nat
    OBVIOUS
  <2>. HIDE DEF Bad
  <2>. QED
    BY <2>1, LeastExists
<1>3. m \in 1..(n - 1) /\ Rank(items[m]) < Rank(items[0])
  <2>1. m \in 0..(n - 1) /\ Rank(items[m]) < Rank(items[0])
    BY <1>2
  <2>2. m # 0
    BY <1>1, <2>1
  <2>. QED
    BY <2>1, <2>2
<1>4. PQ!Parent(m) < m /\ PQ!Parent(m) \in 0..(n - 1) /\ m \in Int /\ PQ!Parent(m) \in Int
  <2>1. n - 1 \in Nat
    BY <1>1, <1>3
  <2>. QED
    BY <1>3, <2>1, ParentIs
<1>5. ~ (Rank(items[m]) < Rank(items[PQ!Parent(m)]))
  BY <1>1, <1>3, OrderIs DEF HeapOf, InOrder
<1>6. PQ!Parent(m) \notin Bad
  <2>1. ~ (m <= PQ!Parent(m))
    BY <1>4
  <2>. HIDE DEF Bad
  <2>. QED
    BY <1>2, <2>1
<1>7. 0 \in 0..(n - 1) /\ m \in 0..(n - 1)
  BY <1>1, <1>3
<1>. QED
  BY <1>1, <1>3, <1>4, <1>5, <1>6, <1>7

LEMMA PushHeapStep ==
  ASSUME HeapAssumption, HeapInv, NEW e \in Elem, NEW fuel \in Nat, PQ!Push(e, fuel)
  PROVE  HeapInv' /\ Restored /\ (PQ!Abstract!Push(e) \/ PQ!Abstract!Throw)
<1>. DEFINE n == heap.size
            old == heap.items
            items == PQ!Store(heap.items, n, e)
            r == PQ!SiftUp([items |-> items, size |-> n + 1], n, fuel)
<1>1. PICK len \in Nat : HeapOf(old, len, n)
  BY DEF HeapInv
<1>2. /\ n \in Nat /\ n \in 0..len /\ old \in [0..(len - 1) -> Held]
      /\ \A i \in 0..(n - 1) : old[i] \in Elem
      /\ Distinct(old, n) /\ \A i \in 1..(n - 1) : InOrder(old, i)
      /\ \A i \in 0..(len - 1) : i >= n => old[i] = Undef
  BY <1>1, OrderIs DEF HeapOf, HeapArray
<1>3. /\ e \notin PQ!Content(heap) /\ heap' = [items |-> r.items, size |-> r.size]
      /\ hOut' = IF r.threw THEN Threw ELSE Undef
  BY DEF PQ!Push
<1>. DEFINE l == IF n < len THEN len ELSE len + 1
<1>4. l \in Nat /\ n \in 0..(l - 1) /\ n + 1 \in 0..l /\ 0..(l - 1) = 0..(len - 1) \cup {n}
      /\ 0..((n + 1) - 1) = 0..(n - 1) \cup {n}
  BY <1>2
<1>5. /\ items \in [0..(l - 1) -> Held] /\ items[n] = e
      /\ \A i \in 0..(l - 1) : i # n => items[i] = old[i] /\ i \in 0..(len - 1)
  <2>1. DOMAIN old = 0..(len - 1)
    BY <1>2
  <2>2. items = [i \in 0..(l - 1) |-> IF i = n THEN e ELSE old[i]]
    <3>. HIDE DEF l
    <3>. QED
      BY <1>4, <2>1 DEF PQ!Store
  <2>. HIDE DEF items, l, old, n
  <2>. QED
    BY <1>2, <1>4, <2>2 DEF Held
<1>. HIDE DEF items, l, old, n
<1>6. \A i \in 0..(n - 1) : i \in 0..(l - 1) /\ items[i] = old[i] /\ i # n
  BY <1>2, <1>4, <1>5
<1>7. HeapArray(items, l, n + 1)
  BY <1>2, <1>4, <1>5, <1>6 DEF HeapArray
<1>8. Distinct(items, n + 1)
  <2>1. \A i \in 0..(n - 1) : old[i] # e
    BY <1>3 DEF PQ!Content, n, old
  <2>. QED
    BY <1>2, <1>4, <1>5, <1>6, <2>1 DEF Distinct
<1>9. Elements(items, n + 1) = Elements(old, n) \cup {e}
  BY <1>4, <1>5, <1>6 DEF Elements
<1>10. \A i \in 1..(n - 1) : InOrder(items, i)
  <2>1. \A i \in 1..(n - 1) : i \in 0..(n - 1) /\ PQ!Parent(i) \in 0..(n - 1)
    <3>1. \A i \in 1..(n - 1) : n - 1 \in Nat
      BY <1>2
    <3>. QED
      BY <3>1, ParentIs
  <2>. QED
    BY <1>2, <1>6, <2>1 DEF InOrder
<1>11. \A i \in 0..(l - 1) : i > n => items[i] = Undef
  BY <1>2, <1>4, <1>5
<1>. DEFINE pq == [items |-> items, size |-> n + 1]
<1>12. \/ /\ r.threw /\ r.size = n /\ r.items = [items EXCEPT ![n] = Undef]
       \/ /\ ~r.threw /\ r.size = n + 1
          /\ HeapArray(r.items, l, n + 1) /\ Rearranged(items, r.items, n + 1)
          /\ \A i \in 1..n : InOrder(r.items, i)
          /\ \A i \in 0..(l - 1) : i > n => r.items[i] = items[i]
  <2>1. pq.items = items /\ pq.size = n + 1 /\ r = PQ!SiftUp(pq, n, fuel)
    OBVIOUS
  <2>2. l \in Nat /\ n \in 0..(l - 1) /\ HeapArray(items, l, n + 1) /\ fuel \in Nat
    BY <1>4, <1>7
  <2>. HIDE DEF pq, r
  <2>3. SiftedUp(r, items, l, n)
    BY <1>10, <2>1, <2>2, SiftUpIs
  <2>. QED
    BY <2>3 DEF SiftedUp
<1>13. heap'.items = r.items /\ heap'.size = r.size
  BY <1>3
<1>. HIDE DEF r
<1>14. CASE r.threw /\ r.size = n /\ r.items = [items EXCEPT ![n] = Undef]
  <2>1. hOut' = Threw
    BY <1>3, <1>14
  <2>. DEFINE new == r.items
  <2>2. /\ new \in [0..(l - 1) -> Held] /\ new[n] = Undef
        /\ \A i \in 0..(l - 1) : i # n => new[i] = items[i]
    BY <1>4, <1>5, <1>14 DEF Held
  <2>3. \A i \in 0..(n - 1) : new[i] = old[i]
    BY <1>6, <2>2
  <2>. HIDE DEF new
  <2>4. HeapOf(new, l, n)
    <3>1. HeapArray(new, l, n)
      <4>1. n \in 0..l
        BY <1>4
      <4>. QED
        BY <1>2, <1>4, <2>2, <2>3, <4>1 DEF HeapArray
    <3>2. Distinct(new, n)
      BY <1>2, <2>3 DEF Distinct
    <3>3. OrderedFrom(new, 0, n)
      <4>1. \A i \in 1..(n - 1) : i \in 0..(n - 1) /\ PQ!Parent(i) \in 0..(n - 1)
        <5>1. \A i \in 1..(n - 1) : n - 1 \in Nat
          BY <1>2
        <5>. QED
          BY <5>1, ParentIs
      <4>2. \A i \in 1..(n - 1) : InOrder(new, i)
        BY <1>2, <2>3, <4>1 DEF InOrder
      <4>. QED
        BY <1>2, <4>2, OrderIs
    <3>4. \A i \in 0..(l - 1) : i >= n => new[i] = Undef
      BY <1>2, <1>11, <2>2
    <3>. QED
      BY <3>1, <3>2, <3>3, <3>4 DEF HeapOf
  <2>5. HeapInv'
    BY <1>3, <1>4, <1>13, <1>14, <2>4 DEF HeapInv, new
  <2>6. Restored
    BY <1>13, <1>14, <2>3 DEF Restored, n, old, new
  <2>7. PQ!Content(heap)' = PQ!Content(heap)
    <3>1. Elements(new, n) = Elements(old, n)
      BY <2>3 DEF Elements
    <3>2. heap'.items = new /\ heap'.size = n
      BY <1>13, <1>14 DEF new
    <3>. QED
      BY <3>1, <3>2 DEF PQ!Content, Elements, n, old
  <2>. QED
    BY <2>1, <2>5, <2>6, <2>7 DEF PQ!Abstract!Throw
<1>15. CASE /\ ~r.threw /\ r.size = n + 1
            /\ HeapArray(r.items, l, n + 1) /\ Rearranged(items, r.items, n + 1)
            /\ \A i \in 1..n : InOrder(r.items, i)
            /\ \A i \in 0..(l - 1) : i > n => r.items[i] = items[i]
  <2>1. hOut' = Undef /\ Undef # Threw
    BY <1>3, <1>15 DEF HeapAssumption
  <2>. DEFINE new == r.items
              m == n + 1
  <2>2. m \in Nat /\ m - 1 = n
    BY <1>2
  <2>3. HeapArray(new, l, m) /\ Distinct(new, m) /\ Elements(new, m) = Elements(old, n) \cup {e}
    BY <1>8, <1>9, <1>15 DEF Rearranged
  <2>4. \A i \in 1..(m - 1) : InOrder(new, i)
    BY <1>15, <2>2
  <2>5. \A i \in 0..(l - 1) : i >= m => new[i] = Undef
    BY <1>2, <1>4, <1>11, <1>15
  <2>6. heap'.items = new /\ heap'.size = m
    BY <1>13, <1>15
  <2>. HIDE DEF new, m
  <2>7. HeapOf(new, l, m)
    BY <2>2, <2>3, <2>4, <2>5, OrderIs DEF HeapOf
  <2>8. HeapInv'
    <3>1. heap' = [items |-> heap'.items, size |-> heap'.size]
      BY <1>3, <1>13
    <3>. QED
      BY <1>4, <2>6, <2>7, <3>1 DEF HeapInv
  <2>9. PQ!Content(heap)' = PQ!Content(heap) \cup {e}
    BY <2>3, <2>6 DEF PQ!Content, Elements, n, old
  <2>. QED
    BY <2>1, <2>8, <2>9 DEF PQ!Abstract!Push, Restored
<1>. QED
  BY <1>12, <1>14, <1>15

\* Memory given back takes no element with it.
LEMMA ShrunkIs ==
  ASSUME NEW len \in Nat, NEW n \in Nat, NEW items, HeapOf(items, len, n), NEW new, new = PQ!MaybeShrink(items, n)
  PROVE  /\ \E l \in Nat : HeapOf(new, l, n)
         /\ Elements(new, n) = Elements(items, n)
<1>1. /\ items \in [0..(len - 1) -> Held] /\ n \in 0..len /\ \A i \in 0..(n - 1) : items[i] \in Elem
      /\ DOMAIN items = 0..(len - 1)
      /\ Distinct(items, n) /\ \A i \in 1..(n - 1) : InOrder(items, i)
      /\ \A i \in 0..(len - 1) : i >= n => items[i] = Undef
  BY OrderIs DEF HeapOf, HeapArray
<1>2. Cardinality(0..(len - 1)) = len
  <2>1. Cardinality(0..(len - 1)) = IF 0 > len - 1 THEN 0 ELSE (len - 1) - 0 + 1
    BY FS_Interval
  <2>. QED
    BY <2>1
<1>3. CASE new = items
  BY <1>3
<1>4. CASE new # items
  <2>1. n < len \div 4 /\ new = [i \in 0..(2 * n - 1) |-> items[i]]
    BY <1>1, <1>2, <1>4, HeapSizes DEF PQ!MaybeShrink
  <2>. DEFINE l == 2 * n
  <2>2. l \in Nat /\ n \in 0..l /\ 0..(l - 1) \subseteq 0..(len - 1) /\ 0..(n - 1) \subseteq 0..(l - 1)
    BY <2>1
  <2>3. new \in [0..(l - 1) -> Held] /\ \A i \in 0..(l - 1) : new[i] = items[i]
    BY <1>1, <2>1, <2>2
  <2>. HIDE DEF l
  <2>4. \A i \in 0..(n - 1) : new[i] = items[i]
    BY <2>2, <2>3
  <2>5. HeapArray(new, l, n) /\ Distinct(new, n) /\ Elements(new, n) = Elements(items, n)
    BY <1>1, <2>2, <2>3, <2>4 DEF HeapArray, Distinct, Elements
  <2>6. \A i \in 1..(n - 1) : InOrder(new, i)
    <3>1. \A i \in 1..(n - 1) : i \in 0..(n - 1) /\ PQ!Parent(i) \in 0..(n - 1)
      <4>1. \A i \in 1..(n - 1) : n - 1 \in Nat
        OBVIOUS
      <4>. QED
        BY <4>1, ParentIs
    <3>. QED
      BY <1>1, <2>4, <3>1 DEF InOrder
  <2>7. HeapOf(new, l, n)
    BY <1>1, <2>2, <2>3, <2>5, <2>6, OrderIs DEF HeapOf
  <2>. QED
    BY <2>2, <2>5, <2>7
<1>. QED
  BY <1>3, <1>4

LEMMA PopFewStep ==
  ASSUME HeapAssumption, HeapInv, PQ!PopEmpty \/ PQ!PopLast
  PROVE  HeapInv' /\ Restored /\ PQ!Abstract!Pop
<1>. DEFINE n == heap.size
            old == heap.items
<1>1. PICK len \in Nat : HeapOf(old, len, n)
  BY DEF HeapInv
<1>2. /\ n \in Nat /\ n \in 0..len /\ old \in [0..(len - 1) -> Held]
      /\ \A i \in 0..(n - 1) : old[i] \in Elem
      /\ \A i \in 0..(len - 1) : i >= n => old[i] = Undef
  BY <1>1 DEF HeapOf, HeapArray
<1>3. CASE PQ!PopEmpty
  <2>1. PQ!Content(heap) = {}
    BY <1>3 DEF PQ!PopEmpty, PQ!Content
  <2>2. HeapInv'
    BY <1>3 DEF PQ!PopEmpty, HeapInv
  <2>3. PQ!Content(heap)' = PQ!Content(heap) /\ hOut' = Undef
    BY <1>3 DEF PQ!PopEmpty, PQ!Content
  <2>. QED
    BY <2>1, <2>2, <2>3 DEF PQ!Abstract!Pop, Restored, HeapAssumption
<1>4. CASE PQ!PopLast
  <2>. DEFINE new == [old EXCEPT ![0] = Undef]
  <2>1. n = 1 /\ heap' = [items |-> new, size |-> 0] /\ hOut' = old[0]
    BY <1>4 DEF PQ!PopLast
  <2>2. old[0] \in Elem /\ 0 \in 0..(len - 1) /\ PQ!Content(heap) = {old[0]}
    BY <1>2, <2>1 DEF PQ!Content
  <2>3. new \in [0..(len - 1) -> Held] /\ \A i \in 0..(len - 1) : new[i] = Undef
    BY <1>2, <2>1 DEF Held
  <2>. HIDE DEF new
  <2>4. HeapOf(new, len, 0)
    BY <2>3 DEF HeapOf, HeapArray, Distinct, OrderedFrom
  <2>5. HeapInv'
    BY <2>1, <2>4 DEF HeapInv
  <2>6. PQ!Content(heap)' = PQ!Content(heap) \ {old[0]}
    BY <2>1, <2>2 DEF PQ!Content
  <2>7. old[0] \in PQ!Abstract!Least(PQ!Content(heap))
    <3>1. Rank(old[0]) \in Int
      BY <2>2 DEF HeapAssumption
    <3>. QED
      BY <2>2, <3>1 DEF PQ!Abstract!Least
  <2>8. hOut' # Threw
    BY <2>1, <2>2 DEF HeapAssumption
  <2>. QED
    BY <2>1, <2>5, <2>6, <2>7, <2>8 DEF PQ!Abstract!Pop, Restored
<1>. QED
  BY <1>3, <1>4

LEMMA PopManyStep ==
  ASSUME HeapAssumption, HeapInv, NEW fuel \in Nat, PQ!PopMany(fuel)
  PROVE  HeapInv' /\ Restored /\ (PQ!Abstract!Pop \/ PQ!Abstract!Throw)
<1>. DEFINE n == heap.size
            old == heap.items
            m == n - 1
            items == [old EXCEPT ![0] = old[m], ![m] = Undef]
            r == PQ!SiftDown([items |-> items, size |-> m], 0, fuel)
            min == old[0]
<1>1. PICK len \in Nat : HeapOf(old, len, n)
  BY DEF HeapInv
<1>2. /\ n \in Nat /\ n \in 0..len /\ old \in [0..(len - 1) -> Held]
      /\ \A i \in 0..(n - 1) : old[i] \in Elem
      /\ Distinct(old, n) /\ \A i \in 1..(n - 1) : InOrder(old, i)
      /\ \A i \in 0..(len - 1) : i >= n => old[i] = Undef
      /\ heap = [items |-> old, size |-> n]
  BY <1>1, OrderIs DEF HeapOf, HeapArray, HeapInv
<1>3. /\ n > 1
      /\ IF r.threw
         THEN /\ heap' = [items |-> [r.items EXCEPT ![m] = r.items[0], ![0] = min], size |-> n]
              /\ hOut' = Threw
         ELSE /\ heap' = [items |-> PQ!MaybeShrink(r.items, m), size |-> m]
              /\ hOut' = min
  BY DEF PQ!PopMany
<1>4. /\ m \in Nat /\ m >= 1 /\ m \in 0..len /\ 0 \in 0..(m - 1) /\ m + 1 = n
      /\ 0 \in 0..(len - 1) /\ m \in 0..(len - 1) /\ m # 0
      /\ 0..(n - 1) = 0..(m - 1) \cup {m} /\ 0..(m - 1) \subseteq 0..(len - 1)
  <2>1. n \in Nat /\ n \in 0..len /\ n > 1 /\ m = n - 1
    BY <1>2, <1>3
  <2>. HIDE DEF n, m
  <2>2. m \in Nat /\ m >= 1 /\ m < n /\ n <= len /\ m + 1 = n
    BY <2>1
  <2>3. m \in 0..len /\ 0 \in 0..(m - 1) /\ 0 \in 0..(len - 1) /\ m \in 0..(len - 1) /\ m # 0
    BY <2>1, <2>2
  <2>4. 0..(n - 1) = 0..(m - 1) \cup {m} /\ 0..(m - 1) \subseteq 0..(len - 1)
    BY <2>1, <2>2
  <2>. QED
    BY <2>2, <2>3, <2>4
<1>. HIDE DEF n, old, m
<1>5. /\ items \in [0..(len - 1) -> Held] /\ items[0] = old[m] /\ items[m] = Undef
      /\ \A i \in 0..(len - 1) : i # 0 /\ i # m => items[i] = old[i]
  <2>. DEFINE b == [old EXCEPT ![0] = old[m]]
  <2>1. /\ b \in [0..(len - 1) -> Held] /\ b[0] = old[m]
        /\ \A i \in 0..(len - 1) : i # 0 => b[i] = old[i]
    BY <1>2, <1>4
  <2>2. items = [b EXCEPT ![m] = Undef]
    OBVIOUS
  <2>. HIDE DEF b, items
  <2>. QED
    BY <1>4, <2>1, <2>2 DEF Held
<1>. HIDE DEF items
<1>6. \A i \in 0..(m - 1) : /\ i \in 0..(len - 1) /\ i # m /\ i \in 0..(n - 1)
                            /\ i # 0 => items[i] = old[i]
  BY <1>4, <1>5
<1>7. HeapArray(items, len, m) /\ min \in Elem /\ old[m] \in Elem
  <2>1. 0 \in 0..(n - 1) /\ m \in 0..(n - 1)
    BY <1>4
  <2>. QED
    BY <1>2, <1>4, <1>5, <1>6, <2>1 DEF HeapArray
<1>8. Distinct(items, m)
  <2>1. \A i \in 0..(m - 1) : items[i] = old[IF i = 0 THEN m ELSE i]
    BY <1>5, <1>6
  <2>2. \A i \in 0..(m - 1) : (IF i = 0 THEN m ELSE i) \in 0..(n - 1)
    BY <1>4, <1>6
  <2>. QED
    BY <1>2, <1>6, <2>1, <2>2 DEF Distinct
<1>9. Elements(items, m) = Elements(old, n) \ {min}
  <2>1. \A i \in 0..(m - 1) : items[i] = old[IF i = 0 THEN m ELSE i]
    BY <1>5, <1>6
  <2>2. \A i \in 0..(m - 1) : (IF i = 0 THEN m ELSE i) \in 0..(n - 1) /\ (IF i = 0 THEN m ELSE i) # 0
    BY <1>4, <1>6
  <2>3. 0 \in 0..(n - 1)
    BY <1>4
  <2>4. \A i \in 0..(m - 1) : items[i] \in Elements(old, n) \ {min}
    <3>1. \A i \in 0..(n - 1) : i # 0 => old[i] # old[0]
      BY <1>2, <2>3 DEF Distinct
    <3>. QED
      BY <2>1, <2>2, <3>1 DEF Elements
  <2>5. ASSUME NEW i \in 0..(n - 1), old[i] # min  PROVE old[i] \in Elements(items, m)
    <3>1. CASE i = m
      BY <1>4, <1>5, <3>1 DEF Elements
    <3>2. CASE i # m
      <4>1. i \in 0..(m - 1) /\ items[i] = old[i]
        BY <1>4, <1>6, <2>5, <3>2
      <4>. QED
        BY <4>1 DEF Elements
    <3>. QED
      BY <3>1, <3>2
  <2>. QED
    BY <2>4, <2>5 DEF Elements
<1>10. OrderedFrom(items, 1, m)
  <2>1. ASSUME NEW i \in 1..(m - 1), PQ!Parent(i) >= 1  PROVE InOrder(items, i)
    <3>1. m - 1 \in Nat /\ i \in 0..(m - 1) /\ i # 0 /\ i \in 1..(n - 1)
      BY <1>4
    <3>2. PQ!Parent(i) \in 0..(m - 1) /\ PQ!Parent(i) # 0
      BY <2>1, <3>1, ParentIs
    <3>. QED
      BY <1>2, <1>6, <3>1, <3>2 DEF InOrder
  <2>. QED
    BY <2>1 DEF OrderedFrom
<1>. DEFINE pq == [items |-> items, size |-> m]
<1>11. \/ r = [items |-> items, size |-> m, threw |-> TRUE, fuel |-> 0]
       \/ /\ r = [items |-> r.items, size |-> m, threw |-> FALSE, fuel |-> r.fuel]
          /\ HeapArray(r.items, len, m) /\ Rearranged(items, r.items, m)
          /\ OrderedFrom(items, 0 + 1, m) => OrderedFrom(r.items, 0, m)
          /\ \A i \in 0..(len - 1) : i >= m => r.items[i] = items[i]
  <2>1. pq.items = items /\ pq.size = m /\ r = PQ!SiftDown(pq, 0, fuel)
    OBVIOUS
  <2>. HIDE DEF pq, r
  <2>2. HeapArray(items, len, m) /\ m \in 0..len /\ 0 \in 0..(m - 1)
    BY <1>4, <1>7
  <2>. QED
    BY <2>1, <2>2, SiftDownIs, SMTT(30)
<1>. HIDE DEF r
<1>12. CASE r = [items |-> items, size |-> m, threw |-> TRUE, fuel |-> 0]
  <2>. DEFINE b == [items EXCEPT ![m] = items[0]]
              c == [b EXCEPT ![0] = min]
  <2>1. r.threw /\ r.items = items
    BY <1>12
  <2>2. heap' = [items |-> c, size |-> n] /\ hOut' = Threw
    BY <1>3, <2>1
  <2>3. /\ b \in [0..(len - 1) -> Held] /\ b[m] = old[m]
        /\ \A i \in 0..(len - 1) : i # 0 /\ i # m => b[i] = old[i]
    BY <1>4, <1>5, <1>7 DEF Held
  <2>. HIDE DEF b, min
  <2>4. c \in [0..(len - 1) -> Held] /\ \A i \in 0..(len - 1) : c[i] = old[i]
    BY <1>4, <1>7, <2>3 DEF Held, min
  <2>5. c = old
    <3>. HIDE DEF c
    <3>. QED
      BY <1>2, <2>4
  <2>6. heap' = heap
    BY <1>2, <2>2, <2>5
  <2>7. HeapInv' /\ PQ!Content(heap)' = PQ!Content(heap)
    BY <2>6 DEF HeapInv, PQ!Content
  <2>. QED
    BY <2>2, <2>6, <2>7 DEF Restored, PQ!Abstract!Throw
<1>13. CASE /\ r = [items |-> r.items, size |-> m, threw |-> FALSE, fuel |-> r.fuel]
            /\ HeapArray(r.items, len, m) /\ Rearranged(items, r.items, m)
            /\ OrderedFrom(items, 0 + 1, m) => OrderedFrom(r.items, 0, m)
            /\ \A i \in 0..(len - 1) : i >= m => r.items[i] = items[i]
  <2>. DEFINE new == PQ!MaybeShrink(r.items, m)
  <2>1. ~r.threw
    BY <1>13
  <2>2. heap' = [items |-> new, size |-> m] /\ hOut' = min
    BY <1>3, <2>1
  <2>3. HeapOf(r.items, len, m)
    <3>1. Distinct(r.items, m)
      BY <1>8, <1>13 DEF Rearranged
    <3>2. OrderedFrom(r.items, 0, m)
      BY <1>10, <1>13
    <3>3. ASSUME NEW i \in 0..(len - 1), i >= m  PROVE r.items[i] = Undef
      <4>1. CASE i = m
        BY <1>5, <1>13, <3>3, <4>1
      <4>2. CASE i # m
        <5>1. i >= n /\ i # 0
          BY <1>4, <3>3, <4>2
        <5>. QED
          BY <1>2, <1>5, <1>13, <3>3, <4>2, <5>1
      <4>. QED
        BY <4>1, <4>2
    <3>. QED
      BY <1>13, <3>1, <3>2, <3>3 DEF HeapOf
  <2>4. (\E l \in Nat : HeapOf(new, l, m)) /\ Elements(new, m) = Elements(r.items, m)
    <3>1. new = PQ!MaybeShrink(r.items, m)
      OBVIOUS
    <3>. HIDE DEF new
    <3>. QED
      BY <1>4, <2>3, <3>1, ShrunkIs
  <2>. HIDE DEF new
  <2>5. HeapInv'
    BY <2>2, <2>4 DEF HeapInv
  <2>6. PQ!Content(heap)' = PQ!Content(heap) \ {min}
    <3>1. Elements(new, m) = Elements(old, n) \ {min}
      BY <1>9, <1>13, <2>4 DEF Rearranged
    <3>2. PQ!Content(heap) = Elements(old, n) /\ PQ!Content(heap)' = Elements(new, m)
      BY <2>2 DEF PQ!Content, Elements, n, old
    <3>. QED
      BY <3>1, <3>2
  <2>7. min \in PQ!Abstract!Least(PQ!Content(heap))
    <3>1. \A i \in 0..(n - 1) : ~ (Rank(old[i]) < Rank(min))
      BY <1>1, RootIs
    <3>2. 0 \in 0..(n - 1)
      BY <1>4
    <3>. QED
      BY <3>1, <3>2 DEF PQ!Abstract!Least, PQ!Content, n, old
  <2>8. hOut' # Threw
    BY <1>7, <2>2 DEF HeapAssumption
  <2>. QED
    BY <2>2, <2>5, <2>6, <2>7, <2>8 DEF PQ!Abstract!Pop, Restored
<1>. QED
  BY <1>11, <1>12, <1>13

LEMMA HeapifyStep ==
  ASSUME HeapAssumption, HeapInv, NEW seq \in Inputs, NEW fuel \in Nat, PQ!Heapify(seq, fuel)
  PROVE  HeapInv' /\ Restored /\ (PQ!Abstract!Replace({seq[i] : i \in DOMAIN seq}) \/ PQ!Abstract!Throw)
         /\ {seq[i] : i \in DOMAIN seq} \subseteq Elem
<1>. DEFINE n == Len(seq)
            pq == PQ!Scratch(seq)
            items == pq.items
            r == PQ!SiftAll(pq, fuel)
            S == {seq[i] : i \in DOMAIN seq}
<1>1. /\ seq \in Seq(Elem) /\ n \in Nat /\ DOMAIN seq = 1..n /\ \A i \in 1..n : seq[i] \in Elem
      /\ \A i, j \in 1..n : seq[i] = seq[j] => i = j
  BY DEF HeapAssumption
<1>2. /\ IF r.threw THEN heap' = heap /\ hOut' = Threw
         ELSE heap' = [items |-> r.items, size |-> r.size] /\ hOut' = Undef
  BY DEF PQ!Heapify
<1>3. pq.size = n /\ items = [i \in 0..(n - 1) |-> seq[i + 1]]
  BY DEF PQ!Scratch
<1>. HIDE DEF n, pq, items
<1>4. \A i \in 0..(n - 1) : i + 1 \in 1..n /\ items[i] = seq[i + 1]
  BY <1>1, <1>3
<1>5. HeapArray(items, n, n)
  <2>1. items \in [0..(n - 1) -> Held] /\ \A i \in 0..(n - 1) : items[i] \in Elem
    BY <1>1, <1>3, <1>4 DEF Held
  <2>2. n \in 0..n
    BY <1>1
  <2>. QED
    BY <1>1, <2>1, <2>2 DEF HeapArray
<1>6. Distinct(items, n)
  <2>1. ASSUME NEW i \in 0..(n - 1), NEW j \in 0..(n - 1), items[i] = items[j]  PROVE i = j
    <3>1. i + 1 = j + 1
      BY <1>1, <1>4, <2>1
    <3>. QED
      BY <3>1
  <2>. QED
    BY <2>1 DEF Distinct
<1>7. Elements(items, n) = S
  <2>1. \A i \in 0..(n - 1) : items[i] \in S
    BY <1>1, <1>4
  <2>2. \A i \in 1..n : i - 1 \in 0..(n - 1) /\ items[i - 1] = seq[i]
    BY <1>1, <1>4
  <2>3. \A i \in 1..n : seq[i] \in Elements(items, n)
    BY <2>2 DEF Elements
  <2>4. Elements(items, n) \subseteq S
    <3>. HIDE DEF S
    <3>. QED
      BY <2>1 DEF Elements
  <2>5. S \subseteq Elements(items, n)
    <3>1. ASSUME NEW x \in S  PROVE x \in Elements(items, n)
      <4>1. PICK i \in 1..n : x = seq[i]
        BY <1>1
      <4>. QED
        BY <2>3, <4>1
    <3>. QED
      BY <3>1
  <2>. QED
    BY <2>4, <2>5
<1>8. S \subseteq Elem
  BY <1>1
<1>. HIDE DEF S
<1>9. \/ r.threw
      \/ /\ ~r.threw /\ r.size = n
         /\ HeapArray(r.items, n, n) /\ Rearranged(items, r.items, n) /\ OrderedFrom(r.items, 0, n)
  <2>1. pq.items = items /\ pq.size = n /\ r = PQ!SiftAll(pq, fuel)
    BY <1>3 DEF items
  <2>. HIDE DEF r
  <2>. QED
    BY <1>1, <1>5, <2>1, SiftAllIs
<1>. HIDE DEF r
<1>10. CASE r.threw
  <2>1. heap' = heap /\ hOut' = Threw
    BY <1>2, <1>10
  <2>2. HeapInv' /\ PQ!Content(heap)' = PQ!Content(heap)
    BY <2>1 DEF HeapInv, PQ!Content
  <2>. QED
    BY <1>8, <2>1, <2>2 DEF Restored, PQ!Abstract!Throw, S
<1>11. CASE /\ ~r.threw /\ r.size = n
            /\ HeapArray(r.items, n, n) /\ Rearranged(items, r.items, n) /\ OrderedFrom(r.items, 0, n)
  <2>. DEFINE new == r.items
  <2>1. heap' = [items |-> new, size |-> n] /\ hOut' = Undef /\ Undef # Threw
    BY <1>2, <1>11 DEF HeapAssumption
  <2>2. HeapArray(new, n, n) /\ Distinct(new, n) /\ OrderedFrom(new, 0, n) /\ Elements(new, n) = S
    BY <1>6, <1>7, <1>11 DEF Rearranged
  <2>. HIDE DEF new
  <2>3. HeapOf(new, n, n)
    <3>1. \A i \in 0..(n - 1) : ~ (i >= n)
      BY <1>1
    <3>. QED
      BY <2>2, <3>1 DEF HeapOf
  <2>4. HeapInv'
    BY <1>1, <2>1, <2>3 DEF HeapInv
  <2>5. PQ!Content(heap)' = S
    BY <2>1, <2>2 DEF PQ!Content, Elements
  <2>. QED
    BY <1>8, <2>1, <2>4, <2>5 DEF PQ!Abstract!Replace, Restored, S
<1>. QED
  BY <1>9, <1>10, <1>11

LEMMA HeapStep ==
  ASSUME HeapAssumption, HeapInv, [PQ!Next]_PQ!hVars
  PROVE  HeapInv' /\ [PQ!Abstract!Next]_<<PQ!Content(heap), hOut>> /\ [PQ!EachCall]_PQ!hVars
<1>1. \A fuel \in PQ!Fuel : fuel \in Nat
  BY DEF PQ!Fuel, HeapAssumption
<1>2. \A e \in Offered : e \in Elem
  BY DEF HeapAssumption
<1>3. ASSUME NEW e \in Offered, NEW fuel \in PQ!Fuel, PQ!Push(e, fuel)
      PROVE  HeapInv' /\ Restored /\ (PQ!Abstract!Push(e) \/ PQ!Abstract!Throw)
  BY <1>1, <1>2, <1>3, PushHeapStep
<1>4. ASSUME PQ!PopEmpty \/ PQ!PopLast  PROVE HeapInv' /\ Restored /\ PQ!Abstract!Pop
  BY <1>4, PopFewStep
<1>5. ASSUME NEW fuel \in PQ!Fuel, PQ!PopMany(fuel)
      PROVE  HeapInv' /\ Restored /\ (PQ!Abstract!Pop \/ PQ!Abstract!Throw)
  BY <1>1, <1>5, PopManyStep
<1>6. ASSUME NEW seq \in Inputs, NEW fuel \in PQ!Fuel, PQ!Heapify(seq, fuel)
      PROVE  HeapInv' /\ Restored /\ (PQ!Abstract!Replace({seq[i] : i \in DOMAIN seq}) \/ PQ!Abstract!Throw)
             /\ {seq[i] : i \in DOMAIN seq} \subseteq Elem
  BY <1>1, <1>6, HeapifyStep
<1>7. CASE UNCHANGED PQ!hVars
  <2>1. heap' = heap /\ hOut' = hOut
    BY <1>7 DEF PQ!hVars
  <2>. QED
    BY <1>7, <2>1 DEF HeapInv, PQ!Content
<1>8. CASE PQ!Next
  <2>1. HeapInv' /\ Restored
    BY <1>3, <1>4, <1>5, <1>6, <1>8 DEF PQ!Next
  <2>2. PQ!Abstract!Next
    <3>1. CASE \E e \in Offered, fuel \in PQ!Fuel : PQ!Push(e, fuel)
      <4>1. PICK e \in Offered, fuel \in PQ!Fuel : PQ!Push(e, fuel)
        BY <3>1
      <4>. QED
        BY <1>2, <1>3, <4>1 DEF PQ!Abstract!Next
    <3>2. CASE PQ!PopEmpty \/ PQ!PopLast
      BY <1>4, <3>2 DEF PQ!Abstract!Next
    <3>3. CASE \E fuel \in PQ!Fuel : PQ!PopMany(fuel)
      <4>1. PICK fuel \in PQ!Fuel : PQ!PopMany(fuel)
        BY <3>3
      <4>. QED
        BY <1>5, <4>1 DEF PQ!Abstract!Next
    <3>4. CASE \E seq \in Inputs, fuel \in PQ!Fuel : PQ!Heapify(seq, fuel)
      <4>1. PICK seq \in Inputs, fuel \in PQ!Fuel : PQ!Heapify(seq, fuel)
        BY <3>4
      <4>2. CASE PQ!Abstract!Throw
        BY <4>2 DEF PQ!Abstract!Next
      <4>3. CASE PQ!Abstract!Replace({seq[i] : i \in DOMAIN seq})
        <5>1. PQ!Content(heap)' = {seq[i] : i \in DOMAIN seq} /\ hOut' = Undef
          BY <4>3 DEF PQ!Abstract!Replace
        <5>2. {seq[i] : i \in DOMAIN seq} \subseteq Elem
          BY <1>6, <4>1
        <5>. QED
          BY <5>1, <5>2 DEF PQ!Abstract!Next, PQ!Abstract!Replace
      <4>. QED
        BY <1>6, <4>1, <4>2, <4>3
    <3>. QED
      BY <1>8, <3>1, <3>2, <3>3, <3>4 DEF PQ!Next
  <2>3. PQ!EachCall
    <3>1. ASSUME NEW fuel \in PQ!Fuel
          PROVE  /\ \A e \in Offered : PQ!Push(e, fuel) => PQ!Abstract!Push(e) \/ PQ!Abstract!Throw
                 /\ PQ!PopMany(fuel) => PQ!Abstract!Pop \/ PQ!Abstract!Throw
                 /\ \A seq \in Inputs :
                      PQ!Heapify(seq, fuel) => PQ!Abstract!Replace({seq[i] : i \in DOMAIN seq}) \/ PQ!Abstract!Throw
      BY <1>3, <1>5, <1>6
    <3>2. PQ!PopEmpty \/ PQ!PopLast => PQ!Abstract!Pop
      BY <1>4
    <3>3. hOut' = Threw => /\ heap'.size = heap.size
                           /\ \A i \in 0..(heap.size - 1) : heap'.items[i] = heap.items[i]
      BY <2>1 DEF Restored
    <3>. QED
      BY <3>1, <3>2, <3>3 DEF PQ!EachCall
  <2>. QED
    BY <2>1, <2>2, <2>3
<1>. QED
  BY <1>7, <1>8

LEMMA HeapBegins ==
  ASSUME HeapAssumption, PQ!Init
  PROVE  HeapInv /\ PQ!Abstract!Init
<1>1. heap = [items |-> << >>, size |-> 0] /\ hOut = Undef
  BY DEF PQ!Init
<1>2. HeapOf(<< >>, 0, 0)
  <2>1. << >> \in [0..(0 - 1) -> Held]
    OBVIOUS
  <2>2. HeapArray(<< >>, 0, 0)
    BY <2>1 DEF HeapArray
  <2>. QED
    BY <2>2 DEF HeapOf, Distinct, OrderedFrom
<1>3. HeapInv
  BY <1>1, <1>2 DEF HeapInv
<1>4. PQ!Content(heap) = {}
  BY <1>1 DEF PQ!Content
<1>. QED
  BY <1>1, <1>3, <1>4 DEF PQ!Abstract!Init

(***************************************************************************)
(* Whatever calls are made of PriorityQueue.ts, and whichever comparison a *)
(* comparator throws in: some array is behind the heap, of any length, in  *)
(* whose first places the elements are, each once and in heap order, and   *)
(* whose other places are empty.                                           *)
(***************************************************************************)
THEOREM HeapInvariant ==
  ASSUME HeapAssumption
  PROVE  PQ!Spec => []HeapInv
<1>1. PQ!Init => HeapInv
  BY HeapBegins
<1>2. HeapInv /\ [PQ!Next]_PQ!hVars => HeapInv'
  BY HeapStep
<1>. QED
  BY <1>1, <1>2, PTL DEF PQ!Spec

(***************************************************************************)
(* The heap of PriorityQueue.ts is a bag from which the least element is   *)
(* taken: push, pop and heapify do to its elements what the bag's          *)
(* operations do, and a call whose comparator throws does nothing at all,  *)
(* since the moves of the interrupted sift are undone.                     *)
(***************************************************************************)
THEOREM HeapIsPriorityBag ==
  ASSUME HeapAssumption
  PROVE  PQ!Spec => PQ!IsPriorityBag
<1>1. PQ!Init => PQ!Abstract!Init
  BY HeapBegins
<1>2. HeapInv /\ [PQ!Next]_PQ!hVars =>
        [PQ!Abstract!Next]_<<PQ!Content(heap), hOut>> /\ [PQ!EachCall]_PQ!hVars
  BY HeapStep
<1>. QED
  BY <1>1, <1>2, HeapInvariant, PTL DEF PQ!Spec, PQ!IsPriorityBag, PQ!Abstract!Spec

LEMMA HeapIsSound ==
  ASSUME HeapAssumption, HeapInv
  PROVE  PQ!HeapSound
<1>. DEFINE n == heap.size
            items == heap.items
<1>1. PICK len \in Nat : HeapOf(items, len, n)
  BY DEF HeapInv
<1>2. /\ n \in Nat /\ n \in 0..len /\ items \in [0..(len - 1) -> Held]
      /\ \A i \in 0..(n - 1) : items[i] \in Elem
      /\ Distinct(items, n) /\ \A i \in 1..(n - 1) : InOrder(items, i)
      /\ \A i \in 0..(len - 1) : i >= n => items[i] = Undef
  BY <1>1, OrderIs DEF HeapOf, HeapArray
<1>3. \A i \in 1..(n - 1) : ~ (Rank(items[i]) < Rank(items[PQ!Parent(i)]))
  BY <1>2 DEF InOrder
<1>4. Cardinality(PQ!Content(heap)) = n
  <2>. DEFINE f == [i \in 0..(n - 1) |-> items[i]]
  <2>1. f \in Bijection(0..(n - 1), PQ!Content(heap))
    BY <1>2 DEF Bijection, Injection, Surjection, PQ!Content, Distinct, IsInjective
  <2>2. IsFiniteSet(0..(n - 1)) /\ Cardinality(0..(n - 1)) = n
    <3>. HIDE DEF n
    <3>0. n - 1 \in Int /\ n \in Nat
      BY <1>2
    <3>1. Cardinality(0..(n - 1)) = IF 0 > n - 1 THEN 0 ELSE (n - 1) - 0 + 1
      BY <3>0, FS_Interval
    <3>2. IsFiniteSet(0..(n - 1))
      BY <3>0, FS_Interval
    <3>. QED
      BY <3>0, <3>1, <3>2
  <2>3. ExistsBijection(0..(n - 1), PQ!Content(heap))
    BY <2>1 DEF ExistsBijection
  <2>. QED
    BY <2>2, <2>3, FS_Bijection, FS_SameCardinalityBij
<1>5. \A i \in DOMAIN items : items[i] = Undef <=> i >= n
  <2>1. DOMAIN items = 0..(len - 1)
    BY <1>2
  <2>2. ASSUME NEW i \in 0..(len - 1), ~ (i >= n)  PROVE items[i] # Undef
    <3>1. i \in 0..(n - 1)
      BY <1>2, <2>2
    <3>. QED
      BY <1>2, <3>1 DEF HeapAssumption
  <2>. QED
    BY <1>2, <2>1, <2>2
<1>6. PQ!Peek(heap) \in PQ!Abstract!Least(PQ!Content(heap)) \cup {Undef}
  <2>1. CASE n = 0
    BY <2>1 DEF PQ!Peek
  <2>2. CASE n # 0
    <3>1. PQ!Peek(heap) = items[0] /\ 0 \in 0..(n - 1)
      BY <1>2, <2>2 DEF PQ!Peek
    <3>2. \A i \in 0..(n - 1) : ~ (Rank(items[i]) < Rank(items[0]))
      BY <1>1, RootIs
    <3>. QED
      BY <3>1, <3>2 DEF PQ!Abstract!Least, PQ!Content
  <2>. QED
    BY <2>1, <2>2
<1>. QED
  BY HeapSizes, <1>3, <1>4, <1>5, <1>6 DEF PQ!HeapSound

(***************************************************************************)
(* What the next push or pop of PriorityQueue.ts relies on: heap order, no *)
(* element twice, no reference above the heap, a least element at the top. *)
(***************************************************************************)
THEOREM HeapStaysSound ==
  ASSUME HeapAssumption
  PROVE  PQ!Spec => []PQ!HeapSound
<1>1. HeapInv => PQ!HeapSound
  BY HeapIsSound
<1>. QED
  BY <1>1, HeapInvariant, PTL

-----------------------------------------------------------------------------
(* BitSet: words as sets of indices. *)

\* Division by the width of a word: the quotient and the rest determine the number.
LEMMA Packed ==
  ASSUME BitsAssumption, NEW i \in Nat
  PROVE  /\ i \div WORD \in Nat /\ i % WORD \in BS!Bits
         /\ i = (i \div WORD) * WORD + (i % WORD)
<1>1. i \div WORD \in Int /\ i % WORD \in 0..(WORD - 1) /\ i = WORD * (i \div WORD) + (i % WORD)
  BY DEF BitsAssumption
<1>2. i \div WORD >= 0
  BY DEF BitsAssumption
<1>. QED
  BY <1>1, <1>2 DEF BS!Bits, BitsAssumption

LEMMA Unique ==
  ASSUME NEW n \in Nat, n > 0, NEW w \in Int, NEW b \in 0..(n - 1), NEW x \in Int, NEW c \in 0..(n - 1),
         w * n + b = x * n + c
  PROVE  w = x /\ b = c
<1>1. CASE w < x
  <2>1. w + 1 <= x
    BY <1>1
  <2>2. (w + 1) * n <= x * n
    BY <2>1
  <2>3. (w + 1) * n = w * n + n
    OBVIOUS
  <2>. QED
    BY <2>2, <2>3
<1>2. CASE x < w
  <2>1. x + 1 <= w
    BY <1>2
  <2>2. (x + 1) * n <= w * n
    BY <2>1
  <2>3. (x + 1) * n = x * n + n
    OBVIOUS
  <2>. QED
    BY <2>2, <2>3
<1>3. CASE w = x
  BY <1>3
<1>. QED
  BY <1>1, <1>2, <1>3

LEMMA Unpacked ==
  ASSUME BitsAssumption, NEW w \in Nat, NEW b \in BS!Bits
  PROVE  /\ w * WORD + b \in Nat /\ (w * WORD + b) \div WORD = w /\ (w * WORD + b) % WORD = b
<1>. DEFINE i == w * WORD + b
<1>1. i \in Nat /\ b \in 0..(WORD - 1) /\ WORD \in Nat /\ WORD > 0
  BY DEF BS!Bits, BitsAssumption
<1>2. i \div WORD \in Nat /\ i % WORD \in 0..(WORD - 1) /\ i = (i \div WORD) * WORD + (i % WORD)
  BY <1>1, Packed DEF BS!Bits
<1>. DEFINE q == i \div WORD
            r == i % WORD
<1>3. w * WORD + b = q * WORD + r
  BY <1>2
<1>4. q \in Nat /\ r \in 0..(WORD - 1)
  BY <1>2
<1>. HIDE DEF q, r
<1>5. w = q /\ b = r
  BY <1>1, <1>3, <1>4, Unique
<1>. QED
  BY <1>1, <1>5 DEF q, r

\* The last word is the one of the last index, and its mask has the bits below the capacity.
LEMMA Geometry ==
  ASSUME BitsAssumption, bitLen \in Capacities
  PROVE  /\ BS!LastWord \in Nat /\ BS!LastMask \subseteq BS!Bits
         /\ \A i \in BS!Indices : i \div WORD \in BS!Words
         /\ \A w \in BS!Words, b \in BS!Bits :
              w * WORD + b \in BS!Indices <=> (w = BS!LastWord => b \in BS!LastMask)
<1>. DEFINE r == bitLen % WORD
            q == bitLen \div WORD
<1>1. bitLen \in Nat /\ bitLen >= 1 /\ WORD \in Nat /\ WORD > 0
  BY DEF BitsAssumption
<1>2. q \in Nat /\ r \in 0..(WORD - 1) /\ bitLen = q * WORD + r
  BY <1>1, Packed DEF BS!Bits
<1>3. BS!LastMask = IF r = 0 THEN BS!Bits ELSE 0..(r - 1)
  BY DEF BS!LastMask
<1>4. BS!LastWord = IF r = 0 THEN q - 1 ELSE q
  <2>. DEFINE n == bitLen + WORD - 1
  <2>1. n \in Nat /\ BS!LastWord = (n \div WORD) - 1
    BY <1>1 DEF BS!LastWord
  <2>2. n \div WORD \in Nat /\ n % WORD \in 0..(WORD - 1) /\ n = (n \div WORD) * WORD + (n % WORD)
    BY <2>1, Packed DEF BS!Bits
  <2>. DEFINE d == n \div WORD
              c == n % WORD
  <2>3. d * WORD + c = q * WORD + r + WORD - 1
    BY <1>1, <1>2, <2>2
  <2>4. d \in Int /\ c \in 0..(WORD - 1)
    BY <2>2
  <2>. HIDE DEF d, c, q, r
  <2>5. (q + 1) * WORD = q * WORD + WORD
    BY <1>1, <1>2
  <2>6. CASE r = 0
    <3>1. d * WORD + c = q * WORD + (WORD - 1) /\ WORD - 1 \in 0..(WORD - 1)
      BY <1>1, <1>2, <2>3, <2>4, <2>6
    <3>2. d = q
      BY <1>1, <1>2, <2>4, <3>1, Unique
    <3>. QED
      BY <2>1, <2>6, <3>2 DEF d
  <2>7. CASE r # 0
    <3>1. d * WORD + c = (q + 1) * WORD + (r - 1) /\ r - 1 \in 0..(WORD - 1) /\ q + 1 \in Int
      BY <1>1, <1>2, <2>3, <2>4, <2>5, <2>7
    <3>2. d = q + 1
      BY <1>1, <2>4, <3>1, Unique
    <3>. QED
      BY <1>2, <2>1, <2>7, <3>2 DEF d
  <2>. QED
    BY <2>6, <2>7
<1>. HIDE DEF q, r
<1>5. BS!LastWord \in Nat
  <2>1. CASE r = 0
    <3>1. q # 0
      BY <1>1, <1>2, <2>1
    <3>. QED
      BY <1>2, <1>4, <2>1, <3>1
  <2>. QED
    BY <1>2, <1>4, <2>1
<1>6. BS!LastMask \subseteq BS!Bits
  BY <1>1, <1>2, <1>3 DEF BS!Bits
<1>. DEFINE last == BS!LastWord
<1>7. last \in Nat /\ BS!Words = 0..last /\ last = (IF r = 0 THEN q - 1 ELSE q)
  BY <1>4, <1>5 DEF BS!Words
<1>8. ASSUME NEW w \in BS!Words, NEW b \in BS!Bits
      PROVE  w * WORD + b \in BS!Indices <=> (w = BS!LastWord => b \in BS!LastMask)
  <2>1. w \in Nat /\ w <= last /\ b \in 0..(WORD - 1) /\ w * WORD + b \in Nat
    BY <1>1, <1>7, <1>8 DEF BS!Bits
  <2>2. w * WORD + b \in BS!Indices <=> w * WORD + b < q * WORD + r
    BY <1>1, <1>2, <2>1 DEF BS!Indices
  <2>. HIDE DEF last
  <2>3. CASE w + 1 <= q
    <3>1. (w + 1) * WORD <= q * WORD
      BY <1>1, <1>2, <2>1, <2>3
    <3>2. (w + 1) * WORD = w * WORD + WORD
      BY <1>1, <2>1
    <3>3. w * WORD + b < q * WORD + r
      BY <1>1, <1>2, <2>1, <3>1, <3>2
    <3>4. w = last => b \in BS!LastMask
      <4>1. w = last => r = 0
        BY <1>2, <1>7, <2>1, <2>3
      <4>. QED
        BY <1>3, <1>8, <4>1
    <3>. QED
      BY <2>2, <3>3, <3>4 DEF last
  <2>4. CASE ~ (w + 1 <= q)
    <3>1. w = q /\ w = last /\ r # 0
      BY <1>2, <1>7, <2>1, <2>4
    <3>2. w * WORD + b < q * WORD + r <=> b < r
      BY <1>1, <1>2, <2>1, <3>1
    <3>3. b \in BS!LastMask <=> b < r
      BY <1>2, <1>3, <2>1, <3>1
    <3>. QED
      BY <2>2, <3>1, <3>2, <3>3 DEF last
  <2>. QED
    BY <2>3, <2>4
<1>9. ASSUME NEW i \in BS!Indices  PROVE i \div WORD \in BS!Words
  <2>1. i \in Nat /\ i < q * WORD + r
    BY <1>1, <1>2 DEF BS!Indices
  <2>2. i \div WORD \in Nat /\ i % WORD \in 0..(WORD - 1) /\ i = (i \div WORD) * WORD + (i % WORD)
    BY <2>1, Packed DEF BS!Bits
  <2>. DEFINE w == i \div WORD
              b == i % WORD
  <2>3. w \in Nat /\ b \in 0..(WORD - 1) /\ w * WORD + b < q * WORD + r
    BY <2>1, <2>2
  <2>. HIDE DEF w, b, last
  <2>4. w <= last
    <3>. SUFFICES ASSUME ~ (w <= last) PROVE FALSE
      OBVIOUS
    <3>1. last + 1 <= w
      BY <1>7, <2>3
    <3>2. (last + 1) * WORD <= w * WORD
      BY <1>1, <1>7, <2>3, <3>1
    <3>3. (last + 1) * WORD = last * WORD + WORD
      BY <1>1, <1>7
    <3>4. CASE r = 0
      <4>1. last + 1 = q
        BY <1>2, <1>7, <3>4
      <4>. QED
        BY <1>1, <1>2, <2>3, <3>2, <3>4, <4>1
    <3>5. CASE r # 0
      <4>1. last = q
        BY <1>7, <3>5
      <4>. QED
        BY <1>1, <1>2, <2>3, <3>2, <3>3, <4>1
    <3>. QED
      BY <3>4, <3>5
  <2>. QED
    BY <1>7, <2>3, <2>4 DEF w
<1>. QED
  BY <1>5, <1>6, <1>8, <1>9

LEMMA WordSizes ==
  ASSUME NEW S
  PROVE  BS!Cardinality(S) = Cardinality(S)
BY DEF BS!Cardinality, Cardinality

\* Words of which the last has no bit beyond the capacity.
InUse(s) == s \in [BS!Words -> SUBSET BS!Bits] /\ s[BS!LastWord] \subseteq BS!LastMask

LEMMA Members ==
  ASSUME BitsAssumption, bitLen \in Capacities, NEW s, InUse(s)
  PROVE  /\ \A w \in BS!Words : BS!Masked(s, w) = s[w] /\ s[w] \subseteq BS!Bits
         /\ BS!ToSet(s) \subseteq BS!Indices
         /\ \A i \in BS!Indices : /\ i \div WORD \in BS!Words /\ i % WORD \in BS!Bits
                                  /\ i \in BS!ToSet(s) <=> BS!Has(s, i)
<1>1. \A w \in BS!Words : BS!Masked(s, w) = s[w] /\ s[w] \subseteq BS!Bits
  BY DEF InUse, BS!Masked
<1>2. BS!LastWord \in Nat /\ BS!Words \subseteq Nat /\ BS!Indices \subseteq Nat
  BY Geometry DEF BS!Words, BS!Indices, BitsAssumption
<1>3. \A w \in BS!Words : \A b \in s[w] : w * WORD + b \in BS!Indices
  BY <1>1, Geometry DEF InUse
<1>4. \A i \in BS!ToSet(s) : \E w \in BS!Words : \E b \in s[w] : i = w * WORD + b
  BY <1>1 DEF BS!ToSet
<1>5. ASSUME NEW i \in BS!Indices
      PROVE  /\ i \div WORD \in BS!Words /\ i % WORD \in BS!Bits
             /\ i \in BS!ToSet(s) <=> BS!Has(s, i)
  <2>1. i \div WORD \in BS!Words /\ i % WORD \in BS!Bits /\ i = (i \div WORD) * WORD + (i % WORD)
    BY <1>2, Geometry, Packed
  <2>2. ASSUME BS!Has(s, i)  PROVE i \in BS!ToSet(s)
    <3>1. i % WORD \in BS!Masked(s, i \div WORD)
      BY <1>1, <2>1, <2>2 DEF BS!Has
    <3>2. i \in {(i \div WORD) * WORD + b : b \in BS!Masked(s, i \div WORD)}
      BY <2>1, <3>1
    <3>. QED
      BY <2>1, <3>2 DEF BS!ToSet
  <2>3. ASSUME i \in BS!ToSet(s)  PROVE BS!Has(s, i)
    <3>1. PICK w \in BS!Words : \E b \in s[w] : i = w * WORD + b
      BY <1>4, <2>3
    <3>2. PICK b \in s[w] : i = w * WORD + b
      BY <3>1
    <3>3. w \in Nat /\ b \in BS!Bits
      BY <1>1, <1>2
    <3>4. i \div WORD = w /\ i % WORD = b
      BY <3>2, <3>3, Unpacked
    <3>. QED
      BY <3>4 DEF BS!Has
  <2>. QED
    BY <2>1, <2>2, <2>3
<1>6. BS!ToSet(s) \subseteq BS!Indices
  BY <1>3, <1>4
<1>. QED
  BY <1>1, <1>5, <1>6

\* Two indices at the same place are one.
LEMMA SamePlace ==
  ASSUME BitsAssumption, NEW i \in Nat, NEW j \in Nat, i \div WORD = j \div WORD, i % WORD = j % WORD
  PROVE  i = j
<1>1. i = (i \div WORD) * WORD + (i % WORD) /\ j = (j \div WORD) * WORD + (j % WORD)
  BY Packed
<1>. QED
  BY <1>1

\* What the changes and the algebra do to words in use, index by index.
LEMMA ChangedIs ==
  ASSUME BitsAssumption, bitLen \in Capacities, NEW s, InUse(s), NEW i \in BS!Indices
  PROVE  /\ InUse(BS!SetBit(s, i)) /\ InUse(BS!ClearBit(s, i)) /\ InUse(BS!ToggleBit(s, i))
         /\ \A j \in BS!Indices : /\ BS!Has(BS!SetBit(s, i), j) <=> BS!Has(s, j) \/ j = i
                                  /\ BS!Has(BS!ClearBit(s, i), j) <=> BS!Has(s, j) /\ j # i
                                  /\ BS!Has(BS!ToggleBit(s, i), j) <=> (IF j = i THEN ~ BS!Has(s, j) ELSE BS!Has(s, j))
<1>. DEFINE w == i \div WORD
            b == i % WORD
            up == BS!SetBit(s, i)
            down == BS!ClearBit(s, i)
<1>1. w \in BS!Words /\ b \in BS!Bits /\ i \in Nat /\ BS!LastWord \in BS!Words
  <2>1. w \in BS!Words /\ b \in BS!Bits /\ BS!LastWord \in Nat
    BY Members, Geometry
  <2>2. i \in Nat
    BY DEF BS!Indices, BitsAssumption
  <2>. QED
    BY <2>1, <2>2 DEF BS!Words
<1>2. w = BS!LastWord => b \in BS!LastMask
  <2>1. w * WORD + b = i
    BY <1>1, Packed
  <2>. HIDE DEF w, b
  <2>. QED
    BY <1>1, <2>1, Geometry
<1>3. /\ up \in [BS!Words -> SUBSET BS!Bits] /\ down \in [BS!Words -> SUBSET BS!Bits]
      /\ \A x \in BS!Words : /\ up[x] = IF x = w THEN s[x] \cup {b} ELSE s[x]
                             /\ down[x] = IF x = w THEN s[x] \ {b} ELSE s[x]
  <2>1. s \in [BS!Words -> SUBSET BS!Bits]
    BY DEF InUse
  <2>2. up = [s EXCEPT ![w] = s[w] \cup {b}] /\ down = [s EXCEPT ![w] = s[w] \ {b}]
    BY DEF BS!SetBit, BS!ClearBit
  <2>. HIDE DEF w, b, up, down
  <2>3. s[w] \cup {b} \in SUBSET BS!Bits /\ s[w] \ {b} \in SUBSET BS!Bits
    BY <1>1, <2>1
  <2>. QED
    BY <1>1, <2>1, <2>2, <2>3
<1>4. InUse(up) /\ InUse(down)
  <2>1. s[BS!LastWord] \subseteq BS!LastMask
    BY DEF InUse
  <2>. HIDE DEF w, b, up, down
  <2>2. up[BS!LastWord] \subseteq BS!LastMask /\ down[BS!LastWord] \subseteq BS!LastMask
    BY <1>1, <1>2, <1>3, <2>1
  <2>. QED
    BY <1>3, <2>2 DEF InUse
<1>5. InUse(BS!ToggleBit(s, i))
  BY <1>4 DEF BS!ToggleBit
<1>6. ASSUME NEW j \in BS!Indices
      PROVE  /\ BS!Has(up, j) <=> BS!Has(s, j) \/ j = i
             /\ BS!Has(down, j) <=> BS!Has(s, j) /\ j # i
             /\ BS!Has(BS!ToggleBit(s, i), j) <=> (IF j = i THEN ~ BS!Has(s, j) ELSE BS!Has(s, j))
  <2>. DEFINE x == j \div WORD
              c == j % WORD
  <2>1. x \in BS!Words /\ c \in BS!Bits /\ j \in Nat
    BY Members DEF BS!Indices, BitsAssumption
  <2>2. x = w /\ c = b <=> j = i
    BY <1>1, <2>1, SamePlace
  <2>3. (BS!Has(up, j) <=> c \in up[x]) /\ (BS!Has(down, j) <=> c \in down[x]) /\ (BS!Has(s, j) <=> c \in s[x])
    BY DEF BS!Has
  <2>. HIDE DEF x, c, w, b, up, down
  <2>4. BS!Has(up, j) <=> BS!Has(s, j) \/ j = i
    BY <1>3, <2>1, <2>2, <2>3
  <2>5. BS!Has(down, j) <=> BS!Has(s, j) /\ j # i
    BY <1>3, <2>1, <2>2, <2>3
  <2>6. BS!ToggleBit(s, i) = IF BS!Has(s, i) THEN down ELSE up
    BY DEF BS!ToggleBit, up, down
  <2>7. BS!Has(BS!ToggleBit(s, i), j) <=> (IF j = i THEN ~ BS!Has(s, j) ELSE BS!Has(s, j))
    <3>1. CASE BS!Has(s, i) /\ j = i
      BY <2>5, <2>6, <3>1
    <3>2. CASE BS!Has(s, i) /\ j # i
      BY <2>5, <2>6, <3>2
    <3>3. CASE ~ BS!Has(s, i) /\ j = i
      BY <2>4, <2>6, <3>3
    <3>4. CASE ~ BS!Has(s, i) /\ j # i
      BY <2>4, <2>6, <3>4
    <3>. QED
      BY <3>1, <3>2, <3>3, <3>4
  <2>. QED
    BY <2>4, <2>5, <2>7
<1>. QED
  BY <1>4, <1>5, <1>6

LEMMA CombinedIs ==
  ASSUME BitsAssumption, bitLen \in Capacities, NEW s, InUse(s), NEW t, InUse(t)
  PROVE  /\ InUse(BS!And(s, t)) /\ InUse(BS!Or(s, t)) /\ InUse(BS!Xor(s, t)) /\ InUse(BS!Not(s))
         /\ \A j \in BS!Indices : /\ BS!Has(BS!And(s, t), j) <=> BS!Has(s, j) /\ BS!Has(t, j)
                                  /\ BS!Has(BS!Or(s, t), j) <=> BS!Has(s, j) \/ BS!Has(t, j)
                                  /\ BS!Has(BS!Xor(s, t), j) <=> ~ (BS!Has(s, j) <=> BS!Has(t, j))
                                  /\ BS!Has(BS!Not(s), j) <=> ~ BS!Has(s, j)
<1>1. BS!LastWord \in BS!Words
  BY Geometry DEF BS!Words
<1>2. /\ s \in [BS!Words -> SUBSET BS!Bits] /\ s[BS!LastWord] \subseteq BS!LastMask
      /\ t \in [BS!Words -> SUBSET BS!Bits] /\ t[BS!LastWord] \subseteq BS!LastMask
  BY DEF InUse
<1>3. InUse(BS!And(s, t))
  BY <1>1, <1>2 DEF InUse, BS!And
<1>4. InUse(BS!Or(s, t))
  BY <1>1, <1>2 DEF InUse, BS!Or
<1>5. InUse(BS!Xor(s, t))
  BY <1>1, <1>2 DEF InUse, BS!Xor
<1>6. InUse(BS!Not(s))
  BY <1>1, <1>2 DEF InUse, BS!Not
<1>7. ASSUME NEW j \in BS!Indices
      PROVE  /\ BS!Has(BS!And(s, t), j) <=> BS!Has(s, j) /\ BS!Has(t, j)
             /\ BS!Has(BS!Or(s, t), j) <=> BS!Has(s, j) \/ BS!Has(t, j)
             /\ BS!Has(BS!Xor(s, t), j) <=> ~ (BS!Has(s, j) <=> BS!Has(t, j))
             /\ BS!Has(BS!Not(s), j) <=> ~ BS!Has(s, j)
  <2>. DEFINE w == j \div WORD
              b == j % WORD
  <2>1. w \in BS!Words /\ b \in BS!Bits /\ j \in Nat
    BY Members DEF BS!Indices, BitsAssumption
  <2>2. \A r : BS!Has(r, j) <=> b \in r[w]
    BY DEF BS!Has
  <2>3. w = BS!LastWord => b \in BS!LastMask
    <3>1. w * WORD + b = j
      BY <2>1, Packed
    <3>. HIDE DEF w, b
    <3>. QED
      BY <2>1, <3>1, Geometry
  <2>. HIDE DEF w, b
  <2>4. /\ BS!And(s, t)[w] = s[w] \cap t[w] /\ BS!Or(s, t)[w] = s[w] \cup t[w]
        /\ BS!Xor(s, t)[w] = (s[w] \ t[w]) \cup (t[w] \ s[w])
    BY <2>1 DEF BS!And, BS!Or, BS!Xor
  <2>5. BS!Not(s)[w] = IF w = BS!LastWord THEN (BS!Bits \ s[w]) \cap BS!LastMask ELSE BS!Bits \ s[w]
    BY <2>1 DEF BS!Not
  <2>6. BS!Has(BS!Not(s), j) <=> ~ BS!Has(s, j)
    BY <2>1, <2>2, <2>3, <2>5
  <2>. QED
    BY <2>2, <2>4, <2>6
<1>. QED
  BY <1>3, <1>4, <1>5, <1>6, <1>7

\* The indices in the first n words, counted word by word.
Below(s, n) == UNION {{w * WORD + b : b \in s[w]} : w \in 0..(n - 1)}

LEMMA BelowGrows ==
  ASSUME BitsAssumption, bitLen \in Capacities, NEW s, InUse(s), NEW n \in 1..(BS!LastWord + 1),
         IsFiniteSet(Below(s, n - 1))
  PROVE  /\ IsFiniteSet(Below(s, n)) /\ Cardinality(s[n - 1]) \in Nat
         /\ Cardinality(Below(s, n)) = Cardinality(Below(s, n - 1)) + Cardinality(s[n - 1])
<1>. DEFINE w == n - 1
            New == {w * WORD + b : b \in s[w]}
            Old == Below(s, w)
            f == [b \in s[w] |-> w * WORD + b]
<1>1. BS!LastWord \in Nat /\ w \in BS!Words /\ w \in Nat /\ \A x \in 0..w : x \in BS!Words /\ x \in Nat
  BY Geometry DEF BS!Words
<1>2. \A x \in 0..w : s[x] \subseteq BS!Bits
  BY <1>1, Members
<1>3. Below(s, n) = Old \cup New
  <2>1. 0..(n - 1) = 0..(w - 1) \cup {w}
    BY <1>1
  <2>. HIDE DEF w
  <2>. QED
    BY <2>1 DEF Below
<1>4. \A x \in 0..w : \A b \in s[x] : /\ x * WORD + b \in Nat
                                     /\ (x * WORD + b) \div WORD = x /\ (x * WORD + b) % WORD = b
  BY <1>1, <1>2, Unpacked
<1>5. Old \cap New = {}
  <2>1. ASSUME NEW x \in 0..(w - 1), NEW b \in s[x]  PROVE (x * WORD + b) \div WORD # w
    <3>1. x \in 0..w /\ x # w
      BY <1>1
    <3>. QED
      BY <1>4, <3>1
  <2>2. ASSUME NEW b \in s[w]  PROVE (w * WORD + b) \div WORD = w
    BY <1>1, <1>4
  <2>. HIDE DEF w
  <2>3. \A i \in Old : \E x \in 0..(w - 1) : \E b \in s[x] : i = x * WORD + b
    BY DEF Below
  <2>. QED
    BY <2>1, <2>2, <2>3
<1>6. IsFiniteSet(s[w]) /\ Cardinality(s[w]) \in Nat
  <2>1. IsFiniteSet(0..(WORD - 1)) /\ s[w] \subseteq 0..(WORD - 1)
    BY <1>1, <1>2, FS_Interval DEF BS!Bits, BitsAssumption
  <2>. HIDE DEF w
  <2>. QED
    BY <2>1, FS_Subset, FS_CardinalityType
<1>7. IsFiniteSet(New) /\ Cardinality(New) = Cardinality(s[w])
  <2>1. f \in Bijection(s[w], New)
    <3>1. \A b, c \in s[w] : w * WORD + b = w * WORD + c => b = c
      BY <1>1, <1>4
    <3>. HIDE DEF w
    <3>. QED
      BY <3>1 DEF Bijection, Injection, Surjection, IsInjective
  <2>2. ExistsBijection(s[w], New)
    BY <2>1 DEF ExistsBijection
  <2>. HIDE DEF w, New
  <2>. QED
    BY <1>6, <2>2, FS_Bijection, FS_SameCardinalityBij
<1>8. IsFiniteSet(Old) /\ Cardinality(Old) \in Nat
  BY FS_CardinalityType
<1>. HIDE DEF w, New, Old
<1>9. IsFiniteSet(Old \cup New)
  BY <1>7, <1>8, FS_Union
<1>10. Cardinality(Old \cup New) = Cardinality(Old) + Cardinality(New) - Cardinality(Old \cap New)
  BY <1>7, <1>8, FS_Union
<1>11. Cardinality(Old \cap New) = 0
  BY <1>5, FS_EmptySet
<1>12. Cardinality(Old \cup New) = Cardinality(Old) + Cardinality(s[w])
  BY <1>6, <1>7, <1>8, <1>10, <1>11
<1>. QED
  BY <1>3, <1>6, <1>9, <1>12 DEF w, Old

LEMMA PopcountIs ==
  ASSUME BitsAssumption, bitLen \in Capacities, NEW s, InUse(s)
  PROVE  BS!Popcount(s) = Cardinality(BS!ToSet(s))
<1>. DEFINE n == BS!LastWord + 1
            step == [k \in 1..n |-> [x \in Nat |-> x + BS!Cardinality(BS!Masked(s, k - 1))]]
            P(g) == g = [k \in 0..n |-> IF k = 0 THEN 0 ELSE g[k - 1] + BS!Cardinality(BS!Masked(s, k - 1))]
            F == CHOOSE g : P(g)
            Counted == {k \in 0..n : IsFiniteSet(Below(s, k)) /\ F[k] = Cardinality(Below(s, k))}
<1>1. n \in Nat /\ BS!LastWord \in Nat /\ n > 0
  BY Geometry
<1>2. \A k \in 1..n : k - 1 \in BS!Words /\ BS!Masked(s, k - 1) = s[k - 1]
  <2>1. \A k \in 1..n : k - 1 \in BS!Words
    BY <1>1 DEF BS!Words
  <2>. HIDE DEF n
  <2>. QED
    BY <2>1, Members
<1>3. \A k \in 1..n : Cardinality(s[k - 1]) \in Nat
  <2>1. IsFiniteSet(0..(WORD - 1))
    BY FS_Interval DEF BitsAssumption
  <2>. HIDE DEF n
  <2>2. \A k \in 1..n : s[k - 1] \subseteq 0..(WORD - 1)
    BY <1>2, Members DEF BS!Bits
  <2>. QED
    BY <2>1, <2>2, FS_Subset, FS_CardinalityType
<1>. HIDE DEF n
<1>4. step \in [1..n -> [Nat -> Nat]]
  BY <1>2, <1>3, WordSizes
<1>5. PICK r : Recursion(Nat, n, 0, step, r)
  <2>. HIDE DEF step
  <2>. QED
    BY <1>1, <1>4, RecursionExists
<1>6. P(r)
  <2>1. r \in [0..n -> Nat] /\ r[0] = 0 /\ \A k \in 1..n : r[k] = step[k][r[k - 1]]
    BY <1>5 DEF Recursion
  <2>2. \A k \in 1..n : k - 1 \in 0..n
    BY <1>1
  <2>3. \A k \in 1..n : r[k] = r[k - 1] + BS!Cardinality(BS!Masked(s, k - 1))
    BY <2>1, <2>2
  <2>4. \A k \in 0..n : r[k] = IF k = 0 THEN 0 ELSE r[k - 1] + BS!Cardinality(BS!Masked(s, k - 1))
    BY <2>1, <2>3
  <2>. QED
    BY <2>1, <2>4
<1>7. P(F)
  <2>. HIDE DEF P
  <2>. QED
    BY <1>6
<1>8. BS!Popcount(s) = F[n]
  BY DEF BS!Popcount, n
<1>. HIDE DEF F
<1>9. F[0] = 0 /\ \A k \in 1..n : F[k] = F[k - 1] + Cardinality(s[k - 1])
  BY <1>1, <1>2, <1>7, WordSizes
<1>10. 0 \in Counted
  <2>1. Below(s, 0) = {}
    BY DEF Below
  <2>2. IsFiniteSet(Below(s, 0)) /\ Cardinality(Below(s, 0)) = 0
    BY <2>1, FS_EmptySet
  <2>3. 0 \in 0..n /\ F[0] = 0
    BY <1>1, <1>9
  <2>. QED
    BY <2>2, <2>3
<1>11. \A k \in 1..n : k - 1 \in Counted => k \in Counted
  <2>. SUFFICES ASSUME NEW k \in 1..n, k - 1 \in Counted  PROVE k \in Counted
    OBVIOUS
  <2>1. IsFiniteSet(Below(s, k - 1)) /\ F[k - 1] = Cardinality(Below(s, k - 1))
    OBVIOUS
  <2>2. k \in 1..(BS!LastWord + 1)
    BY DEF n
  <2>3. /\ IsFiniteSet(Below(s, k))
        /\ Cardinality(Below(s, k)) = Cardinality(Below(s, k - 1)) + Cardinality(s[k - 1])
    BY <2>1, <2>2, BelowGrows
  <2>. QED
    BY <1>9, <2>1, <2>3
<1>. HIDE DEF Counted
<1>12. n \in Counted
  <2>1. \A k \in 0..n : k \in Counted
    BY <1>1, <1>10, <1>11, Reached
  <2>. QED
    BY <1>1, <2>1
<1>13. Below(s, n) = BS!ToSet(s)
  <2>1. 0..(n - 1) = BS!Words
    BY <1>1 DEF n, BS!Words
  <2>2. \A w \in BS!Words : BS!Masked(s, w) = s[w]
    BY Members
  <2>3. \A x : x \in Below(s, n) <=> \E w \in BS!Words : \E b \in s[w] : x = w * WORD + b
    <3>1. Below(s, n) = UNION {{w * WORD + b : b \in s[w]} : w \in BS!Words}
      BY <2>1 DEF Below
    <3>. QED
      BY <3>1
  <2>4. \A x : x \in BS!ToSet(s) <=> \E w \in BS!Words : \E b \in BS!Masked(s, w) : x = w * WORD + b
    BY DEF BS!ToSet
  <2>5. \A x : x \in Below(s, n) <=> x \in BS!ToSet(s)
    BY <2>2, <2>3, <2>4
  <2>. QED
    BY <2>5
<1>. QED
  BY <1>8, <1>12, <1>13 DEF Counted

\* Both sets are words in use for the capacity they were made with.
BitInv == bitLen \in Capacities /\ InUse(bitA) /\ InUse(bitB)

LEMMA BitsBegin ==
  ASSUME BitsAssumption, BS!Init
  PROVE  BitInv
<1>1. bitLen \in Capacities /\ bitA = BS!Make /\ bitB = BS!Make
  BY DEF BS!Init
<1>2. BS!LastWord \in BS!Words
  BY <1>1, Geometry DEF BS!Words
<1>3. InUse(BS!Make)
  BY <1>2 DEF InUse, BS!Make
<1>. QED
  BY <1>1, <1>3 DEF BitInv

\* The capacity stays, and with it what words in use are.
LEMMA SameWords ==
  ASSUME UNCHANGED bitLen, NEW s, InUse(s)
  PROVE  /\ InUse(s)'
         /\ BS!LastWord' = BS!LastWord /\ BS!Words' = BS!Words /\ BS!LastMask' = BS!LastMask
<1>1. BS!LastWord' = BS!LastWord
  BY DEF BS!LastWord
<1>2. BS!Words' = BS!Words /\ BS!LastMask' = BS!LastMask
  BY <1>1 DEF BS!Words, BS!LastMask
<1>. QED
  BY <1>1, <1>2 DEF InUse

LEMMA BitStep ==
  ASSUME BitsAssumption, BitInv, [BS!Next]_BS!bVars
  PROVE  BitInv'
<1>1. bitLen \in Capacities /\ InUse(bitA) /\ InUse(bitB)
  BY DEF BitInv
<1>2. ASSUME NEW s, NEW t, InUse(s), InUse(t), bitA' = s, bitB' = t, UNCHANGED bitLen
      PROVE  BitInv'
  <2>1. bitLen' = bitLen /\ BS!LastWord' = BS!LastWord /\ BS!Words' = BS!Words /\ BS!LastMask' = BS!LastMask
    BY <1>2, SameWords
  <2>. QED
    BY <1>1, <1>2, <2>1 DEF BitInv, InUse
<1>3. ASSUME NEW i, NEW words, BS!InBounds(i) => InUse(words), BS!Change(i, words)
      PROVE  BitInv'
  <2>1. CASE BS!InBounds(i)
    BY <1>1, <1>2, <1>3, <2>1 DEF BS!Change
  <2>2. CASE ~ BS!InBounds(i)
    BY <1>1, <1>2, <1>3, <2>2 DEF BS!Change
  <2>. QED
    BY <2>1, <2>2
<1>4. ASSUME NEW i \in -1..(WORD * (BS!LastWord + 1)), BS!SetAt(i) \/ BS!ClearAt(i) \/ BS!ToggleAt(i)
      PROVE  BitInv'
  <2>1. BS!InBounds(i) => i \in BS!Indices
    BY <1>1, Geometry DEF BS!InBounds, BS!Indices, BitsAssumption
  <2>2. i \in BS!Indices => /\ InUse(BS!SetBit(bitA, i)) /\ InUse(BS!ClearBit(bitA, i))
                            /\ InUse(BS!ToggleBit(bitA, i))
    BY <1>1, ChangedIs
  <2>. QED
    BY <1>3, <1>4, <2>1, <2>2 DEF BS!SetAt, BS!ClearAt, BS!ToggleAt
<1>5. ASSUME NEW words, InUse(words), BS!Combine(words)  PROVE BitInv'
  BY <1>1, <1>2, <1>5 DEF BS!Combine
<1>6. ASSUME BS!Intersect \/ BS!Unite \/ BS!Differ \/ BS!Negate  PROVE BitInv'
  BY <1>1, <1>5, <1>6, CombinedIs DEF BS!Intersect, BS!Unite, BS!Differ, BS!Negate
<1>7. ASSUME BS!Exchange  PROVE BitInv'
  BY <1>1, <1>2, <1>7 DEF BS!Exchange
<1>8. CASE UNCHANGED BS!bVars
  BY <1>1, <1>2, <1>8 DEF BS!bVars
<1>. QED
  BY <1>4, <1>6, <1>7, <1>8 DEF BS!Next

\* Sets of indices are equal when they have the same indices.
LEMMA SameIndices ==
  ASSUME BitsAssumption, bitLen \in Capacities, NEW s, InUse(s), NEW S \in SUBSET BS!Indices,
         \A j \in BS!Indices : BS!Has(s, j) <=> j \in S
  PROVE  BS!ToSet(s) = S
BY Members

LEMMA BitsCall ==
  ASSUME BitsAssumption, BitInv, [BS!Next]_BS!bVars
  PROVE  BS!EachCall
<1>. DEFINE S == BS!ToSet(bitA)
            T == BS!ToSet(bitB)
            R == BS!ToSet(bitA')
<1>1. bitLen \in Capacities /\ InUse(bitA) /\ InUse(bitB)
  BY DEF BitInv
<1>2. /\ S \subseteq BS!Indices /\ T \subseteq BS!Indices
      /\ \A j \in BS!Indices : (j \in S <=> BS!Has(bitA, j)) /\ (j \in T <=> BS!Has(bitB, j))
  BY <1>1, Members
<1>. HIDE DEF S, T, R
<1>3. ASSUME NEW i \in BS!Indices
      PROVE  /\ BS!SetAt(i) => R = S \cup {i}
             /\ BS!ClearAt(i) => R = S \ {i}
             /\ BS!ToggleAt(i) => R = (S \ {i}) \cup ({i} \ S)
  <2>1. BS!InBounds(i)
    BY <1>1 DEF BS!Indices, BS!InBounds, BitsAssumption
  <2>2. /\ InUse(BS!SetBit(bitA, i)) /\ InUse(BS!ClearBit(bitA, i)) /\ InUse(BS!ToggleBit(bitA, i))
        /\ \A j \in BS!Indices :
             /\ BS!Has(BS!SetBit(bitA, i), j) <=> BS!Has(bitA, j) \/ j = i
             /\ BS!Has(BS!ClearBit(bitA, i), j) <=> BS!Has(bitA, j) /\ j # i
             /\ BS!Has(BS!ToggleBit(bitA, i), j) <=> (IF j = i THEN ~ BS!Has(bitA, j) ELSE BS!Has(bitA, j))
    BY <1>1, ChangedIs
  <2>3. BS!ToSet(BS!SetBit(bitA, i)) = S \cup {i}
    <3>1. S \cup {i} \in SUBSET BS!Indices
      BY <1>2
    <3>2. \A j \in BS!Indices : BS!Has(BS!SetBit(bitA, i), j) <=> j \in S \cup {i}
      BY <1>2, <2>2
    <3>. QED
      BY <1>1, <2>2, <3>1, <3>2, SameIndices
  <2>4. BS!ToSet(BS!ClearBit(bitA, i)) = S \ {i}
    <3>1. S \ {i} \in SUBSET BS!Indices
      BY <1>2
    <3>2. \A j \in BS!Indices : BS!Has(BS!ClearBit(bitA, i), j) <=> j \in S \ {i}
      BY <1>2, <2>2
    <3>. QED
      BY <1>1, <2>2, <3>1, <3>2, SameIndices
  <2>5. BS!ToSet(BS!ToggleBit(bitA, i)) = (S \ {i}) \cup ({i} \ S)
    <3>1. (S \ {i}) \cup ({i} \ S) \subseteq BS!Indices
      BY <1>2
    <3>2. \A j \in BS!Indices : BS!Has(BS!ToggleBit(bitA, i), j) <=> j \in (S \ {i}) \cup ({i} \ S)
      BY <1>2, <2>2
    <3>. QED
      BY <1>1, <2>2, <3>1, <3>2, SameIndices
  <2>. QED
    BY <2>1, <2>3, <2>4, <2>5 DEF BS!SetAt, BS!ClearAt, BS!ToggleAt, BS!Change, R
<1>4. /\ InUse(BS!And(bitA, bitB)) /\ InUse(BS!Or(bitA, bitB)) /\ InUse(BS!Xor(bitA, bitB)) /\ InUse(BS!Not(bitA))
      /\ \A j \in BS!Indices : /\ BS!Has(BS!And(bitA, bitB), j) <=> BS!Has(bitA, j) /\ BS!Has(bitB, j)
                               /\ BS!Has(BS!Or(bitA, bitB), j) <=> BS!Has(bitA, j) \/ BS!Has(bitB, j)
                               /\ BS!Has(BS!Xor(bitA, bitB), j) <=> ~ (BS!Has(bitA, j) <=> BS!Has(bitB, j))
                               /\ BS!Has(BS!Not(bitA), j) <=> ~ BS!Has(bitA, j)
  BY <1>1, CombinedIs
<1>5. BS!Intersect => R = S \cap T
  <2>1. BS!ToSet(BS!And(bitA, bitB)) = S \cap T
    <3>1. S \cap T \in SUBSET BS!Indices
      BY <1>2
    <3>2. \A j \in BS!Indices : BS!Has(BS!And(bitA, bitB), j) <=> j \in S \cap T
      BY <1>2, <1>4
    <3>. QED
      BY <1>1, <1>4, <3>1, <3>2, SameIndices
  <2>. QED
    BY <2>1 DEF BS!Intersect, BS!Combine, R
<1>6. BS!Unite => R = S \cup T
  <2>1. BS!ToSet(BS!Or(bitA, bitB)) = S \cup T
    <3>1. S \cup T \in SUBSET BS!Indices
      BY <1>2
    <3>2. \A j \in BS!Indices : BS!Has(BS!Or(bitA, bitB), j) <=> j \in S \cup T
      BY <1>2, <1>4
    <3>. QED
      BY <1>1, <1>4, <3>1, <3>2, SameIndices
  <2>. QED
    BY <2>1 DEF BS!Unite, BS!Combine, R
<1>7. BS!Differ => R = (S \ T) \cup (T \ S)
  <2>1. \A j \in BS!Indices : BS!Has(BS!Xor(bitA, bitB), j) <=> j \in (S \ T) \cup (T \ S)
    BY <1>2, <1>4
  <2>2. (S \ T) \cup (T \ S) \subseteq BS!Indices
    BY <1>2
  <2>3. BS!ToSet(BS!Xor(bitA, bitB)) = (S \ T) \cup (T \ S)
    BY <1>1, <1>4, <2>1, <2>2, SameIndices
  <2>. QED
    BY <2>3 DEF BS!Differ, BS!Combine, R
<1>8. BS!Negate => R = BS!Indices \ S
  <2>1. BS!ToSet(BS!Not(bitA)) = BS!Indices \ S
    <3>1. BS!Indices \ S \in SUBSET BS!Indices
      BY <1>2
    <3>2. \A j \in BS!Indices : BS!Has(BS!Not(bitA), j) <=> j \in BS!Indices \ S
      BY <1>2, <1>4
    <3>. QED
      BY <1>1, <1>4, <3>1, <3>2, SameIndices
  <2>. QED
    BY <2>1 DEF BS!Negate, BS!Combine, R
<1>9. BS!Exchange => R = T /\ BS!ToSet(bitB') = S
  BY DEF BS!Exchange, R, S, T
<1>10. BS!bVars' # BS!bVars /\ bOut' = "RangeError" => R = S
  <2>1. \A i, words : BS!Change(i, words) /\ bOut' = "RangeError" => bitA' = bitA
    BY DEF BS!Change
  <2>2. \A words : BS!Combine(words) => bOut' # "RangeError"
    BY DEF BS!Combine
  <2>3. BS!Exchange => bOut' # "RangeError"
    BY DEF BS!Exchange
  <2>. QED
    BY <2>1, <2>2, <2>3 DEF BS!Next, BS!SetAt, BS!ClearAt, BS!ToggleAt, BS!Intersect, BS!Unite, BS!Differ, BS!Negate, R, S
<1>. QED
  BY <1>3, <1>5, <1>6, <1>7, <1>8, <1>9, <1>10 DEF BS!EachCall, R, S, T

LEMMA BitsAreSound ==
  ASSUME BitsAssumption, BitInv
  PROVE  BS!WordsSound
<1>1. bitLen \in Capacities /\ InUse(bitA) /\ InUse(bitB)
  BY DEF BitInv
<1>2. \A s \in {bitA, bitB} : s[BS!LastWord] \subseteq BS!LastMask /\ BS!Popcount(s) = Cardinality(BS!ToSet(s))
  BY <1>1, PopcountIs DEF InUse
<1>3. \A i \in BS!Indices : BS!Has(bitA, i) <=> i \in BS!ToSet(bitA)
  BY <1>1, Members
<1>. QED
  BY WordSizes, <1>2, <1>3 DEF BS!WordsSound

(***************************************************************************)
(* BitSet.ts never has a bit set beyond the capacity of a set: not after   *)
(* the complement, and not after an operation on two sets.                 *)
(***************************************************************************)
THEOREM BitsInvariant ==
  ASSUME BitsAssumption
  PROVE  BS!Spec => []BitInv
<1>1. BS!Init => BitInv
  BY BitsBegin
<1>2. BitInv /\ [BS!Next]_BS!bVars => BitInv'
  BY BitStep
<1>. QED
  BY <1>1, <1>2, PTL DEF BS!Spec

(***************************************************************************)
(* The words of BitSet.ts, of any width, behave as sets of the indices     *)
(* below the capacity: each call does to the indices what it does to sets. *)
(***************************************************************************)
THEOREM BitsBehaveAsSets ==
  ASSUME BitsAssumption
  PROVE  BS!Spec => BS!BehavesAsSets
<1>1. BitInv /\ [BS!Next]_BS!bVars => [BS!EachCall]_BS!bVars
  BY BitsCall
<1>. QED
  BY <1>1, BitsInvariant, PTL DEF BS!Spec, BS!BehavesAsSets

(***************************************************************************)
(* popcount of BitSet.ts is the number of indices in the set, and has says *)
(* which they are.                                                         *)
(***************************************************************************)
THEOREM WordsStaySound ==
  ASSUME BitsAssumption
  PROVE  BS!Spec => []BS!WordsSound
<1>1. BitInv => BS!WordsSound
  BY BitsAreSound
<1>. QED
  BY <1>1, BitsInvariant, PTL

-----------------------------------------------------------------------------
(* SOA: one array per column, and views of them. *)

\* A column per array, every one as long as the others.
OneEach(cols) == cols \in [Column -> Arrays] /\ \A c, d \in Column : c # d => cols[c] # cols[d]
Rectangle(cols, data) ==
  /\ OneEach(cols) /\ data \in [Arrays -> Seq(Value)]
  /\ \A c, d \in Column : Len(data[cols[c]]) = Len(data[cols[d]])

\* A view reads the arrays that were the columns when it was made.
Looks(view) == \/ view = Undef
               \/ \E arrays \in [Column -> Arrays] : \E i :
                     view = [arrays |-> arrays, index |-> i, at |-> arrays]

SoaInv == /\ soa = [cols |-> soa.cols, data |-> soa.data] /\ Rectangle(soa.cols, soa.data)
          /\ views = [cached |-> views.cached, view |-> views.view] /\ Looks(views.view)

LEMMA ColumnLengthIs ==
  ASSUME ColumnsAssumption, SoaInv, NEW c \in Column
  PROVE  SA!Col(c) \in Seq(Value) /\ Len(SA!Col(c)) = SA!Length /\ SA!Length \in Nat /\ soa.cols[c] \in Arrays
<1>. DEFINE d == CHOOSE x \in Column : TRUE
<1>1. d \in Column
  BY DEF ColumnsAssumption
<1>2. SA!Length = Len(SA!Col(d))
  BY DEF SA!Length
<1>. HIDE DEF d
<1>3. Rectangle(soa.cols, soa.data)
  BY DEF SoaInv
<1>4. soa.cols[c] \in Arrays /\ SA!Col(c) \in Seq(Value) /\ Len(SA!Col(c)) = Len(SA!Col(d))
  BY <1>1, <1>3 DEF Rectangle, OneEach, SA!Col
<1>. QED
  BY <1>2, <1>4, LenProperties

\* Contents of one length for every column keep the columns and the view.
LEMMA StoredKeeps ==
  ASSUME SoaInv, NEW contents, \A c \in Column : contents[c] \in Seq(Value),
         \A c, d \in Column : Len(contents[c]) = Len(contents[d]),
         soa' = [soa EXCEPT !.data = SA!Stored(contents)], UNCHANGED views
  PROVE  SoaInv'
<1>. DEFINE new == SA!Stored(contents)
            At(a) == CHOOSE c \in Column : soa.cols[c] = a
<1>1. OneEach(soa.cols) /\ soa.data \in [Arrays -> Seq(Value)]
  BY DEF SoaInv, Rectangle
<1>2. soa' = [cols |-> soa.cols, data |-> new]
  BY DEF SoaInv
<1>3. \A a \in Arrays : (\E c \in Column : soa.cols[c] = a) => At(a) \in Column /\ soa.cols[At(a)] = a
  OBVIOUS
<1>4. \A a \in Arrays : new[a] = IF \E c \in Column : soa.cols[c] = a THEN contents[At(a)] ELSE soa.data[a]
  BY DEF SA!Stored
<1>5. new \in [Arrays -> Seq(Value)]
  <2>1. new = [a \in Arrays |-> new[a]]
    BY DEF SA!Stored
  <2>. HIDE DEF new, At
  <2>. QED
    BY <1>1, <1>3, <1>4, <2>1
<1>. HIDE DEF new, At
<1>6. ASSUME NEW c \in Column  PROVE new[soa.cols[c]] = contents[c]
  <2>1. soa.cols[c] \in Arrays
    BY <1>1 DEF OneEach
  <2>2. At(soa.cols[c]) = c
    BY <1>1, <1>3, <2>1 DEF OneEach
  <2>. QED
    BY <1>4, <2>1, <2>2
<1>7. Rectangle(soa.cols, new)
  BY <1>1, <1>5, <1>6 DEF Rectangle
<1>. QED
  BY <1>2, <1>7 DEF SoaInv

LEMMA ShorterIs ==
  ASSUME NEW S, NEW s \in Seq(S), s # << >>
  PROVE  SA!Front(s) \in Seq(S) /\ Len(SA!Front(s)) = Len(s) - 1
<1>1. Len(s) \in Nat /\ Len(s) # 0
  BY EmptySeq, LenProperties
<1>2. \A k \in 1..Len(s) : s[k] \in S
  BY ElementOfSeq
<1>. DEFINE n == Len(s) - 1
<1>3. n \in Int /\ 1 \in Int /\ \A k \in 1..n : s[k] \in S
  BY <1>1, <1>2
<1>4. SA!Front(s) = SubSeq(s, 1, n)
  BY DEF SA!Front
<1>. HIDE DEF n
<1>5. SubSeq(s, 1, n) \in Seq(S) /\ Len(SubSeq(s, 1, n)) = IF 1 <= n THEN n - 1 + 1 ELSE 0
  BY <1>3, SubSeqProperties
<1>6. SA!Front(s) \in Seq(S) /\ Len(SA!Front(s)) = IF 1 <= n THEN n - 1 + 1 ELSE 0
  BY <1>4, <1>5, Zenon
<1>7. n \in Nat /\ n = Len(s) - 1
  BY <1>1 DEF n
<1>. QED
  BY <1>6, <1>7

LEMMA SoaChanges ==
  ASSUME ColumnsAssumption, SoaInv
  PROVE  /\ \A item \in SA!Row : SA!Push(item) => SoaInv'
         /\ SA!Pop => SoaInv'
         /\ SA!Clear => SoaInv'
         /\ \A i \in 1..MaxRows : /\ SA!SwapRemove(i) => SoaInv'
                                  /\ \A item \in SA!Partial : SA!Put(i, item) => SoaInv'
<1>1. \A c \in Column : SA!Col(c) \in Seq(Value) /\ Len(SA!Col(c)) = SA!Length /\ SA!Length \in Nat
  BY ColumnLengthIs
<1>2. ASSUME NEW item \in SA!Row, SA!Push(item)  PROVE SoaInv'
  <2>. DEFINE new == [c \in Column |-> Append(SA!Col(c), item[c])]
  <2>1. \A c \in Column : new[c] \in Seq(Value) /\ Len(new[c]) = SA!Length + 1
    <3>1. \A c \in Column : item[c] \in Value
      BY DEF SA!Row
    <3>. QED
      BY <1>1, <3>1
  <2>2. soa' = [soa EXCEPT !.data = SA!Stored(new)] /\ UNCHANGED views
    BY <1>2 DEF SA!Push
  <2>. HIDE DEF new
  <2>. QED
    BY <2>1, <2>2, StoredKeeps
<1>3. ASSUME SA!Pop  PROVE SoaInv'
  <2>. DEFINE new == [c \in Column |-> IF SA!Col(c) = << >> THEN << >> ELSE SA!Front(SA!Col(c))]
  <2>1. \A c \in Column : new[c] \in Seq(Value) /\ Len(new[c]) = IF SA!Length = 0 THEN 0 ELSE SA!Length - 1
    <3>1. \A c \in Column : SA!Col(c) = << >> <=> SA!Length = 0
      BY <1>1, EmptySeq
    <3>2. \A c \in Column : SA!Col(c) # << >> => SA!Front(SA!Col(c)) \in Seq(Value) /\ Len(SA!Front(SA!Col(c))) = SA!Length - 1
      BY <1>1, ShorterIs
    <3>. QED
      BY <3>1, <3>2, EmptySeq
  <2>2. soa' = [soa EXCEPT !.data = SA!Stored(new)] /\ UNCHANGED views
    BY <1>3 DEF SA!Pop
  <2>. HIDE DEF new
  <2>. QED
    BY <2>1, <2>2, StoredKeeps
<1>4. ASSUME SA!Clear  PROVE SoaInv'
  <2>. DEFINE new == [c \in Column |-> << >>]
  <2>1. \A c \in Column : new[c] \in Seq(Value) /\ Len(new[c]) = 0
    BY EmptySeq
  <2>2. soa' = [soa EXCEPT !.data = SA!Stored(new)] /\ UNCHANGED views
    BY <1>4 DEF SA!Clear
  <2>. HIDE DEF new
  <2>. QED
    BY <2>1, <2>2, StoredKeeps
<1>5. SoaInv /\ soa' = soa /\ views' = views => SoaInv'
  BY DEF SoaInv
<1>6. ASSUME NEW i \in 1..MaxRows, SA!SwapRemove(i)  PROVE SoaInv'
  <2>. DEFINE new == [c \in Column |-> SA!Front([SA!Col(c) EXCEPT ![i] = SA!Col(c)[SA!Length]])]
  <2>1. CASE i \notin 1..SA!Length
    BY <1>5, <1>6, <2>1 DEF SA!SwapRemove
  <2>2. CASE i \in 1..SA!Length
    <3>1. ASSUME NEW c \in Column  PROVE new[c] \in Seq(Value) /\ Len(new[c]) = SA!Length - 1
      <4>. DEFINE s == SA!Col(c)
                  t == [s EXCEPT ![i] = s[SA!Length]]
      <4>1. s \in Seq(Value) /\ Len(s) = SA!Length /\ SA!Length \in Nat /\ SA!Length \in 1..SA!Length /\ i \in 1..Len(s)
        BY <1>1, <2>2
      <4>. HIDE DEF s
      <4>2. s[SA!Length] \in Value
        BY <4>1, ElementOfSeq
      <4>3. t \in Seq(Value) /\ Len(t) = SA!Length
        BY <4>1, <4>2, ExceptSeq
      <4>4. t # << >>
        BY <4>1, <4>3
      <4>. HIDE DEF t
      <4>5. SA!Front(t) \in Seq(Value) /\ Len(SA!Front(t)) = SA!Length - 1
        BY <4>3, <4>4, ShorterIs
      <4>. QED
        BY <4>5 DEF s, t
    <3>2. soa' = [soa EXCEPT !.data = SA!Stored(new)] /\ UNCHANGED views
      BY <1>6, <2>2 DEF SA!SwapRemove
    <3>. HIDE DEF new
    <3>. QED
      BY <3>1, <3>2, StoredKeeps
  <2>. QED
    BY <2>1, <2>2
<1>7. ASSUME NEW i \in 1..MaxRows, NEW item \in SA!Partial, SA!Put(i, item)  PROVE SoaInv'
  <2>. DEFINE new == [c \in Column |-> IF c \in DOMAIN item
                                       THEN [SA!Col(c) EXCEPT ![i] = item[c]] ELSE SA!Col(c)]
  <2>1. CASE i \notin 1..SA!Length
    BY <1>5, <1>7, <2>1 DEF SA!Put
  <2>2. CASE i \in 1..SA!Length
    <3>1. \A c \in DOMAIN item : item[c] \in Value
      <4>1. PICK D \in SUBSET Column : item \in [D -> Value]
        BY DEF SA!Partial
      <4>. QED
        BY <4>1
    <3>2. ASSUME NEW c \in Column  PROVE new[c] \in Seq(Value) /\ Len(new[c]) = SA!Length
      <4>. DEFINE s == SA!Col(c)
      <4>1. s \in Seq(Value) /\ Len(s) = SA!Length /\ i \in 1..Len(s)
        BY <1>1, <2>2
      <4>2. new[c] = IF c \in DOMAIN item THEN [s EXCEPT ![i] = item[c]] ELSE s
        OBVIOUS
      <4>. HIDE DEF s, new
      <4>3. c \in DOMAIN item => [s EXCEPT ![i] = item[c]] \in Seq(Value) /\ Len([s EXCEPT ![i] = item[c]]) = Len(s)
        BY <3>1, <4>1, ExceptSeq
      <4>. QED
        BY <4>1, <4>2, <4>3
    <3>3. soa' = [soa EXCEPT !.data = SA!Stored(new)] /\ UNCHANGED views
      BY <1>7, <2>2 DEF SA!Put
    <3>. HIDE DEF new
    <3>. QED
      BY <3>2, <3>3, StoredKeeps
  <2>. QED
    BY <2>1, <2>2
<1>. QED
  BY <1>2, <1>3, <1>4, <1>6, <1>7

LEMMA ReplaceKeeps ==
  ASSUME ColumnsAssumption, SoaInv, NEW c \in Replaced, NEW a \in Arrays, SA!Replace(c, a)
  PROVE  SoaInv'
<1>. DEFINE s == SA!Reverse(SA!Col(c))
            cols == [soa.cols EXCEPT ![c] = a]
            data == [soa.data EXCEPT ![a] = s]
<1>1. c \in Column /\ \A d \in Column : soa.cols[d] # a
  BY DEF ColumnsAssumption, SA!Replace
<1>2. SA!Col(c) \in Seq(Value) /\ Len(SA!Col(c)) = SA!Length /\ SA!Length \in Nat
  BY <1>1, ColumnLengthIs
<1>3. s \in Seq(Value) /\ Len(s) = SA!Length
  BY <1>2 DEF SA!Reverse
<1>4. \A d \in Column : Len(soa.data[soa.cols[d]]) = SA!Length
  BY ColumnLengthIs DEF SA!Col
<1>5. OneEach(soa.cols) /\ soa.data \in [Arrays -> Seq(Value)]
  BY DEF SoaInv, Rectangle
<1>6. soa' = [cols |-> cols, data |-> data] /\ UNCHANGED views
  BY DEF SA!Replace
<1>. HIDE DEF s
<1>7. OneEach(cols)
  BY <1>1, <1>5 DEF OneEach
<1>8. data \in [Arrays -> Seq(Value)]
  BY <1>3, <1>5
<1>9. \A d \in Column : Len(data[cols[d]]) = SA!Length
  BY <1>1, <1>3, <1>4, <1>5 DEF OneEach
<1>. HIDE DEF cols, data
<1>10. Rectangle(cols, data)
  BY <1>7, <1>8, <1>9 DEF Rectangle
<1>. QED
  BY <1>6, <1>10 DEF SoaInv

LEMMA ViewKeeps ==
  ASSUME SoaInv
  PROVE  /\ \A i \in 1..MaxRows : (SA!CreateView(i) \/ SA!MoveView(i)) => SoaInv'
         /\ \A c \in Column, v \in Value : SA!WriteView(c, v) => SoaInv'
<1>1. /\ soa = [cols |-> soa.cols, data |-> soa.data] /\ Rectangle(soa.cols, soa.data)
      /\ views = [cached |-> views.cached, view |-> views.view] /\ Looks(views.view)
  BY DEF SoaInv
<1>2. soa.cols \in [Column -> Arrays] /\ soa.data \in [Arrays -> Seq(Value)]
  BY <1>1 DEF Rectangle, OneEach
<1>3. ASSUME NEW i \in 1..MaxRows, SA!CreateView(i)  PROVE SoaInv'
  <2>1. SA!Descriptors = soa.cols
    BY DEF SA!Descriptors, SA!IsFresh
  <2>2. views' = [cached |-> soa.cols, view |-> [arrays |-> soa.cols, index |-> i, at |-> soa.cols]]
    BY <1>3, <2>1 DEF SA!CreateView
  <2>3. Looks(views'.view)
    BY <1>2, <2>2 DEF Looks
  <2>. QED
    BY <1>1, <1>3, <2>2, <2>3 DEF SoaInv, SA!CreateView
<1>4. ASSUME NEW i \in 1..MaxRows, SA!MoveView(i)  PROVE SoaInv'
  <2>1. views.view # Undef /\ views' = [views EXCEPT !.view.index = i] /\ soa' = soa
    BY <1>4 DEF SA!MoveView
  <2>2. PICK arrays \in [Column -> Arrays] :
          \E j : views.view = [arrays |-> arrays, index |-> j, at |-> arrays]
    BY <1>1, <2>1 DEF Looks
  <2>3. [views.view EXCEPT !.index = i] = [arrays |-> arrays, index |-> i, at |-> arrays]
    BY <2>2
  <2>4. views' = [cached |-> views.cached, view |-> [views.view EXCEPT !.index = i]]
    BY <1>1, <2>1
  <2>5. Looks(views'.view)
    BY <2>3, <2>4 DEF Looks
  <2>. QED
    BY <1>1, <2>1, <2>4, <2>5 DEF SoaInv
<1>5. ASSUME NEW c \in Column, NEW v \in Value, SA!WriteView(c, v)  PROVE SoaInv'
  <2>. DEFINE a == views.view.arrays[c]
              i == views.view.index
              s == soa.data[a]
              t == [s EXCEPT ![i] = v]
              data == [soa.data EXCEPT ![a] = t]
  <2>1. views.view # Undef /\ i \in DOMAIN s /\ soa' = [soa EXCEPT !.data[a][i] = v] /\ views' = views
    BY <1>5 DEF SA!WriteView
  <2>2. a \in Arrays
    BY <1>1, <2>1 DEF Looks
  <2>3. soa' = [cols |-> soa.cols, data |-> data]
    BY <1>1, <2>1
  <2>4. s \in Seq(Value) /\ i \in 1..Len(s)
    BY <1>2, <2>1, <2>2
  <2>. HIDE DEF s, i, a
  <2>5. t \in Seq(Value) /\ Len(t) = Len(s)
    BY <2>4, ExceptSeq
  <2>. HIDE DEF t
  <2>6. data \in [Arrays -> Seq(Value)] /\ \A b \in Arrays : Len(data[b]) = Len(soa.data[b])
    BY <1>2, <2>2, <2>5 DEF s
  <2>. HIDE DEF data
  <2>7. Rectangle(soa.cols, data)
    BY <1>1, <1>2, <2>6 DEF Rectangle
  <2>. QED
    BY <1>1, <2>1, <2>3, <2>7 DEF SoaInv
<1>. QED
  BY <1>3, <1>4, <1>5

LEMMA SoaBegins ==
  ASSUME ColumnsAssumption, SA!Init
  PROVE  SoaInv
<1>1. OneEach(SA!FirstCols)
  BY DEF ColumnsAssumption, SA!FirstCols, OneEach
<1>2. soa = [cols |-> SA!FirstCols, data |-> [a \in Arrays |-> << >>]]
  BY DEF SA!Init
<1>3. << >> \in Seq(Value) /\ Len(<< >>) = 0
  BY EmptySeq
<1>4. Rectangle(soa.cols, soa.data)
  BY <1>1, <1>2, <1>3 DEF Rectangle, OneEach
<1>5. views = [cached |-> views.cached, view |-> views.view] /\ Looks(views.view)
  BY DEF SA!Init, Looks
<1>. QED
  BY <1>2, <1>4, <1>5 DEF SoaInv

LEMMA SoaStep ==
  ASSUME ColumnsAssumption, SoaInv, [SA!Next]_SA!sVars
  PROVE  SoaInv'
<1>1. CASE UNCHANGED SA!sVars
  BY <1>1 DEF SoaInv, SA!sVars
<1>2. CASE SA!Next
  BY <1>2, SoaChanges, ReplaceKeeps, ViewKeeps DEF SA!Next
<1>. QED
  BY <1>1, <1>2

LEMMA ColumnsAreSound ==
  ASSUME ColumnsAssumption, SoaInv
  PROVE  SA!ColumnsSound
<1>1. \A c, d \in Column : Len(SA!Col(c)) = Len(SA!Col(d))
  BY ColumnLengthIs
<1>2. ASSUME views.view # Undef, views.view.at = soa.cols, NEW c \in Column
      PROVE  soa.data[views.view.arrays[c]] = SA!Col(c)
  <2>1. views.view.arrays = soa.cols
    BY <1>2 DEF SoaInv, Looks
  <2>. QED
    BY <2>1 DEF SA!Col
<1>. QED
  BY <1>1, <1>2 DEF SA!ColumnsSound

(***************************************************************************)
(* The columns of SOA.ts stay as long as one another, and a view of an SOA *)
(* none of whose columns was replaced since reads the columns themselves.  *)
(***************************************************************************)
THEOREM ColumnsStaySound ==
  ASSUME ColumnsAssumption
  PROVE  SA!Spec => []SA!ColumnsSound
<1>1. SA!Init => SoaInv
  BY SoaBegins
<1>2. SoaInv /\ [SA!Next]_SA!sVars => SoaInv'
  BY SoaStep
<1>3. SoaInv => SA!ColumnsSound
  BY ColumnsAreSound
<1>. QED
  BY <1>1, <1>2, <1>3, PTL DEF SA!Spec

-----------------------------------------------------------------------------
(* BloomFilter: the probes of the items added. *)

\* A filter with a probe at least, whose bits hold those of the items added.
Sieve(f, items) ==
  /\ f = [m |-> f.m, k |-> f.k, bits |-> f.bits, count |-> f.count]
  /\ f.m \in BF!Sizes /\ f.k \in Nat /\ f.k >= 1 /\ f.bits \in SUBSET Int /\ f.count \in Nat
  /\ \A item \in items : BF!Probes(f, item) \subseteq f.bits
  /\ f.count = 0 => f.bits = {} /\ items = {}

FilterInv == (filter = Threw /\ added = {}) \/ Sieve(filter, added)

LEMMA SizesArePositive ==
  ASSUME FilterAssumption, NEW m \in BF!Sizes
  PROVE  m \in Nat /\ m > 0
BY DEF FilterAssumption, BF!Sizes

LEMMA ProbesOnce ==
  ASSUME FilterAssumption, NEW m \in BF!Sizes, NEW k \in Nat, k >= 1
  PROVE  /\ BF!KFloor(m) \in Nat /\ BF!KFloor(m) >= 1
         /\ BF!KCeil(m) \in Nat /\ BF!KCeil(m) >= 1
<1>1. m \in Nat /\ m > 0 /\ FilterCapacity \in Nat /\ FilterCapacity > 0
  BY SizesArePositive DEF FilterAssumption
<1>. DEFINE d == 100 * FilterCapacity
            a == 69 * m
<1>2. d \in Nat /\ d > 0 /\ a \in Nat /\ a - 1 \in Nat
  BY <1>1
<1>. HIDE DEF a, d
<1>3. a \div d \in Int /\ (a - 1) \div d \in Nat
  BY <1>2
<1>4. BF!KFloor(m) = (IF a \div d < 1 THEN 1 ELSE a \div d) /\ BF!KCeil(m) = 1 + ((a - 1) \div d)
  BY DEF BF!KFloor, BF!KCeil, a, d
<1>. QED
  BY <1>3, <1>4

LEMMA MakesAre ==
  ASSUME FilterAssumption, NEW f \in BF!Makes
  PROVE  f = Threw \/ Sieve(f, {})
<1>1. PICK rawM, meets : f = BF!Make(rawM, meets)
  BY DEF BF!Makes

<1>2. CASE BF!Sized(rawM, meets) = Threw
  BY <1>1, <1>2 DEF BF!Make
<1>3. CASE BF!Sized(rawM, meets) # Threw
  <2>. DEFINE fits == {m \in BF!Sizes : m >= rawM /\ {<<m, BF!KFloor(m)>>, <<m, BF!KCeil(m)>>} \cap meets # {}}
              n == CHOOSE m \in fits : \A x \in fits : m <= x
              k == IF <<n, BF!KFloor(n)>> \in meets THEN BF!KFloor(n) ELSE BF!KCeil(n)
  <2>1. fits # {} /\ BF!Sized(rawM, meets) = [m |-> n, k |-> k]
    BY <1>3 DEF BF!Sized
  <2>2. fits \in SUBSET Nat /\ fits \subseteq BF!Sizes
    BY SizesArePositive
  <2>. HIDE DEF fits
  <2>3. \E m \in fits : \A x \in fits : m <= x
    BY <2>1, <2>2, LeastExists
  <2>4. n \in BF!Sizes
    BY <2>2, <2>3
  <2>. HIDE DEF n
  <2>5. k \in Nat /\ k >= 1
    BY <2>4, ProbesOnce
  <2>. HIDE DEF k
  <2>6. f = [m |-> n, k |-> k, bits |-> {}, count |-> 0]
    BY <1>1, <1>3, <2>1 DEF BF!Make
  <2>. QED
    BY <2>4, <2>5, <2>6 DEF Sieve
<1>. QED
  BY <1>2, <1>3

\* A sieve is no mark of an exception.
LEMMA SieveIsNoThrow ==
  ASSUME FilterAssumption, NEW f, NEW items, Sieve(f, items)
  PROVE  f # Threw
<1>. DEFINE m == f.m
            k == f.k
            bits == f.bits
            count == f.count
<1>1. m \in Int /\ k \in Int /\ bits \in SUBSET Int /\ count \in Int
  BY SizesArePositive DEF Sieve
<1>2. f = [m |-> m, k |-> k, bits |-> bits, count |-> count]
  BY DEF Sieve
<1>. HIDE DEF m, k, bits, count
<1>3. f \in [m : Int, k : Int, bits : SUBSET Int, count : Int]
  BY <1>1, <1>2
<1>. QED
  BY <1>3 DEF FilterAssumption

\* The probes of an item are integers, one at least.
LEMMA ProbesAre ==
  ASSUME FilterAssumption, NEW f, NEW items, Sieve(f, items), NEW item \in Item
  PROVE  BF!Probes(f, item) \in SUBSET Int /\ BF!Probes(f, item) # {}
<1>1. f.m \in Nat /\ f.m > 0 /\ f.k \in Nat /\ f.k >= 1
  BY SizesArePositive DEF Sieve
<1>. DEFINE h1 == H1(item)
            h2 == H2(item)
            m == f.m
<1>3. h1 \in Int /\ h2 \in Int /\ m \in Nat /\ m > 0
  BY <1>1 DEF FilterAssumption
<1>4. BF!Probes(f, item) = {(h1 + i * h2) % m : i \in 0..(f.k - 1)}
  BY DEF BF!Probes
<1>. HIDE DEF h1, h2, m
<1>5. \A i \in Int : (h1 + i * h2) % m \in Int
  <2>1. \A i \in Int : h1 + i * h2 \in Int
    BY <1>3
  <2>2. \A a \in Int : a % m \in Int
    BY <1>3
  <2>. QED
    BY <2>1, <2>2
<1>6. 0 \in 0..(f.k - 1)
  BY <1>1
<1>. QED
  BY <1>4, <1>5, <1>6

LEMMA FilterBegins ==
  ASSUME FilterAssumption, BF!Init
  PROVE  FilterInv
BY MakesAre DEF BF!Init, FilterInv

LEMMA FilterStep ==
  ASSUME FilterAssumption, FilterInv, [BF!Next]_BF!fVars
  PROVE  FilterInv'
<1>1. CASE UNCHANGED BF!fVars
  BY <1>1 DEF BF!fVars, FilterInv, Sieve, BF!Probes
<1>2. CASE BF!MakeAgain
  <2>1. filter = Threw /\ filter' \in BF!Makes /\ added' = added
    BY <1>2 DEF BF!MakeAgain
  <2>2. added = {}
    BY <2>1, SieveIsNoThrow DEF FilterInv
  <2>. QED
    BY <2>1, <2>2, MakesAre DEF FilterInv
<1>3. ASSUME NEW item \in Item, BF!Add(item)  PROVE FilterInv'
  <2>. DEFINE P == BF!Probes(filter, item)
              new == filter.bits \cup P
  <2>1. Sieve(filter, added)
    BY <1>3 DEF BF!Add, FilterInv
  <2>2. filter' = [filter EXCEPT !.bits = new, !.count = @ + 1] /\ added' = added \cup {item}
    BY <1>3 DEF BF!Add
  <2>3. P \in SUBSET Int
    BY <2>1, ProbesAre
  <2>. HIDE DEF P
  <2>4. /\ filter = [m |-> filter.m, k |-> filter.k, bits |-> filter.bits, count |-> filter.count]
        /\ filter.m \in BF!Sizes /\ filter.k \in Nat /\ filter.k >= 1
        /\ filter.bits \in SUBSET Int /\ filter.count \in Nat
        /\ \A x \in added : BF!Probes(filter, x) \subseteq filter.bits
    BY <2>1 DEF Sieve
  <2>5. filter' = [m |-> filter.m, k |-> filter.k, bits |-> new, count |-> filter.count + 1]
    BY <2>2, <2>4
  <2>6. new \in SUBSET Int /\ filter.bits \subseteq new /\ P \subseteq new
    BY <2>3, <2>4
  <2>. HIDE DEF new
  <2>7. filter'.m = filter.m /\ filter'.k = filter.k /\ filter'.bits = new /\ filter'.count = filter.count + 1
    BY <2>5
  <2>8. \A x : BF!Probes(filter', x) = BF!Probes(filter, x)
    BY <2>7 DEF BF!Probes
  <2>9. \A x \in added' : BF!Probes(filter', x) \subseteq new
    BY <2>2, <2>4, <2>6, <2>8 DEF P
  <2>10. filter.count + 1 \in Nat /\ filter.count + 1 # 0
    BY <2>4
  <2>11. Sieve(filter', added')
    BY <2>4, <2>5, <2>6, <2>7, <2>9, <2>10 DEF Sieve
  <2>. QED
    BY <2>11 DEF FilterInv, Sieve, BF!Probes
<1>4. ASSUME BF!Clear  PROVE FilterInv'
  <2>1. Sieve(filter, added)
    BY <1>4 DEF BF!Clear, FilterInv
  <2>2. filter' = [m |-> filter.m, k |-> filter.k, bits |-> {}, count |-> 0] /\ added' = {}
    BY <1>4, <2>1 DEF BF!Clear, Sieve
  <2>3. Sieve(filter', added')
    BY <2>1, <2>2 DEF Sieve
  <2>. QED
    BY <2>3 DEF FilterInv, Sieve, BF!Probes
<1>. QED
  BY <1>1, <1>2, <1>3, <1>4 DEF BF!Next

LEMMA FilterIsSound ==
  ASSUME FilterAssumption, FilterInv
  PROVE  BF!NoFalseNegatives
<1>. SUFFICES ASSUME filter # Threw  PROVE BF!NoFalseNegatives
  BY DEF BF!NoFalseNegatives
<1>1. Sieve(filter, added)
  BY DEF FilterInv
<1>2. filter.count = 0 => \A item \in Item : ~ BF!MightContain(filter, item)
  BY <1>1, ProbesAre DEF BF!MightContain, Sieve
<1>. QED
  BY <1>1, <1>2 DEF Sieve, BF!NoFalseNegatives, BF!MightContain

(***************************************************************************)
(* BloomFilter.ts reports every item added since make or clear, whatever   *)
(* the hashes and whatever sizes make settles on.                          *)
(***************************************************************************)
THEOREM FilterHasNoFalseNegatives ==
  ASSUME FilterAssumption
  PROVE  BF!Spec => []BF!NoFalseNegatives
<1>1. BF!Init => FilterInv
  BY FilterBegins
<1>2. FilterInv /\ [BF!Next]_BF!fVars => FilterInv'
  BY FilterStep
<1>3. FilterInv => BF!NoFalseNegatives
  BY FilterIsSound
<1>. QED
  BY <1>1, <1>2, <1>3, PTL DEF BF!Spec
=============================================================================
