--------------------------- MODULE ContainerProofs ---------------------------
(***************************************************************************)
(* The containers whose representation other parts rely on: the ring of    *)
(* Queue.ts implements a double-ended queue of any length, the linked      *)
(* slots of LRUCache.ts a list in order of last use of any capacity.  At   *)
(* the end, with StructureProofs, the properties of all six containers     *)
(* side by side, as Containers states them.                                *)
(***************************************************************************)
EXTENDS StructureProofs, SequencesExt

-----------------------------------------------------------------------------
(* Queue: the numbers of slots, and the ring as a window on its items. *)

\* The numbers of slots that the code's shifts can make: doubling 2^30 overflows.
Powers == {4, 8, 16, 32, 64, 128, 256, 512, 1024, 2048, 4096, 8192, 16384, 32768, 65536,
           131072, 262144, 524288, 1048576, 2097152, 4194304, 8388608, 16777216, 33554432,
           67108864, 134217728, 268435456, 536870912, 1073741824}

LongestRing == 1073741824

Cell == Value \cup {Undef}
Lists == UNION {[0..(n - 1) -> Cell] : n \in Powers}
Ring == [capacityMask : Nat, head : Nat, tail : Nat, list : Lists, lastDump : Nat, prevDump : Nat]

Live(q, i) == IF q.tail >= q.head THEN q.head <= i /\ i < q.tail ELSE q.head <= i \/ i < q.tail
Place(q, j) == IF q.head + j <= q.capacityMask THEN q.head + j
               ELSE q.head + j - (q.capacityMask + 1)
Count(q) == IF q.tail >= q.head THEN q.tail - q.head ELSE q.tail - q.head + q.capacityMask + 1

\* A ring of n slots; in the middle of a push all of them may be in use.
RingOf(q, n) ==
  /\ q \in Ring /\ n \in Powers /\ q.capacityMask = n - 1
  /\ q.list \in [0..(n - 1) -> Cell]
  /\ q.head \in 0..(n - 1) /\ q.tail \in 0..(n - 1)

\* Between calls the ring is not full, the live slots hold items and no other
\* slot does.
RingInv(q) ==
  /\ RingOf(q, q.capacityMask + 1)
  /\ \A i \in 0..q.capacityMask : IF Live(q, i) THEN q.list[i] \in Value ELSE q.list[i] = Undef

LEMMA PowersAre ==
  /\ \A n \in Powers : n \in Nat /\ n >= 4 /\ n <= LongestRing
  /\ \A n \in Powers : n < LongestRing => 2 * n \in Powers
  /\ \A n \in Powers : n > 4 => /\ n \div 2 \in Powers /\ 2 * (n \div 2) = n
                                /\ ((n - 1) \div 2) % 2 # 0 /\ (n - 1) \div 2 = n \div 2 - 1
<1>1. \A n \in Powers : n \in Nat /\ n >= 4 /\ n <= LongestRing
  BY SMT DEF Powers, LongestRing
<1>2. \A n \in Powers : n < LongestRing => 2 * n \in Powers
  BY SMT DEF Powers, LongestRing
<1>3. \A n \in Powers : n > 4 => n \div 2 \in Powers /\ 2 * (n \div 2) = n
  BY SMT DEF Powers, LongestRing
<1>4. \A n \in Powers : n > 4 => ((n - 1) \div 2) % 2 # 0 /\ (n - 1) \div 2 = n \div 2 - 1
  BY SMT DEF Powers, LongestRing
<1>. QED
  BY <1>1, <1>2, <1>3, <1>4

\* The code's claim that 1 << n cannot wrap: there is a power of two to keep.
LEMMA NextPowerIs ==
  ASSUME NEW keep \in Nat, keep >= 4, 2 * keep < LongestRing
  PROVE  Q!NextPower(keep) \in Powers
<1>. DEFINE Good(p) == p > keep /\ p <= 2 * keep
            E(k) == 2 ^ k
            S == {2 ^ k : k \in 0..30}
<1>1. /\ E(0) = 1 /\ E(1) = 2 /\ E(2) = 4 /\ E(3) = 8 /\ E(4) = 16 /\ E(5) = 32 /\ E(6) = 64
      /\ E(7) = 128 /\ E(8) = 256 /\ E(9) = 512 /\ E(10) = 1024 /\ E(11) = 2048
      /\ E(12) = 4096 /\ E(13) = 8192 /\ E(14) = 16384 /\ E(15) = 32768 /\ E(16) = 65536
      /\ E(17) = 131072 /\ E(18) = 262144 /\ E(19) = 524288 /\ E(20) = 1048576
      /\ E(21) = 2097152 /\ E(22) = 4194304 /\ E(23) = 8388608 /\ E(24) = 16777216
      /\ E(25) = 33554432 /\ E(26) = 67108864 /\ E(27) = 134217728 /\ E(28) = 268435456
      /\ E(29) = 536870912 /\ E(30) = 1073741824
  BY SMT
<1>2. S = {E(k) : k \in 0..30}
  BY SMT
<1>. HIDE DEF E, S
<1>3. \A k \in 0..30 : E(k) \in Nat /\ (E(k) >= 4 => E(k) \in Powers)
  <2>1. \A k \in 0..30 :
          \/ k = 0 \/ k = 1 \/ k = 2 \/ k = 3 \/ k = 4 \/ k = 5 \/ k = 6 \/ k = 7 \/ k = 8 \/ k = 9
          \/ k = 10 \/ k = 11 \/ k = 12 \/ k = 13 \/ k = 14 \/ k = 15 \/ k = 16 \/ k = 17
          \/ k = 18 \/ k = 19 \/ k = 20 \/ k = 21 \/ k = 22 \/ k = 23 \/ k = 24 \/ k = 25
          \/ k = 26 \/ k = 27 \/ k = 28 \/ k = 29 \/ k = 30
    BY SMT
  <2>. QED
    BY <1>1, <2>1, SMT DEF Powers
<1>4. \E p \in S : Good(p)
  <2>1. \E k \in 0..30 : Good(E(k))
    BY <1>1, SMT DEF LongestRing
  <2>. QED
    BY <1>2, <2>1
<1>5. Q!NextPower(keep) \in S /\ Good(Q!NextPower(keep))
  <2>1. Q!NextPower(keep) = CHOOSE p \in S : Good(p)
    BY DEF Q!NextPower, S
  <2>. HIDE DEF Good
  <2>. QED
    BY <1>4, <2>1
<1>. QED
  BY <1>2, <1>3, <1>5

\* The arithmetic of a ring of n slots, with n and the positions as numbers.
LEMMA Remainders ==
  ASSUME NEW n \in Nat, n > 0
  PROVE  /\ \A x \in 0..(n - 1) : x % n = x
         /\ \A x \in n..(2 * n - 1) : x % n = x - n
         /\ n % n = 0
<1>1. \A x \in 0..(n - 1) : x % n = x
  OBVIOUS
<1>2. \A x \in n..(2 * n - 1) : x % n = x - n
  OBVIOUS
<1>. QED
  BY <1>1, <1>2

LEMMA StepBack ==
  ASSUME NEW n \in Nat, n > 0, NEW x \in 0..(n - 1)
  PROVE  (x - 1 + n) % n = IF x = 0 THEN n - 1 ELSE x - 1
<1>. DEFINE y == x - 1 + n
<1>1. CASE x = 0
  <2>1. y = n - 1 /\ n - 1 \in 0..(n - 1)
    BY <1>1
  <2>. QED
    BY <1>1, <2>1, Remainders
<1>2. CASE x # 0
  <2>1. y \in n..(2 * n - 1) /\ y - n = x - 1
    BY <1>2
  <2>. HIDE DEF y
  <2>2. y % n = y - n
    BY <2>1, Remainders
  <2>. QED
    BY <1>2, <2>1, <2>2 DEF y
<1>. QED
  BY <1>1, <1>2

LEMMA StepForth ==
  ASSUME NEW n \in Nat, n > 0, NEW x \in 0..(n - 1)
  PROVE  (x + 1) % n = IF x = n - 1 THEN 0 ELSE x + 1
<1>1. CASE x = n - 1
  <2>1. x + 1 = n
    BY <1>1
  <2>. QED
    BY <1>1, <2>1, Remainders
<1>2. CASE x # n - 1
  <2>1. x + 1 \in 0..(n - 1)
    BY <1>2
  <2>. QED
    BY <1>2, <2>1, Remainders
<1>. QED
  BY <1>1, <1>2

LEMMA SameSize ==
  ASSUME NEW s
  PROVE  Q!Cardinality(s) = Cardinality(s)
BY DEF Q!Cardinality, Cardinality

LEMMA LengthIs ==
  ASSUME NEW q, NEW n, RingOf(q, n)
  PROVE  /\ n \in Nat /\ n >= 4 /\ n <= LongestRing /\ LongestRing \in Nat
         /\ Q!ListLength(q.list) = n
         /\ \A x : Q!Mask(q, x) = x % n
<1>1. n \in Nat /\ n >= 4 /\ n <= LongestRing
  BY PowersAre DEF RingOf
<1>2. LongestRing \in Nat
  BY SMT DEF LongestRing
<1>3. DOMAIN q.list = 0..(n - 1)
  BY DEF RingOf
<1>4. Cardinality(0..(n - 1)) = n
  <2>1. 0 \in Int /\ n - 1 \in Int
    BY <1>1
  <2>2. Cardinality(0..(n - 1)) = IF 0 > n - 1 THEN 0 ELSE (n - 1) - 0 + 1
    BY <2>1, FS_Interval
  <2>. QED
    BY <1>1, <2>2
<1>5. Q!ListLength(q.list) = n
  BY <1>3, <1>4, SameSize DEF Q!ListLength
<1>6. q.capacityMask + 1 = n
  BY <1>1 DEF RingOf
<1>. QED
  BY <1>1, <1>2, <1>5, <1>6 DEF Q!Mask

\* size() and toArray() of a ring that is not full.
LEMMA ArrayIs ==
  ASSUME NEW q, RingInv(q)
  PROVE  /\ Q!Size(q) = Count(q) /\ Count(q) \in Nat /\ Count(q) <= q.capacityMask
         /\ \A j \in 0..(Count(q) - 1) : /\ Place(q, j) \in 0..q.capacityMask
                                         /\ Live(q, Place(q, j)) /\ q.list[Place(q, j)] \in Value
                                         /\ Q!Slot(q, j) = Place(q, j)
         /\ Q!ToArray(q) = [i \in 1..Count(q) |-> q.list[Place(q, i - 1)]]
         /\ Q!ToArray(q) \in Seq(Value) /\ Len(Q!ToArray(q)) = Count(q)
         /\ (Q!IsEmpty(q) <=> Count(q) = 0)
<1>. DEFINE n == q.capacityMask + 1
            h == q.head
            t == q.tail
            c == Count(q)
<1>1. RingOf(q, n)
  BY DEF RingInv
<1>2. /\ n \in Nat /\ n >= 4 /\ Q!ListLength(q.list) = n /\ \A x : Q!Mask(q, x) = x % n
  BY <1>1, LengthIs
<1>3. h \in 0..(n - 1) /\ t \in 0..(n - 1) /\ q.capacityMask = n - 1 /\ q.capacityMask \in Nat
  BY <1>1, <1>2 DEF RingOf, Ring
<1>4. c = IF t >= h THEN t - h ELSE t - h + n
  BY <1>3 DEF Count
<1>5. \A j : Place(q, j) = IF h + j <= n - 1 THEN h + j ELSE h + j - n
  BY <1>3 DEF Place
<1>6. \A i : Live(q, i) <=> IF t >= h THEN h <= i /\ i < t ELSE h <= i \/ i < t
  BY DEF Live
<1>7. Q!Size(q) = (t - h + n) % n
  BY <1>2 DEF Q!Size
<1>8. \A j : Q!Slot(q, j) = (h + j) % n
  BY <1>2 DEF Q!Slot
<1>9. \A i \in 0..(n - 1) : Live(q, i) => q.list[i] \in Value
  BY <1>3 DEF RingInv
<1>. HIDE DEF n, h, t, c
<1>10. Q!Size(q) = c /\ c \in Nat /\ c <= n - 1
  <2>1. CASE t >= h
    <3>1. t - h + n \in n..(2 * n - 1)
      BY <1>2, <1>3, <2>1
    <3>. QED
      BY <1>2, <1>3, <1>4, <1>7, <2>1, <3>1, Remainders
  <2>2. CASE ~(t >= h)
    <3>1. t - h + n \in 0..(n - 1)
      BY <1>2, <1>3, <2>2
    <3>. QED
      BY <1>2, <1>3, <1>4, <1>7, <2>2, <3>1, Remainders
  <2>. QED
    BY <2>1, <2>2
<1>11. ASSUME NEW j \in 0..(c - 1)
       PROVE  /\ Place(q, j) \in 0..(n - 1) /\ Live(q, Place(q, j)) /\ q.list[Place(q, j)] \in Value
              /\ Q!Slot(q, j) = Place(q, j)
  <2>1. Place(q, j) \in 0..(n - 1)
    BY <1>2, <1>3, <1>4, <1>5, <1>10
  <2>2. Live(q, Place(q, j))
    BY <1>2, <1>3, <1>4, <1>5, <1>6, <1>10
  <2>3. (h + j) % n = Place(q, j)
    <3>1. CASE h + j <= n - 1
      <4>1. h + j \in 0..(n - 1)
        BY <1>2, <1>3, <1>10, <3>1
      <4>2. (h + j) % n = h + j
        BY <1>2, <4>1, Remainders
      <4>. QED
        BY <1>5, <3>1, <4>2
    <3>2. CASE ~(h + j <= n - 1)
      <4>1. h + j \in n..(2 * n - 1)
        BY <1>2, <1>3, <1>10, <3>2
      <4>2. \A x \in n..(2 * n - 1) : x % n = x - n
        BY <1>2, Remainders
      <4>3. (h + j) % n = (h + j) - n
        <5>. DEFINE x == h + j
        <5>1. x \in n..(2 * n - 1)
          BY <4>1
        <5>. HIDE DEF x
        <5>2. x % n = x - n
          BY <4>2, <5>1
        <5>. QED
          BY <5>2 DEF x
      <4>. QED
        BY <1>2, <1>3, <1>5, <1>10, <3>2, <4>3
    <3>. QED
      BY <3>1, <3>2
  <2>. QED
    BY <1>8, <1>9, <2>1, <2>2, <2>3
<1>12. Q!ToArray(q) = [i \in 1..c |-> q.list[Place(q, i - 1)]]
  <2>. DEFINE end == IF t >= h THEN t ELSE n
              A(i) == IF h + i - 1 < end THEN q.list[h + i - 1] ELSE q.list[i - 1 + h - n]
  <2>1. Q!ToArray(q) = [i \in 1..Q!Size(q) |-> A(i)]
    BY <1>2 DEF Q!ToArray, h, t
  <2>2. ASSUME NEW i \in 1..c  PROVE A(i) = q.list[Place(q, i - 1)]
    <3>1. h + i - 1 < end => h + (i - 1) <= n - 1 /\ h + i - 1 = h + (i - 1)
      BY <1>2, <1>3, <1>10
    <3>2. ~(h + i - 1 < end) => ~(h + (i - 1) <= n - 1) /\ i - 1 + h - n = h + (i - 1) - n
      BY <1>2, <1>3, <1>4, <1>10
    <3>3. CASE h + i - 1 < end
      <4>1. A(i) = q.list[h + i - 1] /\ Place(q, i - 1) = h + i - 1
        BY <1>5, <3>1, <3>3
      <4>. QED
        BY <4>1
    <3>4. CASE ~(h + i - 1 < end)
      <4>1. A(i) = q.list[i - 1 + h - n] /\ Place(q, i - 1) = i - 1 + h - n
        BY <1>5, <3>2, <3>4
      <4>. QED
        BY <4>1
    <3>. QED
      BY <3>3, <3>4
  <2>. HIDE DEF A
  <2>. QED
    BY <1>10, <2>1, <2>2
<1>13. Q!ToArray(q) \in Seq(Value) /\ Len(Q!ToArray(q)) = c
  <2>1. \A i \in 1..c : q.list[Place(q, i - 1)] \in Value
    <3>1. \A i \in 1..c : i - 1 \in 0..(c - 1)
      BY <1>10
    <3>. QED
      BY <1>11, <3>1
  <2>. QED
    BY <1>10, <1>12, <2>1
<1>14. Q!IsEmpty(q) <=> c = 0
  BY <1>2, <1>3, <1>4 DEF Q!IsEmpty, h, t
<1>15. n - 1 = q.capacityMask
  BY <1>3
<1>. QED
  BY <1>10, <1>11, <1>12, <1>13, <1>14, <1>15 DEF c

LEMMA ListsAre ==
  ASSUME NEW n \in Powers, NEW l \in [0..(n - 1) -> Cell]
  PROVE  l \in Lists
BY DEF Lists

\* What a call leaves in the fields of the ring, from the record it began with.
Became(q, n, l, h, t) == [q EXCEPT !.capacityMask = n - 1, !.list = l, !.head = h, !.tail = t]

LEMMA RingIs ==
  ASSUME NEW q, q \in Ring, NEW n \in Powers, NEW l \in [0..(n - 1) -> Cell],
         NEW h \in 0..(n - 1), NEW t \in 0..(n - 1), NEW r, r = Became(q, n, l, h, t)
  PROVE  RingOf(r, n) /\ r.list = l /\ r.head = h /\ r.tail = t /\ r.capacityMask = n - 1
<1>1. n \in Nat /\ n >= 4
  BY PowersAre
<1>2. l \in Lists
  BY ListsAre
<1>3. h \in Nat /\ t \in Nat /\ n - 1 \in Nat
  BY <1>1
<1>4. r = [capacityMask |-> n - 1, head |-> h, tail |-> t, list |-> l,
           lastDump |-> q.lastDump, prevDump |-> q.prevDump]
  BY DEF Ring, Became
<1>5. q.lastDump \in Nat /\ q.prevDump \in Nat
  BY DEF Ring
<1>6. r \in Ring
  BY <1>2, <1>3, <1>4, <1>5 DEF Ring
<1>. QED
  BY <1>4, <1>6 DEF RingOf

\* A ring lists the items that are in its places.
LEMMA Listed ==
  ASSUME NEW g, RingInv(g), NEW s \in Seq(Value), Len(s) = Count(g),
         \A j \in 0..(Count(g) - 1) : g.list[Place(g, j)] = s[j + 1]
  PROVE  Q!ToArray(g) = s
<1>. DEFINE c == Count(g)
            f == Q!ToArray(g)
<1>1. /\ c \in Nat /\ f = [i \in 1..c |-> g.list[Place(g, i - 1)]]
      /\ f \in Seq(Value) /\ Len(f) = c
  BY ArrayIs
<1>2. ASSUME NEW i \in 1..c  PROVE f[i] = s[i]
  <2>1. i - 1 \in 0..(c - 1) /\ (i - 1) + 1 = i
    BY <1>1
  <2>2. f[i] = g.list[Place(g, i - 1)]
    <3>. HIDE DEF f, c
    <3>. QED
      BY <1>1
  <2>. QED
    BY <2>1, <2>2
<1>. HIDE DEF f, c
<1>3. Len(s) = c
  BY DEF c
<1>4. f = s
  BY <1>1, <1>2, <1>3, SeqEqual
<1>. QED
  BY <1>4 DEF f

\* growList() on the slots: what was before the head moves behind the old end.
Grown(f, n, h) == Q!Fill(Q!CopyWithin(Q!Resize(f, 2 * n), n, 0, h), 0, h)

Shifted(l, f, n, h, m) ==
  /\ l \in [0..(m - 1) -> Cell]
  /\ \A i \in 0..(m - 1) : i < h \/ i >= n + h => l[i] = Undef
  /\ \A i \in h..(n - 1) : l[i] = f[i]
  /\ \A i \in n..(n + h - 1) : l[i] = f[i - n]

LEMMA GrowCells ==
  ASSUME NEW n \in Nat, NEW h \in 0..(n - 1), NEW f \in [0..(n - 1) -> Value]
  PROVE  Shifted(Grown(f, n, h), f, n, h, 2 * n)
<1>. DEFINE m == 2 * n
            l == Grown(f, n, h)
            a == Q!Resize(f, m)
            b == Q!CopyWithin(a, n, 0, h)
<1>0. m \in Nat /\ n <= m /\ h < n
  OBVIOUS
<1>1. a = [i \in 0..(m - 1) |-> IF i \in 0..(n - 1) THEN f[i] ELSE Undef]
  BY DEF Q!Resize
<1>. HIDE DEF a
<1>2. b = [i \in 0..(m - 1) |-> IF i >= n /\ i < n + (h - 0) THEN a[0 + (i - n)] ELSE a[i]]
  BY <1>1 DEF Q!CopyWithin
<1>. HIDE DEF b
<1>3. l = [i \in 0..(m - 1) |-> IF i >= 0 /\ i < h THEN Undef ELSE b[i]]
  BY <1>2 DEF Q!Fill, a, b, Grown
<1>4. ASSUME NEW i \in 0..(m - 1)
      PROVE  /\ i < h \/ i >= n + h => l[i] = Undef
             /\ h <= i /\ i < n => l[i] = f[i]
             /\ n <= i /\ i < n + h => l[i] = f[i - n]
  <2>1. CASE i < h
    BY <1>0, <1>3, <2>1
  <2>2. CASE h <= i /\ i < n
    <3>1. l[i] = b[i] /\ b[i] = a[i]
      BY <1>0, <1>2, <1>3, <2>2
    <3>. QED
      BY <1>0, <1>1, <2>2, <3>1
  <2>3. CASE n <= i /\ i < n + h
    <3>1. l[i] = b[i] /\ b[i] = a[0 + (i - n)] /\ 0 + (i - n) = i - n
      BY <1>0, <1>2, <1>3, <2>3
    <3>2. i - n \in 0..(n - 1) /\ i - n \in 0..(m - 1)
      BY <1>0, <2>3
    <3>3. a[i - n] = f[i - n]
      BY <1>1, <3>2
    <3>. QED
      BY <1>0, <2>3, <3>1, <3>3
  <2>4. CASE i >= n + h
    <3>1. l[i] = b[i] /\ b[i] = a[i]
      BY <1>0, <1>2, <1>3, <2>4
    <3>. QED
      BY <1>0, <1>1, <2>4, <3>1
  <2>. QED
    BY <1>0, <2>1, <2>2, <2>3, <2>4
<1>5. ASSUME NEW i \in 0..(m - 1)  PROVE l[i] \in Cell
  <2>1. h <= i /\ i < n => f[i] \in Value
    BY <1>0
  <2>2. n <= i /\ i < n + h => f[i - n] \in Value
    BY <1>0
  <2>. QED
    BY <1>0, <1>4, <2>1, <2>2 DEF Cell
<1>6. l \in [0..(m - 1) -> Cell]
  BY <1>3, <1>5
<1>7. \A i \in h..(n - 1) : i \in 0..(m - 1) /\ h <= i /\ i < n
  BY <1>0
<1>8. \A i \in n..(n + h - 1) : i \in 0..(m - 1) /\ n <= i /\ i < n + h
  BY <1>0
<1>. HIDE DEF l
<1>9. Shifted(l, f, n, h, m)
  BY <1>4, <1>6, <1>7, <1>8 DEF Shifted
<1>. QED
  BY <1>9 DEF l

\* A full ring grows, and its items are in the order they were in.
LEMMA GrowIs ==
  ASSUME NEW r, NEW n, RingOf(r, n), n < LongestRing, r.head = r.tail,
         \A i \in 0..(n - 1) : r.list[i] \in Value
  PROVE  /\ RingInv(Q!GrowList(r)) /\ Count(Q!GrowList(r)) = n
         /\ \A j \in 0..(n - 1) : Q!GrowList(r).list[Place(Q!GrowList(r), j)] = r.list[Place(r, j)]
<1>. DEFINE h == r.head
            g == Q!GrowList(r)
            m == 2 * n
            f == r.list
            l == Grown(f, n, h)
<1>1. n \in Powers /\ n \in Nat /\ n >= 4 /\ Q!ListLength(f) = n /\ h \in 0..(n - 1)
  BY LengthIs DEF RingOf
<1>2. r \in Ring /\ r.capacityMask = n - 1 /\ f \in [0..(n - 1) -> Value]
  BY DEF RingOf
<1>3. m \in Powers /\ m \in Nat /\ m > n
  BY <1>1, PowersAre
<1>4. (h + n) % m = h + n
  <2>1. h + n \in 0..(m - 1) /\ m > 0
    BY <1>1
  <2>. QED
    BY <1>3, <2>1, Remainders
<1>5. g = [r EXCEPT !.list = l, !.capacityMask = m - 1, !.tail = h + n]
  <2>1. 2 * r.capacityMask + 1 = m - 1 /\ (m - 1) + 1 = m
    BY <1>1, <1>2
  <2>. QED
    BY <1>1, <1>4, <2>1 DEF Q!GrowList, Grown
<1>6. /\ l \in [0..(m - 1) -> Cell]
      /\ \A i \in 0..(m - 1) : i < h \/ i >= n + h => l[i] = Undef
      /\ \A i \in h..(n - 1) : l[i] = f[i]
      /\ \A i \in n..(n + h - 1) : l[i] = f[i - n]
  <2>1. Shifted(l, f, n, h, m)
    BY <1>1, <1>2, GrowCells
  <2>. HIDE DEF l, m, h, f
  <2>. QED
    BY <2>1 DEF Shifted
<1>. HIDE DEF l, g
<1>7. g = Became(r, m, l, h, h + n)
  BY <1>2, <1>5 DEF Ring, Became
<1>8. h \in 0..(m - 1) /\ h + n \in 0..(m - 1)
  BY <1>1
<1>9. RingOf(g, m) /\ g.list = l /\ g.head = h /\ g.tail = h + n /\ g.capacityMask = m - 1
  <2>. DEFINE t == h + n
  <2>1. t \in 0..(m - 1) /\ g = Became(r, m, l, h, t)
    BY <1>7, <1>8
  <2>. HIDE DEF m, t, h
  <2>2. RingOf(g, m) /\ g.list = l /\ g.head = h /\ g.tail = t /\ g.capacityMask = m - 1
    BY <1>2, <1>3, <1>6, <1>8, <2>1, RingIs
  <2>. QED
    BY <2>2 DEF t
<1>. HIDE DEF m, h, f
<1>10. m = 2 * n /\ h \in Nat /\ h < n
  BY <1>1 DEF m
<1>11. RingInv(g)
  <2>1. g.capacityMask + 1 = m
    BY <1>3, <1>9
  <2>2. ASSUME NEW i \in 0..(m - 1)
        PROVE  IF Live(g, i) THEN g.list[i] \in Value ELSE g.list[i] = Undef
    <3>1. Live(g, i) <=> h <= i /\ i < h + n
      BY <1>1, <1>9 DEF Live
    <3>2. CASE h <= i /\ i < n
      BY <1>1, <1>2, <1>6, <1>9, <3>1, <3>2
    <3>3. CASE n <= i /\ i < h + n
      <4>1. i \in n..(n + h - 1) /\ i - n \in 0..(n - 1)
        BY <1>1, <1>10, <3>3
      <4>2. l[i] = f[i - n] /\ f[i - n] \in Value
        BY <1>2, <1>6, <4>1
      <4>. QED
        BY <1>1, <1>9, <1>10, <3>1, <3>3, <4>2
    <3>4. CASE i < h \/ i >= n + h
      BY <1>1, <1>6, <1>9, <1>10, <3>1, <3>4
    <3>. QED
      BY <1>1, <1>10, <3>2, <3>3, <3>4
  <2>. QED
    BY <1>3, <1>9, <2>1, <2>2 DEF RingInv
<1>12. Count(g) = n
  BY <1>1, <1>9, <1>10 DEF Count
<1>13. ASSUME NEW j \in 0..(n - 1)  PROVE g.list[Place(g, j)] = r.list[Place(r, j)]
  <2>1. Place(g, j) = h + j
    BY <1>1, <1>9, <1>10 DEF Place
  <2>2. Place(r, j) = IF h + j <= n - 1 THEN h + j ELSE h + j - n
    BY <1>1, <1>2 DEF Place, h
  <2>3. CASE h + j <= n - 1
    <3>1. h + j \in h..(n - 1)
      BY <1>10, <2>3
    <3>. QED
      BY <1>6, <1>9, <2>1, <2>2, <2>3, <3>1 DEF f
  <2>4. CASE ~(h + j <= n - 1)
    <3>. DEFINE k == h + j
    <3>1. k \in n..(n + h - 1) /\ Place(g, j) = k /\ Place(r, j) = k - n
      BY <1>1, <1>10, <2>1, <2>2, <2>4
    <3>. HIDE DEF k
    <3>2. l[k] = f[k - n]
      BY <1>6, <3>1
    <3>. QED
      BY <1>9, <3>1, <3>2 DEF f
  <2>. QED
    BY <2>3, <2>4
<1>. QED
  BY <1>11, <1>12, <1>13 DEF g

\* The facts about a ring of n slots that the calls need.
LEMMA RingFacts ==
  ASSUME NEW q, RingInv(q), NEW n, n = q.capacityMask + 1
  PROVE  /\ RingOf(q, n) /\ n \in Powers /\ n \in Nat /\ n >= 4 /\ n <= LongestRing
         /\ LongestRing \in Nat /\ q \in Ring /\ q.capacityMask = n - 1
         /\ Q!ListLength(q.list) = n /\ (\A x : Q!Mask(q, x) = x % n)
         /\ q.head \in 0..(n - 1) /\ q.tail \in 0..(n - 1) /\ q.list \in [0..(n - 1) -> Cell]
         /\ Count(q) = IF q.tail >= q.head THEN q.tail - q.head ELSE q.tail - q.head + n
         /\ Count(q) \in Nat /\ Count(q) <= n - 1 /\ (Q!IsEmpty(q) <=> Count(q) = 0)
         /\ \A j : Place(q, j) = IF q.head + j <= n - 1 THEN q.head + j ELSE q.head + j - n
         /\ \A j \in 0..(Count(q) - 1) : Place(q, j) \in 0..(n - 1) /\ Live(q, Place(q, j))
         /\ Q!ToArray(q) \in Seq(Value) /\ Len(Q!ToArray(q)) = Count(q)
         /\ \A j \in 0..(Count(q) - 1) : Q!ToArray(q)[j + 1] = q.list[Place(q, j)]
         /\ \A i \in 0..(n - 1) : IF Live(q, i) THEN q.list[i] \in Value ELSE q.list[i] = Undef
<1>. DEFINE c == Count(q)
            s == Q!ToArray(q)
<1>1. RingOf(q, n)
  BY DEF RingInv
<1>2. /\ n \in Nat /\ n >= 4 /\ n <= LongestRing /\ LongestRing \in Nat
      /\ Q!ListLength(q.list) = n /\ \A x : Q!Mask(q, x) = x % n
  BY <1>1, LengthIs
<1>3. /\ n \in Powers /\ q.head \in 0..(n - 1) /\ q.tail \in 0..(n - 1) /\ q.capacityMask = n - 1
      /\ q \in Ring /\ q.list \in [0..(n - 1) -> Cell]
  BY <1>1 DEF RingOf
<1>4. /\ c \in Nat /\ c <= q.capacityMask /\ (Q!IsEmpty(q) <=> c = 0)
      /\ \A j \in 0..(c - 1) : Place(q, j) \in 0..q.capacityMask /\ Live(q, Place(q, j))
      /\ s = [i \in 1..c |-> q.list[Place(q, i - 1)]]
      /\ s \in Seq(Value) /\ Len(s) = c
  BY ArrayIs
<1>5. c = IF q.tail >= q.head THEN q.tail - q.head ELSE q.tail - q.head + n
  BY <1>2, <1>3 DEF Count
<1>6. \A j : Place(q, j) = IF q.head + j <= n - 1 THEN q.head + j ELSE q.head + j - n
  BY <1>3 DEF Place
<1>7. \A i \in 0..(n - 1) : IF Live(q, i) THEN q.list[i] \in Value ELSE q.list[i] = Undef
  BY <1>3 DEF RingInv
<1>. HIDE DEF s, c
<1>8. ASSUME NEW j \in 0..(c - 1)  PROVE s[j + 1] = q.list[Place(q, j)]
  <2>1. j + 1 \in 1..c /\ (j + 1) - 1 = j
    BY <1>4
  <2>. QED
    BY <1>4, <2>1
<1>. QED
  BY <1>1, <1>2, <1>3, <1>4, <1>5, <1>6, <1>7, <1>8 DEF s, c

\* A value in a slot of its own, at the tail or before the head.
Stored(q, p, v) == [q.list EXCEPT ![p] = v]

LEMMA StoredIs ==
  ASSUME NEW q, RingInv(q), NEW n, n = q.capacityMask + 1, NEW p \in 0..(n - 1), NEW v \in Value
  PROVE  /\ Stored(q, p, v) \in [0..(n - 1) -> Cell] /\ Stored(q, p, v)[p] = v
         /\ \A i \in 0..(n - 1) : i # p => Stored(q, p, v)[i] = q.list[i]
<1>1. q.list \in [0..(n - 1) -> Cell] /\ v \in Cell
  BY DEF RingInv, RingOf, Cell
<1>. QED
  BY <1>1 DEF Stored

LEMMA PushedIs ==
  ASSUME NEW q, RingInv(q), NEW v \in Value, Count(q) + 1 < LongestRing
  PROVE  RingInv(Q!Pushed(q, v)) /\ Q!ToArray(Q!Pushed(q, v)) = Append(Q!ToArray(q), v)
<1>. DEFINE n == q.capacityMask + 1
            h == q.head
            t == q.tail
            c == Count(q)
            l == Stored(q, t, v)
            t1 == IF t = n - 1 THEN 0 ELSE t + 1
            r == Became(q, n, l, h, t1)
            s == Q!ToArray(q)
            g == Q!Pushed(q, v)
<1>2. /\ n \in Nat /\ n >= 4 /\ Q!ListLength(q.list) = n /\ \A x : Q!Mask(q, x) = x % n
  BY RingFacts
<1>3. /\ n \in Powers /\ h \in 0..(n - 1) /\ t \in 0..(n - 1) /\ q.capacityMask = n - 1
      /\ q \in Ring
  BY RingFacts
<1>4. Q!Mask(q, t + 1) = t1 /\ t1 \in 0..(n - 1)
  BY <1>2, <1>3, StepForth
<1>5. l \in [0..(n - 1) -> Cell] /\ l[t] = v /\ \A i \in 0..(n - 1) : i # t => l[i] = q.list[i]
  BY <1>3, StoredIs
<1>6. g = IF r.tail = r.head THEN Q!GrowList(r) ELSE r
  <2>1. r = [q EXCEPT !.list[q.tail] = v, !.tail = Q!Mask(q, q.tail + 1)]
    BY <1>3, <1>4 DEF Became, Stored, Ring
  <2>. HIDE DEF r
  <2>. QED
    BY <2>1 DEF Q!Pushed, Q!IsEmpty
<1>7. /\ c = (IF t >= h THEN t - h ELSE t - h + n) /\ c \in Nat /\ c <= n - 1
      /\ \A j \in 0..(c - 1) : Place(q, j) \in 0..(n - 1) /\ Live(q, Place(q, j))
      /\ s \in Seq(Value) /\ Len(s) = c
      /\ \A j \in 0..(c - 1) : s[j + 1] = q.list[Place(q, j)]
  BY RingFacts
<1>8. \A i \in 0..(n - 1) : IF Live(q, i) THEN q.list[i] \in Value ELSE q.list[i] = Undef
  BY RingFacts
<1>9. \A i \in 0..(n - 1) : Live(q, i) <=> IF t >= h THEN h <= i /\ i < t ELSE h <= i \/ i < t
  BY DEF Live
<1>10. \A j : Place(q, j) = IF h + j <= n - 1 THEN h + j ELSE h + j - n
  BY RingFacts
<1>11. t1 = IF t = n - 1 THEN 0 ELSE t + 1
  OBVIOUS
<1>. HIDE DEF n, h, t, c, l, s, t1
<1>12. RingOf(r, n) /\ r.list = l /\ r.head = h /\ r.tail = t1 /\ r.capacityMask = n - 1
  BY <1>3, <1>4, <1>5, RingIs
<1>. HIDE DEF r
<1>13. \A j : Place(r, j) = Place(q, j)
  <2>1. r.capacityMask + 1 = n /\ r.head = h
    BY <1>2, <1>12
  <2>. QED
    BY <1>10, <1>12, <2>1 DEF Place
<1>14. Place(q, c) = t /\ ~Live(q, t)
  BY <1>2, <1>3, <1>7, <1>9, <1>10
<1>15. /\ Append(s, v) \in Seq(Value) /\ Len(Append(s, v)) = c + 1
       /\ \A j \in 0..c : Append(s, v)[j + 1] = l[Place(q, j)]
  <2>1. /\ Append(s, v) \in Seq(Value) /\ Len(Append(s, v)) = c + 1
        /\ \A i \in 1..c : Append(s, v)[i] = s[i] /\ Append(s, v)[c + 1] = v
        /\ Append(s, v)[c + 1] = v
    BY <1>7, AppendProperties
  <2>2. ASSUME NEW j \in 0..c  PROVE Append(s, v)[j + 1] = l[Place(q, j)]
    <3>1. CASE j = c
      BY <1>5, <1>14, <2>1, <3>1
    <3>2. CASE j # c
      <4>1. j \in 0..(c - 1) /\ j + 1 \in 1..c
        BY <1>7, <3>2
      <4>2. Place(q, j) \in 0..(n - 1) /\ Live(q, Place(q, j)) /\ s[j + 1] = q.list[Place(q, j)]
        BY <1>7, <4>1
      <4>3. l[Place(q, j)] = q.list[Place(q, j)]
        BY <1>5, <1>14, <4>2
      <4>. QED
        BY <2>1, <4>1, <4>2, <4>3
    <3>. QED
      BY <3>1, <3>2
  <2>. QED
    BY <2>1, <2>2
<1>16. CASE t1 # h
  <2>1. g = r
    BY <1>6, <1>12, <1>16
  <2>2. ASSUME NEW i \in 0..(n - 1)
        PROVE  IF Live(r, i) THEN l[i] \in Value ELSE l[i] = Undef
    <3>1. Live(r, i) <=> Live(q, i) \/ i = t
      BY <1>2, <1>3, <1>9, <1>11, <1>12, <1>16 DEF Live
    <3>. QED
      BY <1>5, <1>8, <3>1
  <2>3. RingInv(r)
    <3>1. r.capacityMask + 1 = n
      BY <1>2, <1>12
    <3>. QED
      BY <1>12, <2>2, <3>1 DEF RingInv
  <2>4. Count(r) = c + 1
    BY <1>2, <1>3, <1>7, <1>11, <1>12, <1>16 DEF Count
  <2>5. Q!ToArray(r) = Append(s, v)
    <3>1. \A j \in 0..(Count(r) - 1) : r.list[Place(r, j)] = Append(s, v)[j + 1]
      BY <1>7, <1>12, <1>13, <1>15, <2>4
    <3>. QED
      BY <1>15, <2>3, <2>4, <3>1, Listed
  <2>. QED
    BY <2>1, <2>3, <2>5 DEF s
<1>17. CASE t1 = h
  <2>1. g = Q!GrowList(r)
    BY <1>6, <1>12, <1>17
  <2>2. c = n - 1 /\ n < LongestRing
    <3>1. c = n - 1
      BY <1>2, <1>3, <1>7, <1>11, <1>17
    <3>. QED
      BY <1>2, <3>1 DEF c
  <2>3. \A i \in 0..(n - 1) : r.list[i] \in Value
    <3>1. \A i \in 0..(n - 1) : Live(q, i) \/ i = t
      BY <1>2, <1>3, <1>9, <1>11, <1>17
    <3>. QED
      BY <1>5, <1>8, <1>12, <3>1
  <2>4. /\ RingInv(g) /\ Count(g) = n
        /\ \A j \in 0..(n - 1) : g.list[Place(g, j)] = r.list[Place(r, j)]
    BY <1>12, <1>17, <2>1, <2>2, <2>3, GrowIs
  <2>. HIDE DEF g
  <2>5. \A j \in 0..(Count(g) - 1) : g.list[Place(g, j)] = Append(s, v)[j + 1]
    BY <1>2, <1>12, <1>13, <1>15, <2>2, <2>4
  <2>6. Len(Append(s, v)) = Count(g)
    BY <1>2, <1>15, <2>2, <2>4
  <2>7. Q!ToArray(g) = Append(s, v)
    BY <1>15, <2>4, <2>5, <2>6, Listed
  <2>. QED
    BY <2>4, <2>7 DEF s, g
<1>. QED
  BY <1>16, <1>17

LEMMA UnshiftedIs ==
  ASSUME NEW q, RingInv(q), NEW v \in Value, Count(q) + 1 < LongestRing
  PROVE  RingInv(Q!Unshifted(q, v)) /\ Q!ToArray(Q!Unshifted(q, v)) = <<v>> \o Q!ToArray(q)
<1>. DEFINE n == q.capacityMask + 1
            h == q.head
            t == q.tail
            c == Count(q)
            h1 == IF h = 0 THEN n - 1 ELSE h - 1
            l == Stored(q, h1, v)
            r == Became(q, n, l, h1, t)
            s == Q!ToArray(q)
            u == <<v>> \o s
            g == Q!Unshifted(q, v)
<1>2. /\ n \in Nat /\ n >= 4 /\ Q!ListLength(q.list) = n /\ \A x : Q!Mask(q, x) = x % n
  BY RingFacts
<1>3. /\ n \in Powers /\ h \in 0..(n - 1) /\ t \in 0..(n - 1) /\ q.capacityMask = n - 1
      /\ q \in Ring
  BY RingFacts
<1>4. Q!Mask(q, h - 1 + Q!ListLength(q.list)) = h1 /\ h1 \in 0..(n - 1)
  <2>1. (h - 1 + n) % n = IF h = 0 THEN n - 1 ELSE h - 1
    BY <1>2, <1>3, StepBack
  <2>. QED
    BY <1>2, <1>3, <2>1
<1>5. l \in [0..(n - 1) -> Cell] /\ l[h1] = v /\ \A i \in 0..(n - 1) : i # h1 => l[i] = q.list[i]
  BY <1>4, StoredIs
<1>6. g = IF r.tail = r.head THEN Q!GrowList(r) ELSE r
  <2>. DEFINE x == Q!Mask(q, q.head - 1 + Q!ListLength(q.list))
  <2>0. x = h1
    BY <1>4
  <2>. HIDE DEF x
  <2>1. r = [q EXCEPT !.head = x, !.list[x] = v]
    BY <1>3, <2>0 DEF Became, Stored, Ring
  <2>. HIDE DEF r
  <2>. QED
    BY <2>1 DEF Q!Unshifted, Q!IsEmpty, x
<1>7. /\ c = (IF t >= h THEN t - h ELSE t - h + n) /\ c \in Nat /\ c <= n - 1
      /\ \A j \in 0..(c - 1) : Place(q, j) \in 0..(n - 1) /\ Live(q, Place(q, j))
      /\ s \in Seq(Value) /\ Len(s) = c
      /\ \A j \in 0..(c - 1) : s[j + 1] = q.list[Place(q, j)]
  BY RingFacts
<1>8. \A i \in 0..(n - 1) : IF Live(q, i) THEN q.list[i] \in Value ELSE q.list[i] = Undef
  BY RingFacts
<1>9. \A i \in 0..(n - 1) : Live(q, i) <=> IF t >= h THEN h <= i /\ i < t ELSE h <= i \/ i < t
  BY DEF Live
<1>10. \A j : Place(q, j) = IF h + j <= n - 1 THEN h + j ELSE h + j - n
  BY RingFacts
<1>11. h1 = IF h = 0 THEN n - 1 ELSE h - 1
  OBVIOUS
<1>. HIDE DEF n, h, t, c, l, s, h1
<1>12. RingOf(r, n) /\ r.list = l /\ r.head = h1 /\ r.tail = t /\ r.capacityMask = n - 1
  BY <1>3, <1>4, <1>5, RingIs
<1>. HIDE DEF r
<1>13. /\ Place(r, 0) = h1
       /\ \A j \in 1..c : Place(r, j) = Place(q, j - 1)
  <2>1. r.capacityMask + 1 = n /\ r.head = h1 /\ r.capacityMask = n - 1
    BY <1>2, <1>12
  <2>2. \A j \in 0..c : Place(r, j) = IF h1 + j <= n - 1 THEN h1 + j ELSE h1 + j - n
    BY <2>1 DEF Place
  <2>3. Place(r, 0) = h1
    BY <1>2, <1>4, <1>7, <2>2
  <2>4. ASSUME NEW j \in 1..c  PROVE Place(r, j) = Place(q, j - 1)
    <3>1. Place(r, j) = IF h1 + j <= n - 1 THEN h1 + j ELSE h1 + j - n
      BY <1>7, <2>2
    <3>2. Place(q, j - 1) = IF h + (j - 1) <= n - 1 THEN h + (j - 1) ELSE h + (j - 1) - n
      BY <1>10
    <3>. QED
      BY <1>2, <1>3, <1>7, <1>11, <3>1, <3>2
  <2>. QED
    BY <2>3, <2>4
<1>14. ~Live(q, h1)
  BY <1>2, <1>3, <1>4, <1>7, <1>9, <1>11
<1>15. /\ u \in Seq(Value) /\ Len(u) = c + 1
       /\ \A j \in 0..c : u[j + 1] = l[Place(r, j)]
  <2>0. <<v>> \in Seq(Value) /\ Len(<<v>>) = 1 /\ <<v>>[1] = v
    OBVIOUS
  <2>1. /\ u \in Seq(Value) /\ Len(u) = 1 + c
        /\ \A i \in 1..(1 + c) : u[i] = IF i <= 1 THEN <<v>>[i] ELSE s[i - 1]
    <3>. DEFINE w == <<v>>
    <3>1. w \in Seq(Value) /\ Len(w) = 1
      BY <2>0
    <3>. HIDE DEF w
    <3>2. /\ w \o s \in Seq(Value) /\ Len(w \o s) = Len(w) + Len(s)
          /\ \A i \in 1..(Len(w) + Len(s)) : (w \o s)[i] = IF i <= Len(w) THEN w[i] ELSE s[i - Len(w)]
      BY <1>7, <3>1, ConcatProperties
    <3>. QED
      BY <1>7, <3>1, <3>2 DEF w
  <2>. HIDE DEF u
  <2>2. ASSUME NEW j \in 0..c  PROVE u[j + 1] = l[Place(r, j)]
    <3>1. CASE j = 0
      <4>1. u[j + 1] = v
        <5>1. 1 \in 1..(1 + c) /\ j + 1 = 1
          BY <1>7, <3>1
        <5>2. u[1] = <<v>>[1]
          BY <2>1, <5>1
        <5>. QED
          BY <2>0, <5>1, <5>2
      <4>. QED
        BY <1>5, <1>13, <3>1, <4>1
    <3>2. CASE j # 0
      <4>1. j \in 1..c /\ j - 1 \in 0..(c - 1) /\ j + 1 \in 1..(1 + c) /\ ~(j + 1 <= 1)
            /\ (j + 1) - 1 = j /\ (j - 1) + 1 = j
        BY <1>7, <3>2
      <4>2. Place(r, j) = Place(q, j - 1) /\ u[j + 1] = s[j]
        BY <1>13, <2>1, <4>1
      <4>3. /\ Place(q, j - 1) \in 0..(n - 1) /\ Live(q, Place(q, j - 1))
            /\ s[j] = q.list[Place(q, j - 1)]
        BY <1>7, <4>1
      <4>4. l[Place(q, j - 1)] = q.list[Place(q, j - 1)]
        BY <1>5, <1>14, <4>3
      <4>. QED
        BY <4>2, <4>3, <4>4
    <3>. QED
      BY <3>1, <3>2
  <2>. QED
    BY <1>7, <2>1, <2>2
<1>. HIDE DEF u
<1>16. CASE h1 # t
  <2>1. g = r
    BY <1>6, <1>12, <1>16
  <2>2. ASSUME NEW i \in 0..(n - 1)
        PROVE  IF Live(r, i) THEN l[i] \in Value ELSE l[i] = Undef
    <3>1. Live(r, i) <=> Live(q, i) \/ i = h1
      BY <1>2, <1>3, <1>9, <1>11, <1>12, <1>16 DEF Live
    <3>. QED
      BY <1>5, <1>8, <3>1
  <2>3. RingInv(r)
    <3>1. r.capacityMask + 1 = n
      BY <1>2, <1>12
    <3>. QED
      BY <1>12, <2>2, <3>1 DEF RingInv
  <2>4. Count(r) = c + 1
    BY <1>2, <1>3, <1>7, <1>11, <1>12, <1>16 DEF Count
  <2>5. Q!ToArray(r) = u
    <3>1. \A j \in 0..(Count(r) - 1) : r.list[Place(r, j)] = u[j + 1]
      BY <1>7, <1>12, <1>15, <2>4
    <3>. QED
      BY <1>15, <2>3, <2>4, <3>1, Listed
  <2>. QED
    BY <2>1, <2>3, <2>5 DEF s, u
<1>17. CASE h1 = t
  <2>1. g = Q!GrowList(r)
    BY <1>6, <1>12, <1>17
  <2>2. c = n - 1 /\ n < LongestRing
    <3>1. c = n - 1
      BY <1>2, <1>3, <1>7, <1>11, <1>17
    <3>. QED
      BY <1>2, <3>1 DEF c
  <2>3. \A i \in 0..(n - 1) : r.list[i] \in Value
    <3>1. \A i \in 0..(n - 1) : Live(q, i) \/ i = h1
      BY <1>2, <1>3, <1>9, <1>11, <1>17
    <3>. QED
      BY <1>5, <1>8, <1>12, <3>1
  <2>4. /\ RingInv(g) /\ Count(g) = n
        /\ \A j \in 0..(n - 1) : g.list[Place(g, j)] = r.list[Place(r, j)]
    BY <1>12, <1>17, <2>1, <2>2, <2>3, GrowIs
  <2>. HIDE DEF g
  <2>5. \A j \in 0..(Count(g) - 1) : g.list[Place(g, j)] = u[j + 1]
    BY <1>2, <1>12, <1>15, <2>2, <2>4
  <2>6. Len(u) = Count(g)
    BY <1>2, <1>15, <2>2, <2>4
  <2>7. Q!ToArray(g) = u
    BY <1>15, <2>4, <2>5, <2>6, Listed
  <2>. QED
    BY <2>4, <2>7 DEF s, g, u
<1>. QED
  BY <1>16, <1>17

\* tryToShrinkList() on the slots: the items move to the front, also when they
\* wrap around, and the rest of the shorter list is empty.
Moved(f, n, h, t) ==
  IF t >= h THEN Q!CopyWithin(f, 0, h, t)
  ELSE [i \in DOMAIN Q!CopyWithin(f, 0, h, n) |->
          IF i >= n - h /\ i < n - h + t THEN f[i - (n - h)] ELSE Q!CopyWithin(f, 0, h, n)[i]]

InFront(l, f, n, h, c) ==
  /\ DOMAIN l = 0..(n - 1)
  /\ \A i \in 0..(c - 1) : l[i] = f[IF h + i <= n - 1 THEN h + i ELSE h + i - n]

LEMMA MovedIs ==
  ASSUME NEW n \in Nat, NEW h \in 0..(n - 1), NEW t \in 0..(n - 1), NEW f, f \in [0..(n - 1) -> Cell],
         NEW c, c = (IF t >= h THEN t - h ELSE t - h + n)
  PROVE  InFront(Moved(f, n, h, t), f, n, h, c)
<1>. SUFFICES /\ DOMAIN Moved(f, n, h, t) = 0..(n - 1)
              /\ \A i \in 0..(c - 1) :
                   Moved(f, n, h, t)[i] = f[IF h + i <= n - 1 THEN h + i ELSE h + i - n]
  BY DEF InFront
<1>. DEFINE M == Moved(f, n, h, t)
            P(i) == IF h + i <= n - 1 THEN h + i ELSE h + i - n
<1>0. DOMAIN f = 0..(n - 1) /\ c \in Nat /\ c <= n - 1
  OBVIOUS
<1>1. CASE t >= h
  <2>1. M = [i \in 0..(n - 1) |-> IF i >= 0 /\ i < 0 + (t - h) THEN f[h + (i - 0)] ELSE f[i]]
    BY <1>0, <1>1 DEF Moved, Q!CopyWithin
  <2>2. ASSUME NEW i \in 0..(c - 1)  PROVE M[i] = f[P(i)]
    <3>1. i \in 0..(n - 1) /\ i >= 0 /\ i < 0 + (t - h) /\ h + (i - 0) = P(i)
      BY <1>0, <1>1
    <3>. HIDE DEF P, M
    <3>. QED
      BY <2>1, <3>1
  <2>. QED
    BY <2>1, <2>2
<1>2. CASE ~(t >= h)
  <2>. DEFINE F == Q!CopyWithin(f, 0, h, n)
  <2>1. F = [i \in 0..(n - 1) |-> IF i >= 0 /\ i < 0 + (n - h) THEN f[h + (i - 0)] ELSE f[i]]
    BY <1>0 DEF Q!CopyWithin
  <2>. HIDE DEF F
  <2>2. M = [i \in 0..(n - 1) |-> IF i >= n - h /\ i < n - h + t THEN f[i - (n - h)] ELSE F[i]]
    BY <1>2, <2>1 DEF Moved, F
  <2>3. ASSUME NEW i \in 0..(c - 1)  PROVE M[i] = f[P(i)]
    <3>1. i \in 0..(n - 1)
      BY <1>0
    <3>2. CASE i < n - h
      <4>1. M[i] = F[i] /\ F[i] = f[h + (i - 0)] /\ h + (i - 0) = P(i)
        BY <1>0, <1>2, <2>1, <2>2, <3>1, <3>2
      <4>. QED
        BY <4>1
    <3>3. CASE ~(i < n - h)
      <4>1. i >= n - h /\ i < n - h + t /\ i - (n - h) = P(i)
        BY <1>0, <1>2, <3>3
      <4>. HIDE DEF P, M
      <4>. QED
        BY <2>2, <3>1, <4>1
    <3>. QED
      BY <3>2, <3>3
  <2>. QED
    BY <2>2, <2>3
<1>. QED
  BY <1>1, <1>2

LEMMA ShrinkIs ==
  ASSUME QueueAssumption, NEW q, RingInv(q)
  PROVE  RingInv(Q!ShrinkIfLong(q)) /\ Q!ToArray(Q!ShrinkIfLong(q)) = Q!ToArray(q)
<1>. DEFINE n == q.capacityMask + 1
            h == q.head
            t == q.tail
            c == Count(q)
            m == n \div 2
            f == q.list
            M == Moved(f, n, h, t)
            l == Q!Fill(Q!Resize(M, m), c, m)
            r == Became(q, m, l, 0, c)
            s == Q!ToArray(q)
            g == Q!TryToShrinkList(q)
<1>1. /\ n \in Nat /\ n >= 4 /\ Q!ListLength(f) = n /\ n \in Powers
      /\ h \in 0..(n - 1) /\ t \in 0..(n - 1) /\ q.capacityMask = n - 1
      /\ q \in Ring /\ f \in [0..(n - 1) -> Cell]
  BY RingFacts
<1>2. /\ c = (IF t >= h THEN t - h ELSE t - h + n) /\ c \in Nat /\ c <= n - 1
      /\ \A j : Place(q, j) = IF h + j <= n - 1 THEN h + j ELSE h + j - n
      /\ \A j \in 0..(c - 1) : Place(q, j) \in 0..(n - 1) /\ Live(q, Place(q, j))
      /\ s \in Seq(Value) /\ Len(s) = c
      /\ \A j \in 0..(c - 1) : s[j + 1] = f[Place(q, j)]
      /\ \A i \in 0..(n - 1) : IF Live(q, i) THEN f[i] \in Value ELSE f[i] = Undef
  BY RingFacts
<1>3. Q!Size(q) = c
  BY ArrayIs
<1>4. CASE ~(n > ShrinkAbove /\ c < n \div 4)
  <2>1. Q!ShrinkIfLong(q) = q
    BY <1>1, <1>3, <1>4 DEF Q!ShrinkIfLong, Q!TryToShrinkList
  <2>. QED
    BY <2>1
<1>5. CASE n > ShrinkAbove /\ c < n \div 4
  <2>1. /\ m \in Powers /\ 2 * m = n /\ m \in Nat /\ m >= 4 /\ c < m
        /\ (n - 1) \div 2 = m - 1 /\ ((n - 1) \div 2) % 2 # 0
    <3>1. n > 4
      BY <1>1, <1>5 DEF QueueAssumption
    <3>2. /\ m \in Powers /\ 2 * m = n /\ ((n - 1) \div 2) % 2 # 0 /\ (n - 1) \div 2 = m - 1
      BY <1>1, <3>1, PowersAre
    <3>3. m \in Nat /\ m >= 4
      BY <3>2, PowersAre
    <3>4. c < m
      BY <1>1, <1>2, <1>5
    <3>. QED
      BY <3>2, <3>3, <3>4
  <2>2. Q!ShrinkIfLong(q) = r
    <3>1. Q!ShrinkIfLong(q) = g
      BY <1>1, <1>5 DEF Q!ShrinkIfLong
    <3>2. g = [q EXCEPT !.tail = c, !.head = 0,
                        !.capacityMask = IF (q.capacityMask \div 2) % 2 = 0 THEN q.capacityMask \div 2 + 1
                                         ELSE q.capacityMask \div 2,
                        !.list = l]
      BY <1>1, <1>3, <1>5 DEF Q!TryToShrinkList, Moved
    <3>3. (IF (q.capacityMask \div 2) % 2 = 0 THEN q.capacityMask \div 2 + 1
           ELSE q.capacityMask \div 2) = m - 1
      BY <1>1, <2>1
    <3>4. g = [q EXCEPT !.tail = c, !.head = 0, !.capacityMask = m - 1, !.list = l]
      BY <3>2, <3>3
    <3>. HIDE DEF g, l, m, c
    <3>. QED
      BY <1>1, <3>1, <3>4 DEF Became, Ring
  <2>3. /\ DOMAIN M = 0..(n - 1)
        /\ \A i \in 0..(c - 1) : M[i] = f[Place(q, i)]
    <3>1. /\ DOMAIN M = 0..(n - 1)
          /\ \A i \in 0..(c - 1) : M[i] = f[IF h + i <= n - 1 THEN h + i ELSE h + i - n]
      <4>. HIDE DEF n, h, t, f, c
      <4>1. InFront(M, f, n, h, c)
        BY <1>1, <1>2, MovedIs
      <4>. HIDE DEF M
      <4>. QED
        BY <4>1 DEF InFront
    <3>. QED
      BY <1>2, <3>1
  <2>. HIDE DEF n, h, t, c, m, f, M, s
  <2>4. l = [i \in 0..(m - 1) |-> IF i < c THEN f[Place(q, i)] ELSE Undef]
    <3>. DEFINE a == Q!Resize(M, m)
    <3>1. a = [i \in 0..(m - 1) |-> IF i \in 0..(n - 1) THEN M[i] ELSE Undef]
      BY <2>3 DEF Q!Resize
    <3>. HIDE DEF a
    <3>2. l = [i \in 0..(m - 1) |-> IF i >= c /\ i < m THEN Undef ELSE a[i]]
      BY <3>1 DEF Q!Fill, a
    <3>3. ASSUME NEW i \in 0..(m - 1)
          PROVE  (IF i >= c /\ i < m THEN Undef ELSE a[i]) = (IF i < c THEN f[Place(q, i)] ELSE Undef)
      <4>1. CASE i < c
        <5>1. i \in 0..(c - 1) /\ i \in 0..(n - 1) /\ ~(i >= c)
          BY <1>1, <1>2, <2>1, <4>1
        <5>. QED
          BY <2>3, <3>1, <4>1, <5>1
      <4>2. CASE ~(i < c)
        <5>1. i >= c /\ i < m
          BY <1>2, <2>1, <4>2
        <5>. QED
          BY <4>2, <5>1
      <4>. QED
        BY <4>1, <4>2
    <3>. HIDE DEF l
    <3>. QED
      BY <3>2, <3>3
  <2>. HIDE DEF l
  <2>5. \A i \in 0..(m - 1) : /\ i < c => l[i] = f[Place(q, i)] /\ l[i] \in Value
                              /\ ~(i < c) => l[i] = Undef
    <3>1. \A i \in 0..(m - 1) : i < c => i \in 0..(c - 1)
      BY <1>2
    <3>. QED
      BY <1>2, <2>4, <3>1
  <2>6. l \in [0..(m - 1) -> Cell]
    <3>1. \A i \in 0..(m - 1) : l[i] \in Cell
      BY <1>2, <2>5 DEF Cell
    <3>. QED
      BY <2>4, <3>1
  <2>7. RingOf(r, m) /\ r.list = l /\ r.head = 0 /\ r.tail = c /\ r.capacityMask = m - 1
    <3>1. 0 \in 0..(m - 1) /\ c \in 0..(m - 1) /\ m \in Powers /\ q \in Ring
      BY <1>1, <1>2, <2>1
    <3>2. r = Became(q, m, l, 0, c)
      OBVIOUS
    <3>. HIDE DEF r
    <3>. QED
      BY <2>6, <3>1, <3>2, RingIs
  <2>. HIDE DEF r
  <2>8. RingInv(r)
    <3>1. r.capacityMask + 1 = m
      BY <2>1, <2>7
    <3>2. ASSUME NEW i \in 0..(m - 1)
          PROVE  IF Live(r, i) THEN l[i] \in Value ELSE l[i] = Undef
      <4>1. Live(r, i) <=> i < c
        BY <1>2, <2>1, <2>7 DEF Live
      <4>. QED
        BY <2>5, <4>1
    <3>. QED
      BY <2>7, <3>1, <3>2 DEF RingInv
  <2>9. Count(r) = c
    BY <1>2, <2>7 DEF Count
  <2>10. ASSUME NEW j \in 0..(c - 1)  PROVE r.list[Place(r, j)] = s[j + 1]
    <3>1. Place(r, j) = j /\ j \in 0..(m - 1) /\ j < c
      BY <1>2, <2>1, <2>7 DEF Place
    <3>. QED
      BY <1>2, <2>5, <2>7, <3>1
  <2>11. Q!ToArray(r) = s
    BY <1>2, <2>8, <2>9, <2>10, Listed
  <2>. QED
    BY <2>2, <2>8, <2>11 DEF s
<1>. QED
  BY <1>4, <1>5

\* pop() and shift() before they give memory back.
Popped(q, t1) == [q EXCEPT !.tail = t1, !.list[t1] = Undef]
ShiftedOff(q) == [q EXCEPT !.list[q.head] = Undef, !.head = Q!Mask(q, q.head + 1)]

LEMMA EmptiedIs ==
  ASSUME NEW q, RingInv(q), NEW n, n = q.capacityMask + 1, NEW p \in 0..(n - 1)
  PROVE  /\ Stored(q, p, Undef) \in [0..(n - 1) -> Cell] /\ Stored(q, p, Undef)[p] = Undef
         /\ \A i \in 0..(n - 1) : i # p => Stored(q, p, Undef)[i] = q.list[i]
<1>1. q.list \in [0..(n - 1) -> Cell] /\ Undef \in Cell
  BY DEF RingInv, RingOf, Cell
<1>. QED
  BY <1>1 DEF Stored

LEMMA PoppedIs ==
  ASSUME NEW q, RingInv(q), ~Q!IsEmpty(q), NEW t1, t1 = Q!Mask(q, q.tail - 1 + Q!ListLength(q.list))
  PROVE  /\ RingInv(Popped(q, t1)) /\ Q!ToArray(q) # << >>
         /\ Q!ToArray(Popped(q, t1)) = SubSeq(Q!ToArray(q), 1, Len(Q!ToArray(q)) - 1)
         /\ q.list[t1] = Q!ToArray(q)[Len(Q!ToArray(q))]
<1>. DEFINE n == q.capacityMask + 1
            h == q.head
            t == q.tail
            c == Count(q)
            l == Stored(q, t1, Undef)
            r == Became(q, n, l, h, t1)
            s == Q!ToArray(q)
            u == SubSeq(s, 1, c - 1)
<1>2. /\ n \in Nat /\ n >= 4 /\ Q!ListLength(q.list) = n /\ \A x : Q!Mask(q, x) = x % n
  BY RingFacts
<1>3. /\ n \in Powers /\ h \in 0..(n - 1) /\ t \in 0..(n - 1) /\ q.capacityMask = n - 1
      /\ q \in Ring
  BY RingFacts
<1>4. t1 = (IF t = 0 THEN n - 1 ELSE t - 1) /\ t1 \in 0..(n - 1)
  <2>1. (t - 1 + n) % n = IF t = 0 THEN n - 1 ELSE t - 1
    BY <1>2, <1>3, StepBack
  <2>. QED
    BY <1>2, <1>3, <2>1
<1>5. l \in [0..(n - 1) -> Cell] /\ l[t1] = Undef /\ \A i \in 0..(n - 1) : i # t1 => l[i] = q.list[i]
  BY <1>4, EmptiedIs
<1>6. Popped(q, t1) = r
  BY <1>3 DEF Became, Stored, Ring, Popped
<1>7. /\ c = (IF t >= h THEN t - h ELSE t - h + n) /\ c \in Nat /\ c <= n - 1 /\ c # 0
      /\ s \in Seq(Value) /\ Len(s) = c
      /\ \A j \in 0..(c - 1) : s[j + 1] = q.list[Place(q, j)]
  BY RingFacts
<1>8. \A i \in 0..(n - 1) : IF Live(q, i) THEN q.list[i] \in Value ELSE q.list[i] = Undef
  BY RingFacts
<1>9. \A i \in 0..(n - 1) : Live(q, i) <=> IF t >= h THEN h <= i /\ i < t ELSE h <= i \/ i < t
  BY DEF Live
<1>10. \A j : Place(q, j) = IF h + j <= n - 1 THEN h + j ELSE h + j - n
  BY RingFacts
<1>. HIDE DEF n, h, t, c, l, s
<1>12. RingOf(r, n) /\ r.list = l /\ r.head = h /\ r.tail = t1 /\ r.capacityMask = n - 1
  BY <1>3, <1>4, <1>5, RingIs
<1>. HIDE DEF r
<1>13. \A j : Place(r, j) = Place(q, j)
  <2>1. r.capacityMask + 1 = n /\ r.head = h
    BY <1>2, <1>12
  <2>. QED
    BY <1>10, <1>12, <2>1 DEF Place
<1>11. /\ n \in Nat /\ n >= 4 /\ h \in 0..(n - 1) /\ t \in 0..(n - 1)
       /\ t1 = (IF t = 0 THEN n - 1 ELSE t - 1)
       /\ c = (IF t >= h THEN t - h ELSE t - h + n) /\ c \in Nat /\ c # 0
  BY <1>2, <1>3, <1>4, <1>7
<1>14. /\ Place(q, c - 1) = t1
       /\ \A j \in 0..(c - 2) : Place(q, j) \in 0..(n - 1) /\ Place(q, j) # t1
  <2>1. Place(q, c - 1) = t1
    <3>1. Place(q, c - 1) = IF h + (c - 1) <= n - 1 THEN h + (c - 1) ELSE h + (c - 1) - n
      BY <1>10
    <3>. QED
      BY <1>11, <3>1
  <2>2. ASSUME NEW j \in 0..(c - 2)  PROVE Place(q, j) \in 0..(n - 1) /\ Place(q, j) # t1
    <3>1. Place(q, j) = IF h + j <= n - 1 THEN h + j ELSE h + j - n
      BY <1>10
    <3>. QED
      BY <1>11, <3>1
  <2>. QED
    BY <2>1, <2>2
<1>15. /\ u \in Seq(Value) /\ Len(u) = c - 1
       /\ \A j \in 0..(c - 2) : u[j + 1] = l[Place(q, j)]
  <2>1. \A i \in 1..(c - 1) : s[i] \in Value
    BY <1>7
  <2>2. /\ u \in Seq(Value) /\ Len(u) = c - 1
        /\ \A i \in 1..(c - 1) : u[i] = s[i]
    BY <1>7, <2>1
  <2>. HIDE DEF u
  <2>3. ASSUME NEW j \in 0..(c - 2)  PROVE u[j + 1] = l[Place(q, j)]
    <3>1. j + 1 \in 1..(c - 1) /\ j \in 0..(c - 1)
      BY <1>7
    <3>2. u[j + 1] = q.list[Place(q, j)]
      BY <1>7, <2>2, <3>1
    <3>. QED
      BY <1>5, <1>14, <3>2
  <2>. QED
    BY <2>2, <2>3
<1>16. RingInv(r)
  <2>1. r.capacityMask + 1 = n
    BY <1>2, <1>12
  <2>2. ASSUME NEW i \in 0..(n - 1)
        PROVE  IF Live(r, i) THEN l[i] \in Value ELSE l[i] = Undef
    <3>1. Live(r, i) <=> Live(q, i) /\ i # t1
      BY <1>2, <1>3, <1>4, <1>7, <1>9, <1>12 DEF Live
    <3>. QED
      BY <1>5, <1>8, <3>1
  <2>. QED
    BY <1>12, <2>1, <2>2 DEF RingInv
<1>17. Count(r) = c - 1
  <2>1. Count(r) = IF t1 >= h THEN t1 - h ELSE t1 - h + n
    BY <1>2, <1>3, <1>4, <1>12 DEF Count
  <2>. QED
    BY <1>2, <1>3, <1>4, <1>7, <2>1
<1>18. Q!ToArray(r) = u
  <2>. HIDE DEF u
  <2>0. Count(r) - 1 = c - 2
    BY <1>7, <1>17
  <2>1. \A j \in 0..(Count(r) - 1) : r.list[Place(r, j)] = u[j + 1]
    BY <1>12, <1>13, <1>15, <2>0
  <2>. QED
    BY <1>15, <1>16, <1>17, <2>1, Listed
<1>19. q.list[t1] = s[c] /\ s # << >>
  <2>1. c - 1 \in 0..(c - 1) /\ (c - 1) + 1 = c
    BY <1>7
  <2>. QED
    BY <1>7, <1>14, <2>1
<1>. QED
  BY <1>6, <1>7, <1>16, <1>18, <1>19 DEF s

LEMMA ShiftedOffIs ==
  ASSUME NEW q, RingInv(q), ~Q!IsEmpty(q)
  PROVE  /\ RingInv(ShiftedOff(q)) /\ Q!ToArray(q) # << >>
         /\ Q!ToArray(ShiftedOff(q)) = Tail(Q!ToArray(q))
         /\ q.list[q.head] = Head(Q!ToArray(q))
<1>. DEFINE n == q.capacityMask + 1
            h == q.head
            t == q.tail
            c == Count(q)
            h1 == IF h = n - 1 THEN 0 ELSE h + 1
            l == Stored(q, h, Undef)
            r == Became(q, n, l, h1, t)
            s == Q!ToArray(q)
            u == Tail(s)
<1>2. /\ n \in Nat /\ n >= 4 /\ Q!ListLength(q.list) = n /\ \A x : Q!Mask(q, x) = x % n
  BY RingFacts
<1>3. /\ n \in Powers /\ h \in 0..(n - 1) /\ t \in 0..(n - 1) /\ q.capacityMask = n - 1
      /\ q \in Ring
  BY RingFacts
<1>4. Q!Mask(q, h + 1) = h1 /\ h1 \in 0..(n - 1)
  BY <1>2, <1>3, StepForth
<1>5. l \in [0..(n - 1) -> Cell] /\ l[h] = Undef /\ \A i \in 0..(n - 1) : i # h => l[i] = q.list[i]
  BY <1>3, EmptiedIs
<1>6. ShiftedOff(q) = r
  <2>. DEFINE x == Q!Mask(q, q.head + 1)
  <2>0. x = h1
    BY <1>4
  <2>. HIDE DEF x
  <2>1. r = [q EXCEPT !.list[q.head] = Undef, !.head = x]
    BY <1>3, <2>0 DEF Became, Stored, Ring
  <2>. HIDE DEF r
  <2>. QED
    BY <2>1 DEF ShiftedOff, x
<1>7. /\ c = (IF t >= h THEN t - h ELSE t - h + n) /\ c \in Nat /\ c <= n - 1 /\ c # 0
      /\ s \in Seq(Value) /\ Len(s) = c
      /\ \A j \in 0..(c - 1) : s[j + 1] = q.list[Place(q, j)]
  BY RingFacts
<1>8. \A i \in 0..(n - 1) : IF Live(q, i) THEN q.list[i] \in Value ELSE q.list[i] = Undef
  BY RingFacts
<1>9. \A i \in 0..(n - 1) : Live(q, i) <=> IF t >= h THEN h <= i /\ i < t ELSE h <= i \/ i < t
  BY DEF Live
<1>10. \A j : Place(q, j) = IF h + j <= n - 1 THEN h + j ELSE h + j - n
  BY RingFacts
<1>11. h1 = IF h = n - 1 THEN 0 ELSE h + 1
  OBVIOUS
<1>. HIDE DEF n, h, t, c, l, s, h1
<1>12. RingOf(r, n) /\ r.list = l /\ r.head = h1 /\ r.tail = t /\ r.capacityMask = n - 1
  BY <1>3, <1>4, <1>5, RingIs
<1>. HIDE DEF r
<1>13. \A j \in 0..(c - 2) : /\ Place(r, j) = Place(q, j + 1)
                             /\ Place(q, j + 1) \in 0..(n - 1) /\ Place(q, j + 1) # h
  <2>1. r.capacityMask + 1 = n /\ r.head = h1 /\ r.capacityMask = n - 1
    BY <1>2, <1>12
  <2>2. \A j \in 0..(c - 2) : Place(r, j) = IF h1 + j <= n - 1 THEN h1 + j ELSE h1 + j - n
    BY <2>1 DEF Place
  <2>3. ASSUME NEW j \in 0..(c - 2)
        PROVE  /\ Place(r, j) = Place(q, j + 1)
               /\ Place(q, j + 1) \in 0..(n - 1) /\ Place(q, j + 1) # h
    <3>1. Place(q, j + 1) = IF h + (j + 1) <= n - 1 THEN h + (j + 1) ELSE h + (j + 1) - n
      BY <1>10
    <3>. QED
      BY <1>2, <1>3, <1>7, <1>11, <2>2, <3>1
  <2>. QED
    BY <2>3
<1>14. Place(q, 0) = h
  BY <1>2, <1>3, <1>10
<1>15. s # << >> /\ q.list[h] = Head(s)
  <2>1. 0 \in 0..(c - 1) /\ 0 + 1 = 1
    BY <1>7
  <2>2. s[1] = q.list[h]
    BY <1>7, <1>14, <2>1
  <2>3. s # << >>
    BY <1>7
  <2>. QED
    BY <1>7, <2>2, <2>3
<1>16. /\ u \in Seq(Value) /\ Len(u) = c - 1
       /\ \A j \in 0..(c - 2) : u[j + 1] = l[Place(r, j)]
  <2>1. /\ u \in Seq(Value) /\ Len(u) = c - 1
        /\ \A i \in 1..(c - 1) : u[i] = s[i + 1]
    BY <1>7, <1>15, HeadTailProperties
  <2>. HIDE DEF u
  <2>2. ASSUME NEW j \in 0..(c - 2)  PROVE u[j + 1] = l[Place(r, j)]
    <3>1. j + 1 \in 1..(c - 1) /\ j + 1 \in 0..(c - 1)
      BY <1>7
    <3>2. u[j + 1] = s[(j + 1) + 1] /\ s[(j + 1) + 1] = q.list[Place(q, j + 1)]
      BY <1>7, <2>1, <3>1
    <3>. QED
      BY <1>5, <1>13, <3>2
  <2>. QED
    BY <2>1, <2>2
<1>. HIDE DEF u
<1>17. RingInv(r)
  <2>1. r.capacityMask + 1 = n
    BY <1>2, <1>12
  <2>2. ASSUME NEW i \in 0..(n - 1)
        PROVE  IF Live(r, i) THEN l[i] \in Value ELSE l[i] = Undef
    <3>1. Live(r, i) <=> Live(q, i) /\ i # h
      BY <1>2, <1>3, <1>7, <1>9, <1>11, <1>12 DEF Live
    <3>. QED
      BY <1>5, <1>8, <3>1
  <2>. QED
    BY <1>12, <2>1, <2>2 DEF RingInv
<1>18. Count(r) = c - 1
  <2>1. Count(r) = IF t >= h1 THEN t - h1 ELSE t - h1 + (n - 1) + 1
    BY <1>12 DEF Count
  <2>2. CASE h = n - 1
    <3>1. h1 = 0 /\ t < h
      BY <1>2, <1>3, <1>7, <1>11, <2>2
    <3>. QED
      BY <1>2, <1>3, <1>7, <2>1, <2>2, <3>1
  <2>3. CASE h # n - 1
    <3>1. h1 = h + 1 /\ t # h
      BY <1>2, <1>3, <1>7, <1>11, <2>3
    <3>. QED
      BY <1>2, <1>3, <1>7, <2>1, <3>1
  <2>. QED
    BY <2>2, <2>3
<1>19. Q!ToArray(r) = u
  <2>1. \A j \in 0..(Count(r) - 1) : r.list[Place(r, j)] = u[j + 1]
    BY <1>7, <1>12, <1>16, <1>18
  <2>. QED
    BY <1>16, <1>17, <1>18, <2>1, Listed
<1>. QED
  BY <1>6, <1>15, <1>17, <1>19 DEF s, u, h

\* A call that only writes to live slots.
LEMMA RewroteIs ==
  ASSUME NEW q, RingInv(q), NEW l, l \in [0..q.capacityMask -> Cell],
         \A i \in 0..q.capacityMask : IF Live(q, i) THEN l[i] \in Value ELSE l[i] = Undef,
         NEW s \in Seq(Value), Len(s) = Count(q),
         \A j \in 0..(Count(q) - 1) : l[Place(q, j)] = s[j + 1]
  PROVE  RingInv([q EXCEPT !.list = l]) /\ Q!ToArray([q EXCEPT !.list = l]) = s
<1>. DEFINE n == q.capacityMask + 1
            r == Became(q, n, l, q.head, q.tail)
<1>1. /\ n \in Powers /\ n \in Nat /\ q.head \in 0..(n - 1) /\ q.tail \in 0..(n - 1)
      /\ q \in Ring /\ q.capacityMask = n - 1
  BY RingFacts
<1>2. RingOf(r, n) /\ r.list = l /\ r.head = q.head /\ r.tail = q.tail /\ r.capacityMask = n - 1
  BY <1>1, RingIs
<1>3. [q EXCEPT !.list = l] = r
  BY <1>1 DEF Became, Ring
<1>. HIDE DEF r
<1>4. r.capacityMask = q.capacityMask
  BY <1>1, <1>2
<1>5. (\A i : Live(r, i) <=> Live(q, i)) /\ (\A j : Place(r, j) = Place(q, j)) /\ Count(r) = Count(q)
  BY <1>2, <1>4 DEF Live, Place, Count
<1>6. RingInv(r)
  BY <1>1, <1>2, <1>4, <1>5 DEF RingInv
<1>7. Q!ToArray(r) = s
  BY <1>2, <1>5, <1>6, Listed
<1>. QED
  BY <1>3, <1>6, <1>7

\* Two items are not in one slot.
LEMMA PlacesDiffer ==
  ASSUME NEW q, RingInv(q), NEW i \in 0..(Count(q) - 1), NEW j \in 0..(Count(q) - 1), i # j
  PROVE  Place(q, i) # Place(q, j)
<1>. DEFINE n == q.capacityMask + 1
            h == q.head
            c == Count(q)
<1>1. n \in Nat /\ n >= 4 /\ h \in 0..(n - 1) /\ c \in Nat /\ c <= n - 1
  BY RingFacts
<1>2. /\ Place(q, i) = IF h + i <= n - 1 THEN h + i ELSE h + i - n
      /\ Place(q, j) = IF h + j <= n - 1 THEN h + j ELSE h + j - n
  BY RingFacts
<1>. HIDE DEF n, h, c
<1>3. i \in 0..(c - 1) /\ j \in 0..(c - 1)
  BY DEF c
<1>. QED
  BY <1>1, <1>2, <1>3

\* set() and swap() at indices below the size.
Written(q, i, v) == [q EXCEPT !.list[Q!Slot(q, i)] = v]
Exchanged(q, i, j) ==
  [q EXCEPT !.list[Q!Slot(q, i)] = q.list[Q!Slot(q, j)], !.list[Q!Slot(q, j)] = q.list[Q!Slot(q, i)]]

LEMMA WrittenIs ==
  ASSUME NEW q, RingInv(q), NEW i \in 0..(Count(q) - 1), NEW v \in Value
  PROVE  /\ RingInv(Written(q, i, v)) /\ i + 1 \in DOMAIN Q!ToArray(q)
         /\ Q!ToArray(Written(q, i, v)) = [Q!ToArray(q) EXCEPT ![i + 1] = v]
<1>. DEFINE n == q.capacityMask + 1
            c == Count(q)
            p == Place(q, i)
            l == Stored(q, p, v)
            s == Q!ToArray(q)
            u == [s EXCEPT ![i + 1] = v]
<1>1. /\ n \in Nat /\ q \in Ring /\ q.capacityMask = n - 1 /\ c \in Nat
      /\ p \in 0..(n - 1) /\ Live(q, p)
      /\ s \in Seq(Value) /\ Len(s) = c
      /\ \A j \in 0..(c - 1) : s[j + 1] = q.list[Place(q, j)]
      /\ \A j \in 0..(c - 1) : Place(q, j) \in 0..(n - 1)
      /\ \A k \in 0..(n - 1) : IF Live(q, k) THEN q.list[k] \in Value ELSE q.list[k] = Undef
  BY RingFacts
<1>2. Q!Slot(q, i) = p
  BY ArrayIs
<1>3. l \in [0..(n - 1) -> Cell] /\ l[p] = v /\ \A k \in 0..(n - 1) : k # p => l[k] = q.list[k]
  <2>1. \A m, x : m = q.capacityMask + 1 /\ x \in 0..(m - 1) =>
          /\ Stored(q, x, v) \in [0..(m - 1) -> Cell] /\ Stored(q, x, v)[x] = v
          /\ \A k \in 0..(m - 1) : k # x => Stored(q, x, v)[k] = q.list[k]
    BY StoredIs
  <2>2. n = q.capacityMask + 1 /\ p \in 0..(n - 1)
    BY <1>1
  <2>. HIDE DEF n, p
  <2>. QED
    BY <2>1, <2>2
<1>4. Written(q, i, v) = [q EXCEPT !.list = l]
  <2>. DEFINE x == Q!Slot(q, i)
  <2>1. x = p
    BY <1>2
  <2>. HIDE DEF x, p
  <2>2. [q EXCEPT !.list[x] = v] = [q EXCEPT !.list = Stored(q, x, v)]
    BY DEF Stored
  <2>3. Written(q, i, v) = [q EXCEPT !.list = Stored(q, x, v)]
    BY <2>2 DEF Written, x
  <2>. QED
    BY <2>1, <2>3
<1>5. i + 1 \in 1..c /\ \A j \in 0..(c - 1) : j + 1 \in 1..c
  BY <1>1
<1>. HIDE DEF s
<1>6. /\ u \in Seq(Value) /\ Len(u) = c /\ i + 1 \in DOMAIN s
      /\ \A k \in 1..c : u[k] = IF k = i + 1 THEN v ELSE s[k]
  BY <1>1, <1>5
<1>. HIDE DEF u, l
<1>7. ASSUME NEW j \in 0..(c - 1)  PROVE l[Place(q, j)] = u[j + 1]
  <2>1. CASE j = i
    BY <1>3, <1>5, <1>6, <2>1
  <2>2. CASE j # i
    <3>1. Place(q, j) # p
      BY <2>2, PlacesDiffer
    <3>2. l[Place(q, j)] = q.list[Place(q, j)]
      BY <1>1, <1>3, <3>1
    <3>3. u[j + 1] = s[j + 1]
      BY <1>5, <1>6, <2>2
    <3>. QED
      BY <1>1, <3>2, <3>3
  <2>. QED
    BY <2>1, <2>2
<1>8. \A k \in 0..(n - 1) : IF Live(q, k) THEN l[k] \in Value ELSE l[k] = Undef
  BY <1>1, <1>3
<1>9. RingInv([q EXCEPT !.list = l]) /\ Q!ToArray([q EXCEPT !.list = l]) = u
  BY <1>1, <1>3, <1>6, <1>7, <1>8, RewroteIs
<1>. QED
  BY <1>4, <1>6, <1>9 DEF u, s

LEMMA ExchangedIs ==
  ASSUME NEW q, RingInv(q), NEW i \in 0..(Count(q) - 1), NEW j \in 0..(Count(q) - 1)
  PROVE  /\ RingInv(Exchanged(q, i, j)) /\ i + 1 \in DOMAIN Q!ToArray(q) /\ j + 1 \in DOMAIN Q!ToArray(q)
         /\ Q!ToArray(Exchanged(q, i, j)) =
              [Q!ToArray(q) EXCEPT ![i + 1] = Q!ToArray(q)[j + 1], ![j + 1] = Q!ToArray(q)[i + 1]]
<1>. DEFINE n == q.capacityMask + 1
            c == Count(q)
            a == Place(q, i)
            b == Place(q, j)
            l == [q.list EXCEPT ![a] = q.list[b], ![b] = q.list[a]]
            s == Q!ToArray(q)
            u == [s EXCEPT ![i + 1] = s[j + 1], ![j + 1] = s[i + 1]]
<1>1. /\ n \in Nat /\ q \in Ring /\ q.capacityMask = n - 1 /\ c \in Nat
      /\ a \in 0..(n - 1) /\ Live(q, a) /\ b \in 0..(n - 1) /\ Live(q, b)
      /\ s \in Seq(Value) /\ Len(s) = c /\ q.list \in [0..(n - 1) -> Cell]
      /\ \A k \in 0..(c - 1) : s[k + 1] = q.list[Place(q, k)]
      /\ \A k \in 0..(c - 1) : Place(q, k) \in 0..(n - 1)
      /\ \A k \in 0..(n - 1) : IF Live(q, k) THEN q.list[k] \in Value ELSE q.list[k] = Undef
  BY RingFacts
<1>2. Q!Slot(q, i) = a /\ Q!Slot(q, j) = b
  BY ArrayIs
<1>3. /\ l \in [0..(n - 1) -> Cell]
      /\ \A k \in 0..(n - 1) : l[k] = IF k = b THEN q.list[a] ELSE IF k = a THEN q.list[b] ELSE q.list[k]
  BY <1>1
<1>4. Exchanged(q, i, j) = [q EXCEPT !.list = l]
  BY <1>1, <1>2 DEF Exchanged, Ring
<1>5. i + 1 \in 1..c /\ j + 1 \in 1..c /\ \A k \in 0..(c - 1) : k + 1 \in 1..c
  BY <1>1
<1>. HIDE DEF s
<1>6. /\ u \in Seq(Value) /\ Len(u) = c /\ i + 1 \in DOMAIN s /\ j + 1 \in DOMAIN s
      /\ \A k \in 1..c : u[k] = IF k = j + 1 THEN s[i + 1] ELSE IF k = i + 1 THEN s[j + 1] ELSE s[k]
  BY <1>1, <1>5
<1>. HIDE DEF u, l
<1>7. ASSUME NEW k \in 0..(c - 1)  PROVE l[Place(q, k)] = u[k + 1]
  <2>1. CASE k = j
    BY <1>1, <1>3, <1>5, <1>6, <2>1
  <2>2. CASE k = i /\ k # j
    <3>1. a # b
      BY <2>2, PlacesDiffer
    <3>2. l[a] = q.list[b] /\ u[i + 1] = s[j + 1]
      BY <1>1, <1>3, <1>5, <1>6, <2>2, <3>1
    <3>. QED
      BY <1>1, <2>2, <3>2
  <2>3. CASE k # i /\ k # j
    <3>1. Place(q, k) # a /\ Place(q, k) # b
      BY <2>3, PlacesDiffer
    <3>2. l[Place(q, k)] = q.list[Place(q, k)]
      BY <1>1, <1>3, <3>1
    <3>3. u[k + 1] = s[k + 1]
      BY <1>5, <1>6, <2>3
    <3>. QED
      BY <1>1, <3>2, <3>3
  <2>. QED
    BY <2>1, <2>2, <2>3
<1>8. \A k \in 0..(n - 1) : IF Live(q, k) THEN l[k] \in Value ELSE l[k] = Undef
  BY <1>1, <1>3
<1>9. RingInv([q EXCEPT !.list = l]) /\ Q!ToArray([q EXCEPT !.list = l]) = u
  BY ZenonT(30), <1>1, <1>3, <1>6, <1>7, <1>8, RewroteIs
<1>. QED
  BY <1>4, <1>6, <1>9 DEF u, s

\* dumpToArray() leaves an empty ring, shorter or not.
LEMMA DumpedIs ==
  ASSUME QueueAssumption, NEW q, RingInv(q)
  PROVE  RingInv(Q!Dumped(q)) /\ Q!ToArray(Q!Dumped(q)) = << >>
<1>. DEFINE n == q.capacityMask + 1
            h == q.head
            t == q.tail
            keep == IF q.lastDump > q.prevDump THEN q.lastDump ELSE q.prevDump
            cap == IF keep < 4 THEN 4 ELSE Q!NextPower(keep)
            live == IF t >= h THEN h..(t - 1) ELSE (h..(n - 1)) \cup (0..(t - 1))
            cleared == [i \in DOMAIN q.list |-> IF i \in live THEN Undef ELSE q.list[i]]
            cut == n > ShrinkAbove /\ keep < n \div 2
            m == IF cut THEN cap ELSE n
            l == IF cut THEN Q!Resize(cleared, cap) ELSE cleared
            d == Q!Size(q)
            r == [capacityMask |-> m - 1, head |-> 0, tail |-> 0, list |-> l,
                  lastDump |-> d, prevDump |-> q.lastDump]
<1>1. /\ n \in Nat /\ n >= 4 /\ n <= LongestRing /\ LongestRing \in Nat /\ n \in Powers
      /\ h \in 0..(n - 1) /\ t \in 0..(n - 1) /\ q.capacityMask = n - 1
      /\ q \in Ring /\ q.list \in [0..(n - 1) -> Cell] /\ Q!ListLength(q.list) = n
      /\ \A i \in 0..(n - 1) : IF Live(q, i) THEN q.list[i] \in Value ELSE q.list[i] = Undef
  BY RingFacts
<1>2. d \in Nat
  BY ArrayIs
<1>3. keep \in Nat /\ q.lastDump \in Nat
  BY <1>1 DEF Ring
<1>4. Q!Dumped(q) = r
  <2>1. Q!Dumped(q) = [q EXCEPT !.head = 0, !.tail = 0, !.list = l,
                              !.capacityMask = IF cut THEN cap - 1 ELSE @,
                              !.prevDump = q.lastDump, !.lastDump = d]
    BY <1>1 DEF Q!Dumped
  <2>2. (IF cut THEN cap - 1 ELSE q.capacityMask) = m - 1
    BY <1>1
  <2>3. Q!Dumped(q) = [q EXCEPT !.head = 0, !.tail = 0, !.list = l, !.capacityMask = m - 1,
                              !.prevDump = q.lastDump, !.lastDump = d]
    BY <2>1, <2>2
  <2>. HIDE DEF l, m, d
  <2>. QED
    BY <1>1, <2>3 DEF Ring
<1>5. m \in Powers /\ m \in Nat /\ m >= 4
  <2>1. CASE ~cut
    BY <1>1, <2>1
  <2>2. CASE cut
    <3>1. keep < n \div 2
      BY <2>2
    <3>. HIDE DEF keep
    <3>2. 2 * keep < LongestRing
      <4>. HIDE DEF n
      <4>. QED
        BY <1>1, <1>3, <3>1
    <3>3. cap \in Powers
      <4>1. CASE keep < 4
        BY <4>1, SMT DEF Powers
      <4>2. CASE ~(keep < 4)
        <5>1. keep >= 4
          BY <1>3, <4>2
        <5>2. Q!NextPower(keep) \in Powers
          BY <1>3, <3>2, <5>1, NextPowerIs
        <5>. QED
          BY <4>2, <5>2
      <4>. QED
        BY <4>1, <4>2
    <3>4. cap \in Nat /\ cap >= 4
      BY <3>3, PowersAre
    <3>. QED
      BY <2>2, <3>3, <3>4
  <2>. QED
    BY <2>1, <2>2
<1>6. DOMAIN cleared = 0..(n - 1) /\ \A i \in 0..(n - 1) : cleared[i] = Undef
  <2>1. DOMAIN q.list = 0..(n - 1)
    BY <1>1
  <2>2. ASSUME NEW i \in 0..(n - 1)  PROVE cleared[i] = Undef
    <3>1. Live(q, i) => i \in live
      BY <1>1 DEF Live
    <3>. HIDE DEF live
    <3>. QED
      BY <1>1, <2>1, <3>1
  <2>. QED
    BY <2>1, <2>2
<1>. HIDE DEF cleared, cap
<1>7. DOMAIN l = 0..(m - 1) /\ \A i \in 0..(m - 1) : l[i] = Undef
  <2>1. CASE ~cut
    BY <1>6, <2>1
  <2>2. CASE cut
    <3>1. m = cap /\ l = [i \in 0..(cap - 1) |-> IF i \in 0..(n - 1) THEN cleared[i] ELSE Undef]
      <4>. HIDE DEF n
      <4>. QED
        BY <1>6, <2>2 DEF Q!Resize
    <3>. HIDE DEF n, m, l
    <3>. QED
      BY <1>6, <3>1
  <2>. QED
    BY <2>1, <2>2
<1>8. l = [i \in 0..(m - 1) |-> l[i]]
  <2>1. CASE ~cut
    <3>1. l = cleared /\ cleared = [i \in DOMAIN cleared |-> cleared[i]]
      BY <2>1 DEF cleared
    <3>. HIDE DEF l, m
    <3>. QED
      BY <1>7, <3>1
  <2>2. CASE cut
    <3>1. l = Q!Resize(cleared, cap)
      BY <2>2
    <3>2. l = [i \in DOMAIN l |-> l[i]]
      BY <3>1 DEF Q!Resize
    <3>. HIDE DEF l, m
    <3>. QED
      BY <1>7, <3>2
  <2>. QED
    BY <2>1, <2>2
<1>. HIDE DEF m, l, d, n
<1>9. l \in [0..(m - 1) -> Cell]
  <2>1. \A i \in 0..(m - 1) : l[i] \in Cell
    BY <1>7 DEF Cell
  <2>. QED
    BY <1>8, <2>1
<1>10. RingOf(r, m) /\ r.list = l /\ r.head = 0 /\ r.tail = 0 /\ r.capacityMask = m - 1
  <2>1. l \in Lists
    BY <1>5, <1>9, ListsAre
  <2>2. r \in Ring
    BY <1>2, <1>3, <1>5, <2>1 DEF Ring
  <2>. QED
    BY <1>5, <1>9, <2>2 DEF RingOf
<1>. HIDE DEF r
<1>11. RingInv(r)
  <2>1. r.capacityMask + 1 = m
    BY <1>5, <1>10
  <2>2. \A i \in 0..(m - 1) : ~Live(r, i)
    BY <1>5, <1>10 DEF Live
  <2>. QED
    BY <1>7, <1>10, <2>1, <2>2 DEF RingInv
<1>12. Count(r) = 0
  BY <1>10 DEF Count
<1>13. Q!ToArray(r) = << >>
  <2>1. << >> \in Seq(Value) /\ Len(<< >>) = 0
    OBVIOUS
  <2>2. Q!ToArray(r) \in Seq(Value) /\ Len(Q!ToArray(r)) = 0
    BY <1>11, <1>12, ArrayIs
  <2>. QED
    BY <2>1, <2>2
<1>. QED
  BY <1>4, <1>11, <1>13

-----------------------------------------------------------------------------
(* make(): the items are pushed one after the other. *)

\* The recursive definition of the rings make() passes through has a solution.
Rings(values, N) ==
  CHOOSE g : g = [n \in 0..N |-> IF n = 0 THEN Q!NoItems ELSE Q!Pushed(g[n - 1], values[n])]

LEMMA RingsAre ==
  ASSUME NEW values, NEW N \in Nat
  PROVE  /\ Rings(values, N)[0] = Q!NoItems
         /\ \A n \in 1..N : Rings(values, N)[n] = Q!Pushed(Rings(values, N)[n - 1], values[n])
<1>. DEFINE Body(g, i) == IF i = 0 THEN Q!NoItems ELSE Q!Pushed(g[i - 1], values[i])
            P(g, n) == g = [i \in 0..n |-> Body(g, i)]
            Bad == {n \in Nat : ~\E g : P(g, n)}
            F == Rings(values, N)
<1>1. Bad = {}
  <2>. SUFFICES ASSUME Bad # {}  PROVE FALSE
    OBVIOUS
  <2>1. PICK m \in Bad : \A k \in Bad : m <= k
    BY LeastExists
  <2>2. CASE m = 0
    <3>. DEFINE h == [i \in 0..0 |-> Q!NoItems]
    <3>1. P(h, 0)
      OBVIOUS
    <3>. QED
      BY <2>1, <2>2, <3>1
  <2>3. CASE m # 0
    <3>0. m \in Nat
      OBVIOUS
    <3>1. m - 1 \in Nat /\ m - 1 \notin Bad
      <4>. HIDE DEF Bad
      <4>. QED
        BY <2>1, <2>3, <3>0
    <3>2. PICK g : P(g, m - 1)
      BY <3>1
    <3>. DEFINE h == [i \in 0..m |-> IF i < m THEN g[i] ELSE Body(g, m)]
    <3>3. \A i \in 0..(m - 1) : g[i] = Body(g, i)
      <4>. HIDE DEF Body
      <4>. QED
        BY <3>2
    <3>4. ASSUME NEW i \in 0..m  PROVE h[i] = Body(h, i)
      <4>1. CASE i = 0
        <5>1. h[i] = g[0] /\ g[0] = Q!NoItems
          BY <2>3, <3>1, <3>3, <4>1
        <5>. QED
          BY <4>1, <5>1
      <4>2. CASE i # 0
        <5>1. i - 1 \in 0..m /\ i - 1 < m
          BY <4>2
        <5>2. h[i - 1] = g[i - 1]
          BY <5>1
        <5>3. h[i] = Body(g, i)
          <6>1. CASE i < m
            BY <3>1, <3>3, <6>1
          <6>2. CASE ~(i < m)
            BY <6>2
          <6>. QED
            BY <6>1, <6>2
        <5>. HIDE DEF h
        <5>. QED
          BY <4>2, <5>2, <5>3
      <4>. QED
        BY <4>1, <4>2
    <3>5. P(h, m)
      <4>1. h = [i \in 0..m |-> h[i]]
        OBVIOUS
      <4>. HIDE DEF h, Body
      <4>. QED
        BY <3>4, <4>1
    <3>. QED
      BY <2>1, <3>5
  <2>. QED
    BY <2>2, <2>3
<1>2. \E g : P(g, N)
  BY <1>1
<1>3. F = CHOOSE g : P(g, N)
  BY DEF Rings
<1>4. P(F, N)
  <2>. HIDE DEF P, F
  <2>. QED
    BY <1>2, <1>3
<1>. HIDE DEF F
<1>5. \A i \in 0..N : F[i] = Body(F, i)
  <2>. HIDE DEF Body
  <2>. QED
    BY <1>4
<1>6. F[0] = Q!NoItems
  BY <1>5
<1>7. ASSUME NEW i \in 1..N  PROVE F[i] = Q!Pushed(F[i - 1], values[i])
  <2>1. i \in 0..N /\ i # 0
    OBVIOUS
  <2>2. F[i] = Body(F, i)
    BY <1>5, <2>1
  <2>. QED
    BY <2>1, <2>2
<1>. QED
  BY <1>6, <1>7 DEF F

LEMMA NoItemsIs ==
  RingInv(Q!NoItems) /\ Q!ToArray(Q!NoItems) = << >>
<1>. DEFINE l == [i \in 0..3 |-> Undef]
<1>1. 4 \in Powers
  BY SMT DEF Powers
<1>2. l \in [0..3 -> Cell] /\ 4 - 1 = 3 /\ 3 + 1 = 4
  BY DEF Cell
<1>3. l \in Lists
  BY <1>1, <1>2, ListsAre
<1>4. \A i \in 0..3 : l[i] = Undef
  OBVIOUS
<1>. HIDE DEF l
<1>5. Q!NoItems = [capacityMask |-> 3, head |-> 0, tail |-> 0, list |-> l, lastDump |-> 0, prevDump |-> 0]
  BY DEF Q!NoItems, l
<1>6. Q!NoItems \in Ring
  BY <1>3, <1>5 DEF Ring
<1>7. RingOf(Q!NoItems, 4)
  BY <1>1, <1>2, <1>5, <1>6 DEF RingOf
<1>8. \A i \in 0..3 : ~Live(Q!NoItems, i)
  BY <1>5 DEF Live
<1>9. RingInv(Q!NoItems)
  <2>1. Q!NoItems.capacityMask + 1 = 4 /\ Q!NoItems.capacityMask = 3 /\ Q!NoItems.list = l
    BY <1>5
  <2>. QED
    BY <1>4, <1>7, <1>8, <2>1 DEF RingInv
<1>10. Count(Q!NoItems) = 0
  BY <1>5 DEF Count
<1>11. Q!ToArray(Q!NoItems) = << >>
  <2>1. Q!ToArray(Q!NoItems) \in Seq(Value) /\ Len(Q!ToArray(Q!NoItems)) = 0
    BY <1>9, <1>10, ArrayIs
  <2>. QED
    BY <2>1
<1>. QED
  BY <1>9, <1>11

\* make() holds the items it is given, in their order.
LEMMA MakeIs ==
  ASSUME QueueAssumption, NEW values \in Seq(Value), Len(values) <= MaxItems
  PROVE  RingInv(Q!Make(values)) /\ Q!ToArray(Q!Make(values)) = values
<1>. DEFINE N == Len(values)
            F == Rings(values, N)
            Good(k) == RingInv(F[k]) /\ Q!ToArray(F[k]) = SubSeq(values, 1, k)
            Bad == {k \in 0..N : ~Good(k)}
<1>0. N \in Nat /\ N < LongestRing /\ LongestRing \in Nat
  BY SMT DEF LongestRing, QueueAssumption
<1>1. F[0] = Q!NoItems /\ \A n \in 1..N : F[n] = Q!Pushed(F[n - 1], values[n])
  BY <1>0, RingsAre
<1>2. Q!Make(values) = F[N]
  BY DEF Q!Make, Rings
<1>. HIDE DEF F
<1>3. Bad = {}
  <2>. SUFFICES ASSUME Bad # {}  PROVE FALSE
    OBVIOUS
  <2>0. Bad \in SUBSET Nat
    BY <1>0
  <2>1. PICK m \in Bad : \A k \in Bad : m <= k
    BY <2>0, LeastExists
  <2>2. m \in 0..N /\ ~Good(m)
    OBVIOUS
  <2>3. CASE m = 0
    <3>1. SubSeq(values, 1, 0) = << >>
      OBVIOUS
    <3>. QED
      BY <1>1, <2>2, <2>3, <3>1, NoItemsIs
  <2>4. CASE m # 0
    <3>1. m - 1 \in 0..N /\ m \in 1..N /\ m - 1 \in Nat /\ ~(m <= m - 1)
      BY <1>0, <2>2, <2>4
    <3>2. Good(m - 1)
      <4>. HIDE DEF Good
      <4>1. m - 1 \notin Bad
        <5>. HIDE DEF Bad
        <5>. QED
          BY <2>1, <3>1
      <4>. QED
        BY <3>1, <4>1
    <3>. DEFINE q == F[m - 1]
                s == SubSeq(values, 1, m - 1)
                v == values[m]
    <3>3. v \in Value /\ s \in Seq(Value) /\ Len(s) = m - 1
      BY <1>0, <3>1
    <3>4. Append(s, v) = SubSeq(values, 1, m)
      BY <1>0, <3>1
    <3>5. RingInv(q) /\ Q!ToArray(q) = s
      BY <3>2
    <3>6. F[m] = Q!Pushed(q, v)
      BY <1>1, <3>1
    <3>. HIDE DEF q, s, v
    <3>7. Count(q) = m - 1
      <4>1. Len(Q!ToArray(q)) = Count(q)
        BY <3>5, ArrayIs
      <4>. QED
        BY <3>3, <3>5, <4>1
    <3>8. Count(q) + 1 < LongestRing
      <4>. HIDE DEF N
      <4>. QED
        BY <1>0, <3>1, <3>7
    <3>9. RingInv(Q!Pushed(q, v)) /\ Q!ToArray(Q!Pushed(q, v)) = Append(s, v)
      BY <3>3, <3>5, <3>8, PushedIs
    <3>. QED
      BY <2>2, <3>4, <3>6, <3>9
  <2>. QED
    BY <2>3, <2>4
<1>4. Good(N)
  <2>. HIDE DEF Good
  <2>. QED
    BY <1>0, <1>3
<1>5. SubSeq(values, 1, N) = values
  OBVIOUS
<1>. QED
  BY <1>2, <1>4, <1>5

-----------------------------------------------------------------------------
(* Every call is a call of the abstract queue. *)

LEMMA PushStep ==
  ASSUME QueueAssumption, RingInv(queue), NEW v \in Value
  PROVE  /\ Q!Push(v) => RingInv(queue') /\ Q!Abstract!Push(v)
         /\ Q!Unshift(v) => RingInv(queue') /\ Q!Abstract!Unshift(v)
<1>1. Q!Size(queue) < MaxItems => Count(queue) + 1 < LongestRing
  <2>1. Q!Size(queue) = Count(queue) /\ Count(queue) \in Nat
    BY ArrayIs
  <2>2. LongestRing \in Nat /\ MaxItems \in Nat /\ MaxItems < LongestRing
    BY SMT DEF LongestRing, QueueAssumption
  <2>. QED
    BY <2>1, <2>2
<1>2. ASSUME Q!Push(v)  PROVE RingInv(queue') /\ Q!Abstract!Push(v)
  <2>1. Count(queue) + 1 < LongestRing /\ queue' = Q!Pushed(queue, v) /\ qOut' = Undef
    BY <1>1, <1>2 DEF Q!Push
  <2>2. RingInv(Q!Pushed(queue, v)) /\ Q!ToArray(Q!Pushed(queue, v)) = Append(Q!ToArray(queue), v)
    BY <2>1, PushedIs
  <2>. QED
    BY <2>1, <2>2 DEF Q!Abstract!Push
<1>3. ASSUME Q!Unshift(v)  PROVE RingInv(queue') /\ Q!Abstract!Unshift(v)
  <2>1. Count(queue) + 1 < LongestRing /\ queue' = Q!Unshifted(queue, v) /\ qOut' = Undef
    BY <1>1, <1>3 DEF Q!Unshift
  <2>2. RingInv(Q!Unshifted(queue, v)) /\ Q!ToArray(Q!Unshifted(queue, v)) = <<v>> \o Q!ToArray(queue)
    BY <2>1, UnshiftedIs
  <2>. QED
    BY <2>1, <2>2 DEF Q!Abstract!Unshift
<1>. QED
  BY <1>2, <1>3

LEMMA TakeStep ==
  ASSUME QueueAssumption, RingInv(queue)
  PROVE  /\ Q!Pop => RingInv(queue') /\ Q!Abstract!Pop
         /\ Q!Shift => RingInv(queue') /\ Q!Abstract!Shift
<1>1. Q!IsEmpty(queue) => Q!ToArray(queue) = << >>
  <2>1. /\ (Q!IsEmpty(queue) <=> Count(queue) = 0) /\ Q!ToArray(queue) \in Seq(Value)
        /\ Len(Q!ToArray(queue)) = Count(queue)
    BY ArrayIs
  <2>. QED
    BY <2>1
<1>2. ASSUME Q!Pop  PROVE RingInv(queue') /\ Q!Abstract!Pop
  <2>1. CASE Q!IsEmpty(queue)
    <3>1. queue' = queue /\ qOut' = Undef
      BY <1>2, <2>1 DEF Q!Pop
    <3>. QED
      BY <1>1, <2>1, <3>1 DEF Q!Abstract!Pop
  <2>2. CASE ~Q!IsEmpty(queue)
    <3>. DEFINE t == Q!Mask(queue, queue.tail - 1 + Q!ListLength(queue.list))
                r == Popped(queue, t)
    <3>1. queue' = Q!ShrinkIfLong(r) /\ qOut' = queue.list[t]
      BY <1>2, <2>2 DEF Q!Pop, Popped
    <3>2. /\ RingInv(r) /\ Q!ToArray(queue) # << >>
          /\ Q!ToArray(r) = SubSeq(Q!ToArray(queue), 1, Len(Q!ToArray(queue)) - 1)
          /\ queue.list[t] = Q!ToArray(queue)[Len(Q!ToArray(queue))]
      BY <2>2, PoppedIs
    <3>. HIDE DEF r, t
    <3>3. RingInv(Q!ShrinkIfLong(r)) /\ Q!ToArray(Q!ShrinkIfLong(r)) = Q!ToArray(r)
      BY <3>2, ShrinkIs
    <3>. QED
      BY <3>1, <3>2, <3>3 DEF Q!Abstract!Pop
  <2>. QED
    BY <2>1, <2>2
<1>3. ASSUME Q!Shift  PROVE RingInv(queue') /\ Q!Abstract!Shift
  <2>1. CASE Q!IsEmpty(queue)
    <3>1. queue' = queue /\ qOut' = Undef
      BY <1>3, <2>1 DEF Q!Shift
    <3>. QED
      BY <1>1, <2>1, <3>1 DEF Q!Abstract!Shift
  <2>2. CASE ~Q!IsEmpty(queue)
    <3>. DEFINE r == ShiftedOff(queue)
    <3>1. queue' = Q!ShrinkIfLong(r) /\ qOut' = queue.list[queue.head]
      BY <1>3, <2>2 DEF Q!Shift, ShiftedOff
    <3>2. /\ RingInv(r) /\ Q!ToArray(queue) # << >> /\ Q!ToArray(r) = Tail(Q!ToArray(queue))
          /\ queue.list[queue.head] = Head(Q!ToArray(queue))
      BY <2>2, ShiftedOffIs
    <3>. HIDE DEF r
    <3>3. RingInv(Q!ShrinkIfLong(r)) /\ Q!ToArray(Q!ShrinkIfLong(r)) = Q!ToArray(r)
      BY <3>2, ShrinkIs
    <3>. QED
      BY <3>1, <3>2, <3>3 DEF Q!Abstract!Shift
  <2>. QED
    BY <2>1, <2>2
<1>. QED
  BY <1>2, <1>3

LEMMA WriteStep ==
  ASSUME RingInv(queue), NEW i \in Q!Indices
  PROVE  /\ \A v \in Value : Q!Put(i, v) => RingInv(queue') /\ Q!Abstract!Put(i + 1, v)
         /\ Q!Swap(0, i) => RingInv(queue') /\ Q!Abstract!Swap(1, i + 1)
         /\ 1 \in DOMAIN Q!ToArray(queue) /\ i + 1 \in DOMAIN Q!ToArray(queue)
<1>1. Q!Size(queue) = Count(queue) /\ Count(queue) \in Nat
  BY ArrayIs
<1>2. i \in 0..(Count(queue) - 1) /\ 0 \in 0..(Count(queue) - 1)
  BY <1>1 DEF Q!Indices
<1>3. ASSUME NEW v \in Value, Q!Put(i, v)  PROVE RingInv(queue') /\ Q!Abstract!Put(i + 1, v)
  <2>1. queue' = Written(queue, i, v) /\ qOut' = Undef
    BY <1>3 DEF Q!Put, Written
  <2>2. /\ RingInv(Written(queue, i, v))
        /\ Q!ToArray(Written(queue, i, v)) = [Q!ToArray(queue) EXCEPT ![i + 1] = v]
    BY <1>2, WrittenIs
  <2>. QED
    BY <2>1, <2>2 DEF Q!Abstract!Put
<1>4. /\ RingInv(Exchanged(queue, 0, i)) /\ 0 + 1 \in DOMAIN Q!ToArray(queue)
      /\ i + 1 \in DOMAIN Q!ToArray(queue)
      /\ Q!ToArray(Exchanged(queue, 0, i)) =
           [Q!ToArray(queue) EXCEPT ![0 + 1] = Q!ToArray(queue)[i + 1], ![i + 1] = Q!ToArray(queue)[0 + 1]]
  BY <1>2, ExchangedIs
<1>5. 0 + 1 = 1
  OBVIOUS
<1>6. ASSUME Q!Swap(0, i)  PROVE RingInv(queue') /\ Q!Abstract!Swap(1, i + 1)
  <2>1. queue' = Exchanged(queue, 0, i) /\ qOut' = Undef
    BY <1>6 DEF Q!Swap, Exchanged
  <2>. QED
    BY <1>4, <1>5, <2>1 DEF Q!Abstract!Swap
<1>. QED
  BY <1>3, <1>4, <1>5, <1>6

LEMMA DumpStep ==
  ASSUME QueueAssumption, RingInv(queue), Q!DumpToArray
  PROVE  RingInv(queue') /\ Q!Abstract!Dump
<1>1. RingInv(Q!Dumped(queue)) /\ Q!ToArray(Q!Dumped(queue)) = << >>
  BY DumpedIs
<1>2. queue' = Q!Dumped(queue) /\ qOut' = Q!ToArray(queue)
  BY DEF Q!DumpToArray
<1>. QED
  BY <1>1, <1>2 DEF Q!Abstract!Dump

LEMMA QueueStep ==
  ASSUME QueueAssumption, RingInv(queue), [Q!Next]_Q!qVars
  PROVE  RingInv(queue') /\ [Q!Abstract!Next]_<<Q!ToArray(queue), qOut>> /\ [Q!EachCall]_Q!qVars
<1>1. CASE UNCHANGED Q!qVars
  BY <1>1 DEF Q!qVars
<1>2. Q!EachCall
  <2>1. \A v \in Value : (Q!Push(v) => Q!Abstract!Push(v)) /\ (Q!Unshift(v) => Q!Abstract!Unshift(v))
    BY PushStep
  <2>2. \A v \in Value : \A i \in Q!Indices : Q!Put(i, v) => Q!Abstract!Put(i + 1, v)
    BY WriteStep
  <2>3. \A j \in Q!Indices : Q!Swap(0, j) => Q!Abstract!Swap(1, j + 1)
    BY WriteStep
  <2>4. (Q!Pop => Q!Abstract!Pop) /\ (Q!Shift => Q!Abstract!Shift)
    BY TakeStep
  <2>5. Q!DumpToArray => Q!Abstract!Dump
    BY DumpStep
  <2>. QED
    BY <2>1, <2>2, <2>3, <2>4, <2>5 DEF Q!EachCall
<1>3. CASE Q!Next
  <2>1. CASE \E v \in Value : Q!Push(v) \/ Q!Unshift(v)
    <3>1. PICK v \in Value : Q!Push(v) \/ Q!Unshift(v)
      BY <2>1
    <3>2. RingInv(queue') /\ (Q!Abstract!Push(v) \/ Q!Abstract!Unshift(v))
      BY <3>1, PushStep
    <3>. QED
      BY <1>2, <3>2 DEF Q!Abstract!Next
  <2>2. CASE Q!Pop \/ Q!Shift
    <3>1. RingInv(queue') /\ (Q!Abstract!Pop \/ Q!Abstract!Shift)
      BY <2>2, TakeStep
    <3>. QED
      BY <1>2, <3>1 DEF Q!Abstract!Next
  <2>3. CASE Q!DumpToArray
    <3>1. RingInv(queue') /\ Q!Abstract!Dump
      BY <2>3, DumpStep
    <3>. QED
      BY <1>2, <3>1 DEF Q!Abstract!Next
  <2>4. CASE \E i \in Q!Indices, v \in Value : Q!Put(i, v)
    <3>1. PICK i \in Q!Indices, v \in Value : Q!Put(i, v)
      BY <2>4
    <3>2. RingInv(queue') /\ Q!Abstract!Put(i + 1, v) /\ i + 1 \in DOMAIN Q!ToArray(queue)
      BY <3>1, WriteStep
    <3>. QED
      BY <1>2, <3>2 DEF Q!Abstract!Next
  <2>5. CASE \E i \in {0}, j \in Q!Indices : Q!Swap(i, j)
    <3>1. PICK j \in Q!Indices : Q!Swap(0, j)
      BY <2>5
    <3>2. /\ RingInv(queue') /\ Q!Abstract!Swap(1, j + 1)
          /\ 1 \in DOMAIN Q!ToArray(queue) /\ j + 1 \in DOMAIN Q!ToArray(queue)
      BY <3>1, WriteStep
    <3>. QED
      BY <1>2, <3>2 DEF Q!Abstract!Next
  <2>. QED
    BY <1>3, <2>1, <2>2, <2>3, <2>4, <2>5 DEF Q!Next
<1>. QED
  BY <1>1, <1>3

LEMMA QueueBegins ==
  ASSUME QueueAssumption, Q!Init
  PROVE  RingInv(queue) /\ Q!Abstract!Init
<1>1. PICK values \in Initial : queue = Q!Make(values) /\ qOut = Undef
  BY DEF Q!Init
<1>2. values \in Seq(Value) /\ Len(values) <= MaxItems
  BY DEF QueueAssumption
<1>3. RingInv(Q!Make(values)) /\ Q!ToArray(Q!Make(values)) = values
  BY <1>2, MakeIs
<1>. QED
  BY <1>1, <1>2, <1>3 DEF Q!Abstract!Init

(***************************************************************************)
(* Whatever calls are made of Queue.ts, for fewer than 2^30 items: the     *)
(* number of slots is the mask plus one and a power of two, the ring is    *)
(* never full, its live slots hold items and every other slot is empty.    *)
(* This is the inductive invariant behind the two theorems that follow.    *)
(***************************************************************************)
THEOREM QueueInvariant ==
  ASSUME QueueAssumption
  PROVE  Q!Spec => []RingInv(queue)
<1>1. Q!Init => RingInv(queue)
  BY QueueBegins
<1>2. RingInv(queue) /\ [Q!Next]_Q!qVars => RingInv(queue)'
  <2>. SUFFICES ASSUME RingInv(queue), [Q!Next]_Q!qVars  PROVE RingInv(queue')
    BY DEF RingInv, RingOf, Live
  <2>. QED
    BY QueueStep
<1>. QED
  BY <1>1, <1>2, PTL DEF Q!Spec

(***************************************************************************)
(* The ring of Queue.ts is a double-ended queue: through growth in the     *)
(* middle of a push, shrinking in pop and shift and the cut after a dump,  *)
(* with head and tail anywhere in the ring, toArray lists the items the    *)
(* abstract queue holds and each call returns what the abstract one does.  *)
(***************************************************************************)
THEOREM QueueIsDeque ==
  ASSUME QueueAssumption
  PROVE  Q!Spec => Q!IsDeque
<1>1. Q!Init => Q!Abstract!Init
  BY QueueBegins
<1>2. RingInv(queue) /\ [Q!Next]_Q!qVars => [Q!Abstract!Next]_<<Q!ToArray(queue), qOut>> /\ [Q!EachCall]_Q!qVars
  BY QueueStep
<1>. QED
  BY <1>1, <1>2, QueueInvariant, PTL DEF Q!Spec, Q!IsDeque, Q!Abstract!Spec

\* The live slots are the places of the items.
LEMMA LiveHolds ==
  ASSUME NEW q, RingInv(q), NEW i \in 0..q.capacityMask, Live(q, i)
  PROVE  \E j \in 0..(Count(q) - 1) : Place(q, j) = i
<1>. DEFINE n == q.capacityMask + 1
            h == q.head
            t == q.tail
            c == Count(q)
            j == IF i >= h THEN i - h ELSE i - h + n
<1>1. /\ n \in Nat /\ n >= 4 /\ h \in 0..(n - 1) /\ t \in 0..(n - 1) /\ q.capacityMask = n - 1
      /\ c = (IF t >= h THEN t - h ELSE t - h + n)
      /\ \A k : Place(q, k) = IF h + k <= n - 1 THEN h + k ELSE h + k - n
  BY RingFacts
<1>2. IF t >= h THEN h <= i /\ i < t ELSE h <= i \/ i < t
  BY DEF Live
<1>3. Place(q, j) = IF h + j <= n - 1 THEN h + j ELSE h + j - n
  BY <1>1
<1>4. i \in 0..(n - 1)
  BY <1>1
<1>. HIDE DEF n, h, t, c
<1>5. j \in 0..(c - 1) /\ Place(q, j) = i
  BY <1>1, <1>2, <1>3, <1>4
<1>. QED
  BY <1>5 DEF c

LEMMA SoundIs ==
  ASSUME Undef \notin Value, RingInv(queue)
  PROVE  Q!RingSound
<1>. DEFINE q == queue
            n == q.capacityMask + 1
            c == Count(q)
            s == Q!ToArray(q)
            live == {Q!Slot(q, i) : i \in Q!Indices}
<1>1. /\ n \in Nat /\ n >= 4 /\ q.capacityMask = n - 1 /\ Q!ListLength(q.list) = n
      /\ q.head \in 0..(n - 1) /\ q.tail \in 0..(n - 1) /\ (\A x : Q!Mask(q, x) = x % n)
      /\ c = (IF q.tail >= q.head THEN q.tail - q.head ELSE q.tail - q.head + n)
      /\ c \in Nat /\ c <= n - 1 /\ (Q!IsEmpty(q) <=> c = 0)
      /\ q.list \in [0..(n - 1) -> Cell]
      /\ \A i \in 0..(n - 1) : IF Live(q, i) THEN q.list[i] \in Value ELSE q.list[i] = Undef
  BY RingFacts
<1>2. /\ s \in Seq(Value) /\ Len(s) = c
      /\ \A j \in 0..(c - 1) : s[j + 1] = q.list[Place(q, j)]
      /\ \A j \in 0..(c - 1) : Place(q, j) \in 0..(n - 1) /\ Live(q, Place(q, j))
      /\ \A j : Place(q, j) = IF q.head + j <= n - 1 THEN q.head + j ELSE q.head + j - n
  BY RingFacts
<1>3. /\ Q!Size(q) = c
      /\ \A j \in 0..(c - 1) : Q!Slot(q, j) = Place(q, j)
  BY ArrayIs
<1>4. Q!Indices = 0..(c - 1)
  BY <1>3 DEF Q!Indices
<1>5. DOMAIN q.list = 0..(n - 1)
  BY <1>1
<1>6. \A i \in 0..(n - 1) : i \in live <=> Live(q, i)
  <2>1. ASSUME NEW i \in 0..(n - 1), Live(q, i)  PROVE i \in live
    <3>1. \E j \in 0..(c - 1) : Place(q, j) = i
      BY <1>1, <2>1, LiveHolds
    <3>. QED
      BY <1>3, <1>4, <3>1
  <2>2. ASSUME NEW i \in 0..(n - 1), i \in live  PROVE Live(q, i)
    BY <1>2, <1>3, <1>4, <2>2
  <2>. QED
    BY <2>1, <2>2
<1>7. \A i \in DOMAIN q.list : q.list[i] = Undef <=> i \notin live
  BY <1>1, <1>5, <1>6
<1>8. \A i \in Q!Indices : Q!Get(q, i) = s[i + 1]
  BY <1>2, <1>3, <1>4 DEF Q!Get
<1>9. s = << >> <=> Q!IsEmpty(q)
  BY <1>1, <1>2
<1>10. ~Q!IsEmpty(q) => q.list[q.head] = Head(s)
  BY ShiftedOffIs
<1>11. ~Q!IsEmpty(q) => q.list[Q!Mask(q, q.tail - 1 + Q!ListLength(q.list))] = s[Len(s)]
  BY PoppedIs
<1>12. Q!PeekFront(q) = IF s = << >> THEN Undef ELSE Head(s)
  BY <1>9, <1>10 DEF Q!PeekFront
<1>13. Q!PeekBack(q) = IF s = << >> THEN Undef ELSE Q!Last(s)
  BY <1>9, <1>11 DEF Q!PeekBack, Q!Last
<1>14. Q!ListLength(q.list) = q.capacityMask + 1 /\ Q!Size(q) < Q!ListLength(q.list)
  BY <1>1, <1>3
<1>. QED
  BY <1>7, <1>8, <1>12, <1>13, <1>14 DEF Q!RingSound

(***************************************************************************)
(* Nothing that left the queue stays in a slot of Queue.ts, and get,       *)
(* peekFront and peekBack, which compute slots of their own, see the items *)
(* toArray lists.                                                          *)
(***************************************************************************)
THEOREM QueueRingSound ==
  ASSUME QueueAssumption, Undef \notin Value
  PROVE  Q!Spec => []Q!RingSound
<1>1. RingInv(queue) => Q!RingSound
  BY SoundIs
<1>. QED
  BY <1>1, QueueInvariant, PTL

-----------------------------------------------------------------------------
(* LRUCache: the links as a chain of slots. *)

\* o lists the n linked slots between two sentinels.
Chain(next, prev, o, n) ==
  /\ n \in 0..Capacity
  /\ next \in [0..Capacity -> 0..Capacity] /\ prev \in [0..Capacity -> 0..Capacity]
  /\ o \in [0..(n + 1) -> 0..Capacity] /\ o[0] = 0 /\ o[n + 1] = 0
  /\ \A i \in 1..n : o[i] # 0
  /\ \A i, j \in 1..n : o[i] = o[j] => i = j
  /\ \A i \in 0..n : next[o[i]] = o[i + 1] /\ prev[o[i + 1]] = o[i]

On(o, n, s) == \E i \in 1..n : o[i] = s

\* The chain without its p-th slot, and with slot s in front.
Cut(o, n, p) == [i \in 0..n |-> IF i < p THEN o[i] ELSE o[i + 1]]
Led(o, n, s) == [i \in 0..(n + 2) |-> IF i = 0 THEN 0 ELSE IF i = 1 THEN s ELSE o[i - 1]]

LEMMA ChainDiffers ==
  ASSUME NEW next, NEW prev, NEW o, NEW n, Chain(next, prev, o, n)
  PROVE  /\ \A i, j \in 0..n : o[i] = o[j] => i = j
         /\ \A i, j \in 1..(n + 1) : o[i] = o[j] => i = j
<1>1. /\ n \in Nat /\ o[0] = 0 /\ o[n + 1] = 0
      /\ \A i \in 1..n : o[i] # 0
      /\ \A i, j \in 1..n : o[i] = o[j] => i = j
  BY DEF Chain
<1>2. ASSUME NEW i \in 0..n, NEW j \in 0..n, o[i] = o[j]  PROVE i = j
  <2>1. (i = 0 \/ i \in 1..n) /\ (j = 0 \/ j \in 1..n)
    BY <1>1
  <2>. QED
    BY <1>1, <1>2, <2>1
<1>3. ASSUME NEW i \in 1..(n + 1), NEW j \in 1..(n + 1), o[i] = o[j]  PROVE i = j
  <2>1. (i = n + 1 \/ i \in 1..n) /\ (j = n + 1 \/ j \in 1..n)
    BY <1>1
  <2>. QED
    BY <1>1, <1>3, <2>1
<1>. QED
  BY <1>2, <1>3

LEMMA CutIs ==
  ASSUME NEW n \in Nat, NEW o, NEW p \in 1..n
  PROVE  /\ \A i \in 0..(p - 1) : Cut(o, n, p)[i] = o[i]
         /\ \A i \in p..n : Cut(o, n, p)[i] = o[i + 1]
         /\ DOMAIN Cut(o, n, p) = 0..n
<1>1. \A i \in 0..(p - 1) : i \in 0..n /\ i < p
  OBVIOUS
<1>2. \A i \in p..n : i \in 0..n /\ ~(i < p)
  OBVIOUS
<1>. QED
  BY <1>1, <1>2 DEF Cut

\* detach() of the p-th slot: its neighbours are linked to each other.
LEMMA DetachIs ==
  ASSUME CacheAssumption, NEW next, NEW prev, NEW o, NEW n, Chain(next, prev, o, n), NEW p \in 1..n,
         NEW next1, next1 = [next EXCEPT ![prev[o[p]]] = next[o[p]]],
         NEW prev1, prev1 = [prev EXCEPT ![next[o[p]]] = prev[o[p]]]
  PROVE  /\ Chain(next1, prev1, Cut(o, n, p), n - 1)
         /\ \A s : On(Cut(o, n, p), n - 1, s) <=> On(o, n, s) /\ s # o[p]
<1>. DEFINE w == Cut(o, n, p)
<1>0. Capacity \in Nat
  BY DEF CacheAssumption
<1>1. /\ n \in Nat /\ n <= Capacity /\ o[0] = 0 /\ o[n + 1] = 0 /\ n \in 0..Capacity
      /\ next \in [0..Capacity -> 0..Capacity] /\ prev \in [0..Capacity -> 0..Capacity]
      /\ o \in [0..(n + 1) -> 0..Capacity]
      /\ \A i \in 1..n : o[i] # 0
      /\ \A i, j \in 1..n : o[i] = o[j] => i = j
      /\ \A i \in 0..n : next[o[i]] = o[i + 1] /\ prev[o[i + 1]] = o[i]
  BY DEF Chain
<1>2. /\ \A i, j \in 0..n : o[i] = o[j] => i = j
      /\ \A i, j \in 1..(n + 1) : o[i] = o[j] => i = j
  BY ChainDiffers
<1>3. next[o[p]] = o[p + 1] /\ prev[o[p]] = o[p - 1]
  <2>1. p \in 0..n /\ p - 1 \in 0..n /\ (p - 1) + 1 = p
    BY <1>1
  <2>. QED
    BY <1>1, <2>1
<1>4. /\ \A i \in 0..(p - 1) : w[i] = o[i]
      /\ \A i \in p..n : w[i] = o[i + 1]
      /\ DOMAIN w = 0..n
  BY SMTT(20), <1>1, CutIs
<1>5. p - 1 \in 0..n /\ p + 1 \in 1..(n + 1) /\ p \in Nat
  BY <1>1
<1>6. /\ next1 \in [0..Capacity -> 0..Capacity] /\ prev1 \in [0..Capacity -> 0..Capacity]
      /\ \A s \in 0..Capacity : /\ next1[s] = IF s = o[p - 1] THEN o[p + 1] ELSE next[s]
                                /\ prev1[s] = IF s = o[p + 1] THEN o[p - 1] ELSE prev[s]
  <2>1. o[p - 1] \in 0..Capacity /\ o[p + 1] \in 0..Capacity
    BY <1>1, <1>5
  <2>. QED
    BY <1>1, <1>3, <2>1
<1>7. \A i \in 0..n : w[i] \in 0..Capacity /\ o[i] \in 0..Capacity /\ o[i + 1] \in 0..Capacity
  <2>1. ASSUME NEW i \in 0..n  PROVE w[i] \in 0..Capacity /\ o[i] \in 0..Capacity /\ o[i + 1] \in 0..Capacity
    <3>1. i \in 0..(n + 1) /\ i + 1 \in 0..(n + 1) /\ (i \in 0..(p - 1) \/ i \in p..n)
      BY <1>1
    <3>. QED
      BY SMTT(20), <1>1, <1>4, <3>1
  <2>. QED
    BY <2>1
<1>8. w \in [0..((n - 1) + 1) -> 0..Capacity] /\ n - 1 \in 0..Capacity
  <2>1. (n - 1) + 1 = n /\ n - 1 \in 0..Capacity
    BY <1>0, <1>1
  <2>2. w = [i \in 0..n |-> w[i]]
    BY DEF Cut
  <2>. HIDE DEF w
  <2>. QED
    BY <1>7, <2>1, <2>2
<1>. HIDE DEF w
<1>9. w[0] = 0 /\ w[(n - 1) + 1] = 0
  <2>1. 0 \in 0..(p - 1) /\ n \in p..n /\ (n - 1) + 1 = n
    BY <1>1
  <2>. QED
    BY <1>1, <1>4, <2>1
<1>10. ASSUME NEW i \in 0..(n - 1)  PROVE next1[w[i]] = w[i + 1] /\ prev1[w[i + 1]] = w[i]
  <2>0. i \in 0..n /\ i + 1 \in 0..n /\ i + 1 \in 1..(n + 1)
    BY <1>1
  <2>1. CASE i < p - 1
    <3>1. i \in 0..(p - 1) /\ i + 1 \in 0..(p - 1) /\ i # p - 1 /\ i + 1 # p + 1
      BY <2>1
    <3>2. w[i] = o[i] /\ w[i + 1] = o[i + 1] /\ o[i] # o[p - 1] /\ o[i + 1] # o[p + 1]
      BY <1>2, <1>4, <1>5, <2>0, <3>1
    <3>3. next[o[i]] = o[i + 1] /\ prev[o[i + 1]] = o[i]
      BY <1>1, <2>0
    <3>4. o[i] \in 0..Capacity /\ o[i + 1] \in 0..Capacity
      BY <1>7, <2>0
    <3>. QED
      BY SMTT(20), <1>6, <3>2, <3>3, <3>4
  <2>2. CASE i = p - 1
    <3>1. i \in 0..(p - 1) /\ i + 1 \in p..n /\ (i + 1) + 1 = p + 1
      BY <1>1, <2>2
    <3>2. w[i] = o[p - 1] /\ w[i + 1] = o[p + 1]
      BY <1>4, <2>2, <3>1
    <3>. QED
      BY <1>6, <1>7, <2>0, <3>2
  <2>3. CASE i > p - 1
    <3>1. /\ i \in p..n /\ i + 1 \in p..n /\ i + 1 # p - 1 /\ (i + 1) + 1 # p + 1
          /\ (i + 1) + 1 \in 1..(n + 1)
      BY <1>1, <2>3
    <3>2. /\ w[i] = o[i + 1] /\ w[i + 1] = o[(i + 1) + 1] /\ o[i + 1] # o[p - 1]
          /\ o[(i + 1) + 1] # o[p + 1]
      BY <1>2, <1>4, <1>5, <2>0, <3>1
    <3>3. next[o[i + 1]] = o[(i + 1) + 1] /\ prev[o[(i + 1) + 1]] = o[i + 1]
      BY <1>1, <2>0
    <3>4. o[i + 1] \in 0..Capacity /\ o[(i + 1) + 1] \in 0..Capacity
      BY <1>7, <2>0
    <3>. QED
      BY SMTT(20), <1>6, <3>2, <3>3, <3>4
  <2>. QED
    BY <2>1, <2>2, <2>3
<1>. DEFINE at(i) == IF i < p THEN i ELSE i + 1
<1>11. \A i \in 1..(n - 1) : w[i] = o[at(i)] /\ at(i) \in 1..n /\ at(i) # p
  <2>1. ASSUME NEW i \in 1..(n - 1)  PROVE w[i] = o[at(i)] /\ at(i) \in 1..n /\ at(i) # p
    <3>1. CASE i < p
      <4>1. i \in 0..(p - 1)
        BY <3>1
      <4>. QED
        BY <1>1, <1>4, <3>1, <4>1
    <3>2. CASE ~(i < p)
      <4>1. i \in p..n
        BY <1>1, <3>2
      <4>. QED
        BY <1>1, <1>4, <3>2, <4>1
    <3>. QED
      BY <3>1, <3>2
  <2>. QED
    BY <2>1
<1>12. \A i, j \in 1..(n - 1) : at(i) = at(j) => i = j
  BY <1>5
<1>13. ASSUME NEW k \in 1..n, k # p  PROVE \E i \in 1..(n - 1) : at(i) = k
  <2>1. CASE k < p
    <3>1. k \in 1..(n - 1) /\ at(k) = k
      BY <1>1, <2>1
    <3>. QED
      BY <3>1
  <2>2. CASE k > p
    <3>1. k - 1 \in 1..(n - 1) /\ at(k - 1) = k
      BY <1>1, <2>2
    <3>. QED
      BY <3>1
  <2>. QED
    BY <1>13, <2>1, <2>2
<1>. HIDE DEF at
<1>14. \A i, j \in 1..(n - 1) : w[i] = w[j] => i = j
  <2>1. ASSUME NEW i \in 1..(n - 1), NEW j \in 1..(n - 1), w[i] = w[j]  PROVE i = j
    <3>1. /\ w[i] = o[at(i)] /\ at(i) \in 1..n /\ w[j] = o[at(j)] /\ at(j) \in 1..n
      BY <1>11
    <3>2. at(i) = at(j)
      BY <1>1, <2>1, <3>1
    <3>. QED
      BY <1>12, <3>2
  <2>. QED
    BY <2>1
<1>15. ASSUME NEW i \in 1..(n - 1)  PROVE w[i] # 0
  <2>1. w[i] = o[at(i)] /\ at(i) \in 1..n
    BY <1>11
  <2>. QED
    BY <1>1, <2>1
<1>16. Chain(next1, prev1, w, n - 1)
  BY <1>6, <1>8, <1>9, <1>10, <1>14, <1>15 DEF Chain
<1>17. ASSUME NEW s  PROVE On(w, n - 1, s) <=> On(o, n, s) /\ s # o[p]
  <2>1. ASSUME On(w, n - 1, s)  PROVE On(o, n, s) /\ s # o[p]
    <3>1. PICK i \in 1..(n - 1) : w[i] = s
      BY <2>1 DEF On
    <3>2. s = o[at(i)] /\ at(i) \in 1..n /\ at(i) # p
      BY <1>11, <3>1
    <3>3. o[at(i)] # o[p]
      BY <1>1, <3>2
    <3>. QED
      BY <3>2, <3>3 DEF On
  <2>2. ASSUME On(o, n, s), s # o[p]  PROVE On(w, n - 1, s)
    <3>1. PICK k \in 1..n : o[k] = s
      BY <2>2 DEF On
    <3>2. PICK i \in 1..(n - 1) : at(i) = k
      BY <1>13, <2>2, <3>1
    <3>3. w[i] = s
      BY <1>11, <3>1, <3>2
    <3>. QED
      BY <3>3 DEF On
  <2>. QED
    BY <2>1, <2>2
<1>. QED
  BY <1>16, <1>17 DEF w

LEMMA LedIs ==
  ASSUME NEW n \in Nat, NEW o, NEW s
  PROVE  /\ DOMAIN Led(o, n, s) = 0..(n + 2) /\ Led(o, n, s)[0] = 0 /\ Led(o, n, s)[1] = s
         /\ \A i \in 1..(n + 1) : Led(o, n, s)[i + 1] = o[i]
<1>1. \A i \in 1..(n + 1) : i + 1 \in 0..(n + 2) /\ i + 1 # 0 /\ i + 1 # 1 /\ (i + 1) - 1 = i
  OBVIOUS
<1>2. 0 \in 0..(n + 2) /\ 1 \in 0..(n + 2)
  OBVIOUS
<1>. QED
  BY <1>1, <1>2 DEF Led

\* insertAfterSentinel() of a slot that is not linked.
LEMMA InsertIs ==
  ASSUME CacheAssumption, NEW next, NEW prev, NEW o, NEW n, Chain(next, prev, o, n), n < Capacity,
         NEW s \in 1..Capacity, ~On(o, n, s),
         NEW next1, next1 = [next EXCEPT ![0] = s, ![s] = next[0]],
         NEW prev1, prev1 = [prev EXCEPT ![s] = 0, ![next[0]] = s]
  PROVE  /\ Chain(next1, prev1, Led(o, n, s), n + 1)
         /\ \A x : On(Led(o, n, s), n + 1, x) <=> x = s \/ On(o, n, x)
<1>. DEFINE w == Led(o, n, s)
<1>0. Capacity \in Nat
  BY DEF CacheAssumption
<1>1. /\ n \in Nat /\ n <= Capacity /\ o[0] = 0 /\ o[n + 1] = 0 /\ n \in 0..Capacity
      /\ next \in [0..Capacity -> 0..Capacity] /\ prev \in [0..Capacity -> 0..Capacity]
      /\ o \in [0..(n + 1) -> 0..Capacity]
      /\ \A i \in 1..n : o[i] # 0
      /\ \A i, j \in 1..n : o[i] = o[j] => i = j
      /\ \A i \in 0..n : next[o[i]] = o[i + 1] /\ prev[o[i + 1]] = o[i]
  BY DEF Chain
<1>2. /\ \A i, j \in 1..(n + 1) : o[i] = o[j] => i = j
  BY ChainDiffers
<1>3. /\ DOMAIN w = 0..(n + 2) /\ w[0] = 0 /\ w[1] = s
      /\ \A i \in 1..(n + 1) : w[i + 1] = o[i]
  BY <1>1, LedIs
<1>4. \A i \in 0..(n + 1) : o[i] \in 0..Capacity
  BY <1>1
<1>5. next[0] = o[1] /\ 1 \in 0..(n + 1)
  <2>1. 0 \in 0..n /\ 0 + 1 = 1 /\ 1 \in 0..(n + 1)
    BY <1>1
  <2>. QED
    BY <1>1, <2>1
<1>6. s # 0 /\ s \in 0..Capacity /\ 0 \in 0..Capacity
  BY <1>0
<1>7. \A i \in 0..(n + 1) : o[i] # s
  <2>1. ASSUME NEW i \in 0..(n + 1)  PROVE o[i] # s
    <3>1. i = 0 \/ i = n + 1 \/ i \in 1..n
      BY <1>1
    <3>. QED
      BY <1>1, <1>6, <3>1 DEF On
  <2>. QED
    BY <2>1
<1>8. /\ next1 \in [0..Capacity -> 0..Capacity] /\ prev1 \in [0..Capacity -> 0..Capacity]
      /\ \A x \in 0..Capacity : /\ next1[x] = IF x = s THEN o[1] ELSE IF x = 0 THEN s ELSE next[x]
                                /\ prev1[x] = IF x = o[1] THEN s ELSE IF x = s THEN 0 ELSE prev[x]
  <2>1. o[1] \in 0..Capacity
    BY <1>4, <1>5
  <2>. QED
    BY <1>1, <1>5, <1>6, <2>1
<1>9. w = [i \in 0..(n + 2) |-> w[i]]
  BY DEF Led
<1>. HIDE DEF w
<1>10. \A i \in 0..(n + 2) : i = 0 \/ i = 1 \/ \E j \in 1..(n + 1) : i = j + 1 /\ w[i] = o[j]
  <2>1. ASSUME NEW i \in 0..(n + 2), i # 0, i # 1  PROVE \E j \in 1..(n + 1) : i = j + 1 /\ w[i] = o[j]
    <3>1. i - 1 \in 1..(n + 1) /\ i = (i - 1) + 1
      BY <1>1, <2>1
    <3>2. w[(i - 1) + 1] = o[i - 1]
      BY <1>3, <3>1
    <3>. QED
      BY <3>1, <3>2
  <2>. QED
    BY <2>1
<1>11. w \in [0..((n + 1) + 1) -> 0..Capacity] /\ n + 1 \in 0..Capacity
  <2>1. (n + 1) + 1 = n + 2 /\ n + 1 \in 0..Capacity
    BY <1>0, <1>1
  <2>2. ASSUME NEW i \in 0..(n + 2)  PROVE w[i] \in 0..Capacity
    <3>1. \A j \in 1..(n + 1) : j \in 0..(n + 1)
      BY <1>1
    <3>. QED
      BY <1>3, <1>4, <1>6, <1>10, <3>1
  <2>. QED
    BY <1>9, <2>1, <2>2
<1>12. w[(n + 1) + 1] = 0
  <2>1. n + 1 \in 1..(n + 1)
    BY <1>1
  <2>. QED
    BY <1>1, <1>3, <2>1
<1>13. ASSUME NEW i \in 0..(n + 1)  PROVE next1[w[i]] = w[i + 1] /\ prev1[w[i + 1]] = w[i]
  <2>1. CASE i = 0
    <3>1. w[i] = 0 /\ w[i + 1] = s
      BY <1>3, <2>1
    <3>2. o[1] # s
      BY <1>5, <1>7
    <3>. QED
      BY <1>6, <1>8, <3>1, <3>2
  <2>2. CASE i = 1
    <3>1. w[i] = s /\ w[i + 1] = o[1]
      <4>1. 1 \in 1..(n + 1)
        BY <1>1
      <4>. QED
        BY <1>3, <2>2, <4>1
    <3>2. o[1] \in 0..Capacity
      BY <1>4, <1>5
    <3>. QED
      BY <1>6, <1>8, <3>1, <3>2
  <2>3. CASE i # 0 /\ i # 1
    <3>. DEFINE j == i - 1
    <3>1. /\ j \in 1..n /\ j \in 0..n /\ j \in 1..(n + 1) /\ j + 1 \in 1..(n + 1) /\ j + 1 = i
          /\ j \in 0..(n + 1) /\ j + 1 \in 0..(n + 1) /\ j + 1 # 1 /\ 1 \in 1..(n + 1)
      BY <1>1, <2>3
    <3>. HIDE DEF j
    <3>2. w[j + 1] = o[j] /\ w[(j + 1) + 1] = o[j + 1]
      BY <1>3, <3>1
    <3>3. o[j] # 0 /\ o[j] # s /\ o[j + 1] # s /\ o[j + 1] # o[1]
      BY <1>1, <1>2, <1>7, <3>1
    <3>4. next[o[j]] = o[j + 1] /\ prev[o[j + 1]] = o[j]
      BY <1>1, <3>1
    <3>5. o[j] \in 0..Capacity /\ o[j + 1] \in 0..Capacity
      BY <1>4, <3>1
    <3>6. next1[o[j]] = o[j + 1] /\ prev1[o[j + 1]] = o[j]
      BY <1>8, <3>3, <3>4, <3>5
    <3>. QED
      BY <3>1, <3>2, <3>6
  <2>. QED
    BY <2>1, <2>2, <2>3
<1>14. \A i \in 1..(n + 1) : i = 1 \/ \E j \in 1..n : i = j + 1 /\ w[i] = o[j]
  <2>1. ASSUME NEW i \in 1..(n + 1), i # 1  PROVE \E j \in 1..n : i = j + 1 /\ w[i] = o[j]
    <3>1. i - 1 \in 1..n /\ i - 1 \in 1..(n + 1) /\ i = (i - 1) + 1
      BY <1>1, <2>1
    <3>2. w[(i - 1) + 1] = o[i - 1]
      BY <1>3, <3>1
    <3>. QED
      BY <3>1, <3>2
  <2>. QED
    BY <2>1
<1>15. \A j \in 1..n : o[j] # s /\ o[j] # 0
  BY <1>1 DEF On
<1>16. ASSUME NEW i \in 1..(n + 1)  PROVE w[i] # 0
  BY <1>3, <1>6, <1>14, <1>15
<1>17. ASSUME NEW i \in 1..(n + 1), NEW k \in 1..(n + 1), w[i] = w[k]  PROVE i = k
  <2>1. CASE i = 1
    BY <1>3, <1>14, <1>15, <1>17, <2>1
  <2>2. CASE k = 1
    BY <1>3, <1>14, <1>15, <1>17, <2>2
  <2>3. CASE i # 1 /\ k # 1
    <3>1. PICK a \in 1..n : i = a + 1 /\ w[i] = o[a]
      BY <1>14, <2>3
    <3>2. PICK b \in 1..n : k = b + 1 /\ w[k] = o[b]
      BY <1>14, <2>3
    <3>3. a = b
      BY <1>1, <1>17, <3>1, <3>2
    <3>. QED
      BY <3>1, <3>2, <3>3
  <2>. QED
    BY <2>1, <2>2, <2>3
<1>18. Chain(next1, prev1, w, n + 1)
  BY <1>3, <1>8, <1>11, <1>12, <1>13, <1>16, <1>17 DEF Chain
<1>19. ASSUME NEW x  PROVE On(w, n + 1, x) <=> x = s \/ On(o, n, x)
  <2>1. ASSUME On(w, n + 1, x)  PROVE x = s \/ On(o, n, x)
    <3>1. PICK i \in 1..(n + 1) : w[i] = x
      BY <2>1 DEF On
    <3>. QED
      BY <1>3, <1>14, <3>1 DEF On
  <2>2. ASSUME x = s  PROVE On(w, n + 1, x)
    <3>1. 1 \in 1..(n + 1)
      BY <1>1
    <3>. QED
      BY <1>3, <2>2, <3>1 DEF On
  <2>3. ASSUME On(o, n, x)  PROVE On(w, n + 1, x)
    <3>1. PICK j \in 1..n : o[j] = x
      BY <2>3 DEF On
    <3>2. j + 1 \in 1..(n + 1) /\ j \in 1..(n + 1)
      BY <1>1
    <3>3. w[j + 1] = x
      BY <1>3, <3>1, <3>2
    <3>. QED
      BY <3>2, <3>3 DEF On
  <2>. QED
    BY <2>1, <2>2, <2>3
<1>. QED
  BY <1>18, <1>19 DEF w

\* The recursive definition of the walk along the links has a solution.
LEMMA WalkSteps ==
  ASSUME CacheAssumption, NEW links
  PROVE  /\ L!Walk(links)[0] = 0
         /\ \A i \in 1..(Capacity + 1) : L!Walk(links)[i] = links[L!Walk(links)[i - 1]]
<1>. DEFINE N == Capacity + 1
            Body(g, i) == IF i = 0 THEN 0 ELSE links[g[i - 1]]
            P(g, n) == g = [i \in 0..n |-> Body(g, i)]
            Bad == {n \in Nat : ~\E g : P(g, n)}
            F == L!Walk(links)
<1>0. N \in Nat
  BY DEF CacheAssumption
<1>1. Bad = {}
  <2>. SUFFICES ASSUME Bad # {}  PROVE FALSE
    OBVIOUS
  <2>1. PICK m \in Bad : \A k \in Bad : m <= k
    BY LeastExists
  <2>2. CASE m = 0
    <3>. DEFINE h == [i \in 0..0 |-> 0]
    <3>1. P(h, 0)
      OBVIOUS
    <3>. QED
      BY <2>1, <2>2, <3>1
  <2>3. CASE m # 0
    <3>0. m \in Nat
      OBVIOUS
    <3>1. m - 1 \in Nat /\ m - 1 \notin Bad
      <4>. HIDE DEF Bad
      <4>. QED
        BY <2>1, <2>3, <3>0
    <3>2. PICK g : P(g, m - 1)
      BY <3>1
    <3>. DEFINE h == [i \in 0..m |-> IF i < m THEN g[i] ELSE Body(g, m)]
    <3>3. \A i \in 0..(m - 1) : g[i] = Body(g, i)
      <4>. HIDE DEF Body
      <4>. QED
        BY <3>2
    <3>4. ASSUME NEW i \in 0..m  PROVE h[i] = Body(h, i)
      <4>1. CASE i = 0
        <5>1. h[i] = g[0] /\ g[0] = 0
          BY <2>3, <3>1, <3>3, <4>1
        <5>. QED
          BY <4>1, <5>1
      <4>2. CASE i # 0
        <5>1. i - 1 \in 0..m /\ i - 1 < m
          BY <4>2
        <5>2. h[i - 1] = g[i - 1]
          BY <5>1
        <5>3. h[i] = Body(g, i)
          <6>1. CASE i < m
            BY <3>1, <3>3, <6>1
          <6>2. CASE ~(i < m)
            BY <6>2
          <6>. QED
            BY <6>1, <6>2
        <5>. HIDE DEF h
        <5>. QED
          BY <4>2, <5>2, <5>3
      <4>. QED
        BY <4>1, <4>2
    <3>5. P(h, m)
      <4>1. h = [i \in 0..m |-> h[i]]
        OBVIOUS
      <4>. HIDE DEF h, Body
      <4>. QED
        BY <3>4, <4>1
    <3>. QED
      BY <2>1, <3>5
  <2>. QED
    BY <2>2, <2>3
<1>2. \E g : P(g, N)
  BY <1>0, <1>1
<1>3. F = CHOOSE g : P(g, N)
  BY DEF L!Walk, L!SENTINEL
<1>4. P(F, N)
  <2>. HIDE DEF P, F
  <2>. QED
    BY <1>2, <1>3
<1>. HIDE DEF F
<1>5. \A i \in 0..N : F[i] = Body(F, i)
  <2>. HIDE DEF Body
  <2>. QED
    BY <1>4
<1>6. F[0] = 0
  BY <1>0, <1>5
<1>7. ASSUME NEW i \in 1..N  PROVE F[i] = links[F[i - 1]]
  <2>1. i \in 0..N /\ i # 0
    BY <1>0
  <2>2. F[i] = Body(F, i)
    BY <1>5, <2>1
  <2>. QED
    BY <2>1, <2>2
<1>. QED
  BY <1>6, <1>7 DEF F

\* Links that go through the slots of w are walked in the order of w.
LEMMA WalkIs ==
  ASSUME CacheAssumption, NEW links, NEW n \in 0..Capacity, NEW w, w[0] = 0,
         \A i \in 0..n : links[w[i]] = w[i + 1]
  PROVE  \A i \in 0..(n + 1) : L!Walk(links)[i] = w[i]
<1>. DEFINE F == L!Walk(links)
            Bad == {i \in 0..(n + 1) : F[i] # w[i]}
<1>0. Capacity \in Nat /\ n \in Nat /\ n <= Capacity
  BY DEF CacheAssumption
<1>1. F[0] = 0 /\ \A i \in 1..(Capacity + 1) : F[i] = links[F[i - 1]]
  BY WalkSteps
<1>. HIDE DEF F
<1>2. Bad = {}
  <2>. SUFFICES ASSUME Bad # {}  PROVE FALSE
    OBVIOUS
  <2>0. Bad \in SUBSET Nat
    BY <1>0
  <2>1. PICK m \in Bad : \A k \in Bad : m <= k
    BY <2>0, LeastExists
  <2>2. m \in 0..(n + 1) /\ F[m] # w[m]
    OBVIOUS
  <2>3. m # 0
    BY <1>1, <2>2
  <2>4. /\ m - 1 \in 0..(n + 1) /\ m - 1 \in 0..n /\ (m - 1) + 1 = m /\ ~(m <= m - 1)
        /\ m \in 1..(Capacity + 1)
    BY <1>0, <2>2, <2>3
  <2>5. F[m - 1] = w[m - 1]
    <3>1. m - 1 \notin Bad
      <4>. HIDE DEF Bad
      <4>. QED
        BY <2>1, <2>4
    <3>. QED
      BY <2>4, <3>1
  <2>6. F[m] = links[F[m - 1]] /\ links[w[m - 1]] = w[(m - 1) + 1]
    BY <1>1, <2>4
  <2>. QED
    BY <2>2, <2>4, <2>5, <2>6
<1>. QED
  BY <1>2 DEF F

LEMMA ChainWalk ==
  ASSUME CacheAssumption, NEW next, NEW prev, NEW o, NEW n, Chain(next, prev, o, n)
  PROVE  /\ \A i \in 0..(n + 1) : L!Walk(next)[i] = o[i]
         /\ \A i \in 0..(n + 1) : L!Walk(prev)[i] = o[n + 1 - i]
<1>1. /\ n \in 0..Capacity /\ n \in Nat /\ o[0] = 0 /\ o[n + 1] = 0
      /\ \A i \in 0..n : next[o[i]] = o[i + 1] /\ prev[o[i + 1]] = o[i]
  BY DEF Chain
<1>2. \A i \in 0..(n + 1) : L!Walk(next)[i] = o[i]
  BY <1>1, WalkIs
<1>. DEFINE w == [i \in 0..(n + 1) |-> o[n + 1 - i]]
<1>3. w[0] = 0 /\ \A i \in 0..(n + 1) : w[i] = o[n + 1 - i]
  <2>1. 0 \in 0..(n + 1) /\ n + 1 - 0 = n + 1
    BY <1>1
  <2>. QED
    BY <1>1, <2>1
<1>. HIDE DEF w
<1>4. ASSUME NEW i \in 0..n  PROVE prev[w[i]] = w[i + 1]
  <2>. DEFINE j == n - i
  <2>1. /\ j \in 0..n /\ n + 1 - i = j + 1 /\ n + 1 - (i + 1) = j
        /\ i \in 0..(n + 1) /\ i + 1 \in 0..(n + 1)
    BY <1>1
  <2>. HIDE DEF j
  <2>2. w[i] = o[j + 1] /\ w[i + 1] = o[j]
    BY <1>3, <2>1
  <2>. QED
    BY <1>1, <2>1, <2>2
<1>5. \A i \in 0..(n + 1) : L!Walk(prev)[i] = w[i]
  BY <1>1, <1>3, <1>4, WalkIs
<1>. QED
  BY <1>2, <1>3, <1>5

\* The entries in the order of a chain.
Listing(keys, vals, o, n) == [i \in 1..n |-> [key |-> keys[o[i]], val |-> vals[o[i]]]]
Filled(keys, vals, o, n) == \A i \in 1..n : keys[o[i]] \in Key /\ vals[o[i]] \in Value
Pair == [key : Key, val : Value]

LEMMA ListingIs ==
  ASSUME NEW n \in Nat, NEW o, NEW keys, NEW vals,
         Filled(keys, vals, o, n)
  PROVE  /\ Listing(keys, vals, o, n) \in Seq(Pair) /\ Len(Listing(keys, vals, o, n)) = n
         /\ DOMAIN Listing(keys, vals, o, n) = 1..n
         /\ \A i \in 1..n : Listing(keys, vals, o, n)[i] = [key |-> keys[o[i]], val |-> vals[o[i]]]
<1>1. \A i \in 1..n : [key |-> keys[o[i]], val |-> vals[o[i]]] \in Pair
  BY DEF Pair, Filled
<1>. QED
  BY <1>1 DEF Listing

LEMMA EntriesAre ==
  ASSUME CacheAssumption, NEW c, NEW o, Chain(c.next, c.prev, o, c.size)
  PROVE  L!Entries(c) = Listing(c.keys, c.vals, o, c.size)
<1>1. \A i \in 0..(c.size + 1) : L!Walk(c.next)[i] = o[i]
  BY ChainWalk
<1>2. \A i \in 1..c.size : i \in 0..(c.size + 1)
  BY DEF Chain
<1>3. \A i \in 1..c.size : L!Walk(c.next)[i] = o[i]
  BY <1>1, <1>2
<1>. QED
  BY <1>3 DEF L!Entries, Listing

LEMMA ListingCut ==
  ASSUME NEW n \in Nat, NEW o, NEW keys, NEW vals, NEW p \in 1..n,
         Filled(keys, vals, o, n)
  PROVE  Listing(keys, vals, Cut(o, n, p), n - 1) = RemoveAt(Listing(keys, vals, o, n), p)
<1>. DEFINE s == Listing(keys, vals, o, n)
            w == Cut(o, n, p)
            u == Listing(keys, vals, w, n - 1)
            E(x) == [key |-> keys[x], val |-> vals[x]]
            a == SubSeq(s, 1, p - 1)
            b == SubSeq(s, p + 1, n)
<1>1. /\ s \in Seq(Pair) /\ Len(s) = n /\ \A i \in 1..n : s[i] = E(o[i])
  <2>. HIDE DEF s
  <2>1. /\ s \in Seq(Pair) /\ Len(s) = n
        /\ \A i \in 1..n : s[i] = [key |-> keys[o[i]], val |-> vals[o[i]]]
    BY ListingIs DEF s
  <2>. QED
    BY <2>1
<1>2. /\ \A i \in 0..(p - 1) : w[i] = o[i]
      /\ \A i \in p..n : w[i] = o[i + 1]
  BY CutIs
<1>3. u = [i \in 1..(n - 1) |-> E(w[i])]
  BY DEF Listing
<1>. HIDE DEF s, w, u, E
<1>4. \A i \in 1..(n - 1) : u[i] = IF i < p THEN s[i] ELSE s[i + 1]
  <2>1. ASSUME NEW i \in 1..(n - 1)  PROVE u[i] = IF i < p THEN s[i] ELSE s[i + 1]
    <3>1. u[i] = E(w[i]) /\ i \in 1..n /\ i + 1 \in 1..n
      BY <1>3
    <3>2. CASE i < p
      <4>1. i \in 0..(p - 1)
        BY <3>2
      <4>. QED
        BY <1>1, <1>2, <3>1, <3>2, <4>1
    <3>3. CASE ~(i < p)
      <4>1. i \in p..n
        BY <3>3
      <4>. QED
        BY <1>1, <1>2, <3>1, <3>3, <4>1
    <3>. QED
      BY <3>2, <3>3
  <2>. QED
    BY <2>1
<1>5. RemoveAt(s, p) = a \o b
  BY <1>1 DEF RemoveAt
<1>6. /\ a \in Seq(Pair) /\ Len(a) = p - 1 /\ (\A i \in 1..(p - 1) : a[i] = s[i])
  <2>1. \A i \in 1..(p - 1) : s[i] \in Pair
    BY <1>1
  <2>. QED
    BY <1>1, <2>1
<1>7. /\ b \in Seq(Pair) /\ Len(b) = n - p /\ (\A i \in 1..(n - p) : b[i] = s[p + i])
  <2>1. \A i \in (p + 1)..n : s[i] \in Pair
    BY <1>1
  <2>. QED
    BY <1>1, <2>1
<1>. HIDE DEF a, b
<1>8. /\ a \o b \in Seq(Pair) /\ Len(a \o b) = n - 1
      /\ \A i \in 1..(n - 1) : (a \o b)[i] = IF i <= p - 1 THEN a[i] ELSE b[i - (p - 1)]
  <2>1. /\ a \o b \in Seq(Pair) /\ Len(a \o b) = Len(a) + Len(b)
        /\ \A i \in 1..(Len(a) + Len(b)) : (a \o b)[i] = IF i <= Len(a) THEN a[i] ELSE b[i - Len(a)]
    BY <1>6, <1>7, ConcatProperties
  <2>2. Len(a) + Len(b) = n - 1
    BY <1>6, <1>7
  <2>. QED
    BY <1>6, <2>1, <2>2
<1>9. ASSUME NEW i \in 1..(n - 1)  PROVE (a \o b)[i] = u[i]
  <2>1. CASE i < p
    <3>1. i \in 1..(p - 1) /\ i <= p - 1
      BY <2>1
    <3>. QED
      BY <1>4, <1>6, <1>8, <2>1, <3>1
  <2>2. CASE ~(i < p)
    <3>1. i - (p - 1) \in 1..(n - p) /\ ~(i <= p - 1) /\ p + (i - (p - 1)) = i + 1
      BY <2>2
    <3>2. (a \o b)[i] = b[i - (p - 1)]
      BY <1>8, <3>1
    <3>3. b[i - (p - 1)] = s[i + 1]
      BY <1>7, <3>1
    <3>. QED
      BY <1>4, <2>2, <3>2, <3>3
  <2>. QED
    BY <2>1, <2>2
<1>10. a \o b = [i \in 1..(n - 1) |-> (a \o b)[i]]
  <2>. DEFINE z == a \o b
  <2>. HIDE DEF z
  <2>1. z \in Seq(Pair) /\ Len(z) = n - 1
    BY <1>8 DEF z
  <2>2. z = [i \in 1..(n - 1) |-> z[i]]
    BY <2>1
  <2>. QED
    BY <2>2 DEF z
<1>11. u = [i \in 1..(n - 1) |-> u[i]]
  BY <1>3
<1>12. u = a \o b
  <2>. DEFINE z == a \o b
  <2>1. \A i \in 1..(n - 1) : z[i] = u[i]
    BY <1>9
  <2>2. z = [i \in 1..(n - 1) |-> z[i]]
    BY <1>10
  <2>. HIDE DEF z
  <2>3. u = z
    BY <1>11, <2>1, <2>2
  <2>. QED
    BY <2>3 DEF z
<1>. QED
  BY <1>5, <1>12 DEF s, u, w

LEMMA ListingLed ==
  ASSUME NEW n \in Nat, NEW o, NEW keys, NEW vals, NEW x,
         Filled(keys, vals, o, n),
         keys[x] \in Key, vals[x] \in Value
  PROVE  Listing(keys, vals, Led(o, n, x), n + 1) =
           <<[key |-> keys[x], val |-> vals[x]]>> \o Listing(keys, vals, o, n)
<1>. DEFINE s == Listing(keys, vals, o, n)
            w == Led(o, n, x)
            u == Listing(keys, vals, w, n + 1)
            E(y) == [key |-> keys[y], val |-> vals[y]]
            e == E(x)
            a == <<e>>
            z == a \o s
<1>1. /\ s \in Seq(Pair) /\ Len(s) = n /\ \A i \in 1..n : s[i] = E(o[i])
  <2>. HIDE DEF s
  <2>1. /\ s \in Seq(Pair) /\ Len(s) = n
        /\ \A i \in 1..n : s[i] = [key |-> keys[o[i]], val |-> vals[o[i]]]
    BY ListingIs DEF s
  <2>. QED
    BY <2>1
<1>2. w[1] = x /\ \A i \in 1..(n + 1) : w[i + 1] = o[i]
  BY LedIs
<1>3. u = [i \in 1..(n + 1) |-> E(w[i])]
  BY DEF Listing
<1>4. e \in Pair
  BY DEF Pair
<1>5. a \in Seq(Pair) /\ Len(a) = 1 /\ a[1] = e
  <2>. HIDE DEF e
  <2>. QED
    BY <1>4
<1>6. E(x) = e
  OBVIOUS
<1>. HIDE DEF s, w, u, E, e, a
<1>7. /\ z \in Seq(Pair) /\ Len(z) = n + 1
      /\ \A i \in 1..(n + 1) : z[i] = IF i <= 1 THEN a[i] ELSE s[i - 1]
  <2>1. /\ a \o s \in Seq(Pair) /\ Len(a \o s) = Len(a) + Len(s)
        /\ \A i \in 1..(Len(a) + Len(s)) : (a \o s)[i] = IF i <= Len(a) THEN a[i] ELSE s[i - Len(a)]
    BY <1>1, <1>5, ConcatProperties
  <2>2. Len(a) + Len(s) = n + 1
    BY <1>1, <1>5
  <2>. QED
    BY <1>5, <2>1, <2>2
<1>. HIDE DEF z
<1>8. ASSUME NEW i \in 1..(n + 1)  PROVE z[i] = u[i]
  <2>1. u[i] = E(w[i])
    BY <1>3
  <2>2. CASE i = 1
    BY <1>2, <1>5, <1>6, <1>7, <2>1, <2>2
  <2>3. CASE i # 1
    <3>1. i - 1 \in 1..n /\ i - 1 \in 1..(n + 1) /\ (i - 1) + 1 = i /\ ~(i <= 1)
      BY <2>3
    <3>2. z[i] = s[i - 1] /\ w[i] = o[i - 1]
      BY <1>2, <1>7, <3>1
    <3>. QED
      BY <1>1, <2>1, <3>1, <3>2
  <2>. QED
    BY <2>2, <2>3
<1>9. z = [i \in 1..(n + 1) |-> z[i]]
  BY <1>7
<1>10. u = [i \in 1..(n + 1) |-> u[i]]
  BY <1>3
<1>11. u = z
  BY <1>8, <1>9, <1>10
<1>. QED
  BY <1>11 DEF u, z, a, e, E, s, w

-----------------------------------------------------------------------------
(* LRUCache: the map, the free slots and the chain share out the slots. *)

Spare(fr, s) == \E j \in 1..Len(fr) : fr[j] = s

BooksType(ks, vs, ix, fr) ==
  /\ ks \in [0..Capacity -> Key \cup {Undef}] /\ vs \in [0..Capacity -> Value \cup {Undef}]
  /\ ix \in [Key -> (1..Capacity) \cup {Undef}] /\ fr \in Seq(1..Capacity)

\* The map finds exactly the linked slots; every other slot is free, once, and
\* holds nothing.
Books(ks, vs, ix, fr, n, o) ==
  /\ BooksType(ks, vs, ix, fr)
  /\ \A s \in 1..Capacity : On(o, n, s) => ks[s] \in Key /\ vs[s] \in Value /\ ix[ks[s]] = s
  /\ \A k \in Key : ix[k] # Undef => On(o, n, ix[k]) /\ ks[ix[k]] = k
  /\ Len(fr) = Capacity - n
  /\ \A i, j \in 1..Len(fr) : fr[i] = fr[j] => i = j
  /\ \A s \in 1..Capacity : On(o, n, s) <=> ~Spare(fr, s)
  /\ \A s \in 1..Capacity : Spare(fr, s) => ks[s] = Undef /\ vs[s] = Undef

LEMMA SameBooks ==
  ASSUME NEW ks, NEW vs, NEW ix, NEW fr, NEW n, NEW o, NEW w, Books(ks, vs, ix, fr, n, o),
         \A s : On(w, n, s) <=> On(o, n, s)
  PROVE  Books(ks, vs, ix, fr, n, w)
BY DEF Books

LEMMA ValueBooks ==
  ASSUME NEW ks, NEW vs, NEW ix, NEW fr, NEW n, NEW o, Books(ks, vs, ix, fr, n, o),
         NEW s \in 1..Capacity, On(o, n, s), NEW v \in Value
  PROVE  Books(ks, [vs EXCEPT ![s] = v], ix, fr, n, o)
<1>. DEFINE vs1 == [vs EXCEPT ![s] = v]
<1>1. BooksType(ks, vs, ix, fr) /\ ~Spare(fr, s)
  BY DEF Books
<1>2. vs \in [0..Capacity -> Value \cup {Undef}] /\ s \in 0..Capacity
      /\ \A x \in 1..Capacity : x \in 0..Capacity
  BY <1>1 DEF BooksType
<1>3. /\ vs1 \in [0..Capacity -> Value \cup {Undef}]
      /\ \A x \in 1..Capacity : vs1[x] = IF x = s THEN v ELSE vs[x]
  BY <1>2
<1>4. BooksType(ks, vs1, ix, fr)
  BY <1>1, <1>3 DEF BooksType
<1>. HIDE DEF vs1
<1>5. \A x \in 1..Capacity : On(o, n, x) => ks[x] \in Key /\ vs1[x] \in Value /\ ix[ks[x]] = x
  BY <1>3 DEF Books
<1>6. \A x \in 1..Capacity : Spare(fr, x) => ks[x] = Undef /\ vs1[x] = Undef
  BY <1>1, <1>3 DEF Books
<1>. QED
  BY <1>4, <1>5, <1>6 DEF Books, vs1

LEMMA FreeBooks ==
  ASSUME CacheAssumption, NEW ks, NEW vs, NEW ix, NEW fr, NEW n \in 0..Capacity, NEW o, NEW w,
         Books(ks, vs, ix, fr, n, o), fr # << >>, NEW s, s = fr[Len(fr)],
         NEW k \in Key, ix[k] = Undef, NEW v \in Value,
         \A x : On(w, n + 1, x) <=> x = s \/ On(o, n, x)
  PROVE  Books([ks EXCEPT ![s] = k], [vs EXCEPT ![s] = v], [ix EXCEPT ![k] = s],
               SubSeq(fr, 1, Len(fr) - 1), n + 1, w)
<1>. DEFINE ks1 == [ks EXCEPT ![s] = k]
            vs1 == [vs EXCEPT ![s] = v]
            ix1 == [ix EXCEPT ![k] = s]
            m == Len(fr)
            fr1 == SubSeq(fr, 1, m - 1)
<1>0. Capacity \in Nat /\ Undef \notin 1..Capacity
  BY DEF CacheAssumption
<1>1. BooksType(ks, vs, ix, fr)
  BY DEF Books
<1>2. /\ ks \in [0..Capacity -> Key \cup {Undef}] /\ vs \in [0..Capacity -> Value \cup {Undef}]
      /\ ix \in [Key -> (1..Capacity) \cup {Undef}] /\ fr \in Seq(1..Capacity)
  BY <1>1 DEF BooksType
<1>3. m \in Nat /\ m >= 1 /\ m = Capacity - n /\ \A i, j \in 1..m : fr[i] = fr[j] => i = j
  <2>1. m \in Nat /\ m >= 1
    BY <1>2
  <2>. QED
    BY <2>1 DEF Books
<1>4. s \in 1..Capacity /\ s \in 0..Capacity /\ Spare(fr, s) /\ (\A x \in 1..Capacity : x \in 0..Capacity)
  <2>1. m \in 1..m
    BY <1>3
  <2>2. s \in 1..Capacity
    BY <1>2, <2>1, ElementOfSeq
  <2>. QED
    BY <1>0, <2>1, <2>2 DEF Spare
<1>5. ~On(o, n, s)
  BY <1>4 DEF Books
<1>6. /\ fr1 \in Seq(1..Capacity) /\ Len(fr1) = m - 1 /\ \A i \in 1..(m - 1) : fr1[i] = fr[i]
  <2>1. \A i \in 1..(m - 1) : fr[i] \in 1..Capacity
    <3>1. \A i \in 1..(m - 1) : i \in 1..m
      BY <1>3
    <3>. QED
      BY <1>2, <3>1, ElementOfSeq
  <2>. QED
    BY <1>2, <1>3, <2>1
<1>. HIDE DEF fr1
<1>7. \A x : Spare(fr1, x) <=> Spare(fr, x) /\ x # s
  <2>1. ASSUME NEW x, Spare(fr1, x)  PROVE Spare(fr, x) /\ x # s
    <3>1. PICK j \in 1..(m - 1) : fr1[j] = x
      BY <1>6, <2>1 DEF Spare
    <3>2. j \in 1..m /\ j # m /\ m \in 1..m
      BY <1>3
    <3>3. x = fr[j] /\ fr[j] # fr[m]
      BY <1>3, <1>6, <3>1, <3>2
    <3>. QED
      BY <3>2, <3>3 DEF Spare
  <2>2. ASSUME NEW x, Spare(fr, x), x # s  PROVE Spare(fr1, x)
    <3>1. PICK j \in 1..m : fr[j] = x
      BY <2>2 DEF Spare
    <3>2. j \in 1..(m - 1)
      BY <1>3, <2>2, <3>1
    <3>. QED
      BY <1>6, <3>1, <3>2 DEF Spare
  <2>. QED
    BY <2>1, <2>2
<1>8. /\ \A x \in 1..Capacity : /\ ks1[x] = IF x = s THEN k ELSE ks[x]
                                /\ vs1[x] = IF x = s THEN v ELSE vs[x]
      /\ \A y \in Key : ix1[y] = IF y = k THEN s ELSE ix[y]
  BY <1>2, <1>4
<1>9. BooksType(ks1, vs1, ix1, fr1)
  <2>1. /\ ks1 \in [0..Capacity -> Key \cup {Undef}] /\ vs1 \in [0..Capacity -> Value \cup {Undef}]
        /\ ix1 \in [Key -> (1..Capacity) \cup {Undef}]
    BY <1>2, <1>4
  <2>. QED
    BY <1>6, <2>1 DEF BooksType
<1>. HIDE DEF ks1, vs1, ix1
<1>10. ASSUME NEW x \in 1..Capacity, On(w, n + 1, x)
       PROVE  ks1[x] \in Key /\ vs1[x] \in Value /\ ix1[ks1[x]] = x
  <2>1. CASE x = s
    BY <1>8, <2>1
  <2>2. CASE x # s
    <3>1. On(o, n, x)
      BY <1>10, <2>2
    <3>2. ks[x] \in Key /\ vs[x] \in Value /\ ix[ks[x]] = x
      BY <3>1 DEF Books
    <3>3. ks[x] # k
      BY <1>0, <3>2
    <3>. QED
      BY <1>8, <2>2, <3>2, <3>3
  <2>. QED
    BY <2>1, <2>2
<1>11. ASSUME NEW y \in Key, ix1[y] # Undef  PROVE On(w, n + 1, ix1[y]) /\ ks1[ix1[y]] = y
  <2>1. CASE y = k
    BY <1>4, <1>8, <2>1
  <2>2. CASE y # k
    <3>1. ix1[y] = ix[y]
      BY <1>8, <2>2
    <3>2. On(o, n, ix[y]) /\ ks[ix[y]] = y /\ ix[y] \in 1..Capacity
      BY <1>2, <1>11, <3>1 DEF Books
    <3>3. ix[y] # s
      BY <1>5, <3>2
    <3>. QED
      BY <1>8, <3>1, <3>2, <3>3
  <2>. QED
    BY <2>1, <2>2
<1>12. Len(fr1) = Capacity - (n + 1)
  BY <1>0, <1>3, <1>6
<1>13. ASSUME NEW i \in 1..Len(fr1), NEW j \in 1..Len(fr1), fr1[i] = fr1[j]  PROVE i = j
  <2>1. i \in 1..(m - 1) /\ j \in 1..(m - 1) /\ i \in 1..m /\ j \in 1..m
    BY <1>3, <1>6
  <2>. QED
    BY <1>3, <1>6, <1>13, <2>1
<1>14. \A x \in 1..Capacity : On(w, n + 1, x) <=> ~Spare(fr1, x)
  <2>1. \A x \in 1..Capacity : On(o, n, x) <=> ~Spare(fr, x)
    BY DEF Books
  <2>. QED
    BY <1>7, <2>1
<1>15. \A x \in 1..Capacity : Spare(fr1, x) => ks1[x] = Undef /\ vs1[x] = Undef
  <2>1. \A x \in 1..Capacity : Spare(fr, x) => ks[x] = Undef /\ vs[x] = Undef
    BY DEF Books
  <2>. QED
    BY <1>7, <1>8, <2>1
<1>16. Books(ks1, vs1, ix1, fr1, n + 1, w)
  BY <1>9, <1>10, <1>11, <1>12, <1>13, <1>14, <1>15 DEF Books
<1>. QED
  BY <1>16 DEF ks1, vs1, ix1, fr1

LEMMA EvictBooks ==
  ASSUME CacheAssumption, NEW ks, NEW vs, NEW ix, NEW fr, NEW n \in 0..Capacity, NEW o, NEW w,
         Books(ks, vs, ix, fr, n, o), NEW s \in 1..Capacity, On(o, n, s),
         NEW k \in Key, ix[k] = Undef, NEW v \in Value,
         \A x : On(w, n, x) <=> On(o, n, x)
  PROVE  Books([ks EXCEPT ![s] = k], [vs EXCEPT ![s] = v],
               [[ix EXCEPT ![ks[s]] = Undef] EXCEPT ![k] = s], fr, n, w)
<1>. DEFINE ks1 == [ks EXCEPT ![s] = k]
            vs1 == [vs EXCEPT ![s] = v]
            ix1 == [[ix EXCEPT ![ks[s]] = Undef] EXCEPT ![k] = s]
<1>0. Capacity \in Nat /\ Undef \notin 1..Capacity
  BY DEF CacheAssumption
<1>1. BooksType(ks, vs, ix, fr) /\ ~Spare(fr, s) /\ ks[s] \in Key /\ ix[ks[s]] = s
  BY DEF Books
<1>2. /\ ks \in [0..Capacity -> Key \cup {Undef}] /\ vs \in [0..Capacity -> Value \cup {Undef}]
      /\ ix \in [Key -> (1..Capacity) \cup {Undef}] /\ fr \in Seq(1..Capacity)
  BY <1>1 DEF BooksType
<1>3. s \in 0..Capacity /\ ks[s] # k /\ \A x \in 1..Capacity : x \in 0..Capacity
  BY <1>0, <1>1
<1>4. /\ \A x \in 1..Capacity : /\ ks1[x] = IF x = s THEN k ELSE ks[x]
                                /\ vs1[x] = IF x = s THEN v ELSE vs[x]
      /\ \A y \in Key : ix1[y] = IF y = k THEN s ELSE IF y = ks[s] THEN Undef ELSE ix[y]
  BY <1>1, <1>2, <1>3
<1>5. BooksType(ks1, vs1, ix1, fr)
  <2>1. /\ ks1 \in [0..Capacity -> Key \cup {Undef}] /\ vs1 \in [0..Capacity -> Value \cup {Undef}]
        /\ ix1 \in [Key -> (1..Capacity) \cup {Undef}]
    BY <1>1, <1>2, <1>3
  <2>. QED
    BY <1>2, <2>1 DEF BooksType
<1>. HIDE DEF ks1, vs1, ix1
<1>6. ASSUME NEW x \in 1..Capacity, On(w, n, x)
       PROVE  ks1[x] \in Key /\ vs1[x] \in Value /\ ix1[ks1[x]] = x
  <2>1. CASE x = s
    BY <1>4, <2>1
  <2>2. CASE x # s
    <3>1. ks[x] \in Key /\ vs[x] \in Value /\ ix[ks[x]] = x
      BY <1>6 DEF Books
    <3>2. ks[x] # k /\ ks[x] # ks[s]
      BY <1>0, <1>1, <2>2, <3>1
    <3>. QED
      BY <1>4, <2>2, <3>1, <3>2
  <2>. QED
    BY <2>1, <2>2
<1>7. ASSUME NEW y \in Key, ix1[y] # Undef  PROVE On(w, n, ix1[y]) /\ ks1[ix1[y]] = y
  <2>1. CASE y = k
    BY <1>4, <2>1
  <2>2. CASE y # k
    <3>1. ix1[y] = ix[y] /\ y # ks[s]
      BY <1>4, <1>7, <2>2
    <3>2. On(o, n, ix[y]) /\ ks[ix[y]] = y /\ ix[y] \in 1..Capacity
      BY <1>2, <1>7, <3>1 DEF Books
    <3>3. ix[y] # s
      BY <3>1, <3>2
    <3>. QED
      BY <1>4, <3>1, <3>2, <3>3
  <2>. QED
    BY <2>1, <2>2
<1>8. \A x \in 1..Capacity : Spare(fr, x) => ks1[x] = Undef /\ vs1[x] = Undef
  <2>1. \A x \in 1..Capacity : Spare(fr, x) => ks[x] = Undef /\ vs[x] = Undef
    BY DEF Books
  <2>. QED
    BY <1>1, <1>4, <2>1
<1>9. /\ Len(fr) = Capacity - n
      /\ \A i, j \in 1..Len(fr) : fr[i] = fr[j] => i = j
      /\ \A x \in 1..Capacity : On(w, n, x) <=> ~Spare(fr, x)
  BY DEF Books
<1>10. Books(ks1, vs1, ix1, fr, n, w)
  BY <1>5, <1>6, <1>7, <1>8, <1>9 DEF Books
<1>. QED
  BY <1>10 DEF ks1, vs1, ix1

LEMMA DropBooks ==
  ASSUME CacheAssumption, NEW ks, NEW vs, NEW ix, NEW fr, NEW n \in 0..Capacity, NEW o, NEW w,
         Books(ks, vs, ix, fr, n, o), NEW s \in 1..Capacity, On(o, n, s),
         \A x : On(w, n - 1, x) <=> On(o, n, x) /\ x # s
  PROVE  Books([ks EXCEPT ![s] = Undef], [vs EXCEPT ![s] = Undef], [ix EXCEPT ![ks[s]] = Undef],
               Append(fr, s), n - 1, w)
<1>. DEFINE ks1 == [ks EXCEPT ![s] = Undef]
            vs1 == [vs EXCEPT ![s] = Undef]
            ix1 == [ix EXCEPT ![ks[s]] = Undef]
            fr1 == Append(fr, s)
            m == Len(fr)
<1>0. Capacity \in Nat /\ Undef \notin 1..Capacity
  BY DEF CacheAssumption
<1>1. BooksType(ks, vs, ix, fr) /\ ~Spare(fr, s) /\ ks[s] \in Key /\ ix[ks[s]] = s
  BY DEF Books
<1>2. /\ ks \in [0..Capacity -> Key \cup {Undef}] /\ vs \in [0..Capacity -> Value \cup {Undef}]
      /\ ix \in [Key -> (1..Capacity) \cup {Undef}] /\ fr \in Seq(1..Capacity)
  BY <1>1 DEF BooksType
<1>3. s \in 0..Capacity /\ \A x \in 1..Capacity : x \in 0..Capacity
  BY <1>0
<1>4. /\ \A x \in 1..Capacity : /\ ks1[x] = IF x = s THEN Undef ELSE ks[x]
                                /\ vs1[x] = IF x = s THEN Undef ELSE vs[x]
      /\ \A y \in Key : ix1[y] = IF y = ks[s] THEN Undef ELSE ix[y]
  BY <1>1, <1>2, <1>3
<1>5. m \in Nat /\ m = Capacity - n /\ \A i, j \in 1..m : fr[i] = fr[j] => i = j
  BY <1>2 DEF Books
<1>6. /\ fr1 \in Seq(1..Capacity) /\ Len(fr1) = m + 1 /\ fr1[m + 1] = s
      /\ \A i \in 1..m : fr1[i] = fr[i]
  BY <1>2, AppendProperties
<1>7. BooksType(ks1, vs1, ix1, fr1)
  <2>1. /\ ks1 \in [0..Capacity -> Key \cup {Undef}] /\ vs1 \in [0..Capacity -> Value \cup {Undef}]
        /\ ix1 \in [Key -> (1..Capacity) \cup {Undef}]
    BY <1>1, <1>2, <1>3
  <2>. QED
    BY <1>6, <2>1 DEF BooksType
<1>. HIDE DEF ks1, vs1, ix1, fr1
<1>8. \A x : Spare(fr1, x) <=> Spare(fr, x) \/ x = s
  <2>1. ASSUME NEW x, Spare(fr1, x)  PROVE Spare(fr, x) \/ x = s
    <3>1. PICK j \in 1..(m + 1) : fr1[j] = x
      BY <1>6, <2>1 DEF Spare
    <3>2. j = m + 1 \/ j \in 1..m
      BY <1>5
    <3>. QED
      BY <1>6, <3>1, <3>2 DEF Spare
  <2>2. ASSUME NEW x, Spare(fr, x)  PROVE Spare(fr1, x)
    <3>1. PICK j \in 1..m : fr[j] = x
      BY <2>2 DEF Spare
    <3>2. j \in 1..(m + 1)
      BY <1>5
    <3>. QED
      BY <1>6, <3>1, <3>2 DEF Spare
  <2>3. Spare(fr1, s)
    <3>1. m + 1 \in 1..(m + 1)
      BY <1>5
    <3>. QED
      BY <1>6, <3>1 DEF Spare
  <2>. QED
    BY <2>1, <2>2, <2>3
<1>9. ASSUME NEW x \in 1..Capacity, On(w, n - 1, x)
      PROVE  ks1[x] \in Key /\ vs1[x] \in Value /\ ix1[ks1[x]] = x
  <2>1. On(o, n, x) /\ x # s
    BY <1>9
  <2>2. ks[x] \in Key /\ vs[x] \in Value /\ ix[ks[x]] = x
    BY <2>1 DEF Books
  <2>3. ks[x] # ks[s]
    BY <1>1, <2>1, <2>2
  <2>. QED
    BY <1>4, <2>1, <2>2, <2>3
<1>10. ASSUME NEW y \in Key, ix1[y] # Undef  PROVE On(w, n - 1, ix1[y]) /\ ks1[ix1[y]] = y
  <2>1. ix1[y] = ix[y] /\ y # ks[s]
    BY <1>4, <1>10
  <2>2. On(o, n, ix[y]) /\ ks[ix[y]] = y /\ ix[y] \in 1..Capacity
    BY <1>2, <1>10, <2>1 DEF Books
  <2>3. ix[y] # s
    BY <2>1, <2>2
  <2>. QED
    BY <1>4, <2>1, <2>2, <2>3
<1>11. Len(fr1) = Capacity - (n - 1)
  BY <1>0, <1>5, <1>6
<1>12. ASSUME NEW i \in 1..Len(fr1), NEW j \in 1..Len(fr1), fr1[i] = fr1[j]  PROVE i = j
  <2>1. (i = m + 1 \/ i \in 1..m) /\ (j = m + 1 \/ j \in 1..m)
    BY <1>5, <1>6
  <2>2. \A x \in 1..m : fr[x] # s
    BY <1>1 DEF Spare
  <2>. QED
    BY <1>5, <1>6, <1>12, <2>1, <2>2
<1>13. \A x \in 1..Capacity : On(w, n - 1, x) <=> ~Spare(fr1, x)
  <2>1. \A x \in 1..Capacity : On(o, n, x) <=> ~Spare(fr, x)
    BY DEF Books
  <2>. QED
    BY <1>8, <2>1
<1>14. \A x \in 1..Capacity : Spare(fr1, x) => ks1[x] = Undef /\ vs1[x] = Undef
  <2>1. \A x \in 1..Capacity : Spare(fr, x) => ks[x] = Undef /\ vs[x] = Undef
    BY DEF Books
  <2>. QED
    BY <1>4, <1>8, <2>1
<1>15. Books(ks1, vs1, ix1, fr1, n - 1, w)
  BY <1>7, <1>9, <1>10, <1>11, <1>12, <1>13, <1>14 DEF Books
<1>. QED
  BY <1>15 DEF ks1, vs1, ix1, fr1

-----------------------------------------------------------------------------
(* LRUCache: the calls on the record. *)

Rec(nx, pv, ks, vs, ix, fr, n) ==
  [prev |-> pv, next |-> nx, keys |-> ks, vals |-> vs, index |-> ix, free |-> fr, size |-> n]

CacheState(c, o) ==
  /\ c = Rec(c.next, c.prev, c.keys, c.vals, c.index, c.free, c.size)
  /\ Chain(c.next, c.prev, o, c.size)
  /\ Books(c.keys, c.vals, c.index, c.free, c.size, o)

CutNext(nx, pv, s) == [nx EXCEPT ![pv[s]] = nx[s]]
CutPrev(nx, pv, s) == [pv EXCEPT ![nx[s]] = pv[s]]
LedNext(nx, s) == [nx EXCEPT ![0] = s, ![s] = nx[0]]
LedPrev(nx, pv, s) == [pv EXCEPT ![s] = 0, ![nx[0]] = s]
FirstNext(nx, pv, s) == LedNext(CutNext(nx, pv, s), s)
FirstPrev(nx, pv, s) == LedPrev(CutNext(nx, pv, s), CutPrev(nx, pv, s), s)

\* The chain with its p-th slot moved to the front.
First(o, n, p) == Led(Cut(o, n, p), n - 1, o[p])

LEMMA RecIs ==
  ASSUME NEW nx, NEW pv, NEW ks, NEW vs, NEW ix, NEW fr, NEW n,
         NEW c, c = Rec(nx, pv, ks, vs, ix, fr, n)
  PROVE  /\ c.next = nx /\ c.prev = pv /\ c.keys = ks /\ c.vals = vs /\ c.index = ix
         /\ c.free = fr /\ c.size = n /\ c = Rec(c.next, c.prev, c.keys, c.vals, c.index, c.free, c.size)
BY DEF Rec

LEMMA StateIs ==
  ASSUME CacheAssumption, NEW nx, NEW pv, NEW ks, NEW vs, NEW ix, NEW fr, NEW n, NEW o,
         Chain(nx, pv, o, n), Books(ks, vs, ix, fr, n, o),
         NEW c, c = Rec(nx, pv, ks, vs, ix, fr, n)
  PROVE  CacheState(c, o) /\ L!Entries(c) = Listing(ks, vs, o, n)
<1>1. /\ c.next = nx /\ c.prev = pv /\ c.keys = ks /\ c.vals = vs /\ c.index = ix
      /\ c.free = fr /\ c.size = n /\ c = Rec(c.next, c.prev, c.keys, c.vals, c.index, c.free, c.size)
  BY RecIs
<1>2. CacheState(c, o)
  BY <1>1 DEF CacheState
<1>3. L!Entries(c) = Listing(c.keys, c.vals, o, c.size)
  BY <1>1, EntriesAre
<1>. QED
  BY <1>1, <1>2, <1>3

LEMMA DetachRec ==
  ASSUME NEW nx, NEW pv, NEW ks, NEW vs, NEW ix, NEW fr, NEW n, NEW s
  PROVE  L!Detach(Rec(nx, pv, ks, vs, ix, fr, n), s) =
           Rec(CutNext(nx, pv, s), CutPrev(nx, pv, s), ks, vs, ix, fr, n)
<1>. DEFINE c == Rec(nx, pv, ks, vs, ix, fr, n)
<1>1. c.next = nx /\ c.prev = pv
  BY DEF Rec
<1>2. L!Detach(c, s) = [c EXCEPT !.next[pv[s]] = nx[s], !.prev[nx[s]] = pv[s]]
  BY <1>1 DEF L!Detach
<1>. QED
  BY <1>2 DEF Rec, CutNext, CutPrev

LEMMA InsertRec ==
  ASSUME NEW nx, NEW pv, NEW ks, NEW vs, NEW ix, NEW fr, NEW n, NEW s
  PROVE  L!InsertAfterSentinel(Rec(nx, pv, ks, vs, ix, fr, n), s) =
           Rec(LedNext(nx, s), LedPrev(nx, pv, s), ks, vs, ix, fr, n)
<1>. DEFINE c == Rec(nx, pv, ks, vs, ix, fr, n)
<1>1. c.next = nx
  BY DEF Rec
<1>2. L!InsertAfterSentinel(c, s) =
        [c EXCEPT !.next = [@ EXCEPT ![0] = s, ![s] = nx[0]], !.prev = [@ EXCEPT ![s] = 0, ![nx[0]] = s]]
  BY <1>1 DEF L!InsertAfterSentinel, L!SENTINEL
<1>. QED
  BY <1>2 DEF Rec, LedNext, LedPrev

LEMMA PromoteRec ==
  ASSUME NEW nx, NEW pv, NEW ks, NEW vs, NEW ix, NEW fr, NEW n, NEW s
  PROVE  L!Promote(Rec(nx, pv, ks, vs, ix, fr, n), s) =
           Rec(FirstNext(nx, pv, s), FirstPrev(nx, pv, s), ks, vs, ix, fr, n)
BY DetachRec, InsertRec DEF L!Promote, FirstNext, FirstPrev

LEMMA OnSlots ==
  ASSUME CacheAssumption, NEW nx, NEW pv, NEW o, NEW n, Chain(nx, pv, o, n)
  PROVE  /\ \A i \in 1..n : o[i] \in 1..Capacity /\ On(o, n, o[i])
         /\ n \in Nat /\ n \in 0..Capacity /\ Capacity \in Nat
<1>1. /\ n \in Nat /\ n \in 0..Capacity /\ o \in [0..(n + 1) -> 0..Capacity]
      /\ \A i \in 1..n : o[i] # 0
  BY DEF Chain
<1>2. Capacity \in Nat
  BY DEF CacheAssumption
<1>3. ASSUME NEW i \in 1..n  PROVE o[i] \in 1..Capacity /\ On(o, n, o[i])
  <2>1. i \in 0..(n + 1)
    BY <1>1
  <2>2. o[i] \in 0..Capacity /\ o[i] # 0
    BY <1>1, <2>1
  <2>. QED
    BY <1>2, <2>2 DEF On
<1>. QED
  BY <1>1, <1>2, <1>3

LEMMA FirstIs ==
  ASSUME CacheAssumption, NEW nx, NEW pv, NEW o, NEW n, Chain(nx, pv, o, n), NEW p \in 1..n,
         NEW s, s = o[p]
  PROVE  /\ Chain(FirstNext(nx, pv, s), FirstPrev(nx, pv, s), First(o, n, p), n)
         /\ \A x : On(First(o, n, p), n, x) <=> On(o, n, x)
<1>. DEFINE w == Cut(o, n, p)
            a == CutNext(nx, pv, s)
            b == CutPrev(nx, pv, s)
<1>1. s \in 1..Capacity /\ On(o, n, s) /\ n \in Nat /\ n \in 0..Capacity /\ Capacity \in Nat
  BY OnSlots
<1>2. Chain(a, b, w, n - 1) /\ \A x : On(w, n - 1, x) <=> On(o, n, x) /\ x # s
  BY DetachIs DEF CutNext, CutPrev
<1>3. n - 1 < Capacity /\ ~On(w, n - 1, s) /\ (n - 1) + 1 = n
  BY <1>1, <1>2
<1>. HIDE DEF w, a, b
<1>4. /\ Chain(LedNext(a, s), LedPrev(a, b, s), Led(w, n - 1, s), (n - 1) + 1)
      /\ \A x : On(Led(w, n - 1, s), (n - 1) + 1, x) <=> x = s \/ On(w, n - 1, x)
  BY <1>1, <1>2, <1>3, InsertIs DEF LedNext, LedPrev
<1>5. First(o, n, p) = Led(w, n - 1, s)
  BY DEF First, w
<1>6. FirstNext(nx, pv, s) = LedNext(a, s) /\ FirstPrev(nx, pv, s) = LedPrev(a, b, s)
  BY DEF FirstNext, FirstPrev, a, b
<1>7. \A x : On(First(o, n, p), n, x) <=> On(o, n, x)
  BY <1>1, <1>2, <1>3, <1>4, <1>5
<1>. QED
  BY <1>3, <1>4, <1>5, <1>6, <1>7

LEMMA FilledIs ==
  ASSUME CacheAssumption, NEW nx, NEW pv, NEW ks, NEW vs, NEW ix, NEW fr, NEW n, NEW o,
         Chain(nx, pv, o, n), Books(ks, vs, ix, fr, n, o)
  PROVE  Filled(ks, vs, o, n)
<1>1. \A i \in 1..n : o[i] \in 1..Capacity /\ On(o, n, o[i])
  BY OnSlots
<1>. QED
  BY <1>1 DEF Filled, Books

\* Slots that are not in the chain may change.
LEMMA ListingSame ==
  ASSUME NEW ks, NEW vs, NEW ks1, NEW vs1, NEW w, NEW m,
         \A i \in 1..m : ks1[w[i]] = ks[w[i]] /\ vs1[w[i]] = vs[w[i]]
  PROVE  Listing(ks1, vs1, w, m) = Listing(ks, vs, w, m)
BY DEF Listing

\* The entries when the p-th slot, written or not, has moved to the front.
LEMMA ListingFirst ==
  ASSUME CacheAssumption, NEW nx, NEW pv, NEW o, NEW n, Chain(nx, pv, o, n), NEW p \in 1..n,
         NEW ks, NEW vs, NEW ks1, NEW vs1, Filled(ks, vs, o, n), Filled(ks1, vs1, o, n),
         \A x \in 1..Capacity : x # o[p] => ks1[x] = ks[x] /\ vs1[x] = vs[x]
  PROVE  Listing(ks1, vs1, First(o, n, p), n) =
           <<[key |-> ks1[o[p]], val |-> vs1[o[p]]]>> \o RemoveAt(Listing(ks, vs, o, n), p)
<1>. DEFINE w == Cut(o, n, p)
            s == o[p]
            a == CutNext(nx, pv, s)
            b == CutPrev(nx, pv, s)
<1>1. /\ \A i \in 1..n : o[i] \in 1..Capacity /\ On(o, n, o[i])
      /\ n \in Nat /\ n - 1 \in Nat /\ (n - 1) + 1 = n
  BY OnSlots
<1>2. Chain(a, b, w, n - 1) /\ \A x : On(w, n - 1, x) <=> On(o, n, x) /\ x # s
  BY DetachIs DEF CutNext, CutPrev
<1>. HIDE DEF w, a, b
<1>3. \A i \in 1..(n - 1) : w[i] \in 1..Capacity /\ On(w, n - 1, w[i])
  BY <1>2, OnSlots
<1>4. \A i \in 1..(n - 1) : On(o, n, w[i]) /\ w[i] # s
  BY <1>2, <1>3
<1>5. Filled(ks1, vs1, w, n - 1)
  BY <1>4 DEF Filled, On
<1>6. ks1[s] \in Key /\ vs1[s] \in Value
  BY DEF Filled
<1>7. Listing(ks1, vs1, Led(w, n - 1, s), (n - 1) + 1) =
        <<[key |-> ks1[s], val |-> vs1[s]]>> \o Listing(ks1, vs1, w, n - 1)
  <2>. DEFINE m == n - 1
  <2>1. m \in Nat /\ Filled(ks1, vs1, w, m)
    BY <1>1, <1>5
  <2>. HIDE DEF m, s
  <2>2. Listing(ks1, vs1, Led(w, m, s), m + 1) =
          <<[key |-> ks1[s], val |-> vs1[s]]>> \o Listing(ks1, vs1, w, m)
    BY <1>6, <2>1, ListingLed
  <2>. QED
    BY <2>2 DEF m
<1>8. Listing(ks1, vs1, w, n - 1) = Listing(ks, vs, w, n - 1)
  <2>1. \A i \in 1..(n - 1) : ks1[w[i]] = ks[w[i]] /\ vs1[w[i]] = vs[w[i]]
    BY <1>3, <1>4
  <2>. QED
    BY <2>1, ListingSame
<1>9. Listing(ks, vs, w, n - 1) = RemoveAt(Listing(ks, vs, o, n), p)
  BY <1>1, ListingCut DEF w
<1>10. First(o, n, p) = Led(w, n - 1, s)
  BY DEF First, w
<1>. QED
  BY <1>1, <1>7, <1>8, <1>9, <1>10

\* What the abstract list says of a key, and what the map says.
LEMMA FoundIs ==
  ASSUME CacheAssumption, NEW o, CacheState(cache, o), NEW k \in Key
  PROVE  /\ L!Entries(cache) = Listing(cache.keys, cache.vals, o, cache.size)
         /\ Filled(cache.keys, cache.vals, o, cache.size)
         /\ k \in L!Abstract!Keys <=> cache.index[k] # Undef
         /\ cache.index[k] # Undef =>
              \E p \in 1..cache.size : /\ o[p] = cache.index[k] /\ cache.keys[o[p]] = k
                                       /\ L!Abstract!PlaceOf(k) = p
                                       /\ L!Abstract!ValueOf(k) = cache.vals[o[p]]
<1>. DEFINE n == cache.size
            ks == cache.keys
            vs == cache.vals
            ix == cache.index
            E == L!Entries(cache)
<1>1. Chain(cache.next, cache.prev, o, n) /\ Books(ks, vs, ix, cache.free, n, o)
  BY DEF CacheState
<1>2. E = Listing(ks, vs, o, n)
  BY <1>1, EntriesAre
<1>3. Filled(ks, vs, o, n) /\ n \in Nat
  BY <1>1, FilledIs, OnSlots
<1>4. \A i \in 1..n : o[i] \in 1..Capacity /\ On(o, n, o[i])
  BY <1>1, OnSlots
<1>5. DOMAIN E = 1..n /\ \A i \in 1..n : E[i] = [key |-> ks[o[i]], val |-> vs[o[i]]]
  BY <1>2, <1>3, ListingIs
<1>. HIDE DEF E
<1>6. ASSUME NEW i \in 1..n  PROVE E[i].key = ks[o[i]] /\ E[i].val = vs[o[i]]
  <2>1. E[i] = [key |-> ks[o[i]], val |-> vs[o[i]]]
    BY <1>5
  <2>. HIDE DEF ks, vs
  <2>. QED
    BY <2>1
<1>7. Undef \notin 1..Capacity
  BY DEF CacheAssumption
<1>8. L!Abstract!Keys = {E[i].key : i \in DOMAIN E}
  BY DEF L!Abstract!Keys, E
<1>9. \A i \in 1..n : ix[ks[o[i]]] = o[i]
  BY <1>1, <1>4 DEF Books
<1>10. k \in L!Abstract!Keys => ix[k] # Undef
  <2>. SUFFICES ASSUME k \in L!Abstract!Keys  PROVE ix[k] # Undef
    OBVIOUS
  <2>1. PICK i \in 1..n : E[i].key = k
    BY <1>5, <1>8
  <2>2. ix[k] = o[i]
    BY <1>6, <1>9, <2>1
  <2>. QED
    BY <1>4, <1>7, <2>2
<1>11. ASSUME ix[k] # Undef
       PROVE  \E p \in 1..n : /\ o[p] = ix[k] /\ ks[o[p]] = k /\ k \in L!Abstract!Keys
                              /\ L!Abstract!PlaceOf(k) = p /\ L!Abstract!ValueOf(k) = vs[o[p]]
  <2>1. On(o, n, ix[k]) /\ ks[ix[k]] = k
    BY <1>1, <1>11 DEF Books
  <2>2. PICK p \in 1..n : o[p] = ix[k]
    BY <2>1 DEF On
  <2>3. E[p].key = k
    BY <1>6, <2>1, <2>2
  <2>4. \A i \in 1..n : E[i].key = k => i = p
    <3>1. \A i, j \in 1..n : o[i] = o[j] => i = j
      BY <1>1 DEF Chain
    <3>. QED
      BY <1>6, <1>9, <2>2, <3>1
  <2>5. L!Abstract!PlaceOf(k) = CHOOSE i \in DOMAIN E : E[i].key = k
    BY DEF L!Abstract!PlaceOf, E
  <2>6. L!Abstract!PlaceOf(k) = p
    BY <1>5, <2>3, <2>4, <2>5
  <2>7. L!Abstract!ValueOf(k) = E[p].val
    BY <2>6 DEF L!Abstract!ValueOf, E
  <2>8. k \in L!Abstract!Keys
    BY <1>5, <1>8, <2>3
  <2>. QED
    BY <1>6, <2>1, <2>2, <2>6, <2>7, <2>8
<1>. QED
  BY <1>2, <1>3, <1>10, <1>11 DEF E

LEMMA SameRemoval ==
  ASSUME NEW s, NEW p
  PROVE  L!Abstract!RemoveAt(s, p) = RemoveAt(s, p)
BY DEF L!Abstract!RemoveAt, RemoveAt

LEMMA GetStep ==
  ASSUME CacheAssumption, NEW o, CacheState(cache, o), NEW k \in Key, L!Get(k)
  PROVE  (\E w : CacheState(cache', w)) /\ L!Abstract!Get(k)
<1>. DEFINE n == cache.size
            ks == cache.keys
            vs == cache.vals
            ix == cache.index
            fr == cache.free
            nx == cache.next
            pv == cache.prev
            E == L!Entries(cache)
<1>1. cache = Rec(nx, pv, ks, vs, ix, fr, n) /\ Chain(nx, pv, o, n) /\ Books(ks, vs, ix, fr, n, o)
  BY DEF CacheState
<1>2. /\ E = Listing(ks, vs, o, n) /\ Filled(ks, vs, o, n)
      /\ k \in L!Abstract!Keys <=> ix[k] # Undef
  BY FoundIs
<1>3. CASE ix[k] = Undef
  <2>1. cache' = cache /\ lOut' = Undef
    BY <1>3 DEF L!Get
  <2>. QED
    BY <1>2, <1>3, <2>1 DEF L!Abstract!Get
<1>4. CASE ix[k] # Undef
  <2>1. PICK p \in 1..n : /\ o[p] = ix[k] /\ ks[o[p]] = k
                          /\ L!Abstract!PlaceOf(k) = p /\ L!Abstract!ValueOf(k) = vs[o[p]]
    BY <1>4, FoundIs
  <2>. DEFINE s == o[p]
              w == First(o, n, p)
              a == FirstNext(nx, pv, s)
              b == FirstPrev(nx, pv, s)
  <2>2. cache' = L!Promote(cache, s) /\ lOut' = vs[s]
    BY <1>4, <2>1 DEF L!Get
  <2>3. L!Promote(cache, s) = Rec(a, b, ks, vs, ix, fr, n)
    <3>1. L!Promote(Rec(nx, pv, ks, vs, ix, fr, n), s) = Rec(a, b, ks, vs, ix, fr, n)
      BY PromoteRec
    <3>. QED
      BY <1>1, <3>1
  <2>4. Chain(a, b, w, n) /\ \A x : On(w, n, x) <=> On(o, n, x)
    BY <1>1, FirstIs
  <2>5. Books(ks, vs, ix, fr, n, w)
    BY <1>1, <2>4, SameBooks
  <2>6. Listing(ks, vs, w, n) = <<[key |-> ks[s], val |-> vs[s]]>> \o RemoveAt(Listing(ks, vs, o, n), p)
    BY <1>1, <1>2, ListingFirst
  <2>. HIDE DEF n, ks, vs, ix, fr, nx, pv, s, w, a, b, E
  <2>7. CacheState(cache', w) /\ L!Entries(cache') = Listing(ks, vs, w, n)
    BY <2>2, <2>3, <2>4, <2>5, StateIs
  <2>8. L!Entries(cache') = <<[key |-> k, val |-> vs[s]]>> \o RemoveAt(E, p)
    BY <1>2, <2>1, <2>6, <2>7 DEF s
  <2>9. L!Abstract!Without(k) = RemoveAt(E, p)
    BY <1>2, <1>4, <2>1, SameRemoval DEF L!Abstract!Without, E
  <2>10. L!Abstract!ValueOf(k) = vs[s]
    BY <2>1 DEF s
  <2>11. L!Abstract!Get(k)
    BY <1>2, <1>4, <2>2, <2>8, <2>9, <2>10 DEF L!Abstract!Get, L!Abstract!Entry
  <2>. QED
    BY <2>7, <2>11
<1>. QED
  BY <1>3, <1>4

LEMMA DelStep ==
  ASSUME CacheAssumption, NEW o, CacheState(cache, o), NEW k \in Key, L!Del(k)
  PROVE  (\E w : CacheState(cache', w)) /\ L!Abstract!Del(k)
<1>. DEFINE n == cache.size
            ks == cache.keys
            vs == cache.vals
            ix == cache.index
            fr == cache.free
            nx == cache.next
            pv == cache.prev
            E == L!Entries(cache)
<1>1. cache = Rec(nx, pv, ks, vs, ix, fr, n) /\ Chain(nx, pv, o, n) /\ Books(ks, vs, ix, fr, n, o)
  BY DEF CacheState
<1>2. /\ E = Listing(ks, vs, o, n) /\ Filled(ks, vs, o, n)
      /\ k \in L!Abstract!Keys <=> ix[k] # Undef
  BY FoundIs
<1>3. CASE ix[k] = Undef
  <2>1. cache' = cache /\ lOut' = FALSE
    BY <1>3 DEF L!Del
  <2>2. L!Abstract!Without(k) = E
    BY <1>2, <1>3 DEF L!Abstract!Without
  <2>3. lOut' = (k \in L!Abstract!Keys)
    <3>1. ~(k \in L!Abstract!Keys)
      BY <1>2, <1>3
    <3>2. (k \in L!Abstract!Keys) = FALSE
      BY <3>1
    <3>. QED
      BY <2>1, <3>2
  <2>4. L!Entries(cache)' = L!Abstract!Without(k)
    BY <2>1, <2>2
  <2>. QED
    BY <2>1, <2>3, <2>4 DEF L!Abstract!Del
<1>4. CASE ix[k] # Undef
  <2>1. PICK p \in 1..n : o[p] = ix[k] /\ ks[o[p]] = k /\ L!Abstract!PlaceOf(k) = p
    BY <1>4, FoundIs
  <2>. DEFINE s == o[p]
              w == Cut(o, n, p)
              a == CutNext(nx, pv, s)
              b == CutPrev(nx, pv, s)
              ks1 == [ks EXCEPT ![s] = Undef]
              vs1 == [vs EXCEPT ![s] = Undef]
              ix1 == [ix EXCEPT ![ks[s]] = Undef]
              fr1 == Append(fr, s)
              d == Rec(nx, pv, ks, vs, ix1, fr, n)
  <2>2. /\ cache' = [L!Detach([cache EXCEPT !.index[k] = Undef], s)
                       EXCEPT !.keys[s] = Undef, !.vals[s] = Undef,
                              !.free = Append(@, s), !.size = @ - 1]
        /\ lOut' = TRUE
    BY <1>4, <2>1 DEF L!Del
  <2>3. [cache EXCEPT !.index[k] = Undef] = d
    <3>1. ks[s] = k
      BY <2>1
    <3>. HIDE DEF nx, pv, ks, vs, ix, fr, n, s
    <3>. QED
      BY <1>1, <3>1 DEF Rec
  <2>4. L!Detach(d, s) = Rec(a, b, ks, vs, ix1, fr, n)
    BY DetachRec
  <2>5. cache' = Rec(a, b, ks1, vs1, ix1, fr1, n - 1)
    <3>. HIDE DEF d, a, b, ix1
    <3>1. cache' = [Rec(a, b, ks, vs, ix1, fr, n)
                      EXCEPT !.keys[s] = Undef, !.vals[s] = Undef, !.free = Append(@, s), !.size = @ - 1]
      BY <2>2, <2>3, <2>4
    <3>. HIDE DEF ks, vs, ix, fr, n, s
    <3>. QED
      BY <3>1 DEF Rec
  <2>6. s \in 1..Capacity /\ On(o, n, s) /\ n \in 0..Capacity /\ n \in Nat
    BY <1>1, OnSlots
  <2>7. Chain(a, b, w, n - 1) /\ \A x : On(w, n - 1, x) <=> On(o, n, x) /\ x # s
    BY <1>1, DetachIs DEF CutNext, CutPrev
  <2>8. Books(ks1, vs1, ix1, fr1, n - 1, w)
    <3>. HIDE DEF nx, pv, ks, vs, ix, fr, n, s, w
    <3>. QED
      BY <1>1, <2>6, <2>7, DropBooks
  <2>9. Listing(ks, vs, w, n - 1) = RemoveAt(Listing(ks, vs, o, n), p)
    BY <1>2, <2>6, ListingCut
  <2>10. Listing(ks1, vs1, w, n - 1) = Listing(ks, vs, w, n - 1)
    <3>1. \A i \in 1..(n - 1) : w[i] \in 1..Capacity /\ On(w, n - 1, w[i])
      BY <2>7, OnSlots
    <3>2. \A i \in 1..(n - 1) : w[i] # s
      BY <2>7, <3>1
    <3>. HIDE DEF n, ks, vs, s, w
    <3>3. \A i \in 1..(n - 1) : ks1[w[i]] = ks[w[i]] /\ vs1[w[i]] = vs[w[i]]
      <4>1. /\ ks \in [0..Capacity -> Key \cup {Undef}] /\ vs \in [0..Capacity -> Value \cup {Undef}]
        BY <1>1 DEF Books, BooksType
      <4>2. \A x \in 1..Capacity : x \in 0..Capacity
        OBVIOUS
      <4>3. \A x \in 0..Capacity : x # s => ks1[x] = ks[x] /\ vs1[x] = vs[x]
        BY <4>1
      <4>. QED
        BY <3>1, <3>2, <4>2, <4>3
    <3>. DEFINE m == n - 1
    <3>. HIDE DEF ks1, vs1, m
    <3>4. \A i \in 1..m : ks1[w[i]] = ks[w[i]] /\ vs1[w[i]] = vs[w[i]]
      BY <3>3 DEF m
    <3>5. Listing(ks1, vs1, w, m) = Listing(ks, vs, w, m)
      BY <3>4, ListingSame
    <3>. QED
      BY <3>5 DEF m
  <2>. HIDE DEF n, ks, vs, ix, fr, nx, pv, s, w, a, b, E, ks1, vs1, ix1, fr1
  <2>11. CacheState(cache', w) /\ L!Entries(cache') = Listing(ks1, vs1, w, n - 1)
    BY <2>5, <2>7, <2>8, StateIs
  <2>12. L!Entries(cache') = RemoveAt(E, p)
    BY <1>2, <2>9, <2>10, <2>11
  <2>13. L!Abstract!Without(k) = RemoveAt(E, p)
    BY <1>2, <1>4, <2>1, SameRemoval DEF L!Abstract!Without, E
  <2>14. L!Abstract!Del(k)
    <3>1. k \in L!Abstract!Keys
      BY <1>2, <1>4
    <3>2. lOut' = (k \in L!Abstract!Keys)
      BY <2>2, <3>1, Zenon
    <3>. QED
      BY <2>12, <2>13, <3>2 DEF L!Abstract!Del
  <2>. QED
    BY <2>11, <2>14
<1>. QED
  BY <1>3, <1>4

Over(f, x, y) == [f EXCEPT ![x] = y]
Write(c, s, k, v) == [c EXCEPT !.keys[s] = k, !.vals[s] = v, !.index[k] = s]

LEMMA WriteRec ==
  ASSUME NEW nx, NEW pv, NEW ks, NEW vs, NEW ix, NEW fr, NEW n, NEW s, NEW k, NEW v
  PROVE  Write(Rec(nx, pv, ks, vs, ix, fr, n), s, k, v) =
           Rec(nx, pv, Over(ks, s, k), Over(vs, s, v), Over(ix, k, s), fr, n)
<1>. DEFINE c == Rec(nx, pv, ks, vs, ix, fr, n)
            ks1 == [ks EXCEPT ![s] = k]
            vs1 == [vs EXCEPT ![s] = v]
            ix1 == [ix EXCEPT ![k] = s]
<1>1. c.keys = ks /\ c.vals = vs /\ c.index = ix
  BY DEF Rec
<1>. HIDE DEF c
<1>2. [c EXCEPT !.keys[s] = k, !.vals[s] = v, !.index[k] = s] =
        [[[c EXCEPT !.keys = ks1] EXCEPT !.vals = vs1] EXCEPT !.index = ix1]
  BY <1>1
<1>. HIDE DEF ks1, vs1, ix1
<1>3. [c EXCEPT !.keys = ks1] = Rec(nx, pv, ks1, vs, ix, fr, n)
  BY DEF Rec, c
<1>4. [Rec(nx, pv, ks1, vs, ix, fr, n) EXCEPT !.vals = vs1] = Rec(nx, pv, ks1, vs1, ix, fr, n)
  BY DEF Rec
<1>5. [Rec(nx, pv, ks1, vs1, ix, fr, n) EXCEPT !.index = ix1] = Rec(nx, pv, ks1, vs1, ix1, fr, n)
  BY DEF Rec
<1>6. Write(c, s, k, v) = Rec(nx, pv, ks1, vs1, ix1, fr, n)
  BY <1>2, <1>3, <1>4, <1>5 DEF Write
<1>. QED
  BY <1>6 DEF c, ks1, vs1, ix1, Over

\* The slot for a new key: from the free slots, or of the last entry.
LEMMA FreeRec ==
  ASSUME NEW nx, NEW pv, NEW ks, NEW vs, NEW ix, NEW fr, NEW n, fr # << >>,
         NEW t, t = L!TakeSlot(Rec(nx, pv, ks, vs, ix, fr, n))
  PROVE  t.slot = fr[Len(fr)] /\ t.c = Rec(nx, pv, ks, vs, ix, SubSeq(fr, 1, Len(fr) - 1), n + 1)
<1>. DEFINE c == Rec(nx, pv, ks, vs, ix, fr, n)
<1>1. c.free = fr
  BY DEF Rec
<1>2. L!Last(fr) = fr[Len(fr)] /\ L!Front(fr) = SubSeq(fr, 1, Len(fr) - 1)
  BY DEF L!Last, L!Front
<1>3. [c EXCEPT !.free = L!Front(fr), !.size = @ + 1] = Rec(nx, pv, ks, vs, ix, L!Front(fr), n + 1)
  <2>. DEFINE f == L!Front(fr)
              m == n + 1
  <2>1. c.size = n
    BY DEF Rec
  <2>. HIDE DEF c, f
  <2>2. [c EXCEPT !.free = f, !.size = @ + 1] = [[c EXCEPT !.free = f] EXCEPT !.size = m]
    BY <2>1
  <2>. HIDE DEF m
  <2>3. [c EXCEPT !.free = f] = Rec(nx, pv, ks, vs, ix, f, n)
    BY DEF Rec, c
  <2>4. [Rec(nx, pv, ks, vs, ix, f, n) EXCEPT !.size = m] = Rec(nx, pv, ks, vs, ix, f, m)
    BY DEF Rec
  <2>5. [c EXCEPT !.free = f, !.size = @ + 1] = Rec(nx, pv, ks, vs, ix, f, m)
    BY <2>2, <2>3, <2>4
  <2>. QED
    BY <2>5 DEF f, m
<1>. HIDE DEF c
<1>4. t = [slot |-> L!Last(fr), c |-> [c EXCEPT !.free = L!Front(fr), !.size = @ + 1]]
  BY <1>1 DEF L!TakeSlot, c
<1>. QED
  BY <1>2, <1>3, <1>4

\* What TakeSlot gives in a full cache, s being its last slot.
Evicted(nx, pv, ks, vs, ix, n, s) ==
  [slot |-> s,
   c |-> Rec(CutNext(nx, pv, s), CutPrev(nx, pv, s), ks, vs, [ix EXCEPT ![ks[s]] = Undef], << >>, n)]

LEMMA EvictRec ==
  ASSUME NEW nx, NEW pv, NEW ks, NEW vs, NEW ix, NEW n
  PROVE  L!TakeSlot(Rec(nx, pv, ks, vs, ix, << >>, n)) = Evicted(nx, pv, ks, vs, ix, n, pv[0])
<1>. DEFINE c == Rec(nx, pv, ks, vs, ix, << >>, n)
            s == pv[0]
            d == [c EXCEPT !.index[c.keys[s]] = Undef]
<1>1. c.free = << >> /\ c.prev = pv /\ c.keys = ks
  BY DEF Rec
<1>2. d = Rec(nx, pv, ks, vs, [ix EXCEPT ![ks[s]] = Undef], << >>, n)
  BY DEF Rec
<1>3. L!Detach(d, s) =
        Rec(CutNext(nx, pv, s), CutPrev(nx, pv, s), ks, vs, [ix EXCEPT ![ks[s]] = Undef], << >>, n)
  BY <1>2, DetachRec
<1>. HIDE DEF c
<1>4. L!TakeSlot(c) = [slot |-> s, c |-> L!Detach(d, s)]
  BY <1>1 DEF L!TakeSlot, L!SENTINEL
<1>. HIDE DEF d
<1>. QED
  BY <1>3, <1>4 DEF c, Evicted

\* The new entry in the slot that was taken.
LEMMA PutRec ==
  ASSUME NEW nx, NEW pv, NEW ks, NEW vs, NEW ix, NEW fr, NEW n, NEW s, NEW k, NEW v
  PROVE  L!InsertAfterSentinel(Write(Rec(nx, pv, ks, vs, ix, fr, n), s, k, v), s) =
           Rec(LedNext(nx, s), LedPrev(nx, pv, s), Over(ks, s, k), Over(vs, s, v), Over(ix, k, s), fr, n)
BY WriteRec, InsertRec

\* A key that is in the cache.
LEMMA UpdateStep ==
  ASSUME CacheAssumption, NEW o, CacheState(cache, o), NEW k \in Key, NEW v \in Value,
         cache.index[k] # Undef, L!Set(k, v)
  PROVE  (\E w : CacheState(cache', w)) /\ L!Abstract!Put(k, v)
<1>. DEFINE n == cache.size
            ks == cache.keys
            vs == cache.vals
            ix == cache.index
            fr == cache.free
            nx == cache.next
            pv == cache.prev
            E == L!Entries(cache)
<1>1. cache = Rec(nx, pv, ks, vs, ix, fr, n) /\ Chain(nx, pv, o, n) /\ Books(ks, vs, ix, fr, n, o)
  BY DEF CacheState
<1>2. /\ E = Listing(ks, vs, o, n) /\ Filled(ks, vs, o, n) /\ k \in L!Abstract!Keys
  BY FoundIs
<1>3. PICK p \in 1..n : o[p] = ix[k] /\ ks[o[p]] = k /\ L!Abstract!PlaceOf(k) = p
  BY FoundIs
<1>. DEFINE s == o[p]
            w == First(o, n, p)
            a == FirstNext(nx, pv, s)
            b == FirstPrev(nx, pv, s)
            vs1 == [vs EXCEPT ![s] = v]
            d == Rec(nx, pv, ks, vs1, ix, fr, n)
<1>4. cache' = L!Promote([cache EXCEPT !.vals[s] = v], s) /\ lOut' = Undef
  BY <1>3 DEF L!Set
<1>5. [cache EXCEPT !.vals[s] = v] = d
  <2>. HIDE DEF nx, pv, ks, vs, ix, fr, n, s
  <2>. QED
    BY <1>1 DEF Rec
<1>6. L!Promote(d, s) = Rec(a, b, ks, vs1, ix, fr, n)
  BY PromoteRec
<1>7. s \in 1..Capacity /\ On(o, n, s)
  BY <1>1, OnSlots
<1>8. Chain(a, b, w, n) /\ \A x : On(w, n, x) <=> On(o, n, x)
  BY <1>1, FirstIs
<1>. HIDE DEF n, ks, vs, ix, fr, nx, pv, s, w, a, b, E, d
<1>9. Books(ks, vs1, ix, fr, n, o)
  BY <1>1, <1>7, ValueBooks
<1>. HIDE DEF vs1
<1>10. Books(ks, vs1, ix, fr, n, w)
  BY <1>8, <1>9, SameBooks
<1>11. Filled(ks, vs1, o, n)
  BY <1>1, <1>9, FilledIs
<1>12. vs1[s] = v /\ \A x \in 1..Capacity : x # s => ks[x] = ks[x] /\ vs1[x] = vs[x]
  <2>1. vs \in [0..Capacity -> Value \cup {Undef}] /\ s \in 0..Capacity
        /\ \A x \in 1..Capacity : x \in 0..Capacity
    BY <1>1, <1>7 DEF Books, BooksType
  <2>. QED
    BY <2>1 DEF vs1
<1>13. Listing(ks, vs1, w, n) = <<[key |-> ks[s], val |-> vs1[s]]>> \o RemoveAt(Listing(ks, vs, o, n), p)
  BY <1>1, <1>2, <1>11, <1>12, ListingFirst DEF w, s
<1>14. CacheState(cache', w) /\ L!Entries(cache') = Listing(ks, vs1, w, n)
  BY <1>4, <1>5, <1>6, <1>8, <1>10, StateIs
<1>15. L!Entries(cache') = <<[key |-> k, val |-> v]>> \o RemoveAt(E, p)
  <2>1. ks[s] = k
    BY <1>3 DEF s
  <2>. QED
    BY <1>2, <1>12, <1>13, <1>14, <2>1
<1>16. L!Abstract!Without(k) = RemoveAt(E, p)
  BY <1>2, <1>3, SameRemoval DEF L!Abstract!Without, E
<1>17. L!Abstract!Put(k, v)
  BY <1>2, <1>4, <1>15, <1>16 DEF L!Abstract!Put, L!Abstract!Entry
<1>. QED
  BY <1>14, <1>17

\* A new key while a slot is free.
LEMMA AddStep ==
  ASSUME CacheAssumption, NEW o, CacheState(cache, o), NEW k \in Key, NEW v \in Value,
         cache.index[k] = Undef, cache.free # << >>, L!Set(k, v)
  PROVE  (\E w : CacheState(cache', w)) /\ L!Abstract!Put(k, v)
<1>. DEFINE n == cache.size
            ks == cache.keys
            vs == cache.vals
            ix == cache.index
            fr == cache.free
            nx == cache.next
            pv == cache.prev
            E == L!Entries(cache)
            t == L!TakeSlot(cache)
            s == fr[Len(fr)]
            w == Led(o, n, s)
            a == LedNext(nx, s)
            b == LedPrev(nx, pv, s)
            fr1 == SubSeq(fr, 1, Len(fr) - 1)
            ks1 == [ks EXCEPT ![s] = k]
            vs1 == [vs EXCEPT ![s] = v]
            ix1 == [ix EXCEPT ![k] = s]
<1>1. cache = Rec(nx, pv, ks, vs, ix, fr, n) /\ Chain(nx, pv, o, n) /\ Books(ks, vs, ix, fr, n, o)
  BY DEF CacheState
<1>2. /\ E = Listing(ks, vs, o, n) /\ Filled(ks, vs, o, n) /\ ~(k \in L!Abstract!Keys)
  BY FoundIs
<1>3. cache' = L!InsertAfterSentinel(Write(t.c, t.slot, k, v), t.slot) /\ lOut' = Undef
  BY DEF L!Set, Write
<1>4. t.slot = s /\ t.c = Rec(nx, pv, ks, vs, ix, fr1, n + 1)
  <2>1. t = L!TakeSlot(Rec(nx, pv, ks, vs, ix, fr, n))
    BY <1>1
  <2>. HIDE DEF t, nx, pv, ks, vs, ix, fr, n
  <2>2. fr # << >>
    BY DEF fr
  <2>. QED
    BY <2>1, <2>2, FreeRec
<1>5. /\ \A i \in 1..n : o[i] \in 1..Capacity /\ On(o, n, o[i])
      /\ n \in Nat /\ n \in 0..Capacity /\ Capacity \in Nat
  BY <1>1, OnSlots
<1>6. fr # << >> /\ ix[k] = Undef
  OBVIOUS
<1>. HIDE DEF n, ks, vs, ix, fr, nx, pv, E, t
<1>7. cache' = Rec(a, b, ks1, vs1, ix1, fr1, n + 1)
  <2>. DEFINE m == n + 1
  <2>. HIDE DEF s, fr1
  <2>1. t.slot = s /\ t.c = Rec(nx, pv, ks, vs, ix, fr1, m)
    BY <1>4
  <2>. HIDE DEF m
  <2>2. L!InsertAfterSentinel(Write(Rec(nx, pv, ks, vs, ix, fr1, m), s, k, v), s) =
          Rec(LedNext(nx, s), LedPrev(nx, pv, s), Over(ks, s, k), Over(vs, s, v), Over(ix, k, s), fr1, m)
    BY PutRec
  <2>3. ks1 = Over(ks, s, k) /\ vs1 = Over(vs, s, v) /\ ix1 = Over(ix, k, s)
    BY DEF Over
  <2>. HIDE DEF ks1, vs1, ix1
  <2>4. cache' = Rec(a, b, ks1, vs1, ix1, fr1, m)
    BY <1>3, <2>1, <2>2, <2>3
  <2>. QED
    BY <2>4 DEF m
<1>8. s \in 1..Capacity /\ n < Capacity /\ ~On(o, n, s)
  <2>1. fr \in Seq(1..Capacity) /\ Len(fr) = Capacity - n
    BY <1>1 DEF Books, BooksType
  <2>2. Len(fr) \in Nat /\ Len(fr) >= 1
    BY <1>6, <2>1
  <2>3. Len(fr) \in 1..Len(fr)
    BY <2>2
  <2>4. s \in 1..Capacity
    BY <2>1, <2>3, ElementOfSeq
  <2>5. Spare(fr, s)
    BY <2>3 DEF Spare
  <2>6. n < Capacity
    BY <1>5, <2>1, <2>2
  <2>. HIDE DEF s
  <2>7. ~On(o, n, s)
    BY <1>1, <2>4, <2>5 DEF Books
  <2>. QED
    BY <2>4, <2>6, <2>7
<1>9. Chain(a, b, w, n + 1) /\ \A x : On(w, n + 1, x) <=> x = s \/ On(o, n, x)
  <2>. HIDE DEF s
  <2>. QED
    BY <1>1, <1>8, InsertIs DEF LedNext, LedPrev
<1>10. Books(ks1, vs1, ix1, fr1, n + 1, w)
  <2>0. s = fr[Len(fr)]
    OBVIOUS
  <2>. HIDE DEF w, s
  <2>. QED
    BY <1>1, <1>5, <1>6, <1>9, <2>0, FreeBooks
<1>. HIDE DEF s
<1>11. /\ \A x \in 1..Capacity : x # s => ks1[x] = ks[x] /\ vs1[x] = vs[x]
       /\ ks1[s] = k /\ vs1[s] = v
  <2>1. /\ ks \in [0..Capacity -> Key \cup {Undef}] /\ vs \in [0..Capacity -> Value \cup {Undef}]
        /\ s \in 0..Capacity /\ \A x \in 1..Capacity : x \in 0..Capacity
    BY <1>1, <1>5, <1>8 DEF Books, BooksType
  <2>. QED
    BY <2>1
<1>. HIDE DEF ks1, vs1, ix1, fr1, a, b
<1>12. \A i \in 1..n : ks1[o[i]] = ks[o[i]] /\ vs1[o[i]] = vs[o[i]]
  <2>1. \A i \in 1..n : o[i] # s
    BY <1>5, <1>8
  <2>. QED
    BY <1>5, <1>11, <2>1
<1>13. Filled(ks1, vs1, o, n)
  BY <1>2, <1>12 DEF Filled
<1>14. Listing(ks1, vs1, o, n) = Listing(ks, vs, o, n)
  BY <1>12, ListingSame
<1>15. Listing(ks1, vs1, w, n + 1) = <<[key |-> ks1[s], val |-> vs1[s]]>> \o Listing(ks1, vs1, o, n)
  <2>1. ks1[s] \in Key /\ vs1[s] \in Value
    BY <1>11
  <2>. QED
    BY <1>5, <1>13, <2>1, ListingLed
<1>. HIDE DEF w
<1>16. CacheState(cache', w) /\ L!Entries(cache') = Listing(ks1, vs1, w, n + 1)
  BY <1>7, <1>9, <1>10, StateIs
<1>17. L!Entries(cache') = <<[key |-> k, val |-> v]>> \o E
  BY <1>2, <1>11, <1>14, <1>15, <1>16
<1>18. L!Abstract!Without(k) = E /\ Len(E) # Capacity
  <2>1. Len(Listing(ks, vs, o, n)) = n
    BY <1>2, <1>5, ListingIs
  <2>2. Len(E) # Capacity
    BY <1>2, <1>5, <1>8, <2>1
  <2>. QED
    BY <1>2, <2>2 DEF L!Abstract!Without, E
<1>19. L!Abstract!Put(k, v)
  BY <1>2, <1>3, <1>17, <1>18 DEF L!Abstract!Put, L!Abstract!Entry, E
<1>. QED
  BY <1>16, <1>19

\* A new key in a full cache: the last slot is used again.
LEMMA EvictStep ==
  ASSUME CacheAssumption, NEW o, CacheState(cache, o), NEW k \in Key, NEW v \in Value,
         cache.index[k] = Undef, cache.free = << >>, L!Set(k, v)
  PROVE  (\E w : CacheState(cache', w)) /\ L!Abstract!Put(k, v)
<1>. DEFINE n == cache.size
            ks == cache.keys
            vs == cache.vals
            ix == cache.index
            fr == cache.free
            nx == cache.next
            pv == cache.prev
            E == L!Entries(cache)
            t == L!TakeSlot(cache)
            s == o[n]
            w == First(o, n, n)
            a == FirstNext(nx, pv, s)
            b == FirstPrev(nx, pv, s)
            ix0 == [ix EXCEPT ![ks[s]] = Undef]
            ks1 == [ks EXCEPT ![s] = k]
            vs1 == [vs EXCEPT ![s] = v]
            ix1 == [ix0 EXCEPT ![k] = s]
<1>1. cache = Rec(nx, pv, ks, vs, ix, fr, n) /\ Chain(nx, pv, o, n) /\ Books(ks, vs, ix, fr, n, o)
  BY DEF CacheState
<1>2. /\ E = Listing(ks, vs, o, n) /\ Filled(ks, vs, o, n) /\ ~(k \in L!Abstract!Keys)
  BY FoundIs
<1>3. cache' = L!InsertAfterSentinel(Write(t.c, t.slot, k, v), t.slot) /\ lOut' = Undef
  BY DEF L!Set, Write
<1>5. /\ \A i \in 1..n : o[i] \in 1..Capacity /\ On(o, n, o[i])
      /\ n \in Nat /\ n \in 0..Capacity /\ Capacity \in Nat
  BY <1>1, OnSlots
<1>6. fr = << >> /\ ix[k] = Undef
  OBVIOUS
<1>7. t = L!TakeSlot(Rec(nx, pv, ks, vs, ix, fr, n))
  BY <1>1
<1>. HIDE DEF n, ks, vs, ix, fr, nx, pv, E, t
<1>8. n = Capacity /\ n \in 1..n
  <2>1. Len(fr) = Capacity - n
    BY <1>1 DEF Books
  <2>2. Len(fr) = 0
    BY <1>6
  <2>3. n = Capacity
    BY <1>5, <2>1, <2>2
  <2>. QED
    BY <1>5, <2>3 DEF CacheAssumption
<1>9. s = pv[0]
  BY <1>1, <1>5 DEF Chain
<1>10. t.slot = s /\ t.c = Rec(CutNext(nx, pv, s), CutPrev(nx, pv, s), ks, vs, ix0, fr, n)
  <2>1. ix0 = [ix EXCEPT ![ks[s]] = Undef]
    OBVIOUS
  <2>. HIDE DEF s, ix0
  <2>2. t = Evicted(nx, pv, ks, vs, ix, n, s)
    BY <1>6, <1>7, <1>9, EvictRec
  <2>. DEFINE R(free) == Rec(CutNext(nx, pv, s), CutPrev(nx, pv, s), ks, vs, ix0, free, n)
  <2>3. Evicted(nx, pv, ks, vs, ix, n, s) = [slot |-> s, c |-> R(<< >>)]
    BY <2>1 DEF Evicted
  <2>. HIDE DEF R
  <2>4. t.slot = s /\ t.c = R(fr)
    BY <1>6, <2>2, <2>3
  <2>. QED
    BY <2>4 DEF R
<1>11. cache' = Rec(a, b, ks1, vs1, ix1, fr, n)
  <2>. DEFINE a0 == CutNext(nx, pv, s)
              b0 == CutPrev(nx, pv, s)
  <2>1. a = LedNext(a0, s) /\ b = LedPrev(a0, b0, s)
    BY DEF FirstNext, FirstPrev
  <2>. HIDE DEF s, ix0, a, b, a0, b0
  <2>2. t.slot = s /\ t.c = Rec(a0, b0, ks, vs, ix0, fr, n)
    BY <1>10 DEF a0, b0
  <2>3. cache' = Rec(LedNext(a0, s), LedPrev(a0, b0, s), Over(ks, s, k), Over(vs, s, v),
                     Over(ix0, k, s), fr, n)
    BY <1>3, <2>2, PutRec
  <2>4. ks1 = Over(ks, s, k) /\ vs1 = Over(vs, s, v) /\ ix1 = Over(ix0, k, s)
    BY DEF Over
  <2>. HIDE DEF ks1, vs1, ix1
  <2>. QED
    BY <2>1, <2>3, <2>4
<1>12. s \in 1..Capacity /\ On(o, n, s)
  BY <1>5, <1>8
<1>13. Chain(a, b, w, n) /\ \A x : On(w, n, x) <=> On(o, n, x)
  BY <1>1, <1>8, FirstIs
<1>. HIDE DEF a, b
<1>14. Books(ks1, vs1, ix1, fr, n, w)
  <2>. HIDE DEF w, s
  <2>. QED
    BY <1>1, <1>5, <1>6, <1>12, <1>13, EvictBooks
<1>15. Filled(ks1, vs1, o, n)
  <2>1. Books(ks1, vs1, ix1, fr, n, o)
    <3>. HIDE DEF ks1, vs1, ix1, w
    <3>. QED
      BY <1>13, <1>14, SameBooks
  <2>. HIDE DEF ks1, vs1, ix1
  <2>. QED
    BY <1>1, <2>1, FilledIs
<1>16. /\ \A x \in 1..Capacity : x # s => ks1[x] = ks[x] /\ vs1[x] = vs[x]
       /\ ks1[s] = k /\ vs1[s] = v
  <2>1. /\ ks \in [0..Capacity -> Key \cup {Undef}] /\ vs \in [0..Capacity -> Value \cup {Undef}]
        /\ s \in 0..Capacity /\ \A x \in 1..Capacity : x \in 0..Capacity
    BY <1>1, <1>5, <1>12 DEF Books, BooksType
  <2>. HIDE DEF s
  <2>. QED
    BY <2>1
<1>. HIDE DEF ks1, vs1, ix1, ix0
<1>17. Listing(ks1, vs1, w, n) = <<[key |-> ks1[s], val |-> vs1[s]]>> \o RemoveAt(Listing(ks, vs, o, n), n)
  BY SMTT(30), <1>1, <1>2, <1>8, <1>15, <1>16, ListingFirst
<1>. HIDE DEF w
<1>18. CacheState(cache', w) /\ L!Entries(cache') = Listing(ks1, vs1, w, n)
  BY <1>11, <1>13, <1>14, StateIs
<1>. HIDE DEF s
<1>19. Len(E) = Capacity /\ RemoveAt(E, n) = SubSeq(E, 1, Capacity - 1)
  <2>1. E \in Seq(Pair) /\ Len(E) = n
    BY <1>2, <1>5, ListingIs
  <2>. HIDE DEF E
  <2>2. SubSeq(E, 1, n - 1) \in Seq(Pair) /\ SubSeq(E, n + 1, Len(E)) = << >>
    BY <1>5, <1>8, <2>1
  <2>3. RemoveAt(E, n) = SubSeq(E, 1, n - 1) \o << >>
    BY <2>2 DEF RemoveAt
  <2>4. RemoveAt(E, n) = SubSeq(E, 1, n - 1)
    BY <2>2, <2>3
  <2>. QED
    BY <1>8, <2>1, <2>4
<1>20. L!Entries(cache') = <<[key |-> k, val |-> v]>> \o SubSeq(E, 1, Capacity - 1)
  BY <1>2, <1>16, <1>17, <1>18, <1>19
<1>21. L!Abstract!Put(k, v)
  <2>1. k \notin L!Abstract!Keys /\ Len(L!Entries(cache)) = Capacity
    BY <1>2, <1>19 DEF E
  <2>. QED
    BY <1>3, <1>20, <2>1 DEF L!Abstract!Put, L!Abstract!Entry, E
<1>. QED
  BY <1>18, <1>21

LEMMA SetStep ==
  ASSUME CacheAssumption, NEW o, CacheState(cache, o), NEW k \in Key, NEW v \in Value, L!Set(k, v)
  PROVE  (\E w : CacheState(cache', w)) /\ L!Abstract!Put(k, v)
<1>1. CASE cache.index[k] # Undef
  BY <1>1, UpdateStep
<1>2. CASE cache.index[k] = Undef /\ cache.free # << >>
  BY <1>2, AddStep
<1>3. CASE cache.index[k] = Undef /\ cache.free = << >>
  BY <1>3, EvictStep
<1>. QED
  BY <1>1, <1>2, <1>3

CacheInv == \E o : CacheState(cache, o)

LEMMA CacheBegins ==
  ASSUME CacheAssumption, L!Init
  PROVE  CacheInv /\ L!Abstract!Init
<1>. DEFINE zero == [s \in 0..Capacity |-> 0]
            none == [s \in 0..Capacity |-> Undef]
            ix == [k \in Key |-> Undef]
            fr == [i \in 1..Capacity |-> i]
            o == [i \in 0..1 |-> 0]
<1>0. Capacity \in Nat
  BY DEF CacheAssumption
<1>1. cache = Rec(zero, zero, none, none, ix, fr, 0) /\ lOut = Undef
  BY DEF L!Init, L!Make, L!Slots, Rec
<1>2. Chain(zero, zero, o, 0)
  BY <1>0 DEF Chain
<1>3. fr \in Seq(1..Capacity) /\ Len(fr) = Capacity /\ \A i \in 1..Capacity : fr[i] = i
  BY <1>0
<1>4. Books(none, none, ix, fr, 0, o)
  <2>1. BooksType(none, none, ix, fr)
    BY <1>3 DEF BooksType
  <2>2. \A s : ~On(o, 0, s)
    BY DEF On
  <2>. HIDE DEF fr, o
  <2>3. \A s \in 1..Capacity : Spare(fr, s)
    BY <1>3 DEF Spare
  <2>4. \A s \in 1..Capacity : none[s] = Undef
    BY <1>0
  <2>5. \A k \in Key : ix[k] = Undef
    OBVIOUS
  <2>. HIDE DEF none, ix
  <2>. QED
    BY <1>0, <1>3, <2>1, <2>2, <2>3, <2>4, <2>5 DEF Books
<1>. HIDE DEF zero, none, ix, fr, o
<1>5. CacheState(cache, o) /\ L!Entries(cache) = Listing(none, none, o, 0)
  BY <1>1, <1>2, <1>4, StateIs
<1>6. L!Entries(cache) = << >>
  BY <1>5 DEF Listing
<1>. QED
  BY <1>1, <1>5, <1>6 DEF CacheInv, L!Abstract!Init

LEMMA CacheStep ==
  ASSUME CacheAssumption, CacheInv, [L!Next]_L!lVars
  PROVE  CacheInv' /\ [L!Abstract!Next]_<<L!Entries(cache), lOut>> /\ [L!EachCall]_L!lVars
<1>. PICK o : CacheState(cache, o)
  BY DEF CacheInv
<1>1. ASSUME NEW k \in Key
      PROVE  /\ L!Get(k) => CacheInv' /\ L!Abstract!Get(k)
             /\ L!Del(k) => CacheInv' /\ L!Abstract!Del(k)
             /\ \A v \in Value : L!Set(k, v) => CacheInv' /\ L!Abstract!Put(k, v)
  BY GetStep, DelStep, SetStep DEF CacheInv
<1>2. L!EachCall
  BY <1>1 DEF L!EachCall
<1>3. CASE UNCHANGED L!lVars
  <2>1. cache' = cache /\ lOut' = lOut
    BY <1>3 DEF L!lVars
  <2>2. CacheInv'
    BY <2>1 DEF CacheInv
  <2>3. L!Entries(cache)' = L!Entries(cache)
    BY <2>1
  <2>. QED
    BY <1>2, <2>1, <2>2, <2>3
<1>4. CASE L!Next
  <2>1. CacheInv' /\ L!Abstract!Next
    BY <1>1, <1>4 DEF L!Next, L!Abstract!Next
  <2>. QED
    BY <1>2, <2>1
<1>. QED
  BY <1>3, <1>4

\* CacheInv is an invariant: at every moment some order of the linked slots
\* makes next and prev a closed chain through them, and the map, the contents
\* of the slots and the free slots agree with it, whatever get, set and delete
\* were called (src/src/LRUCache.ts), for every capacity make accepts.
THEOREM CacheInvariant ==
  ASSUME CacheAssumption
  PROVE  L!Spec => []CacheInv
<1>1. L!Init => CacheInv
  BY CacheBegins
<1>2. CacheInv /\ [L!Next]_L!lVars => CacheInv'
  BY CacheStep
<1>. QED
  BY <1>1, <1>2, PTL DEF L!Spec

\* The linked slots implement the recency list: every get, set and delete does
\* to the entries, read along next, what the list's operation does, and gives
\* the same answer; a full cache drops exactly the entry used longest ago
\* (src/src/LRUCache.ts: get, set, delete, evict).
THEOREM CacheIsRecencyList ==
  ASSUME CacheAssumption
  PROVE  L!Spec => L!IsRecencyList
<1>1. L!Init => CacheInv /\ L!Abstract!Init
  BY CacheBegins
<1>2. CacheInv /\ [L!Next]_L!lVars =>
        CacheInv' /\ [L!Abstract!Next]_<<L!Entries(cache), lOut>> /\ [L!EachCall]_L!lVars
  BY CacheStep
<1>. QED
  BY <1>1, <1>2, PTL DEF L!Spec, L!IsRecencyList, L!Abstract!Spec

LEMMA ChainCount ==
  ASSUME CacheAssumption, NEW next, NEW prev, NEW o, NEW n, Chain(next, prev, o, n)
  PROVE  Cardinality({o[i] : i \in 1..n}) = n
<1>. DEFINE S == {o[i] : i \in 1..n}
            f == [i \in 1..n |-> o[i]]
<1>1. n \in Nat /\ \A i, j \in 1..n : o[i] = o[j] => i = j
  BY DEF Chain
<1>2. f \in Bijection(1..n, S)
  BY <1>1 DEF Bijection, Injection, Surjection, IsInjective
<1>. HIDE DEF f, S
<1>3. ExistsBijection(1..n, S)
  BY <1>2 DEF ExistsBijection
<1>4. Cardinality(S) = n
  BY <1>1, <1>3, FS_CountingElements
<1>. QED
  BY <1>4 DEF S

LEMMA SameCount ==
  ASSUME NEW S
  PROVE  L!Cardinality(S) = Cardinality(S)
BY DEF L!Cardinality, Cardinality

LEMMA CacheLinks ==
  ASSUME CacheAssumption, CacheInv
  PROVE  L!LinksSound
<1>. DEFINE n == cache.size
            ks == cache.keys
            vs == cache.vals
            ix == cache.index
            fr == cache.free
            after == L!Walk(cache.next)
            before == L!Walk(cache.prev)
            linked == {after[i] : i \in 1..n}
            free == {fr[i] : i \in DOMAIN fr}
<1>. PICK o : CacheState(cache, o)
  BY DEF CacheInv
<1>1. Chain(cache.next, cache.prev, o, n) /\ Books(ks, vs, ix, fr, n, o)
  BY DEF CacheState
<1>2. /\ n \in Nat /\ n \in 0..Capacity /\ Capacity \in Nat /\ o[n + 1] = 0
      /\ \A i \in 1..n : o[i] # 0 /\ o[i] \in 1..Capacity
  <2>1. n \in Nat /\ n \in 0..Capacity /\ Capacity \in Nat /\ \A i \in 1..n : o[i] \in 1..Capacity
    BY <1>1, OnSlots
  <2>. QED
    BY <1>1, <2>1 DEF Chain
<1>3. /\ \A i \in 0..(n + 1) : after[i] = o[i]
      /\ \A i \in 0..(n + 1) : before[i] = o[n + 1 - i]
  BY <1>1, ChainWalk
<1>. HIDE DEF n, ks, vs, ix, fr, after, before
<1>4. \A i \in 1..n : after[i] = o[i]
  BY <1>2, <1>3
<1>5. linked = {o[i] : i \in 1..n}
  BY <1>4
<1>6. \A s : s \in linked <=> On(o, n, s)
  BY <1>5 DEF On
<1>7. fr \in Seq(1..Capacity) /\ DOMAIN fr = 1..Len(fr) /\ Len(fr) = Capacity - n
  BY <1>1 DEF Books, BooksType
<1>8. \A s : s \in free <=> Spare(fr, s)
  BY <1>7 DEF Spare
<1>9. \A s \in linked : s \in 1..Capacity /\ s # 0
  BY <1>2, <1>5
<1>10. \A s \in free : s \in 1..Capacity
  <2>1. \A i \in 1..Len(fr) : fr[i] \in 1..Capacity
    BY <1>7, ElementOfSeq
  <2>. QED
    BY <1>7, <2>1
<1>11. L!Cardinality(linked) = n
  <2>1. Cardinality({o[i] : i \in 1..n}) = n
    BY <1>1, ChainCount
  <2>. HIDE DEF linked
  <2>2. Cardinality(linked) = n
    BY <1>5, <2>1
  <2>. QED
    BY <2>2, SameCount
<1>. HIDE DEF linked, free
<1>12. after[n + 1] = 0 /\ 0 \notin linked
  BY <1>2, <1>3, <1>9
<1>13. \A i \in 1..n : before[i] = after[n + 1 - i]
  <2>1. ASSUME NEW i \in 1..n  PROVE before[i] = after[n + 1 - i]
    <3>1. i \in 0..(n + 1) /\ n + 1 - i \in 0..(n + 1)
      BY <1>2
    <3>. QED
      BY <1>3, <3>1
  <2>. QED
    BY <2>1
<1>14. free = (1..Capacity) \ linked
  <2>1. \A s \in 1..Capacity : On(o, n, s) <=> ~Spare(fr, s)
    BY <1>1 DEF Books
  <2>. QED
    BY <1>6, <1>8, <1>10, <2>1
<1>15. \A s \in free : ks[s] = Undef /\ vs[s] = Undef
  <2>1. \A s \in 1..Capacity : Spare(fr, s) => ks[s] = Undef /\ vs[s] = Undef
    BY <1>1 DEF Books
  <2>. QED
    BY <1>8, <1>10, <2>1
<1>16. \A k \in Key, s \in 1..Capacity : ix[k] = s <=> s \in linked /\ ks[s] = k
  <2>1. /\ \A s \in 1..Capacity : On(o, n, s) => ks[s] \in Key /\ vs[s] \in Value /\ ix[ks[s]] = s
        /\ \A k \in Key : ix[k] # Undef => On(o, n, ix[k]) /\ ks[ix[k]] = k
    BY <1>1 DEF Books
  <2>2. \A s \in 1..Capacity : s # Undef
    BY <1>2 DEF CacheAssumption
  <2>. QED
    BY <1>6, <2>1, <2>2
<1>17. /\ after[n + 1] = 0 /\ 0 \notin linked
       /\ \A i \in 1..n : before[i] = after[n + 1 - i]
       /\ L!Cardinality(linked) = n /\ Len(fr) = Capacity - n
       /\ free = (1..Capacity) \ linked
       /\ \A s \in free : ks[s] = Undef /\ vs[s] = Undef
       /\ \A k \in Key, s \in 1..Capacity : ix[k] = s <=> s \in linked /\ ks[s] = k
  BY <1>7, <1>11, <1>12, <1>13, <1>14, <1>15, <1>16
<1>. QED
  BY <1>17 DEF L!LinksSound, L!SENTINEL, n, ks, vs, ix, fr, after, before, linked, free

\* The links read backwards are the links read forwards and close after `size'
\* steps, the map names exactly the linked slots, and the free slots are the
\* others and hold nothing (src/src/LRUCache.ts: detach, insertAfterSentinel,
\* the free list).
THEOREM CacheLinksSound ==
  ASSUME CacheAssumption
  PROVE  L!Spec => []L!LinksSound
<1>1. CacheInv => L!LinksSound
  BY CacheLinks
<1>. QED
  BY <1>1, CacheInvariant, PTL

-----------------------------------------------------------------------------
(* The containers side by side: what each one promises, in one behaviour. *)

LEMMA AllAssumed ==
  /\ QueueAssumption /\ HeapAssumption /\ CacheAssumption
  /\ ColumnsAssumption /\ BitsAssumption /\ FilterAssumption /\ Undef \notin Value
BY ContainersAssumption

\* A container takes a step of its own or none.
LEMMA OwnSteps ==
  ASSUME [Next]_vars
  PROVE  /\ [Q!Next]_Q!qVars /\ [PQ!Next]_PQ!hVars /\ [L!Next]_L!lVars
         /\ [SA!Next]_SA!sVars /\ [BS!Next]_BS!bVars /\ [BF!Next]_BF!fVars
BY DEF Next, vars, qVars, hVars, lVars, sVars, bVars, fVars,
       Q!qVars, PQ!hVars, L!lVars, SA!sVars, BS!bVars, BF!fVars

\* Side by side, each container behaves as it does alone.
THEOREM EachIsAContainer ==
  Spec => Q!Spec /\ PQ!Spec /\ L!Spec /\ SA!Spec /\ BS!Spec /\ BF!Spec
<1>1. Init => Q!Init /\ PQ!Init /\ L!Init /\ SA!Init /\ BS!Init /\ BF!Init
  BY DEF Init
<1>2. [Next]_vars => /\ [Q!Next]_Q!qVars /\ [PQ!Next]_PQ!hVars /\ [L!Next]_L!lVars
                     /\ [SA!Next]_SA!sVars /\ [BS!Next]_BS!bVars /\ [BF!Next]_BF!fVars
  BY OwnSteps
<1>. QED
  BY <1>1, <1>2, PTL DEF Spec, Q!Spec, PQ!Spec, L!Spec, SA!Spec, BS!Spec, BF!Spec

(***************************************************************************)
(* ContainersRefine: the ring of Queue.ts implements a double-ended queue, *)
(* the heap of PriorityQueue.ts a priority queue that a comparator that    *)
(* throws cannot harm, the slots of LRUCache.ts a recency list.            *)
(***************************************************************************)
THEOREM ContainersDoRefine == Spec => ContainersRefine
<1>1. Q!Spec => Q!IsDeque
  BY AllAssumed, QueueIsDeque
<1>2. PQ!Spec => PQ!IsPriorityBag
  BY AllAssumed, HeapIsPriorityBag
<1>3. L!Spec => L!IsRecencyList
  BY AllAssumed, CacheIsRecencyList
<1>. QED
  BY <1>1, <1>2, <1>3, EachIsAContainer, PTL DEF ContainersRefine

\* BitsAreSets: the words of BitSet.ts behave as sets, for any width and capacity.
THEOREM BitsAreIndeedSets == Spec => BitsAreSets
<1>1. BS!Spec => BS!BehavesAsSets
  BY AllAssumed, BitsBehaveAsSets
<1>. QED
  BY <1>1, EachIsAContainer, PTL DEF BitsAreSets

(***************************************************************************)
(* StructuresSound: what the next operation relies on, in the ring of      *)
(* Queue.ts, the heap of PriorityQueue.ts, the links of LRUCache.ts, the   *)
(* columns of SOA.ts, the words of BitSet.ts and the probes of             *)
(* BloomFilter.ts, holds after every call.                                 *)
(***************************************************************************)
THEOREM StructuresStaySound == Spec => []StructuresSound
<1>1. Q!Spec => []Q!RingSound
  BY AllAssumed, QueueRingSound
<1>2. PQ!Spec => []PQ!HeapSound
  BY AllAssumed, HeapStaysSound
<1>3. L!Spec => []L!LinksSound
  BY AllAssumed, CacheLinksSound
<1>4. SA!Spec => []SA!ColumnsSound
  BY AllAssumed, ColumnsStaySound
<1>5. BS!Spec => []BS!WordsSound
  BY AllAssumed, WordsStaySound
<1>6. BF!Spec => []BF!NoFalseNegatives
  BY AllAssumed, FilterHasNoFalseNegatives
<1>. QED
  BY <1>1, <1>2, <1>3, <1>4, <1>5, <1>6, EachIsAContainer, PTL DEF StructuresSound
=============================================================================
