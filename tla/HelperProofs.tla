---------------------------- MODULE HelperProofs ----------------------------
(***************************************************************************)
(* The helpers and the test runners, for every value of their constants:   *)
(* one inductive invariant and one theorem for each, which share no state, *)
(* and at the end the properties of Helpers, in which they run side by     *)
(* side.                                                                   *)
(***************************************************************************)
EXTENDS Helpers, SequencesExt, FiniteSetTheorems, WellFoundedInduction, TLAPS

-----------------------------------------------------------------------------
(* MemoryPool: the free list and the loans share out the instances made. *)

FreeSet == Range(freeList)
Lent == DOMAIN borrowed

PoolFrame == [kind : {"factory"}, who : MP!Borrower] \cup [kind : {"fn"}, o : Nat]

\* How many instances there may be beside those that open factories will make.
Surplus == IF nesting > 1 THEN nesting - 1 ELSE 0

\* The count of SlotsBalanced is inductive only beside a free list that names
\* no instance twice: an instance popped from it must be gone from it.  A call
\* of the factory that is open has a place reserved in the bound, for the
\* instance it will return.
MemoryInv ==
  /\ made \in Nat /\ MinSize <= MaxSize
  /\ freeList \in Seq(1..made) /\ IsInjective(freeList)
  /\ Lent \subseteq 1..made /\ FreeSet \cap Lent = {}
  /\ acquiredCount = Cardinality(Lent)
  /\ Cardinality(FreeSet) = Len(freeList)
  /\ frames \in Seq(PoolFrame) /\ nesting \in Nat /\ Cardinality(MP!Open) <= nesting
  /\ Len(freeList) + acquiredCount + Cardinality(MP!Open) <= MaxSize + Surplus
  /\ mpOut = "exhausted" => acquiredCount >= MaxSize

\* make(): minSize instances are free and none is lent.
LEMMA MemoryInit == SizesAssumption /\ MP!Init => MemoryInv
<1>. SUFFICES ASSUME SizesAssumption, MP!Init PROVE MemoryInv
  OBVIOUS
<1>1. freeList = [i \in 1..MinSize |-> i] /\ MinSize \in Nat /\ made = MinSize
  BY DEF SizesAssumption, MP!Init
<1>2. freeList \in Seq(1..made) /\ Len(freeList) = MinSize /\ IsInjective(freeList)
  BY <1>1 DEF IsInjective
<1>3. FreeSet = 1..MinSize
  BY <1>1 DEF FreeSet, Range
<1>4. Cardinality(FreeSet) = MinSize
  BY <1>1, <1>3, FS_Interval
<1>5. Lent = {} /\ Cardinality(Lent) = 0
  BY FS_EmptySet DEF MP!Init, Lent
<1>6. frames = <<>> /\ nesting = 0 /\ MP!Open = {} /\ Cardinality(MP!Open) = 0
  BY FS_EmptySet DEF MP!Init, MP!Open
<1>. QED
  BY <1>1, <1>2, <1>4, <1>5, <1>6 DEF MP!Init, MemoryInv, SizesAssumption, Surplus

\* What acquire pops off the free list is on it no longer.
LEMMA PopFree ==
  ASSUME NEW n \in Nat, NEW q \in Seq(1..n), IsInjective(q), q # <<>>
  PROVE  /\ MP!Front(q) \in Seq(1..n) /\ IsInjective(MP!Front(q)) /\ Len(MP!Front(q)) = Len(q) - 1
         /\ MP!Last(q) \in 1..n /\ MP!Last(q) \in Range(q)
         /\ Range(MP!Front(q)) = Range(q) \ {MP!Last(q)}
<1>. DEFINE m == Len(q)
            f == MP!Front(q)
<1>1. m \in Nat \ {0} /\ DOMAIN q = 1..m
  OBVIOUS
<1>2. f \in Seq(1..n) /\ Len(f) = m - 1 /\ DOMAIN f = 1..(m - 1) /\ \A i \in 1..(m - 1) : f[i] = q[i]
  BY <1>1 DEF MP!Front
<1>3. MP!Last(q) = q[m] /\ q[m] \in 1..n
  BY <1>1 DEF MP!Last
<1>. HIDE DEF m, f
<1>4. \A i \in 1..m : i = m \/ i \in 1..(m - 1)
  BY <1>1
<1>5. m \in 1..m /\ \A i \in 1..(m - 1) : i \in 1..m /\ i # m
  BY <1>1
<1>6. IsInjective(f)
  BY <1>1, <1>2, <1>5 DEF IsInjective
<1>7. Range(f) \subseteq Range(q) \ {q[m]}
  BY <1>1, <1>2, <1>5 DEF IsInjective, Range
<1>8. Range(q) \ {q[m]} \subseteq Range(f)
  BY <1>1, <1>2, <1>4 DEF Range
<1>9. q[m] \in Range(q)
  BY <1>1, <1>5 DEF Range
<1>. QED
  BY <1>2, <1>3, <1>6, <1>7, <1>8, <1>9 DEF m, f

\* What release pushes is new to the free list.
LEMMA PushFree ==
  ASSUME NEW S, NEW q \in Seq(S), IsInjective(q), NEW o \in S, o \notin Range(q)
  PROVE  /\ Append(q, o) \in Seq(S) /\ IsInjective(Append(q, o))
         /\ Len(Append(q, o)) = Len(q) + 1 /\ Range(Append(q, o)) = Range(q) \cup {o}
<1>. DEFINE r == Append(q, o)
            n == Len(q)
<1>1. n \in Nat /\ DOMAIN q = 1..n /\ DOMAIN r = 1..(n + 1) /\ Len(r) = n + 1 /\ r \in Seq(S)
  OBVIOUS
<1>2. r[n + 1] = o /\ \A i \in 1..n : r[i] = q[i]
  OBVIOUS
<1>. HIDE DEF r, n
<1>3. \A i \in 1..(n + 1) : i = n + 1 \/ i \in 1..n
  BY <1>1
<1>4. n + 1 \in 1..(n + 1) /\ \A i \in 1..n : i \in 1..(n + 1) /\ q[i] # o
  BY <1>1 DEF Range
<1>5. IsInjective(r)
  BY <1>1, <1>2, <1>3, <1>4 DEF IsInjective
<1>6. Range(r) = Range(q) \cup {o}
  BY <1>1, <1>2, <1>3, <1>4 DEF Range
<1>. QED
  BY <1>1, <1>5, <1>6 DEF r, n

\* The loans are finitely many, and so are the free instances.
LEMMA MemoryFinite ==
  ASSUME MemoryInv
  PROVE  /\ IsFiniteSet(Lent) /\ Cardinality(Lent) \in Nat
         /\ IsFiniteSet(FreeSet) /\ FreeSet \subseteq 1..made
<1>1. IsFiniteSet(1..made)
  BY FS_Interval DEF MemoryInv
<1>2. FreeSet \subseteq 1..made
  BY DEF MemoryInv, FreeSet, Range
<1>. QED
  BY <1>1, <1>2, FS_Subset, FS_CardinalityType DEF MemoryInv

OpenIn(q) == {i \in DOMAIN q : q[i].kind = "factory"}

\* The calls of the factory that are open are finitely many; a frame pushed on
\* the stack is one more if it is one, and a frame popped one less.
LEMMA OpenFrames ==
  ASSUME NEW fs \in Seq(PoolFrame)
  PROVE  /\ IsFiniteSet(OpenIn(fs)) /\ Cardinality(OpenIn(fs)) \in Nat
         /\ \A f \in PoolFrame :
               /\ Append(fs, f) \in Seq(PoolFrame)
               /\ f.kind = "factory" => Cardinality(OpenIn(Append(fs, f))) = Cardinality(OpenIn(fs)) + 1
               /\ f.kind # "factory" => Cardinality(OpenIn(Append(fs, f))) = Cardinality(OpenIn(fs))
         /\ fs # <<>> =>
               /\ MP!Front(fs) \in Seq(PoolFrame) /\ MP!Last(fs) \in PoolFrame
               /\ MP!Last(fs).kind = "factory" =>
                     Cardinality(OpenIn(MP!Front(fs))) = Cardinality(OpenIn(fs)) - 1
               /\ MP!Last(fs).kind # "factory" =>
                     Cardinality(OpenIn(MP!Front(fs))) = Cardinality(OpenIn(fs))
<1>. DEFINE n == Len(fs)
<1>1. \A q \in Seq(PoolFrame) : IsFiniteSet(OpenIn(q)) /\ Cardinality(OpenIn(q)) \in Nat
  <2>. TAKE q \in Seq(PoolFrame)
  <2>1. IsFiniteSet(1..Len(q)) /\ OpenIn(q) \subseteq 1..Len(q)
    BY FS_Interval DEF OpenIn
  <2>. QED
    BY <2>1, FS_Subset, FS_CardinalityType
<1>2. n \in Nat /\ DOMAIN fs = 1..n
  OBVIOUS
<1>3. ASSUME NEW f \in PoolFrame
      PROVE  /\ Append(fs, f) \in Seq(PoolFrame)
             /\ f.kind = "factory" => Cardinality(OpenIn(Append(fs, f))) = Cardinality(OpenIn(fs)) + 1
             /\ f.kind # "factory" => Cardinality(OpenIn(Append(fs, f))) = Cardinality(OpenIn(fs))
  <2>. DEFINE g == Append(fs, f)
  <2>1. g \in Seq(PoolFrame) /\ DOMAIN g = 1..(n + 1) /\ g[n + 1] = f /\ \A i \in 1..n : g[i] = fs[i]
    OBVIOUS
  <2>. HIDE DEF g
  <2>2. f.kind = "factory" => OpenIn(g) = OpenIn(fs) \cup {n + 1}
    BY <1>2, <2>1 DEF OpenIn
  <2>3. f.kind # "factory" => OpenIn(g) = OpenIn(fs)
    BY <1>2, <2>1 DEF OpenIn
  <2>4. n + 1 \notin OpenIn(fs)
    BY <1>2 DEF OpenIn
  <2>5. Cardinality(OpenIn(fs) \cup {n + 1}) = Cardinality(OpenIn(fs)) + 1
    BY <1>1, <2>4, FS_AddElement
  <2>. QED
    BY <2>1, <2>2, <2>3, <2>5 DEF g
<1>4. ASSUME fs # <<>>
      PROVE  /\ MP!Front(fs) \in Seq(PoolFrame) /\ MP!Last(fs) \in PoolFrame
             /\ MP!Last(fs).kind = "factory" =>
                   Cardinality(OpenIn(MP!Front(fs))) = Cardinality(OpenIn(fs)) - 1
             /\ MP!Last(fs).kind # "factory" =>
                   Cardinality(OpenIn(MP!Front(fs))) = Cardinality(OpenIn(fs))
  <2>. DEFINE g == MP!Front(fs)
  <2>1. n \in Nat \ {0} /\ MP!Last(fs) = fs[n] /\ fs[n] \in PoolFrame
    BY <1>2, <1>4 DEF MP!Last
  <2>2. g \in Seq(PoolFrame) /\ DOMAIN g = 1..(n - 1) /\ \A i \in 1..(n - 1) : g[i] = fs[i]
    BY <1>2, <2>1 DEF MP!Front
  <2>. HIDE DEF g
  <2>3. fs[n].kind = "factory" => n \in OpenIn(fs) /\ OpenIn(g) = OpenIn(fs) \ {n}
    BY <1>2, <2>1, <2>2 DEF OpenIn
  <2>4. fs[n].kind # "factory" => OpenIn(g) = OpenIn(fs)
    BY <1>2, <2>1, <2>2 DEF OpenIn
  <2>5. n \in OpenIn(fs) => Cardinality(OpenIn(fs) \ {n}) = Cardinality(OpenIn(fs)) - 1
    BY <1>1, FS_RemoveElement
  <2>. QED
    BY <2>1, <2>2, <2>3, <2>4, <2>5 DEF g
<1>. QED
  BY <1>1, <1>3, <1>4

\* What the steps of the pool have in common to start from.
LEMMA MemoryFacts ==
  ASSUME SizesAssumption, MemoryInv
  PROVE  /\ made \in Nat /\ freeList \in Seq(1..made) /\ IsInjective(freeList)
         /\ Lent \subseteq 1..made /\ Len(freeList) \in Nat /\ MaxSize \in Nat
         /\ acquiredCount = Cardinality(Lent) /\ Cardinality(Lent) \in Nat /\ IsFiniteSet(Lent)
         /\ IsFiniteSet(FreeSet) /\ FreeSet \subseteq 1..made
         /\ frames \in Seq(PoolFrame) /\ nesting \in Nat /\ Surplus \in Nat
         /\ Cardinality(MP!Open) \in Nat /\ Cardinality(MP!Open) <= nesting
<1>1. MP!Open = OpenIn(frames)
  BY DEF MP!Open, OpenIn
<1>2. Cardinality(MP!Open) \in Nat
  BY <1>1, OpenFrames DEF MemoryInv
<1>. QED
  BY <1>2, MemoryFinite DEF MemoryInv, SizesAssumption, Surplus

\* withAcquire runs fn, and acquire returns: no call of the factory opens.
LEMMA RunsFrames ==
  ASSUME NEW who, NEW o \in Nat, NEW fs \in Seq(PoolFrame), MP!Runs(who, o, fs)
  PROVE  frames' \in Seq(PoolFrame) /\ Cardinality(MP!Open') = Cardinality(OpenIn(fs))
<1>. DEFINE f == [kind |-> "fn", o |-> o]
<1>1. f \in PoolFrame /\ f.kind # "factory"
  BY DEF PoolFrame
<1>2. frames' = Append(fs, f) \/ frames' = fs
  BY DEF MP!Runs
<1>. HIDE DEF f
<1>3. MP!Open' = OpenIn(frames')
  BY DEF MP!Open, OpenIn
<1>4. Append(fs, f) \in Seq(PoolFrame) /\ Cardinality(OpenIn(Append(fs, f))) = Cardinality(OpenIn(fs))
  BY <1>1, OpenFrames
<1>. QED
  BY <1>2, <1>3, <1>4

\* acquire lends an instance that was free.
LEMMA AcquireFreeInv ==
  ASSUME SizesAssumption, MemoryInv, NEW who, MP!AcquireFree(who)
  PROVE  MemoryInv'
<1>0. /\ made \in Nat /\ freeList \in Seq(1..made) /\ IsInjective(freeList)
      /\ Lent \subseteq 1..made /\ Len(freeList) \in Nat /\ MaxSize \in Nat
      /\ acquiredCount = Cardinality(Lent) /\ Cardinality(Lent) \in Nat /\ IsFiniteSet(Lent)
      /\ IsFiniteSet(FreeSet) /\ FreeSet \subseteq 1..made
      /\ frames \in Seq(PoolFrame) /\ nesting \in Nat /\ Surplus \in Nat
      /\ Cardinality(MP!Open) \in Nat /\ Cardinality(MP!Open) <= nesting
  BY MemoryFacts
<1>1. /\ freeList # <<>>
      /\ acquiredCount' = acquiredCount + 1 /\ freeList' = MP!Front(freeList)
      /\ MP!Lend(MP!Last(freeList), who) /\ MP!Runs(who, MP!Last(freeList), frames)
      /\ mpOut' = "ok" /\ UNCHANGED <<made, nesting>>
  BY DEF MP!AcquireFree
<1>2. Lent' = Lent \cup {MP!Last(freeList)}
  BY <1>1 DEF MP!Lend, Lent
<1>3. /\ MP!Last(freeList) \in FreeSet /\ FreeSet' = FreeSet \ {MP!Last(freeList)}
      /\ freeList' \in Seq(1..made) /\ IsInjective(freeList') /\ Len(freeList') = Len(freeList) - 1
  BY <1>0, <1>1, PopFree DEF FreeSet
<1>4. MP!Last(freeList) \notin Lent
  BY <1>3 DEF MemoryInv
<1>5. Cardinality(Lent') = Cardinality(Lent) + 1
  BY <1>0, <1>2, <1>4, FS_AddElement
<1>6. Cardinality(FreeSet') = Cardinality(FreeSet) - 1
  BY <1>0, <1>3, FS_RemoveElement
<1>7. made' = made /\ acquiredCount' = Cardinality(Lent') /\ mpOut' # "exhausted" /\ nesting' = nesting
  BY <1>0, <1>1, <1>5
<1>8. Lent' \subseteq 1..made' /\ FreeSet' \cap Lent' = {}
  BY <1>0, <1>2, <1>3, <1>7 DEF MemoryInv
<1>9. Cardinality(FreeSet') = Len(freeList')
  BY <1>3, <1>6 DEF MemoryInv
<1>10. frames' \in Seq(PoolFrame) /\ Cardinality(MP!Open') = Cardinality(MP!Open)
  <2>1. FreeSet \subseteq Nat
    BY <1>0
  <2>2. MP!Last(freeList) \in Nat
    BY <1>3, <2>1
  <2>3. MP!Open = OpenIn(frames)
    BY DEF MP!Open, OpenIn
  <2>. QED
    BY <1>0, <1>1, <2>2, <2>3, RunsFrames
<1>11. Len(freeList') + acquiredCount' + Cardinality(MP!Open') <= MaxSize + Surplus'
  BY <1>0, <1>1, <1>3, <1>7, <1>10 DEF MemoryInv, Surplus
<1>. QED
  BY <1>0, <1>3, <1>7, <1>8, <1>9, <1>10, <1>11 DEF MemoryInv

\* acquire calls the factory while fewer than maxSize are counted: a place is
\* reserved, beside those of the calls that are open already.
LEMMA CallFactoryInv ==
  ASSUME SizesAssumption, MemoryInv, NEW who \in MP!Borrower, MP!CallFactory(who)
  PROVE  MemoryInv'
<1>0. /\ acquiredCount = Cardinality(Lent) /\ Cardinality(Lent) \in Nat /\ MaxSize \in Nat
      /\ frames \in Seq(PoolFrame) /\ nesting \in Nat /\ Len(freeList) \in Nat
      /\ Cardinality(MP!Open) \in Nat /\ Cardinality(MP!Open) <= nesting
  BY MemoryFacts
<1>. DEFINE f == [kind |-> "factory", who |-> who]
<1>1. f \in PoolFrame /\ f.kind = "factory" /\ frames' = Append(frames, f)
  BY DEF PoolFrame, MP!CallFactory
<1>. HIDE DEF f
<1>2. frames' \in Seq(PoolFrame) /\ Cardinality(MP!Open') = Cardinality(MP!Open) + 1
  <2>1. MP!Open' = OpenIn(frames') /\ MP!Open = OpenIn(frames)
    BY DEF MP!Open, OpenIn
  <2>. QED
    BY <1>0, <1>1, <2>1, OpenFrames
<1>3. MP!Cardinality(MP!Open) = Cardinality(MP!Open)
  BY DEF MP!Cardinality, Cardinality
<1>4. nesting' \in Nat /\ nesting' >= Cardinality(MP!Open) + 1
  BY <1>0, <1>3 DEF MP!CallFactory
<1>5. Len(freeList) = 0 /\ acquiredCount < MaxSize /\ mpOut' # "exhausted"
  BY DEF MP!CallFactory
<1>6. /\ freeList' = freeList /\ acquiredCount' = acquiredCount /\ made' = made
      /\ Lent' = Lent /\ FreeSet' = FreeSet
  BY DEF MP!CallFactory, Lent, FreeSet
<1>7. Len(freeList') + acquiredCount' + Cardinality(MP!Open') <= MaxSize + Surplus'
  <2>1. Surplus' >= Cardinality(MP!Open)
    BY <1>0, <1>4 DEF Surplus
  <2>2. Surplus' \in Nat
    <3>1. \A n \in Nat : (IF n > 1 THEN n - 1 ELSE 0) \in Nat
      OBVIOUS
    <3>2. Surplus' = IF nesting' > 1 THEN nesting' - 1 ELSE 0
      BY DEF Surplus
    <3>. QED
      BY <1>4, <3>1, <3>2
  <2>3. \A a, c, m, e \in Nat : a < m /\ e >= c => 0 + a + (c + 1) <= m + e
    OBVIOUS
  <2>4. 0 + acquiredCount + (Cardinality(MP!Open) + 1) <= MaxSize + Surplus'
    BY <1>0, <1>5, <2>1, <2>2, <2>3
  <2>. QED
    BY <1>2, <1>5, <1>6, <2>4
<1>. QED
  BY <1>2, <1>4, <1>5, <1>6, <1>7 DEF MemoryInv

\* The factory returns a new instance, which takes the place reserved for it.
LEMMA FactoryReturnsInv ==
  ASSUME SizesAssumption, MemoryInv, MP!FactoryReturns
  PROVE  MemoryInv'
<1>0. /\ made \in Nat /\ freeList \in Seq(1..made) /\ IsInjective(freeList)
      /\ Lent \subseteq 1..made /\ Len(freeList) \in Nat /\ MaxSize \in Nat
      /\ acquiredCount = Cardinality(Lent) /\ Cardinality(Lent) \in Nat /\ IsFiniteSet(Lent)
      /\ IsFiniteSet(FreeSet) /\ FreeSet \subseteq 1..made
      /\ frames \in Seq(PoolFrame) /\ nesting \in Nat /\ Surplus \in Nat
      /\ Cardinality(MP!Open) \in Nat /\ Cardinality(MP!Open) <= nesting
  BY MemoryFacts
<1>1. /\ frames # <<>> /\ MP!Last(frames).kind = "factory"
      /\ made' = made + 1 /\ acquiredCount' = acquiredCount + 1
      /\ MP!Lend(made + 1, MP!Last(frames).who)
      /\ MP!Runs(MP!Last(frames).who, made + 1, MP!Front(frames))
      /\ mpOut' = "ok" /\ UNCHANGED <<freeList, nesting>>
  BY DEF MP!FactoryReturns, MP!InFactory, MP!Top
<1>2. Lent' = Lent \cup {made + 1} /\ made + 1 \notin Lent
  BY <1>0, <1>1 DEF MP!Lend, Lent
<1>3. Cardinality(Lent') = Cardinality(Lent) + 1
  BY <1>0, <1>2, FS_AddElement
<1>4. /\ FreeSet' = FreeSet /\ freeList' \in Seq(1..made') /\ IsInjective(freeList')
      /\ Cardinality(FreeSet') = Len(freeList') /\ Len(freeList') = Len(freeList)
  <2>1. 1..made \subseteq 1..(made + 1)
    BY <1>0
  <2>2. freeList \in Seq(1..(made + 1))
    BY <1>0, <2>1
  <2>. QED
    BY <1>0, <1>1, <2>2 DEF FreeSet, MemoryInv
<1>5. Lent' \subseteq 1..made' /\ made' \in Nat /\ FreeSet' \cap Lent' = {}
  <2>1. made + 1 \notin FreeSet
    BY <1>0
  <2>2. FreeSet \cap Lent = {}
    BY DEF MemoryInv
  <2>. QED
    BY <1>0, <1>1, <1>2, <1>4, <2>1, <2>2
<1>6. frames' \in Seq(PoolFrame) /\ Cardinality(MP!Open') = Cardinality(MP!Open) - 1
  <2>1. MP!Front(frames) \in Seq(PoolFrame)
    BY <1>0, <1>1, OpenFrames
  <2>2. Cardinality(OpenIn(MP!Front(frames))) = Cardinality(MP!Open) - 1
    <3>1. MP!Open = OpenIn(frames)
      BY DEF MP!Open, OpenIn
    <3>. QED
      BY <1>0, <1>1, <3>1, OpenFrames
  <2>3. made + 1 \in Nat
    BY <1>0
  <2>4. MP!Runs(MP!Last(frames).who, made + 1, MP!Front(frames))
    BY <1>1
  <2>. HIDE DEF MP!Front
  <2>. QED
    BY <2>1, <2>2, <2>3, <2>4, RunsFrames
<1>7. Len(freeList') + acquiredCount' + Cardinality(MP!Open') <= MaxSize + Surplus'
  BY <1>0, <1>1, <1>4, <1>6 DEF MemoryInv, Surplus
<1>8. nesting' \in Nat /\ Cardinality(MP!Open') <= nesting'
  BY <1>0, <1>1, <1>6
<1>9. acquiredCount' = Cardinality(Lent') /\ mpOut' # "exhausted" /\ MinSize <= MaxSize
  BY <1>0, <1>1, <1>3 DEF MemoryInv
<1>. QED
  BY <1>4, <1>5, <1>6, <1>7, <1>8, <1>9 DEF MemoryInv

\* A frame that is popped, or none, leaves the rest of the books alone.
LEMMA PopFrame ==
  ASSUME SizesAssumption, MemoryInv, frames' = frames \/ (frames # <<>> /\ frames' = MP!Front(frames))
  PROVE  /\ frames' \in Seq(PoolFrame) /\ Cardinality(MP!Open') \in Nat
         /\ Cardinality(MP!Open') <= Cardinality(MP!Open)
<1>1. frames \in Seq(PoolFrame) /\ Cardinality(MP!Open) \in Nat
  BY MemoryFacts
<1>2. CASE frames' = frames
  BY <1>1, <1>2 DEF MP!Open
<1>3. CASE frames # <<>> /\ frames' = MP!Front(frames)
  <2>1. frames' \in Seq(PoolFrame)
    BY <1>1, <1>3, OpenFrames
  <2>4. MP!Open' = OpenIn(frames') /\ MP!Open = OpenIn(frames)
    BY DEF MP!Open, OpenIn
  <2>2. \/ Cardinality(MP!Open') = Cardinality(MP!Open) - 1
        \/ Cardinality(MP!Open') = Cardinality(MP!Open)
    BY <1>1, <1>3, <2>4, OpenFrames
  <2>3. Cardinality(MP!Open') \in Nat
    BY <2>1, <2>4, OpenFrames
  <2>. QED
    BY <1>1, <2>1, <2>2, <2>3
<1>. QED
  BY <1>2, <1>3

\* Exhaustion, a factory that throws, and a withAcquire that goes on
\* asynchronously change neither the loans nor the free list.
LEMMA NoLoanInv ==
  ASSUME SizesAssumption, MemoryInv,
         Lent' = Lent, UNCHANGED <<freeList, acquiredCount, made, nesting>>,
         frames' = frames \/ (frames # <<>> /\ frames' = MP!Front(frames)),
         mpOut' = "exhausted" => acquiredCount >= MaxSize
  PROVE  MemoryInv'
<1>1. /\ frames' \in Seq(PoolFrame) /\ Cardinality(MP!Open') \in Nat
      /\ Cardinality(MP!Open') <= Cardinality(MP!Open)
  BY PopFrame
<1>2. /\ Len(freeList) \in Nat /\ acquiredCount \in Nat /\ MaxSize \in Nat /\ Surplus \in Nat
      /\ Cardinality(MP!Open) \in Nat /\ nesting \in Nat
  BY MemoryFacts
<1>3. FreeSet' = FreeSet /\ Surplus' = Surplus
  BY DEF FreeSet, Surplus
<1>4. Len(freeList') + acquiredCount' + Cardinality(MP!Open') <= MaxSize + Surplus'
  BY <1>1, <1>2, <1>3 DEF MemoryInv
<1>5. Cardinality(MP!Open') <= nesting'
  BY <1>1, <1>2 DEF MemoryInv
<1>. QED
  BY <1>1, <1>3, <1>4, <1>5 DEF MemoryInv

\* release ends exactly one loan, whether its reset throws or not.
LEMMA ReleaseInv ==
  ASSUME SizesAssumption, MemoryInv, NEW o \in Lent, NEW throws \in BOOLEAN, MP!Release(o, throws),
         frames' = frames \/ (frames # <<>> /\ frames' = MP!Front(frames)),
         mpOut' # "exhausted"
  PROVE  MemoryInv'
<1>0. /\ made \in Nat /\ freeList \in Seq(1..made) /\ IsInjective(freeList)
      /\ Lent \subseteq 1..made /\ Len(freeList) \in Nat /\ MaxSize \in Nat
      /\ acquiredCount = Cardinality(Lent) /\ Cardinality(Lent) \in Nat /\ IsFiniteSet(Lent)
      /\ IsFiniteSet(FreeSet) /\ FreeSet \subseteq 1..made
      /\ frames \in Seq(PoolFrame) /\ nesting \in Nat /\ Surplus \in Nat
      /\ Cardinality(MP!Open) \in Nat /\ Cardinality(MP!Open) <= nesting
  BY MemoryFacts
<1>1. Lent' = Lent \ {o} /\ made' = made /\ acquiredCount' = acquiredCount - 1 /\ nesting' = nesting
  BY DEF MP!Release, MP!TakeBack, Lent
<1>2. Cardinality(Lent') = Cardinality(Lent) - 1
  BY <1>0, <1>1, FS_RemoveElement
<1>3. /\ frames' \in Seq(PoolFrame) /\ Cardinality(MP!Open') \in Nat
      /\ Cardinality(MP!Open') <= Cardinality(MP!Open)
  BY PopFrame
<1>4. /\ freeList' \in Seq(1..made) /\ IsInjective(freeList')
      /\ FreeSet' \cap Lent' = {} /\ Cardinality(FreeSet') = Len(freeList')
      /\ Len(freeList') \in Nat /\ Len(freeList') <= Len(freeList) + 1
  <2>1. CASE throws
    <3>1. freeList' = freeList /\ FreeSet' = FreeSet
      BY <2>1 DEF MP!Release, FreeSet
    <3>. QED
      BY <1>0, <1>1, <3>1 DEF MemoryInv
  <2>2. CASE ~throws
    <3>1. freeList' = Append(freeList, o) /\ o \in 1..made /\ o \notin FreeSet
      BY <1>0, <2>2 DEF MP!Release, MemoryInv
    <3>2. o \notin Range(freeList)
      BY <3>1 DEF FreeSet
    <3>3. /\ freeList' \in Seq(1..made) /\ IsInjective(freeList') /\ Len(freeList') = Len(freeList) + 1
          /\ Range(freeList') = Range(freeList) \cup {o}
      BY <1>0, <3>1, <3>2, PushFree
    <3>4. FreeSet' = FreeSet \cup {o}
      BY <3>3 DEF FreeSet
    <3>5. Cardinality(FreeSet') = Cardinality(FreeSet) + 1
      BY <1>0, <3>1, <3>4, FS_AddElement
    <3>6. Cardinality(FreeSet') = Len(freeList')
      BY <3>3, <3>5 DEF MemoryInv
    <3>7. FreeSet' \cap Lent' = {}
      BY <1>1, <3>4 DEF MemoryInv
    <3>. QED
      BY <1>0, <3>3, <3>6, <3>7
  <2>. QED
    BY <2>1, <2>2
<1>5. acquiredCount' = Cardinality(Lent') /\ Lent' \subseteq 1..made' /\ acquiredCount' \in Int
  BY <1>0, <1>1, <1>2
<1>6. Len(freeList') + acquiredCount' + Cardinality(MP!Open') <= MaxSize + Surplus'
  <2>1. Len(freeList) + acquiredCount + Cardinality(MP!Open) <= MaxSize + Surplus
    BY DEF MemoryInv
  <2>2. Surplus' = Surplus
    BY <1>1 DEF Surplus
  <2>3. \A a, l, l1, c, c1, b \in Int :
           l + a + c <= b /\ l1 <= l + 1 /\ c1 <= c => l1 + (a - 1) + c1 <= b
    OBVIOUS
  <2>4. /\ Len(freeList) \in Int /\ acquiredCount \in Int /\ Cardinality(MP!Open) \in Int
        /\ Len(freeList') \in Int /\ Cardinality(MP!Open') \in Int /\ MaxSize + Surplus \in Int
    BY <1>0, <1>3, <1>4
  <2>5. Len(freeList') + (acquiredCount - 1) + Cardinality(MP!Open') <= MaxSize + Surplus
    BY <1>3, <1>4, <2>1, <2>3, <2>4
  <2>. QED
    BY <1>1, <2>2, <2>5
<1>7. Cardinality(MP!Open') <= nesting'
  BY <1>0, <1>1, <1>3
<1>. QED
  BY <1>0, <1>1, <1>3, <1>4, <1>5, <1>6, <1>7 DEF MemoryInv

\* Every call of the pool, and every end of a withAcquire, keeps the books.
LEMMA MemoryNext == SizesAssumption /\ MemoryInv /\ [MP!Next]_MP!mpVars => MemoryInv'
<1>. SUFFICES ASSUME SizesAssumption, MemoryInv, [MP!Next]_MP!mpVars PROVE MemoryInv'
  OBVIOUS
<1>1. ASSUME NEW who, MP!AcquireFree(who) PROVE MemoryInv'
  BY <1>1, AcquireFreeInv
<1>2. ASSUME NEW who \in MP!Borrower, MP!CallFactory(who) PROVE MemoryInv'
  BY <1>2, CallFactoryInv
<1>3. CASE MP!Exhausted
  <2>1. /\ Lent' = Lent /\ UNCHANGED <<freeList, acquiredCount, made, nesting>>
        /\ frames' = frames /\ acquiredCount >= MaxSize
    BY <1>3 DEF MP!Exhausted, Lent
  <2>. QED
    BY <2>1, NoLoanInv
<1>4. CASE MP!FactoryReturns
  BY <1>4, FactoryReturnsInv
<1>5. CASE MP!FactoryThrows
  <2>1. /\ Lent' = Lent /\ UNCHANGED <<freeList, acquiredCount, made, nesting>>
        /\ frames # <<>> /\ frames' = MP!Front(frames) /\ mpOut' # "exhausted"
    BY <1>5 DEF MP!FactoryThrows, MP!InFactory, Lent
  <2>. QED
    BY <2>1, NoLoanInv
<1>6. ASSUME NEW o, NEW t \in BOOLEAN, MP!CallerReleases(o, t) PROVE MemoryInv'
  <2>1. o \in Lent /\ MP!Release(o, t) /\ frames' = frames /\ mpOut' # "exhausted"
    BY <1>6 DEF MP!CallerReleases, Lent
  <2>. QED
    BY <2>1, ReleaseInv
<1>7. ASSUME NEW o, NEW how, NEW f \in BOOLEAN, NEW t \in BOOLEAN, MP!Ends(o, how, f, t)
      PROVE  MemoryInv'
  <2>1. /\ o \in Lent /\ MP!Release(o, t) /\ mpOut' # "exhausted"
        /\ frames' = frames \/ (frames # <<>> /\ frames' = MP!Front(frames))
    BY <1>7 DEF MP!Ends, MP!InFn, Lent
  <2>. QED
    BY <2>1, ReleaseInv
<1>8. ASSUME NEW o, MP!GoesAsync(o) PROVE MemoryInv'
  <2>1. /\ Lent' = Lent /\ UNCHANGED <<freeList, acquiredCount, made, nesting>>
        /\ frames # <<>> /\ frames' = MP!Front(frames) /\ mpOut' # "exhausted"
    BY <1>8 DEF MP!GoesAsync, MP!InFn, Lent
  <2>. QED
    BY <2>1, NoLoanInv
<1>9. CASE UNCHANGED MP!mpVars
  BY <1>9 DEF MP!mpVars, MemoryInv, FreeSet, Lent, Surplus, MP!Open
<1>. QED
  BY <1>1, <1>2, <1>3, <1>4, <1>5, <1>6, <1>7, <1>8, <1>9 DEF MP!Next

\* MemoryPool.ts keeps its slots balanced, for any sizes, however often the
\* factory, the callback or the reset throws and whatever they do with the pool
\* themselves: the count is the number of loans, no instance is lent twice or
\* lent and free, and no more than maxSize exist, or one more for each level of
\* calls of the factory inside one another.
THEOREM MemoryPoolBalanced ==
  ASSUME SizesAssumption
  PROVE  MP!Spec => []MP!SlotsBalanced
<1>1. MP!Init => MemoryInv
  BY MemoryInit
<1>2. MemoryInv /\ [MP!Next]_MP!mpVars => MemoryInv'
  BY MemoryNext
<1>3. MemoryInv => MP!SlotsBalanced
  <2>. SUFFICES ASSUME MemoryInv PROVE MP!SlotsBalanced
    OBVIOUS
  <2>1. Cardinality(FreeSet \cup Lent) = Cardinality(FreeSet) + Cardinality(Lent)
    <3>1. Cardinality(FreeSet \cap Lent) = 0
      BY FS_EmptySet DEF MemoryInv
    <3>2. IsFiniteSet(FreeSet) /\ IsFiniteSet(Lent)
      BY MemoryFinite
    <3>3. Cardinality(FreeSet) \in Nat /\ Cardinality(Lent) \in Nat
      BY <3>2, FS_CardinalityType
    <3>4. Cardinality(FreeSet \cup Lent)
             = Cardinality(FreeSet) + Cardinality(Lent) - Cardinality(FreeSet \cap Lent)
      BY <3>2, FS_Union
    <3>. QED
      BY <3>1, <3>3, <3>4
  <2>2. FreeSet \cup Lent \subseteq 1..made
    BY MemoryFinite DEF MemoryInv
  <2>3. \A S : MP!Cardinality(S) = Cardinality(S)
    BY DEF MP!Cardinality, Cardinality
  <2>4. /\ Cardinality(FreeSet \cup Lent) <= MaxSize + Surplus /\ MaxSize \in Nat /\ nesting \in Nat
        /\ Cardinality(FreeSet \cup Lent) \in Nat
    BY <2>1, MemoryFacts DEF MemoryInv
  <2>5. Cardinality(FreeSet \cup Lent) <= IF nesting > 1 THEN MaxSize + (nesting - 1) ELSE MaxSize
    BY <2>4 DEF Surplus
  <2>. QED
    BY <2>2, <2>3, <2>5 DEF MemoryInv, MP!SlotsBalanced, FreeSet, Lent, Range
<1>. QED
  BY <1>1, <1>2, <1>3, PTL DEF MP!Spec

-----------------------------------------------------------------------------
(* WeakCache: an entry and the registration of its reference. *)

\* No two keys share a reference: unregister, which takes back every registration
\* of a token, takes back the one of its own entry only.
WeakType ==
  /\ target \in Seq(Obj)
  /\ entries \in [Key -> 1..Len(target) \cup {Undef}]
  /\ \A j, k \in Key : entries[j] = entries[k] /\ entries[k] # Undef => j = k

\* Tracked, said of the object instead of what deref returns.
Registration(k) == [ref |-> entries[k], key |-> k]
WeakTracked ==
  \A k \in Key : entries[k] # Undef =>
    IF target[entries[k]] \in live THEN Registration(k) \in registry ELSE Registration(k) \in pending

WeakInv == WeakType /\ WeakTracked

\* deref of an entry is undefined exactly when its object was collected.
LEMMA DerefLive ==
  ASSUME UndefAssumption, WeakType, NEW k \in Key, entries[k] # Undef
  PROVE  /\ entries[k] \in 1..Len(target) /\ entries[k] \in Nat
         /\ target[entries[k]] \in Obj /\ target[entries[k]] # Undef
         /\ WC!Deref(entries[k]) = Undef <=> target[entries[k]] \notin live
<1>1. entries[k] \in 1..Len(target)
  BY DEF WeakType
<1>2. target[entries[k]] \in Obj /\ entries[k] \in Nat
  BY <1>1 DEF WeakType
<1>. QED
  BY <1>1, <1>2 DEF UndefAssumption, WC!Deref

\* get, has and the callback of the registry drop an entry whose object is gone.
LEMMA ClearEntry ==
  ASSUME UndefAssumption, WeakInv, NEW k \in Key, UNCHANGED <<target, live, registry>>,
         entries' \in {entries, [entries EXCEPT ![k] = Undef]},
         \A j \in Key : j # k /\ entries[j] # Undef =>
           (Registration(j) \in pending => Registration(j) \in pending'),
         entries' = entries /\ entries[k] # Undef /\ target[entries[k]] \notin live =>
           (Registration(k) \in pending => Registration(k) \in pending')
  PROVE  WeakInv'
<1>1. \A j \in Key : entries'[j] # Undef => entries'[j] = entries[j] /\ (j = k => entries' = entries)
  BY DEF WeakInv, WeakType
<1>2. WeakType'
  BY <1>1 DEF WeakInv, WeakType
<1>3. ASSUME NEW j \in Key, entries'[j] # Undef
      PROVE  IF target'[entries'[j]] \in live' THEN Registration(j)' \in registry'
             ELSE Registration(j)' \in pending'
  BY <1>1, <1>3 DEF WeakInv, WeakTracked, Registration
<1>. QED
  BY <1>2, <1>3 DEF WeakInv, WeakTracked

\* set gives the key a reference of its own and drops what its old one registered.
LEMMA SetInv ==
  ASSUME UndefAssumption, WeakInv, NEW k \in Key, NEW v \in Obj, WC!Set(k, v)
  PROVE  WeakInv'
<1>. DEFINE r == Len(target) + 1
<1>1. /\ target \in Seq(Obj) /\ target' = Append(target, v) /\ v \in live /\ live' = live
      /\ entries \in [Key -> 1..Len(target) \cup {Undef}] /\ entries' = [entries EXCEPT ![k] = r]
  BY DEF WeakInv, WeakType, WC!Set
<1>2. /\ Len(target) \in Nat /\ Len(target') = r /\ target' \in Seq(Obj) /\ target'[r] = v
      /\ \A i \in 1..Len(target) : target'[i] = target[i]
  BY <1>1
<1>3. r \in Nat /\ r # Undef /\ r \in 1..r /\ \A i \in 1..Len(target) : i \in 1..r /\ i # r
  BY <1>2 DEF UndefAssumption
<1>4. /\ entries'[k] = r /\ \A j \in Key : j # k => entries'[j] = entries[j]
      /\ \A j \in Key : entries[j] # Undef => entries[j] \in 1..Len(target)
  BY <1>1
<1>. HIDE DEF r
<1>5. WeakType'
  <2>1. entries' \in [Key -> 1..Len(target') \cup {Undef}]
    BY <1>1, <1>2, <1>3
  <2>2. \A i, j \in Key : entries'[i] = entries'[j] /\ entries'[j] # Undef => i = j
    BY <1>3, <1>4 DEF WeakInv, WeakType
  <2>. QED
    BY <1>2, <2>1, <2>2 DEF WeakType
<1>6. /\ [ref |-> r, key |-> k] \in registry'
      /\ \A c \in registry : c.ref # entries[k] => c \in registry'
      /\ \A c \in pending : c.ref # entries[k] => c \in pending'
  BY DEF WC!Set, r
<1>7. ASSUME NEW j \in Key, entries'[j] # Undef
      PROVE  IF target'[entries'[j]] \in live' THEN Registration(j)' \in registry'
             ELSE Registration(j)' \in pending'
  <2>1. CASE j = k
    BY <1>1, <1>2, <1>4, <1>6, <2>1 DEF Registration
  <2>2. CASE j # k
    <3>1. /\ entries'[j] = entries[j] /\ target'[entries[j]] = target[entries[j]]
          /\ Registration(j)' = Registration(j)
      BY <1>2, <1>4, <1>7, <2>2 DEF Registration
    <3>2. Registration(j).ref # entries[k]
      BY <1>7, <2>2, <3>1 DEF WeakInv, WeakType, Registration
    <3>. QED
      BY <1>1, <1>6, <1>7, <3>1, <3>2 DEF WeakInv, WeakTracked
  <2>. QED
    BY <2>1, <2>2
<1>. QED
  BY <1>5, <1>7 DEF WeakInv, WeakTracked

\* remove takes back the registration of its own entry only.
LEMMA RemoveKeyInv ==
  ASSUME UndefAssumption, WeakInv, NEW k \in Key, WC!RemoveKey(k)
  PROVE  WeakInv'
<1>1. /\ entries[k] # Undef /\ entries' = [entries EXCEPT ![k] = Undef]
      /\ target' = target /\ live' = live
      /\ registry' = {c \in registry : c.ref # entries[k]}
      /\ pending' = {c \in pending : c.ref # entries[k]}
  BY DEF WC!RemoveKey, WC!Unregister
<1>2. \A j \in Key : entries'[j] # Undef => j # k /\ entries'[j] = entries[j] /\ entries[j] # entries[k]
  BY <1>1 DEF WeakInv, WeakType
<1>3. WeakType'
  BY <1>1, <1>2 DEF WeakInv, WeakType
<1>4. \A j \in Key : Registration(j).ref = entries[j] /\ (entries'[j] = entries[j] => Registration(j)' = Registration(j))
  BY DEF Registration
<1>. QED
  BY <1>1, <1>2, <1>3, <1>4 DEF WeakInv, WeakTracked

\* Every operation of the cache, a collection and a callback of the registry.
LEMMA WeakNext == UndefAssumption /\ WeakInv /\ [WC!Next]_(WC!wVars) => WeakInv'
<1>. SUFFICES ASSUME UndefAssumption, WeakInv, [WC!Next]_(WC!wVars)  PROVE WeakInv'
  OBVIOUS
<1>1. ASSUME NEW k \in Key, WC!Read(k)  PROVE WeakInv'
  BY <1>1, ClearEntry DEF WC!Read
<1>2. ASSUME NEW v \in Obj, WC!Collect(v)  PROVE WeakInv'
  <2>1. /\ entries' = entries /\ target' = target /\ live' = live \ {v}
        /\ \A c \in registry : IF target[c.ref] = v THEN c \in pending' ELSE c \in registry'
        /\ pending \subseteq pending'
    BY <1>2 DEF WC!Collect
  <2>2. \A k \in Key : Registration(k)' = Registration(k) /\ Registration(k).ref = entries[k]
    BY <2>1 DEF Registration
  <2>3. WeakType'
    BY <2>1 DEF WeakInv, WeakType
  <2>. QED
    BY <2>1, <2>2, <2>3 DEF WeakInv, WeakTracked
<1>3. ASSUME NEW c \in pending, WC!Finalize(c)  PROVE WeakInv'
  <2>1. CASE c.key \in Key
    <3>. DEFINE k == c.key
    <3>1. /\ entries' \in {entries, [entries EXCEPT ![k] = Undef]}
          /\ pending' = pending \ {c} /\ target' = target /\ live' = live /\ registry' = registry
      BY <1>3 DEF WC!Finalize, WC!Cleanup
    <3>2. \A j \in Key : Registration(j).key = j
      BY DEF Registration
    <3>3. entries[k] # Undef /\ target[entries[k]] \notin live => entries' = [entries EXCEPT ![k] = Undef]
      BY <1>3, <2>1, DerefLive DEF WC!Finalize, WC!Cleanup, WeakInv
    <3>4. entries' = entries /\ entries[k] # Undef => target[entries[k]] \in live
      BY <2>1, <3>3 DEF WeakInv, WeakType
    <3>. QED
      BY <2>1, <3>1, <3>2, <3>4, ClearEntry
  <2>2. CASE c.key \notin Key
    <3>1. /\ entries' = entries /\ pending' = pending \ {c}
          /\ target' = target /\ live' = live /\ registry' = registry
      <4>1. [entries EXCEPT ![c.key] = Undef] = entries
        BY <2>2 DEF WeakInv, WeakType
      <4>. QED
        BY <1>3, <4>1 DEF WC!Finalize, WC!Cleanup
    <3>2. \A j \in Key : Registration(j) # c /\ Registration(j)' = Registration(j)
      BY <2>2, <3>1 DEF Registration
    <3>3. WeakType'
      BY <3>1 DEF WeakInv, WeakType
    <3>. QED
      BY <3>1, <3>2, <3>3 DEF WeakInv, WeakTracked
  <2>. QED
    BY <2>1, <2>2
<1>4. CASE UNCHANGED WC!wVars
  BY <1>4 DEF WC!wVars, WeakInv, WeakType, WeakTracked, Registration
<1>. QED
  BY <1>1, <1>2, <1>3, <1>4, SetInv, RemoveKeyInv DEF WC!Next

\* WeakCache.ts: a callback or a read never drops the entry of a live object,
\* however late it comes and whatever was stored under its key in the meantime,
\* and an entry whose object was collected has its callback to come.
THEOREM WeakCacheKeepsLive ==
  ASSUME UndefAssumption
  PROVE  WC!Spec => WC!KeepsLive
<1>1. WC!Init => WeakInv
  <2>. SUFFICES ASSUME WC!Init PROVE WeakInv
    OBVIOUS
  <2>. QED
    BY DEF WC!Init, WeakInv, WeakType, WeakTracked
<1>2. WeakInv /\ [WC!Next]_(WC!wVars) => WeakInv'
  BY WeakNext
<1>3. WeakInv => WC!Tracked
  BY DerefLive DEF WeakInv, WeakTracked, Registration, WC!Tracked
<1>4. WeakInv /\ [WC!Next]_(WC!wVars) =>
        [\A k \in Key :
            (entries[k] # Undef /\ entries'[k] = Undef /\ target[entries[k]] \in live)
                => WC!RemoveKey(k)]_(WC!wVars)
  <2>. SUFFICES ASSUME WeakInv, WC!Next, NEW k \in Key,
                       entries[k] # Undef, entries'[k] = Undef, target[entries[k]] \in live
                PROVE  WC!RemoveKey(k)
    BY DEF WC!wVars
  <2>1. WC!Deref(entries[k]) # Undef /\ entries \in [Key -> 1..Len(target) \cup {Undef}]
    BY DerefLive DEF WeakInv, WeakType
  <2>2. ASSUME NEW j \in Key, WC!Read(j)  PROVE FALSE
    BY <2>1, <2>2 DEF WC!Read
  <2>3. ASSUME NEW j \in Key, NEW v \in Obj, WC!Set(j, v)  PROVE FALSE
    <3>1. entries' = [entries EXCEPT ![j] = Len(target) + 1] /\ Len(target) + 1 # Undef
      BY <2>3 DEF WC!Set, UndefAssumption, WeakInv, WeakType
    <3>. QED
      BY <2>1, <3>1
  <2>4. ASSUME NEW j \in Key, WC!RemoveKey(j)  PROVE WC!RemoveKey(k)
    BY <2>1, <2>4 DEF WC!RemoveKey
  <2>5. ASSUME NEW v \in Obj, WC!Collect(v)  PROVE FALSE
    BY <2>5 DEF WC!Collect
  <2>6. ASSUME NEW c \in pending, WC!Finalize(c)  PROVE FALSE
    BY <2>1, <2>6 DEF WC!Finalize, WC!Cleanup
  <2>. QED
    BY <2>2, <2>3, <2>4, <2>5, <2>6 DEF WC!Next
<1>. QED
  BY <1>1, <1>2, <1>3, <1>4, PTL DEF WC!Spec, WC!KeepsLive

-----------------------------------------------------------------------------
(* UUIDv7: the counter keeps within its two fields. *)

\* The last identifier is the one the state would format, and the counter is
\* within the headroom that the identifiers of this timestamp have used up.
UuidInv ==
  /\ lastMs \in Nat \cup {-1} /\ counter \in Nat /\ inMs \in Nat
  /\ poolPos \in 0..POOL_SIZE /\ id = U7!Format(lastMs, counter)
  /\ lastMs # -1 => inMs <= MaxInMs /\ counter <= (LOW * HIGH) \div 2 + inMs - 2

\* Division with remainder is unique.
LEMMA Quotient ==
  ASSUME NEW b \in Nat \ {0}, NEW q \in Nat, NEW r \in Nat, r < b
  PROVE  (b * q + r) \div b = q /\ (b * q + r) % b = r
  OBVIOUS

\* Counting up carries from the low field into the high one: the pair of fields
\* grows in the order of the string as long as the high field does not overflow.
LEMMA CounterCarries ==
  ASSUME NEW b \in Nat \ {0}, NEW h \in Nat \ {0}, NEW c \in Nat, c + 1 < b * h
  PROVE  \/ (c \div b) % h < ((c + 1) \div b) % h
         \/ (c \div b) % h = ((c + 1) \div b) % h /\ c % b < (c + 1) % b
<1>. DEFINE q == c \div b
            r == c % b
<1>1. q \in Nat /\ r \in Nat /\ r < b /\ c = b * q + r
  OBVIOUS
<1>. HIDE DEF q, r
<1>2. q < h
  <2>1. q >= h => b * q >= b * h
    BY <1>1
  <2>2. b * q \in Nat /\ b * h \in Nat
    BY <1>1
  <2>. QED
    BY <1>1, <2>1, <2>2
<1>3. q % h = q
  BY <1>1, <1>2
<1>4. CASE r + 1 < b
  <2>1. c + 1 = b * q + (r + 1) /\ r + 1 \in Nat
    BY <1>1
  <2>2. (c + 1) \div b = q /\ (c + 1) % b = r + 1
    BY <1>1, <1>4, <2>1, Quotient
  <2>. QED
    BY <1>1, <2>2 DEF q, r
<1>5. CASE r + 1 = b
  <2>1. c + 1 = b * (q + 1) + 0 /\ q + 1 \in Nat
    BY <1>1, <1>5
  <2>2. (c + 1) \div b = q + 1
    BY SMTT(20), <2>1, Quotient
  <2>3. q + 1 < h
    <3>1. q + 1 >= h => b * (q + 1) >= b * h
      BY <1>1
    <3>2. b * (q + 1) \in Nat /\ b * h \in Nat
      BY <1>1
    <3>. QED
      BY <1>1, <2>1, <3>1, <3>2
  <2>4. (q + 1) % h = q + 1
    BY <1>1, <2>3
  <2>. QED
    BY <1>1, <1>3, <2>2, <2>4 DEF q
<1>. QED
  BY <1>1, <1>4, <1>5

\* One identifier: reseeded under a later timestamp, counted up under the same.
LEMMA UuidStep ==
  ASSUME UuidAssumption, UuidInv, NEW now \in Clock, NEW seed \in U7!Seeds, U7!V7(now, seed)
  PROVE  UuidInv' /\ U7!Before(id, id') /\ poolPos' <= POOL_SIZE
<1>. DEFINE half == (LOW * HIGH) \div 2
<1>0. /\ now \in Nat /\ LOW \in Nat \ {0} /\ HIGH \in Nat \ {0} /\ MaxInMs \in Nat /\ MaxInMs <= half
      /\ POOL_SIZE \in Nat /\ RANDOM_BYTES \in 0..POOL_SIZE
      /\ lastMs \in Nat \cup {-1} /\ counter \in Nat /\ inMs \in Nat /\ poolPos \in 0..POOL_SIZE
      /\ lastMs # -1 => counter <= half + inMs - 2
  BY DEF UuidAssumption, UuidInv
<1>1. LOW * HIGH \in Nat /\ half \in Nat /\ half + half <= LOW * HIGH
  BY <1>0
<1>2. seed \in Nat /\ seed <= half - 1
  BY <1>1 DEF U7!Seeds
<1>. HIDE DEF half
<1>3. poolPos' \in 0..POOL_SIZE /\ poolPos' <= POOL_SIZE
  BY <1>0 DEF U7!V7
<1>4. /\ id = <<lastMs, (counter \div LOW) % HIGH, counter % LOW>>
      /\ id' = <<lastMs', (counter' \div LOW) % HIGH, counter' % LOW>>
      /\ id' = U7!Format(lastMs', counter') /\ inMs' <= MaxInMs
  BY DEF U7!V7, U7!Format, UuidInv
<1>5. CASE now > lastMs
  <2>1. lastMs' = now /\ counter' = seed /\ inMs' = 1 /\ lastMs < lastMs'
    BY <1>0, <1>5 DEF U7!V7, U7!Reseeds
  <2>2. U7!Before(id, id')
    BY <1>4, <2>1 DEF U7!Before
  <2>3. counter' <= half + inMs' - 2
    BY <1>1, <1>2, <2>1
  <2>. QED
    BY <1>0, <1>2, <1>3, <1>4, <2>1, <2>2, <2>3 DEF UuidInv, half
<1>6. CASE ~(now > lastMs)
  <2>1. /\ lastMs' = lastMs /\ counter' = counter + 1 /\ inMs' = inMs + 1 /\ lastMs # -1
        /\ lastMs \in Nat
    BY <1>0, <1>6 DEF U7!V7, U7!Reseeds
  <2>2. counter' <= half + inMs' - 2 /\ counter' \in Nat /\ inMs' \in Nat
    BY <1>0, <1>1, <2>1
  <2>3. counter + 1 < LOW * HIGH
    BY <1>0, <1>1, <1>4, <2>1, <2>2
  <2>4. \/ (counter \div LOW) % HIGH < ((counter + 1) \div LOW) % HIGH
        \/ /\ (counter \div LOW) % HIGH = ((counter + 1) \div LOW) % HIGH
           /\ counter % LOW < (counter + 1) % LOW
    BY <1>0, <2>3, CounterCarries
  <2>5. U7!Before(id, id')
    BY <1>4, <2>1, <2>4 DEF U7!Before
  <2>. QED
    BY <1>0, <1>3, <1>4, <2>1, <2>2, <2>5 DEF UuidInv, half
<1>. QED
  BY <1>5, <1>6

\* UUID.v7.ts: each identifier is greater than the one before, for counter
\* fields of any size: when the clock stalls or steps back, and when the counter
\* carries.  The random bytes are read inside the pool.
THEOREM UuidsAscend ==
  ASSUME UuidAssumption
  PROVE  U7!Spec => U7!Ascending
<1>1. U7!Init => UuidInv
  <2>. SUFFICES ASSUME U7!Init PROVE UuidInv
    OBVIOUS
  <2>1. (0 \div LOW) % HIGH = 0 /\ 0 % LOW = 0
    BY DEF UuidAssumption
  <2>. QED
    BY <2>1 DEF U7!Init, UuidInv, U7!Format, UuidAssumption
<1>2. UuidInv /\ [U7!Next]_(U7!uVars) =>
        /\ UuidInv'
        /\ [/\ U7!Before(id, id')
            /\ poolPos' <= POOL_SIZE]_(U7!uVars)
  <2>. SUFFICES ASSUME UuidInv, [U7!Next]_(U7!uVars)
                PROVE  /\ UuidInv'
                       /\ [/\ U7!Before(id, id')
                           /\ poolPos' <= POOL_SIZE]_(U7!uVars)
    OBVIOUS
  <2>1. CASE U7!Next
    BY <2>1, UuidStep DEF U7!Next
  <2>2. CASE UNCHANGED U7!uVars
    BY <2>2 DEF U7!uVars, UuidInv, U7!Format
  <2>. QED
    BY <2>1, <2>2
<1>. QED
  BY <1>1, <1>2, PTL DEF U7!Spec, U7!Ascending

-----------------------------------------------------------------------------
(* CallLimits: once and throttle under re-entrant calls. *)

Wrappers == {"once", "memo", "throttle", "debounce"}
Frame == [wrapper : Wrappers, arg : Arg \cup {Undef}]
CallsType ==
  /\ stack \in Seq(Frame)
  /\ once \in [f : {"set", "released"}, running : BOOLEAN, result : Value \cup {Undef}]
  /\ timers \in [throttle : BOOLEAN, debounce : Nat]
  /\ calls \in [made : Nat, succeeded : Nat, inWindow : Nat]

\* At most one running call is once's, which is then neither released nor idle.
OnceAt(s, i) == s[i].wrapper = "once"
OnceInv ==
  /\ \A i, j \in 1..Len(stack) : OnceAt(stack, i) /\ OnceAt(stack, j) => i = j
  /\ once.running <=> \E i \in 1..Len(stack) : OnceAt(stack, i)
  /\ once.running => once.f = "set"
  /\ calls.succeeded <= 1 /\ (calls.succeeded = 1 <=> once.f = "released")

WindowInv == calls.inWindow <= 1 /\ (calls.inWindow = 1 <=> timers.throttle)

\* The handle that debounced keeps is the one of the timer that is armed, if one is.
DelayInv == /\ due \subseteq Arg /\ \A a, b \in due : a = b
            /\ armed = {[id |-> timers.debounce, arg |-> a] : a \in due}

CallsInv == CallsType /\ OnceInv /\ WindowInv

LEMMA CallsBegin == C!Init => CallsInv
<1>. SUFFICES ASSUME C!Init PROVE CallsInv
  OBVIOUS
<1>1. CallsType /\ WindowInv
  BY DEF C!Init, CallsType, WindowInv
<1>2. OnceInv
  BY DEF C!Init, OnceInv
<1>. QED
  BY <1>1, <1>2 DEF CallsInv

\* A call of a wrapper other than once puts a frame on the stack.
LEMMA EnterKeeps ==
  ASSUME CallsInv, NEW w \in Wrappers, NEW a \in Arg \cup {Undef}, C!Enter(w, a)
  PROVE  /\ stack' \in Seq(Frame) /\ Len(stack') = Len(stack) + 1 /\ Len(stack) \in Nat
         /\ \A i \in 1..Len(stack) : stack'[i] = stack[i]
         /\ stack'[Len(stack) + 1].wrapper = w
<1>1. [wrapper |-> w, arg |-> a] \in Frame /\ stack \in Seq(Frame)
  BY DEF CallsInv, CallsType, Frame
<1>. QED
  BY <1>1 DEF C!Enter

LEMMA EnterOnce ==
  ASSUME CallsInv, NEW w \in Wrappers, NEW a \in Arg \cup {Undef}, C!Enter(w, a),
         calls'.succeeded = calls.succeeded,
         IF w = "once" THEN C!OnceRuns /\ once' = [once EXCEPT !.running = TRUE] ELSE once' = once
  PROVE  OnceInv'
<1>. DEFINE m == Len(stack)
<1>1. /\ Len(stack') = m + 1 /\ m \in Nat /\ stack'[m + 1].wrapper = w
      /\ \A i \in 1..m : stack'[i] = stack[i]
  BY EnterKeeps
<1>2. /\ \A i \in 1..m : OnceAt(stack', i) <=> OnceAt(stack, i)
      /\ OnceAt(stack', m + 1) <=> w = "once"
      /\ \A i \in 1..(m + 1) : i \in 1..m \/ i = m + 1
      /\ m + 1 \in 1..(m + 1) /\ \A i \in 1..m : i \in 1..(m + 1)
  BY <1>1 DEF OnceAt
<1>3. /\ \A i, j \in 1..m : OnceAt(stack, i) /\ OnceAt(stack, j) => i = j
      /\ once.running <=> \E i \in 1..m : OnceAt(stack, i)
      /\ once.running => once.f = "set"
      /\ calls.succeeded <= 1 /\ (calls.succeeded = 1 <=> once.f = "released")
      /\ once \in [f : {"set", "released"}, running : BOOLEAN, result : Value \cup {Undef}]
  BY DEF CallsInv, OnceInv, CallsType
<1>4. CASE w = "once"
  <2>1. ~once.running /\ once.f = "set" /\ once'.running = TRUE /\ once'.f = once.f
    BY <1>3, <1>4 DEF C!OnceRuns
  <2>2. \A i \in 1..m : ~OnceAt(stack', i)
    BY <1>2, <1>3, <2>1
  <2>3. \A i, j \in 1..(m + 1) : OnceAt(stack', i) /\ OnceAt(stack', j) => i = j
    BY <1>2, <2>2
  <2>4. once'.running <=> \E i \in 1..(m + 1) : OnceAt(stack', i)
    BY <1>2, <1>4, <2>1
  <2>. QED
    BY <1>1, <1>3, <2>1, <2>3, <2>4 DEF OnceInv, OnceAt
<1>5. CASE w # "once"
  <2>1. once' = once /\ ~OnceAt(stack', m + 1)
    BY <1>2, <1>5
  <2>2. \A i, j \in 1..(m + 1) : OnceAt(stack', i) /\ OnceAt(stack', j) => i = j
    BY <1>2, <1>3, <2>1
  <2>3. once'.running <=> \E i \in 1..(m + 1) : OnceAt(stack', i)
    BY <1>2, <1>3, <2>1
  <2>. QED
    BY <1>1, <1>3, <2>1, <2>2, <2>3 DEF OnceInv, OnceAt
<1>. QED
  BY <1>4, <1>5

\* The innermost call ends, by a return or by an exception.
LEMMA LeaveKeeps ==
  ASSUME CallsInv, stack # << >>, stack' = C!Front(stack)
  PROVE  /\ stack' \in Seq(Frame) /\ Len(stack) \in Nat /\ Len(stack) >= 1
         /\ Len(stack') = Len(stack) - 1
         /\ \A i \in 1..(Len(stack) - 1) : stack'[i] = stack[i]
         /\ C!Last(stack) = stack[Len(stack)]
<1>1. stack \in Seq(Frame) /\ Len(stack) \in Nat /\ Len(stack) >= 1
  BY DEF CallsInv, CallsType
<1>2. stack' = SubSeq(stack, 1, Len(stack) - 1)
  BY DEF C!Front
<1>3. SubSeq(stack, 1, Len(stack) - 1) \in Seq(Frame)
  BY <1>1
<1>4. Len(SubSeq(stack, 1, Len(stack) - 1)) = Len(stack) - 1
  <2>. DEFINE m == Len(stack) - 1
  <2>1. m \in Nat
    BY <1>1
  <2>. HIDE DEF m
  <2>2. Len(SubSeq(stack, 1, m)) = m
    BY <1>1, <2>1
  <2>. QED
    BY <2>2 DEF m
<1>5. \A i \in 1..(Len(stack) - 1) : SubSeq(stack, 1, Len(stack) - 1)[i] = stack[i]
  BY <1>1
<1>6. C!Last(stack) = stack[Len(stack)]
  BY DEF C!Last
<1>. QED
  BY <1>1, <1>2, <1>3, <1>4, <1>5, <1>6

LEMMA LeaveOnce ==
  ASSUME CallsInv, stack # << >>, stack' = C!Front(stack),
         once' \in [f : {"set", "released"}, running : BOOLEAN, result : Value \cup {Undef}],
         calls'.succeeded <= 1 /\ (calls'.succeeded = 1 <=> once'.f = "released"),
         IF C!Last(stack).wrapper = "once" THEN once'.running = FALSE ELSE once' = once
  PROVE  OnceInv'
<1>. DEFINE m == Len(stack)
<1>1. /\ Len(stack') = m - 1 /\ m \in Nat /\ m >= 1 /\ C!Last(stack) = stack[m]
      /\ \A i \in 1..(m - 1) : stack'[i] = stack[i]
  BY LeaveKeeps
<1>2. /\ \A i \in 1..(m - 1) : OnceAt(stack', i) <=> OnceAt(stack, i)
      /\ \A i \in 1..m : i \in 1..(m - 1) \/ i = m
      /\ m \in 1..m /\ \A i \in 1..(m - 1) : i \in 1..m /\ i # m
  BY <1>1 DEF OnceAt
<1>3. /\ \A i, j \in 1..m : OnceAt(stack, i) /\ OnceAt(stack, j) => i = j
      /\ once.running <=> \E i \in 1..m : OnceAt(stack, i)
      /\ once.running => once.f = "set"
  BY DEF CallsInv, OnceInv
<1>4. \A i, j \in 1..(m - 1) : OnceAt(stack', i) /\ OnceAt(stack', j) => i = j
  BY <1>2, <1>3
<1>5. CASE OnceAt(stack, m)
  <2>1. once'.running = FALSE
    BY <1>1, <1>5 DEF OnceAt
  <2>2. \A i \in 1..(m - 1) : ~OnceAt(stack', i)
    BY <1>2, <1>3, <1>5
  <2>. QED
    BY <1>1, <1>4, <2>1, <2>2 DEF OnceInv, OnceAt
<1>6. CASE ~OnceAt(stack, m)
  <2>1. once' = once
    BY <1>1, <1>6 DEF OnceAt
  <2>2. once'.running <=> \E i \in 1..(m - 1) : OnceAt(stack', i)
    BY <1>2, <1>3, <1>6, <2>1
  <2>. QED
    BY <1>1, <1>3, <1>4, <2>1, <2>2 DEF OnceInv, OnceAt
<1>. QED
  BY <1>5, <1>6

LEMMA CallsStep == CallsInv /\ DelayInv /\ [C!Next]_C!cVars => CallsInv'
<1>. SUFFICES ASSUME CallsInv, DelayInv, [C!Next]_C!cVars PROVE CallsInv'
  OBVIOUS
<1>0. /\ stack \in Seq(Frame)
      /\ once \in [f : {"set", "released"}, running : BOOLEAN, result : Value \cup {Undef}]
      /\ timers \in [throttle : BOOLEAN, debounce : Nat]
      /\ calls \in [made : Nat, succeeded : Nat, inWindow : Nat]
  BY DEF CallsInv, CallsType
<1>1. CASE C!OnceCall
  <2>1. /\ C!Enter("once", Undef) /\ once' = [once EXCEPT !.running = TRUE] /\ timers' = timers
        /\ calls' = [calls EXCEPT !.made = @ + 1] /\ C!OnceRuns
    BY <1>1 DEF C!OnceCall
  <2>2. calls'.succeeded = calls.succeeded /\ calls'.inWindow = calls.inWindow
    BY <1>0, <2>1
  <2>3. "once" \in Wrappers /\ Undef \in Arg \cup {Undef}
    BY DEF Wrappers
  <2>4. stack' \in Seq(Frame)
    BY <2>1, <2>3, EnterKeeps
  <2>5. CallsType'
    <3>1. once' \in [f : {"set", "released"}, running : BOOLEAN, result : Value \cup {Undef}]
      BY <1>0, <2>1
    <3>2. timers' \in [throttle : BOOLEAN, debounce : Nat]
      BY <1>0, <2>1
    <3>3. calls' \in [made : Nat, succeeded : Nat, inWindow : Nat]
      BY <1>0, <2>1
    <3>. QED
      BY <2>4, <3>1, <3>2, <3>3 DEF CallsType
  <2>6. OnceInv'
    BY <2>1, <2>2, <2>3, EnterOnce
  <2>. QED
    BY <2>1, <2>2, <2>5, <2>6 DEF CallsInv, WindowInv
<1>2. ASSUME NEW a \in Arg, C!MemoCall(a) PROVE CallsInv'
  <2>1. /\ C!Enter("memo", a) /\ once' = once /\ timers' = timers
        /\ calls' = [calls EXCEPT !.made = @ + 1]
    BY <1>2 DEF C!MemoCall
  <2>2. calls'.succeeded = calls.succeeded /\ calls'.inWindow = calls.inWindow
    BY <1>0, <2>1
  <2>3. "memo" \in Wrappers /\ a \in Arg \cup {Undef}
    BY DEF Wrappers
  <2>4. stack' \in Seq(Frame)
    BY <2>1, <2>3, EnterKeeps
  <2>5. CallsType'
    <3>1. once' \in [f : {"set", "released"}, running : BOOLEAN, result : Value \cup {Undef}]
      BY <1>0, <2>1
    <3>2. timers' \in [throttle : BOOLEAN, debounce : Nat]
      BY <1>0, <2>1
    <3>3. calls' \in [made : Nat, succeeded : Nat, inWindow : Nat]
      BY <1>0, <2>1
    <3>. QED
      BY <2>4, <3>1, <3>2, <3>3 DEF CallsType
  <2>6. OnceInv'
    BY <2>1, <2>2, <2>3, EnterOnce
  <2>. QED
    BY <2>1, <2>2, <2>5, <2>6 DEF CallsInv, WindowInv
<1>3. ASSUME NEW a \in Arg, C!Throttled(a) PROVE CallsInv'
  <2>1. /\ C!Enter("throttle", a) /\ once' = once /\ ~timers.throttle
        /\ timers' = [timers EXCEPT !.throttle = TRUE]
        /\ calls' = [calls EXCEPT !.made = @ + 1, !.inWindow = @ + 1]
    BY <1>3 DEF C!Throttled
  <2>2. calls'.succeeded = calls.succeeded /\ calls'.inWindow = calls.inWindow + 1
    BY <1>0, <2>1
  <2>3. "throttle" \in Wrappers /\ a \in Arg \cup {Undef}
    BY DEF Wrappers
  <2>4. stack' \in Seq(Frame)
    BY <2>1, <2>3, EnterKeeps
  <2>5. CallsType'
    <3>1. once' \in [f : {"set", "released"}, running : BOOLEAN, result : Value \cup {Undef}]
      BY <1>0, <2>1
    <3>2. timers' \in [throttle : BOOLEAN, debounce : Nat]
      BY <1>0, <2>1
    <3>3. calls' \in [made : Nat, succeeded : Nat, inWindow : Nat]
      <4>1. calls.made + 1 \in Nat /\ calls.inWindow + 1 \in Nat
        BY <1>0
      <4>2. calls' = [[calls EXCEPT !.made = calls.made + 1] EXCEPT !.inWindow = calls.inWindow + 1]
        BY <1>0, <2>1
      <4>3. [calls EXCEPT !.made = calls.made + 1] \in [made : Nat, succeeded : Nat, inWindow : Nat]
        BY <1>0, <4>1
      <4>. QED
        BY <4>1, <4>2, <4>3
    <3>. QED
      BY <2>4, <3>1, <3>2, <3>3 DEF CallsType
  <2>6. OnceInv'
    BY <2>1, <2>2, <2>3, EnterOnce
  <2>7. WindowInv'
    BY <1>0, <2>1, <2>2 DEF CallsInv, WindowInv
  <2>. QED
    BY <2>5, <2>6, <2>7 DEF CallsInv
<1>4. ASSUME NEW a \in Arg, C!Debounced(a) PROVE CallsInv'
  <2>1. /\ timers' = [timers EXCEPT !.debounce = calls.made + 1] /\ stack' = stack /\ once' = once
        /\ calls' = [calls EXCEPT !.made = @ + 1]
    BY <1>4 DEF C!Debounced
  <2>2. CallsType' /\ calls'.succeeded = calls.succeeded /\ calls'.inWindow = calls.inWindow
        /\ timers'.throttle = timers.throttle
    BY <1>0, <2>1 DEF CallsType
  <2>. QED
    BY <2>1, <2>2 DEF CallsInv, OnceInv, WindowInv
<1>5. CASE C!ClearTimer
  <2>1. /\ timers' = [timers EXCEPT !.throttle = FALSE] /\ stack' = stack /\ once' = once
        /\ calls' = [calls EXCEPT !.inWindow = 0]
    BY <1>5 DEF C!ClearTimer
  <2>2. CallsType' /\ calls'.succeeded = calls.succeeded /\ calls'.inWindow = 0
        /\ timers'.throttle = FALSE
    BY <1>0, <2>1 DEF CallsType
  <2>. QED
    BY <2>1, <2>2 DEF CallsInv, OnceInv, WindowInv
<1>6. ASSUME NEW t \in armed, t.arg \in Arg, C!Fire(t) PROVE CallsInv'
  <2>1. /\ C!Enter("debounce", t.arg) /\ once' = once /\ calls' = calls
        /\ timers' = [timers EXCEPT !.debounce = 0]
    BY <1>6 DEF C!Fire
  <2>2. "debounce" \in Wrappers /\ t.arg \in Arg \cup {Undef}
    BY <1>6 DEF Wrappers
  <2>3. stack' \in Seq(Frame)
    BY <2>1, <2>2, EnterKeeps
  <2>4. CallsType' /\ timers'.throttle = timers.throttle
    BY <1>0, <2>1, <2>3 DEF CallsType
  <2>5. OnceInv'
    BY <2>1, <2>2, EnterOnce
  <2>. QED
    BY <2>1, <2>4, <2>5 DEF CallsInv, WindowInv
<1>7. ASSUME NEW v \in Value \cup {Undef}, C!Return(v) PROVE CallsInv'
  <2>. DEFINE isOnce == C!Last(stack).wrapper = "once"
  <2>1. /\ stack # << >> /\ stack' = C!Front(stack) /\ timers' = timers
        /\ once' = IF isOnce THEN [f |-> "released", running |-> FALSE, result |-> v] ELSE once
        /\ calls' = IF isOnce THEN [calls EXCEPT !.succeeded = @ + 1] ELSE calls
    BY <1>7 DEF C!Return
  <2>2. isOnce => calls.succeeded = 0
    <3>. SUFFICES ASSUME isOnce PROVE calls.succeeded = 0
      OBVIOUS
    <3>1. Len(stack) \in 1..Len(stack) /\ OnceAt(stack, Len(stack))
      BY <2>1, LeaveKeeps DEF OnceAt
    <3>2. once.running /\ once.f = "set"
      BY <3>1 DEF CallsInv, OnceInv
    <3>. QED
      BY <1>0, <3>2 DEF CallsInv, OnceInv
  <2>3. /\ once' \in [f : {"set", "released"}, running : BOOLEAN, result : Value \cup {Undef}]
        /\ isOnce => once'.running = FALSE /\ once'.f = "released"
        /\ ~isOnce => once' = once
    BY <1>0, <2>1
  <2>4. /\ calls' \in [made : Nat, succeeded : Nat, inWindow : Nat]
        /\ calls'.inWindow = calls.inWindow
        /\ isOnce => calls'.succeeded = 1
        /\ ~isOnce => calls'.succeeded = calls.succeeded
    BY <1>0, <2>1, <2>2
  <2>5. calls'.succeeded <= 1 /\ (calls'.succeeded = 1 <=> once'.f = "released")
    BY <2>3, <2>4 DEF CallsInv, OnceInv
  <2>6. OnceInv'
    BY <2>1, <2>3, <2>5, LeaveOnce
  <2>7. CallsType'
    BY <1>0, <2>1, <2>3, <2>4, LeaveKeeps DEF CallsType
  <2>. QED
    BY <2>1, <2>4, <2>6, <2>7 DEF CallsInv, WindowInv
<1>8. CASE C!Throw
  <2>. DEFINE isOnce == C!Last(stack).wrapper = "once"
  <2>1. /\ stack # << >> /\ stack' = C!Front(stack) /\ timers' = timers /\ calls' = calls
        /\ once' = IF isOnce THEN [once EXCEPT !.running = FALSE] ELSE once
    BY <1>8 DEF C!Throw
  <2>2. /\ once' \in [f : {"set", "released"}, running : BOOLEAN, result : Value \cup {Undef}]
        /\ isOnce => once'.running = FALSE
        /\ ~isOnce => once' = once
        /\ once'.f = once.f
    BY <1>0, <2>1
  <2>3. calls'.succeeded <= 1 /\ (calls'.succeeded = 1 <=> once'.f = "released")
    BY <2>1, <2>2 DEF CallsInv, OnceInv
  <2>4. OnceInv'
    BY <2>1, <2>2, <2>3, LeaveOnce
  <2>5. CallsType'
    BY <1>0, <2>1, <2>2, LeaveKeeps DEF CallsType
  <2>. QED
    BY <2>1, <2>4, <2>5 DEF CallsInv, WindowInv
<1>9. CASE UNCHANGED C!cVars
  BY <1>9 DEF C!cVars, CallsInv, CallsType, OnceInv, WindowInv
<1>10. \A t \in armed : t.arg \in Arg
  BY DEF DelayInv
<1>. QED
  BY <1>1, <1>2, <1>3, <1>4, <1>5, <1>6, <1>7, <1>8, <1>9, <1>10 DEF C!Next

\* debounced takes back the timer it armed before; a timer that fires was the
\* only one.
LEMMA DelayStep == CallsInv /\ DelayInv /\ [C!Next]_C!cVars => DelayInv'
<1>. SUFFICES ASSUME CallsInv, DelayInv, [C!Next]_C!cVars PROVE DelayInv'
  OBVIOUS
<1>0. /\ timers \in [throttle : BOOLEAN, debounce : Nat]
      /\ calls \in [made : Nat, succeeded : Nat, inWindow : Nat]
  BY DEF CallsInv, CallsType
<1>1. ASSUME NEW a \in Arg, C!Debounced(a) PROVE DelayInv'
  <2>1. C!Cleared = {}
    BY DEF C!Cleared, DelayInv
  <2>2. armed' = {[id |-> calls.made + 1, arg |-> a]} /\ due' = {a}
    BY <1>1, <2>1 DEF C!Debounced
  <2>3. timers'.debounce = calls.made + 1
    BY <1>0, <1>1 DEF C!Debounced
  <2>. QED
    BY <2>2, <2>3 DEF DelayInv
<1>2. ASSUME NEW t \in armed, C!Fire(t) PROVE DelayInv'
  <2>1. armed' = {} /\ due' = {}
    BY <1>2 DEF C!Fire, DelayInv
  <2>. QED
    BY <2>1 DEF DelayInv
<1>3. ASSUME armed' = armed, due' = due, timers'.debounce = timers.debounce PROVE DelayInv'
  BY <1>3 DEF DelayInv
<1>4. ASSUME NEW a \in Arg, C!Throttled(a) PROVE DelayInv'
  <2>1. timers'.debounce = timers.debounce
    BY <1>0, <1>4 DEF C!Throttled
  <2>. QED
    BY <1>3, <1>4, <2>1 DEF C!Throttled
<1>5. CASE C!ClearTimer
  <2>1. timers'.debounce = timers.debounce
    BY <1>0, <1>5 DEF C!ClearTimer
  <2>. QED
    BY <1>3, <1>5, <2>1 DEF C!ClearTimer
<1>6. ASSUME NEW a \in Arg, C!MemoCall(a) PROVE DelayInv'
  BY <1>3, <1>6 DEF C!MemoCall
<1>7. ASSUME NEW v, C!Return(v) PROVE DelayInv'
  BY <1>3, <1>7 DEF C!Return
<1>8. CASE C!OnceCall \/ C!Throw \/ UNCHANGED C!cVars
  BY <1>3, <1>8 DEF C!OnceCall, C!Throw, C!cVars
<1>. QED
  BY <1>1, <1>2, <1>4, <1>5, <1>6, <1>7, <1>8 DEF C!Next

\* However the wrapped functions call the wrappers again, throw and are retried,
\* to any depth: once (Memoization.ts) succeeds at most once and never runs inside
\* itself, throttle (TimedFunction.ts) calls fn at most once before its timer runs
\* out, and debounce has exactly one timer armed while the latest argument has not
\* been passed to fn, with that argument, and none otherwise.
THEOREM CallsAreLimited == C!Spec => []C!Limited
<1>1. C!Init => CallsInv /\ DelayInv
  BY CallsBegin DEF C!Init, DelayInv
<1>2. CallsInv /\ DelayInv /\ [C!Next]_C!cVars => (CallsInv /\ DelayInv)'
  BY CallsStep, DelayStep
<1>3. CallsInv /\ DelayInv => C!Limited
  <2>. SUFFICES ASSUME CallsInv, DelayInv PROVE C!Limited
    OBVIOUS
  <2>. DEFINE running == {i \in DOMAIN stack : stack[i].wrapper = "once"}
  <2>1. DOMAIN stack = 1..Len(stack)
    BY DEF CallsInv, CallsType
  <2>2. \A i, j \in running : i = j
    BY <2>1 DEF CallsInv, OnceInv, OnceAt
  <2>3. once.running <=> running # {}
    BY <2>1 DEF CallsInv, OnceInv, OnceAt
  <2>. HIDE DEF running
  <2>4. Cardinality(running) <= 1
    <3>1. CASE running = {}
      BY <3>1, FS_EmptySet
    <3>2. CASE running # {}
      <4>1. PICK i \in running : TRUE
        BY <3>2
      <4>2. running = {i}
        BY <2>2, <4>1
      <4>. QED
        BY <4>2, FS_Singleton
    <3>. QED
      BY <3>1, <3>2
  <2>5. C!Cardinality(running) = Cardinality(running)
    BY DEF C!Cardinality, Cardinality
  <2>6. C!Cardinality(running) <= 1
    BY <2>4, <2>5
  <2>7. {t.arg : t \in armed} = due
    <3>1. \A t \in armed : t.arg \in due
      BY DEF DelayInv
    <3>2. \A a \in due : [id |-> timers.debounce, arg |-> a] \in armed
      BY DEF DelayInv
    <3>3. \A a \in due : \E t \in armed : t.arg = a
      BY <3>2
    <3>. QED
      BY <3>1, <3>3
  <2>8. C!Cardinality(armed) <= 1
    <3>1. C!Cardinality(armed) = Cardinality(armed)
      BY DEF C!Cardinality, Cardinality
    <3>2. CASE due = {}
      <4>1. armed = {}
        BY <3>2 DEF DelayInv
      <4>. QED
        BY <3>1, <4>1, FS_EmptySet
    <3>3. CASE due # {}
      <4>1. PICK a \in due : armed = {[id |-> timers.debounce, arg |-> a]}
        BY <3>3 DEF DelayInv
      <4>2. \A x : Cardinality({x}) = 1
        BY FS_Singleton
      <4>3. Cardinality(armed) = 1
        BY <4>1, <4>2, Zenon
      <4>4. C!Cardinality(armed) = 1
        BY <3>1, <4>3, Zenon
      <4>. QED
        BY <4>4
    <3>. QED
      BY <3>2, <3>3
  <2>. QED
    BY <2>3, <2>6, <2>7, <2>8 DEF CallsInv, OnceInv, WindowInv, C!Limited, running
<1>. QED
  BY <1>1, <1>2, <1>3, PTL DEF C!Spec

-----------------------------------------------------------------------------
(* PromisePool: the loop of launch and the settling promises. *)

Idx == 0..(N - 1)
Outcomes == {"none", "aborted", "rejected", "fulfilled"}
PoolRec == [limit : Nat, next : 0..N, active : Nat, settled : Nat, results : [Idx -> Outcomes],
            resolved : BOOLEAN, started : SUBSET Idx, flying : SUBSET Idx]
Filled(res) == {i \in Idx : res[i] # "none"}

\* The items before next are settled or in flight; at is where the signal was aborted.
Places(nx, res, st, fl, at) ==
  /\ nx \in 0..N /\ res \in [Idx -> Outcomes] /\ st \in SUBSET Idx /\ fl \in SUBSET st
  /\ \A i \in Idx : i < nx <=> res[i] # "none" \/ i \in fl
  /\ \A i \in fl : res[i] = "none" /\ ~behaviour[i].throws
  /\ \A i \in st : i < nx /\ i < at
  /\ \A i \in Idx : res[i] # "none" => (res[i] = "aborted" <=> i \notin st)
  /\ \A i \in st : res[i] # "none" /\ behaviour[i].throws => res[i] = "rejected"

SignalType(s) == s \in [aborted : BOOLEAN, at : 0..N] /\ (~s.aborted => s.at = N)

Counts(p) ==
  /\ p.active = Cardinality(p.flying) /\ p.active <= p.limit
  /\ p.settled = Cardinality(Filled(p.results))

LoopInv(p, s) ==
  /\ p \in PoolRec /\ SignalType(s) /\ Counts(p)
  /\ Places(p.next, p.results, p.started, p.flying, s.at)
  /\ p.resolved => p.settled = N

PoolInv == LoopInv(pool, signal) /\ (N > 0 /\ pool.settled = N => pool.resolved)

\* An item is taken: fn throws at once, or its promise is in flight.
LEMMA PlacesThrown ==
  ASSUME LimitsAssumption, NEW nx, NEW res, NEW st, NEW fl, NEW at, NEW at1 \in 0..N,
         Places(nx, res, st, fl, at), nx < N, at = N, nx < at1
  PROVE  /\ Places(nx + 1, [res EXCEPT ![nx] = "rejected"], st \cup {nx}, fl, at1)
         /\ Filled([res EXCEPT ![nx] = "rejected"]) = Filled(res) \cup {nx} /\ nx \notin Filled(res)
<1>. DEFINE r1 == [res EXCEPT ![nx] = "rejected"]
<1>1. nx \in Idx /\ nx \in Nat /\ N \in Nat /\ nx + 1 \in 0..N /\ \A i \in Idx : i \in Nat
  BY DEF Places, LimitsAssumption, Idx
<1>2. r1 \in [Idx -> Outcomes] /\ \A i \in Idx : r1[i] = IF i = nx THEN "rejected" ELSE res[i]
  BY <1>1 DEF Places, Outcomes
<1>3. res[nx] = "none" /\ nx \notin fl /\ nx \notin st
  BY <1>1 DEF Places
<1>. HIDE DEF r1
<1>4. \A i \in Idx : i < nx + 1 <=> i < nx \/ i = nx
  BY <1>1
<1>5. \A i \in Idx : i < nx + 1 <=> r1[i] # "none" \/ i \in fl
  BY <1>2, <1>4 DEF Places
<1>6. \A i \in fl : r1[i] = "none" /\ ~behaviour[i].throws
  BY <1>2, <1>3 DEF Places
<1>7. \A i \in st \cup {nx} : i < nx + 1 /\ i < at1
  BY <1>1 DEF Places
<1>8. \A i \in Idx : r1[i] # "none" => (r1[i] = "aborted" <=> i \notin st \cup {nx})
  BY <1>2 DEF Places
<1>9. \A i \in st \cup {nx} : r1[i] # "none" /\ behaviour[i].throws => r1[i] = "rejected"
  BY <1>1, <1>2 DEF Places
<1>10. st \cup {nx} \in SUBSET Idx /\ fl \in SUBSET (st \cup {nx})
  BY <1>1 DEF Places
<1>11. Places(nx + 1, r1, st \cup {nx}, fl, at1)
  BY <1>1, <1>2, <1>5, <1>6, <1>7, <1>8, <1>9, <1>10 DEF Places
<1>12. Filled(r1) = Filled(res) \cup {nx} /\ nx \notin Filled(res)
  BY <1>1, <1>2, <1>3 DEF Filled
<1>. QED
  BY <1>11, <1>12 DEF r1

LEMMA PlacesFlown ==
  ASSUME LimitsAssumption, NEW nx, NEW res, NEW st, NEW fl, NEW at, NEW at1 \in 0..N,
         Places(nx, res, st, fl, at), nx < N, at = N, nx < at1, ~behaviour[nx].throws
  PROVE  Places(nx + 1, res, st \cup {nx}, fl \cup {nx}, at1) /\ nx \notin fl
<1>1. nx \in Idx /\ nx \in Nat /\ N \in Nat /\ nx + 1 \in 0..N /\ \A i \in Idx : i \in Nat
  BY DEF Places, LimitsAssumption, Idx
<1>2. res[nx] = "none" /\ nx \notin fl /\ nx \notin st
  BY <1>1 DEF Places
<1>3. \A i \in Idx : i < nx + 1 <=> i < nx \/ i = nx
  BY <1>1
<1>4. \A i \in Idx : i < nx + 1 <=> res[i] # "none" \/ i \in fl \cup {nx}
  BY <1>3 DEF Places
<1>5. \A i \in fl \cup {nx} : res[i] = "none" /\ ~behaviour[i].throws
  BY <1>2 DEF Places
<1>6. \A i \in st \cup {nx} : i < nx + 1 /\ i < at1
  BY <1>1 DEF Places
<1>7. \A i \in Idx : res[i] # "none" => (res[i] = "aborted" <=> i \notin st \cup {nx})
  BY <1>2 DEF Places
<1>8. \A i \in st \cup {nx} : res[i] # "none" /\ behaviour[i].throws => res[i] = "rejected"
  BY <1>2 DEF Places
<1>9. st \cup {nx} \in SUBSET Idx /\ fl \cup {nx} \in SUBSET (st \cup {nx})
  BY <1>1 DEF Places
<1>10. res \in [Idx -> Outcomes]
  BY DEF Places
<1>11. Places(nx + 1, res, st \cup {nx}, fl \cup {nx}, at1)
  BY <1>1, <1>4, <1>5, <1>6, <1>7, <1>8, <1>9, <1>10 DEF Places
<1>. QED
  BY <1>2, <1>11

\* The signal is aborted: the rest of the items get their results.
LEMMA PlacesAborted ==
  ASSUME LimitsAssumption, NEW nx, NEW res, NEW st, NEW fl, NEW at,
         Places(nx, res, st, fl, at),
         NEW r1, r1 = [j \in Idx |-> IF j >= nx THEN "aborted" ELSE res[j]]
  PROVE  /\ Places(N, r1, st, fl, at)
         /\ Filled(r1) = Filled(res) \cup (nx..(N - 1)) /\ Filled(res) \cap (nx..(N - 1)) = {}
<1>1. nx \in Nat /\ N \in Nat /\ nx <= N /\ \A i \in Idx : i \in Nat /\ i < N
  BY DEF Places, LimitsAssumption, Idx
<1>2. r1 \in [Idx -> Outcomes] /\ \A i \in Idx : r1[i] = IF i >= nx THEN "aborted" ELSE res[i]
  BY DEF Places, Outcomes
<1>3. \A i \in Idx : i >= nx <=> ~(i < nx)
  BY <1>1
<1>4. \A i \in Idx : i >= nx => res[i] = "none" /\ i \notin fl /\ i \notin st
  BY <1>3 DEF Places
<1>5. \A i \in Idx : i < N <=> r1[i] # "none" \/ i \in fl
  BY <1>1, <1>2, <1>3 DEF Places
<1>6. \A i \in fl : r1[i] = "none" /\ ~behaviour[i].throws
  BY <1>2, <1>4 DEF Places
<1>7. \A i \in st : i < N /\ i < at
  BY <1>1 DEF Places
<1>8. \A i \in Idx : r1[i] # "none" => (r1[i] = "aborted" <=> i \notin st)
  BY <1>2, <1>4 DEF Places
<1>9. \A i \in st : r1[i] # "none" /\ behaviour[i].throws => r1[i] = "rejected"
  BY <1>2, <1>4 DEF Places
<1>10. st \in SUBSET Idx /\ fl \in SUBSET st /\ N \in 0..N
  BY <1>1 DEF Places
<1>11. Places(N, r1, st, fl, at)
  BY <1>2, <1>5, <1>6, <1>7, <1>8, <1>9, <1>10 DEF Places
<1>12. \A i : i \in nx..(N - 1) <=> i \in Idx /\ i >= nx
  BY <1>1 DEF Idx
<1>13. Filled(r1) = Filled(res) \cup (nx..(N - 1))
  BY <1>2, <1>12 DEF Filled
<1>14. Filled(res) \cap (nx..(N - 1)) = {}
  BY <1>4, <1>12 DEF Filled
<1>. QED
  BY <1>11, <1>13, <1>14

\* finish: the promise of an item in flight settles.
Settled(r1, res, i) ==
  r1 \in [Idx -> Outcomes] /\ r1[i] \in {"fulfilled", "rejected"} /\ \A j \in Idx : j # i => r1[j] = res[j]

LEMMA PlacesSettled ==
  ASSUME LimitsAssumption, NEW nx, NEW res, NEW st, NEW fl, NEW at, Places(nx, res, st, fl, at),
         NEW i \in fl, NEW r1, Settled(r1, res, i)
  PROVE  /\ Places(nx, r1, st, fl \ {i}, at)
         /\ Filled(r1) = Filled(res) \cup {i} /\ i \notin Filled(res)
<1>1. i \in Idx /\ i \in st /\ res[i] = "none" /\ ~behaviour[i].throws
  BY DEF Places
<1>2. /\ r1 \in [Idx -> Outcomes] /\ \A j \in Idx : j # i => r1[j] = res[j]
      /\ r1[i] # "none" /\ r1[i] # "aborted"
  BY DEF Settled
<1>3. \A j \in Idx : j < nx <=> r1[j] # "none" \/ j \in fl \ {i}
  BY <1>1, <1>2 DEF Places
<1>4. \A j \in fl \ {i} : r1[j] = "none" /\ ~behaviour[j].throws
  BY <1>2 DEF Places
<1>5. \A j \in Idx : r1[j] # "none" => (r1[j] = "aborted" <=> j \notin st)
  BY <1>1, <1>2 DEF Places
<1>6. \A j \in st : r1[j] # "none" /\ behaviour[j].throws => r1[j] = "rejected"
  BY <1>1, <1>2 DEF Places
<1>7. Places(nx, r1, st, fl \ {i}, at)
  BY <1>2, <1>3, <1>4, <1>5, <1>6 DEF Places
<1>8. Filled(r1) = Filled(res) \cup {i} /\ i \notin Filled(res)
  BY <1>1, <1>2 DEF Filled
<1>. QED
  BY <1>7, <1>8

LEMMA IdxCount ==
  ASSUME LimitsAssumption
  PROVE  \A S \in SUBSET Idx : /\ IsFiniteSet(S) /\ Cardinality(S) \in Nat /\ Cardinality(S) <= N
                               /\ Cardinality(S) = N <=> S = Idx
<1>1. IsFiniteSet(Idx) /\ Cardinality(Idx) = N
  <2>1. N \in Nat /\ 0 \in Int /\ N - 1 \in Int
    BY DEF LimitsAssumption
  <2>2. IsFiniteSet(0..(N - 1)) /\ Cardinality(0..(N - 1)) = IF 0 > N - 1 THEN 0 ELSE N - 1 - 0 + 1
    BY <2>1, FS_Interval
  <2>. QED
    BY <2>1, <2>2 DEF Idx
<1>. QED
  BY <1>1, FS_Subset, FS_CardinalityType

LEMMA AbortRestKeeps ==
  ASSUME LimitsAssumption, NEW p, NEW s, LoopInv(p, s)
  PROVE  LoopInv(PP!AbortRest(p), s)
<1>. DEFINE r1 == [j \in Idx |-> IF j >= p.next THEN "aborted" ELSE p.results[j]]
            q == PP!AbortRest(p)
            k == p.settled + N - p.next
<1>1. p \in PoolRec /\ SignalType(s) /\ Counts(p) /\ (p.resolved => p.settled = N)
      /\ Places(p.next, p.results, p.started, p.flying, s.at)
  BY DEF LoopInv
<1>2. q = [p EXCEPT !.results = r1, !.next = N, !.settled = k]
  BY <1>1 DEF PP!AbortRest, PP!Items, Idx, PoolRec
<1>. HIDE DEF q
<1>3. /\ Places(N, r1, p.started, p.flying, s.at)
      /\ Filled(r1) = Filled(p.results) \cup (p.next..(N - 1))
      /\ Filled(p.results) \cap (p.next..(N - 1)) = {}
  BY <1>1, PlacesAborted
<1>. HIDE DEF r1
<1>4. /\ p.next \in Nat /\ p.next <= N /\ N \in Nat /\ p.settled \in Nat /\ k \in Nat
      /\ N \in 0..N /\ r1 \in [Idx -> Outcomes]
  BY <1>1, <1>3 DEF PoolRec, LimitsAssumption, Places
<1>5. Cardinality(Filled(r1)) = k
  <2>1. Filled(p.results) \in SUBSET Idx
    BY DEF Filled
  <2>2. IsFiniteSet(Filled(p.results)) /\ Cardinality(Filled(p.results)) = p.settled
    BY <1>1, <2>1, IdxCount DEF Counts
  <2>3. IsFiniteSet(p.next..(N - 1)) /\ Cardinality(p.next..(N - 1)) = N - p.next
    <3>1. N - 1 \in Int /\ p.next \in Int
      BY <1>4
    <3>2. /\ IsFiniteSet(p.next..(N - 1))
          /\ Cardinality(p.next..(N - 1)) = IF p.next > N - 1 THEN 0 ELSE N - 1 - p.next + 1
      BY <3>1, FS_Interval
    <3>. QED
      BY <1>4, <3>2
  <2>4. Cardinality(Filled(r1)) = Cardinality(Filled(p.results)) + Cardinality(p.next..(N - 1)) - Cardinality({})
    BY ZenonT(30), <1>3, <2>2, <2>3, FS_Union
  <2>5. Cardinality({}) = 0
    BY FS_EmptySet
  <2>. QED
    BY <1>4, <2>2, <2>3, <2>4, <2>5
<1>. HIDE DEF k
<1>6. /\ q.next = N /\ q.results = r1 /\ q.settled = k /\ q.active = p.active /\ q.limit = p.limit
      /\ q.flying = p.flying /\ q.started = p.started /\ q.resolved = p.resolved
  BY <1>1, <1>2 DEF PoolRec
<1>7. q \in PoolRec
  <2>. DEFINE p1 == [p EXCEPT !.results = r1]
              p2 == [p1 EXCEPT !.next = N]
  <2>1. q = [p2 EXCEPT !.settled = k]
    BY <1>1, <1>2 DEF PoolRec
  <2>2. p1 \in PoolRec
    BY <1>1, <1>4 DEF PoolRec
  <2>. HIDE DEF p1
  <2>3. p2 \in PoolRec
    BY <1>1, <1>4, <2>2 DEF PoolRec
  <2>. HIDE DEF p2
  <2>. QED
    BY <1>4, <2>1, <2>3 DEF PoolRec
<1>8. q.resolved => q.settled = N
  <2>1. Filled(r1) \in SUBSET Idx /\ Cardinality(Filled(r1)) <= N
    BY IdxCount DEF Filled
  <2>2. p.settled <= k
    BY <1>4 DEF k
  <2>. QED
    BY <1>1, <1>4, <1>5, <1>6, <2>1, <2>2
<1>9. Counts(q)
  BY <1>1, <1>5, <1>6 DEF Counts
<1>. QED
  BY <1>1, <1>3, <1>6, <1>7, <1>8, <1>9 DEF LoopInv, q

\* While a promise is resolved no item is left to take.
LEMMA TakesUnresolved ==
  ASSUME LimitsAssumption, NEW p, NEW s, LoopInv(p, s), p.next < N
  PROVE  ~p.resolved
<1>. SUFFICES ASSUME p.resolved PROVE FALSE
  OBVIOUS
<1>1. p.settled = N /\ Counts(p) /\ p.next \in Nat /\ N \in Nat /\ p \in PoolRec
      /\ Places(p.next, p.results, p.started, p.flying, s.at)
  BY DEF LoopInv, LimitsAssumption, PoolRec
<1>2. Filled(p.results) = Idx
  <2>1. Filled(p.results) \in SUBSET Idx
    BY DEF Filled
  <2>2. Cardinality(Filled(p.results)) = N
    BY <1>1 DEF Counts
  <2>. QED
    BY <2>1, <2>2, IdxCount
<1>3. p.next \in Idx
  BY <1>1 DEF Idx
<1>4. p.results[p.next] # "none"
  BY <1>2, <1>3 DEF Filled
<1>5. p.next < p.next
  BY <1>1, <1>3, <1>4 DEF Places
<1>. QED
  BY <1>1, <1>5

LEMMA ThrowKeeps ==
  ASSUME LimitsAssumption, NEW p, NEW s, NEW s1, LoopInv(p, s), p.next < N, ~s.aborted,
         SignalType(s1), p.next < s1.at,
         NEW q, q = [[p EXCEPT !.next = p.next + 1, !.started = @ \cup {p.next}]
                       EXCEPT !.results[p.next] = "rejected", !.settled = @ + 1]
  PROVE  LoopInv(q, s1)
<1>. DEFINE i == p.next
            r1 == [p.results EXCEPT ![i] = "rejected"]
            st1 == p.started \cup {i}
            k == p.settled + 1
            m == p.next + 1
<1>1. p \in PoolRec /\ SignalType(s) /\ Counts(p) /\ s.at = N
      /\ Places(p.next, p.results, p.started, p.flying, s.at)
  BY DEF LoopInv, SignalType
<1>2. ~p.resolved
  BY TakesUnresolved
<1>3. s1.at \in 0..N
  BY DEF SignalType
<1>4. Places(m, r1, st1, p.flying, s1.at) /\ Filled(r1) = Filled(p.results) \cup {i} /\ i \notin Filled(p.results)
  BY <1>1, <1>3, PlacesThrown
<1>5. m \in 0..N /\ st1 \in SUBSET Idx /\ r1 \in [Idx -> Outcomes] /\ k \in Nat /\ p.settled \in Nat
  <2>1. m \in 0..N /\ st1 \in SUBSET Idx /\ r1 \in [Idx -> Outcomes]
    BY <1>4 DEF Places
  <2>2. p.settled \in Nat
    BY <1>1 DEF PoolRec
  <2>. QED
    BY <2>1, <2>2
<1>6. Cardinality(Filled(r1)) = k
  <2>1. IsFiniteSet(Filled(p.results)) /\ Cardinality(Filled(p.results)) = p.settled
    <3>1. Filled(p.results) \in SUBSET Idx
      BY DEF Filled
    <3>. QED
      BY <1>1, <3>1, IdxCount DEF Counts
  <2>. HIDE DEF i, r1
  <2>. QED
    BY <1>4, <2>1, FS_AddElement
<1>7. q = [[[[p EXCEPT !.next = m] EXCEPT !.started = st1] EXCEPT !.results = r1] EXCEPT !.settled = k]
  BY <1>1 DEF PoolRec
<1>. HIDE DEF i, r1, st1, k, m
<1>8. q \in PoolRec
  <2>. DEFINE p1 == [p EXCEPT !.next = m]
              p2 == [p1 EXCEPT !.started = st1]
              p3 == [p2 EXCEPT !.results = r1]
  <2>1. q = [p3 EXCEPT !.settled = k]
    BY <1>7
  <2>2. p1 \in PoolRec
    BY <1>1, <1>5 DEF PoolRec
  <2>. HIDE DEF p1
  <2>3. p2 \in PoolRec
    BY <1>1, <1>5, <2>2 DEF PoolRec
  <2>. HIDE DEF p2
  <2>4. p3 \in PoolRec
    BY <1>1, <1>5, <2>3 DEF PoolRec
  <2>. HIDE DEF p3
  <2>. QED
    BY <1>5, <2>1, <2>4 DEF PoolRec
<1>9. /\ q.next = m /\ q.results = r1 /\ q.settled = k /\ q.active = p.active /\ q.limit = p.limit
      /\ q.flying = p.flying /\ q.started = st1 /\ q.resolved = p.resolved
  BY <1>1, <1>7 DEF PoolRec
<1>10. Counts(q)
  BY <1>1, <1>6, <1>9 DEF Counts
<1>. QED
  BY <1>2, <1>4, <1>8, <1>9, <1>10 DEF LoopInv

LEMMA FlyKeeps ==
  ASSUME LimitsAssumption, NEW p, NEW s, NEW s1, LoopInv(p, s), p.next < N, ~s.aborted,
         p.active < p.limit, ~behaviour[p.next].throws, SignalType(s1), p.next < s1.at,
         NEW q, q = [[p EXCEPT !.next = p.next + 1, !.started = @ \cup {p.next}]
                       EXCEPT !.active = @ + 1, !.flying = @ \cup {p.next}]
  PROVE  LoopInv(q, s1)
<1>. DEFINE i == p.next
            fl1 == p.flying \cup {i}
            st1 == p.started \cup {i}
            k == p.active + 1
            m == p.next + 1
<1>1. p \in PoolRec /\ SignalType(s) /\ Counts(p) /\ s.at = N
      /\ Places(p.next, p.results, p.started, p.flying, s.at)
  BY DEF LoopInv, SignalType
<1>2. ~p.resolved
  BY TakesUnresolved
<1>3. s1.at \in 0..N
  BY DEF SignalType
<1>4. Places(m, p.results, st1, fl1, s1.at) /\ i \notin p.flying
  BY <1>1, <1>3, PlacesFlown
<1>5. m \in 0..N /\ st1 \in SUBSET Idx /\ fl1 \in SUBSET Idx /\ k \in Nat /\ k <= p.limit
  <2>1. m \in 0..N /\ st1 \in SUBSET Idx /\ fl1 \in SUBSET Idx
    BY <1>4 DEF Places
  <2>2. p.active \in Nat /\ p.limit \in Nat
    BY <1>1 DEF PoolRec
  <2>. QED
    BY <2>1, <2>2
<1>6. Cardinality(fl1) = k
  <2>1. IsFiniteSet(p.flying) /\ Cardinality(p.flying) = p.active
    <3>1. p.flying \in SUBSET Idx
      BY <1>1 DEF PoolRec
    <3>. QED
      BY <1>1, <3>1, IdxCount DEF Counts
  <2>. HIDE DEF i
  <2>. QED
    BY <1>4, <2>1, FS_AddElement
<1>7. q = [[[[p EXCEPT !.next = m] EXCEPT !.started = st1] EXCEPT !.active = k] EXCEPT !.flying = fl1]
  BY <1>1 DEF PoolRec
<1>. HIDE DEF i, fl1, st1, k, m
<1>8. q \in PoolRec
  <2>. DEFINE p1 == [p EXCEPT !.next = m]
              p2 == [p1 EXCEPT !.started = st1]
              p3 == [p2 EXCEPT !.active = k]
  <2>1. q = [p3 EXCEPT !.flying = fl1]
    BY <1>7
  <2>2. p1 \in PoolRec
    BY <1>1, <1>5 DEF PoolRec
  <2>. HIDE DEF p1
  <2>3. p2 \in PoolRec
    BY <1>1, <1>5, <2>2 DEF PoolRec
  <2>. HIDE DEF p2
  <2>4. p3 \in PoolRec
    BY <1>1, <1>5, <2>3 DEF PoolRec
  <2>. HIDE DEF p3
  <2>. QED
    BY <1>5, <2>1, <2>4 DEF PoolRec
<1>9. /\ q.next = m /\ q.results = p.results /\ q.settled = p.settled /\ q.active = k /\ q.limit = p.limit
      /\ q.flying = fl1 /\ q.started = st1 /\ q.resolved = p.resolved
  BY <1>1, <1>7 DEF PoolRec
<1>10. Counts(q)
  BY <1>1, <1>5, <1>6, <1>9 DEF Counts
<1>. QED
  BY <1>2, <1>4, <1>8, <1>9, <1>10 DEF LoopInv

LEMMA TurnKeeps ==
  ASSUME LimitsAssumption, NEW st, LoopInv(st.pool, st.signal)
  PROVE  LoopInv(PP!Turn(st).pool, PP!Turn(st).signal)
<1>. DEFINE p == st.pool
            s == st.signal
            i == p.next
            taken == [p EXCEPT !.next = i + 1, !.started = @ \cup {i}]
            q1 == [taken EXCEPT !.results[i] = "rejected", !.settled = @ + 1]
            q2 == [taken EXCEPT !.active = @ + 1, !.flying = @ \cup {i}]
            s1 == IF behaviour[i].aborts /\ ~s.aborted THEN [aborted |-> TRUE, at |-> i + 1] ELSE s
            t == PP!Turn(st)
<1>1. t = IF ~(p.active < p.limit /\ i < N) THEN st
          ELSE IF s.aborted THEN [pool |-> PP!AbortRest(p), signal |-> s]
          ELSE [pool |-> IF behaviour[i].throws THEN q1 ELSE q2, signal |-> s1]
  BY DEF PP!Turn, PP!Stops
<1>. HIDE DEF t
<1>2. CASE ~(p.active < p.limit /\ i < N)
  BY <1>1, <1>2 DEF t
<1>3. CASE p.active < p.limit /\ i < N /\ s.aborted
  <2>1. t.pool = PP!AbortRest(p) /\ t.signal = s
    BY <1>1, <1>3
  <2>. QED
    BY <2>1, AbortRestKeeps DEF t
<1>4. CASE p.active < p.limit /\ i < N /\ ~s.aborted
  <2>. HIDE DEF q1, q2, s1
  <2>1. t.pool = (IF behaviour[i].throws THEN q1 ELSE q2) /\ t.signal = s1
    BY <1>1, <1>4
  <2>2. SignalType(s1) /\ i < s1.at
    <3>1. SignalType(s) /\ i \in Nat /\ N \in Nat
      BY DEF LoopInv, PoolRec, LimitsAssumption
    <3>. QED
      BY <1>4, <3>1 DEF SignalType, s1
  <2>3. CASE behaviour[i].throws
    <3>1. LoopInv(q1, s1)
      BY <1>4, <2>2, ThrowKeeps DEF q1
    <3>. QED
      BY <2>1, <2>3, <3>1 DEF t
  <2>4. CASE ~behaviour[i].throws
    <3>1. LoopInv(q2, s1)
      BY <1>4, <2>2, <2>4, FlyKeeps DEF q2
    <3>. QED
      BY <2>1, <2>4, <3>1 DEF t
  <2>. QED
    BY <2>3, <2>4
<1>. QED
  BY <1>2, <1>3, <1>4

LEMMA LeastExists ==
  ASSUME NEW S \in SUBSET Nat, S # {}
  PROVE  \E m \in S : \A n \in S : m <= n
<1>1. PICK m \in S : \A n \in S : <<n, m>> \notin OpToRel(<, Nat)
  BY WFMin, NatLessThanWellFounded
<1>2. \A n \in S : ~(n < m)
  BY <1>1 DEF OpToRel
<1>. QED
  BY <1>2

LEMMA TurnsSteps ==
  ASSUME LimitsAssumption, NEW p, NEW s
  PROVE  /\ PP!Turns(p, s)[0] = [pool |-> p, signal |-> s]
         /\ \A i \in 1..N : PP!Turns(p, s)[i] = PP!Turn(PP!Turns(p, s)[i - 1])
<1>. DEFINE z == [pool |-> p, signal |-> s]
            Body(g, i) == IF i = 0 THEN z ELSE PP!Turn(g[i - 1])
            P(g, n) == g = [i \in 0..n |-> Body(g, i)]
            Bad == {n \in Nat : ~\E g : P(g, n)}
            F == PP!Turns(p, s)
<1>0. N \in Nat
  BY DEF LimitsAssumption
<1>. HIDE DEF z
<1>1. Bad = {}
  <2>. SUFFICES ASSUME Bad # {}  PROVE FALSE
    OBVIOUS
  <2>1. PICK m \in Bad : \A k \in Bad : m <= k
    BY LeastExists
  <2>2. CASE m = 0
    <3>. DEFINE h == [i \in 0..0 |-> z]
    <3>1. P(h, 0)
      OBVIOUS
    <3>. QED
      BY <2>1, <2>2, <3>1
  <2>3. CASE m # 0
    <3>0. m \in Nat
      OBVIOUS
    <3>1. m - 1 \in Nat /\ m - 1 \notin Bad
      <4>. HIDE DEF Bad
      <4>. QED
        BY <2>1, <2>3, <3>0
    <3>2. PICK g : P(g, m - 1)
      BY <3>1
    <3>. DEFINE h == [i \in 0..m |-> IF i < m THEN g[i] ELSE Body(g, m)]
    <3>3. \A i \in 0..(m - 1) : g[i] = Body(g, i)
      <4>. HIDE DEF Body
      <4>. QED
        BY <3>2
    <3>4. ASSUME NEW i \in 0..m  PROVE h[i] = Body(h, i)
      <4>1. CASE i = 0
        <5>1. h[i] = g[0] /\ g[0] = z
          BY <2>3, <3>1, <3>3, <4>1
        <5>. QED
          BY <4>1, <5>1
      <4>2. CASE i # 0
        <5>1. i - 1 \in 0..m /\ i - 1 < m
          BY <4>2
        <5>2. h[i - 1] = g[i - 1]
          BY <5>1
        <5>3. h[i] = Body(g, i)
          <6>1. CASE i < m
            BY <3>1, <3>3, <6>1
          <6>2. CASE ~(i < m)
            BY <6>2
          <6>. QED
            BY <6>1, <6>2
        <5>. HIDE DEF h
        <5>. QED
          BY <4>2, <5>2, <5>3
      <4>. QED
        BY <4>1, <4>2
    <3>5. P(h, m)
      <4>1. h = [i \in 0..m |-> h[i]]
        OBVIOUS
      <4>. HIDE DEF h, Body
      <4>. QED
        BY <3>4, <4>1
    <3>. QED
      BY <2>1, <3>5
  <2>. QED
    BY <2>2, <2>3
<1>2. \E g : P(g, N)
  BY <1>0, <1>1
<1>3. F = CHOOSE g : P(g, N)
  BY DEF PP!Turns, z
<1>4. P(F, N)
  <2>. HIDE DEF P, F
  <2>. QED
    BY <1>2, <1>3
<1>. HIDE DEF F
<1>5. \A i \in 0..N : F[i] = Body(F, i)
  <2>. HIDE DEF Body
  <2>. QED
    BY <1>4
<1>6. F[0] = z
  BY <1>0, <1>5
<1>7. ASSUME NEW i \in 1..N  PROVE F[i] = PP!Turn(F[i - 1])
  <2>1. i \in 0..N /\ i # 0
    BY <1>0
  <2>2. F[i] = Body(F, i)
    BY <1>5, <2>1
  <2>. QED
    BY <2>1, <2>2
<1>. QED
  BY <1>6, <1>7 DEF F, z

LEMMA TurnsKeep ==
  ASSUME LimitsAssumption, NEW p, NEW s, LoopInv(p, s)
  PROVE  LoopInv(PP!Turns(p, s)[N].pool, PP!Turns(p, s)[N].signal)
<1>. DEFINE F == PP!Turns(p, s)
            Good(i) == LoopInv(F[i].pool, F[i].signal)
            Bad == {i \in 0..N : ~Good(i)}
<1>0. N \in Nat
  BY DEF LimitsAssumption
<1>1. F[0] = [pool |-> p, signal |-> s] /\ \A i \in 1..N : F[i] = PP!Turn(F[i - 1])
  BY TurnsSteps
<1>. HIDE DEF F
<1>2. Good(0)
  <2>1. F[0].pool = p /\ F[0].signal = s
    BY <1>1
  <2>. QED
    BY <2>1
<1>3. ASSUME NEW i \in 1..N, Good(i - 1)  PROVE Good(i)
  BY <1>1, <1>3, TurnKeeps
<1>. HIDE DEF Good
<1>4. Bad = {}
  <2>. SUFFICES ASSUME Bad # {}  PROVE FALSE
    OBVIOUS
  <2>1. Bad \in SUBSET Nat
    BY <1>0
  <2>2. PICK m \in Bad : \A k \in Bad : m <= k
    BY <2>1, LeastExists
  <2>3. m \in 0..N /\ ~Good(m)
    OBVIOUS
  <2>4. m \in 1..N /\ m - 1 \in 0..N /\ ~(m <= m - 1)
    BY <1>0, <1>2, <2>3
  <2>5. m - 1 \notin Bad
    <3>. HIDE DEF Bad
    <3>. QED
      BY <2>2, <2>4
  <2>6. Good(m - 1)
    BY <2>4, <2>5
  <2>. QED
    BY <1>3, <2>3, <2>4, <2>6
<1>5. Good(N)
  BY <1>0, <1>4
<1>. QED
  BY <1>5 DEF Good, F

\* launch: the loop, and the promise resolved when the last result is there.
LEMMA LaunchKeeps ==
  ASSUME LimitsAssumption, NEW p, NEW s, LoopInv(p, s), NEW r, r = PP!Launch(p, s)
  PROVE  LoopInv(r.pool, r.signal) /\ (r.pool.settled = N => r.pool.resolved)
<1>. DEFINE last == PP!Turns(p, s)[N]
            q == last.pool
            u == [q EXCEPT !.resolved = @ \/ q.settled = N]
<1>1. LoopInv(q, last.signal)
  BY TurnsKeep
<1>. HIDE DEF last
<1>2. r.pool = u /\ r.signal = last.signal
  BY DEF PP!Launch, last
<1>. HIDE DEF q
<1>3. q \in PoolRec /\ Counts(q) /\ SignalType(last.signal) /\ (q.resolved => q.settled = N)
      /\ Places(q.next, q.results, q.started, q.flying, last.signal.at)
  BY <1>1 DEF LoopInv
<1>4. /\ u \in PoolRec /\ u.next = q.next /\ u.active = q.active /\ u.limit = q.limit
      /\ u.settled = q.settled /\ u.results = q.results /\ u.started = q.started /\ u.flying = q.flying
  BY <1>3 DEF PoolRec
<1>5. u.resolved <=> q.settled = N
  BY <1>3 DEF PoolRec
<1>. HIDE DEF u
<1>6. Counts(u)
  BY <1>3, <1>4 DEF Counts
<1>7. LoopInv(u, last.signal)
  BY <1>3, <1>4, <1>5, <1>6 DEF LoopInv
<1>. QED
  BY <1>2, <1>4, <1>5, <1>7

LEMMA FinishKeeps ==
  ASSUME LimitsAssumption, NEW p, NEW s, LoopInv(p, s), NEW i \in p.flying,
         NEW outcome \in {"fulfilled", "rejected"},
         NEW q, q = [p EXCEPT !.results[i] = outcome, !.settled = @ + 1, !.active = @ - 1,
                              !.flying = @ \ {i}]
  PROVE  LoopInv(q, s)
<1>. DEFINE r1 == [p.results EXCEPT ![i] = outcome]
            k == p.settled + 1
            m == p.active - 1
            fl1 == p.flying \ {i}
<1>1. p \in PoolRec /\ SignalType(s) /\ Counts(p) /\ (p.resolved => p.settled = N)
      /\ Places(p.next, p.results, p.started, p.flying, s.at)
  BY DEF LoopInv
<1>2. /\ Places(p.next, r1, p.started, fl1, s.at)
      /\ Filled(r1) = Filled(p.results) \cup {i} /\ i \notin Filled(p.results)
  <2>1. p.results \in [Idx -> Outcomes] /\ i \in Idx
    BY <1>1 DEF PoolRec
  <2>2. Settled(r1, p.results, i)
    BY <2>1 DEF Settled, Outcomes
  <2>. HIDE DEF r1
  <2>. QED
    BY <1>1, <2>2, PlacesSettled
<1>3. Cardinality(Filled(r1)) = k /\ p.settled # N
  <2>1. Filled(p.results) \in SUBSET Idx /\ i \in Idx
    BY <1>1 DEF Filled, PoolRec
  <2>2. IsFiniteSet(Filled(p.results)) /\ Cardinality(Filled(p.results)) = p.settled
        /\ Cardinality(Filled(p.results)) # N
    BY <1>1, <1>2, <2>1, IdxCount DEF Counts
  <2>. HIDE DEF r1
  <2>. QED
    BY <1>2, <2>2, FS_AddElement
<1>4. Cardinality(fl1) = m /\ m \in Nat /\ m <= p.limit
  <2>1. p.flying \in SUBSET Idx /\ p.active \in Nat /\ p.limit \in Nat
    BY <1>1 DEF PoolRec
  <2>2. IsFiniteSet(p.flying) /\ Cardinality(p.flying) = p.active /\ p.active <= p.limit
    BY <1>1, <2>1, IdxCount DEF Counts
  <2>3. Cardinality(fl1) = m
    BY <2>2, FS_RemoveElement
  <2>4. Cardinality(fl1) \in Nat
    BY <2>1, IdxCount
  <2>. QED
    BY <2>1, <2>2, <2>3, <2>4
<1>5. r1 \in [Idx -> Outcomes] /\ fl1 \in SUBSET Idx /\ k \in Nat /\ m \in Nat
  <2>1. r1 \in [Idx -> Outcomes]
    BY <1>2 DEF Places
  <2>. QED
    BY <1>1, <1>4, <2>1 DEF PoolRec
<1>6. q = [[[[p EXCEPT !.results = r1] EXCEPT !.settled = k] EXCEPT !.active = m] EXCEPT !.flying = fl1]
  BY <1>1 DEF PoolRec
<1>. HIDE DEF r1, k, m, fl1
<1>7. q \in PoolRec
  <2>. DEFINE p1 == [p EXCEPT !.results = r1]
              p2 == [p1 EXCEPT !.settled = k]
              p3 == [p2 EXCEPT !.active = m]
  <2>1. q = [p3 EXCEPT !.flying = fl1]
    BY <1>6
  <2>2. p1 \in PoolRec
    BY <1>1, <1>5 DEF PoolRec
  <2>. HIDE DEF p1
  <2>3. p2 \in PoolRec
    BY <1>5, <2>2 DEF PoolRec
  <2>. HIDE DEF p2
  <2>4. p3 \in PoolRec
    BY <1>5, <2>3 DEF PoolRec
  <2>. HIDE DEF p3
  <2>. QED
    BY <1>5, <2>1, <2>4 DEF PoolRec
<1>8. /\ q.next = p.next /\ q.results = r1 /\ q.settled = k /\ q.active = m /\ q.limit = p.limit
      /\ q.flying = fl1 /\ q.started = p.started /\ q.resolved = p.resolved
  BY <1>1, <1>6 DEF PoolRec
<1>9. Counts(q)
  BY <1>3, <1>4, <1>8 DEF Counts
<1>. QED
  BY <1>1, <1>2, <1>3, <1>7, <1>8, <1>9 DEF LoopInv

LEMMA PoolBegins == LimitsAssumption /\ PP!Init => PoolInv
<1>. SUFFICES ASSUME LimitsAssumption, PP!Init PROVE PoolInv
  OBVIOUS
<1>. PICK limit \in Limits : pool = PP!Fresh(limit)
  BY DEF PP!Init
<1>. DEFINE none == [i \in Idx |-> "none"]
<1>1. N \in Nat /\ 0 \in 0..N /\ limit \in Nat /\ \A i \in Idx : ~(i < 0)
  BY DEF LimitsAssumption, Idx
<1>2. pool = [limit |-> limit, next |-> 0, active |-> 0, settled |-> 0, results |-> none,
              resolved |-> FALSE, started |-> {}, flying |-> {}]
  BY DEF PP!Fresh, PP!Items, Idx
<1>3. none \in [Idx -> Outcomes] /\ \A i \in Idx : none[i] = "none"
  BY DEF Outcomes
<1>. HIDE DEF none
<1>4. pool \in PoolRec
  BY <1>1, <1>2, <1>3 DEF PoolRec
<1>5. Counts(pool)
  <2>1. Filled(none) = {}
    BY <1>3 DEF Filled
  <2>2. Cardinality({}) = 0
    BY FS_EmptySet
  <2>. QED
    BY <1>1, <1>2, <2>1, <2>2 DEF Counts
<1>6. SignalType(signal)
  <2>1. CASE signal = [aborted |-> FALSE, at |-> N]
    BY <1>1, <2>1 DEF SignalType
  <2>2. CASE signal = [aborted |-> TRUE, at |-> 0]
    BY <1>1, <2>2 DEF SignalType
  <2>. QED
    BY <2>1, <2>2 DEF PP!Init
<1>7. Places(0, none, {}, {}, signal.at)
  BY <1>1, <1>3 DEF Places
<1>8. LoopInv(pool, signal)
  BY <1>2, <1>4, <1>5, <1>6, <1>7 DEF LoopInv
<1>9. ~(N > 0 /\ pool.settled = N)
  BY <1>1, <1>2
<1>. QED
  BY <1>8, <1>9 DEF PoolInv

LEMMA PoolStep == LimitsAssumption /\ PoolInv /\ [PP!Next]_PP!pVars => PoolInv'
<1>. SUFFICES ASSUME LimitsAssumption, PoolInv, [PP!Next]_PP!pVars PROVE PoolInv'
  OBVIOUS
<1>0. LoopInv(pool, signal) /\ behaviour' = behaviour
  BY DEF PoolInv, PP!Next, PP!pVars, PP!Call, PP!Settles, PP!Finish, PP!Abort
<1>1. ASSUME NEW p, NEW s, LoopInv(p, s), pool' = PP!Launch(p, s).pool, signal' = PP!Launch(p, s).signal
      PROVE  PoolInv'
  <2>1. LoopInv(pool', signal') /\ (pool'.settled = N => pool'.resolved)
    BY <1>1, LaunchKeeps
  <2>. QED
    BY <1>0, <2>1 DEF PoolInv, LoopInv, Places, Counts, SignalType
<1>2. CASE PP!Call /\ N # 0
  BY <1>0, <1>1, <1>2 DEF PP!Call
<1>3. CASE PP!Call /\ N = 0
  <2>1. pool' = [pool EXCEPT !.resolved = TRUE] /\ signal' = signal
    BY <1>3 DEF PP!Call
  <2>2. pool \in PoolRec /\ SignalType(signal) /\ Counts(pool)
        /\ Places(pool.next, pool.results, pool.started, pool.flying, signal.at)
    BY <1>0 DEF LoopInv
  <2>3. /\ pool'.next = pool.next /\ pool'.active = pool.active /\ pool'.limit = pool.limit
        /\ pool'.settled = pool.settled /\ pool'.results = pool.results
        /\ pool'.started = pool.started /\ pool'.flying = pool.flying /\ pool'.resolved
        /\ pool' \in PoolRec
    BY <2>1, <2>2 DEF PoolRec
  <2>4. pool.settled = N
    <3>1. Filled(pool.results) \in SUBSET Idx
      BY DEF Filled
    <3>2. Cardinality(Filled(pool.results)) \in Nat /\ Cardinality(Filled(pool.results)) <= N
      BY <3>1, IdxCount
    <3>. QED
      BY <1>3, <2>2, <3>2 DEF Counts
  <2>5. Counts(pool')
    BY <2>2, <2>3 DEF Counts
  <2>6. LoopInv(pool', signal')
    BY <2>1, <2>2, <2>3, <2>4, <2>5 DEF LoopInv
  <2>. QED
    BY <1>0, <2>3, <2>6 DEF PoolInv, LoopInv, Places, Counts, SignalType
<1>4. ASSUME NEW i, NEW outcome \in {"fulfilled", "rejected"}, PP!Finish(i, outcome)
      PROVE  PoolInv'
  <2>. DEFINE q == [pool EXCEPT !.results[i] = outcome, !.settled = @ + 1, !.active = @ - 1,
                                !.flying = @ \ {i}]
  <2>1. i \in pool.flying /\ pool' = PP!Launch(q, signal).pool /\ signal' = PP!Launch(q, signal).signal
    BY <1>4 DEF PP!Finish
  <2>2. LoopInv(q, signal)
    BY <1>0, <2>1, FinishKeeps
  <2>. HIDE DEF q
  <2>. QED
    BY <1>1, <2>1, <2>2
<1>5. CASE PP!Abort
  <2>1. signal' = [aborted |-> TRUE, at |-> pool.next] /\ pool' = pool
    BY <1>5 DEF PP!Abort
  <2>2. pool.next \in 0..N
    BY <1>0 DEF LoopInv, PoolRec
  <2>3. SignalType(signal')
    BY <2>1, <2>2 DEF SignalType
  <2>4. Places(pool.next, pool.results, pool.started, pool.flying, pool.next)
    BY <1>0 DEF LoopInv, Places
  <2>5. signal'.at = pool.next
    BY <2>1
  <2>. QED
    BY <1>0, <2>1, <2>3, <2>4, <2>5 DEF PoolInv, LoopInv, Places, Counts, SignalType
<1>6. CASE UNCHANGED PP!pVars
  BY <1>6 DEF PP!pVars, PoolInv, LoopInv, Places, Counts, SignalType
<1>. QED
  BY <1>2, <1>3, <1>4, <1>5, <1>6 DEF PP!Next, PP!Settles

LEMMA CountersAgree == ASSUME LimitsAssumption, PoolInv PROVE PP!Sound
<1>. DEFINE filled == {i \in Idx : pool.results[i] # "none"}
<1>1. /\ pool \in PoolRec /\ Counts(pool) /\ (pool.resolved => pool.settled = N)
      /\ Places(pool.next, pool.results, pool.started, pool.flying, signal.at)
      /\ (N > 0 /\ pool.settled = N => pool.resolved)
  BY DEF PoolInv, LoopInv
<1>2. filled = Filled(pool.results) /\ filled \in SUBSET Idx
  BY DEF Filled
<1>3. Cardinality(filled) = N <=> filled = Idx
  <2>. HIDE DEF filled
  <2>. QED
    BY <1>2, IdxCount
<1>4. \A S : PP!Cardinality(S) = Cardinality(S)
  BY DEF PP!Cardinality, Cardinality
<1>. HIDE DEF filled
<1>5. pool.active = PP!Cardinality(pool.flying) /\ pool.active <= pool.limit
  BY <1>1, <1>4 DEF Counts
<1>6. pool.settled = PP!Cardinality(filled)
  BY <1>1, <1>2, <1>4 DEF Counts
<1>7. N > 0 => (pool.resolved <=> filled = Idx)
  BY <1>1, <1>3, <1>4, <1>6
<1>8. filled \cap pool.flying = {}
  BY <1>1 DEF filled, Places
<1>9. pool.started \subseteq filled \cup pool.flying
  BY <1>1 DEF filled, Places
<1>10. \A i \in filled : pool.results[i] = "aborted" <=> i \notin pool.started
  BY <1>1 DEF filled, Places
<1>11. \A i \in pool.started \cap filled : behaviour[i].throws => pool.results[i] = "rejected"
  BY <1>1 DEF filled, Places
<1>12. \A i \in pool.started : i < signal.at
  BY <1>1 DEF Places
<1>. QED
  BY <1>5, <1>6, <1>7, <1>8, <1>9, <1>10, <1>11, <1>12 DEF PP!Sound, PP!Items, Idx, filled

\* For any number of items, any limit and whatever fn does (throw at once, abort
\* the signal from inside, settle in any order): at most `limit' calls of fn are in
\* flight, settled counts the results, each item's slot holds what became of it, none
\* starts once the signal is aborted, and the promise is resolved exactly when every
\* result is there (PromiseUtils.ts: pool).
THEOREM PromisePoolSound ==
  ASSUME LimitsAssumption
  PROVE  PP!Spec => []PP!Sound
<1>1. PP!Init => PoolInv
  BY PoolBegins
<1>2. PoolInv /\ [PP!Next]_PP!pVars => PoolInv'
  BY PoolStep
<1>3. PoolInv => PP!Sound
  BY CountersAgree
<1>. QED
  BY <1>1, <1>2, <1>3, PTL DEF PP!Spec

-----------------------------------------------------------------------------
(* The shrink loop of the test runners, and paths down a shrink graph. *)

SH == INSTANCE Shrinking

ShrinkRec(T, E) == [current : T, error : E, shrinks : Nat, evaluations : Nat,
                    childIdx : Nat, pathIndices : Seq(Nat)]

\* One child of the shrink loop: it is taken if it fails, and counted either way.
LEMMA TryChildIs ==
  ASSUME NEW T, NEW E, NEW s \in ShrinkRec(T, E), NEW child \in T, NEW outcome \in E
  PROVE  /\ SH!TryChild(s, child, outcome) \in ShrinkRec(T, E)
         /\ SH!TryChild(s, child, outcome).evaluations = s.evaluations + 1
         /\ outcome = SH!PASSED =>
              /\ SH!TryChild(s, child, outcome).current = s.current
              /\ SH!TryChild(s, child, outcome).error = s.error
              /\ SH!TryChild(s, child, outcome).shrinks = s.shrinks
              /\ SH!TryChild(s, child, outcome).pathIndices = s.pathIndices
              /\ SH!TryChild(s, child, outcome).childIdx = s.childIdx + 1
         /\ outcome # SH!PASSED =>
              /\ SH!TryChild(s, child, outcome).current = child
              /\ SH!TryChild(s, child, outcome).error = outcome
              /\ SH!TryChild(s, child, outcome).shrinks = s.shrinks + 1
              /\ SH!TryChild(s, child, outcome).pathIndices = Append(s.pathIndices, s.childIdx)
              /\ SH!TryChild(s, child, outcome).childIdx = 0
<1>. DEFINE t == SH!TryChild(s, child, outcome)
            c == [s EXCEPT !.evaluations = @ + 1]
<1>1. c \in ShrinkRec(T, E) /\ c.evaluations = s.evaluations + 1
      /\ c.current = s.current /\ c.error = s.error /\ c.shrinks = s.shrinks
      /\ c.childIdx = s.childIdx /\ c.pathIndices = s.pathIndices
  BY SMTT(20) DEF ShrinkRec
<1>2. t = IF outcome = SH!PASSED THEN [c EXCEPT !.childIdx = @ + 1] ELSE SH!Accept(c, child, outcome)
  BY DEF SH!TryChild
<1>. HIDE DEF t, c
<1>3. CASE outcome = SH!PASSED
  BY SMTT(20), <1>1, <1>2, <1>3 DEF ShrinkRec, t
<1>4. CASE outcome # SH!PASSED
  <2>. DEFINE c1 == [c EXCEPT !.current = child]
              c2 == [c1 EXCEPT !.error = outcome]
              c3 == [c2 EXCEPT !.shrinks = c.shrinks + 1]
              c4 == [c3 EXCEPT !.pathIndices = Append(c.pathIndices, c.childIdx)]
              c5 == [c4 EXCEPT !.childIdx = 0]
              a == SH!Accept(c, child, outcome)
  <2>1. a = c5
    BY <1>1 DEF ShrinkRec, SH!Accept
  <2>2. Append(c.pathIndices, c.childIdx) \in Seq(Nat) /\ c.shrinks + 1 \in Nat
    BY <1>1 DEF ShrinkRec
  <2>4. c1 \in ShrinkRec(T, E) /\ c1.current = child /\ c1.evaluations = c.evaluations
    BY <1>1 DEF ShrinkRec
  <2>. HIDE DEF c1, a
  <2>5. c2 \in ShrinkRec(T, E) /\ c2.current = child /\ c2.error = outcome
        /\ c2.evaluations = c.evaluations
    BY <2>4 DEF ShrinkRec
  <2>. HIDE DEF c2
  <2>6. c3 \in ShrinkRec(T, E) /\ c3.current = child /\ c3.error = outcome
        /\ c3.evaluations = c.evaluations /\ c3.shrinks = c.shrinks + 1
    BY <2>2, <2>5 DEF ShrinkRec
  <2>. HIDE DEF c3
  <2>7. c4 \in ShrinkRec(T, E) /\ c4.current = child /\ c4.error = outcome
        /\ c4.evaluations = c.evaluations /\ c4.shrinks = c.shrinks + 1
        /\ c4.pathIndices = Append(c.pathIndices, c.childIdx)
    BY <2>2, <2>6 DEF ShrinkRec
  <2>. HIDE DEF c4
  <2>8. c5 \in ShrinkRec(T, E) /\ c5.current = child /\ c5.error = outcome
        /\ c5.evaluations = c.evaluations /\ c5.shrinks = c.shrinks + 1
        /\ c5.pathIndices = Append(c.pathIndices, c.childIdx) /\ c5.childIdx = 0
    BY <2>7 DEF ShrinkRec
  <2>. HIDE DEF c5
  <2>3. t = a
    BY <1>2, <1>4 DEF a
  <2>. QED
    BY <1>1, <1>4, <2>1, <2>3, <2>8 DEF t
<1>. QED
  BY <1>3, <1>4 DEF t

\* f starts with z and goes on by the step function of each index.
Recursion(D, n, z, step, f) ==
  f \in [0..n -> D] /\ f[0] = z /\ \A i \in 1..n : f[i] = step[i][f[i - 1]]

\* A recursive function over 0..n exists when each of its values is a member of
\* D: the library's theorem about this has an operator as a parameter.
LEMMA RecursionExists ==
  ASSUME NEW D, NEW n \in Nat, NEW z \in D, NEW step \in [1..n -> [D -> D]]
  PROVE  \E f : Recursion(D, n, z, step, f)
<1>. DEFINE Upto(m, f) == f \in [0..m -> D] /\ f[0] = z /\ \A i \in 1..m : f[i] = step[i][f[i - 1]]
            Bad == {m \in 0..n : ~ \E f : Upto(m, f)}
<1>1. Bad = {}
  <2>. SUFFICES ASSUME Bad # {} PROVE FALSE
    OBVIOUS
  <2>1. PICK m \in Bad : \A k \in Bad : m <= k
    <3>1. Bad \in SUBSET Nat
      OBVIOUS
    <3>. HIDE DEF Bad
    <3>. QED
      BY <3>1, LeastExists
  <2>2. m \in 0..n /\ ~ \E f : Upto(m, f)
    BY <2>1
  <2>3. CASE m = 0
    <3>1. Upto(0, [i \in 0..0 |-> z])
      OBVIOUS
    <3>. HIDE DEF Upto
    <3>. QED
      BY <2>2, <2>3, <3>1
  <2>4. CASE m # 0
    <3>1. m - 1 \in 0..n /\ m - 1 \notin Bad
      <4>. HIDE DEF Bad
      <4>1. m - 1 \in 0..n /\ ~ (m <= m - 1)
        BY <2>2, <2>4
      <4>. QED
        BY <2>1, <4>1
    <3>2. PICK f : Upto(m - 1, f)
      BY <3>1
    <3>. DEFINE g == [i \in 0..m |-> IF i < m THEN f[i] ELSE step[m][f[m - 1]]]
    <3>3. \A i \in 0..(m - 1) : f[i] \in D /\ g[i] = f[i] /\ i \in 0..m
      BY <2>2, <3>2
    <3>4. step[m][f[m - 1]] \in D /\ m \in 0..m /\ g[m] = step[m][f[m - 1]]
      <4>1. m \in 1..n /\ m - 1 \in 0..(m - 1)
        BY <2>2, <2>4
      <4>2. f[m - 1] \in D /\ step[m] \in [D -> D]
        BY <3>3, <4>1
      <4>. QED
        BY <4>1, <4>2
    <3>5. g \in [0..m -> D]
      <4>1. ASSUME NEW i \in 0..m PROVE g[i] \in D
        <5>1. i = m \/ i \in 0..(m - 1)
          BY <2>2
        <5>. HIDE DEF g
        <5>. QED
          BY <3>3, <3>4, <5>1
      <4>. QED
        BY <4>1
    <3>6. g[0] = z
      BY <2>2, <2>4, <3>2, <3>3
    <3>. HIDE DEF g
    <3>7. ASSUME NEW i \in 1..m PROVE g[i] = step[i][g[i - 1]]
      <4>1. i - 1 \in 0..(m - 1) /\ g[i - 1] = f[i - 1]
        BY <2>2, <3>3
      <4>2. CASE i = m
        BY <3>4, <4>1, <4>2
      <4>3. CASE i # m
        <5>1. i \in 0..(m - 1) /\ i \in 1..(m - 1)
          BY <2>2, <4>3
        <5>. QED
          BY <3>2, <3>3, <4>1, <5>1
      <4>. QED
        BY <4>2, <4>3
    <3>8. Upto(m, g)
      BY <3>5, <3>6, <3>7
    <3>. HIDE DEF Upto
    <3>. QED
      BY <2>2, <3>8
  <2>. QED
    BY <2>3, <2>4
<1>2. \E f : Upto(n, f)
  <2>1. n \in 0..n
    OBVIOUS
  <2>. HIDE DEF Upto
  <2>. QED
    BY <1>1, <2>1, Zenon
<1>3. PICK f : Upto(n, f)
  <2>. HIDE DEF Upto
  <2>. QED
    BY <1>2
<1>4. Recursion(D, n, z, step, f)
  BY <1>3 DEF Recursion
<1>. QED
  BY <1>4

-----------------------------------------------------------------------------
(* Property: check, its shrink loop and the replay of a path. *)

\* A walk along a path of child indices.
Follows(w, tree, path) ==
  /\ w \in [0..Len(path) -> Node] /\ w[0] = tree
  /\ \A k \in 1..Len(path) : /\ path[k] < Len(Shrinks[w[k - 1]])
                             /\ w[k] = Shrinks[w[k - 1]][path[k] + 1]

LEMMA PathEnds ==
  ASSUME NEW tree, NEW path, NEW n
  PROVE  n \in PT!ReplayPath(tree, path) <=> \E w : Follows(w, tree, path) /\ n = w[Len(path)]
BY DEF PT!ReplayPath, Follows

\* The path leads to n and nowhere else.
LeadsTo(tree, path, n) == PT!ReplayPath(tree, path) = {n}

\* replayPath of the empty path.
LEMMA EmptyPath == ASSUME NEW n \in Node PROVE LeadsTo(n, << >>, n)
<1>1. Follows([i \in 0..0 |-> n], n, << >>)
  BY DEF Follows
<1>2. \A m : m \in PT!ReplayPath(n, << >>) => m = n
  <2>. TAKE m
  <2>. HAVE m \in PT!ReplayPath(n, << >>)
  <2>1. PICK w : Follows(w, n, << >>) /\ m = w[Len(<< >>)]
    BY PathEnds
  <2>. QED
    BY <2>1 DEF Follows
<1>3. n \in PT!ReplayPath(n, << >>)
  <2>1. n = [i \in 0..0 |-> n][Len(<< >>)]
    OBVIOUS
  <2>. QED
    BY <1>1, <2>1, PathEnds
<1>. QED
  BY <1>2, <1>3 DEF LeadsTo

\* replayPath takes one more step where the shrink loop took a child.
LEMMA LongerPath ==
  ASSUME PropertyAssumption, NEW tree, NEW path \in Seq(Nat), NEW n \in Node, NEW idx \in Nat,
         LeadsTo(tree, path, n), idx < Len(Shrinks[n])
  PROVE  LeadsTo(tree, Append(path, idx), Shrinks[n][idx + 1])
<1>. DEFINE L == Len(path)
            path1 == Append(path, idx)
            child == Shrinks[n][idx + 1]
<1>1. /\ path1 \in Seq(Nat) /\ Len(path1) = L + 1 /\ L \in Nat /\ path1[L + 1] = idx
      /\ \A k \in 1..L : path1[k] = path[k]
  OBVIOUS
<1>2. child \in Node
  <2>1. Shrinks[n] \in Seq(Node) /\ idx + 1 \in 1..Len(Shrinks[n])
    BY DEF PropertyAssumption
  <2>. QED
    BY <2>1
<1>. HIDE DEF path1, child, L
<1>3. ASSUME NEW w, Follows(w, tree, path1)
      PROVE  w[L + 1] = child
  <2>. DEFINE v == [k \in 0..L |-> w[k]]
  <2>1. w \in [0..(L + 1) -> Node] /\ w[0] = tree
        /\ \A k \in 1..(L + 1) : /\ path1[k] < Len(Shrinks[w[k - 1]])
                                 /\ w[k] = Shrinks[w[k - 1]][path1[k] + 1]
    BY <1>1, <1>3 DEF Follows
  <2>2. v \in [0..L -> Node] /\ v[0] = tree /\ \A k \in 0..L : v[k] = w[k]
    BY <1>1, <2>1
  <2>. HIDE DEF v
  <2>3. \A k \in 1..L : path[k] < Len(Shrinks[v[k - 1]]) /\ v[k] = Shrinks[v[k - 1]][path[k] + 1]
    <3>. TAKE k \in 1..L
    <3>1. k \in 1..(L + 1) /\ k \in 0..L /\ k - 1 \in 0..L
      BY <1>1
    <3>2. path1[k] = path[k] /\ v[k - 1] = w[k - 1] /\ v[k] = w[k]
      BY <1>1, <2>2, <3>1
    <3>. QED
      BY <2>1, <3>1, <3>2
  <2>4. Follows(v, tree, path)
    BY <2>2, <2>3 DEF Follows, L
  <2>5. v[L] = n
    BY <2>4, PathEnds DEF L, LeadsTo
  <2>6. w[L] = n /\ L + 1 \in 1..(L + 1) /\ (L + 1) - 1 = L /\ L \in 0..L
    BY <1>1, <2>2, <2>5
  <2>7. w[L + 1] = Shrinks[w[(L + 1) - 1]][path1[L + 1] + 1]
    BY <2>1, <2>6
  <2>. QED
    BY <1>1, <2>6, <2>7 DEF child
<1>4. child \in PT!ReplayPath(tree, path1)
  <2>1. n \in PT!ReplayPath(tree, path)
    BY DEF LeadsTo
  <2>2. PICK w : Follows(w, tree, path) /\ n = w[L]
    BY <2>1, PathEnds DEF L
  <2>3. w \in [0..L -> Node] /\ w[0] = tree
        /\ \A k \in 1..L : path[k] < Len(Shrinks[w[k - 1]]) /\ w[k] = Shrinks[w[k - 1]][path[k] + 1]
    BY <2>2 DEF Follows, L
  <2>. DEFINE v == [k \in 0..(L + 1) |-> IF k <= L THEN w[k] ELSE child]
  <2>4. v \in [0..(L + 1) -> Node] /\ (\A k \in 0..L : v[k] = w[k]) /\ v[L + 1] = child
    <3>1. \A k \in 0..(L + 1) : IF k <= L THEN k \in 0..L ELSE k = L + 1
      BY <1>1
    <3>. QED
      BY <1>1, <1>2, <2>3, <3>1
  <2>. HIDE DEF v
  <2>5. v[0] = tree
    BY <1>1, <2>3, <2>4
  <2>6. \A k \in 1..(L + 1) : path1[k] < Len(Shrinks[v[k - 1]]) /\ v[k] = Shrinks[v[k - 1]][path1[k] + 1]
    <3>. TAKE k \in 1..(L + 1)
    <3>1. k - 1 \in 0..L /\ v[k - 1] = w[k - 1]
      BY <1>1, <2>4
    <3>2. CASE k = L + 1
      <4>1. w[k - 1] = n /\ path1[k] = idx /\ v[k] = child
        BY <1>1, <2>2, <2>4, <3>2
      <4>. QED
        BY <3>1, <4>1 DEF child
    <3>3. CASE k # L + 1
      <4>1. k \in 1..L /\ k \in 0..L
        BY <1>1, <3>3
      <4>. QED
        BY <1>1, <2>3, <2>4, <3>1, <4>1
    <3>. QED
      BY <3>2, <3>3
  <2>7. Follows(v, tree, path1)
    BY <1>1, <2>4, <2>5, <2>6 DEF Follows
  <2>. QED
    BY <1>1, <2>4, <2>7, PathEnds
<1>5. \A m : m \in PT!ReplayPath(tree, path1) => m = child
  <2>. TAKE m
  <2>. HAVE m \in PT!ReplayPath(tree, path1)
  <2>1. PICK w : Follows(w, tree, path1) /\ m = w[Len(path1)]
    BY PathEnds
  <2>. QED
    BY <1>1, <1>3, <2>1
<1>. QED
  BY <1>4, <1>5 DEF path1, child, LeadsTo

Errors == {"undefined", "error", "TypeError"}
TestOutcomes == Errors \cup {PT!PASSED}

\* What the predicate p does with a tree; the trees drawn under configuration c.
OutcomeOf(p, n) == PT!Eval(p[n])
Drawn(c, i) == arb(i, PT!SizeFor(i, c))
DrawnPass(p, c, k) == \A j \in 0..(k - 1) : OutcomeOf(p, Drawn(c, j)) = PT!PASSED

\* The shrink loop of a failing run i: its current tree fails with its error
\* and is where its path leads, the children tried so far passed.
ShrinkInv(p, c, i, s) ==
  /\ s \in ShrinkRec(Node, TestOutcomes)
  /\ OutcomeOf(p, s.current) = s.error /\ s.error # PT!PASSED
  /\ s.shrinks <= c.maxShrinks /\ s.evaluations <= c.maxShrinkEvaluations
  /\ s.childIdx <= Len(Shrinks[s.current])
  /\ \A j \in 1..s.childIdx : OutcomeOf(p, Shrinks[s.current][j]) = PT!PASSED
  /\ s.shrinks = Len(s.pathIndices)
  /\ LeadsTo(Drawn(c, i), s.pathIndices, s.current)

\* The loop has stopped: nothing is left to try or a limit was reached.
Stopped(p, c, l, s) ==
  \/ s.shrinks = c.maxShrinks \/ s.evaluations = c.maxShrinkEvaluations \/ l
  \/ \A j \in 1..Len(Shrinks[s.current]) : OutcomeOf(p, Shrinks[s.current][j]) = PT!PASSED

\* What check reports for it.
Report(c, i, s) ==
  [ok |-> FALSE, numRuns |-> i + 1, counterexample |-> s.current, shrinks |-> s.shrinks,
   error |-> s.error,
   path |-> [testIdx |-> i, size |-> PT!SizeFor(i, c), shrinkIndices |-> s.pathIndices]]

Reported(p, c, l, t) ==
  IF t.result.ok
  THEN /\ t.result.numRuns = c.numRuns \/ l
       /\ DrawnPass(p, c, t.result.numRuns)
  ELSE \E i \in Nat : /\ ShrinkInv(p, c, i, t.shrink) /\ Stopped(p, c, l, t.shrink)
                      /\ t.result = Report(c, i, t.shrink)

CallInv(p, c, l, t) ==
  \/ /\ t.phase = "running" /\ t = [phase |-> "running", i |-> t.i]
     /\ t.i \in Nat /\ t.i <= c.numRuns /\ DrawnPass(p, c, t.i)
  \/ /\ t.phase = "shrinking" /\ t = [phase |-> "shrinking", i |-> t.i, shrink |-> t.shrink]
     /\ t.i \in Nat /\ ShrinkInv(p, c, t.i, t.shrink)
  \/ t.phase = "done" /\ Reported(p, c, l, t)

\* A replay of the path of a failure with the configuration it was found with,
\* or of a path that holds its size, gives the failure again.
ReplayInv(c, t, r) ==
  r # PT!None => /\ t.phase = "done" /\ ~t.result.ok
                 /\ ~r.legacy \/ r.cfg = c => r.results = {[t.result EXCEPT !.numRuns = 1]}

PropertyInv ==
  /\ cfg \in Configs
  /\ CallInv(predicate, cfg, late, test)
  /\ ReplayInv(cfg, test, replay)

LEMMA OutcomeKnown == ASSUME NEW p, NEW n PROVE OutcomeOf(p, n) \in TestOutcomes
BY DEF OutcomeOf, TestOutcomes, Errors, PT!Eval

LEMMA SizeIsNat == ASSUME PropertyAssumption, NEW c \in Configs, NEW i \in Nat PROVE PT!SizeFor(i, c) \in Nat
<1>1. c.numRuns \in Nat /\ c.maxSize \in Nat
  BY DEF PropertyAssumption
<1>2. CASE c.numRuns <= 1
  BY <1>1, <1>2 DEF PT!SizeFor
<1>3. CASE ~(c.numRuns <= 1)
  <2>. DEFINE a == i * c.maxSize
              b == c.numRuns - 1
  <2>1. a \in Nat /\ b \in Nat \ {0}
    BY <1>1, <1>3
  <2>. HIDE DEF a, b
  <2>2. a \div b \in Nat
    BY <2>1
  <2>. QED
    BY <1>3, <2>2 DEF PT!SizeFor, a, b
<1>. QED
  BY <1>2, <1>3

LEMMA DrawnIsNode == ASSUME PropertyAssumption, NEW c \in Configs, NEW i \in Nat PROVE Drawn(c, i) \in Node
BY SizeIsNat DEF PropertyAssumption, Drawn

\* A failing run starts its shrink loop.
LEMMA ShrinkStarts ==
  ASSUME PropertyAssumption, NEW p, NEW c \in Configs, NEW i \in Nat,
         OutcomeOf(p, Drawn(c, i)) # PT!PASSED
  PROVE  ShrinkInv(p, c, i, PT!ShrinkFrom(Drawn(c, i), OutcomeOf(p, Drawn(c, i))))
<1>. DEFINE n == Drawn(c, i)
            e == OutcomeOf(p, n)
            s == PT!ShrinkFrom(n, e)
<1>1. n \in Node /\ e \in TestOutcomes /\ e # PT!PASSED
  BY DrawnIsNode, OutcomeKnown
<1>2. s = [current |-> n, error |-> e, shrinks |-> 0, evaluations |-> 0, childIdx |-> 0,
           pathIndices |-> << >>]
  BY DEF PT!ShrinkFrom
<1>. HIDE DEF n, e, s
<1>3. s \in ShrinkRec(Node, TestOutcomes)
  BY <1>1, <1>2 DEF ShrinkRec
<1>4. LeadsTo(n, << >>, n)
  BY <1>1, EmptyPath
<1>5. c.maxShrinks \in Nat /\ c.maxShrinkEvaluations \in Nat /\ Shrinks[n] \in Seq(Node)
  BY <1>1 DEF PropertyAssumption
<1>6. OutcomeOf(p, s.current) = s.error
  BY <1>2 DEF e
<1>7. LeadsTo(Drawn(c, i), s.pathIndices, s.current)
  BY <1>2, <1>4 DEF n
<1>8. ShrinkInv(p, c, i, s)
  BY <1>1, <1>2, <1>3, <1>5, <1>6, <1>7 DEF ShrinkInv
<1>. QED
  BY <1>8 DEF s, e, n

LEMMA SameTryChild ==
  ASSUME NEW s, NEW child, NEW outcome
  PROVE  PT!TryChild(s, child, outcome) = SH!TryChild(s, child, outcome) /\ PT!PASSED = SH!PASSED
BY DEF PT!TryChild, SH!TryChild, PT!Accept, SH!Accept, PT!PASSED, SH!PASSED

\* The loop evaluates one child more.
LEMMA ShrinkGoesOn ==
  ASSUME PropertyAssumption, NEW p, NEW c \in Configs, NEW i \in Nat, NEW l, NEW s,
         ShrinkInv(p, c, i, s), ~PT!ShrinkEnds(s, Shrinks[s.current], c, l)
  PROVE  ShrinkInv(p, c, i, PT!TryChild(s, Shrinks[s.current][s.childIdx + 1],
                                        OutcomeOf(p, Shrinks[s.current][s.childIdx + 1])))
<1>. DEFINE kids == Shrinks[s.current]
            child == kids[s.childIdx + 1]
            o == OutcomeOf(p, child)
            t == SH!TryChild(s, child, o)
<1>1. /\ s \in ShrinkRec(Node, TestOutcomes)
      /\ OutcomeOf(p, s.current) = s.error /\ s.error # PT!PASSED
      /\ s.shrinks <= c.maxShrinks /\ s.evaluations <= c.maxShrinkEvaluations
      /\ s.childIdx <= Len(kids)
      /\ \A j \in 1..s.childIdx : OutcomeOf(p, kids[j]) = PT!PASSED
      /\ s.shrinks = Len(s.pathIndices)
      /\ LeadsTo(Drawn(c, i), s.pathIndices, s.current)
  BY DEF ShrinkInv
<1>2. /\ s.current \in Node /\ s.shrinks \in Nat /\ s.evaluations \in Nat
      /\ s.childIdx \in Nat /\ s.pathIndices \in Seq(Nat)
  BY <1>1 DEF ShrinkRec
<1>3. c.maxShrinks \in Nat /\ c.maxShrinkEvaluations \in Nat /\ kids \in Seq(Node)
  BY <1>2 DEF PropertyAssumption
<1>4. s.shrinks < c.maxShrinks /\ s.childIdx < Len(kids) /\ s.evaluations < c.maxShrinkEvaluations
  BY <1>2, <1>3 DEF PT!ShrinkEnds, PT!OutOfBudget
<1>5. child \in Node /\ o \in TestOutcomes
  BY <1>2, <1>3, <1>4, OutcomeKnown
<1>6. PT!TryChild(s, child, o) = t /\ PT!PASSED = SH!PASSED
  BY SameTryChild
<1>7. LeadsTo(Drawn(c, i), Append(s.pathIndices, s.childIdx), child)
  <2>. DEFINE tree == Drawn(c, i)
              path == s.pathIndices
              idx == s.childIdx
              n == s.current
  <2>1. path \in Seq(Nat) /\ idx \in Nat /\ n \in Node /\ LeadsTo(tree, path, n)
        /\ idx < Len(Shrinks[n])
    BY <1>1, <1>2, <1>4
  <2>2. child = Shrinks[n][idx + 1]
    OBVIOUS
  <2>. HIDE DEF tree, path, idx, n, child, o, t, kids
  <2>3. LeadsTo(tree, Append(path, idx), Shrinks[n][idx + 1])
    BY PropertyAssumption, <2>1, LongerPath
  <2>. QED
    BY <2>2, <2>3 DEF tree, path, idx
<1>. HIDE DEF t, o, child, kids
<1>8. /\ t \in ShrinkRec(Node, TestOutcomes) /\ t.evaluations = s.evaluations + 1
      /\ o = PT!PASSED => /\ t.current = s.current /\ t.error = s.error /\ t.shrinks = s.shrinks
                          /\ t.pathIndices = s.pathIndices /\ t.childIdx = s.childIdx + 1
      /\ o # PT!PASSED => /\ t.current = child /\ t.error = o /\ t.shrinks = s.shrinks + 1
                          /\ t.pathIndices = Append(s.pathIndices, s.childIdx) /\ t.childIdx = 0
  BY <1>1, <1>5, <1>6, TryChildIs DEF t
<1>9. CASE o = PT!PASSED
  <2>1. \A j \in 1..t.childIdx : OutcomeOf(p, Shrinks[t.current][j]) = PT!PASSED
    <3>. TAKE j \in 1..t.childIdx
    <3>1. j \in 1..s.childIdx \/ j = s.childIdx + 1
      BY <1>2, <1>8, <1>9
    <3>2. Shrinks[t.current] = kids
      BY <1>8, <1>9 DEF kids
    <3>. QED
      BY <1>1, <1>9, <3>1, <3>2 DEF o, child
  <2>2. t.childIdx <= Len(Shrinks[t.current])
    BY <1>2, <1>3, <1>4, <1>8, <1>9 DEF kids
  <2>3. OutcomeOf(p, t.current) = t.error /\ t.error # PT!PASSED
        /\ t.shrinks <= c.maxShrinks /\ t.evaluations <= c.maxShrinkEvaluations
        /\ t.shrinks = Len(t.pathIndices)
    BY <1>1, <1>2, <1>3, <1>4, <1>8, <1>9
  <2>4. LeadsTo(Drawn(c, i), t.pathIndices, t.current)
    BY <1>1, <1>8, <1>9
  <2>5. ShrinkInv(p, c, i, t)
    BY <1>8, <2>1, <2>2, <2>3, <2>4 DEF ShrinkInv
  <2>. QED
    BY <1>6, <2>5 DEF o, child, kids
<1>10. CASE o # PT!PASSED
  <2>1. Shrinks[child] \in Seq(Node)
    BY <1>5 DEF PropertyAssumption
  <2>2. t.childIdx <= Len(Shrinks[t.current]) /\ 1..t.childIdx = {}
    BY <1>8, <1>10, <2>1
  <2>3. OutcomeOf(p, t.current) = t.error
    BY <1>8, <1>10 DEF o
  <2>4. t.shrinks = Len(t.pathIndices) /\ t.shrinks <= c.maxShrinks
        /\ t.evaluations <= c.maxShrinkEvaluations
    <3>1. t.shrinks = s.shrinks + 1 /\ t.pathIndices = Append(s.pathIndices, s.childIdx)
      BY <1>8, <1>10
    <3>2. s.shrinks = Len(s.pathIndices) /\ s.pathIndices \in Seq(Nat)
      BY <1>1, <1>2
    <3>3. Len(t.pathIndices) = Len(s.pathIndices) + 1
      BY <3>1, <3>2
    <3>4. t.shrinks <= c.maxShrinks /\ t.evaluations <= c.maxShrinkEvaluations
      BY <1>2, <1>3, <1>4, <1>8, <3>1
    <3>. QED
      BY <3>1, <3>2, <3>3, <3>4
  <2>5. LeadsTo(Drawn(c, i), t.pathIndices, t.current)
    BY <1>7, <1>8, <1>10
  <2>6. ShrinkInv(p, c, i, t)
    BY <1>8, <1>10, <2>2, <2>3, <2>4, <2>5 DEF ShrinkInv
  <2>. QED
    BY <1>6, <2>6 DEF o, child, kids
<1>. QED
  BY <1>9, <1>10

\* The loop ends: what check reports fails and is reached by its path.
LEMMA ShrinkStops ==
  ASSUME PropertyAssumption, NEW p, NEW c \in Configs, NEW i, NEW l, NEW s,
         ShrinkInv(p, c, i, s), PT!ShrinkEnds(s, Shrinks[s.current], c, l)
  PROVE  Stopped(p, c, l, s)
<1>1. /\ s \in ShrinkRec(Node, TestOutcomes)
      /\ s.shrinks <= c.maxShrinks /\ s.evaluations <= c.maxShrinkEvaluations
      /\ s.childIdx <= Len(Shrinks[s.current])
      /\ \A j \in 1..s.childIdx : OutcomeOf(p, Shrinks[s.current][j]) = PT!PASSED
  BY DEF ShrinkInv
<1>2. s.shrinks \in Nat /\ s.evaluations \in Nat /\ s.childIdx \in Nat
      /\ c.maxShrinks \in Nat /\ c.maxShrinkEvaluations \in Nat
  BY <1>1 DEF ShrinkRec, PropertyAssumption
<1>3. Len(Shrinks[s.current]) \in Nat
  BY <1>1 DEF ShrinkRec, PropertyAssumption
<1>4. \/ s.shrinks = c.maxShrinks \/ s.evaluations = c.maxShrinkEvaluations \/ l
      \/ s.childIdx = Len(Shrinks[s.current])
  BY <1>1, <1>2, <1>3 DEF PT!ShrinkEnds, PT!OutOfBudget
<1>. QED
  BY <1>1, <1>4 DEF Stopped

LEMMA CheckBegins ==
  ASSUME PropertyAssumption, PT!Init PROVE PropertyInv
<1>1. cfg \in Configs /\ test = [phase |-> "running", i |-> 0] /\ replay = PT!None
  BY DEF PT!Init
<1>2. test.phase = "running" /\ test.i = 0 /\ cfg.numRuns \in Nat /\ 0..(test.i - 1) = {}
  BY <1>1 DEF PropertyAssumption
<1>3. CallInv(predicate, cfg, late, test)
  BY <1>1, <1>2 DEF CallInv, DrawnPass
<1>. QED
  BY <1>1, <1>3 DEF PropertyInv, ReplayInv

\* No replay begins before the call has ended.
LEMMA ReplayAfterwards ==
  ASSUME PropertyInv, test.phase # "done"
  PROVE  replay = PT!None /\ \A t : ReplayInv(cfg, t, replay)
BY DEF PropertyInv, ReplayInv

LEMMA RunOneKeeps ==
  ASSUME PropertyAssumption, PropertyInv, PT!RunOne PROVE PropertyInv'
<1>. DEFINE i == test.i
            tree == Drawn(cfg, i)
            e == OutcomeOf(predicate, tree)
<1>1. /\ test.phase = "running" /\ i < cfg.numRuns
      /\ test' = IF e = PT!PASSED THEN [test EXCEPT !.i = @ + 1]
                 ELSE [phase |-> "shrinking", i |-> i, shrink |-> PT!ShrinkFrom(tree, e)]
      /\ predicate' = predicate /\ cfg' = cfg /\ late' = late /\ replay' = replay
  BY DEF PT!RunOne, PT!Outcome, Drawn, OutcomeOf
<1>2. /\ cfg \in Configs /\ i \in Nat /\ test = [phase |-> "running", i |-> i]
      /\ DrawnPass(predicate, cfg, i)
  BY <1>1 DEF PropertyInv, CallInv
<1>3. cfg.numRuns \in Nat
  BY <1>2 DEF PropertyAssumption
<1>. HIDE DEF e, tree
<1>4. ReplayInv(cfg', test', replay')
  BY <1>1, ReplayAfterwards
<1>5. CASE e = PT!PASSED
  <2>1. test' = [phase |-> "running", i |-> i + 1]
    BY <1>1, <1>2, <1>5
  <2>2. DrawnPass(predicate, cfg, i + 1)
    <3>1. ASSUME NEW j \in 0..((i + 1) - 1) PROVE OutcomeOf(predicate, Drawn(cfg, j)) = PT!PASSED
      <4>1. j = i \/ j \in 0..(i - 1)
        BY <1>2
      <4>. QED
        BY <1>2, <1>5, <4>1 DEF DrawnPass, e, tree
    <3>. QED
      BY <3>1 DEF DrawnPass
  <2>3. test'.phase = "running" /\ test'.i = i + 1 /\ i + 1 \in Nat /\ i + 1 <= cfg.numRuns
    BY <1>1, <1>2, <1>3, <2>1
  <2>. HIDE DEF i
  <2>4. CallInv(predicate, cfg, late, test')
    BY <2>1, <2>2, <2>3 DEF CallInv
  <2>. QED
    BY <1>1, <1>2, <1>4, <2>4 DEF PropertyInv
<1>6. CASE e # PT!PASSED
  <2>. DEFINE s == PT!ShrinkFrom(tree, e)
  <2>1. test' = [phase |-> "shrinking", i |-> i, shrink |-> s]
    BY <1>1, <1>6
  <2>2. ShrinkInv(predicate, cfg, i, s)
    BY <1>2, <1>6, ShrinkStarts DEF e, tree
  <2>. HIDE DEF s, i
  <2>3. CallInv(predicate, cfg, late, test')
    BY <1>2, <2>1, <2>2 DEF CallInv
  <2>. QED
    BY <1>1, <1>2, <1>4, <2>3 DEF PropertyInv
<1>. QED
  BY <1>5, <1>6

LEMMA PassesKeeps ==
  ASSUME PropertyAssumption, PropertyInv, PT!Passes PROVE PropertyInv'
<1>. DEFINE i == test.i
            r == [ok |-> TRUE, numRuns |-> i]
<1>1. /\ test.phase = "running" /\ (i >= cfg.numRuns \/ late)
      /\ test' = [phase |-> "done", result |-> r]
      /\ predicate' = predicate /\ cfg' = cfg /\ late' = late /\ replay' = replay
  BY DEF PT!Passes
<1>2. /\ cfg \in Configs /\ i \in Nat /\ i <= cfg.numRuns /\ DrawnPass(predicate, cfg, i)
  BY <1>1 DEF PropertyInv, CallInv
<1>3. cfg.numRuns \in Nat
  BY <1>2 DEF PropertyAssumption
<1>4. ReplayInv(cfg', test', replay')
  BY <1>1, ReplayAfterwards
<1>5. i = cfg.numRuns \/ late
  BY <1>1, <1>2, <1>3
<1>6. test'.phase = "done" /\ test'.result.ok /\ test'.result.numRuns = i
  BY <1>1
<1>. HIDE DEF i, r
<1>7. CallInv(predicate, cfg, late, test')
  BY <1>2, <1>5, <1>6 DEF CallInv, Reported
<1>. QED
  BY <1>1, <1>2, <1>4, <1>7 DEF PropertyInv

LEMMA ShrinkOneKeeps ==
  ASSUME PropertyAssumption, PropertyInv, PT!ShrinkOne PROVE PropertyInv'
<1>. DEFINE i == test.i
            s == test.shrink
            kids == Shrinks[s.current]
            child == kids[s.childIdx + 1]
            ends == PT!ShrinkEnds(s, kids, cfg, late)
            s1 == PT!TryChild(s, child, OutcomeOf(predicate, child))
            r == Report(cfg, i, s)
<1>1. /\ test.phase = "shrinking"
      /\ test' = IF ends THEN [phase |-> "done", shrink |-> s, result |-> r]
                 ELSE [test EXCEPT !.shrink = s1]
      /\ predicate' = predicate /\ cfg' = cfg /\ late' = late /\ replay' = replay
  BY DEF PT!ShrinkOne, PT!Outcome, OutcomeOf, PT!Failure, Report
<1>2. /\ cfg \in Configs /\ i \in Nat /\ test = [phase |-> "shrinking", i |-> i, shrink |-> s]
      /\ ShrinkInv(predicate, cfg, i, s)
  BY <1>1 DEF PropertyInv, CallInv
<1>3. ReplayInv(cfg', test', replay')
  BY <1>1, ReplayAfterwards
<1>4. CASE ends
  <2>1. Stopped(predicate, cfg, late, s)
    BY <1>2, <1>4, ShrinkStops
  <2>. HIDE DEF s, r, i, s1, child, kids, ends
  <2>2. test'.phase = "done" /\ test'.shrink = s /\ test'.result = r
    BY <1>1, <1>4
  <2>3. ~r.ok
    BY DEF r, Report
  <2>4. Reported(predicate, cfg, late, test')
    BY <1>2, <2>1, <2>2, <2>3 DEF Reported, r
  <2>5. CallInv(predicate, cfg, late, test')
    BY <2>2, <2>4 DEF CallInv
  <2>. QED
    BY <1>1, <1>2, <1>3, <2>5 DEF PropertyInv
<1>5. CASE ~ends
  <2>1. ShrinkInv(predicate, cfg, i, s1)
    BY <1>2, <1>5, ShrinkGoesOn
  <2>. HIDE DEF s, r, i, s1, child, kids, ends
  <2>2. test' = [phase |-> "shrinking", i |-> i, shrink |-> s1]
    BY <1>1, <1>2, <1>5
  <2>3. CallInv(predicate, cfg, late, test')
    BY <1>2, <2>1, <2>2 DEF CallInv
  <2>. QED
    BY <1>1, <1>2, <1>3, <2>3 DEF PropertyInv
<1>. QED
  BY <1>4, <1>5

LEMMA DeadlineKeeps ==
  ASSUME PropertyInv, PT!DeadlinePasses PROVE PropertyInv'
<1>1. /\ test.phase # "done" /\ test' = test /\ predicate' = predicate /\ cfg' = cfg
      /\ replay' = replay
  BY DEF PT!DeadlinePasses
<1>2. cfg \in Configs /\ CallInv(predicate, cfg, late, test) /\ ReplayInv(cfg, test, replay)
  BY DEF PropertyInv
<1>3. CallInv(predicate, cfg, late', test)
  BY <1>1, <1>2 DEF CallInv
<1>. QED
  BY <1>1, <1>2, <1>3 DEF PropertyInv

\* A path that holds its size, or that is replayed with the configuration it
\* comes from, leads to the reported counterexample.
LEMMA ReplayKeeps ==
  ASSUME PropertyAssumption, PropertyInv, NEW c \in Configs, NEW legacy \in BOOLEAN,
         PT!Replay(c, legacy)
  PROVE  PropertyInv'
<1>. DEFINE path == test.result.path
            size == IF legacy THEN PT!SizeFor(path.testIdx, c) ELSE path.size
            found == PT!ReplayPath(arb(path.testIdx, size), path.shrinkIndices)
            one(n) == IF OutcomeOf(predicate, n) = PT!PASSED THEN [ok |-> TRUE, numRuns |-> 1]
                      ELSE [ok |-> FALSE, numRuns |-> 1, counterexample |-> n,
                            shrinks |-> Len(path.shrinkIndices),
                            error |-> OutcomeOf(predicate, n), path |-> path]
            again == {one(n) : n \in found}
<1>1. /\ test.phase = "done" /\ ~test.result.ok
      /\ replay' = [phase |-> "done", legacy |-> legacy, cfg |-> c, results |-> again]
      /\ predicate' = predicate /\ cfg' = cfg /\ late' = late /\ test' = test
  BY DEF PT!Replay, PT!Outcome, OutcomeOf
<1>2. cfg \in Configs /\ CallInv(predicate, cfg, late, test)
  BY DEF PropertyInv
<1>3. PICK i \in Nat : /\ ShrinkInv(predicate, cfg, i, test.shrink)
                       /\ test.result = Report(cfg, i, test.shrink)
  BY <1>1, <1>2 DEF CallInv, Reported
<1>. DEFINE s == test.shrink
<1>4. /\ OutcomeOf(predicate, s.current) = s.error /\ s.error # PT!PASSED
      /\ s.shrinks = Len(s.pathIndices)
      /\ PT!ReplayPath(arb(i, PT!SizeFor(i, cfg)), s.pathIndices) = {s.current}
  BY <1>3 DEF ShrinkInv, LeadsTo, Drawn
<1>5. /\ test.result = [ok |-> FALSE, numRuns |-> i + 1, counterexample |-> s.current,
                        shrinks |-> s.shrinks, error |-> s.error, path |-> path]
      /\ path.testIdx = i /\ path.size = PT!SizeFor(i, cfg) /\ path.shrinkIndices = s.pathIndices
  BY <1>3 DEF Report
<1>6. ASSUME ~legacy \/ c = cfg PROVE again = {[test.result EXCEPT !.numRuns = 1]}
  <2>1. size = PT!SizeFor(i, cfg)
    BY <1>5, <1>6
  <2>2. found = {s.current}
    BY <1>4, <1>5, <2>1
  <2>3. one(s.current) = [ok |-> FALSE, numRuns |-> 1, counterexample |-> s.current,
                          shrinks |-> s.shrinks, error |-> s.error, path |-> path]
    BY <1>4, <1>5
  <2>4. [test.result EXCEPT !.numRuns = 1]
          = [ok |-> FALSE, numRuns |-> 1, counterexample |-> s.current,
             shrinks |-> s.shrinks, error |-> s.error, path |-> path]
    <3>1. ASSUME NEW x, NEW a, NEW b, NEW d, NEW e, NEW f,
                 x = [ok |-> FALSE, numRuns |-> a, counterexample |-> b, shrinks |-> d,
                      error |-> e, path |-> f]
          PROVE  [x EXCEPT !.numRuns = 1]
                   = [ok |-> FALSE, numRuns |-> 1, counterexample |-> b, shrinks |-> d,
                      error |-> e, path |-> f]
      <4>. DEFINE S == [ok : {FALSE}, numRuns : {a, 1}, counterexample : {b}, shrinks : {d},
                        error : {e}, path : {f}]
                  y == [x EXCEPT !.numRuns = 1]
      <4>1. x \in S
        BY <3>1
      <4>2. y \in S /\ y.numRuns = 1
        BY <4>1
      <4>. HIDE DEF y
      <4>3. y.ok = FALSE /\ y.counterexample = b /\ y.shrinks = d /\ y.error = e /\ y.path = f
        BY <4>2
      <4>4. y = [ok |-> y.ok, numRuns |-> y.numRuns, counterexample |-> y.counterexample,
                 shrinks |-> y.shrinks, error |-> y.error, path |-> y.path]
        BY <4>2
      <4>. QED
        BY <4>2, <4>3, <4>4 DEF y
    <3>. HIDE DEF path, s
    <3>. QED
      BY <1>5, <3>1
  <2>5. again = {one(s.current)}
    <3>. HIDE DEF one, found
    <3>. QED
      BY <2>2
  <2>. QED
    BY <2>3, <2>4, <2>5
<1>. HIDE DEF again
<1>7. replay'.legacy = legacy /\ replay'.cfg = c /\ replay'.results = again
  BY <1>1
<1>8. ReplayInv(cfg', test', replay')
  BY <1>1, <1>6, <1>7 DEF ReplayInv
<1>. QED
  BY <1>1, <1>2, <1>8 DEF PropertyInv

LEMMA CheckStep ==
  ASSUME PropertyAssumption, PropertyInv, [PT!Next]_(PT!vars) PROVE PropertyInv'
<1>1. CASE PT!DeadlinePasses
  BY <1>1, DeadlineKeeps
<1>2. CASE PT!RunOne
  BY <1>2, RunOneKeeps
<1>3. CASE PT!Passes
  BY <1>3, PassesKeeps
<1>4. CASE PT!ShrinkOne
  BY <1>4, ShrinkOneKeeps
<1>5. CASE \E c \in Configs, legacy \in BOOLEAN : PT!Replay(c, legacy)
  BY <1>5, ReplayKeeps
<1>6. CASE UNCHANGED PT!vars
  BY <1>6 DEF PT!vars, PropertyInv
<1>. QED
  BY <1>1, <1>2, <1>3, <1>4, <1>5, <1>6 DEF PT!Next

LEMMA CheckReproduces == ASSUME PropertyInv PROVE PT!Reproduces
<1>. SUFFICES ASSUME test.phase = "done" PROVE PT!Reproduces
  BY DEF PT!Reproduces
<1>1. Reported(predicate, cfg, late, test) /\ ReplayInv(cfg, test, replay)
  BY DEF PropertyInv, CallInv
<1>2. \A n : PT!Outcome(n) = OutcomeOf(predicate, n)
  BY DEF PT!Outcome, OutcomeOf
<1>3. CASE test.result.ok
  BY <1>1, <1>2, <1>3 DEF Reported, DrawnPass, Drawn, PT!Reproduces
<1>4. CASE ~test.result.ok
  <2>1. PICK i \in Nat : ShrinkInv(predicate, cfg, i, test.shrink) /\ Stopped(predicate, cfg, late, test.shrink)
    BY <1>1, <1>4 DEF Reported
  <2>2. PT!ShrunkSoundly(test.shrink, Shrinks[test.shrink.current], PT!Outcome, cfg, late)
    BY <1>2, <2>1 DEF ShrinkInv, Stopped, PT!ShrunkSoundly
  <2>3. replay # PT!None /\ (~replay.legacy \/ replay.cfg = cfg)
          => replay.results = {[test.result EXCEPT !.numRuns = 1]}
    BY <1>1 DEF ReplayInv
  <2>. QED
    BY <1>4, <2>2, <2>3 DEF PT!Reproduces
<1>. QED
  BY <1>3, <1>4

\* Whatever the generator, its shrinks and the predicate: a failure that check
\* reports (Property.ts: check, shrinkSync, failure) fails with the reported
\* error, is a local minimum unless a limit stopped the loop, and its path,
\* replayed (replayTarget, replayResult), gives the same report; a check that
\* passes has run every input it drew.
THEOREM PropertyReproduces ==
  ASSUME PropertyAssumption
  PROVE  PT!Init /\ [][PT!Next]_(PT!vars) => []PT!Reproduces
<1>1. PT!Init => PropertyInv
  BY CheckBegins
<1>2. PropertyInv /\ [PT!Next]_(PT!vars) => PropertyInv'
  BY CheckStep
<1>3. PropertyInv => PT!Reproduces
  BY CheckReproduces
<1>. QED
  BY <1>1, <1>2, <1>3, PTL

-----------------------------------------------------------------------------
(* CoverageGuided: fuzz and fuzzAsync, the corpus and the inspector. *)

\* The shrink loop of a crash, for a target that crashes on x.
CrashInv(x, c, s) ==
  /\ s \in ShrinkRec(Input, {"error", CG!PASSED})
  /\ s.current \in x /\ s.error = "error"
  /\ s.shrinks <= c.maxShrinks /\ s.evaluations <= c.maxShrinkEvaluations
  /\ s.childIdx <= Len(InputShrinks[s.current])
  /\ \A j \in 1..s.childIdx : InputShrinks[s.current][j] \notin x

CrashStopped(x, c, s) ==
  \/ s.shrinks = c.maxShrinks \/ s.evaluations = c.maxShrinkEvaluations
  \/ \A j \in 1..Len(InputShrinks[s.current]) : InputShrinks[s.current][j] \notin x

\* The corpus q keeps its cap and holds inputs that passed, whose coverage was seen.
CorpusInv(x, cov, c, ins, sn, q) ==
  /\ q \in Seq(Input) /\ Len(q) <= c.maxCorpus
  /\ \A i \in 1..Len(q) : q[i] \notin x /\ cov[q[i]] \subseteq sn
  /\ q # << >> => ins # "none"

FuzzCall(x, c, ins, f) ==
  \/ /\ f.phase \in {"seeds", "inputs"} /\ f = [phase |-> f.phase, numRuns |-> f.numRuns]
     /\ f.numRuns \in Nat
  \/ /\ f.phase = "shrinking" /\ f = [phase |-> "shrinking", shrink |-> f.shrink]
     /\ ins # "on" /\ CrashInv(x, c, f.shrink)
  \/ /\ f.phase = "done" /\ ins # "on"
     /\ ~f.ok => CrashInv(x, c, f.shrink) /\ CrashStopped(x, c, f.shrink)

FuzzInv ==
  /\ cfg \in FuzzLimits /\ crashes \subseteq Input
  /\ CorpusInv(crashes, covers, cfg, inspector, seen, corpus)
  /\ FuzzCall(crashes, cfg, inspector, fuzz)

LEMMA CrashStarts ==
  ASSUME FuzzAssumption, NEW x, NEW c \in FuzzLimits, NEW n \in Input, n \in x
  PROVE  CrashInv(x, c, CG!ShrinkFrom(n, "error"))
<1>. DEFINE s == CG!ShrinkFrom(n, "error")
<1>1. s = [current |-> n, error |-> "error", shrinks |-> 0, evaluations |-> 0, childIdx |-> 0,
           pathIndices |-> << >>]
  BY DEF CG!ShrinkFrom
<1>. HIDE DEF s
<1>2. s \in ShrinkRec(Input, {"error", CG!PASSED})
  BY <1>1 DEF ShrinkRec
<1>3. c.maxShrinks \in Nat /\ c.maxShrinkEvaluations \in Nat /\ InputShrinks[n] \in Seq(Input)
  BY DEF FuzzAssumption
<1>4. CrashInv(x, c, s)
  BY <1>1, <1>2, <1>3 DEF CrashInv
<1>. QED
  BY <1>4 DEF s

LEMMA SameCrashChild ==
  ASSUME NEW s, NEW child, NEW outcome
  PROVE  CG!TryChild(s, child, outcome) = SH!TryChild(s, child, outcome) /\ CG!PASSED = SH!PASSED
BY DEF CG!TryChild, SH!TryChild, CG!Accept, SH!Accept, CG!PASSED, SH!PASSED

LEMMA CrashGoesOn ==
  ASSUME FuzzAssumption, NEW x, NEW c \in FuzzLimits, NEW s, NEW o,
         CrashInv(x, c, s), ~CG!ShrinkEnds(s, InputShrinks[s.current], c, FALSE),
         o = IF InputShrinks[s.current][s.childIdx + 1] \in x THEN "error" ELSE CG!PASSED
  PROVE  CrashInv(x, c, CG!TryChild(s, InputShrinks[s.current][s.childIdx + 1], o))
<1>. DEFINE kids == InputShrinks[s.current]
            child == kids[s.childIdx + 1]
            E == {"error", CG!PASSED}
            t == SH!TryChild(s, child, o)
<1>1. /\ s \in ShrinkRec(Input, E) /\ s.current \in x /\ s.error = "error"
      /\ s.shrinks <= c.maxShrinks /\ s.evaluations <= c.maxShrinkEvaluations
      /\ s.childIdx <= Len(kids) /\ \A j \in 1..s.childIdx : kids[j] \notin x
  BY DEF CrashInv
<1>2. s.current \in Input /\ s.shrinks \in Nat /\ s.evaluations \in Nat /\ s.childIdx \in Nat
  BY <1>1 DEF ShrinkRec
<1>3. c.maxShrinks \in Nat /\ c.maxShrinkEvaluations \in Nat /\ kids \in Seq(Input)
  BY <1>2 DEF FuzzAssumption
<1>4. s.shrinks < c.maxShrinks /\ s.childIdx < Len(kids) /\ s.evaluations < c.maxShrinkEvaluations
  BY <1>2, <1>3 DEF CG!ShrinkEnds, CG!OutOfBudget
<1>5. child \in Input /\ o \in E
  BY <1>2, <1>3, <1>4
<1>6. CG!TryChild(s, child, o) = t /\ CG!PASSED = SH!PASSED
  BY SameCrashChild
<1>7. "error" # CG!PASSED /\ (child \in x <=> o # CG!PASSED) /\ (child \in x => o = "error")
  BY DEF CG!PASSED
<1>. HIDE DEF t, child, kids, E
<1>8. /\ t \in ShrinkRec(Input, E) /\ t.evaluations = s.evaluations + 1
      /\ o = CG!PASSED => /\ t.current = s.current /\ t.error = s.error /\ t.shrinks = s.shrinks
                          /\ t.childIdx = s.childIdx + 1
      /\ o # CG!PASSED => /\ t.current = child /\ t.error = o /\ t.shrinks = s.shrinks + 1
                          /\ t.childIdx = 0
  BY <1>1, <1>5, <1>6, TryChildIs DEF t
<1>9. CASE o = CG!PASSED
  <2>1. \A j \in 1..t.childIdx : InputShrinks[t.current][j] \notin x
    <3>. TAKE j \in 1..t.childIdx
    <3>1. j \in 1..s.childIdx \/ j = s.childIdx + 1
      BY <1>2, <1>8, <1>9
    <3>2. InputShrinks[t.current] = kids
      BY <1>8, <1>9 DEF kids
    <3>. QED
      BY <1>1, <1>7, <1>9, <3>1, <3>2 DEF child
  <2>2. t.childIdx <= Len(InputShrinks[t.current])
    BY <1>2, <1>3, <1>4, <1>8, <1>9 DEF kids
  <2>3. t.shrinks <= c.maxShrinks /\ t.evaluations <= c.maxShrinkEvaluations
        /\ t.current \in x /\ t.error = "error"
    BY <1>1, <1>2, <1>3, <1>4, <1>8, <1>9
  <2>4. CrashInv(x, c, t)
    BY <1>8, <2>1, <2>2, <2>3 DEF CrashInv, E
  <2>. QED
    BY <1>6, <2>4 DEF child, kids
<1>10. CASE o # CG!PASSED
  <2>1. InputShrinks[child] \in Seq(Input)
    BY <1>5 DEF FuzzAssumption
  <2>2. t.childIdx <= Len(InputShrinks[t.current]) /\ 1..t.childIdx = {}
    BY <1>8, <1>10, <2>1
  <2>3. t.current \in x /\ t.error = "error"
    BY <1>7, <1>8, <1>10
  <2>4. t.shrinks <= c.maxShrinks /\ t.evaluations <= c.maxShrinkEvaluations
    BY <1>2, <1>3, <1>4, <1>8, <1>10
  <2>5. CrashInv(x, c, t)
    BY <1>8, <2>2, <2>3, <2>4 DEF CrashInv, E
  <2>. QED
    BY <1>6, <2>5 DEF child, kids
<1>. QED
  BY <1>9, <1>10

LEMMA CrashStops ==
  ASSUME FuzzAssumption, NEW x, NEW c \in FuzzLimits, NEW s,
         CrashInv(x, c, s), CG!ShrinkEnds(s, InputShrinks[s.current], c, FALSE)
  PROVE  CrashStopped(x, c, s)
<1>1. /\ s \in ShrinkRec(Input, {"error", CG!PASSED})
      /\ s.shrinks <= c.maxShrinks /\ s.evaluations <= c.maxShrinkEvaluations
      /\ s.childIdx <= Len(InputShrinks[s.current])
      /\ \A j \in 1..s.childIdx : InputShrinks[s.current][j] \notin x
  BY DEF CrashInv
<1>2. s.shrinks \in Nat /\ s.evaluations \in Nat /\ s.childIdx \in Nat
      /\ c.maxShrinks \in Nat /\ c.maxShrinkEvaluations \in Nat
  BY <1>1 DEF ShrinkRec, FuzzAssumption
<1>3. Len(InputShrinks[s.current]) \in Nat
  BY <1>1 DEF ShrinkRec, FuzzAssumption
<1>4. \/ s.shrinks = c.maxShrinks \/ s.evaluations = c.maxShrinkEvaluations
      \/ s.childIdx = Len(InputShrinks[s.current])
  BY <1>1, <1>2, <1>3 DEF CG!ShrinkEnds, CG!OutOfBudget
<1>. QED
  BY <1>1, <1>4 DEF CrashStopped

\* observe and addToCorpus: the corpus gets an input that did not crash.
LEMMA ObserveKeeps ==
  ASSUME FuzzAssumption, FuzzInv, NEW n \in Input, n \notin crashes, CG!Observe(n), inspector' = inspector
  PROVE  CorpusInv(crashes, covers, cfg, inspector, seen', corpus')
<1>. DEFINE m == cfg.maxCorpus
<1>1. corpus \in Seq(Input) /\ Len(corpus) <= m /\ m \in Nat
      /\ (corpus # << >> => inspector # "none")
      /\ \A i \in 1..Len(corpus) : corpus[i] \notin crashes /\ covers[corpus[i]] \subseteq seen
  BY DEF FuzzInv, CorpusInv, FuzzAssumption
<1>2. CASE seen' = seen /\ corpus' = corpus
  BY <1>2 DEF FuzzInv
<1>3. CASE /\ inspector = "on" /\ seen' = seen \cup covers[n]
           /\ corpus' \in IF m = 0 THEN {corpus} ELSE CG!AddToCorpus(n)
  <2>1. /\ corpus' \in Seq(Input) /\ Len(corpus') <= m
        /\ \A i \in 1..Len(corpus') : corpus'[i] = n \/ (i \in 1..Len(corpus) /\ corpus'[i] = corpus[i])
    <3>1. CASE corpus' = corpus
      BY <1>1, <3>1
    <3>2. CASE Len(corpus) < m /\ corpus' = Append(corpus, n)
      BY <1>1, <3>2
    <3>3. CASE ~(Len(corpus) < m) /\ \E i \in 1..m : corpus' = [corpus EXCEPT ![i] = n]
      <4>1. PICK k \in 1..m : corpus' = [corpus EXCEPT ![k] = n]
        BY <3>3
      <4>2. Len(corpus) = m
        BY <1>1, <3>3
      <4>3. corpus' \in Seq(Input) /\ Len(corpus') = m
        BY <1>1, <4>1, <4>2
      <4>. QED
        BY <1>1, <4>1, <4>2, <4>3
    <3>. QED
      BY <1>3, <3>1, <3>2, <3>3 DEF CG!AddToCorpus
  <2>2. \A i \in 1..Len(corpus') : corpus'[i] \notin crashes /\ covers[corpus'[i]] \subseteq seen'
    BY <1>1, <1>3, <2>1
  <2>. QED
    BY <1>3, <2>1, <2>2 DEF CorpusInv
<1>. QED
  BY <1>2, <1>3 DEF CG!Observe

LEMMA FuzzBegins ==
  ASSUME FuzzAssumption, CG!Init PROVE FuzzInv
<1>1. /\ cfg \in FuzzLimits /\ crashes \subseteq Input /\ corpus = << >>
      /\ fuzz = [phase |-> "seeds", numRuns |-> 0]
  BY DEF CG!Init
<1>2. cfg.maxCorpus \in Nat
  BY <1>1 DEF FuzzAssumption
<1>3. CorpusInv(crashes, covers, cfg, inspector, seen, corpus)
  BY <1>1, <1>2 DEF CorpusInv
<1>4. FuzzCall(crashes, cfg, inspector, fuzz)
  BY <1>1 DEF FuzzCall
<1>. QED
  BY <1>1, <1>3, <1>4 DEF FuzzInv

\* The inspector is stopped: the corpus it filled stays as it is.
LEMMA StopKeeps ==
  ASSUME FuzzInv, CG!Stop
  PROVE  /\ inspector' # "on"
         /\ CorpusInv(crashes, covers, cfg, inspector', seen, corpus)
BY DEF FuzzInv, CorpusInv, CG!Stop

LEMMA SeedRunKeeps ==
  ASSUME FuzzAssumption, FuzzInv, CG!SeedRun PROVE FuzzInv'
<1>. DEFINE n == Seed[fuzz.numRuns + 1]
<1>1. /\ fuzz.phase = "seeds" /\ fuzz.numRuns < Len(Seed)
      /\ crashes' = crashes /\ covers' = covers /\ cfg' = cfg
  BY DEF CG!SeedRun
<1>2. /\ cfg \in FuzzLimits /\ crashes \subseteq Input
      /\ fuzz = [phase |-> "seeds", numRuns |-> fuzz.numRuns] /\ fuzz.numRuns \in Nat
  BY <1>1 DEF FuzzInv, FuzzCall
<1>3. n \in Input /\ InputShrinks[n] = << >>
  <2>1. fuzz.numRuns + 1 \in 1..Len(Seed)
    BY <1>1, <1>2 DEF FuzzAssumption
  <2>. QED
    BY <2>1 DEF FuzzAssumption
<1>4. CASE n \in crashes
  <2>. DEFINE s == CG!ShrinkFrom(n, "error")
  <2>1. /\ fuzz' = [phase |-> "done", ok |-> FALSE, shrink |-> s]
        /\ CG!Stop /\ seen' = seen /\ corpus' = corpus
    BY <1>4 DEF CG!SeedRun, CG!Outcome
  <2>2. CrashInv(crashes, cfg, s)
    BY <1>2, <1>3, <1>4, CrashStarts
  <2>3. s.current = n
    BY DEF CG!ShrinkFrom
  <2>4. CrashStopped(crashes, cfg, s)
    BY <1>3, <2>3 DEF CrashStopped
  <2>. HIDE DEF s
  <2>5. inspector' # "on" /\ CorpusInv(crashes, covers, cfg, inspector', seen, corpus)
    BY <2>1, StopKeeps
  <2>6. FuzzCall(crashes, cfg, inspector', fuzz')
    BY <2>1, <2>2, <2>4, <2>5 DEF FuzzCall
  <2>. QED
    BY <1>1, <1>2, <2>1, <2>5, <2>6 DEF FuzzInv
<1>5. CASE n \notin crashes
  <2>1. /\ fuzz' = [fuzz EXCEPT !.numRuns = @ + 1]
        /\ CG!Observe(n) /\ inspector' = inspector
    BY <1>5 DEF CG!SeedRun
  <2>2. CorpusInv(crashes, covers, cfg, inspector, seen', corpus')
    BY <1>3, <1>5, <2>1, ObserveKeeps
  <2>3. fuzz' = [phase |-> "seeds", numRuns |-> fuzz.numRuns + 1]
    BY <1>2, <2>1
  <2>4. FuzzCall(crashes, cfg, inspector', fuzz')
    BY <1>2, <2>3 DEF FuzzCall
  <2>. QED
    BY <1>1, <1>2, <2>1, <2>2, <2>4 DEF FuzzInv
<1>. QED
  BY <1>4, <1>5

LEMMA InputRunKeeps ==
  ASSUME FuzzAssumption, FuzzInv, NEW n \in Input, CG!InputRun(n) PROVE FuzzInv'
<1>1. /\ fuzz.phase = "inputs" /\ crashes' = crashes /\ covers' = covers /\ cfg' = cfg
  BY DEF CG!InputRun
<1>2. /\ cfg \in FuzzLimits /\ crashes \subseteq Input
      /\ fuzz = [phase |-> "inputs", numRuns |-> fuzz.numRuns] /\ fuzz.numRuns \in Nat
  BY <1>1 DEF FuzzInv, FuzzCall
<1>4. CASE n \in crashes
  <2>. DEFINE s == CG!ShrinkFrom(n, "error")
  <2>1. /\ fuzz' = [phase |-> "shrinking", shrink |-> s]
        /\ CG!Stop /\ seen' = seen /\ corpus' = corpus
    BY <1>4 DEF CG!InputRun, CG!Outcome
  <2>2. CrashInv(crashes, cfg, s)
    BY <1>2, <1>4, CrashStarts
  <2>. HIDE DEF s
  <2>5. inspector' # "on" /\ CorpusInv(crashes, covers, cfg, inspector', seen, corpus)
    BY <2>1, StopKeeps
  <2>6. FuzzCall(crashes, cfg, inspector', fuzz')
    BY <2>1, <2>2, <2>5 DEF FuzzCall
  <2>. QED
    BY <1>1, <1>2, <2>1, <2>5, <2>6 DEF FuzzInv
<1>5. CASE n \notin crashes
  <2>1. /\ fuzz' = [fuzz EXCEPT !.numRuns = @ + 1]
        /\ CG!Observe(n) /\ inspector' = inspector
    BY <1>5 DEF CG!InputRun
  <2>2. CorpusInv(crashes, covers, cfg, inspector, seen', corpus')
    BY <1>5, <2>1, ObserveKeeps
  <2>3. fuzz' = [phase |-> "inputs", numRuns |-> fuzz.numRuns + 1]
    BY <1>2, <2>1
  <2>4. FuzzCall(crashes, cfg, inspector', fuzz')
    BY <1>2, <2>3 DEF FuzzCall
  <2>. QED
    BY <1>1, <1>2, <2>1, <2>2, <2>4 DEF FuzzInv
<1>. QED
  BY <1>4, <1>5

LEMMA CrashShrinkKeeps ==
  ASSUME FuzzAssumption, FuzzInv, CG!ShrinkOne PROVE FuzzInv'
<1>. DEFINE s == fuzz.shrink
            kids == InputShrinks[s.current]
            child == kids[s.childIdx + 1]
            o == IF child \in crashes THEN "error" ELSE CG!PASSED
            s1 == CG!TryChild(s, child, o)
            ends == CG!ShrinkEnds(s, kids, cfg, FALSE)
<1>1. /\ fuzz.phase = "shrinking"
      /\ fuzz' = IF ends THEN [phase |-> "done", ok |-> FALSE, shrink |-> s]
                 ELSE [fuzz EXCEPT !.shrink = s1]
      /\ crashes' = crashes /\ covers' = covers /\ cfg' = cfg /\ inspector' = inspector
      /\ seen' = seen /\ corpus' = corpus
  BY DEF CG!ShrinkOne, CG!Outcome
<1>2. /\ cfg \in FuzzLimits /\ crashes \subseteq Input /\ inspector # "on"
      /\ fuzz = [phase |-> "shrinking", shrink |-> s] /\ CrashInv(crashes, cfg, s)
      /\ CorpusInv(crashes, covers, cfg, inspector, seen, corpus)
  BY <1>1 DEF FuzzInv, FuzzCall
<1>3. CASE ends
  <2>1. CrashStopped(crashes, cfg, s)
    BY <1>2, <1>3, CrashStops
  <2>. HIDE DEF s, kids, child, o, s1, ends
  <2>2. fuzz' = [phase |-> "done", ok |-> FALSE, shrink |-> s]
    BY <1>1, <1>3
  <2>3. FuzzCall(crashes, cfg, inspector, fuzz')
    BY <1>2, <2>1, <2>2 DEF FuzzCall
  <2>. QED
    BY <1>1, <1>2, <2>3 DEF FuzzInv
<1>4. CASE ~ends
  <2>1. CrashInv(crashes, cfg, s1)
    BY <1>2, <1>4, CrashGoesOn
  <2>. HIDE DEF s, kids, child, o, s1, ends
  <2>2. fuzz' = [phase |-> "shrinking", shrink |-> s1]
    BY <1>1, <1>2, <1>4
  <2>3. FuzzCall(crashes, cfg, inspector, fuzz')
    BY <1>2, <2>1, <2>2 DEF FuzzCall
  <2>. QED
    BY <1>1, <1>2, <2>3 DEF FuzzInv
<1>. QED
  BY <1>3, <1>4

LEMMA FuzzStep ==
  ASSUME FuzzAssumption, FuzzInv, [CG!Next]_(CG!vars) PROVE FuzzInv'
<1>1. CASE CG!SeedRun
  BY <1>1, SeedRunKeeps
<1>2. CASE CG!SeedsDone
  <2>1. /\ fuzz.phase = "seeds" /\ fuzz' = [fuzz EXCEPT !.phase = "inputs"]
        /\ crashes' = crashes /\ covers' = covers /\ cfg' = cfg /\ inspector' = inspector
        /\ seen' = seen /\ corpus' = corpus
    BY <1>2 DEF CG!SeedsDone
  <2>2. fuzz = [phase |-> "seeds", numRuns |-> fuzz.numRuns] /\ fuzz.numRuns \in Nat
    BY <2>1 DEF FuzzInv, FuzzCall
  <2>3. fuzz' = [phase |-> "inputs", numRuns |-> fuzz.numRuns]
    BY <2>1, <2>2
  <2>4. FuzzCall(crashes, cfg, inspector, fuzz')
    BY <2>2, <2>3 DEF FuzzCall
  <2>. QED
    BY <2>1, <2>4 DEF FuzzInv
<1>3. CASE CG!TimeIsUp
  <2>1. /\ fuzz' = [phase |-> "done", ok |-> TRUE] /\ CG!Stop
        /\ crashes' = crashes /\ covers' = covers /\ cfg' = cfg /\ seen' = seen /\ corpus' = corpus
    BY <1>3 DEF CG!TimeIsUp
  <2>2. inspector' # "on" /\ CorpusInv(crashes, covers, cfg, inspector', seen, corpus)
    BY <2>1, StopKeeps
  <2>3. FuzzCall(crashes, cfg, inspector', fuzz')
    BY <2>1, <2>2 DEF FuzzCall
  <2>. QED
    BY <2>1, <2>2, <2>3 DEF FuzzInv
<1>4. CASE CG!ShrinkOne
  BY <1>4, CrashShrinkKeeps
<1>5. CASE \E n \in Input : CG!InputRun(n)
  BY <1>5, InputRunKeeps
<1>6. CASE UNCHANGED CG!vars
  BY <1>6 DEF CG!vars, FuzzInv
<1>. QED
  BY <1>1, <1>2, <1>3, <1>4, <1>5, <1>6 DEF CG!Next

LEMMA CrashReproduces == ASSUME FuzzInv PROVE CG!Reproduces
<1>1. CorpusInv(crashes, covers, cfg, inspector, seen, corpus)
      /\ FuzzCall(crashes, cfg, inspector, fuzz)
  BY DEF FuzzInv
<1>2. /\ Len(corpus) <= cfg.maxCorpus
      /\ \A i \in 1..Len(corpus) : corpus[i] \notin crashes /\ covers[corpus[i]] \subseteq seen
      /\ corpus # << >> => inspector # "none"
  BY <1>1 DEF CorpusInv
<1>3. fuzz.phase \in {"shrinking", "done"} => inspector # "on"
  BY <1>1 DEF FuzzCall
<1>4. ASSUME fuzz.phase = "done", ~fuzz.ok
      PROVE  CG!ShrunkSoundly(fuzz.shrink, InputShrinks[fuzz.shrink.current], CG!Outcome, cfg, FALSE)
  <2>1. CrashInv(crashes, cfg, fuzz.shrink) /\ CrashStopped(crashes, cfg, fuzz.shrink)
    BY <1>1, <1>4 DEF FuzzCall
  <2>2. "error" # CG!PASSED /\ \A n : CG!Outcome(n) = IF n \in crashes THEN "error" ELSE CG!PASSED
    BY DEF CG!Outcome, CG!PASSED
  <2>. QED
    BY <2>1, <2>2 DEF CrashInv, CrashStopped, CG!ShrunkSoundly
<1>. QED
  BY <1>2, <1>3, <1>4 DEF CG!Reproduces

\* Whatever the target, what it covers and the limits: a crash that fuzz or
\* fuzzAsync reports (CoverageGuided.ts) is of an input that crashes, and a
\* local minimum unless a limit stopped the search; the corpus keeps its cap
\* and holds no input that crashes, and no target runs in a shrink, and no call
\* ends, with the inspector connected.
THEOREM FuzzReproduces ==
  ASSUME FuzzAssumption
  PROVE  CG!Init /\ [][CG!Next]_(CG!vars) => []CG!Reproduces
<1>1. CG!Init => FuzzInv
  BY FuzzBegins
<1>2. FuzzInv /\ [CG!Next]_(CG!vars) => FuzzInv'
  BY FuzzStep
<1>3. FuzzInv => CG!Reproduces
  BY CrashReproduces
<1>. QED
  BY <1>1, <1>2, <1>3, PTL

-----------------------------------------------------------------------------
(* StatefulTest: generated sequences, their replays, and every real torn down. *)

\* What holds at 0, and at i whenever it holds at i - 1, holds up to n.
LEMMA Stepwise ==
  ASSUME NEW n \in Nat, NEW S, 0 \in S, \A i \in 1..n : i - 1 \in S => i \in S
  PROVE  \A i \in 0..n : i \in S
<1>. DEFINE Bad == {i \in 0..n : i \notin S}
<1>. SUFFICES ASSUME Bad # {} PROVE FALSE
  OBVIOUS
<1>1. PICK m \in Bad : \A k \in Bad : m <= k
  <2>1. Bad \in SUBSET Nat
    OBVIOUS
  <2>. HIDE DEF Bad
  <2>. QED
    BY <2>1, LeastExists
<1>2. m \in 1..n /\ m \notin S
  BY <1>1
<1>3. m - 1 \in 0..n /\ ~(m <= m - 1)
  BY <1>2
<1>4. m - 1 \notin Bad
  BY <1>1, <1>3
<1>. QED
  BY <1>2, <1>3, <1>4

\* FlattenSeq of the candidates of every position is a sequence of candidates.
LEMMA FlattenType ==
  ASSUME NEW X, NEW seqs \in Seq(Seq(X))
  PROVE  SF!FlattenSeq(seqs) \in Seq(X)
<1>. DEFINE n == Len(seqs)
            D == Seq(X)
            at(i) == seqs[i]
            Body(g, i) == IF i = 1 THEN at(i) ELSE g[i - 1] \o at(i)
            P(g) == g = [i \in 1..n |-> Body(g, i)]
            F == CHOOSE g : P(g)
            step == [i \in 1..n |-> [d \in D |-> d \o at(i)]]
<1>1. /\ n \in Nat /\ << >> \in D
      /\ \A i \in 1..n : at(i) \in D /\ << >> \o at(i) = at(i)
      /\ \A i \in 1..n : \A d \in D : d \o at(i) \in D
  OBVIOUS
<1>2. CASE n = 0
  <2>1. seqs = << >>
    BY <1>2
  <2>. QED
    BY <1>2, <2>1 DEF SF!FlattenSeq
<1>3. CASE n # 0
  <2>0. SF!FlattenSeq(seqs) = F[n]
    BY <1>3 DEF SF!FlattenSeq
  <2>. HIDE DEF n, D, at
  <2>1. \A i \in 1..n : \A d \in D : step[i][d] = d \o at(i)
    BY <1>1
  <2>2. step \in [1..n -> [D -> D]]
    BY <1>1
  <2>. HIDE DEF step
  <2>3. PICK f \in [0..n -> D] : f[0] = << >> /\ \A i \in 1..n : f[i] = step[i][f[i - 1]]
    <3>. DEFINE z == << >>
    <3>1. n \in Nat /\ z \in D
      BY <1>1
    <3>. HIDE DEF z
    <3>2. \E f : Recursion(D, n, z, step, f)
      BY <2>2, <3>1, RecursionExists
    <3>3. PICK f : Recursion(D, n, z, step, f)
      BY <3>2
    <3>. QED
      BY <3>3 DEF z, Recursion
  <2>. DEFINE g == [i \in 1..n |-> f[i]]
  <2>4. ASSUME NEW i \in 1..n PROVE f[i] = Body(g, i)
    <3>1. i - 1 \in 0..n /\ f[i - 1] \in D
      BY <1>1
    <3>2. f[i] = f[i - 1] \o at(i)
      BY <2>1, <2>3, <3>1
    <3>3. CASE i = 1
      <4>1. f[i - 1] = << >>
        BY <2>3, <3>3
      <4>. QED
        BY <1>1, <3>2, <3>3, <4>1
    <3>4. CASE i # 1
      <4>1. i - 1 \in 1..n
        BY <1>1, <3>4
      <4>. QED
        BY <3>2, <3>4, <4>1
    <3>. QED
      BY <3>3, <3>4
  <2>5. P(g)
    <3>. HIDE DEF Body
    <3>1. \A i \in 1..n : f[i] = Body(g, i)
      BY <2>4
    <3>. QED
      BY <3>1
  <2>6. P(F)
    <3>. HIDE DEF P, g
    <3>. QED
      BY <2>5
  <2>. HIDE DEF F
  <2>7. \A i \in 1..n : F[i] = Body(F, i)
    <3>. HIDE DEF Body
    <3>. QED
      BY <2>6
  <2>. DEFINE Typed(k) == k # 0 => F[k] \in D
              S == {k \in 0..n : Typed(k)}
  <2>8. \A i \in 0..n : i \in S
    <3>1. 0 \in S
      BY <1>1
    <3>2. ASSUME NEW i \in 1..n, i - 1 \in S PROVE i \in S
      <4>1. i \in 0..n /\ (i - 1 # 0 => F[i - 1] \in D)
        BY <1>1, <3>2
      <4>2. F[i] \in D
        <5>1. CASE i = 1
          BY <1>1, <2>7, <5>1
        <5>2. CASE i # 1
          <6>1. F[i] = F[i - 1] \o at(i)
            BY <2>7, <5>2
          <6>2. i - 1 # 0
            <7>1. n \in Nat
              BY <1>1
            <7>. QED
              BY <5>2, <7>1
          <6>. QED
            BY <1>1, <4>1, <6>1, <6>2
        <5>. QED
          BY <5>1, <5>2
      <4>. QED
        BY <4>1, <4>2
    <3>. HIDE DEF S
    <3>. QED
      BY <1>1, <3>1, <3>2, Stepwise
  <2>9. F[n] \in D
    <3>1. n \in 0..n
      BY <1>1
    <3>2. Typed(n)
      <4>. HIDE DEF Typed
      <4>. QED
        BY <2>8, <3>1
    <3>. QED
      BY <1>3, <3>2
  <2>. QED
    BY <2>0, <2>9 DEF D
<1>. QED
  BY <1>2, <1>3

\* Every shrink candidate is a sequence of commands.
LEMMA CandidatesType ==
  ASSUME StatefulAssumption, NEW trees \in Seq(Command)
  PROVE  SF!ShrinkCommandSequence(trees) \in Seq(Seq(Command))
<1>. DEFINE len == Len(trees)
            halved == IF len > 1 THEN <<SubSeq(trees, 1, (len + 1) \div 2)>> ELSE <<>>
            dropped == IF len > 1 THEN [i \in 1..len |-> SF!RemoveAt(trees, len + 1 - i)] ELSE <<>>
            smaller(i) == [j \in 1..Len(CommandShrinks[trees[i]]) |->
                              SF!ReplaceAt(trees, i, CommandShrinks[trees[i]][j])]
            all == [i \in 1..len |-> smaller(i)]
<1>1. len \in Nat /\ \A i \in 1..len : trees[i] \in Command
  OBVIOUS
<1>2. halved \in Seq(Seq(Command))
  <2>1. CASE len > 1
    <3>1. (len + 1) \div 2 \in 1..len
      BY <1>1, <2>1
    <3>2. SubSeq(trees, 1, (len + 1) \div 2) \in Seq(Command)
      BY <3>1
    <3>. QED
      BY <2>1, <3>2
  <2>. QED
    BY <2>1
<1>3. dropped \in Seq(Seq(Command))
  <2>1. CASE len > 1
    <3>1. ASSUME NEW k \in 1..len PROVE SF!RemoveAt(trees, k) \in Seq(Command)
      <4>1. SubSeq(trees, 1, k - 1) \in Seq(Command) /\ SubSeq(trees, k + 1, len) \in Seq(Command)
        BY <1>1
      <4>. QED
        BY <4>1 DEF SF!RemoveAt
    <3>2. \A i \in 1..len : len + 1 - i \in 1..len
      BY <1>1
    <3>3. dropped = [i \in 1..len |-> SF!RemoveAt(trees, len + 1 - i)]
      BY <2>1
    <3>4. \A i \in 1..len : SF!RemoveAt(trees, len + 1 - i) \in Seq(Command)
      BY <3>1, <3>2
    <3>. HIDE DEF dropped, len
    <3>5. dropped \in [1..len -> Seq(Command)]
      BY <3>3, <3>4
    <3>. QED
      BY <1>1, <3>5
  <2>. QED
    BY <2>1
<1>4. all \in Seq(Seq(Seq(Command)))
  <2>1. ASSUME NEW i \in 1..len PROVE smaller(i) \in Seq(Seq(Command))
    <3>. DEFINE m == Len(CommandShrinks[trees[i]])
    <3>1. m \in Nat /\ \A j \in 1..m : CommandShrinks[trees[i]][j] \in Command
      BY <1>1 DEF StatefulAssumption
    <3>2. \A j \in 1..m : SF!ReplaceAt(trees, i, CommandShrinks[trees[i]][j]) \in Seq(Command)
      <4>. TAKE j \in 1..m
      <4>. DEFINE x == CommandShrinks[trees[i]][j]
      <4>1. x \in Command
        BY <3>1
      <4>. HIDE DEF x
      <4>2. [trees EXCEPT ![i] = x] \in Seq(Command)
        BY <4>1
      <4>. QED
        BY <4>2 DEF SF!ReplaceAt, x
    <3>. HIDE DEF m
    <3>3. smaller(i) = [j \in 1..m |-> SF!ReplaceAt(trees, i, CommandShrinks[trees[i]][j])]
      BY DEF m
    <3>. HIDE DEF smaller
    <3>4. smaller(i) \in [1..m -> Seq(Command)]
      BY <3>2, <3>3
    <3>. QED
      BY <3>1, <3>4
  <2>. HIDE DEF smaller, len
  <2>2. all \in [1..len -> Seq(Seq(Command))]
    BY <2>1
  <2>. QED
    BY <1>1, <2>2
<1>. HIDE DEF halved, dropped, all
<1>5. SF!FlattenSeq(all) \in Seq(Seq(Command))
  BY <1>4, FlattenType
<1>6. halved \o dropped \in Seq(Seq(Command))
  BY <1>2, <1>3
<1>7. (halved \o dropped) \o SF!FlattenSeq(all) \in Seq(Seq(Command))
  BY <1>5, <1>6
<1>8. SF!ShrinkCommandSequence(trees) = (halved \o dropped) \o SF!FlattenSeq(all)
  BY DEF SF!ShrinkCommandSequence, halved, dropped, all
<1>. QED
  BY <1>7, <1>8

\* Where a replay of trees ends, for systems whose checks and runs are ch and ru.
At == [next : State, error : {"passed", "e1"}]
Started == [next |-> First, error |-> "passed"]
ReplayOne(ch, ru, at, c) ==
  IF at.error # "passed" \/ ch[<<at.next, c>>] # "yes" THEN at ELSE ru[<<at.next, c>>]
AtOf(ch, ru, trees) ==
  LET at[i \in 0..Len(trees)] ==
        IF i = 0 THEN Started ELSE ReplayOne(ch, ru, at[i - 1], trees[i])
  IN  at
End(ch, ru, trees) == AtOf(ch, ru, trees)[Len(trees)]

LEMMA SameReplay ==
  ASSUME NEW trees
  PROVE  SF!ReplaySequence(trees) = End(checks, runs, trees).error
BY DEF SF!ReplaySequence, SF!Replayed, SF!ReplayCommand, SF!PASSED, End, AtOf, ReplayOne, Started

LEMMA ReplayOneType ==
  ASSUME NEW ch, NEW ru \in [State \X Command -> At], NEW at \in At, NEW c \in Command
  PROVE  ReplayOne(ch, ru, at, c) \in At
<1>1. at.next \in State
  BY DEF At
<1>2. ru[<<at.next, c>>] \in At
  <2>. HIDE DEF At
  <2>. QED
    BY <1>1
<1>. QED
  BY <1>2 DEF ReplayOne

\* What the recursive definition of a replay says, command by command.
LEMMA ReplayIs ==
  ASSUME First \in State, NEW ch, NEW ru \in [State \X Command -> At], NEW trees \in Seq(Command)
  PROVE  /\ AtOf(ch, ru, trees)[0] = Started
         /\ \A i \in 1..Len(trees) :
               AtOf(ch, ru, trees)[i] = ReplayOne(ch, ru, AtOf(ch, ru, trees)[i - 1], trees[i])
         /\ \A i \in 0..Len(trees) : AtOf(ch, ru, trees)[i] \in At
<1>. DEFINE n == Len(trees)
            Body(g, i) == IF i = 0 THEN Started ELSE ReplayOne(ch, ru, g[i - 1], trees[i])
            P(g) == g = [i \in 0..n |-> Body(g, i)]
            F == CHOOSE g : P(g)
            step == [i \in 1..n |-> [d \in At |-> ReplayOne(ch, ru, d, trees[i])]]
<1>1. n \in Nat /\ Started \in At /\ \A i \in 1..n : trees[i] \in Command
  BY DEF Started, At
<1>2. AtOf(ch, ru, trees) = F
  BY DEF AtOf
<1>. HIDE DEF n
<1>3. \A i \in 1..n : \A d \in At : ReplayOne(ch, ru, d, trees[i]) \in At
  BY <1>1, ReplayOneType
<1>4. step \in [1..n -> [At -> At]] /\ \A i \in 1..n : \A d \in At : step[i][d] = ReplayOne(ch, ru, d, trees[i])
  BY <1>3
<1>. HIDE DEF step
<1>5. \E f : Recursion(At, n, Started, step, f)
  BY <1>1, <1>4, RecursionExists
<1>6. PICK f : Recursion(At, n, Started, step, f)
  BY <1>5
<1>7. f \in [0..n -> At] /\ f[0] = Started /\ \A i \in 1..n : f[i] = step[i][f[i - 1]]
  BY <1>6 DEF Recursion
<1>8. ASSUME NEW i \in 0..n PROVE f[i] = Body(f, i)
  <2>1. CASE i = 0
    BY <1>7, <2>1
  <2>2. CASE i # 0
    <3>1. i \in 1..n /\ i - 1 \in 0..n
      BY <1>1, <2>2
    <3>2. f[i - 1] \in At
      BY <1>7, <3>1
    <3>3. step[i][f[i - 1]] = ReplayOne(ch, ru, f[i - 1], trees[i])
      BY <1>4, <3>1, <3>2
    <3>. QED
      BY <1>7, <2>2, <3>1, <3>3
  <2>. QED
    BY <2>1, <2>2
<1>9. P(f)
  <2>1. \A i \in 0..n : f[i] = Body(f, i)
    BY <1>8
  <2>. HIDE DEF Body
  <2>. QED
    BY <1>7, <2>1
<1>10. P(F)
  <2>. HIDE DEF P
  <2>. QED
    BY <1>9
<1>. HIDE DEF F
<1>11. \A i \in 0..n : F[i] = Body(F, i)
  <2>. HIDE DEF Body
  <2>. QED
    BY <1>10
<1>12. F[0] = Started
  <2>1. 0 \in 0..n
    BY <1>1
  <2>. QED
    BY <1>11, <2>1
<1>13. ASSUME NEW i \in 1..n PROVE F[i] = ReplayOne(ch, ru, F[i - 1], trees[i])
  <2>1. i \in 0..n /\ i # 0
    BY <1>1
  <2>. QED
    BY <1>11, <2>1
<1>14. \A i \in 0..n : F[i] \in At
  <2>. DEFINE S == {i \in 0..n : F[i] \in At}
  <2>1. 0 \in S
    BY <1>1, <1>12
  <2>2. ASSUME NEW i \in 1..n, i - 1 \in S PROVE i \in S
    <3>1. i \in 0..n /\ F[i - 1] \in At
      BY <1>1, <2>2
    <3>2. F[i] \in At
      BY <1>3, <1>13, <3>1
    <3>. QED
      BY <3>1, <3>2
  <2>3. \A i \in 0..n : i \in S
    <3>. HIDE DEF S
    <3>. QED
      BY <1>1, <2>1, <2>2, Stepwise
  <2>. QED
    BY <2>3
<1>. QED
  BY <1>2, <1>12, <1>13, <1>14 DEF n

LEMMA EmptyReplay ==
  ASSUME NEW ch, NEW ru
  PROVE  End(ch, ru, << >>) = Started
<1>. DEFINE Body(g, i) == IF i = 0 THEN Started ELSE ReplayOne(ch, ru, g[i - 1], << >>[i])
            P(g) == g = [i \in 0..0 |-> Body(g, i)]
            F == CHOOSE g : P(g)
<1>1. End(ch, ru, << >>) = F[0]
  BY DEF End, AtOf
<1>2. P([i \in 0..0 |-> Started])
  <2>1. \A i \in 0..0 : Body([k \in 0..0 |-> Started], i) = Started
    OBVIOUS
  <2>. HIDE DEF Body
  <2>. QED
    BY <2>1
<1>3. P(F)
  <2>. HIDE DEF P
  <2>. QED
    BY <1>2
<1>. HIDE DEF F
<1>4. F[0] = Body(F, 0)
  <2>. HIDE DEF Body
  <2>. QED
    BY <1>3
<1>. QED
  BY <1>1, <1>4

LEMMA ReplayEnds ==
  ASSUME First \in State, NEW ch, NEW ru \in [State \X Command -> At], NEW trees \in Seq(Command)
  PROVE  End(ch, ru, trees) \in At
<1>1. Len(trees) \in 0..Len(trees)
  OBVIOUS
<1>. QED
  BY <1>1, ReplayIs DEF End

\* One more command goes on from where the replay of the others ended.
LEMMA LongerReplay ==
  ASSUME First \in State, NEW ch, NEW ru \in [State \X Command -> At],
         NEW trees \in Seq(Command), NEW c \in Command
  PROVE  End(ch, ru, Append(trees, c)) = ReplayOne(ch, ru, End(ch, ru, trees), c)
<1>. DEFINE u == Append(trees, c)
            n == Len(trees)
            F == AtOf(ch, ru, trees)
            G == AtOf(ch, ru, u)
            S == {i \in 0..n : G[i] = F[i]}
<1>1. /\ n \in Nat /\ u \in Seq(Command) /\ Len(u) = n + 1 /\ u[n + 1] = c
      /\ \A i \in 1..n : u[i] = trees[i]
  OBVIOUS
<1>. HIDE DEF u
<1>2. F[0] = Started /\ \A i \in 1..n : F[i] = ReplayOne(ch, ru, F[i - 1], trees[i])
  BY ReplayIs
<1>3. G[0] = Started /\ \A i \in 1..Len(u) : G[i] = ReplayOne(ch, ru, G[i - 1], u[i])
  BY <1>1, ReplayIs
<1>. HIDE DEF F, G, n
<1>4. 0 \in S
  BY <1>1, <1>2, <1>3
<1>5. ASSUME NEW i \in 1..n, i - 1 \in S PROVE i \in S
  <2>1. i \in 0..n /\ i \in 1..Len(u) /\ G[i - 1] = F[i - 1] /\ u[i] = trees[i]
    BY <1>1, <1>5
  <2>2. G[i] = F[i]
    BY <1>2, <1>3, <2>1
  <2>. QED
    BY <2>1, <2>2
<1>6. \A i \in 0..n : i \in S
  <2>. HIDE DEF S
  <2>. QED
    BY <1>1, <1>4, <1>5, Stepwise
<1>7. n \in 0..n /\ n + 1 \in 1..Len(u) /\ (n + 1) - 1 = n
  BY <1>1
<1>8. G[n] = F[n]
  BY <1>6, <1>7
<1>9. G[n + 1] = ReplayOne(ch, ru, G[n], c)
  BY <1>1, <1>3, <1>7
<1>. QED
  BY <1>1, <1>8, <1>9 DEF End, F, G, n, u

\* A sequence of commands at which the shrink loop stands: it fails with its
\* error on fresh state, and the candidates tried since it was found passed.
SequenceInv(ch, ru, c, s) ==
  /\ s \in ShrinkRec(Seq(Command), {"passed", "e1"})
  /\ End(ch, ru, s.current).error = s.error /\ s.error # "passed"
  /\ s.shrinks <= c.maxShrinks /\ s.evaluations <= c.maxShrinkEvaluations
  /\ s.childIdx <= Len(SF!ShrinkCommandSequence(s.current))
  /\ \A j \in 1..s.childIdx : End(ch, ru, SF!ShrinkCommandSequence(s.current)[j]).error = "passed"

SequenceStopped(ch, ru, c, l, s) ==
  \/ s.shrinks = c.maxShrinks \/ s.evaluations = c.maxShrinkEvaluations \/ l
  \/ \A j \in 1..Len(SF!ShrinkCommandSequence(s.current)) :
        End(ch, ru, SF!ShrinkCommandSequence(s.current)[j]).error = "passed"

\* The call: what was generated so far ends, replayed, where the live run is.
StatefulCall(ch, ru, c, l, t) ==
  \/ t.phase = "running" /\ t = [phase |-> "running", i |-> t.i]
  \/ /\ t.phase = "generating"
     /\ t = [phase |-> "generating", i |-> t.i, len |-> t.len, attempts |-> t.attempts,
             trees |-> t.trees, model |-> t.model, outcome |-> t.outcome]
     /\ t.trees \in Seq(Command)
     /\ End(ch, ru, t.trees) = [next |-> t.model, error |-> t.outcome]
  \/ /\ t.phase = "shrinking" /\ t = [phase |-> "shrinking", i |-> t.i, shrink |-> t.shrink]
     /\ SequenceInv(ch, ru, c, t.shrink)
  \/ /\ t.phase = "done"
     /\ ~t.ok => SequenceInv(ch, ru, c, t.shrink) /\ SequenceStopped(ch, ru, c, l, t.shrink)
  \/ t.phase = "threw"

\* At most one real is up, and only while a sequence is generated.
RealsInv(phase, r) ==
  /\ r = [made |-> r.made, torn |-> r.torn] /\ r.torn \in Nat
  /\ r.made = r.torn + (IF phase = "generating" THEN 1 ELSE 0)

StatefulInv ==
  /\ cfg \in TestLimits
  /\ checks \in [State \X Command -> {"yes", "no", "throws"}]
  /\ runs \in [State \X Command -> At]
  /\ RealsInv(call.phase, reals)
  /\ StatefulCall(checks, runs, cfg, late, call)

LEMMA SequenceStarts ==
  ASSUME StatefulAssumption, NEW ch, NEW ru, NEW c \in TestLimits, NEW trees \in Seq(Command),
         NEW e \in {"passed", "e1"}, End(ch, ru, trees).error = e, e # "passed"
  PROVE  SequenceInv(ch, ru, c, SF!ShrinkFrom(trees, e))
<1>. DEFINE s == SF!ShrinkFrom(trees, e)
<1>1. s = [current |-> trees, error |-> e, shrinks |-> 0, evaluations |-> 0, childIdx |-> 0,
           pathIndices |-> << >>]
  BY DEF SF!ShrinkFrom
<1>. HIDE DEF s
<1>2. s \in ShrinkRec(Seq(Command), {"passed", "e1"})
  BY <1>1 DEF ShrinkRec
<1>3. c.maxShrinks \in Nat /\ c.maxShrinkEvaluations \in Nat
      /\ SF!ShrinkCommandSequence(trees) \in Seq(Seq(Command))
  BY CandidatesType DEF StatefulAssumption
<1>4. s.current = trees /\ s.error = e /\ s.shrinks = 0 /\ s.evaluations = 0 /\ s.childIdx = 0
  BY <1>1
<1>5. Len(SF!ShrinkCommandSequence(trees)) \in Nat
  BY <1>3
<1>6. SequenceInv(ch, ru, c, s)
  BY <1>2, <1>3, <1>4, <1>5 DEF SequenceInv
<1>. QED
  BY <1>6 DEF s

LEMMA SameSequenceChild ==
  ASSUME NEW s, NEW child, NEW outcome
  PROVE  SF!TryChild(s, child, outcome) = SH!TryChild(s, child, outcome) /\ SH!PASSED = "passed"
BY DEF SF!TryChild, SH!TryChild, SF!Accept, SH!Accept, SF!PASSED, SH!PASSED

LEMMA SequenceGoesOn ==
  ASSUME StatefulAssumption, NEW ch, NEW ru \in [State \X Command -> At], NEW c \in TestLimits,
         NEW l, NEW s, SequenceInv(ch, ru, c, s),
         ~SF!ShrinkEnds(s, SF!ShrinkCommandSequence(s.current), c, l), NEW o,
         o = End(ch, ru, SF!ShrinkCommandSequence(s.current)[s.childIdx + 1]).error
  PROVE  SequenceInv(ch, ru, c, SF!TryChild(s, SF!ShrinkCommandSequence(s.current)[s.childIdx + 1], o))
<1>. DEFINE kids == SF!ShrinkCommandSequence(s.current)
            child == kids[s.childIdx + 1]
            T == Seq(Command)
            E == {"passed", "e1"}
            t == SH!TryChild(s, child, o)
<1>1. /\ s \in ShrinkRec(T, E) /\ End(ch, ru, s.current).error = s.error /\ s.error # "passed"
      /\ s.shrinks <= c.maxShrinks /\ s.evaluations <= c.maxShrinkEvaluations
      /\ s.childIdx <= Len(kids) /\ \A j \in 1..s.childIdx : End(ch, ru, kids[j]).error = "passed"
  BY DEF SequenceInv
<1>2. s.current \in T /\ s.shrinks \in Nat /\ s.evaluations \in Nat /\ s.childIdx \in Nat
  BY <1>1 DEF ShrinkRec
<1>3. c.maxShrinks \in Nat /\ c.maxShrinkEvaluations \in Nat /\ First \in State
  BY DEF StatefulAssumption
<1>. HIDE DEF T
<1>4. kids \in Seq(T)
  BY <1>2, CandidatesType DEF T
<1>5. s.shrinks < c.maxShrinks /\ s.childIdx < Len(kids) /\ s.evaluations < c.maxShrinkEvaluations
  <2>. HIDE DEF kids
  <2>1. Len(kids) \in Nat
    BY <1>4
  <2>2. ~SF!ShrinkEnds(s, kids, c, l)
    BY DEF kids
  <2>. QED
    BY <1>2, <1>3, <2>1, <2>2 DEF SF!ShrinkEnds, SF!OutOfBudget
<1>6. child \in T
  <2>. HIDE DEF kids
  <2>. QED
    BY <1>2, <1>4, <1>5
<1>7. o = End(ch, ru, child).error
  OBVIOUS
<1>. HIDE DEF kids, child
<1>8. o \in E
  <2>1. End(ch, ru, child) \in At
    BY <1>3, <1>6, ReplayEnds DEF T
  <2>. QED
    BY <1>7, <2>1 DEF At
<1>9. SF!TryChild(s, child, o) = t /\ SH!PASSED = "passed"
  BY SameSequenceChild
<1>. HIDE DEF t, E
<1>10. /\ t \in ShrinkRec(T, E) /\ t.evaluations = s.evaluations + 1
       /\ o = "passed" => /\ t.current = s.current /\ t.error = s.error /\ t.shrinks = s.shrinks
                          /\ t.childIdx = s.childIdx + 1
       /\ o # "passed" => /\ t.current = child /\ t.error = o /\ t.shrinks = s.shrinks + 1
                          /\ t.childIdx = 0
  BY <1>1, <1>6, <1>8, <1>9, TryChildIs DEF t
<1>11. CASE o = "passed"
  <2>1. \A j \in 1..t.childIdx : End(ch, ru, kids[j]).error = "passed"
    <3>. TAKE j \in 1..t.childIdx
    <3>1. j \in 1..s.childIdx \/ j = s.childIdx + 1
      BY <1>2, <1>10, <1>11
    <3>2. CASE j \in 1..s.childIdx
      BY <1>1, <3>2
    <3>3. CASE j = s.childIdx + 1
      BY <1>7, <1>11, <3>3 DEF child
    <3>. QED
      BY <3>1, <3>2, <3>3
  <2>2. t.childIdx <= Len(kids)
    <3>1. Len(kids) \in Nat
      BY <1>4
    <3>. QED
      BY <1>2, <1>5, <1>10, <1>11, <3>1
  <2>3. t.shrinks <= c.maxShrinks /\ t.evaluations <= c.maxShrinkEvaluations
        /\ End(ch, ru, t.current).error = t.error /\ t.error # "passed"
    BY <1>1, <1>2, <1>3, <1>5, <1>10, <1>11
  <2>4. SF!ShrinkCommandSequence(t.current) = kids
    BY <1>10, <1>11 DEF kids
  <2>5. SequenceInv(ch, ru, c, t)
    BY <1>10, <2>1, <2>2, <2>3, <2>4 DEF SequenceInv, E, T
  <2>. QED
    BY <1>9, <2>5 DEF child, kids
<1>12. CASE o # "passed"
  <2>1. SF!ShrinkCommandSequence(child) \in Seq(T)
    BY <1>6, CandidatesType DEF T
  <2>2. t.childIdx <= Len(SF!ShrinkCommandSequence(t.current)) /\ 1..t.childIdx = {}
    <3>1. Len(SF!ShrinkCommandSequence(child)) \in Nat
      BY <2>1
    <3>. QED
      BY <1>10, <1>12, <3>1
  <2>3. End(ch, ru, t.current).error = t.error /\ t.error # "passed"
    BY <1>7, <1>10, <1>12
  <2>4. t.shrinks <= c.maxShrinks /\ t.evaluations <= c.maxShrinkEvaluations
    BY <1>2, <1>3, <1>5, <1>10, <1>12
  <2>5. SequenceInv(ch, ru, c, t)
    BY <1>10, <2>2, <2>3, <2>4 DEF SequenceInv, E, T
  <2>. QED
    BY <1>9, <2>5 DEF child, kids
<1>. QED
  BY <1>11, <1>12

LEMMA SequenceStops ==
  ASSUME StatefulAssumption, NEW ch, NEW ru, NEW c \in TestLimits, NEW l, NEW s,
         SequenceInv(ch, ru, c, s), SF!ShrinkEnds(s, SF!ShrinkCommandSequence(s.current), c, l)
  PROVE  SequenceStopped(ch, ru, c, l, s)
<1>. DEFINE kids == SF!ShrinkCommandSequence(s.current)
<1>1. /\ s \in ShrinkRec(Seq(Command), {"passed", "e1"})
      /\ s.shrinks <= c.maxShrinks /\ s.evaluations <= c.maxShrinkEvaluations
      /\ s.childIdx <= Len(kids) /\ \A j \in 1..s.childIdx : End(ch, ru, kids[j]).error = "passed"
  BY DEF SequenceInv
<1>2. s.shrinks \in Nat /\ s.evaluations \in Nat /\ s.childIdx \in Nat /\ s.current \in Seq(Command)
      /\ c.maxShrinks \in Nat /\ c.maxShrinkEvaluations \in Nat
  BY <1>1 DEF ShrinkRec, StatefulAssumption
<1>3. kids \in Seq(Seq(Command))
  BY <1>2, CandidatesType
<1>. HIDE DEF kids
<1>4. Len(kids) \in Nat
  BY <1>3
<1>5. SF!ShrinkEnds(s, kids, c, l)
  BY DEF kids
<1>6. s.shrinks = c.maxShrinks \/ s.evaluations = c.maxShrinkEvaluations \/ l
      \/ s.childIdx = Len(kids)
  BY <1>1, <1>2, <1>4, <1>5 DEF SF!ShrinkEnds, SF!OutOfBudget
<1>. QED
  BY <1>1, <1>6 DEF SequenceStopped, kids

LEMMA StatefulBegins ==
  ASSUME StatefulAssumption, SF!Init PROVE StatefulInv
<1>1. /\ checks \in [State \X Command -> {"yes", "no", "throws"}] /\ cfg \in TestLimits
      /\ runs \in [State \X Command -> [next : State, error : {"passed"}]
                                       \cup [next : {First}, error : {"e1"}]]
      /\ call = [phase |-> "running", i |-> 0] /\ reals = [made |-> 0, torn |-> 0]
  BY DEF SF!Init, SF!PASSED
<1>2. runs \in [State \X Command -> At]
  <2>1. [next : State, error : {"passed"}] \cup [next : {First}, error : {"e1"}] \subseteq At
    BY DEF At, StatefulAssumption
  <2>. QED
    BY <1>1, <2>1
<1>3. RealsInv(call.phase, reals)
  BY <1>1 DEF RealsInv
<1>4. StatefulCall(checks, runs, cfg, late, call)
  BY <1>1 DEF StatefulCall
<1>. QED
  BY <1>1, <1>2, <1>3, <1>4 DEF StatefulInv

LEMMA StartRunKeeps ==
  ASSUME StatefulAssumption, StatefulInv, SF!StartRun PROVE StatefulInv'
<1>1. PICK n : call' = [phase |-> "generating", i |-> call.i, len |-> n, attempts |-> 0,
                        trees |-> << >>, model |-> First, outcome |-> "passed"]
  BY DEF SF!StartRun, SF!PASSED
<1>2. /\ call.phase = "running" /\ reals' = [reals EXCEPT !.made = @ + 1]
      /\ checks' = checks /\ runs' = runs /\ cfg' = cfg /\ late' = late
  BY DEF SF!StartRun
<1>3. RealsInv("generating", reals')
  <2>1. reals = [made |-> reals.made, torn |-> reals.torn] /\ reals.torn \in Nat
        /\ reals.made = reals.torn
    BY <1>2 DEF StatefulInv, RealsInv
  <2>2. reals' = [made |-> reals.made + 1, torn |-> reals.torn]
    BY <1>2, <2>1
  <2>. QED
    BY <2>1, <2>2 DEF RealsInv
<1>4. StatefulCall(checks, runs, cfg, late, call')
  <2>1. call'.trees = << >> /\ call'.trees \in Seq(Command)
    BY <1>1
  <2>2. End(checks, runs, call'.trees) = [next |-> call'.model, error |-> call'.outcome]
    BY <1>1, <2>1, EmptyReplay DEF Started
  <2>. QED
    BY <1>1, <2>1, <2>2 DEF StatefulCall
<1>. QED
  BY <1>1, <1>2, <1>3, <1>4 DEF StatefulInv

\* A command that runs is one that a replay runs too, from the same state.
LEMMA GenerateOneKeeps ==
  ASSUME StatefulAssumption, StatefulInv, NEW c \in Command, SF!GenerateOne(c) PROVE StatefulInv'
<1>1. /\ call.phase = "generating" /\ call.outcome = "passed"
      /\ checks[<<call.model, c>>] # "throws"
      /\ checks' = checks /\ runs' = runs /\ cfg' = cfg /\ late' = late /\ reals' = reals
      /\ call' = IF checks[<<call.model, c>>] = "no" THEN [call EXCEPT !.attempts = @ + 1]
                 ELSE [call EXCEPT !.attempts = @ + 1, !.trees = Append(@, c),
                                   !.outcome = runs[<<call.model, c>>].error,
                                   !.model = runs[<<call.model, c>>].next]
  BY DEF SF!GenerateOne, SF!Generating, SF!PASSED
<1>2. /\ call = [phase |-> "generating", i |-> call.i, len |-> call.len, attempts |-> call.attempts,
                 trees |-> call.trees, model |-> call.model, outcome |-> call.outcome]
      /\ call.trees \in Seq(Command)
      /\ End(checks, runs, call.trees) = [next |-> call.model, error |-> call.outcome]
      /\ RealsInv("generating", reals)
  BY <1>1 DEF StatefulInv, StatefulCall
<1>3. /\ cfg \in TestLimits /\ First \in State /\ runs \in [State \X Command -> At]
      /\ checks \in [State \X Command -> {"yes", "no", "throws"}]
  BY DEF StatefulInv, StatefulAssumption
<1>4. CASE checks[<<call.model, c>>] = "no"
  <2>1. call' = [phase |-> "generating", i |-> call.i, len |-> call.len, attempts |-> call.attempts + 1,
                 trees |-> call.trees, model |-> call.model, outcome |-> call.outcome]
    BY <1>1, <1>2, <1>4
  <2>2. StatefulCall(checks, runs, cfg, late, call')
    BY <1>2, <2>1 DEF StatefulCall
  <2>. QED
    BY <1>1, <1>2, <1>3, <2>1, <2>2 DEF StatefulInv
<1>5. CASE checks[<<call.model, c>>] # "no"
  <2>. DEFINE r == runs[<<call.model, c>>]
              u == Append(call.trees, c)
  <2>1. call' = [phase |-> "generating", i |-> call.i, len |-> call.len, attempts |-> call.attempts + 1,
                 trees |-> u, model |-> r.next, outcome |-> r.error]
    BY <1>1, <1>2, <1>5
  <2>2. End(checks, runs, call.trees) \in At
    BY <1>2, <1>3, ReplayEnds
  <2>3. call.model \in State
    <3>1. [next |-> call.model, error |-> call.outcome] \in At
      BY <1>2, <2>2
    <3>. QED
      BY <3>1 DEF At
  <2>4. checks[<<call.model, c>>] = "yes" /\ r \in At
    BY <1>1, <1>3, <1>5, <2>3
  <2>5. End(checks, runs, u) = ReplayOne(checks, runs, End(checks, runs, call.trees), c)
    BY <1>2, <1>3, LongerReplay
  <2>6. End(checks, runs, u) = r
    <3>1. End(checks, runs, call.trees).error = "passed" /\ End(checks, runs, call.trees).next = call.model
      BY <1>1, <1>2
    <3>. QED
      BY <2>4, <2>5, <3>1 DEF ReplayOne
  <2>7. r = [next |-> r.next, error |-> r.error]
    BY <2>4 DEF At
  <2>8. u \in Seq(Command)
    BY <1>2
  <2>. HIDE DEF r, u
  <2>9. StatefulCall(checks, runs, cfg, late, call')
    BY <2>1, <2>6, <2>7, <2>8 DEF StatefulCall
  <2>. QED
    BY <1>1, <1>2, <1>3, <2>1, <2>9 DEF StatefulInv
<1>. QED
  BY <1>4, <1>5

\* The finally of runGenerated tears the real down.
LEMMA TornDown ==
  ASSUME RealsInv("generating", reals), reals' = [reals EXCEPT !.torn = @ + 1],
         NEW phase, phase # "generating"
  PROVE  RealsInv(phase, reals')
<1>1. reals = [made |-> reals.made, torn |-> reals.torn] /\ reals.torn \in Nat
      /\ reals.made = reals.torn + 1
  BY DEF RealsInv
<1>2. reals' = [made |-> reals.made, torn |-> reals.torn + 1]
  BY <1>1
<1>. QED
  BY <1>1, <1>2 DEF RealsInv

LEMMA CheckThrowsKeeps ==
  ASSUME StatefulAssumption, StatefulInv, NEW c \in Command, SF!CheckThrows(c) PROVE StatefulInv'
<1>1. /\ call.phase = "generating" /\ call' = [phase |-> "threw"]
      /\ reals' = [reals EXCEPT !.torn = @ + 1]
      /\ checks' = checks /\ runs' = runs /\ cfg' = cfg /\ late' = late
  BY DEF SF!CheckThrows, SF!Generating
<1>2. RealsInv("generating", reals)
  BY <1>1 DEF StatefulInv
<1>3. RealsInv("threw", reals')
  BY <1>1, <1>2, TornDown
<1>4. StatefulCall(checks, runs, cfg, late, call')
  BY <1>1 DEF StatefulCall
<1>. QED
  BY <1>1, <1>3, <1>4 DEF StatefulInv

LEMMA TeardownKeeps ==
  ASSUME StatefulAssumption, StatefulInv, NEW throws \in BOOLEAN, SF!Teardown(throws)
  PROVE  StatefulInv'
<1>1. /\ call.phase = "generating" /\ reals' = [reals EXCEPT !.torn = @ + 1]
      /\ checks' = checks /\ runs' = runs /\ cfg' = cfg /\ late' = late
      /\ call' = IF throws THEN [phase |-> "threw"]
                 ELSE IF call.outcome = "passed" THEN [phase |-> "running", i |-> call.i + 1]
                 ELSE [phase |-> "shrinking", i |-> call.i,
                       shrink |-> SF!ShrinkFrom(call.trees, call.outcome)]
  BY DEF SF!Teardown, SF!PASSED
<1>2. /\ call.trees \in Seq(Command) /\ RealsInv("generating", reals)
      /\ End(checks, runs, call.trees) = [next |-> call.model, error |-> call.outcome]
  BY <1>1 DEF StatefulInv, StatefulCall
<1>3. call'.phase \in {"threw", "running", "shrinking"}
  BY <1>1
<1>4. RealsInv(call'.phase, reals')
  <2>. DEFINE p == call'.phase
  <2>1. p # "generating"
    BY <1>3
  <2>. HIDE DEF p
  <2>2. RealsInv(p, reals')
    BY <1>1, <1>2, <2>1, TornDown
  <2>. QED
    BY <2>2 DEF p
<1>5. CASE throws
  <2>1. StatefulCall(checks, runs, cfg, late, call')
    BY <1>1, <1>5 DEF StatefulCall
  <2>. QED
    BY <1>1, <1>4, <2>1 DEF StatefulInv
<1>6. CASE ~throws /\ call.outcome = "passed"
  <2>1. StatefulCall(checks, runs, cfg, late, call')
    BY <1>1, <1>6 DEF StatefulCall
  <2>. QED
    BY <1>1, <1>4, <2>1 DEF StatefulInv
<1>7. CASE ~throws /\ call.outcome # "passed"
  <2>1. cfg \in TestLimits /\ runs \in [State \X Command -> At] /\ First \in State
    BY DEF StatefulInv, StatefulAssumption
  <2>2. End(checks, runs, call.trees) \in At
    BY <1>2, <2>1, ReplayEnds
  <2>3. call.outcome \in {"passed", "e1"} /\ End(checks, runs, call.trees).error = call.outcome
    <3>1. [next |-> call.model, error |-> call.outcome] \in At
      BY <1>2, <2>2
    <3>. QED
      BY <1>2, <3>1 DEF At
  <2>4. SequenceInv(checks, runs, cfg, SF!ShrinkFrom(call.trees, call.outcome))
    BY <1>2, <1>7, <2>1, <2>3, SequenceStarts
  <2>. DEFINE s == SF!ShrinkFrom(call.trees, call.outcome)
  <2>5. call' = [phase |-> "shrinking", i |-> call.i, shrink |-> s]
    BY <1>1, <1>7
  <2>6. SequenceInv(checks, runs, cfg, s)
    BY <2>4
  <2>. HIDE DEF s
  <2>7. StatefulCall(checks, runs, cfg, late, call')
    BY <2>5, <2>6 DEF StatefulCall
  <2>. QED
    BY <1>1, <1>4, <2>7 DEF StatefulInv
<1>. QED
  BY <1>5, <1>6, <1>7

LEMMA SequenceShrinkKeeps ==
  ASSUME StatefulAssumption, StatefulInv, NEW throws \in BOOLEAN, SF!ShrinkOne(throws)
  PROVE  StatefulInv'
<1>. DEFINE s == call.shrink
            kids == SF!ShrinkCommandSequence(s.current)
            child == kids[s.childIdx + 1]
            o == SF!ReplaySequence(child)
            s1 == SF!TryChild(s, child, o)
<1>1. /\ call.phase = "shrinking" /\ ~SF!ShrinkEnds(s, kids, cfg, late)
      /\ call' = IF throws THEN [phase |-> "threw"] ELSE [call EXCEPT !.shrink = s1]
      /\ reals' = [made |-> reals.made + 1, torn |-> reals.torn + 1]
      /\ checks' = checks /\ runs' = runs /\ cfg' = cfg /\ late' = late
  BY DEF SF!ShrinkOne
<1>2. /\ cfg \in TestLimits /\ runs \in [State \X Command -> At]
      /\ call = [phase |-> "shrinking", i |-> call.i, shrink |-> s]
      /\ SequenceInv(checks, runs, cfg, s)
  BY <1>1 DEF StatefulInv, StatefulCall
<1>3. reals.torn \in Nat /\ reals.made = reals.torn
  BY <1>1 DEF StatefulInv, RealsInv
<1>4. CASE throws
  <2>1. call'.phase = "threw"
    BY <1>1, <1>4
  <2>2. RealsInv("threw", reals')
    <3>1. reals'.made = reals.made + 1 /\ reals'.torn = reals.torn + 1
          /\ reals' = [made |-> reals'.made, torn |-> reals'.torn]
      BY <1>1
    <3>. QED
      BY <1>3, <3>1 DEF RealsInv
  <2>3. StatefulCall(checks, runs, cfg, late, call')
    BY <2>1 DEF StatefulCall
  <2>. QED
    BY <1>1, <2>1, <2>2, <2>3 DEF StatefulInv
<1>5. CASE ~throws
  <2>1. o = End(checks, runs, child).error
    <3>. HIDE DEF child
    <3>. QED
      BY SameReplay
  <2>2. SequenceInv(checks, runs, cfg, s1)
    <3>1. ~SF!ShrinkEnds(s, SF!ShrinkCommandSequence(s.current), cfg, late)
      BY <1>1
    <3>. HIDE DEF o, s
    <3>. QED
      BY <1>2, <2>1, <3>1, SequenceGoesOn
  <2>. HIDE DEF s, kids, child, o, s1
  <2>3. call' = [phase |-> "shrinking", i |-> call.i, shrink |-> s1]
    BY <1>1, <1>2, <1>5
  <2>4. RealsInv("shrinking", reals')
    <3>1. reals'.made = reals.made + 1 /\ reals'.torn = reals.torn + 1
          /\ reals' = [made |-> reals'.made, torn |-> reals'.torn]
      BY <1>1
    <3>. QED
      BY <1>3, <3>1 DEF RealsInv
  <2>5. StatefulCall(checks, runs, cfg, late, call')
    BY <2>2, <2>3 DEF StatefulCall
  <2>. QED
    BY <1>1, <2>3, <2>4, <2>5 DEF StatefulInv
<1>. QED
  BY <1>4, <1>5

LEMMA SequenceDoneKeeps ==
  ASSUME StatefulAssumption, StatefulInv, SF!ShrinkDone PROVE StatefulInv'
<1>. DEFINE s == call.shrink
<1>1. /\ call.phase = "shrinking"
      /\ SF!ShrinkEnds(s, SF!ShrinkCommandSequence(s.current), cfg, late)
      /\ call' = [phase |-> "done", ok |-> FALSE, shrink |-> s] /\ reals' = reals
      /\ checks' = checks /\ runs' = runs /\ cfg' = cfg /\ late' = late
  BY DEF SF!ShrinkDone
<1>2. cfg \in TestLimits /\ SequenceInv(checks, runs, cfg, s)
  BY <1>1 DEF StatefulInv, StatefulCall
<1>3. RealsInv("done", reals)
  BY <1>1 DEF StatefulInv, RealsInv
<1>. HIDE DEF s
<1>4. SequenceStopped(checks, runs, cfg, late, s)
  BY <1>1, <1>2, SequenceStops
<1>5. StatefulCall(checks, runs, cfg, late, call')
  BY <1>1, <1>2, <1>4 DEF StatefulCall
<1>. QED
  BY <1>1, <1>3, <1>5 DEF StatefulInv

LEMMA StatefulStep ==
  ASSUME StatefulAssumption, StatefulInv, [SF!Next]_(SF!vars) PROVE StatefulInv'
<1>1. CASE SF!DeadlinePasses
  <2>1. /\ call.phase # "done" /\ call' = call /\ reals' = reals
        /\ checks' = checks /\ runs' = runs /\ cfg' = cfg
    BY <1>1 DEF SF!DeadlinePasses
  <2>2. StatefulCall(checks, runs, cfg, late', call)
    BY <2>1 DEF StatefulInv, StatefulCall
  <2>. QED
    BY <2>1, <2>2 DEF StatefulInv
<1>2. CASE SF!StartRun
  BY <1>2, StartRunKeeps
<1>3. CASE SF!Passes
  <2>1. /\ call.phase = "running" /\ call' = [phase |-> "done", ok |-> TRUE] /\ reals' = reals
        /\ checks' = checks /\ runs' = runs /\ cfg' = cfg /\ late' = late
    BY <1>3 DEF SF!Passes
  <2>2. RealsInv("done", reals)
    BY <2>1 DEF StatefulInv, RealsInv
  <2>3. StatefulCall(checks, runs, cfg, late, call')
    BY <2>1 DEF StatefulCall
  <2>. QED
    BY <2>1, <2>2, <2>3 DEF StatefulInv
<1>4. CASE SF!ShrinkDone
  BY <1>4, SequenceDoneKeeps
<1>5. CASE \E c \in Command : SF!GenerateOne(c) \/ SF!CheckThrows(c)
  BY <1>5, GenerateOneKeeps, CheckThrowsKeeps
<1>6. CASE \E throws \in BOOLEAN : SF!Teardown(throws) \/ SF!ShrinkOne(throws)
  BY <1>6, TeardownKeeps, SequenceShrinkKeeps
<1>7. CASE UNCHANGED SF!vars
  BY <1>7 DEF SF!vars, StatefulInv
<1>. QED
  BY <1>1, <1>2, <1>3, <1>4, <1>5, <1>6, <1>7 DEF SF!Next

LEMMA SequenceReproduces == ASSUME StatefulInv PROVE SF!Reproduces
<1>1. reals.made = reals.torn + (IF call.phase = "generating" THEN 1 ELSE 0)
  BY DEF StatefulInv, RealsInv
<1>2. ASSUME call.phase = "done", ~call.ok
      PROVE  /\ call.shrink.current # << >>
             /\ SF!ShrunkSoundly(call.shrink, SF!ShrinkCommandSequence(call.shrink.current),
                                 SF!ReplaySequence, cfg, late)
  <2>. DEFINE s == call.shrink
              kids == SF!ShrinkCommandSequence(s.current)
  <2>1. SequenceInv(checks, runs, cfg, s) /\ SequenceStopped(checks, runs, cfg, late, s)
    BY <1>2 DEF StatefulInv, StatefulCall
  <2>2. \A x : SF!ReplaySequence(x) = End(checks, runs, x).error
    BY SameReplay
  <2>. HIDE DEF s
  <2>3. s.current # << >>
    <3>1. End(checks, runs, << >>).error = "passed"
      BY EmptyReplay DEF Started
    <3>2. End(checks, runs, s.current).error # "passed"
      BY <2>1 DEF SequenceInv
    <3>. QED
      BY <3>1, <3>2
  <2>4. SF!ReplaySequence(s.current) = s.error /\ s.error # SF!PASSED
    BY <2>1, <2>2 DEF SequenceInv, SF!PASSED
  <2>5. s.shrinks <= cfg.maxShrinks /\ s.evaluations <= cfg.maxShrinkEvaluations
    BY <2>1 DEF SequenceInv
  <2>6. \/ s.shrinks = cfg.maxShrinks \/ s.evaluations = cfg.maxShrinkEvaluations \/ late
        \/ \A j \in 1..Len(kids) : SF!ReplaySequence(kids[j]) = SF!PASSED
    BY <2>1, <2>2 DEF SequenceStopped, SF!PASSED
  <2>. HIDE DEF kids
  <2>7. SF!ShrunkSoundly(s, kids, SF!ReplaySequence, cfg, late)
    BY <2>4, <2>5, <2>6 DEF SF!ShrunkSoundly
  <2>. QED
    BY <2>3, <2>7 DEF s, kids
<1>. QED
  BY <1>1, <1>2 DEF SF!Reproduces

\* Whatever the commands, the system under test and the limits: every real that
\* checkStateful or checkStatefulAsync makes (StatefulTest.ts) is torn down once
\* its sequence is over, on every path; a sequence they report is not empty,
\* fails with its error when it is replayed on fresh state, and is a local
\* minimum unless a limit stopped the search.
THEOREM StatefulReproduces ==
  ASSUME StatefulAssumption
  PROVE  SF!Init /\ [][SF!Next]_(SF!vars) => []SF!Reproduces
<1>1. SF!Init => StatefulInv
  BY StatefulBegins
<1>2. StatefulInv /\ [SF!Next]_(SF!vars) => StatefulInv'
  BY StatefulStep
<1>3. StatefulInv => SF!Reproduces
  BY SequenceReproduces
<1>. QED
  BY <1>1, <1>2, <1>3, PTL

-----------------------------------------------------------------------------
(* Helpers: the modules side by side. *)

\* A step of Helpers is a step of the module that is active, and leaves the
\* variables of every other one alone.
LEMMA OneIsActive ==
  ASSUME [Next]_vars
  PROVE  /\ active' = active
         /\ [MP!Next]_MP!mpVars /\ [WC!Next]_WC!wVars /\ [U7!Next]_U7!uVars /\ [C!Next]_C!cVars
         /\ active = "pool" => [PP!Next]_PP!pVars
         /\ active = "property" => [PT!Next]_(PT!vars)
         /\ active = "stateful" => [SF!Next]_(SF!vars)
         /\ active = "fuzz" => [CG!Next]_(CG!vars)
<1>. USE DEF helperVars, memoryVars, weakVars, uuidVars, callVars, poolVars, runnerVars,
         propertyVars, statefulVars, fuzzVars, MP!mpVars, WC!wVars, U7!uVars, C!cVars,
         PP!pVars, PT!vars, SF!vars, CG!vars
<1>1. CASE InPool(PP!Next)
  BY <1>1 DEF InPool
<1>2. CASE /\ active = "memory" /\ MP!Next
           /\ UNCHANGED <<active, weakVars, uuidVars, callVars, poolVars, runnerVars>>
  BY <1>2
<1>3. CASE /\ active = "weak" /\ WC!Next
           /\ UNCHANGED <<active, memoryVars, uuidVars, callVars, poolVars, runnerVars>>
  BY <1>3
<1>4. CASE /\ active = "uuid" /\ U7!Next
           /\ UNCHANGED <<active, memoryVars, weakVars, callVars, poolVars, runnerVars>>
  BY <1>4
<1>5. CASE /\ active = "calls" /\ C!Next
           /\ UNCHANGED <<active, memoryVars, weakVars, uuidVars, poolVars, runnerVars>>
  BY <1>5
<1>6. CASE /\ active = "property" /\ PT!Next
           /\ UNCHANGED <<helperVars, poolVars, statefulVars, fuzzVars>>
  BY <1>6
<1>7. CASE /\ active = "stateful" /\ SF!Next
           /\ UNCHANGED <<helperVars, poolVars, propertyVars, fuzzVars>>
  BY <1>7
<1>8. CASE /\ active = "fuzz" /\ CG!Next
           /\ UNCHANGED <<helperVars, poolVars, late, propertyVars, statefulVars>>
  BY <1>8
<1>9. CASE UNCHANGED vars
  BY <1>9 DEF vars
<1>. QED
  BY <1>1, <1>2, <1>3, <1>4, <1>5, <1>6, <1>7, <1>8, <1>9 DEF Next

\* The assumptions on the constants, one by one.
LEMMA Assumed ==
  /\ SizesAssumption /\ LimitsAssumption /\ UndefAssumption /\ UuidAssumption
  /\ StatefulAssumption /\ FuzzAssumption
BY HelpersAssumption

\* PoolSound: for any number of items and any limit, the counters of
\* PromiseUtils.ts pool agree with the calls under way, at most limit are, no
\* call starts after the abort, and the result comes when every item has one.
THEOREM PoolIsSound == Spec => []PoolSound
<1>. DEFINE Sound == active = "pool" => PoolInv
<1>1. Init => Sound
  BY Assumed, PoolBegins DEF Init
<1>2. Sound /\ [Next]_vars => Sound'
  BY Assumed, OneIsActive, PoolStep
<1>3. Sound => PoolSound
  BY Assumed, CountersAgree DEF PoolSound
<1>. QED
  BY <1>1, <1>2, <1>3, PTL DEF Spec

\* SlotsBalanced: whatever factory, reset and callbacks throw, a slot of
\* MemoryPool.ts is given back exactly once.
THEOREM SlotsAreBalanced == Spec => []SlotsBalanced
<1>1. Init => MP!Init
  BY DEF Init
<1>2. [Next]_vars => [MP!Next]_MP!mpVars
  BY OneIsActive
<1>3. MP!Spec => []MP!SlotsBalanced
  BY Assumed, MemoryPoolBalanced
<1>. QED
  BY <1>1, <1>2, <1>3, PTL DEF Spec, MP!Spec, SlotsBalanced

\* KeepsLive: a late finalizer of WeakCache.ts never drops a live entry, and no
\* dead entry is left without a finalizer.
THEOREM LiveIsKept == Spec => KeepsLive
<1>1. Init => WC!Init
  BY DEF Init
<1>2. [Next]_vars => [WC!Next]_WC!wVars
  BY OneIsActive
<1>3. WC!Spec => WC!KeepsLive
  BY Assumed, WeakCacheKeepsLive
<1>. QED
  BY <1>1, <1>2, <1>3, PTL DEF Spec, WC!Spec, KeepsLive

\* Ascending: identifiers of UUID.v7.ts ascend strictly, whatever the clock does.
THEOREM IdentifiersAscend == Spec => Ascending
<1>1. Init => U7!Init
  BY DEF Init
<1>2. [Next]_vars => [U7!Next]_U7!uVars
  BY OneIsActive
<1>3. U7!Spec => U7!Ascending
  BY Assumed, UuidsAscend
<1>. QED
  BY <1>1, <1>2, <1>3, PTL DEF Spec, U7!Spec, Ascending

\* CallsLimited: once and throttle (Memoization.ts, TimedFunction.ts) keep their
\* limit however the functions they wrap call them again or throw.
THEOREM CallsStayLimited == Spec => []CallsLimited
<1>1. Init => C!Init
  BY DEF Init
<1>2. [Next]_vars => [C!Next]_C!cVars
  BY OneIsActive
<1>. QED
  BY <1>1, <1>2, CallsAreLimited, PTL DEF Spec, C!Spec, CallsLimited

\* FailuresReproduce: a counterexample that a test runner reports (Property.ts,
\* StatefulTest.ts, CoverageGuided.ts) fails again with the error reported for
\* it, and is minimal unless a limit stopped the search; what a run made is torn
\* down on every path.
THEOREM FailuresDoReproduce ==
  ASSUME PropertyAssumption
  PROVE  Spec => []FailuresReproduce
<1>. DEFINE Runners == /\ active = "property" => PropertyInv
                       /\ active = "stateful" => StatefulInv
                       /\ active = "fuzz" => FuzzInv
<1>1. Init => Runners
  BY Assumed, CheckBegins, StatefulBegins, FuzzBegins DEF Init
<1>2. Runners /\ [Next]_vars => Runners'
  BY Assumed, OneIsActive, CheckStep, StatefulStep, FuzzStep
<1>3. Runners => FailuresReproduce
  BY Assumed, CheckReproduces, SequenceReproduces, CrashReproduces DEF FailuresReproduce
<1>. QED
  BY <1>1, <1>2, <1>3, PTL DEF Spec
=============================================================================
