--------------------------- MODULE PriorityQueue ---------------------------
(***************************************************************************)
(* src/src/PriorityQueue.ts: a binary min-heap in an array numbered from 0 *)
(* with a comparator that may throw.  `heap' is the record the functions   *)
(* work on: the backing array, which may be longer than the heap, and the  *)
(* size.  `hOut' is what the last call returned.  `fuel' is the number of  *)
(* comparisons after which the comparator of a call throws.                *)
(***************************************************************************)
EXTENDS Integers, Sequences, SequencesExt, FiniteSets

CONSTANTS Elem,         \* the elements
          Rank(_),      \* what the comparator compares
          Undef, Threw,
          ShrinkAbove,  \* the length beyond which memory is given back (10000)
          ShrinkEvery,  \* the sizes at which that is looked at (1024)
          MaxCalls,     \* bound: comparisons a call makes before it may throw
          Offered,      \* bound: the elements that are pushed
          Inputs,       \* bound: the sequences given to heapify
          MaxReplaced   \* bound: the size of a heap that heapify replaces

VARIABLES heap, hOut

hVars == <<heap, hOut>>

Parent(i) == (i - 1) \div 2
LeftOf(i) == 2 * i + 1

\* Writing past the end of a JavaScript array extends it.
Store(items, i, v) ==
    [j \in DOMAIN items \cup {i} |-> IF j = i THEN v ELSE items[j]]

(***************************************************************************)
(* siftUp: a turn of the loop moves an ancestor down while it comes after  *)
(* `value'.  A loop is the function of its state after every turn, at most *)
(* as many as there are nodes; a turn that moves nothing was the last.     *)
(***************************************************************************)
Climb(s, value) ==
    IF s.at > 0 /\ s.fuel > 0 /\ Rank(value) < Rank(s.items[Parent(s.at)])
    THEN [items |-> [s.items EXCEPT ![s.at] = s.items[Parent(s.at)]],
          at |-> Parent(s.at), fuel |-> s.fuel - 1]
    ELSE s

SiftUpLoop(items, value, start, fuel) ==
    LET after[k \in 0..start] == IF k = 0 THEN [items |-> items, at |-> start, fuel |-> fuel]
                                 ELSE Climb(after[k - 1], value)
    IN  after[start]

\* The catch block of siftUp: shifts the displaced ancestors back down.
Unclimb(s, end) ==
    IF s.at = end THEN s
    ELSE [items |-> [s.items EXCEPT ![s.at] = s.carry], at |-> Parent(s.at),
          carry |-> s.items[s.at]]

ShiftBack(items, start, end, value) ==
    LET after[k \in 0..start] == IF k = 0 THEN [items |-> items, at |-> start, carry |-> value]
                                 ELSE Unclimb(after[k - 1], end)
    IN  after[start].items

SiftUp(pq, start, fuel) ==
    LET value == pq.items[start]
        s == SiftUpLoop(pq.items, value, start, fuel)
    IN  IF s.at > 0 /\ s.fuel = 0
        THEN [items |-> [ShiftBack(s.items, start, s.at, value) EXCEPT ![start] = Undef],
              size |-> start, threw |-> TRUE]
        ELSE [items |-> [s.items EXCEPT ![s.at] = value], size |-> pq.size, threw |-> FALSE]

(***************************************************************************)
(* siftDown: a turn moves the smaller child up while it comes before       *)
(* `value'; choosing between two children costs a comparison of its own.   *)
(***************************************************************************)
Child(items, n, i) ==
    IF LeftOf(i) + 1 < n /\ Rank(items[LeftOf(i) + 1]) < Rank(items[LeftOf(i)])
    THEN LeftOf(i) + 1 ELSE LeftOf(i)

Calls(n, i) == IF LeftOf(i) >= n THEN 0 ELSE IF LeftOf(i) + 1 < n THEN 2 ELSE 1

Sink(s, n, value) ==
    LET child == Child(s.items, n, s.at)
    IN  IF /\ LeftOf(s.at) < n /\ Calls(n, s.at) <= s.fuel
           /\ Rank(s.items[child]) < Rank(value)
        THEN [items |-> [s.items EXCEPT ![s.at] = s.items[child]],
              at |-> child, fuel |-> s.fuel - Calls(n, s.at)]
        ELSE s

SiftDownLoop(items, n, value, start, fuel) ==
    LET after[k \in 0..n] == IF k = 0 THEN [items |-> items, at |-> start, fuel |-> fuel]
                             ELSE Sink(after[k - 1], n, value)
    IN  after[n]

\* The catch block of siftDown: shifts the promoted children back down.
Unsink(s, start) ==
    IF s.at = start THEN s
    ELSE [items |-> [s.items EXCEPT ![s.at] = s.items[Parent(s.at)]], at |-> Parent(s.at)]

ShiftDown(items, end, start) ==
    LET after[k \in 0..end] == IF k = 0 THEN [items |-> items, at |-> end]
                               ELSE Unsink(after[k - 1], start)
    IN  after[end].items

SiftDown(pq, start, fuel) ==
    LET value == pq.items[start]
        s == SiftDownLoop(pq.items, pq.size, value, start, fuel)
        calls == Calls(pq.size, s.at)
    IN  IF s.fuel < calls
        THEN [items |-> [ShiftDown(s.items, s.at, start) EXCEPT ![start] = value],
              size |-> pq.size, threw |-> TRUE, fuel |-> 0]
        ELSE [items |-> [s.items EXCEPT ![s.at] = value],
              size |-> pq.size, threw |-> FALSE, fuel |-> s.fuel - calls]

SiftNext(r, i) == IF r.threw THEN r ELSE SiftDown(r, i, r.fuel)

\* The bottom-up loop of heapify, on a scratch heap: the last inner node first.
SiftAll(pq, fuel) ==
    LET inner == pq.size \div 2
        after[k \in 0..inner] ==
            IF k = 0 THEN [items |-> pq.items, size |-> pq.size, threw |-> FALSE, fuel |-> fuel]
            ELSE SiftNext(after[k - 1], inner - k)
    IN  after[inner]

MaybeShrink(items, newSize) ==
    LET len == Cardinality(DOMAIN items)
    IN  IF newSize % ShrinkEvery = 0 /\ len > ShrinkAbove /\ newSize < len \div 4
        THEN [i \in 0..(2 * newSize - 1) |-> items[i]]
        ELSE items

Scratch(seq) == [items |-> [i \in 0..Len(seq) - 1 |-> seq[i + 1]], size |-> Len(seq)]

Content(pq) == {pq.items[i] : i \in 0..(pq.size - 1)}
Peek(pq) == IF pq.size = 0 THEN Undef ELSE pq.items[0]
-----------------------------------------------------------------------------
Fuel == 0..MaxCalls

Init == /\ heap = [items |-> << >>, size |-> 0]
        /\ hOut = Undef

\* push: the new element goes last and is sifted up; siftUp undoes a throw.
Push(e, fuel) ==
    LET n == heap.size
        r == SiftUp([items |-> Store(heap.items, n, e), size |-> n + 1], n, fuel)
    IN  /\ e \notin Content(heap)
        /\ heap' = [items |-> r.items, size |-> r.size]
        /\ hOut' = IF r.threw THEN Threw ELSE Undef

PopEmpty == heap.size = 0 /\ UNCHANGED heap /\ hOut' = Undef

PopLast == /\ heap.size = 1
           /\ heap' = [items |-> [heap.items EXCEPT ![0] = Undef], size |-> 0]
           /\ hOut' = heap.items[0]

(***************************************************************************)
(* pop: the last element takes the root's place and is sifted down.  When  *)
(* the comparator throws, it goes back to the end and the minimum to the   *)
(* root.                                                                   *)
(***************************************************************************)
PopMany(fuel) ==
    LET n == heap.size
        min == heap.items[0]
        moved == [heap.items EXCEPT ![0] = heap.items[n - 1], ![n - 1] = Undef]
        r == SiftDown([items |-> moved, size |-> n - 1], 0, fuel)
    IN  /\ n > 1
        /\ IF r.threw
           THEN /\ heap' = [items |-> [r.items EXCEPT ![n - 1] = r.items[0], ![0] = min],
                            size |-> n]
                /\ hOut' = Threw
           ELSE /\ heap' = [items |-> MaybeShrink(r.items, n - 1), size |-> n - 1]
                /\ hOut' = min

\* heapify: also what make does with initial elements.
Heapify(seq, fuel) ==
    LET pq == Scratch(seq)
        r == SiftAll(pq, fuel)
    IN  /\ heap.size <= MaxReplaced
        /\ IF r.threw THEN UNCHANGED heap /\ hOut' = Threw
           ELSE heap' = [items |-> r.items, size |-> r.size] /\ hOut' = Undef

Next == \/ \E e \in Offered, fuel \in Fuel : Push(e, fuel)
        \/ PopEmpty \/ PopLast
        \/ \E fuel \in Fuel : PopMany(fuel)
        \/ \E seq \in Inputs, fuel \in Fuel : Heapify(seq, fuel)

Spec == Init /\ [][Next]_hVars
-----------------------------------------------------------------------------
(***************************************************************************)
(* The heap implements the priority queue, and a call that throws leaves   *)
(* it exactly as it was, whichever comparison the comparator threw in:     *)
(* push and pop undo the moves of an interrupted sift, heapify works on a  *)
(* copy.                                                                   *)
(***************************************************************************)
Abstract == INSTANCE PriorityBag WITH bag <- Content(heap), out <- hOut
EachCall == hVars' # hVars =>
    /\ \A fuel \in Fuel :
          /\ \A e \in Offered : Push(e, fuel) => Abstract!Push(e) \/ Abstract!Throw
          /\ PopMany(fuel) => Abstract!Pop \/ Abstract!Throw
          /\ \A seq \in Inputs :
                Heapify(seq, fuel) => Abstract!Replace({seq[i] : i \in DOMAIN seq}) \/ Abstract!Throw
    /\ PopEmpty \/ PopLast => Abstract!Pop
    /\ hOut' = Threw => /\ heap'.size = heap.size
                        /\ \A i \in 0..(heap.size - 1) : heap'.items[i] = heap.items[i]
IsPriorityBag == Abstract!Spec /\ [][EachCall]_hVars

(***************************************************************************)
(* The heap order, no element twice, and no reference kept in the slots    *)
(* above the heap.                                                         *)
(***************************************************************************)
HeapSound ==
    /\ \A i \in 1..(heap.size - 1) : ~ (Rank(heap.items[i]) < Rank(heap.items[Parent(i)]))
    /\ Cardinality(Content(heap)) = heap.size
    /\ \A i \in DOMAIN heap.items : heap.items[i] = Undef <=> i >= heap.size
    /\ Peek(heap) \in Abstract!Least(Content(heap)) \cup {Undef}
=============================================================================
