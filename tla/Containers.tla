----------------------------- MODULE Containers -----------------------------
(***************************************************************************)
(* The containers side by side.  They share no state: each behaviour       *)
(* exercises the one that `active' names, and only that one takes steps.   *)
(***************************************************************************)
EXTENDS Integers, Sequences

CONSTANTS
    Undef, Threw,                     \* undefined; what a call that throws returns
    Value, Key,
    ShrinkAbove,                      \* Queue and PriorityQueue
    MaxItems, DumpSizes, Marked, Initial, \* Queue
    Elem, Rank(_), ShrinkEvery, MaxCalls, Offered, Inputs, MaxReplaced, \* PriorityQueue
    Capacity, Varied, Plain,          \* LRUCache
    Column, Arrays, Replaced, MaxRows, \* SOA
    WORD, Capacities,                 \* BitSet
    Item, H1(_), H2(_), MinBits, MAX_BITS, FilterCapacity, MaxAdded \* BloomFilter

\* The queue's shifts are 32 bits wide and signed, so a ring of 2^30 slots cannot
\* grow: it holds fewer than 2^30 items.  Memory is given back only above the
\* first size.
QueueAssumption ==
  /\ MaxItems \in Nat /\ MaxItems <= 1073741823
  /\ ShrinkAbove \in Nat /\ ShrinkAbove >= 4
  /\ Initial \subseteq Seq(Value) /\ \A values \in Initial : Len(values) <= MaxItems

\* The comparator orders the elements by rank, and no element is given to
\* heapify twice or is the mark of absence or of an exception.
HeapAssumption ==
  /\ \A e \in Elem : Rank(e) \in Int
  /\ Undef \notin Elem /\ Threw \notin Elem \cup {Undef}
  /\ MaxCalls \in Nat /\ Offered \subseteq Elem
  /\ Inputs \subseteq Seq(Elem)
  /\ \A seq \in Inputs : \A i, j \in 1..Len(seq) : seq[i] = seq[j] => i = j

\* make refuses a capacity below one; undefined is no slot.
CacheAssumption == Capacity \in Nat /\ Capacity >= 1 /\ Undef \notin 0..Capacity

\* There is a column, and an array for each.
ColumnsAssumption ==
  /\ Column # {} /\ Replaced \subseteq Column
  /\ \E cols \in [Column -> Arrays] : \A c, d \in Column : c # d => cols[c] # cols[d]

\* make refuses a capacity below one.
BitsAssumption == WORD \in Nat \ {0} /\ Capacities \subseteq Nat \ {0}

\* make refuses a capacity below one, the hashes are integers, and the mark of an
\* exception is no filter.
FilterAssumption ==
  /\ FilterCapacity \in Nat \ {0} /\ MinBits \in Nat \ {0} /\ MAX_BITS \in Nat
  /\ \A item \in Item : H1(item) \in Int /\ H2(item) \in Int
  /\ Threw \notin [m : Int, k : Int, bits : SUBSET Int, count : Int]

ASSUME ContainersAssumption ==
  /\ QueueAssumption /\ HeapAssumption /\ CacheAssumption
  /\ ColumnsAssumption /\ BitsAssumption /\ FilterAssumption /\ Undef \notin Value

VARIABLES active,
          queue, qOut,               \* Queue
          heap, hOut,                \* PriorityQueue
          cache, lOut,               \* LRUCache
          soa, views, sOut,          \* SOA
          bitA, bitB, bitLen, bOut,  \* BitSet
          filter, added              \* BloomFilter

Q == INSTANCE Queue
PQ == INSTANCE PriorityQueue
L == INSTANCE LRUCache
SA == INSTANCE SOA
BS == INSTANCE BitSet
BF == INSTANCE BloomFilter WITH Capacity <- FilterCapacity

qVars == <<queue, qOut>>
hVars == <<heap, hOut>>
lVars == <<cache, lOut>>
sVars == <<soa, views, sOut>>
bVars == <<bitA, bitB, bitLen, bOut>>
fVars == <<filter, added>>
vars == <<active, qVars, hVars, lVars, sVars, bVars, fVars>>
-----------------------------------------------------------------------------
Init == /\ active \in {"queue", "heap", "cache", "soa", "bits", "filter"}
        /\ Q!Init /\ PQ!Init /\ L!Init /\ SA!Init /\ BS!Init /\ BF!Init

Next == \/ /\ active = "queue" /\ Q!Next
           /\ UNCHANGED <<active, hVars, lVars, sVars, bVars, fVars>>
        \/ /\ active = "heap" /\ PQ!Next
           /\ UNCHANGED <<active, qVars, lVars, sVars, bVars, fVars>>
        \/ /\ active = "cache" /\ L!Next
           /\ UNCHANGED <<active, qVars, hVars, sVars, bVars, fVars>>
        \/ /\ active = "soa" /\ SA!Next
           /\ UNCHANGED <<active, qVars, hVars, lVars, bVars, fVars>>
        \/ /\ active = "bits" /\ BS!Next
           /\ UNCHANGED <<active, qVars, hVars, lVars, sVars, fVars>>
        \/ /\ active = "filter" /\ BF!Next
           /\ UNCHANGED <<active, qVars, hVars, lVars, sVars, bVars>>

Spec == Init /\ [][Next]_vars
-----------------------------------------------------------------------------
(***************************************************************************)
(* Queue.ts, PriorityQueue.ts and LRUCache.ts: the ring implements a       *)
(* double-ended queue; the heap implements a bag from which the least      *)
(* element is taken, and a comparator that throws leaves the bag as it     *)
(* was; the linked slots implement a map whose entries are in order of     *)
(* last use.                                                               *)
(***************************************************************************)
ContainersRefine == Q!IsDeque /\ PQ!IsPriorityBag /\ L!IsRecencyList

(***************************************************************************)
(* BitSet.ts: the words implement sets of the indices below the capacity.  *)
(***************************************************************************)
BitsAreSets == BS!BehavesAsSets

(***************************************************************************)
(* What the representations must keep for their next operation to be       *)
(* right: Queue.ts's ring and mask, PriorityQueue.ts's heap order,         *)
(* LRUCache.ts's links, SOA.ts's columns and views, BitSet.ts's last word, *)
(* and BloomFilter.ts's probes.                                            *)
(***************************************************************************)
StructuresSound == /\ Q!RingSound /\ PQ!HeapSound /\ L!LinksSound
                   /\ SA!ColumnsSound /\ BS!WordsSound /\ BF!NoFalseNegatives
=============================================================================
