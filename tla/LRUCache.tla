------------------------------ MODULE LRUCache ------------------------------
(***************************************************************************)
(* src/src/LRUCache.ts: entries in numbered slots, linked in order of use  *)
(* through the arrays prev and next around the sentinel slot 0, with a map *)
(* from keys to slots and a stack of free slots.                           *)
(***************************************************************************)
EXTENDS Integers, Sequences, SequencesExt, FiniteSets

CONSTANTS Key, Value, Undef,
          Capacity, \* the capacity given to make
          Varied,   \* bound: the keys stored with any value,
          Plain     \* bound: and the value the other keys are stored with

VARIABLES cache, lOut

lVars == <<cache, lOut>>

SENTINEL == 0
Slots == 0..Capacity

Make == [prev  |-> [s \in Slots |-> 0],
         next  |-> [s \in Slots |-> 0],
         keys  |-> [s \in Slots |-> Undef],
         vals  |-> [s \in Slots |-> Undef],
         index |-> [k \in Key |-> Undef],
         free  |-> [i \in 1..Capacity |-> i],
         size  |-> 0]

Detach(c, slot) ==
    LET p == c.prev[slot]
        n == c.next[slot]
    IN  [c EXCEPT !.next[p] = n, !.prev[n] = p]

InsertAfterSentinel(c, slot) ==
    LET n == c.next[SENTINEL]
    IN  [c EXCEPT !.next = [@ EXCEPT ![SENTINEL] = slot, ![slot] = n],
                  !.prev = [@ EXCEPT ![slot] = SENTINEL, ![n] = slot]]

Promote(c, slot) == InsertAfterSentinel(Detach(c, slot), slot)

\* A new key takes a free slot, or the slot of the entry used longest ago.
TakeSlot(c) ==
    IF c.free # << >>
    THEN [slot |-> Last(c.free), c |-> [c EXCEPT !.free = Front(c.free), !.size = @ + 1]]
    ELSE LET slot == c.prev[SENTINEL]
         IN  [slot |-> slot, c |-> Detach([c EXCEPT !.index[c.keys[slot]] = Undef], slot)]
-----------------------------------------------------------------------------
Init == cache = Make /\ lOut = Undef

Get(k) == LET slot == cache.index[k]
          IN  IF slot = Undef THEN UNCHANGED cache /\ lOut' = Undef
              ELSE cache' = Promote(cache, slot) /\ lOut' = cache.vals[slot]

Set(k, v) ==
    LET existing == cache.index[k]
        t == TakeSlot(cache)
    IN  /\ v = Plain \/ k \in Varied
        /\ cache' = IF existing # Undef
                    THEN Promote([cache EXCEPT !.vals[existing] = v], existing)
                    ELSE InsertAfterSentinel([t.c EXCEPT !.keys[t.slot] = k,
                                                         !.vals[t.slot] = v,
                                                         !.index[k] = t.slot], t.slot)
        /\ lOut' = Undef

Del(k) == LET slot == cache.index[k]
          IN  IF slot = Undef THEN UNCHANGED cache /\ lOut' = FALSE
              ELSE /\ cache' = [Detach([cache EXCEPT !.index[k] = Undef], slot)
                                  EXCEPT !.keys[slot] = Undef, !.vals[slot] = Undef,
                                         !.free = Append(@, slot), !.size = @ - 1]
                   /\ lOut' = TRUE

Next == \E k \in Key : Get(k) \/ Del(k) \/ \E v \in Value : Set(k, v)

Spec == Init /\ [][Next]_lVars
-----------------------------------------------------------------------------
\* The slots that the steps along next, or prev, lead to from the sentinel.
Walk(links) == LET at[n \in 0..Capacity + 1] ==
                     IF n = 0 THEN SENTINEL ELSE links[at[n - 1]]
               IN  at

Entries(c) == LET at == Walk(c.next)
              IN  [i \in 1..c.size |-> [key |-> c.keys[at[i]], val |-> c.vals[at[i]]]]

(***************************************************************************)
(* The linked slots implement the recency list: a get or set moves its     *)
(* entry to the front, a full cache drops exactly the entry used longest   *)
(* ago, and a deleted slot is used again without leaving a trace.          *)
(***************************************************************************)
Abstract == INSTANCE RecencyList WITH entries <- Entries(cache), out <- lOut
EachCall == lVars' # lVars =>
    \A k \in Key : /\ Get(k) => Abstract!Get(k)
                   /\ Del(k) => Abstract!Del(k)
                   /\ \A v \in Value : Set(k, v) => Abstract!Put(k, v)
IsRecencyList == Abstract!Spec /\ [][EachCall]_lVars

(***************************************************************************)
(* The links read backwards are the links read forwards and close after    *)
(* `size' steps, the map names exactly the linked slots, and the free      *)
(* slots are the other ones and hold nothing.                              *)
(***************************************************************************)
LinksSound ==
    LET n == cache.size
        after == Walk(cache.next)
        before == Walk(cache.prev)
        linked == {after[i] : i \in 1..n}
        free == {cache.free[i] : i \in DOMAIN cache.free}
    IN  /\ after[n + 1] = SENTINEL /\ SENTINEL \notin linked
        /\ \A i \in 1..n : before[i] = after[n + 1 - i]
        /\ Cardinality(linked) = n /\ Len(cache.free) = Capacity - n
        /\ free = (1..Capacity) \ linked
        /\ \A s \in free : cache.keys[s] = Undef /\ cache.vals[s] = Undef
        /\ \A k \in Key, s \in 1..Capacity :
              cache.index[k] = s <=> s \in linked /\ cache.keys[s] = k
=============================================================================
