---------------------------- MODULE RecencyList ----------------------------
(***************************************************************************)
(* What a bounded cache promises: a list of entries, the most recently     *)
(* used first, of which the last makes room when a new key arrives and the *)
(* list is full.                                                           *)
(***************************************************************************)
EXTENDS Integers, Sequences, SequencesExt

CONSTANTS Key, Value, Undef,
          Capacity \* how many entries the cache holds

VARIABLES entries, out

Keys == {entries[i].key : i \in DOMAIN entries}
\* A key is in the list once.
PlaceOf(k) == CHOOSE i \in DOMAIN entries : entries[i].key = k
ValueOf(k) == entries[PlaceOf(k)].val
Without(k) == IF k \in Keys THEN RemoveAt(entries, PlaceOf(k)) ELSE entries
Entry(k, v) == <<[key |-> k, val |-> v]>>

Init == entries = << >> /\ out = Undef

Get(k) == IF k \in Keys
          THEN entries' = Entry(k, ValueOf(k)) \o Without(k) /\ out' = ValueOf(k)
          ELSE UNCHANGED entries /\ out' = Undef

Put(k, v) ==
    LET kept == IF k \notin Keys /\ Len(entries) = Capacity
                THEN SubSeq(entries, 1, Capacity - 1) ELSE Without(k)
    IN  entries' = Entry(k, v) \o kept /\ out' = Undef

Del(k) == entries' = Without(k) /\ out' = (k \in Keys)

Next == \E k \in Key : \/ Get(k)
                       \/ Del(k)
                       \/ \E v \in Value : Put(k, v)

Spec == Init /\ [][Next]_<<entries, out>>
=============================================================================
