------------------------------ MODULE WeakCache ------------------------------
(***************************************************************************)
(* src/src/WeakCache.ts: a map from keys to weak references, and a         *)
(* registry that calls back with a key some time after a value was         *)
(* collected.  A reference is a fresh number; the garbage collector and    *)
(* the registry are the engine's.                                          *)
(***************************************************************************)
EXTENDS Integers, Sequences

CONSTANTS Key, Obj, Undef,
          MaxRefs \* bound: the references made

VARIABLES entries,  \* key -> a reference or Undef
          target,   \* reference -> the object it was made for, in the order they were made
          live,     \* the objects not collected
          registry, \* registrations [ref, key], each with the reference as its token
          pending   \* registrations whose object was collected: callbacks to come

wVars == <<entries, target, live, registry, pending>>

Deref(r) == IF target[r] \in live THEN target[r] ELSE Undef

Init == /\ entries = [k \in Key |-> Undef] /\ target = << >>
        /\ live = Obj /\ registry = {} /\ pending = {}

\* unregister takes back every registration with this token, collected or not.
Unregister(r) == /\ registry' = {c \in registry : c.ref # r}
                 /\ pending' = {c \in pending : c.ref # r}

\* get and has, which drop an entry whose object is gone without unregistering it.
Read(k) == /\ entries[k] # Undef
           /\ entries' = IF Deref(entries[k]) = Undef
                         THEN [entries EXCEPT ![k] = Undef] ELSE entries
           /\ UNCHANGED <<target, live, registry, pending>>

Set(k, v) ==
    LET r == Len(target) + 1
        kept == {c \in registry : c.ref # entries[k]}
    IN  /\ v \in live /\ r <= MaxRefs
        /\ target' = Append(target, v)
        /\ entries' = [entries EXCEPT ![k] = r]
        /\ registry' = kept \cup {[ref |-> r, key |-> k]}
        /\ pending' = {c \in pending : c.ref # entries[k]}
        /\ UNCHANGED live

RemoveKey(k) == /\ entries[k] # Undef
                /\ Unregister(entries[k])
                /\ entries' = [entries EXCEPT ![k] = Undef]
                /\ UNCHANGED <<target, live>>

\* The engine collects an object nobody holds and queues its callbacks.
Collect(v) == /\ v \in live
              /\ live' = live \ {v}
              /\ pending' = pending \cup {c \in registry : target[c.ref] = v}
              /\ registry' = {c \in registry : target[c.ref] # v}
              /\ UNCHANGED <<entries, target>>

\* A callback that trusts the key it was registered with.
CleanupUnchecked(k) == [entries EXCEPT ![k] = Undef]

\* The callback: cleanupStaleEntry looks at the entry as it is now.
Cleanup(k) ==
    IF entries[k] # Undef THEN IF Deref(entries[k]) = Undef
                               THEN [entries EXCEPT ![k] = Undef] ELSE entries
    ELSE entries

Finalize(c) == /\ c \in pending
               /\ pending' = pending \ {c}
               /\ entries' = Cleanup(c.key)
               /\ UNCHANGED <<target, live, registry>>

Next == \/ \E k \in Key : Read(k) \/ RemoveKey(k) \/ \E v \in Obj : Set(k, v)
        \/ \E v \in Obj : Collect(v)
        \/ \E c \in pending : Finalize(c)

Spec == Init /\ [][Next]_wVars
-----------------------------------------------------------------------------
(***************************************************************************)
(* A callback or a read never drops the entry of an object that is still   *)
(* alive, however late it comes and whatever was stored under the key in   *)
(* the meantime; and no dead entry is forgotten: each entry has its own    *)
(* registration while its object lives and a callback to come after that.  *)
(***************************************************************************)
Tracked ==
    \A k \in Key : entries[k] # Undef =>
        [ref |-> entries[k], key |-> k] \in
            (IF Deref(entries[k]) = Undef THEN pending ELSE registry)
KeepsLive ==
    /\ []Tracked
    /\ [][\A k \in Key :
            (entries[k] # Undef /\ entries'[k] = Undef /\ target[entries[k]] \in live)
                => RemoveKey(k)]_wVars
=============================================================================
