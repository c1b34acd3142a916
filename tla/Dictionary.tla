----------------------------- MODULE Dictionary -----------------------------
(***************************************************************************)
(* What a map promises: a finite function from keys to values.  `out' is   *)
(* what the last call returned.                                            *)
(***************************************************************************)
EXTENDS TLC

CONSTANTS Key, Value, Undef,
          UndefRemoves \* whether storing undefined under a key removes it

VARIABLES content, out

Without(f, k) == [j \in DOMAIN f \ {k} |-> f[j]]

Init == content = << >> /\ out = Undef

Put(k, v) == out' = Undef /\ content' = (k :> v) @@ content

PutUndef(k) == UndefRemoves /\ out' = Undef /\ content' = Without(content, k)

Del(k) == out' = (k \in DOMAIN content) /\ content' = Without(content, k)

Next == \E k \in Key : Del(k) \/ PutUndef(k) \/ \E v \in Value : Put(k, v)

Spec == Init /\ [][Next]_<<content, out>>
=============================================================================
