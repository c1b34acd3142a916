------------------------------- MODULE Deque -------------------------------
(***************************************************************************)
(* What a double-ended queue promises: a sequence of values that is read   *)
(* and changed at both ends, at an index, or taken as a whole.  `out' is   *)
(* what the last call returned.                                            *)
(***************************************************************************)
EXTENDS Integers, Sequences

CONSTANTS Value, \* what the queue holds
          Undef  \* the result of a call that returns nothing

VARIABLES items, out

Init == items \in Seq(Value) /\ out = Undef

Push(v) == items' = Append(items, v) /\ out' = Undef

Unshift(v) == items' = <<v>> \o items /\ out' = Undef

Pop == IF items = << >> THEN UNCHANGED items /\ out' = Undef
       ELSE /\ items' = SubSeq(items, 1, Len(items) - 1)
            /\ out' = items[Len(items)]

Shift == IF items = << >> THEN UNCHANGED items /\ out' = Undef
         ELSE items' = Tail(items) /\ out' = Head(items)

Put(i, v) == items' = [items EXCEPT ![i] = v] /\ out' = Undef

Swap(i, j) ==
    items' = [items EXCEPT ![i] = items[j], ![j] = items[i]] /\ out' = Undef

Dump == items' = << >> /\ out' = items

Next == \/ \E v \in Value : Push(v) \/ Unshift(v)
        \/ Pop \/ Shift \/ Dump
        \/ \E i \in DOMAIN items, v \in Value : Put(i, v)
        \/ \E i, j \in DOMAIN items : Swap(i, j)

Spec == Init /\ [][Next]_<<items, out>>
=============================================================================
