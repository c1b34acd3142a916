---------------------------- MODULE PriorityBag ----------------------------
(***************************************************************************)
(* What a priority queue promises: a set of elements from which the caller *)
(* takes one that no other precedes.  A call whose comparator throws       *)
(* changes nothing.  Elements of equal priority come out in any order.     *)
(***************************************************************************)
EXTENDS Integers

CONSTANTS Elem,        \* the elements
          Rank(_),     \* the priority of an element: lower comes out first
          Undef, Threw \* nothing returned; the comparator's exception

VARIABLES bag, out

Least(S) == {e \in S : \A f \in S : ~ (Rank(f) < Rank(e))}

Init == bag \in SUBSET Elem /\ out = Undef

Push(e) == bag' = bag \cup {e} /\ out' = Undef

Pop == \/ bag = {} /\ UNCHANGED bag /\ out' = Undef
       \/ \E e \in Least(bag) : bag' = bag \ {e} /\ out' = e

Replace(S) == bag' = S /\ out' = Undef

Throw == UNCHANGED bag /\ out' = Threw

Next == \/ \E e \in Elem : Push(e)
        \/ Replace(bag') /\ bag' \subseteq Elem
        \/ Pop \/ Throw

Spec == Init /\ [][Next]_<<bag, out>>
=============================================================================
