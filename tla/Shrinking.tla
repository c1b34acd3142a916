----------------------------- MODULE Shrinking -----------------------------
(***************************************************************************)
(* The shrink loop that Property.ts, StatefulTest.ts and CoverageGuided.ts *)
(* each write out, sync and async: from a failing tree, take the first     *)
(* child that fails too, until none does or a limit is reached.            *)
(* One step evaluates one child; `kids' are the shrinks of s.current.      *)
(***************************************************************************)
EXTENDS Integers, Sequences

PASSED == "passed"

ShrinkFrom(tree, error) ==
    [current |-> tree, error |-> error, shrinks |-> 0, evaluations |-> 0,
     childIdx |-> 0, pathIndices |-> <<>>]

\* `late': Date.now() is past the deadline of timeoutMs.
OutOfBudget(s, limits, late) == s.evaluations >= limits.maxShrinkEvaluations \/ late

\* The conditions that end the loop: its bound, `break outer', and not found.
ShrinkEnds(s, kids, limits, late) ==
    \/ s.shrinks >= limits.maxShrinks
    \/ s.childIdx >= Len(kids)
    \/ OutOfBudget(s, limits, late)

\* A loop that keeps counting children across levels.
AcceptKeepingIndex(s, child, outcome) ==
    [s EXCEPT !.current = child, !.error = outcome, !.shrinks = @ + 1,
              !.pathIndices = Append(@, s.childIdx)]

Accept(s, child, outcome) ==
    [s EXCEPT !.current = child, !.error = outcome, !.shrinks = @ + 1,
              !.pathIndices = Append(@, s.childIdx), !.childIdx = 0]

TryChild(s, child, outcome) ==
    LET counted == [s EXCEPT !.evaluations = @ + 1]
    IN  IF outcome = PASSED THEN [counted EXCEPT !.childIdx = @ + 1]
                            ELSE Accept(counted, child, outcome)

\* What a finished loop may report: the counterexample fails with the error
\* reported for it, the limits were kept, and the loop gave up before a local
\* minimum only because of a limit.
ShrunkSoundly(s, kids, Outcome(_), limits, late) ==
    /\ Outcome(s.current) = s.error /\ s.error # PASSED
    /\ s.shrinks <= limits.maxShrinks
    /\ s.evaluations <= limits.maxShrinkEvaluations
    /\ \/ s.shrinks = limits.maxShrinks
       \/ s.evaluations = limits.maxShrinkEvaluations
       \/ late
       \/ \A i \in 1..Len(kids) : Outcome(kids[i]) = PASSED
=============================================================================
