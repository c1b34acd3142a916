------------------------------ MODULE Property ------------------------------
(***************************************************************************)
(* Property.ts: check and checkAsync on one property.  A tree of the       *)
(* generator is a node of a finite shrink graph and stands for its value;  *)
(* what the generator draws is a function of the test iteration (the       *)
(* number of splits of the seeded generator) and of the size.              *)
(***************************************************************************)
EXTENDS Shrinking

CONSTANTS Node,        \* the shrink trees of the generator
          Shrinks,     \* node -> sequence of its shrinks
          arb(_, _),   \* iteration, size -> node
          Configs,     \* [numRuns, maxSize, maxShrinks, maxShrinkEvaluations]
          Returns      \* what a predicate may do

VARIABLES predicate,   \* node -> member of Returns
          cfg,
          late,        \* the deadline has passed
          test,        \* the call in progress
          replay       \* the result of a later call with config.path

vars == <<predicate, cfg, late, test, replay>>

\* evalSync: a promise is a failure, whatever it would resolve to.
Eval(r) == CASE r = "false" -> "undefined"
             [] r = "throws" -> "error"
             [] r = "promise" -> "TypeError"
             [] OTHER -> PASSED

Outcome(n) == Eval(predicate[n])

SizeFor(i, c) == IF c.numRuns <= 1 THEN c.maxSize ELSE (i * c.maxSize) \div (c.numRuns - 1)

\* The path names the iteration, the size, and a child index per shrink.
Failure(t) == [ok |-> FALSE, numRuns |-> t.i + 1, counterexample |-> t.shrink.current,
               shrinks |-> t.shrink.shrinks, error |-> t.shrink.error,
               path |-> [testIdx |-> t.i, size |-> SizeFor(t.i, cfg),
                         shrinkIndices |-> t.shrink.pathIndices]]

None == [phase |-> "none"]

Init == /\ predicate \in [Node -> Returns]
        /\ cfg \in Configs
        /\ late = FALSE
        /\ test = [phase |-> "running", i |-> 0]
        /\ replay = None

DeadlinePasses == /\ test.phase # "done" /\ ~late
                  /\ late' = TRUE
                  /\ UNCHANGED <<predicate, cfg, test, replay>>

\* One iteration of the run loop.
RunOne ==
    /\ test.phase = "running" /\ test.i < cfg.numRuns /\ ~late
    /\ LET tree == arb(test.i, SizeFor(test.i, cfg))
       IN  test' = IF Outcome(tree) = PASSED THEN [test EXCEPT !.i = @ + 1]
                   ELSE [phase |-> "shrinking", i |-> test.i,
                         shrink |-> ShrinkFrom(tree, Outcome(tree))]
    /\ UNCHANGED <<predicate, cfg, late, replay>>

Passes ==
    /\ test.phase = "running" /\ (test.i >= cfg.numRuns \/ late)
    /\ test' = [phase |-> "done", result |-> [ok |-> TRUE, numRuns |-> test.i]]
    /\ UNCHANGED <<predicate, cfg, late, replay>>

ShrinkOne ==
    /\ test.phase = "shrinking"
    /\ LET s == test.shrink
           kids == Shrinks[s.current]
           child == kids[s.childIdx + 1]
       IN  test' = IF ShrinkEnds(s, kids, cfg, late)
                   THEN [phase |-> "done", shrink |-> s, result |-> Failure(test)]
                   ELSE [test EXCEPT !.shrink = TryChild(s, child, Outcome(child))]
    /\ UNCHANGED <<predicate, cfg, late, replay>>

\* The nodes a path leads to, a step per index: none where replayPath throws.
ReplayPath(tree, indices) ==
    LET step(n, idx, child) == idx < Len(Shrinks[n]) /\ child = Shrinks[n][idx + 1]
        walks == {w \in [0..Len(indices) -> Node] :
                    /\ w[0] = tree
                    /\ \A k \in 1..Len(indices) : step(w[k - 1], indices[k], w[k])}
    IN  {w[Len(indices)] : w \in walks}

\* check again with config.path, the same seed, and perhaps another numRuns
\* or maxSize; a legacy path holds no size.
Replay(c, legacy) ==
    /\ test.phase = "done" /\ ~test.result.ok /\ replay = None
    /\ LET p == test.result.path
           size == IF legacy THEN SizeFor(p.testIdx, c) ELSE p.size
           found == ReplayPath(arb(p.testIdx, size), p.shrinkIndices)
       IN  replay' =
             [phase |-> "done", legacy |-> legacy, cfg |-> c,
              results |-> {IF Outcome(n) = PASSED THEN [ok |-> TRUE, numRuns |-> 1]
                           ELSE [ok |-> FALSE, numRuns |-> 1, counterexample |-> n,
                                 shrinks |-> Len(p.shrinkIndices), error |-> Outcome(n),
                                 path |-> p] : n \in found}]
    /\ UNCHANGED <<predicate, cfg, late, test>>

Next == \/ DeadlinePasses \/ RunOne \/ Passes \/ ShrinkOne
        \/ \E c \in Configs, legacy \in BOOLEAN : Replay(c, legacy)
-----------------------------------------------------------------------------
\* A failure is reported with an input that fails, its own error, and a path
\* that leads back to both, under any configuration the path is replayed
\* with; a pass means that no input that was drawn failed.
Reproduces ==
    test.phase = "done" =>
        IF test.result.ok
        THEN /\ test.result.numRuns = cfg.numRuns \/ late
             /\ \A i \in 0..(test.result.numRuns - 1) : Outcome(arb(i, SizeFor(i, cfg))) = PASSED
        ELSE /\ ShrunkSoundly(test.shrink, Shrinks[test.shrink.current], Outcome, cfg, late)
             /\ replay # None /\ (~replay.legacy \/ replay.cfg = cfg)
                => replay.results = {[test.result EXCEPT !.numRuns = 1]}
=============================================================================
