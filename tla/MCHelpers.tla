------------------------------ MODULE MCHelpers ------------------------------
(***************************************************************************)
(* Small instances of the helpers, for TLC.  Numbers are in the cfg.       *)
(***************************************************************************)
EXTENDS Helpers, TLC

CONSTANTS t1, t2, t3, t4, s0, s1  \* shrink trees; states of a system under test

\* A shrink graph: t1 has two shrinks, one of which leads to the other.
MCShrinks == (t1 :> <<t2, t3>>) @@ (t2 :> <<t4>>) @@ (t3 :> <<t4, t2>>) @@ (t4 :> <<>>)

MCArb(i, size) == IF size = 0 THEN t4 ELSE IF i % 2 = 1 THEN t1 ELSE t3

MCConfigs == [numRuns : {1, 3}, maxSize : {2}, maxShrinks : {1, 3},
              maxShrinkEvaluations : {2, 6}] \cup
             [numRuns : {2}, maxSize : {0, 3}, maxShrinks : {0}, maxShrinkEvaluations : {6}]

MCCommandShrinks == (t3 :> <<t4>>) @@ (t4 :> <<>>)

MCTestLimits == [numRuns : {2}, maxCommands : {3}, maxShrinks : {3}, maxShrinkEvaluations : {5}]

MCInputShrinks == (t2 :> <<t4>>) @@ (t3 :> <<t4, t2>>) @@ (t4 :> <<>>)

MCSeed == <<t4>>

MCFuzzLimits == [maxShrinks : {2}, maxShrinkEvaluations : {1, 3}, maxCorpus : {0, 1}]
=============================================================================
