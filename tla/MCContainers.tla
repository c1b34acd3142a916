---------------------------- MODULE MCContainers ----------------------------
(***************************************************************************)
(* The containers on small instances, for TLC, and with them the two whose *)
(* operators are recursive: OrderedMap.ts and RadixTree.ts.  A behaviour   *)
(* is one of Containers or exercises one of these two.                     *)
(***************************************************************************)
EXTENDS Containers

CONSTANTS v1, v2, a1, a2, a3, k1, k2, k3, k4

\* Eight elements make a heap of four levels, in which an interrupted sift has
\* two moves to undo.  Their tens are their rank: 20 and 21, and 40 and 41, tie.
MCRank(e) == e \div 10
MCInputs == {<< >>, <<60, 50, 41, 40, 30, 21, 20>>}

MCInitial == {<< >>, <<v1, v1>>}

MCH1(e) == 3 * e
MCH2(e) == 2 * e + 1

VARIABLES family, map, mOut, tree, tOut

mVars == <<map, mOut>>
tVars == <<tree, tOut>>

\* One slot at first (16 in the code): the second and the third insert grow the arrays.
M == INSTANCE OrderedMap WITH Key <- 1..4, INIT_CAP <- 1, Varied <- {3}, Plain <- v1

T == INSTANCE RadixTree WITH Key <- {<< >>, <<1>>, <<1, 2, 1>>, <<1, 2, 2>>, <<2, 1>>},
                             Varied <- {<<1>>}, Plain <- v1
-----------------------------------------------------------------------------
\* A container that is not exercised starts in one of its initial states.
MCInit == /\ family \in {"containers", "map", "tree"}
          /\ Init /\ M!Init /\ T!Init
          /\ family # "containers" => active = "queue"
          /\ family # "containers" \/ active # "queue" => queue = Q!Make(<< >>)
          /\ active # "bits" => bitLen = 3
          /\ active # "filter" => filter = Threw

MCNext == \/ family = "containers" /\ Next /\ UNCHANGED <<family, mVars, tVars>>
          \/ family = "map" /\ M!Next /\ UNCHANGED <<family, vars, tVars>>
          \/ family = "tree" /\ T!Next /\ UNCHANGED <<family, vars, mVars>>

MCSpec == MCInit /\ [][MCNext]_<<family, vars, mVars, tVars>>
-----------------------------------------------------------------------------
(***************************************************************************)
(* OrderedMap.ts and RadixTree.ts implement a map, the first also when its *)
(* arrays are replaced in the middle of an insert, the second through      *)
(* every split and merge of its nodes; heights, balance and pieces stay    *)
(* sound, and the reads return what the contents say.                      *)
(***************************************************************************)
TreesRefine == M!IsDictionary /\ T!IsDictionary /\ [](M!TreeSound /\ T!PiecesSound)
=============================================================================
