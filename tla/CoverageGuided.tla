--------------------------- MODULE CoverageGuided ---------------------------
(***************************************************************************)
(* CoverageGuided.ts: fuzz and fuzzAsync.  An input is a node of a finite  *)
(* shrink graph; the target throws on some and covers keys on each.        *)
(***************************************************************************)
EXTENDS Shrinking, FiniteSets

CONSTANTS Node, Shrinks,
          Seed,        \* sequence of nodes without shrinks: config.corpus
          Key,         \* coverage keys of tracked scripts
          Limits,      \* [maxShrinks, maxShrinkEvaluations, maxCorpus]
          MaxWalk,     \* steps of a mutation
          MaxRunsBound \* bound on the iterations before maxDuration is over

VARIABLES crashes,     \* the nodes on which the target throws
          covers,      \* node -> keys the target reaches on it
          cfg,
          inspector,   \* "none", "on" or "stopped"
          seen,        \* coverage keys seen
          corpus,      \* nodes that reached new coverage
          fuzz         \* the call in progress

vars == <<crashes, covers, cfg, inspector, seen, corpus, fuzz>>

Outcome(n) == IF n \in crashes THEN "error" ELSE PASSED

\* fuzz, or fuzzAsync without an inspector: "none".  The baseline of keys
\* reached before the first input is counted as seen.
Init == /\ crashes \in SUBSET Node
        /\ covers \in [Node -> SUBSET Key]
        /\ cfg \in Limits
        /\ inspector \in {"none", "on"}
        /\ seen \in IF inspector = "on" THEN SUBSET Key ELSE {{}}
        /\ corpus = <<>>
        /\ fuzz = [phase |-> "seeds", numRuns |-> 0]

\* Adds an entry, evicting one at random once the cap is reached.
AddToCorpus(n) ==
    IF Len(corpus) < cfg.maxCorpus THEN {Append(corpus, n)}
    ELSE {[corpus EXCEPT ![i] = n] : i \in 1..cfg.maxCorpus}

\* observe(), and the corpus if it reports new coverage.
Observe(n) ==
    IF inspector = "on" /\ ~(covers[n] \subseteq seen)
    THEN /\ seen' = seen \cup covers[n]
         /\ corpus' \in IF cfg.maxCorpus = 0 THEN {corpus} ELSE AddToCorpus(n)
    ELSE UNCHANGED <<seen, corpus>>

Stop == inspector' = IF inspector = "on" THEN "stopped" ELSE inspector

\* One value of config.corpus; a crash on one is reported as it is.
SeedRun ==
    /\ fuzz.phase = "seeds" /\ fuzz.numRuns < Len(Seed)
    /\ LET n == Seed[fuzz.numRuns + 1]
       IN  IF n \in crashes
           THEN /\ fuzz' = [phase |-> "done", ok |-> FALSE,
                            shrink |-> ShrinkFrom(n, Outcome(n))]
                /\ Stop /\ UNCHANGED <<seen, corpus>>
           ELSE /\ fuzz' = [fuzz EXCEPT !.numRuns = @ + 1]
                /\ Observe(n) /\ UNCHANGED inspector
    /\ UNCHANGED <<crashes, covers, cfg>>

SeedsDone == /\ fuzz.phase = "seeds" /\ fuzz.numRuns = Len(Seed)
             /\ fuzz' = [fuzz EXCEPT !.phase = "inputs"]
             /\ UNCHANGED <<crashes, covers, cfg, inspector, seen, corpus>>

\* The ends of walks of at most k steps down the shrink tree from n.
Walks(n, k) ==
    LET step(m, child) == child = m \/ \E i \in 1..Len(Shrinks[m]) : child = Shrinks[m][i]
        walks == {w \in [0..k -> Node] : w[0] = n /\ \A j \in 1..k : step(w[j - 1], w[j])}
    IN  {w[k] : w \in walks}

\* What the iteration may run: on odd iterations a neighbour of an entry of
\* the corpus, if the entry has any; otherwise a fresh input.
Inputs == IF Len(corpus) > 0 /\ fuzz.numRuns % 2 = 1
          THEN UNION {LET near == Walks(corpus[i], MaxWalk) \ {corpus[i]}
                      IN  IF near = {} THEN Node ELSE near : i \in 1..Len(corpus)}
          ELSE Node

\* One iteration: the inspector is stopped before a crash is shrunk.
InputRun(n) ==
    /\ fuzz.phase = "inputs" /\ fuzz.numRuns < MaxRunsBound
    /\ n \in Inputs
    /\ IF n \in crashes
       THEN /\ fuzz' = [phase |-> "shrinking", shrink |-> ShrinkFrom(n, Outcome(n))]
            /\ Stop /\ UNCHANGED <<seen, corpus>>
       ELSE /\ fuzz' = [fuzz EXCEPT !.numRuns = @ + 1]
            /\ Observe(n) /\ UNCHANGED inspector
    /\ UNCHANGED <<crashes, covers, cfg>>

\* maxDuration is over, after any number of iterations.
TimeIsUp == /\ fuzz.phase = "inputs"
            /\ fuzz' = [phase |-> "done", ok |-> TRUE]
            /\ Stop
            /\ UNCHANGED <<crashes, covers, cfg, seen, corpus>>

ShrinkOne ==
    /\ fuzz.phase = "shrinking"
    /\ LET s == fuzz.shrink
           kids == Shrinks[s.current]
           child == kids[s.childIdx + 1]
       IN  fuzz' = IF ShrinkEnds(s, kids, cfg, FALSE)
                   THEN [phase |-> "done", ok |-> FALSE, shrink |-> s]
                   ELSE [fuzz EXCEPT !.shrink = TryChild(s, child, Outcome(child))]
    /\ UNCHANGED <<crashes, covers, cfg, inspector, seen, corpus>>

Next == \/ SeedRun \/ SeedsDone \/ TimeIsUp \/ ShrinkOne
        \/ \E n \in Node : InputRun(n)
-----------------------------------------------------------------------------
\* A crash is reported with an input that crashes; the corpus keeps its cap,
\* holds no input that crashes and only what the seen keys account for; no
\* target of a shrink runs, and no call ends, with the inspector on.
Reproduces ==
    /\ Len(corpus) <= cfg.maxCorpus
    /\ \A i \in 1..Len(corpus) : corpus[i] \notin crashes /\ covers[corpus[i]] \subseteq seen
    /\ corpus # <<>> => inspector # "none"
    /\ fuzz.phase \in {"shrinking", "done"} => inspector # "on"
    /\ fuzz.phase = "done" /\ ~fuzz.ok =>
          ShrunkSoundly(fuzz.shrink, Shrinks[fuzz.shrink.current], Outcome, cfg, FALSE)
=============================================================================
