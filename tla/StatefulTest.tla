---------------------------- MODULE StatefulTest ----------------------------
(***************************************************************************)
(* StatefulTest.ts: checkStateful and checkStatefulAsync.  The system      *)
(* under test is a function of the model's state: whether a command's      *)
(* check accepts, rejects or throws, and where run leads or that it        *)
(* throws.  The tree of a command is a node with its shrinks.              *)
(***************************************************************************)
EXTENDS Shrinking, SequencesExt

CONSTANTS Command,     \* command trees
          Shrinks,     \* command -> sequence of its shrinks
          State,       \* states of the model and the real system
          First,       \* the state of initialModel() and initialReal()
          Limits,      \* [numRuns, maxCommands, maxShrinks, maxShrinkEvaluations]
          ATTEMPTS     \* generation attempts per command of a sequence

VARIABLES checks,      \* state, command -> "yes", "no" or "throws"
          runs,        \* state, command -> the next state, or an error
          cfg, late,
          call,        \* the call in progress
          reals        \* how many real systems were made, and torn down

vars == <<checks, runs, cfg, late, call, reals>>

Init == /\ checks \in [State \X Command -> {"yes", "no", "throws"}]
        /\ runs \in [State \X Command -> [next : State, error : {PASSED}]
                                         \cup [next : {First}, error : {"e1"}]]
        /\ cfg \in Limits
        /\ late = FALSE
        /\ call = [phase |-> "running", i |-> 0]
        /\ reals = [made |-> 0, torn |-> 0]

DeadlinePasses == /\ call.phase \notin {"done", "threw"} /\ ~late
                  /\ late' = TRUE
                  /\ UNCHANGED <<checks, runs, cfg, call, reals>>

\* Sizes ramp from 0 to 100; a sequence is no longer than its size.
SizeFor(i) == IF cfg.numRuns <= 1 THEN 100 ELSE (i * 100) \div (cfg.numRuns - 1)

SequenceLengths(size) == 1..Min({cfg.maxCommands, Max({1, size})})

\* runGenerated starts: a fresh model and real, and a length for the sequence.
StartRun ==
    /\ call.phase = "running" /\ call.i < cfg.numRuns /\ ~late
    /\ \E len \in SequenceLengths(SizeFor(call.i)) :
          call' = [phase |-> "generating", i |-> call.i, len |-> len, attempts |-> 0,
                   trees |-> <<>>, model |-> First, outcome |-> PASSED]
    /\ reals' = [reals EXCEPT !.made = @ + 1]
    /\ UNCHANGED <<checks, runs, cfg, late>>

Passes ==
    /\ call.phase = "running" /\ (call.i >= cfg.numRuns \/ late)
    /\ call' = [phase |-> "done", ok |-> TRUE]
    /\ UNCHANGED <<checks, runs, cfg, late, reals>>

\* The loop of runGenerated goes on.
Generating == /\ call.phase = "generating" /\ call.outcome = PASSED
              /\ Len(call.trees) < call.len /\ call.attempts < call.len * ATTEMPTS

\* A command is drawn from the live model; one whose check rejects is dropped.
GenerateOne(c) ==
    /\ Generating
    /\ checks[<<call.model, c>>] # "throws"
    /\ call' =
         IF checks[<<call.model, c>>] = "no" THEN [call EXCEPT !.attempts = @ + 1]
         ELSE [call EXCEPT !.attempts = @ + 1, !.trees = Append(@, c),
                           !.outcome = runs[<<call.model, c>>].error,
                           !.model = runs[<<call.model, c>>].next]
    /\ UNCHANGED <<checks, runs, cfg, late, reals>>

\* A check that throws while generating escapes, through the finally.
CheckThrows(c) ==
    /\ Generating
    /\ checks[<<call.model, c>>] = "throws"
    /\ call' = [phase |-> "threw"]
    /\ reals' = [reals EXCEPT !.torn = @ + 1]
    /\ UNCHANGED <<checks, runs, cfg, late>>

\* The finally of runGenerated: a teardown that throws ends the whole call.
Teardown(throws) ==
    /\ call.phase = "generating" /\ ~Generating
    /\ reals' = [reals EXCEPT !.torn = @ + 1]
    /\ call' = IF throws THEN [phase |-> "threw"]
               ELSE IF call.outcome = PASSED THEN [phase |-> "running", i |-> call.i + 1]
               ELSE [phase |-> "shrinking", i |-> call.i,
                     shrink |-> ShrinkFrom(call.trees, call.outcome)]
    /\ UNCHANGED <<checks, runs, cfg, late>>

\* Shrink candidates: the first half, one command dropped, one command shrunk.
ShrinkCommandSequence(trees) ==
    LET len == Len(trees)
        halved == IF len > 1 THEN <<SubSeq(trees, 1, (len + 1) \div 2)>> ELSE <<>>
        dropped == IF len > 1 THEN [i \in 1..len |-> RemoveAt(trees, len + 1 - i)] ELSE <<>>
        smaller(i) == [j \in 1..Len(Shrinks[trees[i]]) |->
                          ReplaceAt(trees, i, Shrinks[trees[i]][j])]
    IN  halved \o dropped \o FlattenSeq([i \in 1..len |-> smaller(i)])

\* One command of a replay: a check that throws counts as false.
ReplayCommand(at, c) ==
    IF at.error # PASSED \/ checks[<<at.next, c>>] # "yes" THEN at ELSE runs[<<at.next, c>>]

\* A replay, command by command, from fresh state.
Replayed(trees) ==
    LET at[i \in 0..Len(trees)] ==
          IF i = 0 THEN [next |-> First, error |-> PASSED] ELSE ReplayCommand(at[i - 1], trees[i])
    IN  at

ReplaySequence(trees) == Replayed(trees)[Len(trees)].error

\* One replay of the shrink loop, on a fresh real that is torn down after it.
ShrinkOne(throws) ==
    /\ call.phase = "shrinking"
    /\ LET kids == ShrinkCommandSequence(call.shrink.current)
           child == kids[call.shrink.childIdx + 1]
       IN  /\ ~ShrinkEnds(call.shrink, kids, cfg, late)
           /\ call' = IF throws THEN [phase |-> "threw"]
                      ELSE [call EXCEPT !.shrink = TryChild(@, child, ReplaySequence(child))]
    /\ reals' = [made |-> reals.made + 1, torn |-> reals.torn + 1]
    /\ UNCHANGED <<checks, runs, cfg, late>>

ShrinkDone ==
    /\ call.phase = "shrinking"
    /\ ShrinkEnds(call.shrink, ShrinkCommandSequence(call.shrink.current), cfg, late)
    /\ call' = [phase |-> "done", ok |-> FALSE, shrink |-> call.shrink]
    /\ UNCHANGED <<checks, runs, cfg, late, reals>>

Next == \/ DeadlinePasses \/ StartRun \/ Passes \/ ShrinkDone
        \/ \E c \in Command : GenerateOne(c) \/ CheckThrows(c)
        \/ \E throws \in BOOLEAN : Teardown(throws) \/ ShrinkOne(throws)
-----------------------------------------------------------------------------
\* Every real is torn down once its sequence is over, on every path; a
\* reported sequence is not empty, fails with the reported error when it is
\* replayed on fresh state, and is a local minimum unless a limit was reached.
Reproduces ==
    /\ reals.made = reals.torn + (IF call.phase = "generating" THEN 1 ELSE 0)
    /\ call.phase = "done" /\ ~call.ok =>
          /\ call.shrink.current # <<>>
          /\ ShrunkSoundly(call.shrink, ShrinkCommandSequence(call.shrink.current),
                           ReplaySequence, cfg, late)
=============================================================================
