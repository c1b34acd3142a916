------------------------------- MODULE Helpers -------------------------------
(***************************************************************************)
(* The helper modules side by side.  They share no state: each behaviour   *)
(* exercises the one that `active' names, and only that one takes steps.   *)
(***************************************************************************)
EXTENDS Integers, Sequences

CONSTANTS
    Undef,                                              \* undefined
    N, Limits,                                          \* PromisePool
    MaxSize, MinSize, MaxMade, MaxFrames,               \* MemoryPool
    Key, Obj, MaxRefs,                                  \* WeakCache
    Clock, LOW, HIGH, POOL_SIZE, RANDOM_BYTES, MaxInMs, \* UUIDv7
    Arg, Value, MaxDepth, MaxCalls,                     \* CallLimits
    Node, Shrinks, arb(_, _), Configs, Returns,         \* Property
    Command, CommandShrinks, State, First, TestLimits, ATTEMPTS, \* StatefulTest
    Input, InputShrinks, Seed, FuzzLimits, MaxWalk, MaxRunsBound \* CoverageGuided

\* Configured sizes are naturals.
SizesAssumption == MaxSize \in Nat /\ MinSize \in Nat

\* pool() refuses a limit that is not an integer of at least one; Infinity
\* limits N items as N does.
LimitsAssumption == N \in Nat /\ Limits \subseteq Nat

\* No object and no reference is the mark of absence.
UndefAssumption == Undef \notin Nat /\ Undef \notin Obj

\* Date.now() is not negative, the fields are not empty, one draw fits in the
\* pool, and fewer identifiers are made under one timestamp than the clear top
\* bit of the seed leaves room for (2^41 in the code).
UuidAssumption ==
  /\ Clock \subseteq Nat /\ LOW \in Nat \ {0} /\ HIGH \in Nat \ {0}
  /\ POOL_SIZE \in Nat /\ RANDOM_BYTES \in 0..POOL_SIZE
  /\ MaxInMs \in Nat /\ MaxInMs <= (LOW * HIGH) \div 2

\* Shrinks are commands, the model starts in a state, the limits are naturals.
StatefulAssumption ==
  /\ CommandShrinks \in [Command -> Seq(Command)]
  /\ First \in State
  /\ \A c \in TestLimits : c.maxShrinks \in Nat /\ c.maxShrinkEvaluations \in Nat

\* Shrinks are inputs, an input of config.corpus has none, the limits are naturals.
FuzzAssumption ==
  /\ InputShrinks \in [Input -> Seq(Input)]
  /\ Seed \in Seq(Input) /\ \A i \in 1..Len(Seed) : InputShrinks[Seed[i]] = << >>
  /\ \A c \in FuzzLimits : /\ c.maxCorpus \in Nat /\ c.maxShrinks \in Nat
                           /\ c.maxShrinkEvaluations \in Nat

ASSUME HelpersAssumption ==
  /\ SizesAssumption /\ LimitsAssumption /\ UndefAssumption /\ UuidAssumption
  /\ StatefulAssumption /\ FuzzAssumption

\* A generator yields a tree for every run and size (a hypothesis of the
\* theorems only: TLC cannot enumerate the naturals).
PropertyAssumption ==
  /\ Shrinks \in [Node -> Seq(Node)]
  /\ \A i, size \in Nat : arb(i, size) \in Node
  /\ \A c \in Configs : /\ c.numRuns \in Nat /\ c.maxSize \in Nat
                        /\ c.maxShrinks \in Nat /\ c.maxShrinkEvaluations \in Nat

VARIABLES active,
          pool, behaviour, signal,                         \* PromisePool
          freeList, acquiredCount, made, borrowed,         \* MemoryPool
          frames, nesting, mpOut,
          entries, target, live, registry, pending,        \* WeakCache
          lastMs, counter, poolPos, id, inMs,              \* UUIDv7
          stack, once, memo, timers, armed, calls, due,    \* CallLimits
          cfg, late,                                       \* the test runners
          predicate, test, replay,                         \* Property
          checks, runs, call, reals,                       \* StatefulTest
          crashes, covers, inspector, seen, corpus, fuzz   \* CoverageGuided

PP == INSTANCE PromisePool
MP == INSTANCE MemoryPool
WC == INSTANCE WeakCache
U7 == INSTANCE UUIDv7
C == INSTANCE CallLimits
PT == INSTANCE Property
SF == INSTANCE StatefulTest WITH Shrinks <- CommandShrinks, Limits <- TestLimits
CG == INSTANCE CoverageGuided WITH Node <- Input, Shrinks <- InputShrinks, Limits <- FuzzLimits

poolVars == <<pool, behaviour, signal>>
memoryVars == <<freeList, acquiredCount, made, borrowed, frames, nesting, mpOut>>
weakVars == <<entries, target, live, registry, pending>>
uuidVars == <<lastMs, counter, poolPos, id, inMs>>
callVars == <<stack, once, memo, timers, armed, calls, due>>
propertyVars == <<predicate, test, replay>>
statefulVars == <<checks, runs, call, reals>>
fuzzVars == <<crashes, covers, inspector, seen, corpus, fuzz>>
helperVars == <<active, memoryVars, weakVars, uuidVars, callVars>>
runnerVars == <<cfg, late, propertyVars, statefulVars, fuzzVars>>
vars == <<helperVars, poolVars, runnerVars>>
-----------------------------------------------------------------------------
NoProperty == predicate = Undef /\ test = Undef /\ replay = Undef
NoStateful == checks = Undef /\ runs = Undef /\ call = Undef /\ reals = Undef
NoFuzz == /\ crashes = Undef /\ covers = Undef /\ inspector = Undef
          /\ seen = Undef /\ corpus = Undef /\ fuzz = Undef

Init == /\ active \in {"pool", "memory", "weak", "uuid", "calls", "property", "stateful", "fuzz"}
        /\ IF active = "pool" THEN PP!Init ELSE pool = Undef /\ behaviour = Undef /\ signal = Undef
        /\ MP!Init /\ WC!Init /\ U7!Init /\ C!Init
        /\ IF active = "property" THEN PT!Init ELSE NoProperty
        /\ IF active = "stateful" THEN SF!Init ELSE NoStateful
        /\ IF active = "fuzz" THEN CG!Init ELSE NoFuzz
        /\ active \notin {"property", "stateful", "fuzz"} => cfg = Undef
        /\ active \notin {"property", "stateful"} => late = Undef

InPool(A) == active = "pool" /\ A /\ UNCHANGED <<helperVars, runnerVars>>

Next == \/ InPool(PP!Next)
        \/ /\ active = "memory" /\ MP!Next
           /\ UNCHANGED <<active, weakVars, uuidVars, callVars, poolVars, runnerVars>>
        \/ /\ active = "weak" /\ WC!Next
           /\ UNCHANGED <<active, memoryVars, uuidVars, callVars, poolVars, runnerVars>>
        \/ /\ active = "uuid" /\ U7!Next
           /\ UNCHANGED <<active, memoryVars, weakVars, callVars, poolVars, runnerVars>>
        \/ /\ active = "calls" /\ C!Next
           /\ UNCHANGED <<active, memoryVars, weakVars, uuidVars, poolVars, runnerVars>>
        \/ /\ active = "property" /\ PT!Next
           /\ UNCHANGED <<helperVars, poolVars, statefulVars, fuzzVars>>
        \/ /\ active = "stateful" /\ SF!Next
           /\ UNCHANGED <<helperVars, poolVars, propertyVars, fuzzVars>>
        \/ /\ active = "fuzz" /\ CG!Next
           /\ UNCHANGED <<helperVars, poolVars, late, propertyVars, statefulVars>>

\* PromiseUtils.pool is called, and the promises fn returned settle.
Fairness == WF_vars(InPool(PP!Call)) /\ WF_vars(InPool(PP!Settles))

Spec == Init /\ [][Next]_vars /\ Fairness
-----------------------------------------------------------------------------
(***************************************************************************)
(* PromiseUtils.ts pool: counters, slots, limit and abort agree.           *)
(***************************************************************************)
PoolSound == active = "pool" => PP!Sound

(***************************************************************************)
(* PromiseUtils.ts pool: the result promise resolves, whatever mixture of  *)
(* synchronous throws, aborts and rejections fn produces.                  *)
(***************************************************************************)
PoolResolves == (active = "pool") ~> (active = "pool" /\ pool.resolved)

(***************************************************************************)
(* MemoryPool.ts: slots are given back exactly once on every path.         *)
(***************************************************************************)
SlotsBalanced == MP!SlotsBalanced

(***************************************************************************)
(* WeakCache.ts: a late finalizer never drops a live entry, and no dead    *)
(* entry is left without a finalizer.                                      *)
(***************************************************************************)
KeepsLive == WC!KeepsLive

(***************************************************************************)
(* UUID.v7.ts: each identifier is greater than the one before.             *)
(***************************************************************************)
Ascending == U7!Ascending

(***************************************************************************)
(* Memoization.ts and TimedFunction.ts: once and throttle keep their limit *)
(* when the function they wrap calls them again or throws.                 *)
(***************************************************************************)
CallsLimited == C!Limited

(***************************************************************************)
(* Property.ts, StatefulTest.ts and CoverageGuided.ts: a reported          *)
(* counterexample fails with the error reported for it when it is run      *)
(* again, and is minimal unless a limit stopped the search; whatever was   *)
(* made for a run is torn down on every path out of it.                    *)
(***************************************************************************)
FailuresReproduce == /\ active = "property" => PT!Reproduces
                     /\ active = "stateful" => SF!Reproduces
                     /\ active = "fuzz" => CG!Reproduces
=============================================================================
