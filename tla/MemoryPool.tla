----------------------------- MODULE MemoryPool -----------------------------
(***************************************************************************)
(* src/src/MemoryPool.ts: instances are taken from a free list, or made by *)
(* the factory while fewer than maxSize are acquired.  The factory, fn and *)
(* the reset are user code: each may throw, and each may use the pool.     *)
(* `frames' is the part of the call stack that matters: the calls of the   *)
(* factory and the running withAcquires, innermost last.  A borrower is a  *)
(* caller of acquire, who releases once, or a withAcquire, which releases  *)
(* when fn returns, throws or its promise settles.                         *)
(***************************************************************************)
EXTENDS Integers, Sequences, SequencesExt, FiniteSets

CONSTANTS MaxSize, MinSize,
          MaxMade,   \* bound: the instances the factory makes
          MaxFrames  \* bound: the calls of the factory inside one another

VARIABLES freeList,      \* sequence of instances
          acquiredCount,
          made,          \* instances are numbered as the factory makes them
          borrowed,      \* instance -> "caller", "sync" or "async", for those lent
          frames,        \* calls of the factory [makes: who] and of fn [uses: o]
          nesting,       \* the most calls of the factory that were open at once
          mpOut          \* what the last call did

mpVars == <<freeList, acquiredCount, made, borrowed, frames, nesting, mpOut>>

Borrower == {"caller", "sync"}

\* The calls of the factory that have not returned.
Open == {i \in DOMAIN frames : frames[i].kind = "factory"}
Top == Last(frames)

\* make with a factory that works; a throwing one makes no pool.
Init == /\ MinSize <= MaxSize
        /\ freeList = [i \in 1..MinSize |-> i] /\ made = MinSize
        /\ acquiredCount = 0
        /\ borrowed = << >> /\ frames = << >> /\ nesting = 0 /\ mpOut = "ok"

Lend(o, who) ==
    borrowed' = [p \in DOMAIN borrowed \cup {o} |-> IF p = o THEN who ELSE borrowed[p]]

TakeBack(o) == borrowed' = [p \in DOMAIN borrowed \ {o} |-> borrowed[p]]

\* withAcquire calls fn with what it acquired, on top of the frames fs.
Runs(who, o, fs) ==
    frames' = IF who = "sync" THEN Append(fs, [kind |-> "fn", o |-> o]) ELSE fs

(***************************************************************************)
(* acquire, and the beginning of withAcquire: a free instance, an error,   *)
(* or a call of the factory, counted only when it has returned.            *)
(***************************************************************************)
AcquireFree(who) ==
    /\ freeList # << >>
    /\ acquiredCount' = acquiredCount + 1
    /\ freeList' = Front(freeList)
    /\ Lend(Last(freeList), who) /\ Runs(who, Last(freeList), frames)
    /\ mpOut' = "ok" /\ UNCHANGED <<made, nesting>>

Exhausted ==
    /\ freeList = << >> /\ acquiredCount >= MaxSize
    /\ mpOut' = "exhausted"
    /\ UNCHANGED <<freeList, acquiredCount, made, borrowed, frames, nesting>>

CallFactory(who) ==
    /\ freeList = << >> /\ acquiredCount < MaxSize
    /\ Cardinality(Open) < MaxFrames
    /\ frames' = Append(frames, [kind |-> "factory", who |-> who])
    /\ nesting' = IF nesting > Cardinality(Open) THEN nesting ELSE Cardinality(Open) + 1
    /\ mpOut' = "ok" /\ UNCHANGED <<freeList, acquiredCount, made, borrowed>>

InFactory == frames # << >> /\ Top.kind = "factory"

FactoryReturns ==
    /\ InFactory /\ made < MaxMade
    /\ made' = made + 1 /\ acquiredCount' = acquiredCount + 1
    /\ Lend(made + 1, Top.who) /\ Runs(Top.who, made + 1, Front(frames))
    /\ mpOut' = "ok" /\ UNCHANGED <<freeList, nesting>>

FactoryThrows ==
    /\ InFactory /\ frames' = Front(frames)
    /\ mpOut' = "factoryError"
    /\ UNCHANGED <<freeList, acquiredCount, made, borrowed, nesting>>

\* A release that keeps the slot of an instance it drops.
ReleaseAfterReset(o, resetThrows) ==
    /\ acquiredCount' = IF resetThrows THEN acquiredCount ELSE acquiredCount - 1
    /\ freeList' = IF resetThrows THEN freeList ELSE Append(freeList, o)
    /\ TakeBack(o)
    /\ UNCHANGED <<made, nesting>>

(***************************************************************************)
(* release: an instance whose reset throws is dropped, but its slot is     *)
(* given back.  Nothing is read or written before the reset, so what the   *)
(* reset does with the pool comes before this step.                        *)
(***************************************************************************)
Release(o, resetThrows) ==
    /\ acquiredCount' = acquiredCount - 1
    /\ freeList' = IF resetThrows THEN freeList ELSE Append(freeList, o)
    /\ TakeBack(o)
    /\ UNCHANGED <<made, nesting>>

CallerReleases(o, resetThrows) ==
    /\ o \in DOMAIN borrowed /\ borrowed[o] = "caller"
    /\ Release(o, resetThrows)
    /\ mpOut' = IF resetThrows THEN "resetError" ELSE "ok"
    /\ UNCHANGED frames

InFn(o) == frames # << >> /\ Top.kind = "fn" /\ Top.o = o

(***************************************************************************)
(* The end of withAcquire: the innermost fn returned a value or threw, or  *)
(* the promise one returned settles, in a microtask of its own.  An error  *)
(* of fn wins over one of reset.                                           *)
(***************************************************************************)
Ends(o, how, fnFails, resetThrows) ==
    /\ o \in DOMAIN borrowed /\ borrowed[o] = how
    /\ \/ how = "sync" /\ InFn(o) /\ frames' = Front(frames)
       \/ how = "async" /\ frames = << >> /\ UNCHANGED frames
    /\ Release(o, resetThrows)
    /\ mpOut' = IF fnFails THEN "fnError" ELSE IF resetThrows THEN "resetError" ELSE "ok"

\* fn returned a thenable: withAcquire returns and the instance stays lent.
GoesAsync(o) == /\ InFn(o) /\ o \in DOMAIN borrowed /\ borrowed[o] = "sync"
                /\ frames' = Front(frames)
                /\ borrowed' = [borrowed EXCEPT ![o] = "async"]
                /\ mpOut' = "ok"
                /\ UNCHANGED <<freeList, acquiredCount, made, nesting>>

Next == \/ \E who \in Borrower : AcquireFree(who) \/ CallFactory(who)
        \/ Exhausted \/ FactoryReturns \/ FactoryThrows
        \/ \E o \in 1..MaxMade, t \in BOOLEAN :
              \/ CallerReleases(o, t)
              \/ \E how \in {"sync", "async"}, f \in BOOLEAN : Ends(o, how, f, t)
        \/ \E o \in 1..MaxMade : GoesAsync(o)

Spec == Init /\ [][Next]_mpVars
-----------------------------------------------------------------------------
(***************************************************************************)
(* Every slot is accounted for: the count is the number of instances lent, *)
(* none is lent twice or lent and free, and a pool that reports exhaustion *)
(* has at least maxSize out.  No more than maxSize exist at a time, unless *)
(* the factory itself acquires: each call of it that is open inside        *)
(* another was let through by a count that the outer ones are not in yet,  *)
(* so there may be one more for each level of nesting, and no more.        *)
(***************************************************************************)
SlotsBalanced ==
    LET free == {freeList[i] : i \in DOMAIN freeList}
        lent == DOMAIN borrowed
    IN  /\ acquiredCount = Cardinality(lent)
        /\ Cardinality(free) = Len(freeList) /\ free \cap lent = {}
        /\ Cardinality(free \cup lent) <= IF nesting > 1 THEN MaxSize + (nesting - 1) ELSE MaxSize
        /\ free \cup lent \subseteq 1..made
        /\ mpOut = "exhausted" => Cardinality(lent) >= MaxSize
=============================================================================
