----------------------------- MODULE PromisePool -----------------------------
(***************************************************************************)
(* pool of src/src/PromiseUtils.ts: calls fn on n items, at most `limit'   *)
(* at a time.  The loop of launch runs without interruption; what fn does  *)
(* with an item (throw at once, abort the signal from inside, return a     *)
(* promise) is fixed in `behaviour'.  Promises settle in any order.        *)
(***************************************************************************)
EXTENDS Integers, FiniteSets

CONSTANTS N,     \* the number of items
          Limits \* the limits tried

VARIABLES pool,      \* the closure of one call of pool
          behaviour, \* what fn does with each item
          signal     \* [aborted, at]: at is the index of the next item when it was aborted

pVars == <<pool, behaviour, signal>>

Items == 0..(N - 1)
Behaviours == [throws : BOOLEAN, aborts : BOOLEAN]

\* The items left when the signal is found aborted get their results at once.
AbortRestUncounted(p) ==
    [p EXCEPT !.results = [j \in Items |-> IF j >= p.next THEN "aborted" ELSE @[j]],
              !.next = N]

AbortRest(p) ==
    [p EXCEPT !.results = [j \in Items |-> IF j >= p.next THEN "aborted" ELSE @[j]],
              !.next = N, !.settled = @ + N - p.next]

\* The test at the head of each turn of the loop.
StopsOnceStarted(p, s) == s.aborted /\ p.active = 0
Stops(p, s) == s.aborted

\* A turn of the loop, on the closure and the signal; nothing once the loop has ended.
Turn(st) ==
    LET p == st.pool
        s == st.signal
        i == p.next
        taken == [p EXCEPT !.next = i + 1, !.started = @ \cup {i}]
    IN  IF ~ (p.active < p.limit /\ i < N) THEN st
        ELSE IF Stops(p, s) THEN [pool |-> AbortRest(p), signal |-> s]
        ELSE [pool   |-> IF behaviour[i].throws
                         THEN [taken EXCEPT !.results[i] = "rejected", !.settled = @ + 1]
                         ELSE [taken EXCEPT !.active = @ + 1, !.flying = @ \cup {i}],
              signal |-> IF behaviour[i].aborts /\ ~ s.aborted
                         THEN [aborted |-> TRUE, at |-> i + 1] ELSE s]

\* Each turn takes an item at least, so that N turns are the whole loop.
Turns(p, s) ==
    LET after[k \in 0..N] == IF k = 0 THEN [pool |-> p, signal |-> s] ELSE Turn(after[k - 1])
    IN  after

Launch(p, s) ==
    LET last == Turns(p, s)[N]
    IN  [pool   |-> [last.pool EXCEPT !.resolved = @ \/ last.pool.settled = N],
         signal |-> last.signal]

Fresh(limit) == [limit |-> limit, next |-> 0, active |-> 0, settled |-> 0,
                 results |-> [i \in Items |-> "none"], resolved |-> FALSE,
                 started |-> {}, flying |-> {}]
-----------------------------------------------------------------------------
Init == /\ behaviour \in [Items -> Behaviours]
        /\ signal \in {[aborted |-> FALSE, at |-> N], [aborted |-> TRUE, at |-> 0]}
        /\ \E limit \in Limits : pool = Fresh(limit)

\* The call itself: empty input returns before a promise is made.
Call == /\ pool.next = 0 /\ pool.results = [i \in Items |-> "none"] /\ ~ pool.resolved
        /\ IF N = 0 THEN pool' = [pool EXCEPT !.resolved = TRUE] /\ UNCHANGED signal
           ELSE LET r == Launch(pool, signal) IN pool' = r.pool /\ signal' = r.signal
        /\ UNCHANGED behaviour

\* finish: the promise of item i settles.
Finish(i, outcome) ==
    /\ i \in pool.flying
    /\ LET r == Launch([pool EXCEPT !.results[i] = outcome, !.settled = @ + 1,
                                    !.active = @ - 1, !.flying = @ \ {i}], signal)
       IN  pool' = r.pool /\ signal' = r.signal
    /\ UNCHANGED behaviour

\* The owner of the signal aborts between two callbacks.
Abort == /\ ~ signal.aborted
         /\ signal' = [aborted |-> TRUE, at |-> pool.next]
         /\ UNCHANGED <<pool, behaviour>>

Settles == \E i \in Items, outcome \in {"fulfilled", "rejected"} : Finish(i, outcome)

Next == Call \/ Settles \/ Abort

Fairness == WF_pVars(Call) /\ WF_pVars(Settles)

Spec == Init /\ [][Next]_pVars /\ Fairness
-----------------------------------------------------------------------------
(***************************************************************************)
(* The counters agree with the calls: at most `limit' calls are in flight, *)
(* settled counts the filled results, a slot is filled by what became of   *)
(* its own item, no call starts after the signal was aborted (from inside  *)
(* fn too), and the promise resolves exactly when every slot is filled and *)
(* nothing is in flight.                                                   *)
(***************************************************************************)
Sound ==
    LET filled == {i \in Items : pool.results[i] # "none"}
    IN  /\ pool.active = Cardinality(pool.flying) /\ pool.active <= pool.limit
        /\ pool.settled = Cardinality(filled)
        /\ N > 0 => (pool.resolved <=> filled = Items)
        /\ filled \cap pool.flying = {}
        /\ pool.started \subseteq filled \cup pool.flying
        /\ \A i \in filled : pool.results[i] = "aborted" <=> i \notin pool.started
        /\ \A i \in pool.started \cap filled :
              behaviour[i].throws => pool.results[i] = "rejected"
        /\ \A i \in pool.started : i < signal.at
=============================================================================
