----------------------------- MODULE CallLimits -----------------------------
(***************************************************************************)
(* The function wrappers of src/src/Memoization.ts (memoize, once) and     *)
(* src/src/TimedFunction.ts (throttle, debounce).  A call of the wrapped   *)
(* function is a frame on a stack: it may call the wrapper again before it *)
(* returns or throws.  Timers are the host's: one that is armed fires      *)
(* later, one that is cleared does not.                                    *)
(***************************************************************************)
EXTENDS Integers, Sequences, SequencesExt, FiniteSets

CONSTANTS Arg,       \* arguments, and the memoize keys made of them
          Value, Undef,
          MaxDepth,  \* bound: nested calls
          MaxCalls   \* bound: calls of a wrapped function

VARIABLES stack,  \* calls of wrapped functions that are running, innermost last
          once,   \* [f |-> "set" or "released", running, result]
          memo,   \* argument -> a cached result or "none"
          timers, \* [throttle |-> armed, debounce |-> its handle, 0 for undefined]
          armed,  \* the timers of debounce that the host will fire: [id, arg]
          calls,  \* for the properties: calls made, once's successes, throttle's since
                  \* its timer last ran out
          due     \* for the properties: the last argument given to debounced, until
                  \* fn is called with it

cVars == <<stack, once, memo, timers, armed, calls, due>>

Init == /\ stack = << >>
        /\ once = [f |-> "set", running |-> FALSE, result |-> Undef]
        /\ memo = [a \in Arg |-> "none"]
        /\ timers = [throttle |-> FALSE, debounce |-> 0] /\ armed = {} /\ due = {}
        /\ calls = [made |-> 0, succeeded |-> 0, inWindow |-> 0]

Enter(w, a) == /\ Len(stack) < MaxDepth
               /\ stack' = Append(stack, [wrapper |-> w, arg |-> a])

Counted == calls.made < MaxCalls

\* A once that does not notice it is running.
OnceReady == once.f = "set"

\* A re-entrant call throws before fn is reached and changes nothing.
OnceRuns == once.f = "set" /\ ~ once.running

OnceCall == /\ OnceRuns /\ Counted
            /\ Enter("once", Undef)
            /\ once' = [once EXCEPT !.running = TRUE]
            /\ calls' = [calls EXCEPT !.made = @ + 1]
            /\ UNCHANGED <<memo, timers, armed, due>>

\* A cached undefined counts as cached.
MemoCall(a) == /\ memo[a] = "none" /\ Counted
               /\ Enter("memo", a)
               /\ calls' = [calls EXCEPT !.made = @ + 1]
               /\ UNCHANGED <<once, memo, timers, armed, due>>

\* The quiet window is armed before fn is called.
Throttled(a) == /\ ~ timers.throttle /\ Counted
                /\ Enter("throttle", a)
                /\ timers' = [timers EXCEPT !.throttle = TRUE]
                /\ calls' = [calls EXCEPT !.made = @ + 1, !.inWindow = @ + 1]
                /\ UNCHANGED <<once, memo, armed, due>>

\* clearTimeout of the pending timer; a handle of one that fired is gone.
Cleared == {t \in armed : t.id # timers.debounce}

\* A new timer is armed with the latest argument.
Debounced(a) == /\ Counted
                /\ armed' = Cleared \cup {[id |-> calls.made + 1, arg |-> a]}
                /\ timers' = [timers EXCEPT !.debounce = calls.made + 1]
                /\ calls' = [calls EXCEPT !.made = @ + 1]
                /\ due' = {a}
                /\ UNCHANGED <<stack, once, memo>>

\* Timer callbacks run when no other code is running.
ClearTimer == /\ stack = << >> /\ timers.throttle
              /\ timers' = [timers EXCEPT !.throttle = FALSE]
              /\ calls' = [calls EXCEPT !.inWindow = 0]
              /\ UNCHANGED <<stack, once, memo, armed, due>>

\* The handle is forgotten before fn is called, which may call debounced again.
Fire(t) == /\ stack = << >> /\ Enter("debounce", t.arg)
           /\ armed' = armed \ {t}
           /\ timers' = [timers EXCEPT !.debounce = 0]
           /\ due' = {}
           /\ UNCHANGED <<once, memo, calls>>

\* The innermost call returns a value.
Return(v) ==
    /\ stack # << >>
    /\ LET top == Last(stack)
       IN  /\ once' = IF top.wrapper = "once"
                      THEN [f |-> "released", running |-> FALSE, result |-> v] ELSE once
           /\ memo' = IF top.wrapper = "memo" THEN [memo EXCEPT ![top.arg] = v] ELSE memo
           /\ calls' = IF top.wrapper = "once" THEN [calls EXCEPT !.succeeded = @ + 1]
                       ELSE calls
    /\ stack' = Front(stack)
    /\ UNCHANGED <<timers, armed, due>>

\* It throws: once may be tried again, memoize stores nothing, the timers stay.
Throw == /\ stack # << >>
         /\ once' = IF Last(stack).wrapper = "once" THEN [once EXCEPT !.running = FALSE]
                    ELSE once
         /\ stack' = Front(stack)
         /\ UNCHANGED <<memo, timers, armed, calls, due>>

Next == \/ OnceCall \/ ClearTimer \/ Throw
        \/ \E t \in armed : Fire(t)
        \/ \E a \in Arg : MemoCall(a) \/ Throttled(a) \/ Debounced(a)
        \/ \E v \in Value \cup {Undef} : Return(v)

Spec == Init /\ [][Next]_cVars
-----------------------------------------------------------------------------
(***************************************************************************)
(* However the wrapped functions call the wrappers again, throw and are    *)
(* retried: once succeeds at most once and never runs inside itself,       *)
(* throttle calls fn at most once before its timer runs out, and debounce  *)
(* has one timer armed while a call is not answered yet, with the argument *)
(* of the latest, and none otherwise.                                      *)
(***************************************************************************)
Limited ==
    LET running == {i \in DOMAIN stack : stack[i].wrapper = "once"}
    IN  /\ calls.succeeded <= 1 /\ (calls.succeeded = 1 <=> once.f = "released")
        /\ Cardinality(running) <= 1 /\ (once.running <=> running # {})
        /\ calls.inWindow <= 1 /\ (calls.inWindow = 1 <=> timers.throttle)
        /\ {t.arg : t \in armed} = due /\ Cardinality(armed) <= 1
=============================================================================
