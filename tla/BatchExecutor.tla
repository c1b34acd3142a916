--------------------------- MODULE BatchExecutor ---------------------------
(***************************************************************************)
(* The batching executor of src/src/BatchExecutor.ts on top of the call    *)
(* buffer of BufferizedFunction.                                           *)
(*                                                                         *)
(* The program is single threaded, but the loop of pump() calls fn, and fn *)
(* may call the executor again before it returns its promise: an iteration *)
(* of the loop is a step, pumping says that the loop is running, and Call  *)
(* is the only action that may come between two iterations.  An invocation *)
(* that has settled its requests releases its slot in a later microtask,   *)
(* so other callbacks run in between.  A synchronous throw of fn rejects   *)
(* its requests inside the loop; nobody sees that before the loop is over, *)
(* and it is the same step as a rejection of fn's promise.                 *)
(***************************************************************************)
EXTENDS BufferizedFunction, FiniteSets

CONSTANTS MaxRequests,  \* bound: calls of the executor
          BatchSizes,   \* the finite values of options.maxBatchSize
          FlightSizes   \* the finite values of options.maxInFlight

ASSUME RequestsAssumption == MaxRequests \in Nat
\* validateLimit: an integer >= 1, and not so large that it is never reached
ASSUME LimitsAssumption ==
  BatchSizes \subseteq 1..MaxRequests /\ FlightSizes \subseteq 1..MaxRequests

Request == 1..MaxRequests
Infinity == MaxRequests + 1      \* a limit no count reaches
Status == {"fulfilled", "rejected", "malformed"}   \* one entry of fn's result
Outcome == {"none", "pending", "fulfilled", "rejected", "failed"}

VARIABLES maxBatchSize, maxInFlight,  \* the options, fixed by make
          pending, head, queued,      \* the FIFO queue of the limited path
          inFlight,
          pumping,                    \* the loop of pump() is on the stack
          args,                       \* for each invocation of fn, in order: its requests,
          phase,                      \*   "running", "settled" or "released",
          hung,                       \*   and the invocations that never settle
          called,                     \* calls so far: request r is the r-th call
          promise                     \* the promise each call returned
options == <<maxBatchSize, maxInFlight>>
queueVars == <<pending, head, queued>>
vars == <<bufferVars, options, queueVars, inFlight, pumping, args, phase, hung,
          called, promise>>

Init ==
  /\ BufferInit
  /\ maxBatchSize \in BatchSizes \cup {Infinity}
  /\ maxInFlight \in FlightSizes \cup {Infinity}
  /\ pending = <<>> /\ head = 0 /\ queued = 0
  /\ inFlight = 0 /\ pumping = FALSE
  /\ args = <<>> /\ phase = <<>> /\ hung = {}
  /\ called = 0
  /\ promise = [r \in Request |-> "none"]

\* make(): without a limit one invocation per tick, no queue and no slots
Unlimited == maxBatchSize = Infinity /\ maxInFlight = Infinity

----------------------------------------------------------------------------
\* The queue

\* the chunk after the first j ticks of pending have been copied from
Gather(n) ==
  LET from(j) == IF j = 1 THEN head ELSE 0
      gather[j \in 0..Len(pending)] ==
        IF j = 0 THEN <<>>
        ELSE LET room == n - Len(gather[j - 1])
                 end == IF Len(pending[j]) - from(j) <= room THEN Len(pending[j])
                        ELSE from(j) + room
             IN  gather[j - 1] \o SubSeq(pending[j], from(j) + 1, end)
  IN  gather

\* the tick take(n) stops in
LastTick(n) == CHOOSE j \in 1..Len(pending) :
                 Len(Gather(n)[j]) = n /\ Len(Gather(n)[j - 1]) < n

\* take(n): the ticks it uses up are shifted off, head is how far it got in
\* the next one
Take(n) ==
  LET j == LastTick(n)
      used == n - Len(Gather(n)[j - 1]) + (IF j = 1 THEN head ELSE 0)
      shifted == IF used = Len(pending[j]) THEN j ELSE j - 1
  IN  /\ queued' = queued - n
      /\ pending' = SubSeq(pending, shifted + 1, Len(pending))
      /\ head' = IF shifted = j THEN 0 ELSE used

----------------------------------------------------------------------------
\* Calls and ticks

\* one call of the executor, from anywhere: the promise executor runs at once
Call ==
  /\ called < MaxRequests
  /\ called' = called + 1
  /\ promise' = [promise EXCEPT ![called + 1] = "pending"]
  /\ BufferizedFn(<<called + 1>>)
  /\ UNCHANGED <<options, queueVars, inFlight, pumping, args, phase, hung>>

\* runChunk up to its await: fn is called with the chunk's arguments
Invoke(chunk) ==
  /\ args' = Append(args, chunk)
  /\ phase' = Append(phase, "running")
  /\ hung' \in {hung, hung \cup {Len(args) + 1}}

\* the buffered worker of make() without limits
Tick ==
  /\ ~pumping /\ Unlimited
  /\ Worker
  /\ Invoke(buffer)
  /\ UNCHANGED <<options, queueVars, inFlight, pumping, called, promise>>

\* the buffered worker of makeLimited(), up to the loop of pump()
LimitedTick ==
  /\ ~pumping /\ ~Unlimited
  /\ Worker
  /\ pending' = Append(pending, buffer)
  /\ queued' = queued + Len(buffer)
  /\ pumping' = TRUE
  /\ UNCHANGED <<options, head, inFlight, args, phase, hung, called, promise>>

\* a loop that starts one invocation too many
MayDispatch_OneMore == inFlight <= maxInFlight /\ queued > 0

\* the condition of the loop of pump()
MayDispatch == inFlight < maxInFlight /\ queued > 0

\* a chunk that stops at the end of its first tick
ChunkSize_OneTick ==
  LET left == Len(pending[1]) - head
  IN  IF left < maxBatchSize THEN left ELSE maxBatchSize

\* the next chunk takes all that is queued, up to maxBatchSize
ChunkSize == IF queued < maxBatchSize THEN queued ELSE maxBatchSize

Pump ==
  /\ pumping /\ MayDispatch
  /\ inFlight' = inFlight + 1
  /\ Take(ChunkSize)
  /\ Invoke(Gather(ChunkSize)[LastTick(ChunkSize)])
  /\ UNCHANGED <<bufferVars, options, pumping, called, promise>>

PumpEnds ==
  /\ pumping /\ ~MayDispatch
  /\ pumping' = FALSE
  /\ UNCHANGED <<bufferVars, options, queueVars, inFlight, args, phase, hung, called, promise>>

----------------------------------------------------------------------------
\* The end of an invocation

\* a catch that starts after the entry that threw
Settled_SkipsBad(chunk, threw, result) ==
  LET good == IF threw \/ Len(result) # Len(chunk) THEN 0
              ELSE Cardinality({i \in 1..Len(result) :
                                  \A k \in 1..i : result[k] # "malformed"})
  IN  [r \in Request |->
         IF promise[r] # "pending" \/ \A i \in 1..Len(chunk) : chunk[i] # r
         THEN promise[r]
         ELSE LET i == CHOOSE i \in 1..Len(chunk) : chunk[i] = r
              IN  IF i <= good THEN result[i]
                  ELSE IF good > 0 /\ i = good + 1 THEN "pending" ELSE "failed"]

\* the promises once runChunk has settled its chunk: entries of the result are
\* used in order up to the first one that is not a PromiseSettledResult; the
\* catch rejects the requests from there, all of them if fn threw, rejected or
\* returned another number of entries
Settled(chunk, threw, result) ==
  LET good == IF threw \/ Len(result) # Len(chunk) THEN 0
              ELSE Cardinality({i \in 1..Len(result) :
                                  \A k \in 1..i : result[k] # "malformed"})
  IN  [r \in Request |->
         IF promise[r] # "pending" \/ \A i \in 1..Len(chunk) : chunk[i] # r
         THEN promise[r]
         ELSE LET i == CHOOSE i \in 1..Len(chunk) : chunk[i] = r
              IN  IF i <= good THEN result[i] ELSE "failed"]

Results(c) == UNION {[1..n -> Status] : n \in (Len(args[c]) - 1)..(Len(args[c]) + 1)}

\* runChunk (or the worker of make()) after its await, in either outcome
Settle(c) ==
  /\ ~pumping
  /\ c \notin hung /\ phase[c] = "running"
  /\ phase' = [phase EXCEPT ![c] = IF Unlimited THEN "released" ELSE "settled"]
  /\ \E threw \in BOOLEAN, result \in Results(c) :
       promise' = Settled(args[c], threw, result)
  /\ UNCHANGED <<bufferVars, options, queueVars, inFlight, pumping, args, hung, called>>

\* a slot released twice, by a then and by a finally
Release_Twice(c) ==
  /\ ~pumping
  /\ phase[c] = "settled"
  /\ phase' = [phase EXCEPT ![c] = "released"]
  /\ inFlight' = inFlight - 2
  /\ pumping' = TRUE
  /\ UNCHANGED <<bufferVars, options, queueVars, args, hung, called, promise>>

\* a release that only frees the slot
Release_NoPump(c) ==
  /\ ~pumping
  /\ phase[c] = "settled"
  /\ phase' = [phase EXCEPT ![c] = "released"]
  /\ inFlight' = inFlight - 1
  /\ UNCHANGED <<bufferVars, options, queueVars, pumping, args, hung, called, promise>>

\* release(), up to the loop of pump()
Release(c) ==
  /\ ~pumping
  /\ phase[c] = "settled"
  /\ phase' = [phase EXCEPT ![c] = "released"]
  /\ inFlight' = inFlight - 1
  /\ pumping' = TRUE
  /\ UNCHANGED <<bufferVars, options, queueVars, args, hung, called, promise>>

\* every call has been answered, or waits for an invocation that hangs
Done ==
  /\ called = MaxRequests /\ timers = 0 /\ ~pumping
  /\ \A c \in 1..Len(phase) : phase[c] = "released" \/ c \in hung
  /\ UNCHANGED vars

Next ==
  \/ Call \/ Tick \/ LimitedTick \/ Pump \/ PumpEnds
  \/ \E c \in 1..Len(phase) : Settle(c) \/ Release(c)
  \/ Done

Spec == Init /\ [][Next]_vars

\* The event loop runs every timer, microtask and loop iteration it was given,
\* and an invocation that does not hang settles.  Nothing makes a caller call.
FairSpec ==
  /\ Spec
  /\ WF_vars(Tick) /\ WF_vars(LimitedTick) /\ WF_vars(Pump) /\ WF_vars(PumpEnds)
  /\ \A c \in Request : WF_vars(c <= Len(phase) /\ Settle(c))
                        /\ WF_vars(c <= Len(phase) /\ Release(c))

----------------------------------------------------------------------------
\* Properties

\* The type of every variable: the counters of the queue and of the slots stay
\* between zero and the number of calls.
TypeOK ==
  /\ buffer \in Seq(Request) /\ scheduled \in BOOLEAN /\ timers \in Nat
  /\ maxBatchSize \in 1..Infinity /\ maxInFlight \in 1..Infinity
  /\ pending \in Seq(Seq(Request)) /\ head \in 0..MaxRequests /\ queued \in 0..MaxRequests
  /\ inFlight \in 0..MaxRequests /\ pumping \in BOOLEAN
  /\ args \in Seq(Seq(Request)) /\ hung \subseteq 1..Len(args)
  /\ phase \in Seq({"running", "settled", "released"}) /\ Len(phase) = Len(args)
  /\ called \in 0..MaxRequests /\ promise \in [Request -> Outcome]

\* The invariant makeLimited's comment claims: whenever the loop of pump() is
\* not running, requests wait in the queue only because every slot is taken.
\* Ticks, releases and settlements come in any order.
SlotsFull == ~pumping /\ queued > 0 => inFlight = maxInFlight

\* inFlight counts the invocations that have not released their slot, hanging
\* ones included, and never passes maxInFlight.
SlotsCounted ==
  ~Unlimited => /\ inFlight = Cardinality({c \in 1..Len(phase) : phase[c] # "released"})
                /\ inFlight <= maxInFlight

InBuffer(r) == {i \in 1..Len(buffer) : buffer[i] = r}
InQueue(r) == {q \in (1..Len(pending)) \X Request :
                 /\ q[2] <= Len(pending[q[1]]) /\ (q[1] = 1 => q[2] > head)
                 /\ pending[q[1]][q[2]] = r}
InInvocation(r) == {a \in (1..Len(args)) \X Request :
                      /\ a[2] <= Len(args[a[1]]) /\ phase[a[1]] = "running"
                      /\ args[a[1]][a[2]] = r}

\* A call without an answer is in exactly one place, and its place has someone
\* to move it on: the buffer (whose one timer is armed), a tick of the queue
\* (where queued counts it), or one running invocation.  An answered call is in
\* none, so runChunk leaves no request of its chunk unsettled however fn fails.
NoRequestLost ==
  /\ \A r \in Request :
       Cardinality(InBuffer(r)) + Cardinality(InQueue(r)) + Cardinality(InInvocation(r))
         = IF promise[r] = "pending" THEN 1 ELSE 0
  /\ queued = Cardinality(UNION {InQueue(r) : r \in Request})
  /\ timers = IF buffer = <<>> THEN 0 ELSE 1

Dispatched == {r \in Request : \E c \in 1..Len(args) : \E i \in 1..Len(args[c]) : args[c][i] = r}

\* Strict FIFO with coalescing: the chunk of every new invocation is the next
\* requests in the order of the calls, across ticks, and it is as long as what
\* the ticks have collected and maxBatchSize allow.
FifoDispatch ==
  [][LET d == Cardinality(Dispatched)
         collected == called - Len(buffer') - d
     IN  Len(args') > Len(args) =>
           args' = Append(args,
             [i \in 1..(IF collected < maxBatchSize THEN collected ELSE maxBatchSize) |-> d + i])
    ]_vars

\* A call is answered unless its own invocation hangs or hanging invocations
\* hold every slot: one hanging invocation takes one slot and nothing else.
EveryCallSettles ==
  \A r \in Request :
    promise[r] = "pending" ~>
      \/ promise[r] # "pending"
      \/ \E c \in hung : \E i \in 1..Len(args[c]) : args[c][i] = r
      \/ Cardinality(hung) = maxInFlight
=============================================================================
