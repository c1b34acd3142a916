------------------------ MODULE BatchExecutorProofs ------------------------
(***************************************************************************)
(* The slots of the limited executor are counted and used, and no request  *)
(* is lost, duplicated or reordered, for every pair of limits and any      *)
(* number of calls.                                                        *)
(*                                                                         *)
(* For the slots it does not matter what take() puts into a chunk: only    *)
(* its size does.  For the order, requests are numbered by their calls, so *)
(* at any time 1..called is cut into what was dispatched, what is queued   *)
(* and what is buffered, and each invocation and each tick of the queue is *)
(* a run of consecutive numbers that begins where the one before it ends.  *)
(* take() copies across ticks: its recursive definition is shown to have   *)
(* the solution that closed form gives, and to have no other.              *)
(***************************************************************************)
EXTENDS BatchExecutor, FiniteSetTheorems, SequenceTheorems, WellFoundedInduction, TLAPS

Phase == {"running", "settled", "released"}
Open(p) == {c \in 1..Len(p) : p[c] # "released"}

CounterInv ==
  /\ queued \in Nat /\ inFlight \in Nat /\ pumping \in BOOLEAN
  /\ maxBatchSize \in Nat \ {0} /\ maxInFlight \in Nat \ {0}
  /\ called \in 0..MaxRequests /\ buffer \in Seq(Request)
  /\ phase \in Seq(Phase)

\* the path of make() without limits never touches the queue or the slots
UnlimitedInv ==
  Unlimited => /\ queued = 0 /\ ~pumping
               /\ \A c \in 1..Len(phase) : phase[c] # "settled"

Inv == CounterInv /\ UnlimitedInv /\ SlotsCounted /\ SlotsFull

----------------------------------------------------------------------------
\* The invocations that hold a slot

\* There are finitely many of them.
LEMMA OpenFinite ==
  ASSUME NEW p \in Seq(Phase)
  PROVE  IsFiniteSet(Open(p)) /\ Cardinality(Open(p)) \in Nat
<1>1. IsFiniteSet(1..Len(p))
  BY FS_Interval
<1>2. IsFiniteSet(Open(p))
  BY <1>1, FS_Subset DEF Open
<1>. QED
  BY <1>2, FS_CardinalityType

\* An invocation that starts takes one slot.
LEMMA OpenAppend ==
  ASSUME NEW p \in Seq(Phase)
  PROVE  Cardinality(Open(Append(p, "running"))) = Cardinality(Open(p)) + 1
<1>1. Open(Append(p, "running")) = Open(p) \cup {Len(p) + 1}
  BY DEF Open, Phase
<1>2. Len(p) + 1 \notin Open(p)
  BY DEF Open
<1>. QED
  BY <1>1, <1>2, OpenFinite, FS_AddElement

\* An invocation that has settled still holds its slot.
LEMMA OpenSettled ==
  ASSUME NEW p \in Seq(Phase), NEW c \in 1..Len(p), p[c] = "running"
  PROVE  Open([p EXCEPT ![c] = "settled"]) = Open(p)
BY DEF Open, Phase

\* A release gives one slot back.
LEMMA OpenReleased ==
  ASSUME NEW p \in Seq(Phase), NEW c \in 1..Len(p), p[c] = "settled"
  PROVE  /\ Cardinality(Open([p EXCEPT ![c] = "released"])) = Cardinality(Open(p)) - 1
         /\ Cardinality(Open(p)) > 0
<1>1. Open([p EXCEPT ![c] = "released"]) = Open(p) \ {c}
  BY DEF Open, Phase
<1>2. c \in Open(p)
  BY DEF Open
<1>3. Cardinality(Open(p) \ {c}) = Cardinality(Open(p)) - 1
  BY <1>2, OpenFinite, FS_RemoveElement
<1>4. Cardinality(Open(p)) # 0
  BY <1>2, OpenFinite, FS_EmptySet
<1>5. Cardinality(Open(p)) \in Nat
  BY OpenFinite
<1>6. Cardinality(Open(p)) > 0
  BY <1>4, <1>5
<1>. QED
  BY <1>1, <1>3, <1>6

----------------------------------------------------------------------------
\* One lemma per action

\* make() starts with empty slots and an empty queue.
LEMMA InitInv == Init => Inv
<1>. SUFFICES ASSUME Init PROVE Inv
  OBVIOUS
<1>1. CounterInv
  <2>1. maxBatchSize \in Nat \ {0} /\ maxInFlight \in Nat \ {0}
    BY RequestsAssumption, LimitsAssumption DEF Init, Infinity
  <2>2. buffer \in Seq(Request) /\ phase \in Seq(Phase)
    BY DEF Init, BufferInit
  <2>3. queued \in Nat /\ inFlight \in Nat /\ called \in 0..MaxRequests
    BY RequestsAssumption DEF Init
  <2>4. pumping \in BOOLEAN
    BY DEF Init
  <2>. QED
    BY <2>1, <2>2, <2>3, <2>4 DEF CounterInv
<1>2. UnlimitedInv
  BY DEF Init, UnlimitedInv
<1>3. Open(phase) = {}
  BY DEF Init, Open
<1>4. Cardinality(Open(phase)) = 0
  BY <1>3, FS_EmptySet
<1>5. SlotsCounted
  BY <1>1, <1>4 DEF Init, SlotsCounted, Open, CounterInv
<1>. QED
  BY <1>1, <1>2, <1>5 DEF Init, Inv, SlotsFull

\* A call only fills the buffer, also while the loop of pump() is running.
LEMMA CallInv == Inv /\ Call => Inv'
<1>. SUFFICES ASSUME Inv, Call PROVE Inv'
  OBVIOUS
<1>1. CounterInv'
  <2>1. called + 1 \in Request
    BY RequestsAssumption DEF Inv, CounterInv, Call, Request
  <2>. QED
    BY <2>1, RequestsAssumption DEF Inv, CounterInv, Call, BufferizedFn, options, queueVars
<1>. QED
  BY <1>1 DEF Inv, UnlimitedInv, SlotsCounted, SlotsFull, Call, Unlimited, options, queueVars

\* Without limits a tick starts an invocation and counts nothing.
LEMMA TickInv == Inv /\ Tick => Inv'
<1>. SUFFICES ASSUME Inv, Tick PROVE Inv'
  OBVIOUS
<1>1. CounterInv'
  BY DEF Inv, CounterInv, Tick, Worker, Invoke, Phase, options, queueVars
<1>2. Unlimited /\ Unlimited'
  BY DEF Tick, Unlimited, options
<1>3. \A c \in 1..Len(phase') : phase'[c] # "settled"
  BY <1>2 DEF Inv, CounterInv, UnlimitedInv, Tick, Invoke, Phase
<1>. QED
  BY <1>1, <1>2, <1>3 DEF Inv, UnlimitedInv, SlotsCounted, SlotsFull, Tick, queueVars

\* A tick of the limited path enters the loop: nothing is promised until it ends.
LEMMA LimitedTickInv == Inv /\ LimitedTick => Inv'
<1>. SUFFICES ASSUME Inv, LimitedTick PROVE Inv'
  OBVIOUS
<1>1. CounterInv'
  BY DEF Inv, CounterInv, LimitedTick, Worker, options
<1>2. ~Unlimited /\ ~Unlimited'
  BY DEF LimitedTick, Unlimited, options
<1>3. SlotsCounted'
  BY <1>2 DEF Inv, SlotsCounted, LimitedTick, options
<1>. QED
  BY <1>1, <1>2, <1>3 DEF Inv, UnlimitedInv, SlotsFull, LimitedTick

\* An iteration of the loop takes a free slot and no more than is queued.
LEMMA PumpInv == Inv /\ Pump => Inv'
<1>. SUFFICES ASSUME Inv, Pump PROVE Inv'
  OBVIOUS
<1>1. /\ queued' = queued - ChunkSize /\ inFlight' = inFlight + 1
      /\ phase' = Append(phase, "running") /\ pumping' = pumping /\ pumping
      /\ inFlight < maxInFlight /\ queued > 0
      /\ UNCHANGED <<buffer, called, maxBatchSize, maxInFlight>>
  BY DEF Pump, Take, Invoke, MayDispatch, bufferVars, options
<1>2. ChunkSize \in Nat /\ ChunkSize <= queued
  BY DEF Inv, CounterInv, ChunkSize
<1>3. CounterInv'
  BY <1>1, <1>2 DEF Inv, CounterInv, Phase
<1>4. ~Unlimited /\ ~Unlimited'
  BY <1>1 DEF Inv, UnlimitedInv, Unlimited
<1>5. SlotsCounted'
  <2>1. phase \in Seq(Phase) /\ inFlight \in Nat /\ maxInFlight \in Nat
    BY DEF Inv, CounterInv
  <2>2. inFlight = Cardinality(Open(phase))
    BY <1>4 DEF Inv, SlotsCounted, Open
  <2>3. Cardinality(Open(phase')) = Cardinality(Open(phase)) + 1
    BY <1>1, <2>1, OpenAppend
  <2>4. inFlight' = Cardinality(Open(phase')) /\ inFlight' <= maxInFlight'
    BY <1>1, <2>1, <2>2, <2>3
  <2>. QED
    BY <2>4 DEF SlotsCounted, Open
<1>. QED
  BY <1>1, <1>3, <1>4, <1>5 DEF Inv, UnlimitedInv, SlotsFull

\* The loop ends with the queue empty or the slots full.
LEMMA PumpEndsInv == Inv /\ PumpEnds => Inv'
<1>. SUFFICES ASSUME Inv, PumpEnds PROVE Inv'
  OBVIOUS
<1>1. /\ pumping' = FALSE
      /\ UNCHANGED <<queued, inFlight, phase, buffer, called, maxBatchSize, maxInFlight>>
      /\ ~(inFlight < maxInFlight /\ queued > 0)
  BY DEF PumpEnds, MayDispatch, bufferVars, options, queueVars
<1>2. CounterInv'
  BY <1>1 DEF Inv, CounterInv
<1>3. SlotsCounted'
  BY <1>1 DEF Inv, SlotsCounted, Unlimited
<1>4. UnlimitedInv'
  BY <1>1 DEF Inv, UnlimitedInv, Unlimited
<1>5. SlotsFull'
  <2>1. ~Unlimited => inFlight <= maxInFlight
    BY DEF Inv, SlotsCounted
  <2>2. Unlimited => queued = 0
    BY DEF Inv, UnlimitedInv
  <2>. QED
    BY <1>1, <2>1, <2>2 DEF Inv, CounterInv, SlotsFull
<1>. QED
  BY <1>2, <1>3, <1>4, <1>5 DEF Inv

\* Settling the requests of a chunk leaves its slot taken.
LEMMA SettleInv ==
  ASSUME Inv, NEW c \in 1..Len(phase), Settle(c)
  PROVE  Inv'
<1>1. /\ UNCHANGED <<queued, inFlight, pumping, buffer, called, maxBatchSize, maxInFlight>>
      /\ phase' = [phase EXCEPT ![c] = IF Unlimited THEN "released" ELSE "settled"]
      /\ phase[c] = "running"
  BY DEF Settle, bufferVars, options, queueVars
<1>2. phase \in Seq(Phase) /\ phase' \in Seq(Phase)
  BY <1>1 DEF Inv, CounterInv, Phase
<1>3. CounterInv'
  BY <1>1, <1>2 DEF Inv, CounterInv
<1>4. Unlimited' = Unlimited
  BY <1>1 DEF Unlimited
<1>5. UnlimitedInv'
  BY <1>1, <1>2, <1>4 DEF Inv, UnlimitedInv, Phase
<1>6. SlotsCounted'
  <2>1. CASE Unlimited
    BY <1>4, <2>1 DEF SlotsCounted
  <2>2. CASE ~Unlimited
    <3>1. Open(phase') = Open(phase)
      BY <1>1, <1>2, <2>2, OpenSettled
    <3>. QED
      BY <1>1, <1>4, <3>1 DEF Inv, SlotsCounted, Open
  <2>. QED
    BY <2>1, <2>2
<1>. QED
  BY <1>1, <1>3, <1>5, <1>6 DEF Inv, SlotsFull

\* A release frees one slot and enters the loop that may fill it.
LEMMA ReleaseInv ==
  ASSUME Inv, NEW c \in 1..Len(phase), Release(c)
  PROVE  Inv'
<1>1. /\ UNCHANGED <<queued, buffer, called, maxBatchSize, maxInFlight>>
      /\ inFlight' = inFlight - 1 /\ pumping' = TRUE
      /\ phase' = [phase EXCEPT ![c] = "released"]
      /\ phase[c] = "settled"
  BY DEF Release, bufferVars, options, queueVars
<1>2. phase \in Seq(Phase) /\ phase' \in Seq(Phase)
  BY <1>1 DEF Inv, CounterInv, Phase
<1>3. ~Unlimited /\ ~Unlimited'
  BY <1>1 DEF Inv, UnlimitedInv, Unlimited
<1>4. inFlight = Cardinality(Open(phase)) /\ inFlight <= maxInFlight
  BY <1>3 DEF Inv, SlotsCounted, Open
<1>5. Cardinality(Open(phase')) = Cardinality(Open(phase)) - 1 /\ Cardinality(Open(phase)) > 0
  BY <1>1, <1>2, OpenReleased
<1>6. CounterInv'
  BY <1>1, <1>2, <1>4, <1>5 DEF Inv, CounterInv
<1>7. SlotsCounted'
  <2>1. inFlight \in Nat /\ maxInFlight \in Nat
    BY DEF Inv, CounterInv
  <2>. QED
    BY <1>1, <1>4, <1>5, <2>1 DEF SlotsCounted, Open
<1>. QED
  BY <1>1, <1>3, <1>6, <1>7 DEF Inv, UnlimitedInv, SlotsFull

\* Every step of the executor and of the event loop keeps the invariant.
LEMMA NextInv == Inv /\ [Next]_vars => Inv'
<1>. SUFFICES ASSUME Inv, [Next]_vars PROVE Inv'
  OBVIOUS
<1>1. CASE Call
  BY <1>1, CallInv
<1>2. CASE Tick
  BY <1>2, TickInv
<1>3. CASE LimitedTick
  BY <1>3, LimitedTickInv
<1>4. CASE Pump
  BY <1>4, PumpInv
<1>5. CASE PumpEnds
  BY <1>5, PumpEndsInv
<1>6. ASSUME NEW c \in 1..Len(phase), Settle(c) PROVE Inv'
  BY <1>6, SettleInv
<1>7. ASSUME NEW c \in 1..Len(phase), Release(c) PROVE Inv'
  BY <1>7, ReleaseInv
<1>8. CASE UNCHANGED vars
  BY <1>8 DEF vars, bufferVars, options, queueVars, Inv, CounterInv, UnlimitedInv,
              Unlimited, SlotsCounted, SlotsFull
<1>. QED
  BY <1>1, <1>2, <1>3, <1>4, <1>5, <1>6, <1>7, <1>8 DEF Next, Done

----------------------------------------------------------------------------
\* The counters, the slots and the loop stay consistent, whatever the limits,
\* the ticks, and the order in which invocations settle and release.
THEOREM Inductive == Spec => []Inv
<1>. QED
  BY InitInv, NextInv, PTL DEF Spec

\* makeLimited's claim: outside the loop of pump(), requests wait in the queue
\* only while maxInFlight invocations hold every slot.
THEOREM QueueMeansFull == Spec => []SlotsFull
<1>1. Inv => SlotsFull
  BY DEF Inv
<1>. QED
  BY <1>1, Inductive, PTL

\* inFlight is the number of invocations that have not released their slot and
\* never exceeds maxInFlight.
THEOREM InFlightIsExact == Spec => []SlotsCounted
<1>1. Inv => SlotsCounted
  BY DEF Inv
<1>. QED
  BY <1>1, Inductive, PTL

----------------------------------------------------------------------------
(* The order of the requests and of their promises. *)

\* the n requests after the d-th
Run(d, n) == [i \in 1..n |-> d + i]

\* where each sequence of q ends, if together they are a + 1, ..., b
Offsets(q, a, b) ==
  {at \in [0..Len(q) -> 0..MaxRequests] :
     /\ at[0] = a /\ at[Len(q)] = b
     /\ \A j \in 1..Len(q) : at[j - 1] < at[j] /\ q[j] = Run(at[j - 1], at[j] - at[j - 1])}

Chain(q, a, b) == q \in Seq(Seq(Request)) /\ Offsets(q, a, b) # {}

\* requests the ticks have collected, and those handed to fn
Collected == called - Len(buffer)
Started == Collected - queued

OrderInv ==
  /\ Len(buffer) <= called /\ buffer = Run(Collected, Len(buffer))
  /\ queued <= Collected
  /\ Chain(args, 0, Started) /\ Len(phase) = Len(args)
  /\ head \in 0..Started /\ Chain(pending, Started - head, Collected)
  /\ head = 0 \/ (pending # <<>> /\ head < Len(pending[1]))
  /\ Unlimited => pending = <<>> /\ inFlight = 0

In(q, c, r) == \E i \in 1..Len(q[c]) : q[c][i] = r

\* r is buffered or queued, or a running invocation has it
Waits(r) ==
  \/ r \in (Started + 1)..called
  \/ \E c \in 1..Len(args) : phase[c] = "running" /\ In(args, c, r)

PromiseInv ==
  /\ promise \in [Request -> Outcome] /\ hung \subseteq 1..Len(args)
  /\ \A r \in Request : promise[r] = "pending" <=> Waits(r)
  /\ scheduled \in BOOLEAN /\ (scheduled <=> buffer # <<>>)
  /\ timers = IF buffer = <<>> THEN 0 ELSE 1

BatchInv == Inv /\ maxBatchSize <= Infinity /\ maxInFlight <= Infinity /\ OrderInv /\ PromiseInv

-----------------------------------------------------------------------------
(* Runs of consecutive requests. *)

\* A non-empty set of naturals has a least element.
LEMMA NatHasLeast ==
  ASSUME NEW S \in SUBSET Nat, S # {}
  PROVE  \E m \in S : \A n \in S : m <= n
<1>1. PICK m \in S : \A n \in S : <<n, m>> \notin OpToRel(<, Nat)
  BY WFMin, NatLessThanWellFounded
<1>2. \A n \in S : ~(n < m)
  BY <1>1 DEF OpToRel
<1>. QED
  BY <1>2

\* A run is a sequence of requests.
LEMMA RunType ==
  ASSUME NEW d \in Nat, NEW n \in Nat, d + n <= MaxRequests
  PROVE  /\ Run(d, n) \in Seq(Request) /\ Len(Run(d, n)) = n
         /\ \A i \in 1..n : Run(d, n)[i] = d + i
         /\ Run(d, n) = <<>> <=> n = 0
<1>1. \A i \in 1..n : d + i \in Request
  BY RequestsAssumption DEF Request
<1>2. Run(d, n) \in Seq(Request) /\ Len(Run(d, n)) = n
  BY <1>1 DEF Run
<1>. QED
  BY <1>2 DEF Run

Joins(d, x, y) == Run(d, x) \o Run(d + x, y) = Run(d, x + y)

\* Two runs, the second beginning where the first ends, are a run.
LEMMA RunConcat ==
  ASSUME NEW d \in Nat, NEW x \in Nat, NEW y \in Nat, d + x + y <= MaxRequests
  PROVE  Joins(d, x, y)
<1>. DEFINE p == Run(d, x)
            q == Run(d + x, y)
            r == Run(d, x + y)
<1>1. /\ p \in Seq(Request) /\ q \in Seq(Request) /\ r \in Seq(Request)
      /\ Len(p) = x /\ Len(q) = y /\ Len(r) = x + y
      /\ \A i \in 1..x : p[i] = d + i
      /\ \A i \in 1..y : q[i] = d + x + i
      /\ \A i \in 1..(x + y) : r[i] = d + i
  BY RunType, RequestsAssumption
<1>. HIDE DEF p, q, r
<1>2. /\ p \o q \in Seq(Request) /\ Len(p \o q) = x + y
      /\ \A i \in 1..(x + y) : (p \o q)[i] = IF i <= x THEN p[i] ELSE q[i - x]
  BY ZenonT(20), <1>1, ConcatProperties
<1>3. \A i \in 1..(x + y) : (p \o q)[i] = r[i]
  <2>. SUFFICES ASSUME NEW i \in 1..(x + y)  PROVE (p \o q)[i] = r[i]
    OBVIOUS
  <2>1. (p \o q)[i] = IF i <= x THEN p[i] ELSE q[i - x]
    BY <1>2
  <2>2. CASE i <= x
    BY <1>1, <2>1, <2>2
  <2>3. CASE ~(i <= x)
    <3>1. i - x \in 1..y
      BY <2>3
    <3>2. q[i - x] = d + x + (i - x)
      BY <1>1, <3>1
    <3>. QED
      BY <1>1, <2>1, <2>3, <3>2
  <2>. QED
    BY <2>2, <2>3
<1>4. p \o q = r
  BY <1>1, <1>2, <1>3, SeqEqual
<1>. QED
  BY <1>4 DEF p, q, r, Joins

\* A part of a run is a run.
LEMMA RunPart ==
  ASSUME NEW d \in Nat, NEW n \in Nat, d + n <= MaxRequests, NEW f \in 0..n, NEW e \in f..n
  PROVE  SubSeq(Run(d, n), f + 1, e) = Run(d + f, e - f)
<1>. DEFINE p == Run(d, n)
            r == Run(d + f, e - f)
<1>1. /\ p \in Seq(Request) /\ Len(p) = n /\ \A i \in 1..n : p[i] = d + i
      /\ r \in Seq(Request) /\ Len(r) = e - f /\ \A i \in 1..(e - f) : r[i] = d + f + i
  <2>1. d + f \in Nat /\ e - f \in Nat /\ d + f + (e - f) <= MaxRequests
    BY RequestsAssumption
  <2>. QED
    BY <2>1, RunType
<1>. HIDE DEF p, r
<1>2. /\ SubSeq(p, f + 1, e) \in Seq(Request) /\ Len(SubSeq(p, f + 1, e)) = e - f
      /\ \A i \in 1..(e - f) : SubSeq(p, f + 1, e)[i] = p[f + i]
  <2>1. \A i \in (f + 1)..e : p[i] \in Request
    BY <1>1
  <2>2. /\ SubSeq(p, f + 1, e) \in Seq(Request)
        /\ Len(SubSeq(p, f + 1, e)) = IF f + 1 <= e THEN e - (f + 1) + 1 ELSE 0
        /\ \A i \in 1..(e - (f + 1) + 1) : SubSeq(p, f + 1, e)[i] = p[f + 1 + i - 1]
    BY <2>1, SubSeqProperties
  <2>3. e - (f + 1) + 1 = e - f /\ \A i \in Int : f + 1 + i - 1 = f + i
    OBVIOUS
  <2>. QED
    BY <2>2, <2>3
<1>3. \A i \in 1..(e - f) : SubSeq(p, f + 1, e)[i] = r[i]
  BY <1>1, <1>2
<1>4. SubSeq(p, f + 1, e) = r
  BY <1>1, <1>2, <1>3, SeqEqual
<1>. QED
  BY <1>4 DEF p, r

-----------------------------------------------------------------------------
(* Chains of runs. *)

\* The ends of the runs of a chain grow.
LEMMA OffsetsGrow ==
  ASSUME NEW q, Len(q) \in Nat, NEW a, NEW b, NEW at \in Offsets(q, a, b)
  PROVE  \A i, j \in 0..Len(q) : i < j => at[i] < at[j]
<1>1. \A j \in 0..Len(q) : at[j] \in 0..MaxRequests
  BY DEF Offsets
<1>2. \A j \in 1..Len(q) : at[j - 1] < at[j]
  BY DEF Offsets
<1>. SUFFICES ASSUME NEW i \in 0..Len(q)
              PROVE  \A j \in 0..Len(q) : i < j => at[i] < at[j]
  OBVIOUS
<1>. DEFINE Bad == {j \in 0..Len(q) : i < j /\ ~(at[i] < at[j])}
<1>3. Bad = {}
  <2>. SUFFICES ASSUME Bad # {} PROVE FALSE
    OBVIOUS
  <2>1. PICK m \in Bad : \A n \in Bad : m <= n
    <3>1. Bad \in SUBSET Nat
      OBVIOUS
    <3>. QED
      BY <3>1, NatHasLeast
  <2>2. m \in 1..Len(q) /\ m - 1 \in 0..Len(q) /\ m - 1 \notin Bad
    BY <2>1
  <2>3. at[m - 1] < at[m]
    BY <1>2, <2>2
  <2>4. i = m - 1 \/ i < m - 1
    BY <2>1, <2>2
  <2>5. at[i] \in Int /\ at[m - 1] \in Int /\ at[m] \in Int
    BY <1>1, <2>2, RequestsAssumption
  <2>6. at[i] <= at[m - 1]
    BY <2>2, <2>4, <2>5
  <2>7. at[i] < at[m]
    BY <2>3, <2>5, <2>6
  <2>. QED
    BY <2>1, <2>7
<1>. QED
  BY <1>3

\* Every request of a chain is in one of its runs.
LEMMA OffsetsCover ==
  ASSUME NEW q, Len(q) \in Nat, NEW a, NEW b, NEW at \in Offsets(q, a, b), NEW r \in Int
  PROVE  a < r /\ r <= b => \E j \in 1..Len(q) : at[j - 1] < r /\ r <= at[j]
<1>. SUFFICES ASSUME a < r, r <= b
              PROVE  \E j \in 1..Len(q) : at[j - 1] < r /\ r <= at[j]
  OBVIOUS
<1>. DEFINE U == {j \in 0..Len(q) : r <= at[j]}
<1>1. at[0] = a /\ at[Len(q)] = b /\ \A j \in 0..Len(q) : at[j] \in 0..MaxRequests
  BY DEF Offsets
<1>2. Len(q) \in U /\ U \in SUBSET Nat
  BY <1>1
<1>3. PICK m \in U : \A n \in U : m <= n
  BY <1>2, NatHasLeast
<1>4. m # 0
  BY <1>1, <1>3, RequestsAssumption
<1>5. m \in 1..Len(q) /\ m - 1 \in 0..Len(q) /\ m - 1 \notin U
  BY <1>3, <1>4
<1>6. at[m - 1] < r
  BY <1>1, <1>5, RequestsAssumption
<1>. QED
  BY <1>3, <1>5, <1>6

\* What a chain holds, and where.
LEMMA OffsetsElements ==
  ASSUME NEW q \in Seq(Seq(Request)), NEW a, NEW b, NEW at \in Offsets(q, a, b)
  PROVE  /\ a \in 0..MaxRequests /\ b \in 0..MaxRequests /\ a <= b /\ (q = <<>> <=> a = b)
         /\ \A j \in 0..Len(q) : at[j] \in a..b
         /\ \A j \in 1..Len(q) : Len(q[j]) = at[j] - at[j - 1] /\ Len(q[j]) > 0
         /\ \A j \in 1..Len(q) : \A i \in 1..Len(q[j]) : q[j][i] = at[j - 1] + i
<1>1. Len(q) \in Nat /\ (q = <<>> <=> Len(q) = 0)
  BY EmptySeq
<1>2. /\ at[0] = a /\ at[Len(q)] = b /\ \A j \in 0..Len(q) : at[j] \in 0..MaxRequests
      /\ \A j \in 1..Len(q) : at[j - 1] < at[j] /\ q[j] = Run(at[j - 1], at[j] - at[j - 1])
  BY DEF Offsets
<1>3. \A i, j \in 0..Len(q) : i < j => at[i] < at[j]
  BY <1>1, OffsetsGrow
<1>4. a \in 0..MaxRequests /\ b \in 0..MaxRequests
  BY <1>1, <1>2
<1>5. \A j \in 0..Len(q) : a <= at[j] /\ at[j] <= b
  <2>. SUFFICES ASSUME NEW j \in 0..Len(q)  PROVE a <= at[j] /\ at[j] <= b
    OBVIOUS
  <2>1. at[j] \in Int /\ a \in Int /\ b \in Int
    BY <1>2, <1>4
  <2>2. (j = 0 \/ 0 < j) /\ (j = Len(q) \/ j < Len(q))
    BY <1>1
  <2>. QED
    BY SMTT(20), <1>1, <1>2, <1>3, <2>1, <2>2
<1>6. a <= b /\ (q = <<>> <=> a = b)
  <2>1. Len(q) > 0 => a < b
    BY <1>1, <1>2, <1>3
  <2>2. Len(q) = 0 => a = b
    BY <1>1, <1>2
  <2>. QED
    BY <1>1, <1>4, <2>1, <2>2
<1>7. ASSUME NEW j \in 1..Len(q)
      PROVE  /\ Len(q[j]) = at[j] - at[j - 1] /\ Len(q[j]) > 0
             /\ \A i \in 1..Len(q[j]) : q[j][i] = at[j - 1] + i
  <2>. DEFINE d == at[j - 1]
              n == at[j] - at[j - 1]
  <2>1. j \in 0..Len(q) /\ j - 1 \in 0..Len(q)
    BY <1>1
  <2>2. d \in Nat /\ at[j] \in 0..MaxRequests /\ d < at[j]
    BY <1>2, <2>1
  <2>3. n \in Nat /\ n > 0 /\ d + n <= MaxRequests
    BY <2>2, RequestsAssumption
  <2>4. q[j] = Run(d, n)
    BY <1>2
  <2>. HIDE DEF d, n
  <2>5. Len(q[j]) = n /\ \A i \in 1..n : q[j][i] = d + i
    BY <2>2, <2>3, <2>4, RunType
  <2>. QED
    BY <2>3, <2>5 DEF d, n
<1>8. \A j \in 0..Len(q) : at[j] \in a..b
  BY <1>2, <1>4, <1>5
<1>. QED
  BY <1>4, <1>6, <1>7, <1>8

\* A chain goes on with the run that begins at its end.
LEMMA ChainAppend ==
  ASSUME NEW q, NEW a, NEW b, Chain(q, a, b), NEW n \in Nat, n > 0, b + n <= MaxRequests
  PROVE  Chain(Append(q, Run(b, n)), a, b + n)
<1>1. PICK at \in Offsets(q, a, b) : TRUE
  BY DEF Chain
<1>2. q \in Seq(Seq(Request)) /\ Len(q) \in Nat /\ b \in 0..MaxRequests
  BY OffsetsElements DEF Chain
<1>. DEFINE s == Run(b, n)
            L == Len(q)
            r == Append(q, s)
            to == [j \in 0..(L + 1) |-> IF j = L + 1 THEN b + n ELSE at[j]]
<1>3. s \in Seq(Request)
  BY <1>2, RunType
<1>4. /\ r \in Seq(Seq(Request)) /\ Len(r) = L + 1
      /\ (\A i \in 1..L : r[i] = q[i]) /\ r[L + 1] = s
  <2>. HIDE DEF s
  <2>. QED
    BY <1>2, <1>3, AppendProperties
<1>5. /\ at[0] = a /\ at[L] = b /\ \A j \in 0..L : at[j] \in 0..MaxRequests
      /\ \A j \in 1..L : at[j - 1] < at[j] /\ q[j] = Run(at[j - 1], at[j] - at[j - 1])
  BY DEF Offsets
<1>. HIDE DEF r
<1>6. to \in [0..Len(r) -> 0..MaxRequests] /\ to[0] = a /\ to[Len(r)] = b + n
  BY <1>2, <1>4, <1>5, RequestsAssumption
<1>7. ASSUME NEW j \in 1..Len(r)
      PROVE  to[j - 1] < to[j] /\ r[j] = Run(to[j - 1], to[j] - to[j - 1])
  <2>1. CASE j = L + 1
    <3>1. to[j] = b + n /\ to[j - 1] = b
      BY <1>2, <1>5, <2>1
    <3>2. b + n - b = n /\ b < b + n
      BY <1>2
    <3>. HIDE DEF to
    <3>3. to[j] - to[j - 1] = n /\ to[j - 1] < to[j]
      BY <1>2, <3>1
    <3>4. r[j] = Run(b, n)
      BY <1>4, <2>1
    <3>. QED
      BY <3>1, <3>3, <3>4
  <2>2. CASE j \in 1..L
    <3>1. to[j] = at[j] /\ to[j - 1] = at[j - 1] /\ r[j] = q[j]
      BY SMTT(20), <1>2, <1>4, <2>2
    <3>. QED
      BY <1>5, <2>2, <3>1
  <2>. QED
    BY <1>2, <1>4, <2>1, <2>2
<1>8. to \in Offsets(r, a, b + n)
  <2>. HIDE DEF to
  <2>. QED
    BY <1>6, <1>7 DEF Offsets
<1>. QED
  BY <1>4, <1>8 DEF Chain, r

\* The first runs of a chain may be shifted off.
LEMMA ChainShift ==
  ASSUME NEW q \in Seq(Seq(Request)), NEW a, NEW b, NEW at \in Offsets(q, a, b), NEW k \in 0..Len(q)
  PROVE  LET r == SubSeq(q, k + 1, Len(q))
         IN  /\ Chain(r, at[k], b) /\ Len(r) = Len(q) - k
             /\ \A j \in 1..Len(r) : r[j] = q[k + j]
<1>. DEFINE L == Len(q)
            r == SubSeq(q, k + 1, L)
            to == [j \in 0..(L - k) |-> at[j + k]]
<1>1. L \in Nat /\ k \in 0..L /\ \A j \in 1..L : q[j] \in Seq(Request)
  OBVIOUS
<1>2. r \in Seq(Seq(Request)) /\ Len(r) = L - k /\ \A j \in 1..(L - k) : r[j] = q[k + j]
  <2>1. \A i \in (k + 1)..L : q[i] \in Seq(Request)
    BY <1>1
  <2>. HIDE DEF L
  <2>2. /\ r \in Seq(Seq(Request)) /\ Len(r) = IF k + 1 <= L THEN L - (k + 1) + 1 ELSE 0
        /\ \A i \in 1..(L - (k + 1) + 1) : r[i] = q[k + 1 + i - 1]
    BY <1>1, <2>1, SubSeqProperties
  <2>3. L - (k + 1) + 1 = L - k /\ \A i \in Int : k + 1 + i - 1 = k + i
    BY <1>1
  <2>. HIDE DEF r
  <2>4. Len(r) = L - k
    BY <1>1, <2>2
  <2>5. ASSUME NEW j \in 1..(L - k)  PROVE r[j] = q[k + j]
    <3>1. j \in 1..(L - (k + 1) + 1)
      BY <2>3
    <3>2. r[j] = q[k + 1 + j - 1]
      BY <2>2, <3>1
    <3>3. k + 1 + j - 1 = k + j
      BY <2>3
    <3>. QED
      BY <3>2, <3>3
  <2>. QED
    BY <2>2, <2>4, <2>5
<1>. HIDE DEF r
<1>3. /\ at[0] = a /\ at[L] = b /\ \A j \in 0..L : at[j] \in 0..MaxRequests
      /\ \A j \in 1..L : at[j - 1] < at[j] /\ q[j] = Run(at[j - 1], at[j] - at[j - 1])
  BY DEF Offsets
<1>4. to \in [0..Len(r) -> 0..MaxRequests] /\ to[0] = at[k] /\ to[Len(r)] = b
  BY <1>1, <1>2, <1>3
<1>5. ASSUME NEW j \in 1..Len(r)
      PROVE  to[j - 1] < to[j] /\ r[j] = Run(to[j - 1], to[j] - to[j - 1])
  <2>1. k + j \in 1..L /\ k + j - 1 = j - 1 + k /\ j + k = k + j /\ j \in 1..(L - k)
    BY <1>1, <1>2
  <2>2. to[j] = at[k + j] /\ to[j - 1] = at[k + j - 1] /\ r[j] = q[k + j]
    <3>1. j \in 0..(L - k) /\ j - 1 \in 0..(L - k)
      BY <1>1, <2>1
    <3>2. to[j] = at[j + k] /\ to[j - 1] = at[j - 1 + k]
      BY <3>1
    <3>. HIDE DEF to
    <3>. QED
      BY <1>2, <2>1, <3>2
  <2>. QED
    BY <1>3, <2>1, <2>2
<1>6. to \in Offsets(r, at[k], b)
  <2>. HIDE DEF to
  <2>. QED
    BY <1>4, <1>5 DEF Offsets
<1>. QED
  BY <1>2, <1>6 DEF Chain, r

-----------------------------------------------------------------------------
(* take(): what it copies, from which ticks. *)

\* the requests take(n) has after the first j ticks
Least(m, n) == IF m < n THEN m ELSE n
Got(at, n, j) == IF j = 0 THEN 0 ELSE Least(at[j] - Started, n)

\* what copying from tick j adds to s
EndOf(m, from, room) == IF m - from <= room THEN m ELSE from + room
Copy(n, s, j) ==
  LET from == IF j = 1 THEN head ELSE 0
  IN  s \o SubSeq(pending[j], from + 1, EndOf(Len(pending[j]), from, n - Len(s)))

\* the counters, as numbers
LEMMA OrderNumbers ==
  ASSUME CounterInv, OrderInv
  PROVE  /\ MaxRequests \in Nat /\ called \in 0..MaxRequests /\ Len(buffer) \in 0..called
         /\ Collected \in 0..called /\ queued \in 0..Collected /\ Started \in 0..Collected
         /\ head \in 0..Started /\ Started + queued = Collected
         /\ Collected + Len(buffer) = called
<1>1. /\ MaxRequests \in Nat /\ called \in 0..MaxRequests /\ Len(buffer) \in Nat /\ queued \in Nat
      /\ Len(buffer) <= called /\ queued <= Collected /\ head \in 0..Started
  BY RequestsAssumption DEF CounterInv, OrderInv
<1>. QED
  BY <1>1 DEF Collected, Started

GoesOn(d, g, n, x, y, f) ==
  Run(d, g) \o SubSeq(Run(x, y - x), f + 1, EndOf(y - x, f, n - g)) = Run(d, Least(y - d, n))

\* Copying from a tick x + 1, ..., y at offset f, having g requests after the
\* d-th: the run goes on, up to n.
LEMMA CopyRun ==
  ASSUME NEW d \in Nat, NEW g \in Nat, NEW n \in Nat, NEW x \in Nat, NEW y \in Nat, NEW f \in Nat,
         x < y, y <= MaxRequests, d + n <= MaxRequests,
         (f = 0 /\ g = n /\ d + n <= x) \/ (x + f = d + g /\ g < n /\ f < y - x)
  PROVE  GoesOn(d, g, n, x, y, f)
<1>. DEFINE end == EndOf(y - x, f, n - g)
<1>0. y - x \in Nat /\ x + (y - x) <= MaxRequests
  OBVIOUS
<1>1. CASE f = 0 /\ g = n /\ d + n <= x
  <2>1. end = 0 /\ Least(y - d, n) = n
    BY <1>1 DEF EndOf, Least
  <2>2. SubSeq(Run(x, y - x), 1, 0) = <<>>
    BY SubSeqEmpty
  <2>3. Run(d, g) \in Seq(Request)
    BY <1>1, RunType
  <2>4. Run(d, g) \o <<>> = Run(d, g)
    BY <2>3, ConcatEmptySeq
  <2>5. f + 1 = 1
    BY <1>1
  <2>. QED
    BY <1>1, <2>1, <2>2, <2>4, <2>5 DEF GoesOn
<1>2. CASE x + f = d + g /\ g < n /\ f < y - x
  <2>. DEFINE z == end - f
              m == y - x
  <2>1. /\ end \in f..m /\ z \in Nat /\ d + g + z <= MaxRequests /\ f \in 0..m
        /\ g + z = Least(y - d, n)
    BY <1>2 DEF EndOf, Least
  <2>2. SubSeq(Run(x, m), f + 1, end) = Run(x + f, end - f)
    <3>1. m \in Nat /\ x + m <= MaxRequests
      BY <1>0
    <3>2. end \in f..m /\ f \in 0..m
      BY <2>1
    <3>. HIDE DEF m, end
    <3>. QED
      BY <3>1, <3>2, RunPart
  <2>. HIDE DEF z
  <2>3. Run(d, g) \o Run(d + g, z) = Run(d, g + z)
    <3>1. z \in Nat /\ d + g + z <= MaxRequests
      BY <2>1
    <3>. HIDE DEF end, m
    <3>2. Joins(d, g, z)
      BY <3>1, RunConcat
    <3>. QED
      BY <3>2 DEF Joins
  <2>. QED
    BY <1>2, <2>1, <2>2, <2>3 DEF z, GoesOn
<1>. QED
  BY <1>1, <1>2

\* One tick more: the run that was gathered goes on, as far as n.
LEMMA CopyIs ==
  ASSUME CounterInv, OrderInv, NEW n \in 1..queued,
         NEW at \in Offsets(pending, Started - head, Collected), NEW j \in 1..Len(pending)
  PROVE  Copy(n, Run(Started, Got(at, n, j - 1)), j) = Run(Started, Got(at, n, j))
<1>. DEFINE d == Started
            h == head
            L == Len(pending)
            f == IF j = 1 THEN h ELSE 0
            x == at[j - 1]
            y == at[j]
            o == at[0]
            u == at[1]
            g == Got(at, n, j - 1)
            t == pending[j]
<1>0. /\ MaxRequests \in Nat /\ Collected \in 0..MaxRequests /\ queued \in 0..Collected
      /\ d \in 0..Collected /\ h \in 0..d /\ d + queued = Collected
  BY OrderNumbers
<1>1. pending \in Seq(Seq(Request)) /\ L \in Nat
  BY DEF OrderInv, Chain
<1>2. 1 \in 1..L /\ j \in 0..L /\ j - 1 \in 0..L /\ 0 \in 0..L /\ 1 \in 0..L
      /\ (j = 1 \/ j - 1 = 1 \/ (j > 1 /\ 1 < j - 1))
  BY <1>1
<1>3. /\ o \in (d - h)..Collected /\ u \in (d - h)..Collected
      /\ x \in (d - h)..Collected /\ y \in (d - h)..Collected
      /\ Len(pending[1]) = at[1] - at[1 - 1]
      /\ Len(t) = y - x
  <2>1. /\ \A i \in 0..L : at[i] \in (d - h)..Collected
        /\ \A i \in 1..L : Len(pending[i]) = at[i] - at[i - 1]
    BY <1>1, OffsetsElements
  <2>. HIDE DEF L, d, h
  <2>. QED
    BY <1>2, <2>1
<1>4. o = d - h /\ x < y /\ at[1 - 1] < u /\ t = Run(x, y - x)
  BY <1>2 DEF Offsets
<1>5. at[1 - 1] = o
  OBVIOUS
<1>6. j = 1 \/ j - 1 = 1 \/ u < x
  BY <1>1, <1>2, OffsetsGrow
<1>7. h = 0 \/ h < Len(pending[1])
  BY DEF OrderInv
<1>8. /\ g = IF j - 1 = 0 THEN 0 ELSE Least(x - d, n)
      /\ Got(at, n, j) = IF j = 0 THEN 0 ELSE Least(y - d, n)
  BY DEF Got
<1>9. Copy(n, Run(d, g), j) = Run(d, g) \o SubSeq(t, f + 1, EndOf(Len(t), f, n - Len(Run(d, g))))
  BY DEF Copy
<1>10. (j = 1 => x = o) /\ (j - 1 = 1 => x = u)
  OBVIOUS
<1>. HIDE DEF d, h, L, x, y, o, u, g, t
<1>11. d < u
  BY <1>0, <1>3, <1>4, <1>5, <1>7 DEF u
<1>12. x \in Nat /\ y \in Nat /\ y <= MaxRequests /\ d \in Nat /\ d + n <= MaxRequests /\ n \in Nat
  BY <1>0, <1>3
<1>13. /\ g \in Nat /\ g <= n /\ f \in Nat
       /\ (f = 0 /\ g = n /\ d + n <= x) \/ (x + f = d + g /\ g < n /\ f < y - x)
  <2>1. CASE j = 1
    <3>1. f = h /\ g = 0 /\ x = d - h /\ u = y
      BY <1>4, <1>8, <1>10, <2>1 DEF u, y
    <3>. QED
      BY <1>0, <1>11, <1>12, <3>1
  <2>2. CASE j # 1
    <3>1. f = 0 /\ d < x /\ g = Least(x - d, n)
      BY <1>0, <1>2, <1>3, <1>6, <1>8, <1>10, <1>11, <1>12, <2>2
    <3>. QED
      BY <1>4, <1>12, <3>1 DEF Least
  <2>. QED
    BY <2>1, <2>2
<1>14. Len(Run(d, g)) = g
  BY <1>12, <1>13, RunType, RequestsAssumption
<1>15. Run(d, g) \o SubSeq(Run(x, y - x), f + 1, EndOf(y - x, f, n - g)) = Run(d, Least(y - d, n))
  <2>. HIDE DEF f
  <2>1. x < y
    BY <1>4
  <2>2. (f = 0 /\ g = n /\ d + n <= x) \/ (x + f = d + g /\ g < n /\ f < y - x)
    BY <1>13
  <2>3. f \in Nat /\ g \in Nat
    BY <1>13
  <2>4. GoesOn(d, g, n, x, y, f)
    BY <1>12, <2>1, <2>2, <2>3, CopyRun
  <2>. QED
    BY <2>4 DEF GoesOn
<1>16. j # 0
  OBVIOUS
<1>17. Copy(n, Run(d, g), j) = Run(d, Got(at, n, j))
  <2>. HIDE DEF f
  <2>. QED
    BY <1>3, <1>4, <1>8, <1>9, <1>14, <1>15, <1>16
<1>. QED
  BY <1>17 DEF d, g

\* After each tick take(n) has gathered the run of the next requests, up to n:
\* the recursive definition has this solution and no other.
LEMMA GatherIs ==
  ASSUME CounterInv, OrderInv, NEW n \in 1..queued,
         NEW at \in Offsets(pending, Started - head, Collected)
  PROVE  \A j \in 0..Len(pending) : Gather(n)[j] = Run(Started, Got(at, n, j))
<1>. DEFINE L == Len(pending)
            Body(g, j) == IF j = 0 THEN <<>> ELSE Copy(n, g[j - 1], j)
            P(g) == g = [j \in 0..L |-> Body(g, j)]
            G == Gather(n)
            H == [j \in 0..L |-> Run(Started, Got(at, n, j))]
<1>0. L \in Nat
  BY DEF OrderInv, Chain
<1>1. G = CHOOSE g : P(g)
  BY DEF Gather, Copy, EndOf
<1>2. P(H)
  <2>1. H[0] = <<>>
    <3>1. Got(at, n, 0) = 0 /\ 0 \in 0..L
      BY <1>0 DEF Got
    <3>2. Run(Started, 0) = <<>>
      BY SMTT(20), OrderNumbers, RunType
    <3>. QED
      BY <3>1, <3>2
  <2>2. ASSUME NEW j \in 1..L  PROVE H[j] = Copy(n, H[j - 1], j)
    <3>1. j \in 0..L /\ j - 1 \in 0..L
      BY <1>0
    <3>2. H[j] = Run(Started, Got(at, n, j)) /\ H[j - 1] = Run(Started, Got(at, n, j - 1))
      BY <3>1
    <3>. HIDE DEF H
    <3>. QED
      BY <3>2, CopyIs
  <2>3. ASSUME NEW j \in 0..L  PROVE Run(Started, Got(at, n, j)) = Body(H, j)
    <3>1. H[j] = Run(Started, Got(at, n, j)) /\ (j = 0 \/ j \in 1..L)
      BY <1>0
    <3>. HIDE DEF H
    <3>. QED
      BY <2>1, <2>2, <3>1
  <2>. QED
    BY <2>3
<1>3. P(G)
  <2>. HIDE DEF P, G
  <2>. QED
    BY <1>1, <1>2
<1>. HIDE DEF G
<1>4. \A j \in 0..L : G[j] = Body(G, j) /\ H[j] = Body(H, j)
  <2>. HIDE DEF H, Body
  <2>. QED
    BY <1>2, <1>3
<1>. DEFINE Bad == {j \in 0..L : G[j] # H[j]}
<1>5. Bad = {}
  <2>. SUFFICES ASSUME Bad # {} PROVE FALSE
    OBVIOUS
  <2>1. Bad \in SUBSET Nat
    BY <1>0
  <2>2. PICK m \in Bad : \A k \in Bad : m <= k
    BY <2>1, NatHasLeast
  <2>. HIDE DEF H
  <2>3. m \in 0..L /\ G[m] # H[m]
    BY <2>2
  <2>4. m # 0
    BY <1>4, <2>3
  <2>5. m - 1 \in 0..L /\ m - 1 \notin Bad
    BY <1>0, <2>2, <2>3, <2>4
  <2>6. G[m - 1] = H[m - 1]
    BY <2>5
  <2>7. G[m] = H[m]
    BY <1>4, <2>3, <2>6
  <2>. QED
    BY <2>3, <2>7
<1>. QED
  BY <1>5 DEF G

\* Every tick of the queue ends behind what was dispatched, so after each tick
\* take(n) has between none and n requests.
LEMMA GotSome ==
  ASSUME CounterInv, OrderInv, NEW n \in 1..queued,
         NEW at \in Offsets(pending, Started - head, Collected), NEW j \in 0..Len(pending)
  PROVE  /\ Got(at, n, j) \in 0..n /\ at[j] \in 0..Collected
         /\ Got(at, n, j) = n <=> Started + n <= at[j]
         /\ j > 0 /\ at[j] < Started + n => Got(at, n, j) = at[j] - Started
<1>. DEFINE d == Started
            h == head
            L == Len(pending)
            y == at[j]
            u == at[1]
<1>0. /\ MaxRequests \in Nat /\ Collected \in 0..MaxRequests /\ queued \in 0..Collected
      /\ d \in 0..Collected /\ h \in 0..d /\ d + queued = Collected
  BY OrderNumbers
<1>1. pending \in Seq(Seq(Request)) /\ L \in Nat
  BY DEF OrderInv, Chain
<1>2. /\ \A i \in 0..L : at[i] \in (d - h)..Collected
      /\ \A i \in 1..L : Len(pending[i]) = at[i] - at[i - 1]
      /\ at[0] = d - h /\ at[1 - 1] = at[0]
  <2>1. /\ \A i \in 0..L : at[i] \in (d - h)..Collected
        /\ \A i \in 1..L : Len(pending[i]) = at[i] - at[i - 1]
    BY <1>1, OffsetsElements
  <2>2. at[0] = d - h
    BY DEF Offsets
  <2>. QED
    BY <2>1, <2>2
<1>3. h = 0 \/ h < Len(pending[1])
  BY DEF OrderInv
<1>4. j > 0 => u \in Int /\ d < u
  <2>. SUFFICES ASSUME j > 0  PROVE u \in Int /\ d < u
    OBVIOUS
  <2>1. 1 \in 1..L /\ 1 \in 0..L /\ 0 \in 0..L
    BY <1>1
  <2>2. at[1 - 1] < u
    BY <2>1 DEF Offsets
  <2>3. u \in (d - h)..Collected /\ Len(pending[1]) = u - at[1 - 1]
    BY <1>2, <2>1
  <2>. HIDE DEF u, d, h
  <2>. QED
    BY <1>0, <1>2, <1>3, <2>2, <2>3
<1>5. y \in Int /\ y <= Collected /\ y >= d - h /\ (j = 0 => y = d - h)
  BY <1>0, <1>1, <1>2
<1>6. j > 0 => d < y
  <2>1. j > 0 => j = 1 \/ u < y
    BY <1>1, OffsetsGrow
  <2>2. j = 1 => u = y
    OBVIOUS
  <2>. HIDE DEF d, y, u
  <2>. QED
    BY <1>0, <1>4, <1>5, <2>1, <2>2
<1>7. Got(at, n, j) = IF j = 0 THEN 0 ELSE Least(y - d, n)
  BY DEF Got
<1>. HIDE DEF y, d, h
<1>8. /\ Got(at, n, j) \in 0..n /\ y \in 0..Collected
      /\ Got(at, n, j) = n <=> d + n <= y
      /\ j > 0 /\ y < d + n => Got(at, n, j) = y - d
  BY <1>0, <1>5, <1>6, <1>7 DEF Least
<1>. QED
  BY <1>8 DEF y, d

\* take(n) returns the next n requests in the order of the calls and leaves the
\* queue at the one after them.
LEMMA TakeIs ==
  ASSUME CounterInv, OrderInv, NEW n \in 1..queued
  PROVE  /\ Gather(n)[LastTick(n)] = Run(Started, n)
         /\ Take(n) =>
              /\ queued' = queued - n /\ head' \in 0..(Started + n)
              /\ Chain(pending', Started + n - head', Collected)
              /\ head' = 0 \/ (pending' # <<>> /\ head' < Len(pending'[1]))
<1>. DEFINE d == Started
            L == Len(pending)
            G == Gather(n)
            k == LastTick(n)
<1>0. /\ MaxRequests \in Nat /\ Collected \in 0..MaxRequests /\ queued \in 0..Collected
      /\ d \in 0..Collected /\ head \in 0..d /\ d + queued = Collected
      /\ n \in Nat /\ n > 0 /\ d + n <= Collected /\ d + n <= MaxRequests
  BY OrderNumbers
<1>1. pending \in Seq(Seq(Request)) /\ L \in Nat
  BY DEF OrderInv, Chain
<1>2. PICK at \in Offsets(pending, d - head, Collected) : TRUE
  BY DEF OrderInv, Chain
<1>3. ASSUME NEW j \in 0..L
      PROVE  /\ G[j] = Run(d, Got(at, n, j)) /\ Got(at, n, j) \in 0..n /\ at[j] \in 0..Collected
             /\ Len(G[j]) = Got(at, n, j)
             /\ Len(G[j]) = n <=> d + n <= at[j]
             /\ j > 0 /\ at[j] < d + n => Len(G[j]) = at[j] - d
  <2>1. G[j] = Run(d, Got(at, n, j))
    BY GatherIs
  <2>2. /\ Got(at, n, j) \in 0..n /\ at[j] \in 0..Collected
        /\ (Got(at, n, j) = n <=> d + n <= at[j])
        /\ (j > 0 /\ at[j] < d + n => Got(at, n, j) = at[j] - d)
    BY GotSome
  <2>. HIDE DEF G, d
  <2>3. Len(Run(d, Got(at, n, j))) = Got(at, n, j)
    <3>. DEFINE g == Got(at, n, j)
    <3>1. d \in Nat /\ g \in Nat /\ d + g <= MaxRequests
      BY <1>0, <2>2
    <3>. HIDE DEF g
    <3>. QED
      BY <3>1, RunType DEF g
  <2>. QED
    BY <2>1, <2>2, <2>3
<1>. HIDE DEF G
<1>4. k \in 1..L /\ Len(G[k]) = n /\ Len(G[k - 1]) < n
  <2>1. d - head < d + n /\ d + n \in Int
    BY <1>0
  <2>2. PICK j \in 1..L : at[j - 1] < d + n /\ d + n <= at[j]
    BY <1>0, <1>1, <2>1, OffsetsCover
  <2>3. j \in 0..L /\ j - 1 \in 0..L
    BY <1>1
  <2>4. Len(G[j]) = n /\ Len(G[j - 1]) \in 0..n /\ Len(G[j - 1]) # n
    <3>1. Len(G[j]) = n
      BY <1>3, <2>2, <2>3
    <3>2. /\ Len(G[j - 1]) \in 0..n /\ (Len(G[j - 1]) = n <=> d + n <= at[j - 1])
          /\ at[j - 1] \in 0..Collected
      BY <1>3, <2>3
    <3>. QED
      BY <1>0, <2>2, <3>1, <3>2
  <2>5. Len(G[j - 1]) < n
    BY <1>0, <2>4
  <2>6. \E i \in 1..L : Len(G[i]) = n /\ Len(G[i - 1]) < n
    BY <2>4, <2>5
  <2>7. k = CHOOSE i \in 1..L : Len(G[i]) = n /\ Len(G[i - 1]) < n
    BY DEF LastTick, G
  <2>. QED
    BY <2>6, <2>7
<1>. HIDE DEF k
<1>5. k \in 0..L /\ k - 1 \in 0..L /\ k > 0
  BY <1>1, <1>4
<1>6. G[k] = Run(d, n)
  BY <1>3, <1>4, <1>5
<1>. DEFINE x == at[k - 1]
            y == at[k]
            used == d + n - x
<1>7. x \in 0..Collected /\ y \in 0..Collected /\ x < d + n /\ d + n <= y
  <2>1. /\ y \in 0..Collected /\ (Len(G[k]) = n <=> d + n <= y)
    BY <1>3, <1>5
  <2>2. /\ x \in 0..Collected /\ (Len(G[k - 1]) = n <=> d + n <= x)
    BY <1>3, <1>5
  <2>3. Len(G[k - 1]) # n
    BY <1>0, <1>4
  <2>. QED
    BY <1>0, <1>4, <2>1, <2>2, <2>3
<1>8. n - Len(G[k - 1]) + (IF k = 1 THEN head ELSE 0) = used
  <2>1. CASE k = 1
    <3>1. 0 \in 0..L /\ k - 1 = 0
      BY <1>1, <2>1
    <3>2. G[0] = Run(d, Got(at, n, 0)) /\ Len(G[0]) = Got(at, n, 0) /\ Got(at, n, 0) = 0
      BY <1>3, <3>1 DEF Got
    <3>3. at[0] = d - head
      BY DEF Offsets
    <3>4. x = d - head /\ Len(G[k - 1]) = 0
      BY <3>1, <3>2, <3>3
    <3>. HIDE DEF x, d
    <3>. QED
      BY <1>0, <2>1, <3>4
  <2>2. CASE k # 1
    <3>1. k - 1 > 0
      BY <1>5, <2>2
    <3>2. Len(G[k - 1]) = x - d
      BY <1>3, <1>5, <1>7, <3>1
    <3>. QED
      BY <1>0, <1>7, <2>2, <3>2
  <2>. QED
    BY <2>1, <2>2
<1>9. Len(pending[k]) = y - x
  BY <1>1, <1>4, OffsetsElements
<1>10. SUFFICES ASSUME Take(n)
                PROVE  /\ queued' = queued - n /\ head' \in 0..(d + n)
                       /\ Chain(pending', d + n - head', Collected)
                       /\ head' = 0 \/ (pending' # <<>> /\ head' < Len(pending'[1]))
  BY <1>6 DEF G, k
<1>. DEFINE m == IF used = Len(pending[k]) THEN k ELSE k - 1
<1>11. /\ queued' = queued - n /\ pending' = SubSeq(pending, m + 1, Len(pending))
       /\ head' = IF m = k THEN 0 ELSE used
  <2>1. Take(n) => /\ queued' = queued - n /\ pending' = SubSeq(pending, m + 1, Len(pending))
                   /\ head' = IF m = k THEN 0 ELSE used
    BY <1>8 DEF Take, G, k
  <2>. QED
    BY <1>10, <2>1
<1>12. m \in 0..L /\ (m = k <=> used = y - x)
  BY <1>5, <1>9
<1>13. /\ Chain(pending', at[m], Collected) /\ Len(pending') = L - m
       /\ \A j \in 1..Len(pending') : pending'[j] = pending[m + j]
  <2>. HIDE DEF m
  <2>. QED
    BY <1>1, <1>11, <1>12, ChainShift
<1>14. head' \in 0..(d + n) /\ at[m] = d + n - head'
  <2>1. CASE m = k
    <3>1. head' = 0 /\ at[m] = y /\ used = y - x
      BY <1>11, <1>12, <2>1
    <3>2. at[m] = d + n
      <4>. HIDE DEF x, y, d
      <4>. QED
        BY <1>0, <1>7, <3>1
    <3>. QED
      BY <1>0, <3>1, <3>2
  <2>2. CASE m # k
    <3>1. head' = used /\ m = k - 1
      BY <1>11, <2>2
    <3>2. at[m] = x
      BY <3>1
    <3>. HIDE DEF x, y, d, m
    <3>. QED
      BY <1>0, <1>7, <3>1, <3>2
  <2>. QED
    BY <2>1, <2>2
<1>15. m # k => pending' # <<>> /\ head' < Len(pending'[1])
  <2>. SUFFICES ASSUME m # k  PROVE pending' # <<>> /\ head' < Len(pending'[1])
    OBVIOUS
  <2>1. m = k - 1 /\ head' = used
    BY <1>11
  <2>2. Len(pending') = L - (k - 1) /\ Len(pending') > 0 /\ m + 1 = k
    BY <1>1, <1>4, <1>13, <2>1
  <2>3. 1 \in 1..Len(pending')
    BY <1>1, <1>5, <2>2
  <2>4. pending'[1] = pending[k]
    BY <1>13, <2>2, <2>3
  <2>5. used < y - x
    <3>1. used # y - x
      BY <1>12
    <3>. HIDE DEF x, y, d
    <3>. QED
      BY <1>0, <1>7, <3>1
  <2>. QED
    BY <1>9, <2>1, <2>2, <2>4, <2>5
<1>. QED
  BY <1>11, <1>13, <1>14, <1>15

-----------------------------------------------------------------------------
(* Where a request is. *)

\* The ends of runs are numbers.
LEMMA OffsetsType ==
  ASSUME NEW q, NEW a, NEW b, NEW at \in Offsets(q, a, b), NEW i \in 0..Len(q)
  PROVE  at[i] \in Int
<1>1. at[i] \in 0..MaxRequests
  BY DEF Offsets
<1>. QED
  BY <1>1

\* A run of a chain holds the requests between its ends.
LEMMA InRun ==
  ASSUME NEW q \in Seq(Seq(Request)), NEW a, NEW b, NEW at \in Offsets(q, a, b),
         NEW c \in 1..Len(q), NEW r \in Int
  PROVE  In(q, c, r) <=> at[c - 1] < r /\ r <= at[c]
<1>. DEFINE x == at[c - 1]
            y == at[c]
            t == q[c]
<1>1. Len(t) = y - x /\ \A i \in 1..Len(t) : t[i] = x + i
  BY OffsetsElements
<1>2. x \in Int /\ y \in Int
  <2>1. c \in 0..Len(q) /\ c - 1 \in 0..Len(q)
    OBVIOUS
  <2>. QED
    BY <2>1, OffsetsType
<1>3. In(q, c, r) <=> \E i \in 1..Len(t) : t[i] = r
  BY DEF In
<1>. HIDE DEF x, y, t
<1>4. (\E i \in 1..Len(t) : t[i] = r) => x < r /\ r <= y
  BY <1>1, <1>2
<1>5. ASSUME x < r, r <= y  PROVE \E i \in 1..Len(t) : t[i] = r
  <2>1. r - x \in 1..Len(t) /\ x + (r - x) = r
    BY <1>1, <1>2, <1>5
  <2>. QED
    BY <1>1, <2>1
<1>6. (\E i \in 1..Len(t) : t[i] = r) <=> x < r /\ r <= y
  BY <1>4, <1>5
<1>. QED
  BY <1>3, <1>6 DEF x, y

\* A request is in one run of a chain at most.
LEMMA OneRun ==
  ASSUME NEW q \in Seq(Seq(Request)), NEW a, NEW b, Chain(q, a, b), NEW r \in Int,
         NEW c \in 1..Len(q), In(q, c, r), NEW e \in 1..Len(q), In(q, e, r)
  PROVE  c = e
<1>1. PICK at \in Offsets(q, a, b) : TRUE
  BY DEF Chain
<1>2. Len(q) \in Nat
  OBVIOUS
<1>3. \A i \in 0..Len(q) : at[i] \in Int
  BY OffsetsType
<1>4. ASSUME NEW i \in 1..Len(q), NEW j \in 1..Len(q), i < j, In(q, i, r), In(q, j, r)
      PROVE  FALSE
  <2>1. r <= at[i] /\ at[j - 1] < r
    BY <1>4, InRun
  <2>2. i = j - 1 \/ i < j - 1
    BY <1>4
  <2>3. i < j - 1 => at[i] < at[j - 1]
    BY <1>2, OffsetsGrow
  <2>4. at[i] \in Int /\ at[j - 1] \in Int
    BY <1>2, <1>3
  <2>5. at[i] <= at[j - 1]
    BY SMTT(20), <2>2, <2>3, <2>4
  <2>. QED
    BY <2>1, <2>4, <2>5
<1>. QED
  BY <1>2, <1>4

\* A chain has no more runs than requests.
LEMMA ChainLength ==
  ASSUME NEW q, NEW a, NEW b, Chain(q, a, b)
  PROVE  a \in 0..MaxRequests /\ b \in 0..MaxRequests /\ Len(q) \in Nat /\ a + Len(q) <= b
<1>1. PICK at \in Offsets(q, a, b) : TRUE
  BY DEF Chain
<1>2. q \in Seq(Seq(Request)) /\ Len(q) \in Nat
  BY DEF Chain
<1>3. a \in 0..MaxRequests /\ b \in 0..MaxRequests
  BY <1>2, OffsetsElements
<1>4. /\ at[0] = a /\ at[Len(q)] = b /\ \A j \in 0..Len(q) : at[j] \in Int
      /\ \A j \in 1..Len(q) : at[j - 1] < at[j]
  BY RequestsAssumption DEF Offsets
<1>. DEFINE Bad == {j \in 0..Len(q) : at[j] < a + j}
<1>5. Bad = {}
  <2>. SUFFICES ASSUME Bad # {} PROVE FALSE
    OBVIOUS
  <2>1. Bad \in SUBSET Nat
    BY <1>2
  <2>2. PICK m \in Bad : \A n \in Bad : m <= n
    BY <2>1, NatHasLeast
  <2>3. m # 0
    BY <1>3, <1>4, <2>2
  <2>4. m - 1 \in 0..Len(q) /\ m \in 1..Len(q) /\ m - 1 \notin Bad
    BY <1>2, <2>2, <2>3
  <2>. DEFINE x == at[m - 1]
              y == at[m]
  <2>5. x \in Int /\ y \in Int /\ x < y /\ ~(x < a + (m - 1)) /\ y < a + m
    BY <1>4, <2>2, <2>4
  <2>. HIDE DEF x, y
  <2>. QED
    BY <1>3, <2>4, <2>5
<1>6. ~(at[Len(q)] < a + Len(q))
  BY <1>2, <1>5
<1>. QED
  BY <1>2, <1>3, <1>4, <1>6

\* A queue without ticks is a chain without requests.
LEMMA EmptyChain ==
  ASSUME NEW a \in 0..MaxRequests
  PROVE  Chain(<<>>, a, a)
<1>. DEFINE at == [j \in 0..0 |-> a]
<1>1. <<>> \in Seq(Seq(Request)) /\ Len(<<>>) = 0
  BY EmptySeq
<1>2. at \in [0..Len(<<>>) -> 0..MaxRequests] /\ at[0] = a
  BY <1>1
<1>3. at \in Offsets(<<>>, a, a)
  <2>. HIDE DEF at
  <2>. QED
    BY <1>1, <1>2 DEF Offsets
<1>. QED
  BY <1>1, <1>3 DEF Chain

\* An invocation takes the next n requests over from those that wait for one.
LEMMA InvokeKeeps ==
  ASSUME CounterInv, OrderInv, NEW n \in Nat, n > 0, Started + n <= called,
         args' = Append(args, Run(Started, n)), phase' = Append(phase, "running"),
         Started' = Started + n, called' = called
  PROVE  /\ Chain(args', 0, Started') /\ Len(phase') = Len(args')
         /\ \A r \in Request : Waits(r)' <=> Waits(r)
         /\ Len(args') = Len(args) + 1
<1>. DEFINE d == Started
            s == Run(d, n)
            L == Len(args)
<1>0. /\ MaxRequests \in Nat /\ called \in 0..MaxRequests /\ d \in 0..called
      /\ Started' = d + n /\ d + n <= called /\ d + n <= MaxRequests
  BY SMTT(20), OrderNumbers
<1>1. /\ args \in Seq(Seq(Request)) /\ L \in Nat /\ Chain(args, 0, d)
      /\ phase \in Seq(Phase) /\ Len(phase) = L
  BY DEF OrderInv, Chain, CounterInv
<1>2. Chain(args', 0, d + n)
  <2>. HIDE DEF d
  <2>. QED
    BY <1>0, <1>1, ChainAppend DEF d
<1>3. s \in Seq(Request) /\ Len(s) = n /\ \A i \in 1..n : s[i] = d + i
  <2>. HIDE DEF d
  <2>. QED
    BY <1>0, RunType DEF d
<1>4. /\ Len(args') = L + 1 /\ args'[L + 1] = s /\ \A c \in 1..L : args'[c] = args[c]
  <2>. HIDE DEF s
  <2>. QED
    BY <1>1, <1>3, AppendProperties DEF s
<1>5. /\ Len(phase') = L + 1 /\ phase'[L + 1] = "running" /\ \A c \in 1..L : phase'[c] = phase[c]
  BY <1>1, AppendProperties DEF Phase
<1>. HIDE DEF s, L, d
<1>6. ASSUME NEW r \in Request  PROVE Waits(r)' <=> Waits(r)
  <2>1. Waits(r)' <=> \/ r \in (d + n + 1)..called
                      \/ \E c \in 1..(L + 1) : phase'[c] = "running" /\ In(args', c, r)
    BY <1>0, <1>4 DEF Waits
  <2>2. Waits(r) <=> \/ r \in (d + 1)..called
                     \/ \E c \in 1..L : phase[c] = "running" /\ In(args, c, r)
    BY DEF Waits, d, L
  <2>3. \A c \in 1..L : In(args', c, r) <=> In(args, c, r)
    BY <1>4 DEF In
  <2>4. In(args', L + 1, r) <=> r \in (d + 1)..(d + n)
    <3>0. r \in Int
      BY DEF Request
    <3>1. In(args', L + 1, r) <=> \E i \in 1..n : s[i] = r
      BY <1>3, <1>4 DEF In
    <3>2. (\E i \in 1..n : s[i] = r) => r \in (d + 1)..(d + n)
      BY <1>0, <1>3
    <3>3. ASSUME r \in (d + 1)..(d + n)  PROVE \E i \in 1..n : s[i] = r
      <4>1. r - d \in 1..n /\ d + (r - d) = r
        BY <1>0, <3>0, <3>3
      <4>. QED
        BY <1>3, <4>1
    <3>. QED
      BY <3>1, <3>2, <3>3
  <2>5. r \in (d + 1)..called <=> r \in (d + n + 1)..called \/ r \in (d + 1)..(d + n)
    BY <1>0 DEF Request
  <2>6. (\E c \in 1..(L + 1) : phase'[c] = "running" /\ In(args', c, r))
          <=> \/ \E c \in 1..L : phase[c] = "running" /\ In(args, c, r)
              \/ In(args', L + 1, r)
    <3>1. L \in Nat /\ L + 1 \in 1..(L + 1) /\ \A c \in 1..(L + 1) : c = L + 1 \/ c \in 1..L
      BY <1>1
    <3>2. \A c \in 1..L : c \in 1..(L + 1)
      BY <1>1
    <3>. QED
      BY <1>5, <2>3, <3>1, <3>2
  <2>. QED
    BY <2>1, <2>2, <2>4, <2>5, <2>6
<1>. QED
  BY <1>0, <1>2, <1>4, <1>5, <1>6 DEF L

-----------------------------------------------------------------------------
(* One lemma per action. *)

\* what the actions leave alone together
LEMMA BatchFacts ==
  ASSUME BatchInv
  PROVE  CounterInv /\ OrderInv /\ PromiseInv /\ UnlimitedInv
  BY DEF BatchInv, Inv

\* make() starts with nothing called.
LEMMA InitOrder == Init => OrderInv /\ PromiseInv /\ maxBatchSize <= Infinity /\ maxInFlight <= Infinity
<1>. SUFFICES ASSUME Init
              PROVE  OrderInv /\ PromiseInv /\ maxBatchSize <= Infinity /\ maxInFlight <= Infinity
  OBVIOUS
<1>1. /\ buffer = <<>> /\ called = 0 /\ queued = 0 /\ pending = <<>> /\ head = 0 /\ inFlight = 0
      /\ args = <<>> /\ phase = <<>> /\ hung = {} /\ scheduled = FALSE /\ timers = 0
      /\ promise = [r \in Request |-> "none"]
  BY DEF Init, BufferInit
<1>2. Len(<<>>) = 0 /\ Len(buffer) = 0 /\ MaxRequests \in Nat
  <2>1. Len(<<>>) = 0
    OBVIOUS
  <2>. QED
    BY <1>1, <2>1, RequestsAssumption
<1>3. Collected = 0 /\ Started = 0 /\ Started - head = 0
  <2>1. Collected = 0
    <3>1. Collected = called - Len(buffer)
      BY DEF Collected
    <3>2. called = 0 /\ Len(buffer) = 0
      BY <1>1, <1>2
    <3>. QED
      BY <3>1, <3>2
  <2>2. Started = 0
    BY <1>1, <2>1 DEF Started
  <2>. QED
    BY <1>1, <2>1, <2>2
<1>4. Chain(<<>>, 0, 0) /\ Run(0, 0) = <<>>
  BY <1>2, EmptyChain, RunType
<1>5. OrderInv
  BY <1>1, <1>2, <1>3, <1>4 DEF OrderInv
<1>6. \A r \in Request : ~Waits(r)
  BY <1>1, <1>2, <1>3 DEF Waits
<1>7. PromiseInv
  BY <1>1, <1>6 DEF PromiseInv, Outcome
<1>8. maxBatchSize <= Infinity /\ maxInFlight <= Infinity
  BY <1>2, LimitsAssumption DEF Init, Infinity
<1>. QED
  BY <1>5, <1>7, <1>8

\* A call is the next request of the buffer.
LEMMA CallOrder ==
  ASSUME BatchInv, Call
  PROVE  OrderInv' /\ PromiseInv'
<1>. DEFINE n == Len(buffer)
            d == Collected
<1>0. CounterInv /\ OrderInv /\ PromiseInv
  BY BatchFacts
<1>1. /\ MaxRequests \in Nat /\ called \in 0..MaxRequests /\ n \in 0..called
      /\ d \in 0..called /\ queued \in 0..d /\ Started \in 0..d
      /\ d + n = called /\ called < MaxRequests
  BY <1>0, OrderNumbers DEF Call
<1>2. /\ called' = called + 1 /\ promise' = [promise EXCEPT ![called + 1] = "pending"]
      /\ buffer' = buffer \o <<called + 1>> /\ scheduled' = TRUE
      /\ timers' = IF scheduled THEN timers ELSE timers + 1
      /\ UNCHANGED <<maxBatchSize, maxInFlight, pending, head, queued, inFlight, args, phase, hung>>
  BY DEF Call, BufferizedFn, options, queueVars
<1>3. buffer = Run(d, n) /\ Run(called, 1) = <<called + 1>>
  <2>1. Run(called, 1) = [i \in 1..1 |-> called + i]
    BY DEF Run
  <2>2. \A i \in 1..1 : i = 1
    OBVIOUS
  <2>3. [i \in 1..1 |-> called + i] = <<called + 1>>
    BY <2>2
  <2>. QED
    BY <1>0, <2>1, <2>3 DEF OrderInv
<1>4. buffer' = Run(d, n + 1)
  <2>. HIDE DEF d, n
  <2>1. Run(d, n) \o Run(d + n, 1) = Run(d, n + 1)
    <3>1. d \in Nat /\ n \in Nat /\ 1 \in Nat /\ d + n + 1 <= MaxRequests
      BY <1>1
    <3>2. Joins(d, n, 1)
      BY <3>1, RunConcat
    <3>. QED
      BY <3>2 DEF Joins
  <2>. QED
    BY <1>1, <1>2, <1>3, <2>1
<1>5. Len(buffer') = n + 1 /\ buffer' # <<>>
  <2>. HIDE DEF d, n
  <2>. QED
    BY <1>1, <1>4, RunType
<1>6. Collected' = d /\ Started' = Started
  BY <1>1, <1>2, <1>5 DEF Collected, Started
<1>7. OrderInv'
  <2>1. Len(buffer') <= called' /\ buffer' = Run(Collected', Len(buffer'))
    BY <1>1, <1>2, <1>4, <1>5, <1>6
  <2>2. Unlimited' <=> Unlimited
    BY <1>2 DEF Unlimited, Infinity
  <2>. QED
    BY <1>0, <1>2, <1>6, <2>1, <2>2 DEF OrderInv
<1>8. ASSUME NEW r \in Request  PROVE promise'[r] = "pending" <=> Waits(r)'
  <2>1. Waits(r)' <=> \/ r \in (Started + 1)..(called + 1)
                      \/ \E c \in 1..Len(args) : phase[c] = "running" /\ In(args, c, r)
    BY <1>2, <1>6 DEF Waits, In
  <2>2. Waits(r)' <=> r = called + 1 \/ Waits(r)
    BY <1>1, <2>1 DEF Waits, Request
  <2>3. promise'[r] = IF r = called + 1 THEN "pending" ELSE promise[r]
    BY <1>0, <1>2 DEF PromiseInv
  <2>. QED
    BY <1>0, <2>2, <2>3 DEF PromiseInv
<1>9. timers' = 1
  BY <1>0, <1>2 DEF PromiseInv
<1>10. promise' \in [Request -> Outcome] /\ hung' \subseteq 1..Len(args')
  BY <1>0, <1>2 DEF PromiseInv, Outcome
<1>11. /\ scheduled' \in BOOLEAN /\ (scheduled' <=> buffer' # <<>>)
       /\ timers' = IF buffer' = <<>> THEN 0 ELSE 1
  BY <1>2, <1>5, <1>9
<1>12. PromiseInv'
  BY <1>8, <1>10, <1>11 DEF PromiseInv
<1>. QED
  BY <1>7, <1>12

\* Without limits the buffer becomes the next invocation.
LEMMA TickOrder ==
  ASSUME BatchInv, Tick
  PROVE  OrderInv' /\ PromiseInv'
<1>. DEFINE n == Len(buffer)
            d == Collected
<1>0. CounterInv /\ OrderInv /\ PromiseInv /\ UnlimitedInv /\ Unlimited
  BY BatchFacts DEF Tick
<1>1. /\ MaxRequests \in Nat /\ called \in 0..MaxRequests /\ n \in 0..called
      /\ d \in 0..called /\ d + n = called
  BY <1>0, OrderNumbers
<1>2. /\ timers > 0 /\ timers' = timers - 1 /\ scheduled' = FALSE /\ buffer' = <<>>
      /\ args' = Append(args, buffer) /\ phase' = Append(phase, "running")
      /\ hung' \in {hung, hung \cup {Len(args) + 1}}
      /\ UNCHANGED <<maxBatchSize, maxInFlight, pending, head, queued, inFlight, called, promise>>
  BY DEF Tick, Worker, Invoke, options, queueVars
<1>3. /\ queued = 0 /\ pending = <<>> /\ head = 0 /\ inFlight = 0 /\ Started = d
      /\ buffer = Run(d, n)
  BY <1>0, <1>1 DEF UnlimitedInv, OrderInv, Started
<1>4. timers = 1 /\ n > 0
  <2>1. buffer # <<>> /\ timers = 1
    BY <1>0, <1>2 DEF PromiseInv
  <2>. HIDE DEF n, d
  <2>. QED
    BY <1>1, <1>3, <2>1, RunType
<1>5. Len(buffer') = 0 /\ Collected' = called /\ Started' = called
  <2>1. Len(buffer') = 0
    BY <1>2
  <2>. QED
    BY <1>1, <1>2, <1>3, <2>1 DEF Collected, Started
<1>6. /\ Chain(args', 0, Started') /\ Len(phase') = Len(args')
      /\ \A r \in Request : Waits(r)' <=> Waits(r)
      /\ Len(args') = Len(args) + 1
  <2>. HIDE DEF n, d
  <2>. QED
    BY <1>0, <1>1, <1>2, <1>3, <1>4, <1>5, InvokeKeeps
<1>7. OrderInv'
  <2>1. Run(called, 0) = <<>> /\ Chain(<<>>, called, called)
    BY <1>1, RunType, EmptyChain
  <2>2. Len(buffer') <= called' /\ buffer' = Run(Collected', Len(buffer'))
    BY <1>1, <1>2, <1>5, <2>1
  <2>3. Started' - head' = called /\ head' \in 0..Started' /\ queued' <= Collected'
    BY <1>1, <1>2, <1>3, <1>5
  <2>. QED
    BY <1>2, <1>3, <1>5, <1>6, <2>1, <2>2, <2>3 DEF OrderInv
<1>8. PromiseInv'
  <2>1. hung' \subseteq 1..Len(args') /\ promise' \in [Request -> Outcome]
    <3>1. Len(args) \in Nat
      BY <1>0 DEF OrderInv, Chain
    <3>. QED
      BY <1>0, <1>2, <1>6, <3>1 DEF PromiseInv
  <2>2. \A r \in Request : promise'[r] = "pending" <=> Waits(r)'
    BY <1>0, <1>2, <1>6 DEF PromiseInv
  <2>3. timers' = 0
    BY <1>2, <1>4
  <2>. QED
    BY <1>2, <2>1, <2>2, <2>3 DEF PromiseInv
<1>. QED
  BY <1>7, <1>8

\* A tick of the limited path is the queue's next run.
LEMMA LimitedTickOrder ==
  ASSUME BatchInv, LimitedTick
  PROVE  OrderInv' /\ PromiseInv'
<1>. DEFINE n == Len(buffer)
            d == Collected
<1>0. CounterInv /\ OrderInv /\ PromiseInv /\ ~Unlimited
  BY BatchFacts DEF LimitedTick
<1>1. /\ MaxRequests \in Nat /\ called \in 0..MaxRequests /\ n \in 0..called
      /\ d \in 0..called /\ d + n = called /\ queued \in 0..d /\ Started = d - queued
  BY <1>0, OrderNumbers DEF Started
<1>2. /\ timers > 0 /\ timers' = timers - 1 /\ scheduled' = FALSE /\ buffer' = <<>>
      /\ pending' = Append(pending, buffer) /\ queued' = queued + n
      /\ UNCHANGED <<maxBatchSize, maxInFlight, head, inFlight, args, phase, hung, called, promise>>
  BY DEF LimitedTick, Worker, options
<1>3. buffer = Run(d, n) /\ buffer \in Seq(Request)
  BY <1>0 DEF OrderInv, CounterInv
<1>4. timers = 1 /\ n > 0
  <2>1. buffer # <<>> /\ timers = 1
    BY <1>0, <1>2 DEF PromiseInv
  <2>. HIDE DEF n, d
  <2>. QED
    BY <1>1, <1>3, <2>1, RunType
<1>5. Len(buffer') = 0 /\ Collected' = called /\ Started' = Started
  <2>1. Len(buffer') = 0
    BY <1>2
  <2>. HIDE DEF n, d
  <2>. QED
    BY <1>1, <1>2, <2>1 DEF Collected, Started
<1>6. Chain(pending', Started - head, called)
  <2>. HIDE DEF n, d
  <2>1. Chain(pending, Started - head, d)
    BY <1>0 DEF OrderInv, d
  <2>2. d + n <= MaxRequests
    BY <1>1
  <2>3. Chain(Append(pending, Run(d, n)), Started - head, d + n)
    BY <1>1, <1>4, <2>1, <2>2, ChainAppend
  <2>. QED
    BY <1>1, <1>2, <1>3, <2>3
<1>7. head' = 0 \/ (pending' # <<>> /\ head' < Len(pending'[1]))
  <2>1. CASE head = 0
    BY <1>2, <2>1
  <2>2. CASE pending # <<>> /\ head < Len(pending[1])
    <3>1. pending \in Seq(Seq(Request)) /\ Len(pending) \in Nat \ {0}
      BY <1>0, <2>2, EmptySeq DEF OrderInv, Chain
    <3>2. pending' # <<>> /\ \A i \in 1..Len(pending) : pending'[i] = pending[i]
      BY SMTT(20), <1>2, <1>3, <3>1, AppendProperties
    <3>3. pending'[1] = pending[1]
      BY <3>1, <3>2
    <3>. QED
      BY <1>2, <2>2, <3>2, <3>3
  <2>. QED
    BY <1>0, <2>1, <2>2 DEF OrderInv
<1>8. OrderInv'
  <2>1. Run(called, 0) = <<>>
    BY <1>1, RunType
  <2>2. Len(buffer') <= called' /\ buffer' = Run(Collected', Len(buffer')) /\ queued' <= Collected'
    BY <1>1, <1>2, <1>5, <2>1
  <2>3. ~Unlimited'
    BY <1>0, <1>2 DEF Unlimited, Infinity
  <2>. QED
    BY <1>0, <1>2, <1>5, <1>6, <1>7, <2>2, <2>3 DEF OrderInv
<1>9. PromiseInv'
  <2>1. \A r \in Request : Waits(r)' <=> Waits(r)
    BY <1>2, <1>5 DEF Waits, In
  <2>2. timers' = 0
    BY <1>2, <1>4
  <2>. QED
    BY <1>0, <1>2, <2>1, <2>2 DEF PromiseInv
<1>. QED
  BY <1>8, <1>9

\* An iteration of the loop hands the next chunk of the queue to fn.
LEMMA PumpOrder ==
  ASSUME BatchInv, Pump
  PROVE  OrderInv' /\ PromiseInv' /\ ChunkSize \in 1..queued
         /\ args' = Append(args, Run(Started, ChunkSize))
<1>. DEFINE n == ChunkSize
<1>0. CounterInv /\ OrderInv /\ PromiseInv /\ UnlimitedInv
  BY BatchFacts
<1>1. /\ MaxRequests \in Nat /\ called \in 0..MaxRequests /\ Len(buffer) \in 0..called
      /\ Collected \in 0..called /\ Started \in 0..Collected
      /\ queued \in 0..Collected /\ Started = Collected - queued
  BY <1>0, OrderNumbers DEF Started
<1>2. /\ inFlight' = inFlight + 1 /\ Take(n) /\ queued > 0 /\ pumping
      /\ args' = Append(args, Gather(n)[LastTick(n)]) /\ phase' = Append(phase, "running")
      /\ hung' \in {hung, hung \cup {Len(args) + 1}}
      /\ UNCHANGED <<buffer, scheduled, timers, maxBatchSize, maxInFlight, called, promise>>
  BY DEF Pump, Invoke, MayDispatch, bufferVars, options
<1>3. n \in 1..queued /\ ~Unlimited
  BY <1>0, <1>1, <1>2 DEF ChunkSize, CounterInv, UnlimitedInv
<1>. HIDE DEF n
<1>4. /\ Gather(n)[LastTick(n)] = Run(Started, n)
      /\ queued' = queued - n /\ head' \in 0..(Started + n)
      /\ Chain(pending', Started + n - head', Collected)
      /\ head' = 0 \/ (pending' # <<>> /\ head' < Len(pending'[1]))
  BY <1>0, <1>2, <1>3, TakeIs
<1>5. Collected' = Collected /\ Started' = Started + n
  BY <1>1, <1>2, <1>3, <1>4 DEF Collected, Started
<1>6. /\ Chain(args', 0, Started') /\ Len(phase') = Len(args')
      /\ \A r \in Request : Waits(r)' <=> Waits(r)
      /\ Len(args') = Len(args) + 1
  <2>1. n \in Nat /\ n > 0 /\ Started + n <= called
    BY <1>1, <1>3
  <2>. QED
    BY <1>0, <1>2, <1>4, <1>5, <2>1, InvokeKeeps
<1>7. OrderInv'
  <2>1. queued' <= Collected'
    BY <1>1, <1>3, <1>4, <1>5
  <2>2. ~Unlimited'
    BY <1>2, <1>3 DEF Unlimited, Infinity
  <2>3. Len(buffer') <= called' /\ buffer' = Run(Collected', Len(buffer'))
    BY <1>0, <1>2, <1>5 DEF OrderInv
  <2>4. head' \in 0..Started'
    BY <1>4, <1>5
  <2>6. Chain(pending', Started' - head', Collected')
    <3>. DEFINE w == Started + n - head'
                s == Started'
    <3>1. s = Started + n /\ Started \in Int /\ n \in Int /\ head' \in Int
      BY <1>1, <1>3, <1>4, <1>5
    <3>2. Chain(pending', w, Collected')
      BY <1>4, <1>5
    <3>. HIDE DEF s
    <3>3. s - head' = w
      BY <3>1
    <3>. HIDE DEF w
    <3>4. Chain(pending', s - head', Collected')
      BY <3>2, <3>3
    <3>. QED
      BY <3>4 DEF s
  <2>5. head' = 0 \/ (pending' # <<>> /\ head' < Len(pending'[1]))
    BY <1>4
  <2>. QED
    BY <1>6, <2>1, <2>2, <2>3, <2>4, <2>5, <2>6 DEF OrderInv
<1>8. PromiseInv'
  <2>1. hung' \subseteq 1..Len(args')
    <3>1. Len(args) \in Nat
      BY <1>0 DEF OrderInv, Chain
    <3>. QED
      BY <1>0, <1>2, <1>6, <3>1 DEF PromiseInv
  <2>. QED
    BY <1>0, <1>2, <1>6, <2>1 DEF PromiseInv
<1>. QED
  BY <1>2, <1>3, <1>4, <1>7, <1>8 DEF n

\* The entries of a result that are used before the first malformed one are
\* none of them malformed.
LEMMA GoodEntries ==
  ASSUME NEW m \in Nat, NEW result \in [1..m -> Status],
         NEW i \in 1..m,
         i <= Cardinality({j \in 1..m : \A k \in 1..j : result[k] # "malformed"})
  PROVE  result[i] # "malformed"
<1>. DEFINE Good == {j \in 1..m : \A k \in 1..j : result[k] # "malformed"}
            Bad == {j \in 1..m : result[j] = "malformed"}
<1>1. CASE Bad = {}
  BY <1>1
<1>2. CASE Bad # {}
  <2>1. Bad \in SUBSET Nat
    OBVIOUS
  <2>2. PICK b \in Bad : \A j \in Bad : b <= j
    BY <1>2, <2>1, NatHasLeast
  <2>3. b \in 1..m /\ result[b] = "malformed" /\ \A k \in 1..(b - 1) : result[k] # "malformed"
    BY <2>2
  <2>4. Good = 1..(b - 1)
    BY <2>3
  <2>5. Cardinality(1..(b - 1)) = b - 1
    <3>1. b - 1 \in Nat
      BY <2>3
    <3>. QED
      BY <3>1, FS_Interval
  <2>6. i <= b - 1
    BY <2>4, <2>5
  <2>7. i \in 1..(b - 1)
    BY <2>3, <2>6
  <2>. QED
    BY <2>3, <2>7
<1>. QED
  BY <1>1, <1>2

\* runChunk settles every request of its chunk, whatever fn returned, and no other.
LEMMA SettledIs ==
  ASSUME promise \in [Request -> Outcome], NEW chunk, Len(chunk) \in Nat,
         NEW threw \in BOOLEAN, NEW m \in Nat, NEW result \in [1..m -> Status], NEW r \in Request
  PROVE  LET p == Settled(chunk, threw, result)
         IN  /\ p \in [Request -> Outcome]
             /\ (\E i \in 1..Len(chunk) : chunk[i] = r) => p[r] # "pending"
             /\ ~(\E i \in 1..Len(chunk) : chunk[i] = r) => p[r] = promise[r]
<1>. DEFINE good == IF threw \/ Len(result) # Len(chunk) THEN 0
                    ELSE Cardinality({i \in 1..Len(result) :
                                        \A k \in 1..i : result[k] # "malformed"})
            at(q) == CHOOSE i \in 1..Len(chunk) : chunk[i] = q
            value(q) == IF promise[q] # "pending" \/ \A i \in 1..Len(chunk) : chunk[i] # q
                        THEN promise[q]
                        ELSE IF at(q) <= good THEN result[at(q)] ELSE "failed"
            p == Settled(chunk, threw, result)
<1>1. p = [q \in Request |-> value(q)]
  BY DEF Settled
<1>2. Len(result) = m
  OBVIOUS
<1>3. ASSUME NEW q \in Request, promise[q] = "pending", \E i \in 1..Len(chunk) : chunk[i] = q
      PROVE  value(q) \in Outcome /\ value(q) # "pending"
  <2>1. at(q) \in 1..Len(chunk)
    BY <1>3
  <2>2. value(q) = IF at(q) <= good THEN result[at(q)] ELSE "failed"
    BY <1>3
  <2>. DEFINE i == at(q)
  <2>. HIDE DEF at
  <2>3. CASE i <= good
    <3>1. ~threw /\ m = Len(chunk)
      BY <1>2, <2>1, <2>3
    <3>2. i \in 1..m /\ i <= Cardinality({j \in 1..m : \A k \in 1..j : result[k] # "malformed"})
      BY <1>2, <2>1, <2>3, <3>1
    <3>3. result[i] # "malformed" /\ result[i] \in Status
      BY <3>2, GoodEntries
    <3>. QED
      BY <2>2, <2>3, <3>3 DEF Status, Outcome
  <2>4. CASE ~(i <= good)
    BY <2>2, <2>4 DEF Outcome
  <2>. QED
    BY <2>3, <2>4
<1>4. \A q \in Request : value(q) \in Outcome
  <2>. SUFFICES ASSUME NEW q \in Request  PROVE value(q) \in Outcome
    OBVIOUS
  <2>1. CASE promise[q] = "pending" /\ \E i \in 1..Len(chunk) : chunk[i] = q
    BY <1>3, <2>1
  <2>2. CASE ~(promise[q] = "pending" /\ \E i \in 1..Len(chunk) : chunk[i] = q)
    BY <2>2
  <2>. QED
    BY <2>1, <2>2
<1>5. p[r] = value(r)
  BY <1>1
<1>6. (\E i \in 1..Len(chunk) : chunk[i] = r) => value(r) # "pending"
  BY <1>3
<1>7. ~(\E i \in 1..Len(chunk) : chunk[i] = r) => value(r) = promise[r]
  OBVIOUS
<1>. HIDE DEF value
<1>. QED
  BY <1>1, <1>4, <1>5, <1>6, <1>7

\* An invocation that ends answers its own requests and no others.
LEMMA SettleOrder ==
  ASSUME BatchInv, NEW c \in 1..Len(phase), Settle(c)
  PROVE  OrderInv' /\ PromiseInv'
<1>0. CounterInv /\ OrderInv /\ PromiseInv
  BY BatchFacts
<1>1. /\ phase[c] = "running"
      /\ phase' = [phase EXCEPT ![c] = IF Unlimited THEN "released" ELSE "settled"]
      /\ UNCHANGED <<buffer, scheduled, timers, maxBatchSize, maxInFlight, pending, head, queued,
                     inFlight, pumping, args, hung, called>>
  BY DEF Settle, bufferVars, options, queueVars
<1>2. /\ args \in Seq(Seq(Request)) /\ Chain(args, 0, Started) /\ Len(phase) = Len(args)
      /\ phase \in Seq(Phase) /\ Len(args) \in Nat
  BY <1>0 DEF OrderInv, Chain, CounterInv
<1>3. args[c] \in Seq(Request) /\ Len(args[c]) \in Nat
  <2>1. args[c] \in Seq(Request)
    BY <1>2
  <2>. QED
    BY <2>1
<1>4. PICK threw \in BOOLEAN, result \in Results(c) : promise' = Settled(args[c], threw, result)
  BY DEF Settle
<1>5. PICK m \in (Len(args[c]) - 1)..(Len(args[c]) + 1) : result \in [1..m -> Status]
  BY DEF Results
<1>6. PICK k \in Nat : result \in [1..k -> Status]
  <2>1. CASE m \in Nat
    BY <1>5, <2>1
  <2>2. CASE m \notin Nat
    <3>1. 1..m = 1..0
      BY <1>3, <2>2
    <3>. QED
      BY <1>5, <3>1
  <2>. QED
    BY <2>1, <2>2
<1>7. \A r \in Request :
        /\ promise' \in [Request -> Outcome]
        /\ In(args, c, r) => promise'[r] # "pending"
        /\ ~In(args, c, r) => promise'[r] = promise[r]
  <2>. DEFINE chunk == args[c]
  <2>1. promise \in [Request -> Outcome] /\ Len(chunk) \in Nat /\ promise' = Settled(chunk, threw, result)
    BY <1>0, <1>3, <1>4 DEF PromiseInv
  <2>2. \A r : In(args, c, r) <=> \E i \in 1..Len(chunk) : chunk[i] = r
    BY DEF In
  <2>. HIDE DEF chunk
  <2>. QED
    BY <1>6, <2>1, <2>2, SettledIs
<1>8. Collected' = Collected /\ Started' = Started /\ (Unlimited' <=> Unlimited) /\ Len(phase') = Len(phase)
  BY <1>1, <1>2 DEF Collected, Started, Unlimited, Infinity
<1>9. OrderInv'
  BY <1>0, <1>1, <1>8 DEF OrderInv
<1>10. ASSUME NEW r \in Request  PROVE promise'[r] = "pending" <=> Waits(r)'
  <2>1. Waits(r)' <=> \/ r \in (Started + 1)..called
                      \/ \E e \in 1..Len(args) : phase'[e] = "running" /\ In(args, e, r)
    BY <1>1, <1>8 DEF Waits, In
  <2>2. \A e \in 1..Len(args) : phase'[e] = "running" <=> phase[e] = "running" /\ e # c
    BY <1>1, <1>2
  <2>3. r \in Int
    BY DEF Request
  <2>4. CASE In(args, c, r)
    <3>1. \A e \in 1..Len(args) : In(args, e, r) => e = c
      BY <1>2, <2>3, <2>4, OneRun
    <3>3. Started \in Int
      BY <1>0, OrderNumbers
    <3>2. r <= Started
      <4>1. PICK at \in Offsets(args, 0, Started) : TRUE
        BY <1>2 DEF Chain
      <4>2. c \in 1..Len(args) /\ c \in 0..Len(args)
        BY <1>2
      <4>3. r <= at[c]
        BY <1>2, <2>3, <2>4, <4>2, InRun
      <4>4. at[c] \in 0..Started
        BY <1>2, <4>2, OffsetsElements
      <4>. DEFINE y == at[c]
      <4>5. y \in 0..Started /\ r <= y
        BY <4>3, <4>4
      <4>. HIDE DEF y
      <4>. QED
        BY <2>3, <3>3, <4>5
    <3>. QED
      BY <1>7, <2>1, <2>2, <2>3, <2>4, <3>1, <3>2, <3>3
  <2>5. CASE ~In(args, c, r)
    <3>1. Waits(r)' <=> Waits(r)
      BY <2>1, <2>2, <2>5 DEF Waits
    <3>. QED
      BY <1>0, <1>7, <2>5, <3>1 DEF PromiseInv
  <2>. QED
    BY <2>4, <2>5
<1>11. promise' \in [Request -> Outcome]
  <2>1. CASE Request = {}
    BY <1>4, <2>1 DEF Settled
  <2>2. CASE Request # {}
    BY <1>7, <2>2
  <2>. QED
    BY <2>1, <2>2
<1>12. PromiseInv'
  BY <1>0, <1>1, <1>10, <1>11 DEF PromiseInv
<1>. QED
  BY <1>9, <1>12

\* A release answers nobody.
LEMMA ReleaseOrder ==
  ASSUME BatchInv, NEW c \in 1..Len(phase), Release(c)
  PROVE  OrderInv' /\ PromiseInv'
<1>0. CounterInv /\ OrderInv /\ PromiseInv /\ UnlimitedInv
  BY BatchFacts
<1>1. /\ phase[c] = "settled" /\ phase' = [phase EXCEPT ![c] = "released"]
      /\ UNCHANGED <<buffer, scheduled, timers, maxBatchSize, maxInFlight, pending, head, queued,
                     args, hung, called, promise>>
  BY DEF Release, bufferVars, options, queueVars
<1>2. Len(phase) = Len(args) /\ phase \in Seq(Phase)
  BY <1>0 DEF OrderInv, CounterInv
<1>3. /\ Collected' = Collected /\ Started' = Started /\ ~Unlimited' /\ Len(phase') = Len(phase)
  BY <1>0, <1>1, <1>2 DEF Collected, Started, Unlimited, Infinity, UnlimitedInv
<1>4. OrderInv'
  BY <1>0, <1>1, <1>3 DEF OrderInv
<1>5. \A e \in 1..Len(args) : phase'[e] = "running" <=> phase[e] = "running"
  BY <1>1, <1>2
<1>6. \A r \in Request : Waits(r)' <=> Waits(r)
  BY <1>1, <1>3, <1>5 DEF Waits, In
<1>7. PromiseInv'
  BY <1>0, <1>1, <1>6 DEF PromiseInv
<1>. QED
  BY <1>4, <1>7

-----------------------------------------------------------------------------
(* The invariant. *)

\* Every step keeps the numbering.
LEMMA NextOrder == BatchInv /\ [Next]_vars => BatchInv'
<1>. SUFFICES ASSUME BatchInv, [Next]_vars  PROVE BatchInv'
  OBVIOUS
<1>1. Inv'
  BY NextInv DEF BatchInv
<1>2. OrderInv' /\ PromiseInv'
  <2>1. CASE Call
    BY <2>1, CallOrder
  <2>2. CASE Tick
    BY <2>2, TickOrder
  <2>3. CASE LimitedTick
    BY <2>3, LimitedTickOrder
  <2>4. CASE Pump
    BY <2>4, PumpOrder
  <2>5. ASSUME UNCHANGED <<bufferVars, options, queueVars, inFlight, args, phase, hung, called, promise>>
        PROVE  OrderInv' /\ PromiseInv'
    <3>1. UNCHANGED <<buffer, scheduled, timers, maxBatchSize, maxInFlight, pending, head, queued,
                      inFlight, args, phase, hung, called, promise>>
      BY <2>5 DEF bufferVars, options, queueVars
    <3>2. Collected' = Collected /\ Started' = Started /\ (Unlimited' <=> Unlimited)
      BY <3>1 DEF Collected, Started, Unlimited, Infinity
    <3>3. \A r \in Request : Waits(r)' <=> Waits(r)
      BY <3>1, <3>2 DEF Waits, In
    <3>4. OrderInv'
      BY <3>1, <3>2, BatchFacts DEF OrderInv
    <3>5. PromiseInv'
      BY <3>1, <3>3, BatchFacts DEF PromiseInv
    <3>. QED
      BY <3>4, <3>5
  <2>6. CASE PumpEnds
    BY <2>5, <2>6 DEF PumpEnds
  <2>7. CASE \E c \in 1..Len(phase) : Settle(c) \/ Release(c)
    BY <2>7, SettleOrder, ReleaseOrder
  <2>8. CASE Done \/ UNCHANGED vars
    BY <2>5, <2>8 DEF Done, vars
  <2>. QED
    BY <2>1, <2>2, <2>3, <2>4, <2>6, <2>7, <2>8 DEF Next
<1>3. UNCHANGED <<maxBatchSize, maxInFlight>>
  BY DEF Next, Call, Tick, LimitedTick, Pump, PumpEnds, Settle, Release, Done, vars, options
<1>4. maxBatchSize' <= Infinity' /\ maxInFlight' <= Infinity'
  BY <1>3 DEF BatchInv, Infinity
<1>. QED
  BY <1>1, <1>2, <1>4 DEF BatchInv

\* The requests are numbered in the order of their calls through buffer, queue
\* and invocations, at all times.
THEOREM OrderInductive == Spec => []BatchInv
<1>1. Init => BatchInv
  BY InitInv, InitOrder DEF BatchInv
<1>. QED
  BY <1>1, NextOrder, PTL DEF Spec

\* The numbering bounds every counter by the number of calls.
LEMMA NumbersBounded ==
  ASSUME BatchInv
  PROVE  head \in 0..MaxRequests /\ queued \in 0..MaxRequests /\ inFlight \in 0..MaxRequests
<1>0. CounterInv /\ OrderInv /\ PromiseInv /\ UnlimitedInv
  BY BatchFacts
<1>1. /\ MaxRequests \in Nat /\ called \in 0..MaxRequests /\ Len(buffer) \in 0..called
      /\ Collected \in 0..called /\ Started \in 0..Collected /\ queued \in 0..Collected
  BY <1>0, OrderNumbers
<1>2. head \in 0..MaxRequests
  <2>1. head \in 0..Started
    BY <1>0 DEF OrderInv
  <2>. QED
    BY <1>1, <2>1
<1>3. inFlight \in 0..MaxRequests
  <2>1. CASE Unlimited
    BY <1>0, <1>1, <2>1 DEF OrderInv
  <2>2. CASE ~Unlimited
    <3>1. inFlight = Cardinality(Open(phase))
      BY <2>2 DEF BatchInv, Inv, SlotsCounted, Open
    <3>2. phase \in Seq(Phase) /\ Len(phase) \in Nat
      BY <1>0 DEF CounterInv
    <3>3. Len(phase) <= Started
      <4>1. Len(args) <= Started - 0
        BY <1>0, <1>1, ChainLength DEF OrderInv
      <4>. QED
        BY <1>0, <1>1, <4>1 DEF OrderInv
    <3>4. IsFiniteSet(1..Len(phase)) /\ Cardinality(1..Len(phase)) = Len(phase)
      BY SMTT(20), <3>2, FS_Interval
    <3>5. Cardinality(Open(phase)) <= Cardinality(1..Len(phase))
      BY <3>4, FS_Subset DEF Open
    <3>6. Cardinality(Open(phase)) \in Nat
      BY <3>2, OpenFinite
    <3>. QED
      BY <1>1, <3>1, <3>2, <3>3, <3>4, <3>5, <3>6
  <2>. QED
    BY <2>1, <2>2
<1>. QED
  BY <1>1, <1>2, <1>3

\* The type invariant of the executor: no counter passes the number of calls,
\* and queue, invocations and promises stay sequences of requests and outcomes.
THEOREM CountersStayInRange == Spec => []TypeOK
<1>1. BatchInv => TypeOK
  <2>. SUFFICES ASSUME BatchInv  PROVE TypeOK
    OBVIOUS
  <2>0. CounterInv /\ OrderInv /\ PromiseInv /\ UnlimitedInv
    BY BatchFacts
  <2>1. head \in 0..MaxRequests /\ queued \in 0..MaxRequests /\ inFlight \in 0..MaxRequests
    BY NumbersBounded
  <2>2. maxBatchSize \in 1..Infinity /\ maxInFlight \in 1..Infinity
    BY <2>0, RequestsAssumption DEF BatchInv, CounterInv, Infinity
  <2>3. timers \in Nat
    BY <2>0 DEF PromiseInv
  <2>4. pending \in Seq(Seq(Request)) /\ args \in Seq(Seq(Request)) /\ Len(phase) = Len(args)
    BY <2>0 DEF OrderInv, Chain
  <2>. QED
    BY <2>0, <2>1, <2>2, <2>3, <2>4 DEF TypeOK, CounterInv, PromiseInv, Phase
<1>. QED
  BY <1>1, OrderInductive, PTL

-----------------------------------------------------------------------------
(* Every chunk is the next requests. *)

\* The requests handed to fn are the first ones.
LEMMA DispatchedIs ==
  ASSUME BatchInv
  PROVE  Cardinality(Dispatched) = Started
<1>0. CounterInv /\ OrderInv
  BY BatchFacts
<1>1. MaxRequests \in Nat /\ Started \in 0..MaxRequests
  BY <1>0, OrderNumbers
<1>2. args \in Seq(Seq(Request)) /\ Len(args) \in Nat
  BY <1>0 DEF OrderInv, Chain
<1>3. PICK at \in Offsets(args, 0, Started) : TRUE
  BY <1>0 DEF OrderInv, Chain
<1>4. ASSUME NEW r \in Request, r <= Started
      PROVE  \E c \in 1..Len(args) : In(args, c, r)
  <2>1. r \in Int /\ 0 < r
    BY DEF Request
  <2>2. PICK j \in 1..Len(args) : at[j - 1] < r /\ r <= at[j]
    BY <1>2, <1>3, <1>4, <2>1, OffsetsCover
  <2>. QED
    BY <1>2, <2>1, <2>2, InRun
<1>5. ASSUME NEW r \in Request, NEW c \in 1..Len(args), In(args, c, r)
      PROVE  r <= Started
  <2>1. r \in Int /\ c \in 0..Len(args)
    BY <1>2 DEF Request
  <2>. DEFINE y == at[c]
  <2>2. r <= y
    BY <1>2, <1>5, <2>1, InRun
  <2>3. y \in 0..Started
    BY <1>2, <2>1, OffsetsElements
  <2>. HIDE DEF y
  <2>. QED
    BY <1>1, <2>1, <2>2, <2>3
<1>6. Dispatched = {r \in Request : \E c \in 1..Len(args) : In(args, c, r)}
  BY DEF Dispatched, In
<1>7. Dispatched = 1..Started
  <2>1. \A r \in Dispatched : r \in 1..Started
    BY <1>1, <1>5, <1>6 DEF Request
  <2>2. \A r \in 1..Started : r \in Dispatched
    BY <1>1, <1>4, <1>6 DEF Request
  <2>. QED
    BY <2>1, <2>2
<1>. QED
  BY <1>1, <1>7, FS_Interval

\* Strict FIFO with coalescing, for every pair of limits: a new invocation gets
\* the next requests in the order of the calls, however many ticks they came in,
\* and as many as are collected and maxBatchSize allows.
THEOREM ChunksAreInOrder == Spec => FifoDispatch
<1>. DEFINE Step == LET d == Cardinality(Dispatched)
                        collected == called - Len(buffer') - d
                    IN  Len(args') > Len(args) =>
                          args' = Append(args,
                            [i \in 1..(IF collected < maxBatchSize THEN collected ELSE maxBatchSize) |-> d + i])
<1>1. BatchInv /\ [Next]_vars => [Step]_vars
  <2>. SUFFICES ASSUME BatchInv, Next  PROVE Step
    OBVIOUS
  <2>. DEFINE d == Cardinality(Dispatched)
              collected == called - Len(buffer') - d
              size == IF collected < maxBatchSize THEN collected ELSE maxBatchSize
  <2>0. CounterInv /\ OrderInv /\ PromiseInv /\ UnlimitedInv /\ maxBatchSize \in Nat
    BY BatchFacts DEF CounterInv
  <2>1. /\ MaxRequests \in Nat /\ called \in 0..MaxRequests /\ Len(buffer) \in 0..called
        /\ Collected \in 0..called /\ queued \in 0..Collected /\ Started \in 0..Collected
        /\ Started + queued = Collected /\ Collected + Len(buffer) = called
    BY <2>0, OrderNumbers
  <2>2. d = Started
    BY DispatchedIs
  <2>. HIDE DEF d
  <2>3. SUFFICES ASSUME Len(args') > Len(args)  PROVE args' = Append(args, Run(Started, size))
    BY <2>2 DEF Run, d
  <2>4. CASE Tick
    <3>1. /\ Unlimited /\ buffer' = <<>> /\ args' = Append(args, buffer)
      BY <2>4 DEF Tick, Worker, Invoke
    <3>2. Len(buffer') = 0 /\ queued = 0 /\ maxBatchSize = MaxRequests + 1
      BY <2>0, <3>1 DEF UnlimitedInv, Unlimited, Infinity
    <3>3. collected = Len(buffer) /\ Started = Collected
      BY <2>1, <2>2, <3>2
    <3>4. size = Len(buffer)
      BY <2>1, <3>2, <3>3
    <3>5. buffer = Run(Started, size)
      BY <2>0, <3>3, <3>4 DEF OrderInv
    <3>. QED
      BY <3>1, <3>5
  <2>5. CASE Pump
    <3>1. buffer' = buffer /\ args' = Append(args, Run(Started, ChunkSize))
      BY <2>5, PumpOrder DEF Pump, bufferVars
    <3>2. collected = queued
      BY <2>1, <2>2, <3>1
    <3>3. size = ChunkSize
      BY <3>2 DEF ChunkSize
    <3>. QED
      BY <3>1, <3>3
  <2>6. CASE args' = args
    <3>1. Len(args) \in Nat
      BY <2>0 DEF OrderInv, Chain
    <3>. QED
      BY <2>3, <2>6, <3>1
  <2>. QED
    BY <2>4, <2>5, <2>6 DEF Next, Call, LimitedTick, PumpEnds, Settle, Release, Done, vars
<1>. QED
  BY <1>1, OrderInductive, PTL DEF Spec, FifoDispatch

-----------------------------------------------------------------------------
(* Every unanswered request is in exactly one place. *)

\* where r is in the sequences of q
Spots(q, r) == {p \in (1..Len(q)) \X Request : p[2] <= Len(q[p[1]]) /\ q[p[1]][p[2]] = r}

\* A chain holds each of its requests once.
LEMMA OneSpot ==
  ASSUME NEW q \in Seq(Seq(Request)), NEW a, NEW b, NEW at \in Offsets(q, a, b),
         NEW r \in Request, NEW c \in 1..Len(q), In(q, c, r)
  PROVE  /\ at[c - 1] < r /\ r <= at[c]
         /\ Spots(q, r) = {<<c, r - at[c - 1]>>}
<1>. DEFINE x == at[c - 1]
            y == at[c]
<1>1. r \in Int /\ MaxRequests \in Nat /\ r <= MaxRequests /\ Len(q) \in Nat
  BY RequestsAssumption DEF Request
<1>2. c \in 0..Len(q) /\ c - 1 \in 0..Len(q)
  BY <1>1
<1>3. x < r /\ r <= y
  BY <1>1, InRun
<1>4. /\ Len(q[c]) = y - x /\ \A i \in 1..Len(q[c]) : q[c][i] = x + i
      /\ x \in a..b /\ y \in a..b /\ a \in 0..MaxRequests
  BY <1>2, OffsetsElements
<1>. HIDE DEF x, y
<1>5. x \in Nat /\ y \in Nat
  BY <1>4
<1>. DEFINE z == r - x
<1>6. z \in 1..Len(q[c]) /\ z \in Request /\ x + z = r
  <2>. DEFINE l == Len(q[c])
  <2>1. l = y - x
    BY <1>4
  <2>. HIDE DEF l
  <2>2. z \in 1..l /\ x + z = r
    BY <1>1, <1>3, <1>5, <2>1
  <2>3. z \in Request
    BY <1>1, <1>3, <1>5 DEF Request
  <2>. QED
    BY <2>2, <2>3 DEF l
<1>. HIDE DEF z
<1>7. <<c, z>> \in Spots(q, r)
  BY SMTT(20), <1>4, <1>6 DEF Spots
<1>8. ASSUME NEW p \in Spots(q, r)  PROVE p = <<c, z>>
  <2>1. /\ p \in (1..Len(q)) \X Request /\ p[2] <= Len(q[p[1]]) /\ q[p[1]][p[2]] = r
    BY DEF Spots
  <2>. DEFINE e == p[1]
              i == p[2]
  <2>2. e \in 1..Len(q) /\ i \in Request /\ p = <<e, i>> /\ i <= Len(q[e]) /\ q[e][i] = r
    BY <2>1
  <2>. HIDE DEF e, i
  <2>3. q[e] \in Seq(Request)
    BY <2>2
  <2>4. i \in 1..Len(q[e])
    BY <2>2, <2>3 DEF Request
  <2>5. In(q, e, r)
    BY <2>2, <2>4 DEF In
  <2>6. Chain(q, a, b)
    BY DEF Chain
  <2>7. e = c
    BY <1>1, <2>2, <2>5, <2>6, OneRun
  <2>8. r = x + i
    BY <1>4, <2>2, <2>4, <2>7
  <2>9. i = z
    BY <1>1, <1>5, <1>6, <2>4, <2>8 DEF z
  <2>. QED
    BY <2>2, <2>7, <2>9
<1>9. Spots(q, r) = {<<c, z>>}
  BY <1>7, <1>8
<1>. QED
  BY <1>3, <1>9 DEF x, y, z

\* A request in the sequences of q is in one of them.
LEMMA SpotIn ==
  ASSUME NEW q \in Seq(Seq(Request)), NEW r \in Request, NEW p \in Spots(q, r)
  PROVE  p[1] \in 1..Len(q) /\ In(q, p[1], r)
<1>1. /\ p \in (1..Len(q)) \X Request /\ p[2] <= Len(q[p[1]]) /\ q[p[1]][p[2]] = r
  BY DEF Spots
<1>. DEFINE e == p[1]
            i == p[2]
<1>2. e \in 1..Len(q) /\ i \in Request /\ i <= Len(q[e]) /\ q[e][i] = r
  BY <1>1
<1>. HIDE DEF e, i
<1>3. q[e] \in Seq(Request)
  BY <1>2
<1>4. i \in 1..Len(q[e])
  BY <1>2, <1>3 DEF Request
<1>. QED
  BY <1>2, <1>4 DEF In, e

\* The buffer holds what was called since the last tick.
LEMMA BufferPlace ==
  ASSUME BatchInv, NEW r \in Request
  PROVE  Cardinality(InBuffer(r)) = IF r \in (Collected + 1)..called THEN 1 ELSE 0
<1>0. CounterInv /\ OrderInv
  BY BatchFacts
<1>. DEFINE d == Collected
            n == Len(buffer)
<1>1. /\ MaxRequests \in Nat /\ called \in 0..MaxRequests /\ n \in Nat /\ d \in Nat /\ d + n = called
      /\ r \in Int
  BY <1>0, OrderNumbers DEF Request
<1>2. buffer = Run(d, n)
  BY <1>0 DEF OrderInv
<1>. HIDE DEF d, n
<1>3. \A i \in 1..n : buffer[i] = d + i
  BY <1>1, <1>2, RunType
<1>4. InBuffer(r) = {i \in 1..n : d + i = r}
  BY <1>3 DEF InBuffer, n
<1>5. CASE r \in (d + 1)..called
  <2>. DEFINE z == r - d
  <2>1. z \in 1..n /\ d + z = r /\ \A i \in 1..n : d + i = r => i = z
    BY <1>1, <1>5
  <2>. HIDE DEF z
  <2>2. InBuffer(r) = {z}
    BY <1>4, <2>1
  <2>. QED
    BY <1>5, <2>2, FS_Singleton DEF d
<1>6. CASE r \notin (d + 1)..called
  <2>1. InBuffer(r) = {}
    BY <1>1, <1>4, <1>6
  <2>. QED
    BY <1>6, <2>1, FS_EmptySet DEF d
<1>. QED
  BY <1>5, <1>6

\* The queue holds what was collected and not yet handed to fn.
LEMMA QueuePlace ==
  ASSUME BatchInv, NEW r \in Request
  PROVE  /\ r \in (Started + 1)..Collected => \E p : InQueue(r) = {p}
         /\ r \notin (Started + 1)..Collected => InQueue(r) = {}
<1>0. CounterInv /\ OrderInv
  BY BatchFacts
<1>. DEFINE s == Started
            d == Collected
<1>1. /\ MaxRequests \in Nat /\ s \in Nat /\ d \in Nat /\ s <= d /\ head \in 0..s /\ r \in Int
  BY <1>0, OrderNumbers DEF Request
<1>2. pending \in Seq(Seq(Request)) /\ Len(pending) \in Nat
  BY <1>0 DEF OrderInv, Chain
<1>3. PICK at \in Offsets(pending, s - head, d) : TRUE
  BY <1>0 DEF OrderInv, Chain
<1>4. InQueue(r) = {p \in Spots(pending, r) : p[1] = 1 => p[2] > head}
  BY DEF InQueue, Spots
<1>5. at[0] = s - head /\ (head = 0 \/ (pending # <<>> /\ head < Len(pending[1])))
  BY <1>0, <1>3 DEF OrderInv, Offsets
<1>. HIDE DEF s, d
<1>6. ASSUME NEW c \in 1..Len(pending), In(pending, c, r)
      PROVE  /\ r <= d
             /\ Spots(pending, r) = {<<c, r - at[c - 1]>>}
             /\ r <= s => c = 1 /\ r - at[c - 1] <= head
             /\ r > s => (c = 1 => r - at[c - 1] > head)
  <2>. DEFINE x == at[c - 1]
              y == at[c]
  <2>1. x < r /\ r <= y /\ Spots(pending, r) = {<<c, r - x>>}
    BY <1>2, <1>3, <1>6, OneSpot
  <2>2. x \in (s - head)..d /\ y \in (s - head)..d
    <3>1. c \in 0..Len(pending) /\ c - 1 \in 0..Len(pending)
      BY <1>2
    <3>. QED
      BY <1>2, <1>3, <3>1, OffsetsElements
  <2>3. c = 1 => x = s - head
    BY <1>5
  <2>4. c > 1 => x >= s
    <3>. SUFFICES ASSUME c > 1  PROVE x >= s
      OBVIOUS
    <3>. DEFINE w == at[1]
    <3>1. 1 \in 1..Len(pending) /\ 1 \in 0..Len(pending) /\ c - 1 \in 0..Len(pending) /\ 1 - 1 = 0
      BY <1>2
    <3>2. w \in Int /\ x \in Int
      BY <1>3, <3>1, OffsetsType
    <3>3. w = (s - head) + Len(pending[1]) /\ Len(pending[1]) > 0 /\ Len(pending[1]) \in Nat
      <4>1. Len(pending[1]) = at[1] - at[1 - 1] /\ Len(pending[1]) > 0
        BY <1>2, <1>3, <3>1, OffsetsElements
      <4>2. Len(pending[1]) = w - (s - head)
        BY <1>5, <3>1, <4>1
      <4>. DEFINE l == Len(pending[1])
      <4>. HIDE DEF w, l
      <4>3. l = w - (s - head) /\ l > 0
        BY <4>1, <4>2 DEF l
      <4>4. w = (s - head) + l /\ l \in Nat
        BY <1>1, <3>2, <4>3
      <4>. QED
        BY <4>3, <4>4 DEF l
    <3>4. w <= x
      <4>1. CASE c - 1 = 1
        BY <3>2, <4>1
      <4>2. CASE 1 < c - 1
        <5>1. at[1] < at[c - 1]
          BY <1>2, <1>3, <3>1, <4>2, OffsetsGrow
        <5>. HIDE DEF w, x
        <5>2. w < x
          BY <5>1 DEF w, x
        <5>. QED
          BY <3>2, <5>2
      <4>. QED
        BY <1>2, <4>1, <4>2
    <3>. HIDE DEF w, x
    <3>5. w >= s
      BY <1>1, <1>5, <3>2, <3>3
    <3>. QED
      BY <1>1, <3>2, <3>4, <3>5
  <2>. HIDE DEF x, y
  <2>5. x \in Int /\ y \in Int /\ c \in Nat /\ c >= 1
    BY <1>1, <2>2
  <2>6. r <= d /\ (r <= s => c = 1 /\ r - x <= head) /\ (r > s => (c = 1 => r - x > head))
    BY <1>1, <2>1, <2>2, <2>3, <2>4, <2>5
  <2>. QED
    BY <2>1, <2>6 DEF x
<1>7. ASSUME r \in (s + 1)..d  PROVE \E p : InQueue(r) = {p}
  <2>1. s - head < r /\ r <= d /\ r > s
    BY <1>1, <1>7
  <2>2. PICK c \in 1..Len(pending) : at[c - 1] < r /\ r <= at[c]
    BY <1>1, <1>2, <1>3, <2>1, OffsetsCover
  <2>3. In(pending, c, r)
    BY <1>1, <1>2, <1>3, <2>2, InRun
  <2>. DEFINE p == <<c, r - at[c - 1]>>
  <2>4. Spots(pending, r) = {p} /\ (p[1] = 1 => p[2] > head)
    BY <1>6, <2>1, <2>3
  <2>. HIDE DEF p
  <2>5. InQueue(r) = {p}
    BY <1>4, <2>4
  <2>. QED
    BY <2>5
<1>8. ASSUME r \notin (s + 1)..d  PROVE InQueue(r) = {}
  <2>. SUFFICES ASSUME NEW p \in InQueue(r)  PROVE FALSE
    OBVIOUS
  <2>1. p \in Spots(pending, r) /\ (p[1] = 1 => p[2] > head)
    BY <1>4
  <2>. DEFINE c == p[1]
  <2>2. c \in 1..Len(pending) /\ In(pending, c, r)
    BY <1>2, <2>1, SpotIn
  <2>3. r <= d /\ p = <<c, r - at[c - 1]>>
    BY <1>6, <2>1, <2>2
  <2>4. r <= s
    BY <1>1, <1>8, <2>3
  <2>5. c = 1 /\ r - at[c - 1] <= head
    BY <1>6, <2>2, <2>4
  <2>6. p[2] = r - at[c - 1]
    BY <2>3
  <2>. DEFINE z == p[2]
  <2>7. z <= head /\ z > head /\ z \in Int
    BY <2>1, <2>5, <2>6 DEF Spots, Request
  <2>. HIDE DEF z
  <2>. QED
    BY <1>1, <2>7
<1>. QED
  BY <1>7, <1>8 DEF s, d

\* A request handed to fn is held by its invocation for as long as that runs.
LEMMA InvocationPlace ==
  ASSUME BatchInv, NEW r \in Request
  PROVE  /\ (\E c \in 1..Len(args) : phase[c] = "running" /\ In(args, c, r)) =>
              r <= Started /\ Cardinality(InInvocation(r)) = 1
         /\ ~(\E c \in 1..Len(args) : phase[c] = "running" /\ In(args, c, r)) =>
              Cardinality(InInvocation(r)) = 0
<1>0. CounterInv /\ OrderInv
  BY BatchFacts
<1>1. args \in Seq(Seq(Request)) /\ Len(args) \in Nat /\ Started \in Int /\ r \in Int
  BY <1>0, OrderNumbers DEF OrderInv, Chain, Request
<1>2. PICK at \in Offsets(args, 0, Started) : TRUE
  BY <1>0 DEF OrderInv, Chain
<1>3. InInvocation(r) = {p \in Spots(args, r) : phase[p[1]] = "running"}
  BY DEF InInvocation, Spots
<1>4. ASSUME NEW c \in 1..Len(args), phase[c] = "running", In(args, c, r)
      PROVE  r <= Started /\ Cardinality(InInvocation(r)) = 1
  <2>. DEFINE y == at[c]
              p == <<c, r - at[c - 1]>>
  <2>1. r <= y /\ Spots(args, r) = {p} /\ p[1] = c
    BY <1>1, <1>2, <1>4, OneSpot
  <2>2. y \in 0..Started
    <3>1. c \in 0..Len(args)
      BY <1>1
    <3>. QED
      BY <1>1, <1>2, <3>1, OffsetsElements
  <2>. HIDE DEF y, p
  <2>3. InInvocation(r) = {p}
    BY <1>3, <1>4, <2>1
  <2>4. Cardinality(InInvocation(r)) = 1
    BY <2>3, FS_Singleton
  <2>5. r <= Started
    BY <1>1, <2>1, <2>2
  <2>. QED
    BY <2>4, <2>5
<1>5. ASSUME ~(\E c \in 1..Len(args) : phase[c] = "running" /\ In(args, c, r))
      PROVE  Cardinality(InInvocation(r)) = 0
  <2>1. InInvocation(r) = {}
    BY <1>1, <1>3, <1>5, SpotIn
  <2>. QED
    BY <2>1, FS_EmptySet
<1>. QED
  BY <1>4, <1>5

\* queued is the number of places in the queue.
LEMMA QueuedCounts ==
  ASSUME BatchInv
  PROVE  queued = Cardinality(UNION {InQueue(r) : r \in Request})
<1>0. CounterInv /\ OrderInv
  BY BatchFacts
<1>. DEFINE s == Started
            d == Collected
            R == (s + 1)..d
            Q == UNION {InQueue(r) : r \in Request}
            f == [r \in R |-> CHOOSE p : InQueue(r) = {p}]
<1>1. /\ MaxRequests \in Nat /\ s \in Nat /\ d \in 0..MaxRequests /\ s + queued = d /\ queued \in Nat
  BY <1>0, OrderNumbers
<1>2. \A r \in Request : /\ r \in R => \E p : InQueue(r) = {p}
                         /\ r \notin R => InQueue(r) = {}
  BY QueuePlace
<1>. HIDE DEF s, d
<1>3. R \subseteq Request
  BY <1>1 DEF Request
<1>. HIDE DEF R
<1>4. \A r \in R : InQueue(r) = {f[r]}
  BY <1>2, <1>3
<1>. HIDE DEF f
<1>5. \A r \in Request : \A p \in InQueue(r) : pending[p[1]][p[2]] = r
  BY DEF InQueue
<1>6. f \in [R -> Q]
  <2>1. f = [r \in R |-> f[r]]
    BY DEF f
  <2>2. \A r \in R : f[r] \in Q
    BY <1>3, <1>4
  <2>. QED
    BY <2>1, <2>2
<1>7. \A r, t \in R : f[r] = f[t] => r = t
  <2>. SUFFICES ASSUME NEW r \in R, NEW t \in R, f[r] = f[t]  PROVE r = t
    OBVIOUS
  <2>1. f[r] \in InQueue(r) /\ f[r] \in InQueue(t)
    BY <1>4
  <2>. QED
    BY <1>3, <1>5, <2>1
<1>8. \A p \in Q : \E r \in R : f[r] = p
  BY <1>2, <1>4
<1>9. f \in Bijection(R, Q)
  <2>1. f \in Injection(R, Q)
    BY <1>6, <1>7 DEF Injection, IsInjective
  <2>2. f \in Surjection(R, Q)
    BY <1>6, <1>8 DEF Surjection
  <2>. QED
    BY <2>1, <2>2 DEF Bijection
<1>10. IsFiniteSet(R) /\ Cardinality(R) = queued
  <2>1. IsFiniteSet(R)
    BY <1>1, FS_Interval DEF R
  <2>2. Cardinality((s + 1)..d) = IF s + 1 > d THEN 0 ELSE d - (s + 1) + 1
    BY <1>1, FS_Interval
  <2>3. (IF s + 1 > d THEN 0 ELSE d - (s + 1) + 1) = queued
    BY <1>1
  <2>. QED
    BY <2>1, <2>2, <2>3 DEF R
<1>11. Cardinality(R) = Cardinality(Q)
  <2>1. ExistsBijection(R, Q)
    BY <1>9 DEF ExistsBijection
  <2>. HIDE DEF Q
  <2>. QED
    BY <1>10, <2>1, FS_Bijection
<1>. QED
  BY <1>10, <1>11

\* No request is lost or held twice, for every pair of limits: an unanswered
\* call is in the buffer, with its timer armed, in the queue, where queued counts
\* it, or in one running invocation; an answered one is in none of them.
THEOREM NoRequestIsLost == Spec => []NoRequestLost
<1>1. BatchInv => NoRequestLost
  <2>. SUFFICES ASSUME BatchInv  PROVE NoRequestLost
    OBVIOUS
  <2>0. CounterInv /\ OrderInv /\ PromiseInv
    BY BatchFacts
  <2>1. ASSUME NEW r \in Request
        PROVE  Cardinality(InBuffer(r)) + Cardinality(InQueue(r)) + Cardinality(InInvocation(r))
                 = IF promise[r] = "pending" THEN 1 ELSE 0
    <3>. DEFINE held == \E c \in 1..Len(args) : phase[c] = "running" /\ In(args, c, r)
                i == Cardinality(InBuffer(r))
                j == Cardinality(InQueue(r))
                k == Cardinality(InInvocation(r))
    <3>1. /\ called \in Nat /\ Collected \in Nat /\ Started \in Nat /\ r \in Int
          /\ Started <= Collected /\ Collected <= called
      BY <2>0, OrderNumbers DEF Request
    <3>2. i = IF r \in (Collected + 1)..called THEN 1 ELSE 0
      BY BufferPlace
    <3>3. j = IF r \in (Started + 1)..Collected THEN 1 ELSE 0
      BY QueuePlace, FS_Singleton, FS_EmptySet
    <3>4. (held => r <= Started /\ k = 1) /\ (~held => k = 0)
      BY InvocationPlace
    <3>5. promise[r] = "pending" <=> r \in (Started + 1)..called \/ held
      BY <2>0 DEF PromiseInv, Waits
    <3>. HIDE DEF held, i, j, k
    <3>6. i + j + k = IF r \in (Started + 1)..called \/ held THEN 1 ELSE 0
      BY <3>1, <3>2, <3>3, <3>4
    <3>. QED
      BY <3>5, <3>6 DEF i, j, k
  <2>2. queued = Cardinality(UNION {InQueue(r) : r \in Request})
    BY QueuedCounts
  <2>3. timers = IF buffer = <<>> THEN 0 ELSE 1
    BY <2>0 DEF PromiseInv
  <2>. QED
    BY <2>1, <2>2, <2>3 DEF NoRequestLost
<1>. QED
  BY <1>1, OrderInductive, PTL
=============================================================================
