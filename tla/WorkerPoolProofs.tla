-------------------------- MODULE WorkerPoolProofs --------------------------
(***************************************************************************)
(* The invariants of WorkerPool, proved for every number of threads, tasks *)
(* and priorities: first the books of the main thread alone, then the      *)
(* protocol between it and its workers.                                    *)
(*                                                                         *)
(* NoTaskLost, AbortedCounted and WorkConserving lean on one another: an   *)
(* abort counts a task as queued because it is not in flight, which is     *)
(* right only if no pending task is lost; tryDispatch may start a thread   *)
(* only if the queue and the slots are in the relation WorkConserving.     *)
(* In the middle of a handler some tasks are in neither place: TaskInv     *)
(* carries the set T of the tasks "in hand", empty between handlers.       *)
(***************************************************************************)
EXTENDS WorkerPool, FiniteSetTheorems, SequenceTheorems, WellFoundedInduction, TLAPS

TaskInv(s, T) ==
  /\ s \in PoolState
  /\ s.taskQueue \cup s.pendingTasks \cup s.aborted \cup T \subseteq 1..s.nextTaskId
  /\ s.taskQueue \cap s.pendingTasks = {}
  /\ T \cap (s.taskQueue \cup s.pendingTasks) = {}
  /\ \A t \in Task : s.promise[t] = "pending" => t \in s.taskQueue \cup s.pendingTasks \cup T
  /\ \A t \in s.aborted : s.promise[t] # "pending"
  /\ s.abortedQueued = Cardinality(s.taskQueue \cap s.aborted)
  /\ s.destroyed => s.taskQueue \cup s.pendingTasks \cup T = {}

SlotInv(s) ==
  /\ s.workers \subseteq s.live
  /\ Cardinality(s.workers) <= MaxThreads
  /\ s.taskQueue # {} => s.idleWorkers = <<>> /\ Cardinality(s.workers) = MaxThreads
  /\ s.destroyed => s.workers = {}

Inv == TaskInv(pool, {}) /\ SlotInv(pool) /\ thread \in [Worker -> ThreadState]

\* A handler that starts and stops no thread, and lets a worker become idle
\* only with an empty queue.
Quiet(s, r) ==
  /\ r.workers = s.workers /\ r.live = s.live /\ r.destroyed = s.destroyed
  /\ r.taskQueue \subseteq s.taskQueue
  /\ r.taskQueue # {} /\ s.idleWorkers = <<>> => r.idleWorkers = <<>>

-----------------------------------------------------------------------------
(* Finite sets, least and greatest elements. *)

\* Sets of tasks are finite: what kAbortedQueued counts has a size.
LEMMA TasksFinite ==
  ASSUME NEW S \in SUBSET Task
  PROVE  IsFiniteSet(S) /\ Cardinality(S) \in Nat
<1>1. IsFiniteSet(Task)
  BY FS_Interval, BoundsAssumption DEF Task
<1>. QED
  BY <1>1, FS_Subset, FS_CardinalityType

\* Sets of workers are finite: kWorkers.size is a number.
LEMMA WorkersFinite ==
  ASSUME NEW S \in SUBSET Worker
  PROVE  IsFiniteSet(S) /\ Cardinality(S) \in Nat
<1>1. IsFiniteSet(Worker)
  BY FS_Interval, BoundsAssumption DEF Worker
<1>. QED
  BY <1>1, FS_Subset, FS_CardinalityType

\* A non-empty set of naturals has a least element.
LEMMA NatHasLeast ==
  ASSUME NEW S \in SUBSET Nat, S # {}
  PROVE  \E m \in S : \A n \in S : m <= n
<1>1. PICK m \in S : \A n \in S : <<n, m>> \notin OpToRel(<, Nat)
  BY WFMin, NatLessThanWellFounded
<1>2. \A n \in S : ~(n < m)
  BY <1>1 DEF OpToRel
<1>. QED
  BY <1>2

\* So has a non-empty set of integers with a lower bound: the priorities.
LEMMA IntHasLeast ==
  ASSUME NEW S \in SUBSET Int, S # {}, NEW low \in Int, \A n \in S : low <= n
  PROVE  \E m \in S : \A n \in S : m <= n
<1>. DEFINE U == {n - low : n \in S}
<1>0. \A n \in S : n \in Int /\ n - low \in Nat
  OBVIOUS
<1>1. U \in SUBSET Nat /\ U # {}
  BY <1>0
<1>2. PICK k \in U : \A n \in U : k <= n
  BY <1>1, NatHasLeast
<1>3. PICK m \in S : k = m - low
  OBVIOUS
<1>4. \A n \in S : m - low <= n - low
  BY <1>2, <1>3
<1>5. \A n \in S : m <= n
  BY <1>0, <1>4
<1>. QED
  BY <1>5

\* A non-empty part of an interval has a greatest element: the idle stack's top.
LEMMA IntervalHasGreatest ==
  ASSUME NEW n \in Nat, NEW S \in SUBSET (1..n), S # {}
  PROVE  Max(S) \in S
<1>. DEFINE U == {n - i : i \in S}
<1>0. \A i \in S : i \in Int /\ n - i \in Nat
  OBVIOUS
<1>1. U \in SUBSET Nat /\ U # {}
  BY <1>0
<1>2. PICK k \in U : \A j \in U : k <= j
  BY <1>1, NatHasLeast
<1>3. PICK m \in S : k = n - m
  OBVIOUS
<1>4. \A i \in S : n - i \in U
  OBVIOUS
<1>5. \A i \in S : m >= i
  BY <1>2, <1>3, <1>4
<1>. QED
  BY <1>5 DEF Max

\* PQ.pop has a least task to return.
LEMMA FirstIsLeast ==
  ASSUME NEW s \in PoolState, NEW S \in SUBSET Task, S # {}
  PROVE  /\ First(s, S) \in S
         /\ \A u \in S : u = First(s, S) \/ Before(s, First(s, S), u)
<1>. DEFINE P == {s.priority[t] : t \in S}
<1>1. \A t \in S : s.priority[t] \in Priority
  BY DEF PoolState
<1>2. PICK low \in Priority : \A p \in Priority : low <= p
  BY PriorityAssumption
<1>3. P \in SUBSET Int /\ P # {}
  BY <1>1, PriorityAssumption
<1>8. low \in Int /\ \A p \in P : low <= p
  BY <1>1, <1>2, PriorityAssumption
<1>4. PICK best \in P : \A p \in P : best <= p
  BY <1>3, <1>8, IntHasLeast
<1>. DEFINE B == {t \in S : s.priority[t] = best}
<1>9. PICK t0 \in S : best = s.priority[t0]
  OBVIOUS
<1>5. B \in SUBSET Nat /\ B # {}
  <2>1. S \subseteq Nat
    BY BoundsAssumption DEF Task
  <2>. QED
    BY <2>1, <1>9
<1>6. PICK first \in B : \A t \in B : first <= t
  BY <1>5, NatHasLeast
<1>7. ASSUME NEW u \in S  PROVE u = first \/ Before(s, first, u)
  <2>1. best <= s.priority[u] /\ s.priority[u] \in Int /\ best \in Int
    BY <1>3, <1>4
  <2>2. s.priority[first] = best /\ first \in Int /\ u \in Int
    BY <1>6, BoundsAssumption DEF Task
  <2>3. s.priority[u] = best => first <= u
    BY <1>6
  <2>. QED
    BY <2>1, <2>2, <2>3 DEF Before
<1>. QED
  BY <1>6, <1>7 DEF First

\* taskCmp is irreflexive.
LEMMA NotBeforeItself ==
  ASSUME NEW s \in PoolState, NEW t \in Task
  PROVE  ~Before(s, t, t)
<1>1. t \in Int
  BY BoundsAssumption DEF Task
<1>2. s.priority[t] \in Int
  BY PriorityAssumption DEF PoolState
<1>. QED
  BY <1>1, <1>2 DEF Before

-----------------------------------------------------------------------------
(* The helpers.  Each lemma says which tasks are in hand afterwards. *)

\* Popped tasks are in hand; the aborted ones among them were answered before.
LEMMA PopAllInv ==
  ASSUME NEW s, NEW T, TaskInv(s, T), NEW D \in SUBSET s.taskQueue
  PROVE  /\ TaskInv(PopAll(s, D), T \cup (D \ s.aborted))
         /\ Quiet(s, PopAll(s, D)) /\ PopAll(s, D).idleWorkers = s.idleWorkers
         /\ PopAll(s, D).taskQueue = s.taskQueue \ D
         /\ PopAll(s, D).currentTask = s.currentTask /\ PopAll(s, D).ready = s.ready
<1>. DEFINE A == s.taskQueue \cap s.aborted
            r == PopAll(s, D)
<1>1. s \in PoolState /\ s.taskQueue \in SUBSET Task /\ s.abortedQueued = Cardinality(A)
  BY DEF TaskInv, PoolState
<1>2. IsFiniteSet(A) /\ Cardinality(D \cap s.aborted) \in Nat /\ Cardinality(A) \in Nat
  BY <1>1, TasksFinite
<1>3. Cardinality(A \ D) = Cardinality(A) - Cardinality(A \cap D)
  BY <1>2, FS_Difference
<1>4. A \cap D = D \cap s.aborted /\ A \ D = (s.taskQueue \ D) \cap s.aborted
  OBVIOUS
<1>5. s.abortedQueued - Cardinality(D \cap s.aborted) = Cardinality((s.taskQueue \ D) \cap s.aborted)
  BY <1>1, <1>3, <1>4
<1>6. s.abortedQueued - Cardinality(D \cap s.aborted) \in Int /\ s.taskQueue \ D \in SUBSET Task
  BY <1>1, <1>2
<1>7. r \in PoolState
  BY <1>1, <1>6 DEF PopAll, PoolState
<1>8. /\ r.taskQueue = s.taskQueue \ D
      /\ r.abortedQueued = s.abortedQueued - Cardinality(D \cap s.aborted)
      /\ r.pendingTasks = s.pendingTasks /\ r.aborted = s.aborted /\ r.promise = s.promise
      /\ r.nextTaskId = s.nextTaskId /\ r.destroyed = s.destroyed /\ r.workers = s.workers
      /\ r.live = s.live /\ r.idleWorkers = s.idleWorkers
      /\ r.currentTask = s.currentTask /\ r.ready = s.ready
  BY <1>1 DEF PopAll, PoolState
<1>9. TaskInv(r, T \cup (D \ s.aborted))
  <2>. HIDE DEF r
  <2>. QED
    BY <1>5, <1>7, <1>8 DEF TaskInv
<1>. QED
  BY <1>8, <1>9 DEF Quiet

\* Settled tasks are no longer in hand.
LEMMA SettleInv ==
  ASSUME NEW s, NEW T, TaskInv(s, T), NEW R, NEW outcome \in Outcome, outcome # "pending"
  PROVE  /\ TaskInv(Settle(s, R, outcome), T \ R)
         /\ Quiet(s, Settle(s, R, outcome))
         /\ Settle(s, R, outcome).taskQueue = s.taskQueue
         /\ Settle(s, R, outcome).idleWorkers = s.idleWorkers
         /\ Settle(s, R, outcome).currentTask = s.currentTask
<1>. DEFINE r == Settle(s, R, outcome)
            f == [t \in Task |-> IF t \in R /\ s.promise[t] = "pending"
                                 THEN outcome ELSE s.promise[t]]
<1>1. s \in PoolState
  BY DEF TaskInv
<1>2. f \in [Task -> Outcome]
  BY <1>1 DEF PoolState
<1>3. r = [s EXCEPT !.promise = f]
  BY DEF Settle
<1>4. r \in PoolState /\ r.promise = f
  <2>. HIDE DEF f
  <2>. QED
    BY ZenonT(30), <1>1, <1>2, <1>3 DEF PoolState
<1>5. /\ r.taskQueue = s.taskQueue /\ r.abortedQueued = s.abortedQueued
      /\ r.pendingTasks = s.pendingTasks /\ r.aborted = s.aborted
      /\ r.nextTaskId = s.nextTaskId /\ r.destroyed = s.destroyed /\ r.workers = s.workers
      /\ r.live = s.live /\ r.idleWorkers = s.idleWorkers /\ r.currentTask = s.currentTask
  BY <1>1, <1>3 DEF PoolState
<1>6. \A t \in Task : r.promise[t] = "pending" => s.promise[t] = "pending" /\ t \notin R
  BY <1>4
<1>7. TaskInv(r, T \ R)
  <2>. HIDE DEF r, f
  <2>1. \A t \in s.aborted : t \in Task
    BY <1>1 DEF PoolState
  <2>. QED
    BY <2>1, <1>4, <1>5, <1>6 DEF TaskInv
<1>. QED
  BY <1>5, <1>7 DEF Quiet

\* A task that has been answered need not be held.
LEMMA AnsweredInv ==
  ASSUME NEW s, NEW T, TaskInv(s, T), NEW R, \A t \in T \cap R : s.promise[t] # "pending"
  PROVE  TaskInv(s, T \ R)
  BY DEF TaskInv

\* The task given to a worker leaves the hand for kPendingTasks.
LEMMA AssignInv ==
  ASSUME NEW s, NEW T, TaskInv(s, T), NEW t \in T, NEW w \in Worker
  PROVE  /\ TaskInv(Assign(s, w, t), T \ {t})
         /\ Quiet(s, Assign(s, w, t)) /\ Assign(s, w, t).taskQueue = s.taskQueue
         /\ Assign(s, w, t).idleWorkers = s.idleWorkers
         /\ Assign(s, w, t).currentTask = [s.currentTask EXCEPT ![w] = t]
         /\ Assign(s, w, t).pendingTasks = s.pendingTasks \cup {t}
         /\ Assign(s, w, t).promise = s.promise
<1>. DEFINE r == Assign(s, w, t)
            c == [s.currentTask EXCEPT ![w] = t]
            q == s.pendingTasks \cup {t}
<1>1. s \in PoolState /\ t \in Task
  BY BoundsAssumption DEF TaskInv, PoolState, Task
<1>2. c \in [Worker -> Task \cup {NoTask}] /\ q \in SUBSET Task
  BY <1>1 DEF PoolState
<1>3. r = [s EXCEPT !.currentTask = c, !.pendingTasks = q]
  BY <1>1 DEF Assign, PoolState
<1>4. r \in PoolState /\ r.pendingTasks = q /\ r.currentTask = c
  <2>. HIDE DEF c, q, r
  <2>. QED
    BY <1>1, <1>2, <1>3 DEF PoolState
<1>5. /\ r.taskQueue = s.taskQueue /\ r.abortedQueued = s.abortedQueued
      /\ r.aborted = s.aborted /\ r.promise = s.promise
      /\ r.nextTaskId = s.nextTaskId /\ r.destroyed = s.destroyed /\ r.workers = s.workers
      /\ r.live = s.live /\ r.idleWorkers = s.idleWorkers
  BY <1>1, <1>3 DEF PoolState
<1>6. TaskInv(r, T \ {t})
  <2>. HIDE DEF r
  <2>. QED
    BY <1>4, <1>5 DEF TaskInv
<1>. QED
  BY <1>4, <1>5, <1>6 DEF Quiet

\* The task a worker gives up is in hand, if it was still in kPendingTasks.
LEMMA UnassignInv ==
  ASSUME NEW s, NEW T, TaskInv(s, T), NEW w \in Worker
  PROVE  /\ TaskInv(Unassign(s, w), T \cup ({s.currentTask[w]} \cap s.pendingTasks))
         /\ Quiet(s, Unassign(s, w)) /\ Unassign(s, w).taskQueue = s.taskQueue
         /\ Unassign(s, w).idleWorkers = s.idleWorkers
         /\ Unassign(s, w).promise = s.promise /\ Unassign(s, w).aborted = s.aborted
         /\ Unassign(s, w).ready = s.ready
<1>. DEFINE r == Unassign(s, w)
            c == [s.currentTask EXCEPT ![w] = NoTask]
            q == s.pendingTasks \ {s.currentTask[w]}
<1>1. s \in PoolState
  BY DEF TaskInv
<1>2. c \in [Worker -> Task \cup {NoTask}] /\ q \in SUBSET Task
  BY <1>1 DEF PoolState
<1>3. r = [s EXCEPT !.currentTask = c, !.pendingTasks = q]
  BY <1>1 DEF Unassign, PoolState
<1>4. r \in PoolState /\ r.pendingTasks = q
  <2>. HIDE DEF c, q, r
  <2>. QED
    BY <1>1, <1>2, <1>3 DEF PoolState
<1>5. /\ r.taskQueue = s.taskQueue /\ r.abortedQueued = s.abortedQueued
      /\ r.aborted = s.aborted /\ r.promise = s.promise /\ r.ready = s.ready
      /\ r.nextTaskId = s.nextTaskId /\ r.destroyed = s.destroyed /\ r.workers = s.workers
      /\ r.live = s.live /\ r.idleWorkers = s.idleWorkers
  BY <1>1, <1>3 DEF PoolState
<1>6. TaskInv(r, T \cup ({s.currentTask[w]} \cap s.pendingTasks))
  <2>. HIDE DEF r
  <2>. QED
    BY <1>4, <1>5 DEF TaskInv
<1>. QED
  BY <1>5, <1>6 DEF Quiet

\* Posting a task changes an inbox only.
LEMMA SendTaskInv ==
  ASSUME NEW s, NEW T, TaskInv(s, T), NEW w \in Worker, NEW t \in Task
  PROVE  /\ TaskInv(SendTask(s, w, t), T) /\ Quiet(s, SendTask(s, w, t))
         /\ SendTask(s, w, t).taskQueue = s.taskQueue
<1>. DEFINE r == SendTask(s, w, t)
            c == [s.port EXCEPT ![w] = Append(s.port[w], t)]
<1>1. s \in PoolState
  BY DEF TaskInv
<1>2. c \in [Worker -> Seq(Task \cup {MSG_SHUTDOWN})]
  BY <1>1 DEF PoolState
<1>3. r = [s EXCEPT !.port = c]
  BY <1>1 DEF SendTask, PoolState
<1>4. r \in PoolState
  <2>. HIDE DEF c, r
  <2>. QED
    BY <1>1, <1>2, <1>3 DEF PoolState
<1>5. /\ r.taskQueue = s.taskQueue /\ r.abortedQueued = s.abortedQueued
      /\ r.aborted = s.aborted /\ r.promise = s.promise /\ r.pendingTasks = s.pendingTasks
      /\ r.nextTaskId = s.nextTaskId /\ r.destroyed = s.destroyed /\ r.workers = s.workers
      /\ r.live = s.live /\ r.idleWorkers = s.idleWorkers
  BY <1>1, <1>3 DEF PoolState
<1>6. TaskInv(r, T)
  <2>. HIDE DEF r
  <2>. QED
    BY <1>4, <1>5 DEF TaskInv
<1>. QED
  BY <1>5, <1>6 DEF Quiet

\* maybeResolveDrain changes the drain promise only.
LEMMA MaybeResolveDrainInv ==
  ASSUME NEW s, NEW T, TaskInv(s, T)
  PROVE  /\ TaskInv(MaybeResolveDrain(s), T) /\ Quiet(s, MaybeResolveDrain(s))
         /\ MaybeResolveDrain(s).taskQueue = s.taskQueue
         /\ MaybeResolveDrain(s).idleWorkers = s.idleWorkers
<1>. DEFINE r == MaybeResolveDrain(s)
            b == s.drainDeferred /\ (s.pendingTasks # {} \/ s.taskQueue # {})
<1>1. s \in PoolState
  BY DEF TaskInv
<1>3. b \in BOOLEAN /\ r = [s EXCEPT !.drainDeferred = b]
  BY <1>1 DEF MaybeResolveDrain, PoolState
<1>4. r \in PoolState
  <2>. HIDE DEF b, r
  <2>. QED
    BY <1>1, <1>3 DEF PoolState
<1>5. /\ r.taskQueue = s.taskQueue /\ r.abortedQueued = s.abortedQueued
      /\ r.aborted = s.aborted /\ r.promise = s.promise /\ r.pendingTasks = s.pendingTasks
      /\ r.nextTaskId = s.nextTaskId /\ r.destroyed = s.destroyed /\ r.workers = s.workers
      /\ r.live = s.live /\ r.idleWorkers = s.idleWorkers
  <2>. HIDE DEF b, r
  <2>. QED
    BY <1>1, <1>3 DEF PoolState
<1>6. TaskInv(r, T)
  <2>. HIDE DEF r
  <2>. QED
    BY <1>4, <1>5 DEF TaskInv
<1>. QED
  BY <1>5, <1>6 DEF Quiet

\* A worker joins the idle stack: harmless to the slots when nothing is queued.
LEMMA BecomeIdleInv ==
  ASSUME NEW s, NEW T, TaskInv(s, T), NEW w \in Worker
  PROVE  /\ TaskInv(BecomeIdle(s, w), T)
         /\ s.taskQueue = {} => Quiet(s, BecomeIdle(s, w))
         /\ BecomeIdle(s, w).taskQueue = s.taskQueue
<1>. DEFINE i == Append(s.idleWorkers, w)
            m == IF IdleTimeout /\ Cardinality(s.workers) > MinThreads
                 THEN s.idleTimer \cup {w} ELSE s.idleTimer
            r == [s EXCEPT !.idleWorkers = i, !.idleTimer = m]
<1>1. s \in PoolState
  BY DEF TaskInv
<1>2. i \in Seq(Worker) /\ m \in SUBSET Worker
  BY <1>1 DEF PoolState
<1>3. BecomeIdle(s, w) = MaybeResolveDrain(r)
  BY DEF BecomeIdle
<1>4. r \in PoolState
  <2>. HIDE DEF i, m
  <2>. QED
    BY <1>1, <1>2 DEF PoolState
<1>5. /\ r.taskQueue = s.taskQueue /\ r.abortedQueued = s.abortedQueued
      /\ r.aborted = s.aborted /\ r.promise = s.promise /\ r.pendingTasks = s.pendingTasks
      /\ r.nextTaskId = s.nextTaskId /\ r.destroyed = s.destroyed /\ r.workers = s.workers
      /\ r.live = s.live
  <2>. HIDE DEF i, m
  <2>. QED
    BY <1>1 DEF PoolState
<1>6. TaskInv(r, T)
  <2>. HIDE DEF r
  <2>. QED
    BY <1>4, <1>5 DEF TaskInv
<1>7. TaskInv(MaybeResolveDrain(r), T) /\ Quiet(r, MaybeResolveDrain(r))
      /\ MaybeResolveDrain(r).taskQueue = r.taskQueue
  <2>. HIDE DEF r
  <2>. QED
    BY <1>6, MaybeResolveDrainInv
<1>. HIDE DEF r
<1>. QED
  BY <1>3, <1>5, <1>7 DEF Quiet

\* Handlers that call one another stay quiet.
LEMMA QuietTransitive ==
  ASSUME NEW s, NEW r, NEW q, Quiet(s, r), Quiet(r, q)
  PROVE  Quiet(s, q)
  BY DEF Quiet

\* A quiet handler keeps the slots in order.
LEMMA QuietSlots ==
  ASSUME NEW s, NEW r, SlotInv(s), Quiet(s, r)
  PROVE  SlotInv(r)
  BY DEF SlotInv, Quiet

\* The worker sends the next task or the queue is empty: nothing is in hand.
LEMMA MarkWorkerIdleInv ==
  ASSUME NEW s, TaskInv(s, {}), NEW w \in Worker
  PROVE  TaskInv(MarkWorkerIdle(s, w), {}) /\ Quiet(s, MarkWorkerIdle(s, w))
<1>. DEFINE sendable == Valid(s) \ s.uncloneable
            t == First(s, sendable)
<1>0. s \in PoolState /\ s.taskQueue \in SUBSET Task
  BY DEF TaskInv, PoolState
<1>1. CASE sendable = {}
  <2>. DEFINE p == PopAll(s, s.taskQueue)
              r == Settle(p, Valid(s), "cloneError")
  <2>1. /\ TaskInv(p, {} \cup (s.taskQueue \ s.aborted)) /\ Quiet(s, p)
        /\ p.taskQueue = s.taskQueue \ s.taskQueue
    BY ZenonT(30), PopAllInv
  <2>2. TaskInv(p, Valid(s)) /\ p.taskQueue = {}
    BY <2>1 DEF Valid
  <2>3. TaskInv(r, Valid(s) \ Valid(s)) /\ Quiet(p, r) /\ r.taskQueue = p.taskQueue
    <3>. HIDE DEF p
    <3>. QED
      BY ZenonT(30), <2>2, SettleInv DEF Outcome, Rejection
  <2>4. TaskInv(r, {}) /\ r.taskQueue = {}
    BY <2>2, <2>3
  <2>5. TaskInv(BecomeIdle(r, w), {}) /\ Quiet(r, BecomeIdle(r, w))
    <3>. HIDE DEF r
    <3>. QED
      BY <2>4, BecomeIdleInv
  <2>6. MarkWorkerIdle(s, w) = BecomeIdle(r, w)
    BY <1>1 DEF MarkWorkerIdle
  <2>. HIDE DEF p, r
  <2>. QED
    BY <2>1, <2>3, <2>5, <2>6, QuietTransitive
<1>2. CASE sendable # {}
  <2>. DEFINE p == PopAll(s, UpTo(s, t))
              R == (UpTo(s, t) \ s.aborted) \ {t}
              r == Settle(p, R, "cloneError")
              a == Assign(r, w, t)
  <2>1. t \in sendable /\ sendable \subseteq Task
    BY <1>0, <1>2, FirstIsLeast DEF Valid
  <2>2. ~Before(s, t, t)
    BY <1>0, <2>1, NotBeforeItself
  <2>3. t \in Task /\ t \in UpTo(s, t) \ s.aborted /\ UpTo(s, t) \in SUBSET s.taskQueue
    BY <2>1, <2>2 DEF Valid, UpTo
  <2>. HIDE DEF t
  <2>4. TaskInv(p, UpTo(s, t) \ s.aborted) /\ Quiet(s, p)
    <3>1. TaskInv(p, {} \cup (UpTo(s, t) \ s.aborted)) /\ Quiet(s, p)
      BY <2>3, PopAllInv
    <3>. QED
      BY <3>1
  <2>5. TaskInv(r, (UpTo(s, t) \ s.aborted) \ R) /\ Quiet(p, r)
    <3>. HIDE DEF p, R
    <3>. QED
      BY <2>4, SettleInv DEF Outcome, Rejection
  <2>6. (UpTo(s, t) \ s.aborted) \ R = {t}
    BY <2>3
  <2>7. TaskInv(a, {t} \ {t}) /\ Quiet(r, a)
    <3>. HIDE DEF r, R
    <3>. QED
      BY <2>5, <2>6, AssignInv
  <2>8. TaskInv(SendTask(a, w, t), {}) /\ Quiet(a, SendTask(a, w, t))
    <3>1. TaskInv(a, {})
      BY <2>7
    <3>. HIDE DEF a
    <3>. QED
      BY <3>1, <2>3, SendTaskInv
  <2>9. MarkWorkerIdle(s, w) = SendTask(a, w, t)
    BY <1>2 DEF MarkWorkerIdle, t
  <2>. HIDE DEF p, r, a
  <2>. QED
    BY <2>4, <2>5, <2>7, <2>8, <2>9, QuietTransitive
<1>. QED
  BY <1>1, <1>2

\* postTask sends the task or, when it cannot be cloned, settles it.
LEMMA PostTaskInv ==
  ASSUME NEW s, TaskInv(s, {}), NEW w \in Worker, NEW t \in Task, s.currentTask[w] = t
  PROVE  TaskInv(PostTask(s, w, t), {}) /\ Quiet(s, PostTask(s, w, t))
<1>1. CASE t \in s.uncloneable
  <2>. DEFINE u == Unassign(s, w)
              r == Settle(u, {t}, "cloneError")
  <2>1. TaskInv(u, {} \cup ({t} \cap s.pendingTasks)) /\ Quiet(s, u)
    BY UnassignInv
  <2>2. TaskInv(r, ({} \cup ({t} \cap s.pendingTasks)) \ {t}) /\ Quiet(u, r)
    <3>. HIDE DEF u
    <3>. QED
      BY <2>1, SettleInv DEF Outcome, Rejection
  <2>3. TaskInv(r, {})
    <3>. HIDE DEF r
    <3>1. ({} \cup ({t} \cap s.pendingTasks)) \ {t} = {}
      OBVIOUS
    <3>. QED
      BY <3>1, <2>2
  <2>4. TaskInv(MarkWorkerIdle(r, w), {}) /\ Quiet(r, MarkWorkerIdle(r, w))
    <3>. HIDE DEF r
    <3>. QED
      BY <2>3, MarkWorkerIdleInv
  <2>5. PostTask(s, w, t) = MarkWorkerIdle(r, w)
    BY <1>1 DEF PostTask
  <2>. HIDE DEF u, r
  <2>. QED
    BY <2>1, <2>2, <2>4, <2>5, QuietTransitive
<1>2. CASE t \notin s.uncloneable
  BY <1>2, SendTaskInv DEF PostTask
<1>. QED
  BY <1>1, <1>2

\* dispatchTask leaves nothing in hand.
LEMMA DispatchTaskInv ==
  ASSUME NEW s, NEW t \in Task, TaskInv(s, {t}), NEW w \in Worker
  PROVE  TaskInv(DispatchTask(s, w, t), {}) /\ Quiet(s, DispatchTask(s, w, t))
<1>. DEFINE a == Assign(s, w, t)
<1>0. s.currentTask \in [Worker -> Task \cup {NoTask}]
  BY DEF TaskInv, PoolState
<1>1. /\ TaskInv(a, {t} \ {t}) /\ Quiet(s, a)
      /\ a.currentTask = [s.currentTask EXCEPT ![w] = t]
  BY AssignInv
<1>2. TaskInv(a, {}) /\ a.currentTask[w] = t
  BY <1>0, <1>1
<1>3. TaskInv(PostTask(a, w, t), {}) /\ Quiet(a, PostTask(a, w, t))
  <2>. HIDE DEF a
  <2>. QED
    BY <1>2, PostTaskInv
<1>. HIDE DEF a
<1>. QED
  BY <1>1, <1>3, QuietTransitive DEF DispatchTask, a

\* popIdleWorker touches the idle stack and a timer only.
LEMMA PopIdleWorkerInv ==
  ASSUME NEW s, NEW T, TaskInv(s, T)
  PROVE  /\ TaskInv(PopIdleWorker(s), T) /\ Quiet(s, PopIdleWorker(s))
         /\ PopIdleWorker(s).taskQueue = s.taskQueue
         /\ Usable(s) # {} => IdleTop(s) \in Worker /\ s.idleWorkers # <<>>
         /\ Usable(s) = {} => PopIdleWorker(s).idleWorkers = <<>>
<1>. DEFINE n == Max(Usable(s))
            i == IF Usable(s) = {} THEN <<>> ELSE SubSeq(s.idleWorkers, 1, n - 1)
            m == IF Usable(s) = {} THEN s.idleTimer ELSE s.idleTimer \ {IdleTop(s)}
            r == PopIdleWorker(s)
<1>1. s \in PoolState
  BY DEF TaskInv
<1>2. s.idleWorkers \in Seq(Worker) /\ s.idleTimer \in SUBSET Worker
  BY <1>1 DEF PoolState
<1>3. Usable(s) \in SUBSET (1..Len(s.idleWorkers)) /\ Len(s.idleWorkers) \in Nat
  BY <1>2 DEF Usable
<1>4. Usable(s) # {} => n \in 1..Len(s.idleWorkers)
  BY <1>3, IntervalHasGreatest
<1>5. i \in Seq(Worker) /\ m \in SUBSET Worker
  <2>1. Usable(s) # {} => SubSeq(s.idleWorkers, 1, n - 1) \in Seq(Worker)
    <3>. HIDE DEF n
    <3>. QED
      BY <1>2, <1>4
  <2>. QED
    BY <1>2, <2>1
<1>6. Usable(s) # {} => IdleTop(s) \in Worker /\ s.idleWorkers # <<>>
  <2>. HIDE DEF n
  <2>. QED
    BY <1>2, <1>4 DEF IdleTop, n
<1>7. r = [s EXCEPT !.idleWorkers = i, !.idleTimer = m]
  <2>1. CASE Usable(s) = {}
    <3>1. r = [s EXCEPT !.idleWorkers = <<>>] /\ i = <<>> /\ m = s.idleTimer
      BY <2>1 DEF PopIdleWorker
    <3>. HIDE DEF i, m, r
    <3>. QED
      BY <1>1, <3>1 DEF PoolState
  <2>2. CASE Usable(s) # {}
    BY <2>2 DEF PopIdleWorker
  <2>. QED
    BY <2>1, <2>2
<1>8. r \in PoolState /\ r.idleWorkers = i
  <2>. HIDE DEF i, m, r
  <2>. QED
    BY <1>1, <1>5, <1>7 DEF PoolState
<1>9. /\ r.taskQueue = s.taskQueue /\ r.abortedQueued = s.abortedQueued
      /\ r.aborted = s.aborted /\ r.promise = s.promise /\ r.pendingTasks = s.pendingTasks
      /\ r.nextTaskId = s.nextTaskId /\ r.destroyed = s.destroyed /\ r.workers = s.workers
      /\ r.live = s.live
  <2>. HIDE DEF i, m, r
  <2>. QED
    BY <1>1, <1>7 DEF PoolState
<1>10. TaskInv(r, T)
  <2>. HIDE DEF r
  <2>. QED
    BY <1>8, <1>9 DEF TaskInv
<1>11. s.idleWorkers = <<>> => r.idleWorkers = <<>>
  <2>1. s.idleWorkers = <<>> => Usable(s) = {}
    BY DEF Usable
  <2>. QED
    BY <2>1, <1>8
<1>. HIDE DEF r
<1>. QED
  BY <1>6, <1>8, <1>9, <1>10, <1>11 DEF Quiet, r

\* Dropping aborted tasks loses nobody: their callers have been answered.
LEMMA SkipAbortedInv ==
  ASSUME NEW s, TaskInv(s, {})
  PROVE  /\ TaskInv(SkipAborted(s), {}) /\ Quiet(s, SkipAborted(s))
         /\ SkipAborted(s).idleWorkers = s.idleWorkers
         /\ Valid(s) = {} => SkipAborted(s).taskQueue = {}
<1>. DEFINE D == IF Valid(s) = {} THEN s.taskQueue ELSE UpTo(s, First(s, Valid(s))) \cap s.aborted
<1>1. D \in SUBSET s.taskQueue /\ D \ s.aborted = {}
  BY DEF UpTo, Valid
<1>2. SkipAborted(s) = PopAll(s, D)
  BY DEF SkipAborted
<1>. HIDE DEF D
<1>3. /\ TaskInv(PopAll(s, D), {} \cup (D \ s.aborted)) /\ Quiet(s, PopAll(s, D))
      /\ PopAll(s, D).idleWorkers = s.idleWorkers /\ PopAll(s, D).taskQueue = s.taskQueue \ D
  BY <1>1, PopAllInv
<1>4. {} \cup (D \ s.aborted) = {}
  BY <1>1
<1>. QED
  BY <1>2, <1>3, <1>4 DEF D

\* A new thread takes a slot, and the task if there is one.
LEMMA SpawnWorkerInv ==
  ASSUME NEW s, NEW T, TaskInv(s, T), s.live # Worker, s.workers \subseteq s.live,
         NEW t \in T \cup {NoTask}
  PROVE  LET r == SpawnWorker(s, t)
         IN  /\ TaskInv(r, T \ {t})
             /\ r.workers \subseteq r.live
             /\ Cardinality(r.workers) = Cardinality(s.workers) + 1
             /\ r.taskQueue = s.taskQueue /\ r.idleWorkers = s.idleWorkers
             /\ r.destroyed = s.destroyed
<1>. DEFINE w == FreshWorker(s)
            r == SpawnWorker(s, t)
            W == s.workers \cup {w}
            L == s.live \cup {w}
            c == [s.currentTask EXCEPT ![w] = t]
            q == s.pendingTasks \cup ({t} \ {NoTask})
<1>1. s \in PoolState /\ t \in Task \cup {NoTask} /\ NoTask \notin T
  BY BoundsAssumption DEF TaskInv, PoolState, Task, NoTask
<1>2. w \in Worker /\ w \notin s.live
  <2>1. \E v \in Worker : v \notin s.live
    BY <1>1 DEF PoolState
  <2>. QED
    BY <2>1 DEF FreshWorker
<1>. HIDE DEF w
<1>3. /\ W \in SUBSET Worker /\ L \in SUBSET Worker /\ W \subseteq L
      /\ c \in [Worker -> Task \cup {NoTask}] /\ q \in SUBSET Task
  BY <1>1, <1>2 DEF PoolState
<1>4. r = [s EXCEPT !.workers = W, !.live = L, !.currentTask = c, !.pendingTasks = q]
  BY <1>1 DEF SpawnWorker, PoolState, w
<1>5. /\ r \in PoolState /\ r.workers = W /\ r.live = L /\ r.pendingTasks = q
      /\ r.taskQueue = s.taskQueue /\ r.abortedQueued = s.abortedQueued
      /\ r.aborted = s.aborted /\ r.promise = s.promise
      /\ r.nextTaskId = s.nextTaskId /\ r.destroyed = s.destroyed
      /\ r.idleWorkers = s.idleWorkers
  <2>. HIDE DEF W, L, c, q, r
  <2>. QED
    BY <1>1, <1>3, <1>4 DEF PoolState
<1>6. Cardinality(W) = Cardinality(s.workers) + 1
  <2>1. IsFiniteSet(s.workers)
    BY <1>1, WorkersFinite DEF PoolState
  <2>. QED
    BY <1>2, <2>1, FS_AddElement
<1>7. TaskInv(r, T \ {t})
  <2>. HIDE DEF r
  <2>. QED
    BY <1>1, <1>5 DEF TaskInv
<1>. HIDE DEF r, W, L
<1>. QED
  BY <1>3, <1>5, <1>6, <1>7 DEF r

\* dequeueNextValid takes the first valid task and the aborted ones before it.
LEMMA PopFirstInv ==
  ASSUME NEW s, TaskInv(s, {}), Valid(s) # {}
  PROVE  LET t == First(s, Valid(s))
             p == PopAll(s, UpTo(s, t))
         IN  /\ t \in Task /\ t \in s.taskQueue /\ t \in UpTo(s, t)
             /\ TaskInv(p, {t}) /\ Quiet(s, p)
             /\ p.taskQueue = s.taskQueue \ UpTo(s, t)
             /\ p.idleWorkers = s.idleWorkers
             /\ Usable(p) = Usable(s) /\ IdleTop(p) = IdleTop(s)
<1>. DEFINE t == First(s, Valid(s))
            U == UpTo(s, t)
            p == PopAll(s, U)
<1>0. s \in PoolState /\ s.taskQueue \in SUBSET Task
  BY DEF TaskInv, PoolState
<1>1. t \in Valid(s) /\ Valid(s) \subseteq Task /\ \A u \in Valid(s) : u = t \/ Before(s, t, u)
  BY <1>0, FirstIsLeast DEF Valid
<1>. HIDE DEF t
<1>2. ~Before(s, t, t)
  BY <1>0, <1>1, NotBeforeItself
<1>3. U \in SUBSET s.taskQueue /\ U \ s.aborted = {t} /\ t \in s.taskQueue /\ t \in U
  BY <1>1, <1>2 DEF UpTo, Valid
<1>. HIDE DEF U
<1>4. /\ TaskInv(p, {} \cup (U \ s.aborted)) /\ Quiet(s, p)
      /\ p.idleWorkers = s.idleWorkers /\ p.taskQueue = s.taskQueue \ U
      /\ p.currentTask = s.currentTask /\ p.ready = s.ready
  BY <1>3, PopAllInv
<1>5. {} \cup (U \ s.aborted) = {t}
  BY <1>3
<1>. HIDE DEF p
<1>6. TaskInv(p, {t}) /\ Usable(p) = Usable(s) /\ IdleTop(p) = IdleTop(s)
  BY <1>4, <1>5 DEF Usable, IdleTop
<1>. QED
  BY <1>1, <1>3, <1>4, <1>6 DEF p, U, t

\* One placement leaves the pool work conserving, from the states its two
\* callers reach: at most one queued task, or no idle worker and at most one
\* free slot.
LEMMA TryDispatchInv ==
  ASSUME NEW s, TaskInv(s, {}), ~s.destroyed, s.workers \subseteq s.live,
         Cardinality(s.workers) <= MaxThreads,
         \/ \E t : s.taskQueue \subseteq {t}
         \/ s.idleWorkers = <<>> /\ Cardinality(s.workers) >= MaxThreads - 1,
         s.taskQueue # {} /\ Cardinality(s.workers) < MaxThreads => s.live # Worker
  PROVE  TaskInv(TryDispatch(s), {}) /\ SlotInv(TryDispatch(s))
<1>. DEFINE t == First(s, Valid(s))
            p == PopAll(s, UpTo(s, t))
            d == PopIdleWorker(p)
<1>0. /\ s \in PoolState /\ s.taskQueue \in SUBSET Task /\ s.aborted \in SUBSET Task
      /\ s.workers \in SUBSET Worker
  BY DEF TaskInv, PoolState
<1>1. CASE Valid(s) = {}
  <2>1. /\ TryDispatch(s) = SkipAborted(s) /\ TaskInv(SkipAborted(s), {})
        /\ Quiet(s, SkipAborted(s)) /\ SkipAborted(s).taskQueue = {}
    BY <1>1, SkipAbortedInv DEF TryDispatch
  <2>. QED
    BY <2>1 DEF SlotInv, Quiet
<1>2. CASE Valid(s) # {}
  <2>3. t \in Task /\ t \in s.taskQueue /\ t \in UpTo(s, t)
    BY <1>2, PopFirstInv
  <2>4. /\ TaskInv(p, {t}) /\ Quiet(s, p) /\ p.idleWorkers = s.idleWorkers
        /\ p.taskQueue = s.taskQueue \ UpTo(s, t)
        /\ Usable(p) = Usable(s) /\ IdleTop(p) = IdleTop(s)
    BY <1>2, PopFirstInv
  <2>. HIDE DEF t
  <2>5. /\ TaskInv(d, {t}) /\ Quiet(p, d) /\ d.taskQueue = p.taskQueue
        /\ Usable(s) # {} => IdleTop(s) \in Worker /\ s.idleWorkers # <<>>
        /\ Usable(s) = {} => d.idleWorkers = <<>>
    <3>. HIDE DEF p
    <3>. QED
      BY <2>4, PopIdleWorkerInv
  <2>6. Quiet(s, d)
    <3>. HIDE DEF p, d
    <3>. QED
      BY <2>4, <2>5, QuietTransitive
  <2>7. (\E u : s.taskQueue \subseteq {u}) => d.taskQueue = {}
    <3>. HIDE DEF p, d
    <3>. QED
      BY <2>3, <2>4, <2>5
  <2>. HIDE DEF p, d
  <2>8. CASE Usable(s) # {}
    <3>. DEFINE e == DispatchTask(d, IdleTop(s), t)
    <3>1. TaskInv(e, {}) /\ Quiet(d, e)
      BY <2>3, <2>5, <2>8, DispatchTaskInv
    <3>2. TaskInv(SkipAborted(e), {}) /\ Quiet(e, SkipAborted(e))
      <4>. HIDE DEF e
      <4>. QED
        BY <3>1, SkipAbortedInv
    <3>3. TryDispatch(s) = SkipAborted(e)
      BY <1>2, <2>8 DEF TryDispatch, t, p, d
    <3>4. d.taskQueue = {}
      BY <2>5, <2>7, <2>8
    <3>5. Quiet(d, SkipAborted(e))
      <4>. HIDE DEF e
      <4>. QED
        BY <3>1, <3>2, QuietTransitive
    <3>. HIDE DEF e
    <3>. QED
      BY <2>6, <3>2, <3>3, <3>4, <3>5 DEF SlotInv, Quiet
  <2>9. CASE Usable(s) = {} /\ Cardinality(s.workers) < MaxThreads
    <3>. DEFINE e == SpawnWorker(d, t)
    <3>1. d.live # Worker /\ d.workers \subseteq d.live /\ d.workers = s.workers /\ ~d.destroyed
      BY <2>3, <2>6, <2>9 DEF Quiet
    <3>2. /\ TaskInv(e, {t} \ {t}) /\ e.workers \subseteq e.live
          /\ Cardinality(e.workers) = Cardinality(s.workers) + 1
          /\ e.taskQueue = d.taskQueue /\ e.idleWorkers = d.idleWorkers /\ ~e.destroyed
      <4>0. t \in {t} \cup {NoTask} /\ TaskInv(d, {t})
        BY <2>5
      <4>1. /\ TaskInv(e, {t} \ {t}) /\ e.workers \subseteq e.live
            /\ Cardinality(e.workers) = Cardinality(d.workers) + 1
            /\ e.taskQueue = d.taskQueue /\ e.idleWorkers = d.idleWorkers
            /\ e.destroyed = d.destroyed
        BY <3>1, <4>0, SpawnWorkerInv
      <4>. HIDE DEF e
      <4>. QED
        BY <3>1, <4>1
    <3>3. Cardinality(s.workers) \in Nat /\ MaxThreads \in Nat
      BY <1>0, WorkersFinite, ThreadsAssumption
    <3>4. SlotInv(e)
      <4>. HIDE DEF e
      <4>1. e.idleWorkers = <<>>
        BY <2>5, <2>9, <3>2
      <4>2. e.taskQueue # {} => Cardinality(e.workers) = MaxThreads
        <5>1. d.taskQueue = {} \/ Cardinality(s.workers) >= MaxThreads - 1
          BY <2>7
        <5>. QED
          BY <2>9, <3>2, <3>3, <5>1
      <4>3. Cardinality(e.workers) <= MaxThreads
        BY <2>9, <3>2, <3>3
      <4>. QED
        BY <3>2, <4>1, <4>2, <4>3 DEF SlotInv
    <3>5. TaskInv(SkipAborted(e), {}) /\ Quiet(e, SkipAborted(e))
      <4>1. TaskInv(e, {})
        BY <3>2
      <4>. HIDE DEF e
      <4>. QED
        BY <4>1, SkipAbortedInv
    <3>6. TryDispatch(s) = SkipAborted(e)
      BY <1>2, <2>9 DEF TryDispatch, t, p, d
    <3>. HIDE DEF e
    <3>. QED
      BY <3>4, <3>5, <3>6, QuietSlots
  <2>10. CASE Usable(s) = {} /\ ~(Cardinality(s.workers) < MaxThreads)
    <3>. DEFINE e == PopIdleWorker(s)
    <3>1. TaskInv(e, {}) /\ Quiet(s, e) /\ e.idleWorkers = <<>>
      BY <2>10, PopIdleWorkerInv
    <3>2. Cardinality(s.workers) = MaxThreads
      BY <1>0, <2>10, WorkersFinite, ThreadsAssumption
    <3>3. SlotInv(e)
      <4>. HIDE DEF e
      <4>. QED
        BY <3>1, <3>2 DEF SlotInv, Quiet
    <3>4. TaskInv(SkipAborted(e), {}) /\ Quiet(e, SkipAborted(e))
      <4>. HIDE DEF e
      <4>. QED
        BY <3>1, SkipAbortedInv
    <3>5. TryDispatch(s) = SkipAborted(e)
      BY <1>2, <2>10 DEF TryDispatch
    <3>. HIDE DEF e
    <3>. QED
      BY <3>3, <3>4, <3>5, QuietSlots
  <2>. QED
    BY <2>8, <2>9, <2>10
<1>. QED
  BY <1>1, <1>2

-----------------------------------------------------------------------------
(* The API. *)

\* A new task is in hand until it is placed.
LEMMA NewTaskInv ==
  ASSUME NEW s, TaskInv(s, {}), ~s.destroyed, s.nextTaskId < MaxTasks,
         NEW p \in Priority, NEW cloneable \in BOOLEAN
  PROVE  LET r == NewTask(s, p, cloneable)
         IN  /\ TaskInv(r, {r.nextTaskId}) /\ r.nextTaskId \in Task
             /\ r.nextTaskId \notin r.aborted /\ Quiet(s, r)
             /\ r.taskQueue = s.taskQueue /\ r.idleWorkers = s.idleWorkers
             /\ Usable(r) = Usable(s)
<1>. DEFINE r == NewTask(s, p, cloneable)
            t == s.nextTaskId + 1
            f == [s.priority EXCEPT ![t] = p]
            g == [s.promise EXCEPT ![t] = "pending"]
            u == IF cloneable THEN s.uncloneable ELSE s.uncloneable \cup {t}
<1>1. s \in PoolState /\ s.nextTaskId \in 0..MaxTasks
  BY DEF TaskInv, PoolState
<1>2. t \in Task /\ t \notin 1..s.nextTaskId /\ t \in 0..MaxTasks /\ t \in 1..t
      /\ 1..s.nextTaskId \subseteq 1..t
  BY <1>1, BoundsAssumption DEF Task
<1>3. /\ f \in [Task -> Priority] /\ g \in [Task -> Outcome] /\ u \in SUBSET Task
      /\ \A v \in Task : g[v] = "pending" => v = t \/ s.promise[v] = "pending"
      /\ \A v \in Task : v # t => g[v] = s.promise[v]
  BY <1>1, <1>2 DEF PoolState, Outcome
<1>4. r = [s EXCEPT !.nextTaskId = t, !.priority = f, !.promise = g, !.uncloneable = u]
  BY <1>1 DEF NewTask, PoolState
<1>5. r \in PoolState /\ r.nextTaskId = t /\ r.promise = g
  <2>. HIDE DEF t, f, g, u, r
  <2>. QED
    BY <1>1, <1>2, <1>3, <1>4 DEF PoolState
<1>6. /\ r.taskQueue = s.taskQueue /\ r.abortedQueued = s.abortedQueued
      /\ r.aborted = s.aborted /\ r.pendingTasks = s.pendingTasks
      /\ r.destroyed = s.destroyed /\ r.workers = s.workers
      /\ r.live = s.live /\ r.idleWorkers = s.idleWorkers
      /\ r.currentTask = s.currentTask /\ r.ready = s.ready
  <2>. HIDE DEF t, f, g, u, r
  <2>. QED
    BY <1>1, <1>4 DEF PoolState
<1>7. t \notin s.taskQueue \cup s.pendingTasks \cup s.aborted
  <2>. HIDE DEF t
  <2>. QED
    BY <1>2 DEF TaskInv
<1>8. s.aborted \subseteq Task
  BY <1>1 DEF PoolState
<1>. HIDE DEF r, t, f, g, u
<1>9. TaskInv(r, {t})
  BY <1>2, <1>3, <1>5, <1>6, <1>7, <1>8 DEF TaskInv
<1>. QED
  BY <1>2, <1>5, <1>6, <1>7, <1>9 DEF Quiet, Usable, r

\* PQ.push takes the new task out of hand.
LEMMA PushTaskInv ==
  ASSUME NEW s, NEW t \in Task, TaskInv(s, {t}), t \notin s.aborted
  PROVE  LET r == [s EXCEPT !.taskQueue = @ \cup {t}]
         IN  /\ TaskInv(r, {}) /\ r.taskQueue = s.taskQueue \cup {t}
             /\ r.workers = s.workers /\ r.live = s.live /\ r.destroyed = s.destroyed
             /\ r.idleWorkers = s.idleWorkers
<1>. DEFINE q == s.taskQueue \cup {t}
            r == [s EXCEPT !.taskQueue = q]
<1>1. s \in PoolState /\ q \in SUBSET Task
  BY DEF TaskInv, PoolState
<1>2. /\ r \in PoolState /\ r.taskQueue = q
      /\ r.abortedQueued = s.abortedQueued /\ r.nextTaskId = s.nextTaskId
      /\ r.aborted = s.aborted /\ r.pendingTasks = s.pendingTasks /\ r.promise = s.promise
      /\ r.destroyed = s.destroyed /\ r.workers = s.workers
      /\ r.live = s.live /\ r.idleWorkers = s.idleWorkers
  <2>. HIDE DEF q
  <2>. QED
    BY <1>1 DEF PoolState
<1>3. q \cap s.aborted = s.taskQueue \cap s.aborted
  OBVIOUS
<1>4. TaskInv(r, {})
  <2>. HIDE DEF r
  <2>. QED
    BY <1>2, <1>3 DEF TaskInv
<1>. QED
  BY <1>2, <1>4

\* A started thread and a finished one are thread states.
LEMMA ThreadStates == Booting \in ThreadState /\ NoThread \in ThreadState
  BY DEF Booting, NoThread, ThreadState

\* Started threads keep the type of all threads.
LEMMA StartThreadsInv ==
  ASSUME thread \in [Worker -> ThreadState], StartThreads
  PROVE  thread' \in [Worker -> ThreadState]
  BY ThreadStates DEF StartThreads

\* run() with an idle worker: nothing is queued, so no slot is at stake.
LEMMA RunOnIdleInv ==
  ASSUME Inv, NEW p \in Priority, NEW cloneable \in Cloneable, RunOnIdle(p, cloneable)
  PROVE  Inv'
<1>. DEFINE s == NewTask(pool, p, cloneable)
            t == s.nextTaskId
            d == PopIdleWorker(s)
<1>1. /\ TaskInv(s, {t}) /\ t \in Task /\ Quiet(pool, s) /\ s.taskQueue = {}
      /\ Usable(s) # {}
  BY NewTaskInv, OptionsAssumption DEF Inv, RunOnIdle, CanRun, FastPath
<1>. HIDE DEF s
<1>2. TaskInv(d, {t}) /\ Quiet(s, d) /\ d.taskQueue = {} /\ IdleTop(s) \in Worker
  BY <1>1, PopIdleWorkerInv
<1>. HIDE DEF d, t
<1>3. pool' = DispatchTask(d, IdleTop(s), t) /\ thread' = thread
  BY DEF RunOnIdle, s, t, d
<1>4. TaskInv(pool', {}) /\ Quiet(d, pool')
  BY <1>1, <1>2, <1>3, DispatchTaskInv
<1>5. SlotInv(pool')
  BY <1>1, <1>2, <1>4 DEF Inv, SlotInv, Quiet
<1>. QED
  BY <1>3, <1>4, <1>5 DEF Inv

\* run() that starts a thread stays within maxThreads.
LEMMA RunOnNewThreadInv ==
  ASSUME Inv, NEW p \in Priority, NEW cloneable \in Cloneable, RunOnNewThread(p, cloneable)
  PROVE  Inv'
<1>. DEFINE s == NewTask(pool, p, cloneable)
            t == s.nextTaskId
            d == PopIdleWorker(s)
<1>1. TaskInv(s, {t}) /\ t \in Task /\ Quiet(pool, s) /\ s.taskQueue = {}
  BY NewTaskInv, OptionsAssumption DEF Inv, RunOnNewThread, CanRun, FastPath
<1>. HIDE DEF s
<1>2. TaskInv(d, {t}) /\ Quiet(s, d) /\ d.taskQueue = {}
  BY <1>1, PopIdleWorkerInv
<1>. HIDE DEF d, t
<1>3. pool' = SpawnWorker(d, t) /\ StartThreads
  BY DEF RunOnNewThread, s, t, d
<1>4. d.live # Worker /\ d.workers \subseteq d.live /\ d.workers = pool.workers /\ ~d.destroyed
  BY <1>1, <1>2 DEF RunOnNewThread, CanRun, Quiet, Inv, SlotInv
<1>5. /\ TaskInv(pool', {t} \ {t}) /\ pool'.workers \subseteq pool'.live
      /\ Cardinality(pool'.workers) = Cardinality(pool.workers) + 1
      /\ pool'.taskQueue = {} /\ ~pool'.destroyed
  BY SMTT(20), <1>2, <1>3, <1>4, SpawnWorkerInv
<1>6. Cardinality(pool'.workers) <= MaxThreads
  <2>1. pool.workers \in SUBSET Worker
    BY DEF Inv, TaskInv, PoolState
  <2>2. Cardinality(pool.workers) \in Nat /\ Cardinality(pool.workers) < MaxThreads
    BY <2>1, WorkersFinite DEF RunOnNewThread
  <2>. QED
    BY <1>5, <2>2, ThreadsAssumption
<1>7. TaskInv(pool', {}) /\ SlotInv(pool')
  BY <1>5, <1>6 DEF SlotInv
<1>. QED
  BY <1>3, <1>7, StartThreadsInv DEF Inv

\* run() through the queue: tryDispatch finds what it expects.
LEMMA RunQueuedInv ==
  ASSUME Inv, NEW p \in Priority, NEW cloneable \in Cloneable, RunQueued(p, cloneable)
  PROVE  Inv'
<1>. DEFINE s == NewTask(pool, p, cloneable)
            t == s.nextTaskId
            d == [s EXCEPT !.taskQueue = @ \cup {t}]
<1>1. /\ TaskInv(s, {t}) /\ t \in Task /\ Quiet(pool, s) /\ s.taskQueue = pool.taskQueue
      /\ s.idleWorkers = pool.idleWorkers
  BY NewTaskInv, OptionsAssumption DEF Inv, RunQueued, CanRun
<1>2. t \notin s.aborted
  BY NewTaskInv, OptionsAssumption DEF Inv, RunQueued, CanRun
<1>. HIDE DEF s
<1>3. /\ TaskInv(d, {}) /\ d.taskQueue = pool.taskQueue \cup {t}
      /\ d.workers = pool.workers /\ d.live = pool.live /\ d.destroyed = pool.destroyed
      /\ d.idleWorkers = pool.idleWorkers
  <2>. HIDE DEF t
  <2>. QED
    BY <1>1, <1>2, PushTaskInv DEF Quiet
<1>4. pool' = TryDispatch(d) /\ StartThreads
  BY DEF RunQueued, s
<1>. HIDE DEF d, t
<1>5. /\ ~d.destroyed /\ d.workers \subseteq d.live /\ Cardinality(d.workers) <= MaxThreads
      /\ Cardinality(d.workers) < MaxThreads => d.live # Worker
  BY <1>3 DEF RunQueued, CanRun, Inv, SlotInv
<1>6. \/ \E u : d.taskQueue \subseteq {u}
      \/ d.idleWorkers = <<>> /\ Cardinality(d.workers) >= MaxThreads - 1
  <2>1. CASE pool.taskQueue = {}
    BY <1>3, <2>1
  <2>2. CASE pool.taskQueue # {}
    BY <1>3, <2>2, ThreadsAssumption DEF Inv, SlotInv
  <2>. QED
    BY <2>1, <2>2
<1>7. TaskInv(pool', {}) /\ SlotInv(pool')
  BY <1>3, <1>4, <1>5, <1>6, TryDispatchInv
<1>. QED
  BY <1>4, <1>7, StartThreadsInv DEF Inv

\* indexOf and splice: a sequence of workers stays one, an empty one stays empty.
LEMMA SpliceType ==
  ASSUME NEW q \in Seq(Worker), NEW w
  PROVE  Splice(q, w) \in Seq(Worker) /\ (q = <<>> => Splice(q, w) = <<>>)
<1>. DEFINE P(i) == q[i] = w /\ \A j \in 1..(i - 1) : q[j] # w
            at == CHOOSE i \in DOMAIN q : P(i)
            r == [j \in 1..(Len(q) - 1) |-> IF j < at THEN q[j] ELSE q[j + 1]]
<1>1. CASE \E i \in DOMAIN q : q[i] = w
  <2>1. Len(q) \in Nat /\ DOMAIN q = 1..Len(q) /\ Len(q) > 0
    BY <1>1
  <2>2. \A j \in 1..(Len(q) - 1) : j \in 1..Len(q) /\ j + 1 \in 1..Len(q)
    BY <2>1
  <2>3. r \in [1..(Len(q) - 1) -> Worker]
    <3>. HIDE DEF at
    <3>. QED
      BY <2>1, <2>2
  <2>4. r \in Seq(Worker)
    <3>. HIDE DEF r
    <3>1. Len(q) - 1 \in Nat
      BY <2>1
    <3>. QED
      BY <2>3, <3>1, SeqDef
  <2>. QED
    BY <1>1, <2>1, <2>4 DEF Splice
<1>2. CASE ~\E i \in DOMAIN q : q[i] = w
  BY <1>2 DEF Splice
<1>. QED
  BY <1>1, <1>2

\* An abort counts a task as queued exactly when it is: it is not lost, hence
\* queued or in flight.
LEMMA AbortInv ==
  ASSUME Inv, NEW t \in Task, Abort(t)
  PROVE  Inv'
<1>. DEFINE a == pool.aborted \cup {t}
            g == [pool.promise EXCEPT ![t] = "aborted"]
            n == IF t \in pool.pendingTasks THEN pool.abortedQueued ELSE pool.abortedQueued + 1
            A == pool.taskQueue \cap pool.aborted
            B == pool.taskQueue \cap a
<1>0. TaskInv(pool, {}) /\ SlotInv(pool) /\ thread' = thread /\ pool.promise[t] = "pending"
  BY DEF Inv, Abort
<1>1. pool \in PoolState /\ t \notin pool.aborted
  BY <1>0 DEF TaskInv
<1>2. t \in pool.taskQueue \/ t \in pool.pendingTasks
  BY <1>0 DEF TaskInv
<1>3. IsFiniteSet(A) /\ Cardinality(A) \in Nat /\ pool.abortedQueued = Cardinality(A)
  <2>1. A \in SUBSET Task
    BY <1>1 DEF PoolState
  <2>. QED
    BY <1>0, <2>1, TasksFinite DEF TaskInv
<1>4. n = Cardinality(B) /\ n \in Int
  <2>1. CASE t \in pool.pendingTasks
    <3>1. B = A
      BY <2>1, <1>0 DEF TaskInv
    <3>. HIDE DEF A, B
    <3>. QED
      BY <2>1, <3>1, <1>3
  <2>2. CASE t \notin pool.pendingTasks
    <3>1. B = A \cup {t} /\ t \notin A
      BY <1>1, <1>2, <2>2
    <3>. HIDE DEF A, B
    <3>2. Cardinality(A \cup {t}) = Cardinality(A) + 1
      BY <1>3, <3>1, FS_AddElement
    <3>. QED
      BY <1>3, <2>2, <3>1, <3>2
  <2>. QED
    BY <2>1, <2>2
<1>5. /\ a \in SUBSET Task /\ g \in [Task -> Outcome]
      /\ \A u \in Task : g[u] = "pending" => pool.promise[u] = "pending"
      /\ \A u \in a : g[u] # "pending"
  <2>1. pool.aborted \in SUBSET Task /\ pool.promise \in [Task -> Outcome]
    BY <1>1 DEF PoolState
  <2>2. g \in [Task -> Outcome] /\ \A u \in Task : g[u] = IF u = t THEN "aborted" ELSE pool.promise[u]
    BY <2>1 DEF Outcome, Rejection
  <2>. HIDE DEF g
  <2>. QED
    BY <1>0, <2>1, <2>2 DEF TaskInv
<1>6. pool' = [pool EXCEPT !.aborted = a, !.promise = g, !.abortedQueued = n]
  BY <1>1 DEF Abort, PoolState
<1>7. a \subseteq 1..pool.nextTaskId
  BY <1>0, <1>2 DEF TaskInv
<1>. HIDE DEF a, g, n
<1>8. /\ pool' \in PoolState /\ pool'.aborted = a /\ pool'.promise = g /\ pool'.abortedQueued = n
      /\ pool'.taskQueue = pool.taskQueue /\ pool'.pendingTasks = pool.pendingTasks
      /\ pool'.nextTaskId = pool.nextTaskId /\ pool'.destroyed = pool.destroyed
      /\ pool'.workers = pool.workers /\ pool'.live = pool.live
      /\ pool'.idleWorkers = pool.idleWorkers
  BY <1>1, <1>4, <1>5, <1>6 DEF PoolState
<1>9. TaskInv(pool', {})
  BY <1>0, <1>4, <1>5, <1>7, <1>8 DEF TaskInv
<1>. QED
  BY <1>0, <1>8, <1>9 DEF Inv, SlotInv

\* drain() touches no task and no slot.
LEMMA DrainInv ==
  ASSUME Inv, Drain
  PROVE  Inv'
<1>1. pool \in PoolState /\ TaskInv(pool, {}) /\ SlotInv(pool)
  BY DEF Inv, TaskInv
<1>2. pool' = [pool EXCEPT !.drainDeferred = TRUE] /\ thread' = thread
  BY DEF Drain
<1>3. /\ pool' \in PoolState
      /\ pool'.abortedQueued = pool.abortedQueued /\ pool'.aborted = pool.aborted
      /\ pool'.taskQueue = pool.taskQueue /\ pool'.pendingTasks = pool.pendingTasks
      /\ pool'.nextTaskId = pool.nextTaskId /\ pool'.destroyed = pool.destroyed
      /\ pool'.workers = pool.workers /\ pool'.live = pool.live
      /\ pool'.idleWorkers = pool.idleWorkers /\ pool'.promise = pool.promise
  BY <1>1, <1>2 DEF PoolState
<1>4. TaskInv(pool', {}) /\ SlotInv(pool')
  BY <1>1, <1>3 DEF TaskInv, SlotInv
<1>. QED
  BY <1>2, <1>4 DEF Inv

\* destroy() answers every caller: the queue and kPendingTasks are all of them.
LEMMA DestroyInv ==
  ASSUME Inv, Destroy
  PROVE  Inv'
<1>. DEFINE R == pool.taskQueue \cup pool.pendingTasks
            s == Settle(pool, R, "destroyed")
            m == s.idleTimer \ pool.workers
            e == s.terminating \cup pool.workers
            g == s.destroying \cup {pool.workers}
<1>1. TaskInv(pool, {}) /\ pool \in PoolState /\ SlotInv(pool)
  BY DEF Inv, TaskInv
<1>2. TaskInv(s, {} \ R) /\ Quiet(pool, s)
  <2>. HIDE DEF R
  <2>. QED
    BY <1>1, SettleInv DEF Outcome, Rejection
<1>3. s \in PoolState /\ s.aborted \subseteq 1..s.nextTaskId
  <2>. HIDE DEF s
  <2>. QED
    BY <1>2 DEF TaskInv
<1>4. \A t \in Task : s.promise[t] # "pending"
  <2>1. s.promise = [t \in Task |-> IF t \in R /\ pool.promise[t] = "pending"
                                    THEN "destroyed" ELSE pool.promise[t]]
    BY <1>1 DEF Settle, PoolState
  <2>2. \A t \in Task : pool.promise[t] = "pending" => t \in R
    BY <1>1 DEF TaskInv
  <2>. HIDE DEF s, R
  <2>. QED
    BY <2>1, <2>2
<1>5. pool' = [s EXCEPT !.destroyed = TRUE, !.taskQueue = {}, !.abortedQueued = 0,
                        !.pendingTasks = {}, !.idleTimer = m, !.terminating = e,
                        !.workers = {}, !.idleWorkers = <<>>, !.destroying = g]
      /\ thread' = thread
  BY DEF Destroy
<1>. HIDE DEF s
<1>6. m \in SUBSET Worker /\ e \in SUBSET Worker /\ g \in SUBSET SUBSET Worker
  BY <1>1, <1>3 DEF PoolState
<1>7. /\ pool' \in PoolState /\ pool'.destroyed = TRUE /\ pool'.taskQueue = {}
      /\ pool'.abortedQueued = 0 /\ pool'.pendingTasks = {} /\ pool'.workers = {}
      /\ pool'.aborted = s.aborted /\ pool'.promise = s.promise
      /\ pool'.nextTaskId = s.nextTaskId
  <2>. DEFINE none == {}
              empty == <<>>
              zero == 0
              yes == TRUE
  <2>1. /\ none \in SUBSET Task /\ none \in SUBSET Worker /\ empty \in Seq(Worker)
        /\ zero \in Int /\ yes \in BOOLEAN
    OBVIOUS
  <2>2. pool' = [s EXCEPT !.destroyed = yes, !.taskQueue = none, !.abortedQueued = zero,
                          !.pendingTasks = none, !.idleTimer = m, !.terminating = e,
                          !.workers = none, !.idleWorkers = empty, !.destroying = g]
    BY <1>5
  <2>. HIDE DEF m, e, g, none, empty, zero, yes
  <2>3. pool' \in PoolState
    BY <1>3, <1>6, <2>1, <2>2 DEF PoolState
  <2>4. /\ pool'.destroyed = yes /\ pool'.taskQueue = none
        /\ pool'.abortedQueued = zero /\ pool'.pendingTasks = none /\ pool'.workers = none
        /\ pool'.aborted = s.aborted /\ pool'.promise = s.promise
        /\ pool'.nextTaskId = s.nextTaskId
    BY <1>3, <2>2 DEF PoolState
  <2>. QED
    BY <2>3, <2>4 DEF none, zero, yes
<1>8. Cardinality({}) = 0 /\ 0 <= MaxThreads
  BY FS_EmptySet, ThreadsAssumption
<1>9. TaskInv(pool', {})
  <2>1. \A t \in s.aborted : t \in Task
    BY <1>3 DEF PoolState
  <2>2. {} \cap s.aborted = {}
    OBVIOUS
  <2>. QED
    BY <1>3, <1>4, <1>7, <1>8, <2>1, <2>2 DEF TaskInv
<1>10. SlotInv(pool')
  BY <1>7, <1>8 DEF SlotInv
<1>. QED
  BY <1>5, <1>9, <1>10 DEF Inv

\* destroy() returning touches no task and no slot.
LEMMA DestroyDoneInv ==
  ASSUME Inv, NEW S \in SUBSET Worker, DestroyDone(S)
  PROVE  Inv'
<1>. DEFINE g == pool.destroying \ {S}
<1>1. pool \in PoolState /\ TaskInv(pool, {}) /\ SlotInv(pool)
  BY DEF Inv, TaskInv
<1>2. pool' = [pool EXCEPT !.destroying = g, !.drainDeferred = FALSE] /\ thread' = thread
  BY DEF DestroyDone
<1>3. g \in SUBSET SUBSET Worker
  BY <1>1 DEF PoolState
<1>4. /\ pool' \in PoolState
      /\ pool'.abortedQueued = pool.abortedQueued /\ pool'.aborted = pool.aborted
      /\ pool'.taskQueue = pool.taskQueue /\ pool'.pendingTasks = pool.pendingTasks
      /\ pool'.nextTaskId = pool.nextTaskId /\ pool'.destroyed = pool.destroyed
      /\ pool'.workers = pool.workers /\ pool'.live = pool.live
      /\ pool'.idleWorkers = pool.idleWorkers /\ pool'.promise = pool.promise
  <2>. HIDE DEF g
  <2>. QED
    BY <1>1, <1>2, <1>3 DEF PoolState
<1>5. TaskInv(pool', {}) /\ SlotInv(pool')
  BY <1>1, <1>4 DEF TaskInv, SlotInv
<1>. QED
  BY <1>2, <1>5 DEF Inv

-----------------------------------------------------------------------------
(* Timer and worker events. *)

\* An armed timer means an idle worker (IdleInv below),
\* hence an empty queue: a slot may be given up.
LEMMA TerminateIdleWorkerInv ==
  ASSUME Inv, NEW w \in Worker, TerminateIdleWorker(w), pool.idleWorkers # <<>>
  PROVE  Inv'
<1>. DEFINE m == pool.idleTimer \ {w}
            W == pool.workers \ {w}
            i == Splice(pool.idleWorkers, w)
            p == [pool.port EXCEPT ![w] = Append(@, MSG_SHUTDOWN)]
<1>1. pool \in PoolState /\ TaskInv(pool, {}) /\ SlotInv(pool) /\ pool.taskQueue = {}
  BY DEF Inv, TaskInv, SlotInv
<1>2. /\ m \in SUBSET Worker /\ W \in SUBSET Worker /\ i \in Seq(Worker)
      /\ p \in [Worker -> Seq(Task \cup {MSG_SHUTDOWN})]
  BY <1>1, SpliceType DEF PoolState
<1>3. \/ pool' = [pool EXCEPT !.idleTimer = m]
      \/ pool' = [pool EXCEPT !.idleTimer = m, !.workers = W, !.idleWorkers = i, !.port = p]
  BY <1>1 DEF TerminateIdleWorker, PoolState
<1>4. /\ pool' \in PoolState
      /\ pool'.abortedQueued = pool.abortedQueued /\ pool'.aborted = pool.aborted
      /\ pool'.taskQueue = {} /\ pool'.pendingTasks = pool.pendingTasks
      /\ pool'.nextTaskId = pool.nextTaskId /\ pool'.destroyed = pool.destroyed
      /\ pool'.workers \in {pool.workers, W} /\ pool'.live = pool.live
      /\ pool'.promise = pool.promise
  <2>. HIDE DEF m, W, i, p
  <2>1. CASE pool' = [pool EXCEPT !.idleTimer = m]
    BY <1>1, <1>2, <2>1 DEF PoolState
  <2>2. CASE pool' = [pool EXCEPT !.idleTimer = m, !.workers = W, !.idleWorkers = i, !.port = p]
    BY <1>1, <1>2, <2>2 DEF PoolState
  <2>. QED
    BY <1>3, <2>1, <2>2
<1>5. TaskInv(pool', {})
  BY <1>1, <1>4 DEF TaskInv
<1>6. Cardinality(W) <= MaxThreads
  <2>1. IsFiniteSet(pool.workers) /\ W \subseteq pool.workers /\ Cardinality(pool.workers) \in Nat
    BY <1>1, WorkersFinite DEF PoolState
  <2>2. Cardinality(W) <= Cardinality(pool.workers) /\ Cardinality(W) \in Nat
    BY <1>2, <2>1, FS_Subset, WorkersFinite
  <2>. QED
    BY <1>1, <2>1, <2>2, ThreadsAssumption DEF SlotInv
<1>7. SlotInv(pool')
  BY <1>1, <1>4, <1>6 DEF SlotInv
<1>. QED
  BY <1>5, <1>7 DEF Inv, TerminateIdleWorker

\* READY: an aborted task was answered by its abort listener, so dropping it
\* loses nobody.
LEMMA HandleReadyInv ==
  ASSUME NEW s, TaskInv(s, {}), NEW w \in Worker
  PROVE  TaskInv(HandleReady(s, w), {}) /\ Quiet(s, HandleReady(s, w))
<1>. DEFINE y == s.ready \cup {w}
            r == [s EXCEPT !.ready = y]
            t == s.currentTask[w]
<1>1. s \in PoolState /\ y \in SUBSET Worker /\ t \in Task \cup {NoTask}
  BY DEF TaskInv, PoolState
<1>2. /\ r \in PoolState
      /\ r.taskQueue = s.taskQueue /\ r.abortedQueued = s.abortedQueued
      /\ r.aborted = s.aborted /\ r.promise = s.promise /\ r.pendingTasks = s.pendingTasks
      /\ r.nextTaskId = s.nextTaskId /\ r.destroyed = s.destroyed /\ r.workers = s.workers
      /\ r.live = s.live /\ r.idleWorkers = s.idleWorkers /\ r.currentTask = s.currentTask
  <2>. HIDE DEF y
  <2>. QED
    BY <1>1 DEF PoolState
<1>. HIDE DEF r
<1>3. TaskInv(r, {}) /\ Quiet(s, r)
  BY <1>2 DEF TaskInv, Quiet
<1>4. CASE t = NoTask
  <2>1. HandleReady(s, w) = MarkWorkerIdle(r, w)
    BY <1>4 DEF HandleReady, r
  <2>. QED
    BY <1>3, <2>1, MarkWorkerIdleInv, QuietTransitive
<1>5. CASE t # NoTask /\ t \in s.aborted
  <2>. DEFINE u == Unassign(r, w)
  <2>1. /\ TaskInv(u, {} \cup ({t} \cap r.pendingTasks)) /\ Quiet(r, u) /\ u.promise = s.promise
    BY <1>2, <1>3, UnassignInv
  <2>2. s.promise[t] # "pending"
    BY <1>5 DEF TaskInv
  <2>3. TaskInv(u, ({} \cup ({t} \cap r.pendingTasks)) \ {t})
    <3>. HIDE DEF u, t
    <3>. QED
      BY <2>1, <2>2, AnsweredInv
  <2>. HIDE DEF u
  <2>4. TaskInv(u, {})
    <3>1. ({} \cup ({t} \cap r.pendingTasks)) \ {t} = {}
      OBVIOUS
    <3>. QED
      BY <2>3, <3>1
  <2>5. HandleReady(s, w) = MarkWorkerIdle(u, w)
    BY <1>5 DEF HandleReady, r, u
  <2>6. Quiet(r, MarkWorkerIdle(u, w))
    BY <2>1, <2>4, MarkWorkerIdleInv, QuietTransitive
  <2>. QED
    BY <1>3, <2>4, <2>5, <2>6, MarkWorkerIdleInv, QuietTransitive
<1>6. CASE t # NoTask /\ t \notin s.aborted
  <2>1. HandleReady(s, w) = PostTask(r, w, t)
    BY <1>6 DEF HandleReady, r
  <2>2. t \in Task /\ r.currentTask[w] = t
    BY <1>1, <1>2, <1>6
  <2>. HIDE DEF t
  <2>. QED
    BY <1>3, <2>1, <2>2, PostTaskInv, QuietTransitive
<1>. QED
  BY <1>4, <1>5, <1>6

\* RESULT and ERROR: the task leaves kPendingTasks and is settled.
LEMMA HandleReplyInv ==
  ASSUME NEW s, TaskInv(s, {}), NEW w \in Worker, NEW t,
         NEW outcome \in Outcome, outcome # "pending"
  PROVE  LET r == HandleReply(s, w, t, outcome)
         IN  TaskInv(r, {}) /\ Quiet(s, r)
<1>. DEFINE q == s.pendingTasks \ {t}
            c == [s.currentTask EXCEPT ![w] = NoTask]
            a == [s EXCEPT !.pendingTasks = q, !.currentTask = c]
            T == {t} \cap s.pendingTasks
            b == Settle(a, T, outcome)
<1>1. s \in PoolState /\ q \in SUBSET Task /\ c \in [Worker -> Task \cup {NoTask}]
  BY DEF TaskInv, PoolState
<1>2. /\ a \in PoolState /\ a.pendingTasks = q
      /\ a.taskQueue = s.taskQueue /\ a.abortedQueued = s.abortedQueued
      /\ a.aborted = s.aborted /\ a.promise = s.promise
      /\ a.nextTaskId = s.nextTaskId /\ a.destroyed = s.destroyed /\ a.workers = s.workers
      /\ a.live = s.live /\ a.idleWorkers = s.idleWorkers
  <2>. HIDE DEF q, c
  <2>. QED
    BY <1>1 DEF PoolState
<1>3. HandleReply(s, w, t, outcome) = MarkWorkerIdle(b, w)
  BY <1>1 DEF HandleReply, PoolState
<1>. HIDE DEF a
<1>4. TaskInv(a, T) /\ Quiet(s, a)
  BY <1>2 DEF TaskInv, Quiet
<1>. HIDE DEF T
<1>5. TaskInv(b, T \ T) /\ Quiet(a, b)
  BY <1>4, SettleInv
<1>. HIDE DEF b
<1>6. TaskInv(b, {})
  BY <1>5
<1>7. TaskInv(MarkWorkerIdle(b, w), {}) /\ Quiet(b, MarkWorkerIdle(b, w))
  BY <1>6, MarkWorkerIdleInv
<1>. QED
  BY <1>3, <1>4, <1>5, <1>7, QuietTransitive

\* Any message of a worker leaves nothing in hand.
LEMMA HandleWorkerMessageInv ==
  ASSUME NEW s, TaskInv(s, {}), NEW w \in Worker, NEW msg \in OutboundMessage
  PROVE  LET r == HandleWorkerMessage(s, w, msg)
         IN  TaskInv(r, {}) /\ Quiet(s, r)
<1>1. CASE msg.tag = "READY"
  BY <1>1, HandleReadyInv DEF HandleWorkerMessage
<1>2. CASE msg.tag = "RESULT"
  BY <1>2, HandleReplyInv DEF HandleWorkerMessage, Outcome
<1>3. CASE msg.tag = "ERROR"
  BY <1>3, HandleReplyInv DEF HandleWorkerMessage, Outcome, Rejection
<1>. QED
  BY <1>1, <1>2, <1>3 DEF OutboundMessage

\* A failed startup answers the whole queue and the task of the worker.
LEMMA FailStartupInv ==
  ASSUME NEW s, TaskInv(s, {}), NEW w \in Worker,
         NEW why \in Outcome, why # "pending"
  PROVE  LET r == FailStartup(s, w, why)
         IN  TaskInv(r, {}) /\ Quiet(s, r) /\ r.idleWorkers = s.idleWorkers
<1>1. CASE w \in s.failed
  BY <1>1 DEF FailStartup, Quiet
<1>2. CASE w \notin s.failed
  <2>. DEFINE u == Unassign(s, w)
              F == u.failed \cup {w}
              T == {s.currentTask[w]} \cap s.pendingTasks
              none == {}
              zero == 0
              d == [u EXCEPT !.failed = F, !.taskQueue = none, !.abortedQueued = zero]
              R == {s.currentTask[w]} \cup s.taskQueue
              e == Settle(d, R, why)
  <2>1. /\ TaskInv(u, {} \cup T) /\ Quiet(s, u) /\ u.taskQueue = s.taskQueue
        /\ u.idleWorkers = s.idleWorkers
    BY UnassignInv
  <2>2. FailStartup(s, w, why) = e
    BY <1>2 DEF FailStartup
  <2>. HIDE DEF u
  <2>3. u \in PoolState /\ F \in SUBSET Worker /\ none \in SUBSET Task /\ zero \in Int
    BY <2>1 DEF TaskInv, PoolState
  <2>4. /\ d \in PoolState /\ d.taskQueue = none /\ d.abortedQueued = zero
        /\ d.pendingTasks = u.pendingTasks /\ d.aborted = u.aborted /\ d.promise = u.promise
        /\ d.nextTaskId = u.nextTaskId /\ d.destroyed = u.destroyed /\ d.workers = u.workers
        /\ d.live = u.live /\ d.idleWorkers = u.idleWorkers
    <3>. HIDE DEF F, none, zero
    <3>. QED
      BY <2>3 DEF PoolState
  <2>. HIDE DEF d
  <2>5. TaskInv(d, T \cup s.taskQueue) /\ Quiet(u, d)
    <3>1. {} \cap u.aborted = {} /\ Cardinality({}) = 0
      BY FS_EmptySet
    <3>. HIDE DEF T
    <3>. QED
      BY <2>1, <2>4, <3>1 DEF TaskInv, Quiet
  <2>6. TaskInv(e, (T \cup s.taskQueue) \ R) /\ Quiet(d, e) /\ e.idleWorkers = d.idleWorkers
    <3>. HIDE DEF T, R
    <3>. QED
      BY <2>5, SettleInv
  <2>. HIDE DEF e
  <2>7. (T \cup s.taskQueue) \ R = {}
    OBVIOUS
  <2>8. TaskInv(e, {})
    BY <2>6, <2>7
  <2>. HIDE DEF T, R
  <2>9. Quiet(s, e)
    BY <2>1, <2>5, <2>6, QuietTransitive
  <2>. QED
    BY <2>1, <2>2, <2>4, <2>6, <2>8, <2>9
<1>. QED
  BY <1>1, <1>2

\* The worker's own task, settled.
LEMMA SettleHeldInv ==
  ASSUME NEW s, TaskInv(s, {}), NEW w \in Worker,
         NEW why \in Outcome, why # "pending"
  PROVE  LET r == Settle(Unassign(s, w), {s.currentTask[w]}, why)
         IN  TaskInv(r, {}) /\ Quiet(s, r) /\ r.idleWorkers = s.idleWorkers
<1>. DEFINE u == Unassign(s, w)
            c == s.currentTask[w]
            T == {} \cup ({c} \cap s.pendingTasks)
            e == Settle(u, {c}, why)
<1>1. TaskInv(u, T) /\ Quiet(s, u) /\ u.idleWorkers = s.idleWorkers
  BY UnassignInv
<1>. HIDE DEF u
<1>2. TaskInv(e, T \ {c}) /\ Quiet(u, e) /\ e.idleWorkers = u.idleWorkers
  <2>. HIDE DEF T, c
  <2>. QED
    BY <1>1, SettleInv
<1>. HIDE DEF e
<1>3. TaskInv(e, {})
  <2>1. T \ {c} = {}
    OBVIOUS
  <2>. QED
    BY <1>2, <2>1
<1>. QED
  BY <1>1, <1>2, <1>3, QuietTransitive DEF e, u

\* An error event leaves nothing in hand.
LEMMA HandleWorkerErrorInv ==
  ASSUME NEW s, TaskInv(s, {}), NEW w \in Worker
  PROVE  TaskInv(HandleWorkerError(s, w), {}) /\ Quiet(s, HandleWorkerError(s, w))
  BY FailStartupInv, SettleHeldInv DEF HandleWorkerError, Outcome, Rejection

\* The exited worker gives up its slot, and queued work stays queued unless
\* the worker had never started.
LEMMA RemoveExitedInv ==
  ASSUME NEW s, TaskInv(s, {}), SlotInv(s), NEW w \in Worker
  PROVE  LET c == RemoveExited(s, w)
         IN  /\ TaskInv(c, {}) /\ c.workers = s.workers \ {w} /\ c.live = s.live \ {w}
             /\ c.destroyed = s.destroyed /\ c.taskQueue \subseteq s.taskQueue
             /\ s.idleWorkers = <<>> => c.idleWorkers = <<>>
<1>. DEFINE m == s.idleTimer \ {w}
            W == s.workers \ {w}
            i == Splice(s.idleWorkers, w)
            a == [s EXCEPT !.idleTimer = m, !.workers = W, !.idleWorkers = i]
            b == IF w \notin s.ready /\ ~s.destroyed THEN FailStartup(a, w, "exitError") ELSE a
            e == Settle(Unassign(b, w), {b.currentTask[w]}, "exitError")
            c == RemoveExited(s, w)
<1>1. /\ s \in PoolState /\ m \in SUBSET Worker /\ W \in SUBSET Worker /\ i \in Seq(Worker)
      /\ s.idleWorkers = <<>> => i = <<>>
  BY SpliceType DEF TaskInv, PoolState
<1>2. /\ a \in PoolState /\ a.workers = W /\ a.idleWorkers = i
      /\ a.taskQueue = s.taskQueue /\ a.abortedQueued = s.abortedQueued
      /\ a.aborted = s.aborted /\ a.promise = s.promise /\ a.pendingTasks = s.pendingTasks
      /\ a.nextTaskId = s.nextTaskId /\ a.destroyed = s.destroyed /\ a.live = s.live
  <2>. HIDE DEF m, W, i
  <2>. QED
    BY <1>1 DEF PoolState
<1>3. c = [e EXCEPT !.ready = @ \ {w}, !.failed = @ \ {w}, !.terminating = @ \ {w},
                    !.live = @ \ {w}, !.port[w] = <<>>]
  BY DEF RemoveExited
<1>. HIDE DEF a
<1>4. TaskInv(a, {})
  BY <1>2 DEF TaskInv
<1>5. TaskInv(b, {}) /\ Quiet(a, b) /\ b.idleWorkers = a.idleWorkers
  <2>1. TaskInv(a, {}) /\ Quiet(a, a)
    BY <1>4 DEF Quiet
  <2>. QED
    BY <1>4, <2>1, FailStartupInv DEF Outcome, Rejection
<1>. HIDE DEF b
<1>6. TaskInv(e, {}) /\ Quiet(b, e) /\ e.idleWorkers = b.idleWorkers
  BY <1>5, SettleHeldInv DEF Outcome, Rejection
<1>. HIDE DEF e, c
<1>. DEFINE y == e.ready \ {w}
            f == e.failed \ {w}
            n == e.terminating \ {w}
            l == e.live \ {w}
            p == [e.port EXCEPT ![w] = <<>>]
<1>7. e \in PoolState
  BY <1>6 DEF TaskInv
<1>8. /\ y \in SUBSET Worker /\ f \in SUBSET Worker /\ n \in SUBSET Worker /\ l \in SUBSET Worker
      /\ p \in [Worker -> Seq(Task \cup {MSG_SHUTDOWN})]
  BY <1>7 DEF PoolState
<1>9. c = [e EXCEPT !.ready = y, !.failed = f, !.terminating = n, !.live = l, !.port = p]
  BY <1>3, <1>7 DEF PoolState
<1>10. /\ c \in PoolState /\ c.live = l /\ c.workers = e.workers /\ c.idleWorkers = e.idleWorkers
       /\ c.taskQueue = e.taskQueue /\ c.abortedQueued = e.abortedQueued
       /\ c.aborted = e.aborted /\ c.promise = e.promise /\ c.pendingTasks = e.pendingTasks
       /\ c.nextTaskId = e.nextTaskId /\ c.destroyed = e.destroyed
  <2>. HIDE DEF y, f, n, l, p
  <2>. QED
    BY <1>7, <1>8, <1>9 DEF PoolState
<1>11. TaskInv(c, {})
  BY <1>6, <1>10 DEF TaskInv
<1>12. Quiet(a, e)
  BY <1>5, <1>6, QuietTransitive
<1>. QED
  BY <1>1, <1>2, <1>5, <1>6, <1>10, <1>11, <1>12 DEF Quiet, c

\* After an exit and the respawn below minThreads at most one slot is free
\* beside a waiting task, and a thread can be started for it.
LEMMA ReplaceExitedInv ==
  ASSUME NEW s, TaskInv(s, {}), SlotInv(s), NEW w \in Worker, ~s.destroyed
  PROVE  LET d == ReplaceExited(s, w)
         IN  /\ TaskInv(d, {}) /\ ~d.destroyed /\ d.workers \subseteq d.live
             /\ Cardinality(d.workers) <= MaxThreads
             /\ d.taskQueue # {} =>
                  d.idleWorkers = <<>> /\ Cardinality(d.workers) >= MaxThreads - 1
             /\ d.taskQueue # {} /\ Cardinality(d.workers) < MaxThreads => d.live # Worker
<1>. DEFINE c == RemoveExited(s, w)
            k == Cardinality(c.workers)
            d == ReplaceExited(s, w)
<1>1. /\ TaskInv(c, {}) /\ c.workers = s.workers \ {w} /\ c.live = s.live \ {w}
      /\ c.destroyed = s.destroyed /\ c.taskQueue \subseteq s.taskQueue
      /\ s.idleWorkers = <<>> => c.idleWorkers = <<>>
  BY RemoveExitedInv
<1>. HIDE DEF c
<1>2. c.workers \subseteq c.live /\ c.live # Worker
  BY <1>1 DEF SlotInv
<1>3. /\ k \in Nat /\ Cardinality(s.workers) \in Nat
      /\ k <= Cardinality(s.workers) /\ k >= Cardinality(s.workers) - 1
  <2>1. s.workers \in SUBSET Worker /\ s.workers \ {w} \in SUBSET Worker
    BY DEF TaskInv, PoolState
  <2>2. IsFiniteSet(s.workers) /\ Cardinality(s.workers) \in Nat
    BY <2>1, WorkersFinite
  <2>3. Cardinality(s.workers \ {w}) = IF w \in s.workers THEN Cardinality(s.workers) - 1
                                                        ELSE Cardinality(s.workers)
    BY <2>2, FS_RemoveElement
  <2>4. Cardinality(s.workers \ {w}) \in Nat
    BY <2>1, WorkersFinite
  <2>. QED
    BY <1>1, <2>2, <2>3, <2>4
<1>4. k <= MaxThreads /\ MaxThreads \in Nat /\ MinThreads \in Nat /\ MinThreads <= MaxThreads
  BY <1>3, ThreadsAssumption DEF SlotInv
<1>5. c.taskQueue # {} => c.idleWorkers = <<>> /\ k >= MaxThreads - 1
  BY <1>1, <1>3, <1>4 DEF SlotInv
<1>6. CASE w \in s.ready /\ k < MinThreads
  <2>1. d = SpawnWorker(c, NoTask)
    BY <1>6 DEF ReplaceExited, c
  <2>. HIDE DEF d
  <2>2. /\ TaskInv(d, {} \ {NoTask}) /\ d.workers \subseteq d.live
        /\ Cardinality(d.workers) = k + 1
        /\ d.taskQueue = c.taskQueue /\ d.idleWorkers = c.idleWorkers
        /\ d.destroyed = c.destroyed
    BY <1>1, <1>2, <2>1, SpawnWorkerInv
  <2>. HIDE DEF k
  <2>. QED
    BY <1>1, <1>3, <1>4, <1>5, <1>6, <2>2 DEF d
<1>7. CASE ~(w \in s.ready /\ k < MinThreads)
  <2>1. d = c
    BY <1>7 DEF ReplaceExited, c
  <2>. HIDE DEF d
  <2>. QED
    BY <1>1, <1>2, <1>4, <1>5, <2>1 DEF d
<1>. QED
  BY <1>6, <1>7

\* An exit event leaves nothing in hand, and its slot used if work waits.
LEMMA HandleWorkerExitInv ==
  ASSUME NEW s, TaskInv(s, {}), SlotInv(s), NEW w \in Worker
  PROVE  TaskInv(HandleWorkerExit(s, w), {}) /\ SlotInv(HandleWorkerExit(s, w))
<1>1. CASE s.destroyed
  <2>. DEFINE c == RemoveExited(s, w)
  <2>1. /\ TaskInv(c, {}) /\ c.workers = s.workers \ {w} /\ c.live = s.live \ {w}
        /\ c.destroyed = s.destroyed
    BY RemoveExitedInv
  <2>. HIDE DEF c
  <2>2. c.taskQueue = {} /\ c.workers = {}
    BY <1>1, <2>1 DEF TaskInv, SlotInv
  <2>3. SlotInv(c)
    <3>1. Cardinality({}) = 0 /\ 0 <= MaxThreads
      BY FS_EmptySet, ThreadsAssumption
    <3>. QED
      BY <2>2, <3>1 DEF SlotInv
  <2>4. HandleWorkerExit(s, w) = MaybeResolveDrain(c)
    BY <1>1 DEF HandleWorkerExit, c
  <2>. QED
    BY <2>1, <2>3, <2>4, MaybeResolveDrainInv, QuietSlots
<1>2. CASE ~s.destroyed
  <2>. DEFINE d == ReplaceExited(s, w)
  <2>1. /\ TaskInv(d, {}) /\ ~d.destroyed /\ d.workers \subseteq d.live
        /\ Cardinality(d.workers) <= MaxThreads
        /\ d.taskQueue # {} => d.idleWorkers = <<>> /\ Cardinality(d.workers) >= MaxThreads - 1
        /\ d.taskQueue # {} /\ Cardinality(d.workers) < MaxThreads => d.live # Worker
    BY <1>2, ReplaceExitedInv
  <2>2. HandleWorkerExit(s, w) = MaybeResolveDrain(TryDispatch(d))
    BY <1>2 DEF HandleWorkerExit
  <2>. HIDE DEF d
  <2>3. \/ \E t : d.taskQueue \subseteq {t}
        \/ d.idleWorkers = <<>> /\ Cardinality(d.workers) >= MaxThreads - 1
    BY <2>1
  <2>4. TaskInv(TryDispatch(d), {}) /\ SlotInv(TryDispatch(d))
    BY <2>1, <2>3, TryDispatchInv
  <2>. QED
    BY <2>2, <2>4, MaybeResolveDrainInv, QuietSlots
<1>. QED
  BY <1>1, <1>2

\* A delivered message preserves Inv.
LEMMA OnMessageInv ==
  ASSUME Inv, NEW w \in Worker, OnMessage(w)
  PROVE  Inv'
<1>. DEFINE o == thread[w].out
<1>1. /\ TaskInv(pool, {}) /\ SlotInv(pool) /\ o \in Seq(OutboundMessage) /\ o # <<>>
      /\ pool' = HandleWorkerMessage(pool, w, Head(o))
  BY DEF Inv, OnMessage, ThreadState
<1>2. Head(o) \in OutboundMessage /\ Tail(o) \in Seq(OutboundMessage)
  BY <1>1
<1>3. TaskInv(pool', {}) /\ Quiet(pool, pool')
  BY <1>1, <1>2, HandleWorkerMessageInv
<1>4. thread' \in [Worker -> ThreadState]
  BY <1>2 DEF Inv, OnMessage, ThreadState
<1>. QED
  BY <1>1, <1>3, <1>4, QuietSlots DEF Inv

\* A delivered error preserves Inv.
LEMMA OnErrorInv ==
  ASSUME Inv, NEW w \in Worker, OnError(w)
  PROVE  Inv'
<1>1. TaskInv(pool', {}) /\ Quiet(pool, pool') /\ SlotInv(pool)
  BY HandleWorkerErrorInv DEF Inv, OnError
<1>2. thread' \in [Worker -> ThreadState]
  BY DEF Inv, OnError, ThreadState
<1>. QED
  BY <1>1, <1>2, QuietSlots DEF Inv

\* A delivered exit preserves Inv.
LEMMA OnExitInv ==
  ASSUME Inv, NEW w \in Worker, OnExit(w)
  PROVE  Inv'
<1>1. TaskInv(pool', {}) /\ SlotInv(pool')
  BY HandleWorkerExitInv DEF Inv, OnExit
<1>2. thread' \in [Worker -> ThreadState]
  BY ThreadStates DEF Inv, OnExit
<1>. QED
  BY <1>1, <1>2 DEF Inv

\* What a thread does by itself: the pool sees at most a shorter inbox.
LEMMA ThreadStepInv ==
  ASSUME Inv, NEW w \in Worker,
         \/ ThreadReady(w) \/ ThreadReply(w) \/ ThreadShutsDown(w) \/ ThreadTerminated(w)
         \/ \E error \in BOOLEAN : ThreadStartFails(w, error) \/ ThreadCrashes(w, error)
  PROVE  Inv'
<1>0. /\ thread \in [Worker -> ThreadState] /\ pool \in PoolState
      /\ TaskInv(pool, {}) /\ SlotInv(pool)
  BY DEF Inv, TaskInv
<1>1. ASSUME NEW error \in BOOLEAN, Dies(w, error)
      PROVE  thread' \in [Worker -> ThreadState]
  BY <1>0, <1>1 DEF Dies, ThreadState
<1>2. CASE ThreadReady(w)
  <2>1. MSG_READY \in OutboundMessage
    BY DEF MSG_READY, OutboundMessage
  <2>2. Append(thread[w].out, MSG_READY) \in Seq(OutboundMessage)
    BY <1>0, <2>1 DEF ThreadState
  <2>3. thread' \in [Worker -> ThreadState]
    BY <1>0, <1>2, <2>2 DEF ThreadReady, ThreadState
  <2>. QED
    BY <1>0, <1>2, <2>3 DEF Inv, ThreadReady
<1>3. CASE ThreadReply(w)
  <2>0. \A t \in Task : MSG_RESULT(t) \in OutboundMessage /\ MSG_ERROR(t) \in OutboundMessage
    BY DEF MSG_RESULT, MSG_ERROR, OutboundMessage
  <2>1. PICK msg \in OutboundMessage : ThreadReplies(w, msg)
    BY <1>3, <2>0 DEF ThreadReply
  <2>2. msg \in OutboundMessage
    OBVIOUS
  <2>3. Append(thread[w].out, msg) \in Seq(OutboundMessage)
    BY <1>0, <2>2 DEF ThreadState
  <2>4. thread' \in [Worker -> ThreadState]
    BY <1>0, <2>1, <2>3 DEF ThreadReplies, ThreadState
  <2>. DEFINE p == [pool.port EXCEPT ![w] = Tail(@)]
  <2>5. p \in [Worker -> Seq(Task \cup {MSG_SHUTDOWN})]
    <3>1. pool.port \in [Worker -> Seq(Task \cup {MSG_SHUTDOWN})] /\ pool.port[w] # <<>>
      BY <1>0, <2>1 DEF ThreadReplies, PoolState
    <3>. QED
      BY <3>1
  <2>6. pool' = [pool EXCEPT !.port = p]
    BY <1>0, <2>1 DEF ThreadReplies, PoolState
  <2>7. /\ pool' \in PoolState
        /\ pool'.abortedQueued = pool.abortedQueued /\ pool'.aborted = pool.aborted
        /\ pool'.taskQueue = pool.taskQueue /\ pool'.pendingTasks = pool.pendingTasks
        /\ pool'.nextTaskId = pool.nextTaskId /\ pool'.destroyed = pool.destroyed
        /\ pool'.workers = pool.workers /\ pool'.live = pool.live
        /\ pool'.idleWorkers = pool.idleWorkers /\ pool'.promise = pool.promise
    <3>. HIDE DEF p
    <3>. QED
      BY <1>0, <2>5, <2>6 DEF PoolState
  <2>8. TaskInv(pool', {}) /\ SlotInv(pool')
    BY <1>0, <2>7 DEF TaskInv, SlotInv
  <2>. QED
    BY <2>4, <2>8 DEF Inv
<1>4. CASE ThreadShutsDown(w)
  BY <1>0, <1>1, <1>4 DEF ThreadShutsDown, Inv
<1>5. CASE ThreadTerminated(w)
  BY <1>0, <1>1, <1>5 DEF ThreadTerminated, Inv
<1>6. ASSUME NEW error \in BOOLEAN, ThreadStartFails(w, error) \/ ThreadCrashes(w, error)
      PROVE  Inv'
  BY <1>0, <1>1, <1>6 DEF ThreadStartFails, ThreadCrashes, Inv
<1>. QED
  BY <1>2, <1>3, <1>4, <1>5, <1>6

\* make() establishes Inv.
LEMMA InitInv == Init => Inv
<1>. SUFFICES ASSUME Init PROVE Inv
  OBVIOUS
<1>1. /\ 1..MinThreads \in SUBSET Worker /\ IsFiniteSet(1..MinThreads)
      /\ Cardinality(1..MinThreads) = MinThreads
  <2>1. Cardinality(1..MinThreads) = MinThreads /\ IsFiniteSet(1..MinThreads)
    BY FS_Interval, ThreadsAssumption
  <2>. QED
    BY <2>1, ThreadsAssumption, BoundsAssumption DEF Worker
<1>2. /\ <<>> \in Seq(Worker) /\ 0 \in 0..MaxTasks /\ 0 \in Int
      /\ [w \in Worker |-> NoTask] \in [Worker -> Task \cup {NoTask}]
      /\ [t \in Task |-> 0] \in [Task -> Priority]
      /\ [t \in Task |-> "none"] \in [Task -> Outcome]
      /\ [w \in Worker |-> <<>>] \in [Worker -> Seq(Task \cup {MSG_SHUTDOWN})]
  BY BoundsAssumption, PriorityAssumption DEF Outcome
<1>3. pool \in PoolState
  BY <1>1, <1>2 DEF Init, PoolState
<1>4. thread \in [Worker -> ThreadState]
  BY ThreadStates DEF Init
<1>5. TaskInv(pool, {})
  <2>1. {} \cap {} = {} /\ Cardinality({}) = 0
    BY FS_EmptySet
  <2>2. \A t \in Task : pool.promise[t] # "pending"
    BY DEF Init
  <2>. QED
    BY <1>3, <2>1, <2>2 DEF Init, TaskInv
<1>6. SlotInv(pool)
  BY <1>1, ThreadsAssumption DEF Init, SlotInv
<1>. QED
  BY <1>4, <1>5, <1>6 DEF Inv

-----------------------------------------------------------------------------
(***************************************************************************)
(* The protocol between the main thread and its workers.                   *)
(*                                                                         *)
(* What an idle timer may do to the slots depends on the idle stack, and   *)
(* what is in the idle stack depends on what the threads have sent:        *)
(* IdleInv relates the stack, the timers and the inboxes, Link what a      *)
(* thread has sent and the state of its entry.                             *)
(***************************************************************************)
Idle(s) == Range(s.idleWorkers)

\* w answers for nothing: what markWorkerIdle and postTask expect of it
Free(s, w) ==
  /\ w \in s.ready /\ w \in s.live /\ s.port[w] = <<>> /\ w \notin Idle(s)
  /\ w \in s.workers \/ s.destroyed

\* the inbox of a worker that terminateIdleWorker has let go
ToldToEnd == <<MSG_SHUTDOWN>>

IdleInv(s) ==
  /\ IsInjective(s.idleWorkers)
  /\ \A w \in Idle(s) :
       /\ w \in s.ready /\ w \in s.live /\ s.port[w] = <<>>
       /\ s.currentTask[w] = NoTask
       /\ w \in s.workers \/ s.destroyed
  /\ s.idleTimer \subseteq Idle(s)
  /\ s.destroyed => s.idleTimer = {}
  /\ \A w \in Worker : s.port[w] # <<>> =>
       /\ w \in s.ready /\ Len(s.port[w]) = 1
       /\ s.port[w] # ToldToEnd => w \in s.workers \/ s.destroyed
  /\ s.ready \subseteq s.live
  /\ \A w \in Worker \ s.live : s.currentTask[w] = NoTask

\* what thread w has sent, against its entry
Link(s, h, w) ==
  /\ h.out # <<>> =>
       /\ Len(h.out) = 1 /\ s.port[w] = <<>> /\ w \notin Idle(s)
       /\ w \in s.workers \/ s.destroyed
       /\ h.out[1].tag = "READY" <=> w \notin s.ready
  /\ h.state \in {"none", "booting"} => w \notin s.ready /\ h.out = <<>>
  /\ h.state = "booting" => w \in s.workers \/ s.destroyed
  /\ h.state = "none" <=> w \notin s.live

\* nothing of a worker changes from s to r, or nothing of any worker but w
Same(s, r) ==
  /\ r.ready = s.ready /\ r.live = s.live /\ r.workers = s.workers
  /\ r.destroyed = s.destroyed /\ r.port = s.port /\ r.currentTask = s.currentTask
  /\ r.idleWorkers = s.idleWorkers /\ r.idleTimer = s.idleTimer

Only(s, r, w) ==
  /\ r.ready = s.ready /\ r.live = s.live /\ r.workers = s.workers
  /\ r.destroyed = s.destroyed
  /\ \A v \in Worker \ {w} : r.port[v] = s.port[v] /\ (v \in Idle(r) => v \in Idle(s))

\* w may lose its task
Drops(s, r, w) ==
  /\ r.ready = s.ready /\ r.live = s.live /\ r.workers = s.workers
  /\ r.destroyed = s.destroyed /\ r.port = s.port
  /\ r.idleWorkers = s.idleWorkers /\ r.idleTimer = s.idleTimer
  /\ r.currentTask[w] \in {s.currentTask[w], NoTask}
  /\ \A v \in Worker \ {w} : r.currentTask[v] = s.currentTask[v]

\* idle workers may be given work, and threads may be started
Grow(s, r) ==
  /\ r.ready = s.ready /\ r.destroyed = s.destroyed
  /\ s.live \subseteq r.live /\ s.workers \subseteq r.workers
  /\ r.live \ s.live \subseteq r.workers
  /\ \A v \in Worker \ Idle(s) : r.port[v] = s.port[v] /\ v \notin Idle(r)

ThreadInv == IdleInv(pool) /\ \A w \in Worker : Link(pool, thread[w], w)

-----------------------------------------------------------------------------
(* The idle stack: push, pop and splice keep its entries distinct. *)

\* Append of a new worker keeps the entries distinct.
LEMMA PushIdle ==
  ASSUME NEW q \in Seq(Worker), IsInjective(q), NEW w \in Worker, w \notin Range(q)
  PROVE  IsInjective(Append(q, w)) /\ Range(Append(q, w)) = Range(q) \cup {w}
<1>. DEFINE r == Append(q, w)
            n == Len(q)
<1>1. n \in Nat /\ DOMAIN q = 1..n /\ DOMAIN r = 1..(n + 1)
  OBVIOUS
<1>2. r[n + 1] = w /\ \A i \in 1..n : r[i] = q[i]
  OBVIOUS
<1>. HIDE DEF r, n
<1>3. \A i \in 1..(n + 1) : i = n + 1 \/ i \in 1..n
  BY <1>1
<1>4. \A i \in 1..n : q[i] # w
  BY <1>1 DEF Range
<1>5. IsInjective(r)
  BY <1>1, <1>2, <1>3, <1>4 DEF IsInjective
<1>6. Range(r) \subseteq Range(q) \cup {w}
  BY <1>1, <1>2, <1>3 DEF Range
<1>7. n + 1 \in 1..(n + 1) /\ \A i \in 1..n : i \in 1..(n + 1)
  BY <1>1
<1>8. Range(q) \cup {w} \subseteq Range(r)
  BY <1>1, <1>2, <1>7 DEF Range
<1>. QED
  BY <1>5, <1>6, <1>8 DEF r

\* Dropping the top keeps the rest.
LEMMA PopIdle ==
  ASSUME NEW q \in Seq(Worker), IsInjective(q), q # <<>>
  PROVE  LET r == SubSeq(q, 1, Len(q) - 1)
         IN  IsInjective(r) /\ Range(r) = Range(q) \ {q[Len(q)]}
<1>. DEFINE n == Len(q)
            r == SubSeq(q, 1, n - 1)
<1>1. n \in Nat \ {0} /\ DOMAIN q = 1..n
  OBVIOUS
<1>2. DOMAIN r = 1..(n - 1) /\ \A i \in 1..(n - 1) : r[i] = q[i]
  BY <1>1
<1>. HIDE DEF r, n
<1>3. \A i \in 1..n : i = n \/ i \in 1..(n - 1)
  BY <1>1
<1>4. \A i \in 1..(n - 1) : i \in 1..n /\ i # n
  BY <1>1
<1>5. IsInjective(r)
  BY <1>1, <1>2, <1>4 DEF IsInjective
<1>6. Range(r) \subseteq Range(q) \ {q[n]}
  BY <1>1, <1>2, <1>4 DEF Range, IsInjective
<1>7. Range(q) \ {q[n]} \subseteq Range(r)
  BY <1>1, <1>2, <1>3 DEF Range
<1>. QED
  BY <1>5, <1>6, <1>7 DEF r, n

\* indexOf and splice remove exactly the worker.
LEMMA SpliceIdle ==
  ASSUME NEW q \in Seq(Worker), IsInjective(q), NEW w
  PROVE  IsInjective(Splice(q, w)) /\ Range(Splice(q, w)) = Range(q) \ {w}
<1>. DEFINE P(i) == q[i] = w /\ \A j \in 1..(i - 1) : q[j] # w
            at == CHOOSE i \in DOMAIN q : P(i)
            n == Len(q)
            r == [j \in 1..(n - 1) |-> IF j < at THEN q[j] ELSE q[j + 1]]
<1>0. n \in Nat /\ DOMAIN q = 1..n
  OBVIOUS
<1>1. CASE \E i \in DOMAIN q : q[i] = w
  <2>1. PICK k \in 1..n : q[k] = w
    BY <1>0, <1>1
  <2>2. \A j \in 1..n : q[j] = w => j = k
    BY <1>0, <2>1 DEF IsInjective
  <2>3. P(k)
    BY <1>0, <2>1, <2>2
  <2>4. at \in 1..n /\ q[at] = w
    <3>1. at \in DOMAIN q /\ P(at)
      BY <1>0, <2>3
    <3>. QED
      BY <1>0, <3>1
  <2>. HIDE DEF at
  <2>5. at = k
    BY <2>2, <2>4
  <2>6. Splice(q, w) = r
    BY <1>1 DEF Splice, at
  <2>7. DOMAIN r = 1..(n - 1) /\ \A j \in 1..(n - 1) : r[j] = IF j < k THEN q[j] ELSE q[j + 1]
    BY <2>5
  <2>. HIDE DEF r, n
  <2>8. \A j \in 1..(n - 1) : /\ j \in 1..n /\ j + 1 \in 1..n
                              /\ j < k => j # k
                              /\ ~(j < k) => j + 1 # k
    BY <1>0
  <2>9. IsInjective(r)
    <3>. SUFFICES ASSUME NEW i \in 1..(n - 1), NEW j \in 1..(n - 1), r[i] = r[j]  PROVE i = j
      BY <2>7 DEF IsInjective
    <3>. DEFINE a == IF i < k THEN i ELSE i + 1
                b == IF j < k THEN j ELSE j + 1
    <3>1. a \in 1..n /\ b \in 1..n /\ r[i] = q[a] /\ r[j] = q[b]
      BY <2>7, <2>8
    <3>2. a = b
      <4>. HIDE DEF a, b
      <4>. QED
        BY <1>0, <3>1 DEF IsInjective
    <3>. QED
      BY <1>0, <3>2
  <2>10. Range(r) \subseteq Range(q) \ {w}
    BY <1>0, <2>2, <2>7, <2>8 DEF Range
  <2>11. ASSUME NEW i \in 1..n, q[i] # w  PROVE q[i] \in Range(r)
    <3>1. i # k
      BY <2>1, <2>11
    <3>2. CASE i < k
      <4>1. i \in 1..(n - 1) /\ r[i] = q[i]
        BY <1>0, <2>7, <3>2
      <4>. QED
        BY <2>7, <4>1 DEF Range
    <3>3. CASE ~(i < k)
      <4>1. i - 1 \in 1..(n - 1) /\ ~(i - 1 < k) /\ (i - 1) + 1 = i
        BY <1>0, <3>1, <3>3
      <4>2. r[i - 1] = q[i]
        BY <2>7, <4>1
      <4>. QED
        BY <2>7, <4>1, <4>2 DEF Range
    <3>. QED
      BY <3>2, <3>3
  <2>12. Range(q) \ {w} \subseteq Range(r)
    BY <1>0, <2>11 DEF Range
  <2>. QED
    BY <2>6, <2>9, <2>10, <2>12
<1>2. CASE ~\E i \in DOMAIN q : q[i] = w
  <2>1. Splice(q, w) = q
    BY <1>2 DEF Splice
  <2>2. w \notin Range(q)
    BY <1>2 DEF Range
  <2>. QED
    BY <2>1, <2>2
<1>. QED
  BY <1>1, <1>2

-----------------------------------------------------------------------------
(* The helpers. *)

\* The idle stack holds workers.
LEMMA IdleWorkersType ==
  ASSUME NEW s \in PoolState
  PROVE  Idle(s) \subseteq Worker
<1>1. s.idleWorkers \in Seq(Worker)
  BY DEF PoolState
<1>2. \A i \in DOMAIN s.idleWorkers : s.idleWorkers[i] \in Worker
  BY <1>1
<1>. QED
  BY <1>2 DEF Idle, Range

\* What touches no worker keeps IdleInv.
LEMMA SameIdle ==
  ASSUME NEW s, NEW r, IdleInv(s), Same(s, r)
  PROVE  IdleInv(r) /\ \A w \in Worker : Only(s, r, w) /\ (Free(s, w) => Free(r, w))
<1>1. Idle(r) = Idle(s)
  BY DEF Same, Idle
<1>. QED
  BY <1>1 DEF IdleInv, Same, Only, Free, Idle

\* Popping tasks touches no worker.
LEMMA PopAllSame ==
  ASSUME NEW s \in PoolState, NEW D
  PROVE  Same(s, PopAll(s, D))
  BY DEF PopAll, Same, PoolState

\* Settling promises touches no worker.
LEMMA SettleSame ==
  ASSUME NEW s \in PoolState, NEW R, NEW outcome
  PROVE  Same(s, Settle(s, R, outcome))
<1>. DEFINE f == [t \in Task |-> IF t \in R /\ s.promise[t] = "pending"
                                 THEN outcome ELSE s.promise[t]]
<1>1. Settle(s, R, outcome) = [s EXCEPT !.promise = f]
  BY DEF Settle
<1>. HIDE DEF f
<1>. QED
  BY <1>1 DEF Same, PoolState

\* maybeResolveDrain touches no worker.
LEMMA MaybeResolveDrainSame ==
  ASSUME NEW s \in PoolState
  PROVE  Same(s, MaybeResolveDrain(s))
<1>. DEFINE b == s.drainDeferred /\ (s.pendingTasks # {} \/ s.taskQueue # {})
<1>1. MaybeResolveDrain(s) = [s EXCEPT !.drainDeferred = b]
  BY DEF MaybeResolveDrain, PoolState
<1>. HIDE DEF b
<1>. QED
  BY <1>1 DEF Same, PoolState

\* Dropping aborted tasks touches no worker.
LEMMA SkipAbortedSame ==
  ASSUME NEW s \in PoolState
  PROVE  Same(s, SkipAborted(s))
  BY PopAllSame DEF SkipAborted

\* Same composes.
LEMMA SameTransitive ==
  ASSUME NEW s, NEW r, NEW q, Same(s, r), Same(r, q)
  PROVE  Same(s, q)
  BY DEF Same

\* Only composes.
LEMMA OnlyTransitive ==
  ASSUME NEW s, NEW r, NEW q, NEW w, Only(s, r, w), Only(r, q, w)
  PROVE  Only(s, q, w)
  BY DEF Only

\* A worker gets a task and is sent it.
LEMMA SendIdle ==
  ASSUME NEW s \in PoolState, IdleInv(s), NEW w \in Worker, Free(s, w), NEW t \in Task
  PROVE  /\ IdleInv(SendTask(s, w, t)) /\ Only(s, SendTask(s, w, t), w)
<1>. DEFINE p == [s.port EXCEPT ![w] = Append(s.port[w], t)]
            r == SendTask(s, w, t)
<1>1. r = [s EXCEPT !.port = p]
  BY DEF SendTask, PoolState
<1>2. /\ r.port = p /\ r.ready = s.ready /\ r.live = s.live /\ r.workers = s.workers
      /\ r.destroyed = s.destroyed /\ r.currentTask = s.currentTask
      /\ r.idleWorkers = s.idleWorkers /\ r.idleTimer = s.idleTimer
  <2>. HIDE DEF p, r
  <2>. QED
    BY <1>1 DEF PoolState
<1>3. s.port \in [Worker -> Seq(Task \cup {MSG_SHUTDOWN})] /\ s.port[w] = <<>>
  BY DEF PoolState, Free
<1>4. \A v \in Worker : v # w => p[v] = s.port[v]
  BY <1>3
<1>5. p[w] # <<>> /\ Len(p[w]) = 1
  BY <1>3
<1>. HIDE DEF p, r
<1>6. Idle(r) = Idle(s) /\ Idle(s) \subseteq Worker
  BY <1>2, IdleWorkersType DEF Idle
<1>. QED
  BY <1>2, <1>4, <1>5, <1>6 DEF IdleInv, Only, Free, Idle, r

\* A worker that is not idle may be given a task.
LEMMA AssignIdle ==
  ASSUME NEW s \in PoolState, IdleInv(s), NEW w \in Worker, NEW t,
         w \notin Idle(s), w \in s.live
  PROVE  LET r == Assign(s, w, t)
         IN  IdleInv(r) /\ Only(s, r, w) /\ (Free(s, w) => Free(r, w))
<1>. DEFINE c == [s.currentTask EXCEPT ![w] = t]
            q == s.pendingTasks \cup {t}
            r == Assign(s, w, t)
<1>1. r = [s EXCEPT !.currentTask = c, !.pendingTasks = q]
  BY DEF Assign, PoolState
<1>2. /\ r.port = s.port /\ r.ready = s.ready /\ r.live = s.live /\ r.workers = s.workers
      /\ r.destroyed = s.destroyed /\ r.currentTask = c
      /\ r.idleWorkers = s.idleWorkers /\ r.idleTimer = s.idleTimer
  <2>. HIDE DEF c, q, r
  <2>. QED
    BY <1>1 DEF PoolState
<1>3. \A v \in Worker : v # w => c[v] = s.currentTask[v]
  BY DEF PoolState
<1>4. Idle(r) = Idle(s) /\ Idle(s) \subseteq Worker
  BY <1>2, IdleWorkersType DEF Idle
<1>. HIDE DEF c, r
<1>. QED
  BY <1>2, <1>3, <1>4 DEF IdleInv, Only, Free, Idle, r

\* Any worker may lose its task.
LEMMA UnassignIdle ==
  ASSUME NEW s \in PoolState, IdleInv(s), NEW w \in Worker
  PROVE  LET r == Unassign(s, w)
         IN  /\ IdleInv(r) /\ (\A v \in Worker : Only(s, r, v)) /\ (Free(s, w) => Free(r, w))
             /\ r.currentTask = [s.currentTask EXCEPT ![w] = NoTask]
             /\ r.idleWorkers = s.idleWorkers
<1>. DEFINE c == [s.currentTask EXCEPT ![w] = NoTask]
            q == s.pendingTasks \ {s.currentTask[w]}
            r == Unassign(s, w)
<1>1. r = [s EXCEPT !.currentTask = c, !.pendingTasks = q]
  BY DEF Unassign, PoolState
<1>2. /\ r.port = s.port /\ r.ready = s.ready /\ r.live = s.live /\ r.workers = s.workers
      /\ r.destroyed = s.destroyed /\ r.currentTask = c
      /\ r.idleWorkers = s.idleWorkers /\ r.idleTimer = s.idleTimer
  <2>. HIDE DEF c, q, r
  <2>. QED
    BY <1>1 DEF PoolState
<1>3. c[w] = NoTask /\ \A v \in Worker : v # w => c[v] = s.currentTask[v]
  BY DEF PoolState
<1>4. Idle(r) = Idle(s) /\ Idle(s) \subseteq Worker
  BY <1>2, IdleWorkersType DEF Idle
<1>5. r.currentTask = [s.currentTask EXCEPT ![w] = NoTask]
  BY <1>2
<1>. HIDE DEF c, r
<1>6. IdleInv(r) /\ (\A v \in Worker : Only(s, r, v)) /\ (Free(s, w) => Free(r, w))
  BY <1>2, <1>3, <1>4 DEF IdleInv, Only, Free, Idle
<1>. QED
  BY <1>2, <1>5, <1>6 DEF r

\* A free worker may join the idle stack; after destroy() no timer is armed.
LEMMA BecomeIdleIdle ==
  ASSUME NEW s \in PoolState, IdleInv(s), s.destroyed => s.workers = {},
         NEW w \in Worker, Free(s, w), s.currentTask[w] = NoTask
  PROVE  IdleInv(BecomeIdle(s, w)) /\ Only(s, BecomeIdle(s, w), w)
<1>. DEFINE i == Append(s.idleWorkers, w)
            m == IF IdleTimeout /\ Cardinality(s.workers) > MinThreads
                 THEN s.idleTimer \cup {w} ELSE s.idleTimer
            r == [s EXCEPT !.idleWorkers = i, !.idleTimer = m]
<1>1. BecomeIdle(s, w) = MaybeResolveDrain(r) /\ i \in Seq(Worker) /\ m \in SUBSET Worker
  BY DEF BecomeIdle, PoolState
<1>2. /\ r \in PoolState
      /\ r.port = s.port /\ r.ready = s.ready /\ r.live = s.live /\ r.workers = s.workers
      /\ r.destroyed = s.destroyed /\ r.currentTask = s.currentTask
      /\ r.idleWorkers = i /\ r.idleTimer = m
  <2>. HIDE DEF i, m
  <2>. QED
    BY <1>1 DEF PoolState
<1>3. IsInjective(i) /\ Range(i) = Idle(s) \cup {w}
  BY PushIdle DEF IdleInv, Free, Idle, PoolState
<1>4. s.destroyed => m = {}
  <2>1. s.destroyed => Cardinality(s.workers) = 0
    BY FS_EmptySet
  <2>2. s.destroyed => ~(Cardinality(s.workers) > MinThreads)
    BY <2>1, ThreadsAssumption
  <2>. QED
    BY <2>2 DEF IdleInv
<1>5. m \subseteq Idle(s) \cup {w}
  BY DEF IdleInv
<1>. HIDE DEF i, m, r
<1>6. Idle(r) = Idle(s) \cup {w}
  BY <1>2, <1>3 DEF Idle
<1>7. IdleInv(r) /\ Only(s, r, w)
  <2>1. IdleInv(r)
    BY <1>2, <1>3, <1>4, <1>5, <1>6 DEF IdleInv, Free
  <2>2. Only(s, r, w)
    BY <1>2, <1>6 DEF Only
  <2>. QED
    BY <2>1, <2>2
<1>. QED
  BY <1>1, <1>2, <1>7, MaybeResolveDrainSame, SameIdle, OnlyTransitive

\* What is popped and settled on the way to the next task touches no worker.
LEMMA PopSettleSame ==
  ASSUME NEW s, TaskInv(s, {}), NEW D \in SUBSET s.taskQueue, NEW R,
         NEW outcome \in Outcome, outcome # "pending"
  PROVE  LET r == Settle(PopAll(s, D), R, outcome)
         IN  r \in PoolState /\ Same(s, r)
<1>. DEFINE p == PopAll(s, D)
            r == Settle(p, R, outcome)
            T == {} \cup (D \ s.aborted)
<1>0. s \in PoolState
  BY DEF TaskInv
<1>1. TaskInv(p, T)
  BY PopAllInv
<1>2. Same(s, p)
  BY <1>0, PopAllSame
<1>. HIDE DEF p, T
<1>3. TaskInv(r, T \ R)
  BY <1>1, SettleInv
<1>4. Same(p, r)
  <2>1. p \in PoolState
    BY <1>1 DEF TaskInv
  <2>. QED
    BY <2>1, SettleSame
<1>. HIDE DEF r
<1>5. r \in PoolState
  BY <1>3 DEF TaskInv
<1>. QED
  BY <1>2, <1>4, <1>5, SameTransitive DEF r, p

\* markWorkerIdle of a free worker touches that worker only.
LEMMA MarkWorkerIdleIdle ==
  ASSUME NEW s, TaskInv(s, {}), IdleInv(s), s.destroyed => s.workers = {},
         NEW w \in Worker, Free(s, w), s.currentTask[w] = NoTask
  PROVE  IdleInv(MarkWorkerIdle(s, w)) /\ Only(s, MarkWorkerIdle(s, w), w)
<1>. DEFINE sendable == Valid(s) \ s.uncloneable
            t == First(s, sendable)
<1>0. s \in PoolState /\ s.taskQueue \in SUBSET Task
  BY DEF TaskInv, PoolState
<1>1. CASE sendable = {}
  <2>. DEFINE r == Settle(PopAll(s, s.taskQueue), Valid(s), "cloneError")
  <2>1. r \in PoolState /\ Same(s, r)
    BY PopSettleSame DEF Outcome, Rejection
  <2>2. MarkWorkerIdle(s, w) = BecomeIdle(r, w)
    BY <1>1 DEF MarkWorkerIdle
  <2>. HIDE DEF r
  <2>3. IdleInv(r) /\ Free(r, w) /\ Only(s, r, w)
    BY <2>1, SameIdle
  <2>4. r.currentTask[w] = NoTask /\ (r.destroyed => r.workers = {})
    BY <2>1 DEF Same
  <2>5. IdleInv(BecomeIdle(r, w)) /\ Only(r, BecomeIdle(r, w), w)
    BY <2>1, <2>3, <2>4, BecomeIdleIdle
  <2>. QED
    BY <2>2, <2>3, <2>5, OnlyTransitive
<1>2. CASE sendable # {}
  <2>. DEFINE R == (UpTo(s, t) \ s.aborted) \ {t}
              r == Settle(PopAll(s, UpTo(s, t)), R, "cloneError")
              a == Assign(r, w, t)
  <2>1. t \in Task
    BY <1>0, <1>2, FirstIsLeast DEF Valid
  <2>2. MarkWorkerIdle(s, w) = SendTask(a, w, t)
    BY <1>2 DEF MarkWorkerIdle
  <2>. HIDE DEF t
  <2>3. UpTo(s, t) \in SUBSET s.taskQueue
    BY DEF UpTo
  <2>4. r \in PoolState /\ Same(s, r)
    <3>. DEFINE U == UpTo(s, t)
    <3>. HIDE DEF R, U
    <3>1. U \in SUBSET s.taskQueue
      BY <2>3 DEF U
    <3>2. Settle(PopAll(s, U), R, "cloneError") \in PoolState
          /\ Same(s, Settle(PopAll(s, U), R, "cloneError"))
      BY <3>1, PopSettleSame, ZenonT(30) DEF Outcome, Rejection
    <3>. QED
      BY <3>2 DEF U
  <2>. HIDE DEF r
  <2>5. IdleInv(r) /\ Free(r, w) /\ Only(s, r, w)
    BY <2>4, SameIdle
  <2>6. IdleInv(a) /\ Only(r, a, w) /\ Free(a, w)
    <3>1. w \notin Idle(r) /\ w \in r.live
      BY <2>5 DEF Free
    <3>. QED
      BY <2>4, <2>5, <3>1, AssignIdle
  <2>7. a \in PoolState
    <3>. DEFINE c == [r.currentTask EXCEPT ![w] = t]
                q == r.pendingTasks \cup {t}
    <3>1. a = [r EXCEPT !.currentTask = c, !.pendingTasks = q]
      BY <2>4 DEF Assign, PoolState
    <3>2. c \in [Worker -> Task \cup {NoTask}] /\ q \in SUBSET Task
      BY <2>1, <2>4 DEF PoolState
    <3>. HIDE DEF c, q, a
    <3>. QED
      BY <2>4, <3>1, <3>2 DEF PoolState
  <2>. HIDE DEF a
  <2>8. IdleInv(SendTask(a, w, t)) /\ Only(a, SendTask(a, w, t), w)
    BY <2>1, <2>6, <2>7, SendIdle
  <2>. QED
    BY <2>2, <2>5, <2>6, <2>8, OnlyTransitive
<1>. QED
  BY <1>1, <1>2

\* postTask to a free worker touches that worker only.
LEMMA PostTaskIdle ==
  ASSUME NEW s, TaskInv(s, {}), IdleInv(s), s.destroyed => s.workers = {},
         NEW w \in Worker, Free(s, w), NEW t \in Task, s.currentTask[w] = t
  PROVE  IdleInv(PostTask(s, w, t)) /\ Only(s, PostTask(s, w, t), w)
<1>0. s \in PoolState
  BY DEF TaskInv
<1>1. CASE t \in s.uncloneable
  <2>. DEFINE u == Unassign(s, w)
              r == Settle(u, {t}, "cloneError")
  <2>1. TaskInv(r, {})
    BY SettleHeldInv DEF Outcome, Rejection
  <2>2. /\ IdleInv(u) /\ Only(s, u, w) /\ Free(u, w)
        /\ u.currentTask = [s.currentTask EXCEPT ![w] = NoTask]
    BY <1>0, UnassignIdle
  <2>3. u \in PoolState
    <3>. DEFINE T == {} \cup ({s.currentTask[w]} \cap s.pendingTasks)
    <3>1. TaskInv(u, T)
      BY UnassignInv
    <3>. HIDE DEF u, T
    <3>. QED
      BY <3>1 DEF TaskInv
  <2>4. u.currentTask[w] = NoTask /\ (u.destroyed => u.workers = {})
    BY <1>0, <2>2 DEF PoolState, Only
  <2>. HIDE DEF u
  <2>5. Same(u, r)
    BY <2>3, SettleSame
  <2>. HIDE DEF r
  <2>6. IdleInv(r) /\ Free(r, w) /\ Only(u, r, w)
    BY <2>2, <2>5, SameIdle
  <2>7. r.currentTask[w] = NoTask /\ (r.destroyed => r.workers = {})
    BY <2>4, <2>5 DEF Same
  <2>8. IdleInv(MarkWorkerIdle(r, w)) /\ Only(r, MarkWorkerIdle(r, w), w)
    BY <2>1, <2>6, <2>7, MarkWorkerIdleIdle
  <2>9. PostTask(s, w, t) = MarkWorkerIdle(r, w)
    BY <1>1 DEF PostTask, r, u
  <2>. QED
    BY <2>2, <2>6, <2>8, <2>9, OnlyTransitive
<1>2. CASE t \notin s.uncloneable
  BY <1>0, <1>2, SendIdle DEF PostTask
<1>. QED
  BY <1>1, <1>2

\* dispatchTask to a free worker touches that worker only.
LEMMA DispatchTaskIdle ==
  ASSUME NEW s, NEW t \in Task, TaskInv(s, {t}), IdleInv(s), s.destroyed => s.workers = {},
         NEW w \in Worker, Free(s, w)
  PROVE  IdleInv(DispatchTask(s, w, t)) /\ Only(s, DispatchTask(s, w, t), w)
<1>. DEFINE a == Assign(s, w, t)
<1>0. s \in PoolState /\ w \notin Idle(s) /\ w \in s.live
  BY DEF TaskInv, Free
<1>1. IdleInv(a) /\ Only(s, a, w) /\ Free(a, w)
  BY <1>0, AssignIdle
<1>2. TaskInv(a, {t} \ {t}) /\ a.currentTask = [s.currentTask EXCEPT ![w] = t]
  BY AssignInv
<1>3. TaskInv(a, {}) /\ a.currentTask[w] = t
  <2>1. s.currentTask \in [Worker -> Task \cup {NoTask}]
    BY <1>0 DEF PoolState
  <2>. HIDE DEF a
  <2>. QED
    BY <1>2, <2>1
<1>4. a.destroyed => a.workers = {}
  BY <1>1 DEF Only
<1>. HIDE DEF a
<1>5. IdleInv(PostTask(a, w, t)) /\ Only(a, PostTask(a, w, t), w)
  BY <1>1, <1>3, <1>4, PostTaskIdle
<1>. QED
  BY <1>1, <1>5, OnlyTransitive DEF DispatchTask, a

\* Grow composes.
LEMMA GrowTransitive ==
  ASSUME NEW s, NEW r, NEW q, Grow(s, r), Grow(r, q)
  PROVE  Grow(s, q)
  BY DEF Grow

\* What touches no worker is a case of Grow.
LEMMA SameGrow ==
  ASSUME NEW s, NEW r, Same(s, r)
  PROVE  Grow(s, r)
<1>1. Idle(r) = Idle(s)
  BY DEF Same, Idle
<1>. QED
  BY <1>1 DEF Same, Grow

\* Every entry of the idle stack can be used, so the top is what is popped.
LEMMA PopIdleWorkerIdle ==
  ASSUME NEW s \in PoolState, IdleInv(s)
  PROVE  LET r == PopIdleWorker(s)
         IN  /\ IdleInv(r) /\ Grow(s, r) /\ r.live = s.live /\ r.workers = s.workers
             /\ Usable(s) # {} => /\ IdleTop(s) \in Worker /\ IdleTop(s) \in Idle(s)
                                  /\ Free(r, IdleTop(s))
<1>. DEFINE q == s.idleWorkers
            n == Len(q)
            r == PopIdleWorker(s)
<1>1. q \in Seq(Worker) /\ n \in Nat /\ DOMAIN q = 1..n
  BY DEF PoolState
<1>2. \A i \in 1..n : q[i] \in Idle(s) /\ q[i] \in Worker
  BY <1>1 DEF Idle, Range
<1>3. Usable(s) = 1..n
  BY <1>1, <1>2 DEF Usable, IdleInv
<1>4. CASE n = 0
  <2>1. q = <<>> /\ Usable(s) = {}
    BY <1>1, <1>3, <1>4
  <2>2. r = [s EXCEPT !.idleWorkers = <<>>]
    BY <2>1 DEF PopIdleWorker
  <2>3. Same(s, r)
    BY <2>1, <2>2 DEF Same, PoolState
  <2>. HIDE DEF r
  <2>. QED
    BY <2>1, <2>3, SameIdle, SameGrow DEF Same, r
<1>5. CASE n # 0
  <2>. DEFINE i == SubSeq(q, 1, n - 1)
              m == s.idleTimer \ {q[n]}
  <2>1. Max(Usable(s)) = n
    <3>1. n \in 1..n /\ \A j \in 1..n : n >= j
      BY <1>1, <1>5
    <3>2. \A k \in 1..n : (\A j \in 1..n : k >= j) => k = n
      BY <1>1, <3>1
    <3>. QED
      BY <1>3, <3>1, <3>2 DEF Max
  <2>2. /\ Usable(s) # {} /\ IdleTop(s) = q[n] /\ q[n] \in Worker /\ q[n] \in Idle(s)
        /\ q # <<>>
    BY <1>1, <1>2, <1>3, <1>5, <2>1 DEF IdleTop
  <2>3. IsInjective(i) /\ Range(i) = Idle(s) \ {q[n]}
    BY <1>1, <2>2, PopIdle DEF IdleInv, Idle
  <2>4. r = [s EXCEPT !.idleWorkers = i, !.idleTimer = m]
    BY <2>1, <2>2 DEF PopIdleWorker
  <2>5. m \subseteq Idle(s) \ {q[n]} /\ (s.destroyed => m = {})
    BY DEF IdleInv
  <2>6. /\ r.port = s.port /\ r.ready = s.ready /\ r.live = s.live /\ r.workers = s.workers
        /\ r.destroyed = s.destroyed /\ r.currentTask = s.currentTask
        /\ r.idleWorkers = i /\ r.idleTimer = m
    <3>. HIDE DEF i, m, r
    <3>. QED
      BY <2>4 DEF PoolState
  <2>. HIDE DEF r, i, m
  <2>7. Idle(r) = Idle(s) \ {q[n]}
    BY <2>3, <2>6 DEF Idle
  <2>. HIDE DEF q, n
  <2>8. IdleInv(r)
    BY <2>3, <2>5, <2>6, <2>7 DEF IdleInv
  <2>9. Grow(s, r)
    BY <2>6, <2>7 DEF Grow
  <2>10. Free(r, q[n])
    BY <2>2, <2>6, <2>7 DEF Free, IdleInv
  <2>. QED
    BY <2>2, <2>6, <2>8, <2>9, <2>10 DEF r
<1>. QED
  BY <1>1, <1>4, <1>5

\* A started thread is nobody's: not idle, not ready, its inbox empty.
LEMMA SpawnWorkerIdle ==
  ASSUME NEW s \in PoolState, IdleInv(s), s.live # Worker, NEW t
  PROVE  IdleInv(SpawnWorker(s, t)) /\ Grow(s, SpawnWorker(s, t))
<1>. DEFINE w == FreshWorker(s)
            r == SpawnWorker(s, t)
            W == s.workers \cup {w}
            L == s.live \cup {w}
            c == [s.currentTask EXCEPT ![w] = t]
            q == s.pendingTasks \cup ({t} \ {NoTask})
<1>1. w \in Worker /\ w \notin s.live
  <2>1. \E v \in Worker : v \notin s.live
    BY DEF PoolState
  <2>. QED
    BY <2>1 DEF FreshWorker
<1>. HIDE DEF w
<1>2. r = [s EXCEPT !.workers = W, !.live = L, !.currentTask = c, !.pendingTasks = q]
  BY DEF SpawnWorker, PoolState, w
<1>3. /\ r.port = s.port /\ r.ready = s.ready /\ r.live = L /\ r.workers = W
      /\ r.destroyed = s.destroyed /\ r.currentTask = c
      /\ r.idleWorkers = s.idleWorkers /\ r.idleTimer = s.idleTimer
  <2>. HIDE DEF W, L, c, q, r
  <2>. QED
    BY <1>2 DEF PoolState
<1>4. \A v \in Worker : v # w => c[v] = s.currentTask[v]
  BY DEF PoolState
<1>. HIDE DEF r, c
<1>5. Idle(r) = Idle(s) /\ Idle(s) \subseteq Worker
  BY <1>3, IdleWorkersType DEF Idle
<1>6. w \notin Idle(s)
  BY <1>1 DEF IdleInv
<1>7. IdleInv(r)
  BY <1>3, <1>4, <1>5, <1>6 DEF IdleInv
<1>8. Grow(s, r)
  BY <1>3, <1>5 DEF Grow
<1>. QED
  BY <1>7, <1>8 DEF r

\* What the threads have sent still fits after such a change, if those that
\* were started are booting.
LEMMA GrowLink ==
  ASSUME NEW s, NEW r, IdleInv(s), Grow(s, r), NEW h, NEW g,
         \A w \in Worker : Link(s, h[w], w),
         \A w \in Worker : g[w] = IF w \in r.live \ s.live THEN Booting ELSE h[w]
  PROVE  \A w \in Worker : Link(r, g[w], w)
<1>. SUFFICES ASSUME NEW w \in Worker  PROVE Link(r, g[w], w)
  OBVIOUS
<1>1. CASE w \in r.live \ s.live
  <2>1. g[w] = Booting /\ w \in r.workers /\ w \in r.live /\ w \notin r.ready
    BY <1>1 DEF Grow, IdleInv
  <2>2. Booting.out = <<>> /\ Booting.state = "booting"
    BY DEF Booting
  <2>. QED
    BY <2>1, <2>2 DEF Link
<1>2. CASE w \notin r.live \ s.live /\ w \in Idle(s)
  <2>1. g[w] = h[w] /\ Link(s, h[w], w)
    BY <1>2
  <2>2. w \in s.ready /\ w \in r.ready /\ w \in s.live /\ w \in r.live
    BY <1>2 DEF IdleInv, Grow
  <2>. QED
    BY <1>2, <2>1, <2>2 DEF Link
<1>3. CASE w \notin r.live \ s.live /\ w \notin Idle(s)
  <2>1. g[w] = h[w] /\ Link(s, h[w], w)
    BY <1>3
  <2>2. /\ r.port[w] = s.port[w] /\ w \notin Idle(r) /\ r.ready = s.ready
        /\ r.destroyed = s.destroyed /\ (w \in s.workers => w \in r.workers)
        /\ (w \in s.live <=> w \in r.live)
    BY <1>3 DEF Grow
  <2>. QED
    BY <1>3, <2>1, <2>2 DEF Link
<1>. QED
  BY <1>1, <1>2, <1>3

\* tryDispatch touches an idle worker or a new one.
LEMMA TryDispatchIdle ==
  ASSUME NEW s, TaskInv(s, {}), IdleInv(s), ~s.destroyed, s.workers \subseteq s.live,
         s.taskQueue # {} /\ Cardinality(s.workers) < MaxThreads => s.live # Worker
  PROVE  IdleInv(TryDispatch(s)) /\ Grow(s, TryDispatch(s))
<1>. DEFINE t == First(s, Valid(s))
            p == PopAll(s, UpTo(s, t))
            d == PopIdleWorker(p)
<1>0. s \in PoolState
  BY DEF TaskInv
<1>1. CASE Valid(s) = {}
  <2>1. TryDispatch(s) = SkipAborted(s)
    BY <1>1 DEF TryDispatch
  <2>. QED
    BY <1>0, <2>1, SkipAbortedSame, SameIdle, SameGrow
<1>2. CASE Valid(s) # {}
  <2>1. /\ t \in Task /\ t \in s.taskQueue /\ TaskInv(p, {t}) /\ Quiet(s, p)
        /\ Usable(p) = Usable(s) /\ IdleTop(p) = IdleTop(s)
    BY <1>2, PopFirstInv
  <2>2. Same(s, p)
    BY <1>0, PopAllSame
  <2>. HIDE DEF t, p
  <2>3. IdleInv(p) /\ Grow(s, p) /\ Idle(p) = Idle(s) /\ p \in PoolState
    BY <2>1, <2>2, SameIdle, SameGrow DEF Same, Idle, TaskInv
  <2>4. /\ IdleInv(d) /\ Grow(p, d) /\ d.live = s.live /\ d.workers = s.workers
        /\ Usable(s) # {} => /\ IdleTop(s) \in Worker /\ IdleTop(s) \in Idle(s)
                             /\ Free(d, IdleTop(s))
    BY <2>1, <2>2, <2>3, PopIdleWorkerIdle DEF Same
  <2>5. TaskInv(d, {t}) /\ Quiet(p, d)
    BY <2>1, PopIdleWorkerInv
  <2>. HIDE DEF d
  <2>6. Grow(s, d) /\ d \in PoolState /\ ~d.destroyed
    <3>1. d \in PoolState
      BY <2>5 DEF TaskInv
    <3>2. Grow(s, d)
      BY <2>3, <2>4, GrowTransitive
    <3>. QED
      BY <3>1, <3>2 DEF Grow
  <2>7. CASE Usable(s) # {}
    <3>. DEFINE e == DispatchTask(d, IdleTop(s), t)
    <3>1. TaskInv(e, {})
      BY <2>1, <2>4, <2>5, <2>7, DispatchTaskInv
    <3>2. IdleInv(e) /\ Only(d, e, IdleTop(s))
      BY <2>1, <2>4, <2>5, <2>6, <2>7, DispatchTaskIdle
    <3>3. TryDispatch(s) = SkipAborted(e)
      BY <1>2, <2>7 DEF TryDispatch, t, p, d
    <3>. HIDE DEF e
    <3>4. Grow(s, e)
      BY <2>4, <2>6, <2>7, <3>2 DEF Grow, Only
    <3>5. Same(e, SkipAborted(e))
      <4>1. e \in PoolState
        BY <3>1 DEF TaskInv
      <4>. QED
        BY <4>1, SkipAbortedSame
    <3>. QED
      BY <3>2, <3>3, <3>4, <3>5, SameIdle, SameGrow, GrowTransitive
  <2>8. CASE Usable(s) = {} /\ Cardinality(s.workers) < MaxThreads
    <3>. DEFINE e == SpawnWorker(d, t)
    <3>1. d.live # Worker /\ d.workers \subseteq d.live
      BY <2>1, <2>4, <2>8
    <3>2. TaskInv(e, {t} \ {t})
      BY <2>5, <3>1, SpawnWorkerInv
    <3>3. IdleInv(e) /\ Grow(d, e)
      BY <2>4, <2>6, <3>1, SpawnWorkerIdle
    <3>4. TryDispatch(s) = SkipAborted(e)
      BY <1>2, <2>8 DEF TryDispatch, t, p, d
    <3>. HIDE DEF e
    <3>5. Same(e, SkipAborted(e))
      <4>1. e \in PoolState
        BY <3>2 DEF TaskInv
      <4>. QED
        BY <4>1, SkipAbortedSame
    <3>. QED
      BY <2>6, <3>3, <3>4, <3>5, SameIdle, SameGrow, GrowTransitive
  <2>9. CASE Usable(s) = {} /\ ~(Cardinality(s.workers) < MaxThreads)
    <3>. DEFINE e == PopIdleWorker(s)
    <3>1. IdleInv(e) /\ Grow(s, e)
      BY <1>0, PopIdleWorkerIdle
    <3>2. TaskInv(e, {})
      BY PopIdleWorkerInv
    <3>3. TryDispatch(s) = SkipAborted(e)
      BY <1>2, <2>9 DEF TryDispatch
    <3>. HIDE DEF e
    <3>4. Same(e, SkipAborted(e))
      <4>1. e \in PoolState
        BY <3>2 DEF TaskInv
      <4>. QED
        BY <4>1, SkipAbortedSame
    <3>. QED
      BY <3>1, <3>3, <3>4, SameIdle, SameGrow, GrowTransitive
  <2>. QED
    BY <2>7, <2>8, <2>9
<1>. QED
  BY <1>1, <1>2

-----------------------------------------------------------------------------
(* The actions. *)

\* A new task touches no worker.
LEMMA NewTaskSame ==
  ASSUME NEW s \in PoolState, NEW p, NEW cloneable
  PROVE  Same(s, NewTask(s, p, cloneable))
<1>. DEFINE t == s.nextTaskId + 1
            f == [s.priority EXCEPT ![t] = p]
            g == [s.promise EXCEPT ![t] = "pending"]
            u == IF cloneable THEN s.uncloneable ELSE s.uncloneable \cup {t}
<1>1. NewTask(s, p, cloneable) =
        [s EXCEPT !.nextTaskId = t, !.priority = f, !.promise = g, !.uncloneable = u]
  BY DEF NewTask, PoolState
<1>. HIDE DEF t, f, g, u
<1>. QED
  BY <1>1 DEF Same, PoolState

\* run(), on each of its paths, preserves ThreadInv.
LEMMA RunThread ==
  ASSUME Inv, ThreadInv, NEW p \in Priority, NEW cloneable \in Cloneable,
         RunOnIdle(p, cloneable) \/ RunOnNewThread(p, cloneable) \/ RunQueued(p, cloneable)
  PROVE  ThreadInv'
<1>. DEFINE s == NewTask(pool, p, cloneable)
            t == s.nextTaskId
            d == PopIdleWorker(s)
            q == [s EXCEPT !.taskQueue = @ \cup {t}]
<1>1. /\ TaskInv(s, {t}) /\ t \in Task /\ Quiet(pool, s) /\ t \notin s.aborted
      /\ s.taskQueue = pool.taskQueue /\ Usable(s) = Usable(pool)
  BY NewTaskInv, OptionsAssumption DEF Inv, RunOnIdle, RunOnNewThread, RunQueued, CanRun
<1>2. pool \in PoolState /\ Same(pool, s)
  BY NewTaskSame DEF Inv, TaskInv
<1>3. ~pool.destroyed /\ pool.workers \subseteq pool.live /\ IdleInv(pool)
      /\ (Cardinality(pool.workers) < MaxThreads => pool.live # Worker)
  BY DEF Inv, SlotInv, ThreadInv, RunOnIdle, RunOnNewThread, RunQueued, CanRun
<1>. HIDE DEF s
<1>4. s \in PoolState /\ IdleInv(s) /\ Grow(pool, s) /\ Idle(s) = Idle(pool)
      /\ ~s.destroyed /\ s.live = pool.live /\ s.workers = pool.workers
  BY <1>1, <1>2, <1>3, SameIdle, SameGrow DEF Same, Idle, TaskInv
<1>5. /\ IdleInv(d) /\ Grow(s, d) /\ d.live = s.live /\ d.workers = s.workers
      /\ Usable(s) # {} => /\ IdleTop(s) \in Worker /\ IdleTop(s) \in Idle(s)
                           /\ Free(d, IdleTop(s))
  BY <1>4, PopIdleWorkerIdle
<1>6. TaskInv(d, {t})
  BY <1>1, PopIdleWorkerInv
<1>. HIDE DEF d
<1>7. d \in PoolState /\ Grow(pool, d) /\ ~d.destroyed
  <2>1. d \in PoolState
    BY <1>6 DEF TaskInv
  <2>2. Grow(pool, d)
    BY <1>4, <1>5, GrowTransitive
  <2>. QED
    BY <1>3, <2>1, <2>2 DEF Grow
<1>. HIDE DEF t
<1>8. ASSUME IdleInv(pool'), Grow(pool, pool'),
             \A w \in Worker : thread'[w] = IF w \in pool'.live \ pool.live
                                            THEN Booting ELSE thread[w]
      PROVE  ThreadInv'
  <2>1. \A w \in Worker : Link(pool, thread[w], w)
    BY DEF ThreadInv
  <2>2. \A w \in Worker : Link(pool', thread'[w], w)
    BY <1>3, <1>8, <2>1, GrowLink
  <2>. QED
    BY <1>8, <2>2 DEF ThreadInv
<1>9. CASE RunOnIdle(p, cloneable)
  <2>1. pool' = DispatchTask(d, IdleTop(s), t) /\ thread' = thread /\ Usable(s) # {}
    BY <1>1, <1>9 DEF RunOnIdle, s, t, d
  <2>2. IdleInv(pool') /\ Only(d, pool', IdleTop(s))
    BY <1>1, <1>5, <1>6, <1>7, <2>1, DispatchTaskIdle
  <2>3. Grow(pool, pool') /\ pool'.live = pool.live
    BY <1>4, <1>5, <1>7, <2>1, <2>2 DEF Grow, Only
  <2>. QED
    BY <1>8, <2>1, <2>2, <2>3
<1>10. CASE RunOnNewThread(p, cloneable)
  <2>1. pool' = SpawnWorker(d, t) /\ StartThreads
    BY <1>10 DEF RunOnNewThread, s, t, d
  <2>2. d.live # Worker
    BY <1>3, <1>4, <1>5, <1>10 DEF RunOnNewThread
  <2>3. IdleInv(pool') /\ Grow(d, pool')
    BY <1>5, <1>7, <2>1, <2>2, SpawnWorkerIdle
  <2>. QED
    BY <1>7, <1>8, <2>1, <2>3, GrowTransitive DEF StartThreads
<1>11. CASE RunQueued(p, cloneable)
  <2>1. pool' = TryDispatch(q) /\ StartThreads
    BY <1>11 DEF RunQueued, s, t
  <2>2. TaskInv(q, {})
    BY <1>1, PushTaskInv
  <2>3. Same(s, q)
    BY <1>4 DEF Same, PoolState
  <2>. HIDE DEF q
  <2>4. IdleInv(q) /\ Grow(s, q)
    BY <1>4, <2>3, SameIdle, SameGrow
  <2>5. /\ ~q.destroyed /\ q.workers \subseteq q.live
        /\ Cardinality(q.workers) < MaxThreads => q.live # Worker
    BY <1>3, <1>4, <2>3 DEF Same
  <2>6. IdleInv(pool') /\ Grow(q, pool')
    BY <2>1, <2>2, <2>4, <2>5, TryDispatchIdle
  <2>7. Grow(pool, pool')
    BY <1>4, <2>4, <2>6, GrowTransitive
  <2>. QED
    BY <1>8, <2>1, <2>6, <2>7 DEF StartThreads
<1>. QED
  BY <1>9, <1>10, <1>11

\* abort(), drain(), a destroy() that returns
LEMMA SameThread ==
  ASSUME ThreadInv, Same(pool, pool'), thread' = thread
  PROVE  ThreadInv'
<1>1. IdleInv(pool') /\ Grow(pool, pool') /\ pool'.live = pool.live
  BY SameIdle, SameGrow DEF ThreadInv, Same
<1>2. \A w \in Worker : Link(pool', thread'[w], w)
  <2>1. \A w \in Worker : thread'[w] = IF w \in pool'.live \ pool.live THEN Booting ELSE thread[w]
    BY <1>1
  <2>2. IdleInv(pool) /\ \A w \in Worker : Link(pool, thread[w], w)
    BY DEF ThreadInv
  <2>. QED
    BY <1>1, <2>1, <2>2, GrowLink
<1>. QED
  BY <1>1, <1>2 DEF ThreadInv

\* An abort touches no worker.
LEMMA AbortThread ==
  ASSUME Inv, ThreadInv, NEW t \in Task, Abort(t)
  PROVE  ThreadInv'
<1>. DEFINE a == pool.aborted \cup {t}
            g == [pool.promise EXCEPT ![t] = "aborted"]
            n == IF t \in pool.pendingTasks THEN pool.abortedQueued ELSE pool.abortedQueued + 1
<1>1. pool \in PoolState /\ thread' = thread
  BY DEF Inv, TaskInv, Abort
<1>2. pool' = [pool EXCEPT !.aborted = a, !.promise = g, !.abortedQueued = n]
  BY <1>1 DEF Abort, PoolState
<1>. HIDE DEF a, g, n
<1>3. Same(pool, pool')
  BY <1>1, <1>2 DEF Same, PoolState
<1>. QED
  BY <1>1, <1>3, SameThread

\* drain(), and a destroy() that returns, touch no worker.
LEMMA DrainThread ==
  ASSUME Inv, ThreadInv, Drain \/ \E S \in SUBSET Worker : DestroyDone(S)
  PROVE  ThreadInv'
<1>1. pool \in PoolState /\ thread' = thread
  BY DEF Inv, TaskInv, Drain, DestroyDone
<1>2. Same(pool, pool')
  <2>1. CASE Drain
    BY <1>1, <2>1 DEF Drain, Same, PoolState
  <2>2. ASSUME NEW S \in SUBSET Worker, DestroyDone(S)  PROVE Same(pool, pool')
    <3>. DEFINE g == pool.destroying \ {S}
    <3>1. pool' = [pool EXCEPT !.destroying = g, !.drainDeferred = FALSE]
      BY <2>2 DEF DestroyDone
    <3>. HIDE DEF g
    <3>. QED
      BY <1>1, <3>1 DEF Same, PoolState
  <2>. QED
    BY <2>1, <2>2
<1>. QED
  BY <1>1, <1>2, SameThread

\* destroy() disarms every timer: idle workers are in kWorkers.
LEMMA DestroyThread ==
  ASSUME Inv, ThreadInv, Destroy
  PROVE  ThreadInv'
<1>. DEFINE R == pool.taskQueue \cup pool.pendingTasks
            s == Settle(pool, R, "destroyed")
            m == s.idleTimer \ pool.workers
            e == s.terminating \cup pool.workers
            g == s.destroying \cup {pool.workers}
<1>1. pool \in PoolState /\ thread' = thread
  BY DEF Inv, TaskInv, Destroy
<1>2. Same(pool, s)
  BY <1>1, SettleSame
<1>3. s \in PoolState
  <2>1. TaskInv(s, {} \ R)
    <3>. HIDE DEF R
    <3>. QED
      BY SettleInv DEF Inv, Outcome, Rejection
  <2>. HIDE DEF s
  <2>. QED
    BY <2>1 DEF TaskInv
<1>4. pool' = [s EXCEPT !.destroyed = TRUE, !.taskQueue = {}, !.abortedQueued = 0,
                        !.pendingTasks = {}, !.idleTimer = m, !.terminating = e,
                        !.workers = {}, !.idleWorkers = <<>>, !.destroying = g]
  BY DEF Destroy
<1>5. m = {}
  <2>1. pool.idleTimer \subseteq pool.workers
    BY DEF ThreadInv, IdleInv
  <2>. QED
    BY <1>2, <2>1 DEF Same
<1>. HIDE DEF s, m, e, g
<1>6. /\ pool'.port = pool.port /\ pool'.ready = pool.ready /\ pool'.live = pool.live
      /\ pool'.destroyed = TRUE /\ pool'.currentTask = pool.currentTask
      /\ pool'.idleWorkers = <<>> /\ pool'.idleTimer = m
  <2>1. /\ pool'.port = s.port /\ pool'.ready = s.ready /\ pool'.live = s.live
        /\ pool'.destroyed = TRUE /\ pool'.currentTask = s.currentTask
        /\ pool'.idleWorkers = <<>> /\ pool'.idleTimer = m
    BY <1>3, <1>4 DEF PoolState
  <2>. QED
    BY <1>2, <2>1 DEF Same
<1>7. Idle(pool') = {} /\ IsInjective(pool'.idleWorkers)
  BY <1>6 DEF Idle, Range, IsInjective
<1>8. IdleInv(pool')
  BY <1>5, <1>6, <1>7 DEF ThreadInv, IdleInv
<1>9. \A w \in Worker : Link(pool', thread'[w], w)
  BY <1>1, <1>6, <1>7 DEF ThreadInv, Link
<1>. QED
  BY <1>8, <1>9 DEF ThreadInv

\* The timer's worker is idle, so it is told to end with an empty inbox.
LEMMA TerminateIdleWorkerThread ==
  ASSUME Inv, ThreadInv, NEW w \in Worker, TerminateIdleWorker(w)
  PROVE  ThreadInv' /\ pool.idleWorkers # <<>>
<1>. DEFINE m == pool.idleTimer \ {w}
            W == pool.workers \ {w}
            i == Splice(pool.idleWorkers, w)
            p == [pool.port EXCEPT ![w] = Append(@, MSG_SHUTDOWN)]
<1>1. /\ pool \in PoolState /\ thread' = thread /\ IdleInv(pool)
      /\ pool.port \in [Worker -> Seq(Task \cup {MSG_SHUTDOWN})]
  BY DEF Inv, TaskInv, TerminateIdleWorker, ThreadInv, PoolState
<1>2. w \in Idle(pool) /\ w \in pool.ready /\ w \in pool.live /\ pool.port[w] = <<>>
  BY <1>1 DEF TerminateIdleWorker, IdleInv
<1>3. pool.idleWorkers # <<>>
  BY <1>2 DEF Idle, Range
<1>4. CASE pool' = [pool EXCEPT !.idleTimer = m]
  <2>1. /\ pool'.port = pool.port /\ pool'.ready = pool.ready /\ pool'.live = pool.live
        /\ pool'.workers = pool.workers
        /\ pool'.destroyed = pool.destroyed /\ pool'.currentTask = pool.currentTask
        /\ pool'.idleWorkers = pool.idleWorkers /\ pool'.idleTimer = m
    <3>. HIDE DEF m
    <3>. QED
      BY <1>1, <1>4 DEF PoolState
  <2>2. Idle(pool') = Idle(pool)
    BY <2>1 DEF Idle
  <2>3. IdleInv(pool')
    BY <1>1, <2>1, <2>2 DEF IdleInv
  <2>4. \A v \in Worker : Link(pool', thread'[v], v)
    BY <1>1, <2>1, <2>2 DEF ThreadInv, Link
  <2>. QED
    BY <1>3, <2>3, <2>4 DEF ThreadInv
<1>5. CASE pool' = [pool EXCEPT !.idleTimer = m, !.workers = W, !.idleWorkers = i, !.port = p]
  <2>1. /\ pool'.port = p /\ pool'.ready = pool.ready /\ pool'.live = pool.live
        /\ pool'.workers = W
        /\ pool'.destroyed = pool.destroyed /\ pool'.currentTask = pool.currentTask
        /\ pool'.idleWorkers = i /\ pool'.idleTimer = m
    <3>. HIDE DEF m, W, i, p
    <3>. QED
      BY <1>1, <1>5 DEF PoolState
  <2>2. IsInjective(i) /\ Range(i) = Idle(pool) \ {w}
    BY <1>1, SpliceIdle DEF IdleInv, Idle, PoolState
  <2>3. p[w] = ToldToEnd /\ \A v \in Worker : v # w => p[v] = pool.port[v]
    BY <1>1, <1>2 DEF ToldToEnd
  <2>4. ToldToEnd # <<>> /\ Len(ToldToEnd) = 1
    BY DEF ToldToEnd
  <2>5. Idle(pool') = Idle(pool) \ {w} /\ Idle(pool) \subseteq Worker
    BY <1>1, <2>1, <2>2, IdleWorkersType DEF Idle
  <2>. HIDE DEF i, p
  <2>6. IdleInv(pool')
    <3>1. \A v \in Idle(pool') :
            /\ v \in pool'.ready /\ v \in pool'.live /\ pool'.port[v] = <<>>
            /\ pool'.currentTask[v] = NoTask
            /\ v \in pool'.workers \/ pool'.destroyed
      BY <1>1, <2>1, <2>3, <2>5 DEF IdleInv
    <3>2. \A v \in Worker : pool'.port[v] # <<>> =>
            /\ v \in pool'.ready /\ Len(pool'.port[v]) = 1
            /\ pool'.port[v] # ToldToEnd => v \in pool'.workers \/ pool'.destroyed
      BY <1>1, <1>2, <2>1, <2>3, <2>4 DEF IdleInv
    <3>3. /\ IsInjective(pool'.idleWorkers) /\ pool'.idleTimer \subseteq Idle(pool')
          /\ pool'.destroyed => pool'.idleTimer = {}
          /\ pool'.ready \subseteq pool'.live
          /\ \A v \in Worker \ pool'.live : pool'.currentTask[v] = NoTask
      BY <1>1, <2>1, <2>2, <2>5 DEF IdleInv
    <3>. QED
      BY <3>1, <3>2, <3>3 DEF IdleInv
  <2>7. ASSUME NEW v \in Worker  PROVE Link(pool', thread'[v], v)
    <3>1. Link(pool, thread[v], v) /\ thread' = thread
      BY <1>1 DEF ThreadInv
    <3>2. CASE v = w
      BY <1>2, <2>1, <3>1, <3>2 DEF Link
    <3>3. CASE v # w
      BY <2>1, <2>3, <2>5, <3>1, <3>3 DEF Link
    <3>. QED
      BY <3>2, <3>3
  <2>. QED
    BY <1>3, <2>6, <2>7 DEF ThreadInv
<1>6. \/ pool' = [pool EXCEPT !.idleTimer = m]
      \/ pool' = [pool EXCEPT !.idleTimer = m, !.workers = W, !.idleWorkers = i, !.port = p]
  BY <1>1 DEF TerminateIdleWorker, PoolState
<1>. QED
  BY <1>4, <1>5, <1>6

\* A handler that touches w only, while w has nothing else under way.
LEMMA OnlyLink ==
  ASSUME NEW s, NEW r, NEW w \in Worker, Only(s, r, w), NEW h, NEW v \in Worker, v # w,
         Link(s, h, v)
  PROVE  Link(r, h, v)
  BY DEF Only, Link

\* The message is the only one of its thread, and its worker is not idle.
LEMMA OnMessageThread ==
  ASSUME Inv, ThreadInv, NEW w \in Worker, OnMessage(w)
  PROVE  ThreadInv'
<1>. DEFINE o == thread[w].out
            h == thread'[w]
<1>1. /\ pool \in PoolState /\ TaskInv(pool, {}) /\ IdleInv(pool)
      /\ pool.destroyed => pool.workers = {}
      /\ Link(pool, thread[w], w) /\ thread \in [Worker -> ThreadState]
      /\ \A v \in Worker : Link(pool, thread[v], v)
  BY DEF Inv, TaskInv, SlotInv, ThreadInv
<1>2. o \in Seq(OutboundMessage) /\ o # <<>> /\ Len(o) = 1 /\ Head(o) = o[1]
      /\ o[1] \in OutboundMessage
  BY <1>1 DEF OnMessage, ThreadState, Link
<1>3. h.out = <<>> /\ h.state = thread[w].state /\ \A v \in Worker : v # w => thread'[v] = thread[v]
  BY <1>1, <1>2 DEF OnMessage, ThreadState
<1>4. /\ pool.port[w] = <<>> /\ w \notin Idle(pool) /\ w \in pool.live
      /\ w \in pool.workers \/ pool.destroyed
      /\ thread[w].state \notin {"none", "booting"}
      /\ o[1].tag = "READY" <=> w \notin pool.ready
  BY <1>1, <1>2 DEF Link
<1>5. pool' = HandleWorkerMessage(pool, w, o[1])
  BY <1>2 DEF OnMessage
<1>. HIDE DEF o, h
<1>6. SUFFICES ASSUME NEW r, IdleInv(pool'), Only(r, pool', w), r.ready = pool.ready \cup {w},
                      r.live = pool.live, r.workers = pool.workers,
                      r.destroyed = pool.destroyed, r.port = pool.port,
                      Idle(r) = Idle(pool)
               PROVE  ThreadInv'
  <2>1. CASE o[1].tag = "READY"
    <3>. DEFINE y == pool.ready \cup {w}
                r == [pool EXCEPT !.ready = y]
                t == pool.currentTask[w]
    <3>1. y \in SUBSET Worker /\ t \in Task \cup {NoTask}
      BY <1>1 DEF PoolState
    <3>2. /\ r \in PoolState
          /\ r.taskQueue = pool.taskQueue /\ r.abortedQueued = pool.abortedQueued
          /\ r.aborted = pool.aborted /\ r.promise = pool.promise
          /\ r.pendingTasks = pool.pendingTasks /\ r.nextTaskId = pool.nextTaskId
          /\ r.destroyed = pool.destroyed /\ r.workers = pool.workers /\ r.live = pool.live
          /\ r.idleWorkers = pool.idleWorkers /\ r.idleTimer = pool.idleTimer
          /\ r.currentTask = pool.currentTask /\ r.port = pool.port /\ r.ready = y
      <4>. HIDE DEF y
      <4>. QED
        BY <1>1, <3>1 DEF PoolState
    <3>3. HandleReady(pool, w) = IF t = NoTask THEN MarkWorkerIdle(r, w)
                                 ELSE IF t \in pool.aborted THEN MarkWorkerIdle(Unassign(r, w), w)
                                 ELSE PostTask(r, w, t)
      BY DEF HandleReady
    <3>. HIDE DEF r
    <3>4. TaskInv(r, {}) /\ (r.destroyed => r.workers = {})
      BY <1>1, <3>2 DEF TaskInv
    <3>5. Idle(r) = Idle(pool)
      BY <3>2 DEF Idle
    <3>6. IdleInv(r) /\ Free(r, w)
      BY <1>1, <1>4, <3>2, <3>5 DEF IdleInv, Free
    <3>7. IdleInv(pool') /\ Only(r, pool', w)
      <4>1. pool' = HandleReady(pool, w)
        BY <1>5, <2>1 DEF HandleWorkerMessage
      <4>2. CASE t = NoTask
        BY <3>2, <3>3, <3>4, <3>6, <4>1, <4>2, MarkWorkerIdleIdle
      <4>3. CASE t # NoTask /\ t \in pool.aborted
        <5>. DEFINE u == Unassign(r, w)
        <5>1. pool' = MarkWorkerIdle(u, w)
          BY <3>3, <4>1, <4>3
        <5>2. /\ IdleInv(u) /\ Only(r, u, w) /\ Free(u, w)
              /\ u.currentTask = [r.currentTask EXCEPT ![w] = NoTask]
          BY <3>2, <3>6, UnassignIdle
        <5>3. TaskInv(u, {})
          <6>. DEFINE c == r.currentTask[w]
                      T == {} \cup ({c} \cap r.pendingTasks)
          <6>1. TaskInv(u, T) /\ u.promise = r.promise
            BY <3>4, UnassignInv
          <6>2. r.promise[c] # "pending"
            BY <1>1, <3>2, <4>3 DEF TaskInv
          <6>. HIDE DEF u, c
          <6>3. TaskInv(u, T \ {c})
            BY <6>1, <6>2, AnsweredInv
          <6>4. T \ {c} = {}
            OBVIOUS
          <6>. QED
            BY <6>3, <6>4
        <5>. HIDE DEF u
        <5>4. u.currentTask[w] = NoTask /\ (u.destroyed => u.workers = {})
          BY <3>2, <3>4, <5>2 DEF Only, PoolState
        <5>. QED
          BY <5>1, <5>2, <5>3, <5>4, MarkWorkerIdleIdle, OnlyTransitive
      <4>4. CASE t # NoTask /\ t \notin pool.aborted
        <5>1. pool' = PostTask(r, w, t) /\ t \in Task /\ r.currentTask[w] = t
          BY <3>1, <3>2, <3>3, <4>1, <4>4
        <5>. HIDE DEF t
        <5>. QED
          BY <3>4, <3>6, <5>1, PostTaskIdle
      <4>. QED
        BY <4>2, <4>3, <4>4
    <3>. QED
      BY <1>6, <3>2, <3>5, <3>7
  <2>2. CASE o[1].tag # "READY"
    <3>1. PICK outcome \in {"fulfilled", "taskError"} :
            pool' = HandleReply(pool, w, o[1].taskId, outcome)
      BY <1>2, <1>5, <2>2 DEF HandleWorkerMessage, OutboundMessage
    <3>. DEFINE t == o[1].taskId
                q == pool.pendingTasks \ {t}
                c == [pool.currentTask EXCEPT ![w] = NoTask]
                a == [pool EXCEPT !.pendingTasks = q, !.currentTask = c]
                T == {t} \cap pool.pendingTasks
                b == Settle(a, T, outcome)
    <3>2. q \in SUBSET Task /\ c \in [Worker -> Task \cup {NoTask}] /\ c[w] = NoTask
          /\ \A v \in Worker : v # w => c[v] = pool.currentTask[v]
      BY <1>1 DEF PoolState
    <3>3. pool' = MarkWorkerIdle(b, w)
      BY <1>1, <3>1 DEF HandleReply, PoolState
    <3>. HIDE DEF t
    <3>4. /\ a \in PoolState /\ a.pendingTasks = q /\ a.currentTask = c
          /\ a.taskQueue = pool.taskQueue /\ a.abortedQueued = pool.abortedQueued
          /\ a.aborted = pool.aborted /\ a.promise = pool.promise
          /\ a.nextTaskId = pool.nextTaskId
          /\ a.destroyed = pool.destroyed /\ a.workers = pool.workers /\ a.live = pool.live
          /\ a.idleWorkers = pool.idleWorkers /\ a.idleTimer = pool.idleTimer
          /\ a.port = pool.port /\ a.ready = pool.ready
      <4>. HIDE DEF q, c
      <4>. QED
        BY <1>1, <3>2 DEF PoolState
    <3>. HIDE DEF a, c
    <3>5. TaskInv(a, T)
      BY <1>1, <3>4 DEF TaskInv
    <3>6. Idle(a) = Idle(pool) /\ Idle(pool) \subseteq Worker
      BY <1>1, <3>4, IdleWorkersType DEF Idle
    <3>7. IdleInv(a) /\ Free(a, w)
      BY <1>1, <1>4, <2>2, <3>2, <3>4, <3>6 DEF IdleInv, Free
    <3>8. Same(a, b)
      BY <3>4, SettleSame
    <3>. HIDE DEF T
    <3>9. TaskInv(b, T \ T)
      BY <3>5, SettleInv DEF Outcome, Rejection
    <3>. HIDE DEF b
    <3>10. TaskInv(b, {}) /\ IdleInv(b) /\ Free(b, w) /\ Only(a, b, w)
      BY <3>7, <3>8, <3>9, SameIdle
    <3>11. b.currentTask[w] = NoTask /\ (b.destroyed => b.workers = {})
      BY <1>1, <3>2, <3>4, <3>8 DEF Same
    <3>12. IdleInv(pool') /\ Only(a, pool', w)
      BY <3>3, <3>10, <3>11, MarkWorkerIdleIdle, OnlyTransitive
    <3>13. a.ready = pool.ready \cup {w}
      BY <1>4, <2>2, <3>4
    <3>. QED
      BY <1>6, <3>4, <3>6, <3>12, <3>13
  <2>. QED
    BY <2>1, <2>2
<1>7. ASSUME NEW v \in Worker  PROVE Link(pool', thread'[v], v)
  <2>1. CASE v = w
    <3>1. w \in pool'.live /\ w \in pool'.ready
      BY <1>4, <1>6 DEF Only
    <3>. QED
      BY <1>3, <1>4, <2>1, <3>1 DEF Link, h
  <2>2. CASE v # w
    <3>1. Link(pool, thread[v], v)
      BY <1>1
    <3>2. v \in r.ready <=> v \in pool.ready
      BY <1>6, <2>2
    <3>3. Link(r, thread[v], v)
      BY <1>6, <3>1, <3>2 DEF Link
    <3>4. Link(pool', thread[v], v)
      BY <1>6, <2>2, <3>3, OnlyLink
    <3>. QED
      BY <1>3, <2>2, <3>4
  <2>. QED
    BY <2>1, <2>2
<1>. QED
  BY <1>6, <1>7 DEF ThreadInv

\* A worker that loses its task keeps IdleInv.
LEMMA DropsIdle ==
  ASSUME NEW s \in PoolState, NEW r, NEW w \in Worker, IdleInv(s), Drops(s, r, w)
  PROVE  IdleInv(r) /\ Grow(s, r)
<1>1. Idle(r) = Idle(s) /\ Idle(s) \subseteq Worker
  BY IdleWorkersType DEF Drops, Idle
<1>2. IdleInv(r)
  BY <1>1 DEF IdleInv, Drops
<1>3. Grow(s, r)
  BY <1>1 DEF Grow, Drops
<1>. QED
  BY <1>2, <1>3

\* Drops, then Same.
LEMMA DropsSame ==
  ASSUME NEW s, NEW r, NEW q, NEW w \in Worker, Drops(s, r, w), Same(r, q)
  PROVE  Drops(s, q, w)
  BY DEF Drops, Same

\* Unassign drops the task of its worker.
LEMMA UnassignDrops ==
  ASSUME NEW s, TaskInv(s, {}), NEW w \in Worker
  PROVE  LET r == Unassign(s, w)
         IN  Drops(s, r, w) /\ r.currentTask[w] = NoTask /\ r \in PoolState
<1>. DEFINE c == [s.currentTask EXCEPT ![w] = NoTask]
            q == s.pendingTasks \ {s.currentTask[w]}
            r == Unassign(s, w)
<1>0. s \in PoolState
  BY DEF TaskInv
<1>1. r = [s EXCEPT !.currentTask = c, !.pendingTasks = q]
  BY <1>0 DEF Unassign, PoolState
<1>2. c \in [Worker -> Task \cup {NoTask}] /\ q \in SUBSET Task
      /\ c[w] = NoTask /\ \A v \in Worker : v # w => c[v] = s.currentTask[v]
  BY <1>0 DEF PoolState
<1>. HIDE DEF c, q, r
<1>3. /\ r.port = s.port /\ r.ready = s.ready /\ r.live = s.live /\ r.workers = s.workers
      /\ r.destroyed = s.destroyed /\ r.currentTask = c /\ r \in PoolState
      /\ r.idleWorkers = s.idleWorkers /\ r.idleTimer = s.idleTimer
  BY <1>0, <1>1, <1>2 DEF PoolState
<1>. QED
  BY <1>2, <1>3 DEF Drops, r

\* failStartup drops the task of its worker at most.
LEMMA FailStartupDrops ==
  ASSUME NEW s, TaskInv(s, {}), NEW w \in Worker, NEW why
  PROVE  Drops(s, FailStartup(s, w, why), w)
<1>1. CASE w \in s.failed
  BY <1>1 DEF FailStartup, Drops
<1>2. CASE w \notin s.failed
  <2>. DEFINE u == Unassign(s, w)
              F == u.failed \cup {w}
              none == {}
              zero == 0
              d == [u EXCEPT !.failed = F, !.taskQueue = none, !.abortedQueued = zero]
              R == {s.currentTask[w]} \cup s.taskQueue
  <2>1. Drops(s, u, w) /\ u \in PoolState
    BY UnassignDrops
  <2>2. FailStartup(s, w, why) = Settle(d, R, why)
    BY <1>2 DEF FailStartup
  <2>. HIDE DEF u
  <2>3. F \in SUBSET Worker /\ none \in SUBSET Task /\ zero \in Int
    BY <2>1 DEF PoolState
  <2>. HIDE DEF F, none, zero
  <2>4. d \in PoolState /\ Same(u, d)
    BY <2>1, <2>3 DEF PoolState, Same
  <2>. HIDE DEF d
  <2>5. Same(u, Settle(d, R, why))
    BY <2>4, SettleSame, SameTransitive
  <2>. QED
    BY <2>1, <2>2, <2>5, DropsSame
<1>. QED
  BY <1>1, <1>2

\* handleWorkerError drops the task of its worker at most.
LEMMA HandleWorkerErrorDrops ==
  ASSUME NEW s, TaskInv(s, {}), NEW w \in Worker
  PROVE  Drops(s, HandleWorkerError(s, w), w)
<1>1. CASE w \notin s.ready
  BY <1>1, FailStartupDrops DEF HandleWorkerError
<1>2. CASE w \in s.ready
  <2>. DEFINE u == Unassign(s, w)
  <2>1. Drops(s, u, w) /\ u \in PoolState
    BY UnassignDrops
  <2>2. HandleWorkerError(s, w) = Settle(u, {s.currentTask[w]}, "workerError")
    BY <1>2 DEF HandleWorkerError
  <2>. HIDE DEF u
  <2>. QED
    BY <2>1, <2>2, SettleSame, DropsSame
<1>. QED
  BY <1>1, <1>2

\* An error event preserves ThreadInv, before or after the thread's messages.
LEMMA OnErrorThread ==
  ASSUME Inv, ThreadInv, NEW w \in Worker, OnError(w)
  PROVE  ThreadInv'
<1>1. /\ pool \in PoolState /\ TaskInv(pool, {}) /\ IdleInv(pool)
      /\ \A v \in Worker : Link(pool, thread[v], v)
  BY DEF Inv, TaskInv, ThreadInv
<1>2. Drops(pool, pool', w)
  BY <1>1, HandleWorkerErrorDrops DEF OnError
<1>3. IdleInv(pool') /\ Grow(pool, pool')
  BY <1>1, <1>2, DropsIdle
<1>4. \A v \in Worker : thread[v] = IF v \in pool'.live \ pool.live THEN Booting ELSE thread[v]
  BY <1>2 DEF Drops
<1>5. \A v \in Worker : Link(pool', thread[v], v)
  BY <1>1, <1>3, <1>4, GrowLink
<1>6. \A v \in Worker : thread'[v].out = thread[v].out /\ thread'[v].state = thread[v].state
  BY DEF Inv, OnError, ThreadState
<1>7. \A v \in Worker : Link(pool', thread'[v], v)
  BY <1>5, <1>6 DEF Link
<1>. QED
  BY <1>3, <1>7 DEF ThreadInv

\* The exited worker leaves nothing behind.
LEMMA RemoveExitedIdle ==
  ASSUME NEW s, TaskInv(s, {}), SlotInv(s), IdleInv(s), NEW w \in Worker
  PROVE  LET c == RemoveExited(s, w)
         IN  /\ IdleInv(c) /\ Idle(c) = Idle(s) \ {w}
             /\ c.ready = s.ready \ {w} /\ c.live = s.live \ {w} /\ c.workers = s.workers \ {w}
             /\ c.destroyed = s.destroyed
             /\ c.port[w] = <<>> /\ \A v \in Worker \ {w} : c.port[v] = s.port[v]
             /\ c.idleTimer = s.idleTimer \ {w} /\ c.currentTask[w] = NoTask
             /\ \A v \in Worker \ {w} : c.currentTask[v] = s.currentTask[v]
<1>. DEFINE m == s.idleTimer \ {w}
            W == s.workers \ {w}
            i == Splice(s.idleWorkers, w)
            a == [s EXCEPT !.idleTimer = m, !.workers = W, !.idleWorkers = i]
            b == IF w \notin s.ready /\ ~s.destroyed THEN FailStartup(a, w, "exitError") ELSE a
            u == Unassign(b, w)
            e == Settle(u, {b.currentTask[w]}, "exitError")
            c == RemoveExited(s, w)
<1>0. s \in PoolState /\ s.idleWorkers \in Seq(Worker) /\ IsInjective(s.idleWorkers)
  BY DEF TaskInv, PoolState, IdleInv
<1>1. m \in SUBSET Worker /\ W \in SUBSET Worker /\ i \in Seq(Worker)
  BY <1>0, SpliceType DEF PoolState
<1>2. IsInjective(i) /\ Range(i) = Idle(s) \ {w}
  BY <1>0, SpliceIdle DEF Idle
<1>3. /\ a \in PoolState /\ a.workers = W /\ a.idleWorkers = i /\ a.idleTimer = m
      /\ a.taskQueue = s.taskQueue /\ a.abortedQueued = s.abortedQueued
      /\ a.aborted = s.aborted /\ a.promise = s.promise /\ a.pendingTasks = s.pendingTasks
      /\ a.nextTaskId = s.nextTaskId /\ a.destroyed = s.destroyed /\ a.live = s.live
      /\ a.ready = s.ready /\ a.port = s.port /\ a.currentTask = s.currentTask
  <2>. HIDE DEF m, W, i
  <2>. QED
    BY <1>0, <1>1 DEF PoolState
<1>4. c = [e EXCEPT !.ready = @ \ {w}, !.failed = @ \ {w}, !.terminating = @ \ {w},
                    !.live = @ \ {w}, !.port[w] = <<>>]
  BY DEF RemoveExited
<1>. HIDE DEF a
<1>5. TaskInv(a, {})
  BY <1>3 DEF TaskInv
<1>6. TaskInv(b, {}) /\ Drops(a, b, w)
  <2>1. Drops(a, a, w)
    BY DEF Drops
  <2>2. TaskInv(FailStartup(a, w, "exitError"), {}) /\ Drops(a, FailStartup(a, w, "exitError"), w)
    BY <1>5, FailStartupInv, FailStartupDrops DEF Outcome, Rejection
  <2>. QED
    BY <1>5, <2>1, <2>2
<1>. HIDE DEF b
<1>7. Drops(b, u, w) /\ u.currentTask[w] = NoTask /\ u \in PoolState
  BY <1>6, UnassignDrops
<1>8. e \in PoolState /\ Same(u, e)
  <2>1. TaskInv(e, {})
    BY <1>6, SettleHeldInv DEF Outcome, Rejection
  <2>2. e \in PoolState
    <3>. HIDE DEF e
    <3>. QED
      BY <2>1 DEF TaskInv
  <2>. HIDE DEF u
  <2>. QED
    BY <1>7, <2>2, SettleSame
<1>. HIDE DEF u, e, c
<1>9. /\ e.ready = s.ready /\ e.live = s.live /\ e.workers = W /\ e.destroyed = s.destroyed
      /\ e.port = s.port /\ e.idleWorkers = i /\ e.idleTimer = m
      /\ e.currentTask[w] = NoTask
      /\ \A v \in Worker \ {w} : e.currentTask[v] = s.currentTask[v]
  BY <1>3, <1>6, <1>7, <1>8 DEF Drops, Same
<1>. DEFINE y == e.ready \ {w}
            f == e.failed \ {w}
            n == e.terminating \ {w}
            l == e.live \ {w}
            p == [e.port EXCEPT ![w] = <<>>]
<1>10. c = [e EXCEPT !.ready = y, !.failed = f, !.terminating = n, !.live = l, !.port = p]
  BY <1>4, <1>8 DEF PoolState
<1>11. p[w] = <<>> /\ \A v \in Worker \ {w} : p[v] = s.port[v]
  BY <1>8, <1>9 DEF PoolState
<1>12. /\ c.ready = y /\ c.live = l /\ c.port = p /\ c.workers = W /\ c.destroyed = s.destroyed
       /\ c.idleWorkers = i /\ c.idleTimer = m /\ c.currentTask = e.currentTask
  <2>. HIDE DEF y, f, n, l, p
  <2>. QED
    BY <1>8, <1>9, <1>10 DEF PoolState
<1>13. Idle(c) = Idle(s) \ {w} /\ Idle(s) \subseteq Worker
  BY <1>0, <1>2, <1>12, IdleWorkersType DEF Idle
<1>14. /\ c.ready = s.ready \ {w} /\ c.live = s.live \ {w} /\ c.workers = s.workers \ {w}
       /\ c.idleTimer = s.idleTimer \ {w} /\ IsInjective(c.idleWorkers)
       /\ c.port[w] = <<>> /\ \A v \in Worker \ {w} : c.port[v] = s.port[v]
       /\ c.currentTask[w] = NoTask
       /\ \A v \in Worker \ {w} : c.currentTask[v] = s.currentTask[v]
  BY <1>2, <1>9, <1>11, <1>12
<1>15. IdleInv(c)
  <2>. HIDE DEF y, f, n, l, p, i, m, W
  <2>. QED
    BY <1>12, <1>13, <1>14 DEF IdleInv
<1>. QED
  BY <1>12, <1>13, <1>14, <1>15 DEF c

\* The threads after an exit: w is gone, what is started in its place boots.
LEMMA OnExitThread ==
  ASSUME Inv, ThreadInv, NEW w \in Worker, OnExit(w)
  PROVE  ThreadInv'
<1>. DEFINE c == RemoveExited(pool, w)
            g == [v \in Worker |-> IF v = w THEN NoThread ELSE thread[v]]
<1>1. /\ TaskInv(pool, {}) /\ SlotInv(pool) /\ IdleInv(pool)
      /\ \A v \in Worker : Link(pool, thread[v], v)
  BY DEF Inv, ThreadInv
<1>2. /\ IdleInv(c) /\ Idle(c) = Idle(pool) \ {w}
      /\ c.ready = pool.ready \ {w} /\ c.live = pool.live \ {w}
      /\ c.workers = pool.workers \ {w} /\ c.destroyed = pool.destroyed
      /\ c.port[w] = <<>> /\ \A v \in Worker \ {w} : c.port[v] = pool.port[v]
  BY <1>1, RemoveExitedIdle
<1>3. TaskInv(c, {})
  BY <1>1, RemoveExitedInv
<1>. HIDE DEF c
<1>4. ASSUME NEW v \in Worker  PROVE Link(c, g[v], v)
  <2>1. CASE v = w
    <3>1. NoThread.out = <<>> /\ NoThread.state = "none"
      BY DEF NoThread
    <3>. QED
      BY <1>2, <2>1, <3>1 DEF Link
  <2>2. CASE v # w
    <3>1. g[v] = thread[v] /\ Link(pool, thread[v], v)
      BY <1>1, <2>2
    <3>. HIDE DEF g
    <3>2. /\ c.port[v] = pool.port[v] /\ (v \in Idle(c) <=> v \in Idle(pool))
          /\ (v \in c.ready <=> v \in pool.ready) /\ (v \in c.live <=> v \in pool.live)
          /\ (v \in c.workers <=> v \in pool.workers) /\ c.destroyed = pool.destroyed
      BY <1>2, <2>2
    <3>. QED
      BY <3>1, <3>2 DEF Link
  <2>. QED
    BY <2>1, <2>2
<1>5. IdleInv(pool') /\ Grow(c, pool')
  <2>1. CASE pool.destroyed
    <3>1. pool' = MaybeResolveDrain(c) /\ c \in PoolState
      BY <1>3, <2>1 DEF OnExit, HandleWorkerExit, TaskInv, c
    <3>. QED
      BY <1>2, <3>1, MaybeResolveDrainSame, SameIdle, SameGrow
  <2>2. CASE ~pool.destroyed
    <3>. DEFINE d == ReplaceExited(pool, w)
                e == TryDispatch(d)
    <3>1. /\ TaskInv(d, {}) /\ ~d.destroyed /\ d.workers \subseteq d.live
          /\ Cardinality(d.workers) <= MaxThreads
          /\ d.taskQueue # {} => d.idleWorkers = <<>> /\ Cardinality(d.workers) >= MaxThreads - 1
          /\ d.taskQueue # {} /\ Cardinality(d.workers) < MaxThreads => d.live # Worker
      BY <1>1, <2>2, ReplaceExitedInv
    <3>2. IdleInv(d) /\ Grow(c, d)
      <4>1. d = c \/ d = SpawnWorker(c, NoTask)
        BY DEF ReplaceExited, c
      <4>2. c \in PoolState /\ c.live # Worker
        BY <1>2, <1>3 DEF TaskInv
      <4>3. Same(c, c)
        BY DEF Same
      <4>. HIDE DEF d
      <4>. QED
        BY <1>2, <4>1, <4>2, <4>3, SpawnWorkerIdle, SameGrow
    <3>3. pool' = MaybeResolveDrain(e)
      BY <2>2 DEF OnExit, HandleWorkerExit
    <3>. HIDE DEF d
    <3>4. IdleInv(e) /\ Grow(d, e)
      BY <3>1, <3>2, TryDispatchIdle
    <3>5. e \in PoolState
      <4>1. \/ \E t : d.taskQueue \subseteq {t}
            \/ d.idleWorkers = <<>> /\ Cardinality(d.workers) >= MaxThreads - 1
        BY <3>1
      <4>2. TaskInv(e, {})
        BY <3>1, <4>1, TryDispatchInv
      <4>. HIDE DEF e
      <4>. QED
        BY <4>2 DEF TaskInv
    <3>. HIDE DEF e
    <3>6. IdleInv(pool') /\ Grow(e, pool')
      BY <3>3, <3>4, <3>5, MaybeResolveDrainSame, SameIdle, SameGrow
    <3>. QED
      BY <3>2, <3>4, <3>6, GrowTransitive
  <2>. QED
    BY <2>1, <2>2
<1>6. \A v \in Worker : thread'[v] = IF v \in pool'.live \ c.live THEN Booting ELSE g[v]
  BY <1>2 DEF OnExit
<1>. HIDE DEF g
<1>7. \A v \in Worker : Link(pool', thread'[v], v)
  BY <1>2, <1>4, <1>5, <1>6, GrowLink
<1>. QED
  BY <1>5, <1>7 DEF ThreadInv

\* What a thread does by itself preserves ThreadInv.
LEMMA ThreadStepThread ==
  ASSUME Inv, ThreadInv, NEW w \in Worker,
         \/ ThreadReady(w) \/ ThreadReply(w) \/ ThreadShutsDown(w) \/ ThreadTerminated(w)
         \/ \E error \in BOOLEAN : ThreadStartFails(w, error) \/ ThreadCrashes(w, error)
  PROVE  ThreadInv'
<1>0. /\ thread \in [Worker -> ThreadState] /\ pool \in PoolState /\ IdleInv(pool)
      /\ \A v \in Worker : Link(pool, thread[v], v)
      /\ thread[w].out \in Seq(OutboundMessage)
  BY DEF Inv, TaskInv, ThreadInv, ThreadState
<1>1. ASSUME NEW error, Dies(w, error), thread[w].state \in {"booting", "running"}, pool' = pool
      PROVE  ThreadInv'
  <2>1. \A v \in Worker : v # w => thread'[v] = thread[v]
    BY <1>0, <1>1 DEF Dies
  <2>2. thread'[w].out = thread[w].out /\ thread'[w].state = "dead"
    BY <1>0, <1>1 DEF Dies, ThreadState
  <2>3. Link(pool, thread'[w], w)
    BY <1>0, <1>1, <2>2 DEF Link
  <2>. QED
    BY <1>0, <1>1, <2>1, <2>3 DEF ThreadInv
<1>2. CASE ThreadReady(w)
  <2>1. pool' = pool /\ \A v \in Worker : v # w => thread'[v] = thread[v]
    BY <1>0, <1>2 DEF ThreadReady
  <2>2. thread[w].out = <<>> /\ w \notin pool.ready /\ thread[w].state = "booting"
    BY <1>0, <1>2 DEF Link, ThreadReady
  <2>3. thread'[w].out = <<MSG_READY>> /\ thread'[w].state = "running"
    BY <1>0, <1>2, <2>2 DEF ThreadReady, ThreadState
  <2>4. /\ w \notin Idle(pool) /\ pool.port[w] = <<>> /\ w \in pool.live
        /\ w \in pool.workers \/ pool.destroyed
    BY <1>0, <2>2 DEF IdleInv, Link
  <2>5. Len(<<MSG_READY>>) = 1 /\ <<MSG_READY>>[1].tag = "READY"
    BY DEF MSG_READY
  <2>6. Link(pool, thread'[w], w)
    BY <2>2, <2>3, <2>4, <2>5 DEF Link
  <2>. QED
    BY <1>0, <2>1, <2>6 DEF ThreadInv
<1>3. CASE ThreadReply(w)
  <2>0. \A t \in Task : /\ MSG_RESULT(t) \in OutboundMessage /\ MSG_RESULT(t).tag # "READY"
                        /\ MSG_RESULT(t).taskId = t
                        /\ MSG_ERROR(t) \in OutboundMessage /\ MSG_ERROR(t).tag # "READY"
                        /\ MSG_ERROR(t).taskId = t
    BY DEF MSG_RESULT, MSG_ERROR, OutboundMessage
  <2>1. PICK msg \in OutboundMessage : /\ ThreadReplies(w, msg) /\ msg.tag # "READY"
                                       /\ msg.taskId \in Task
    BY <1>3, <2>0 DEF ThreadReply
  <2>. DEFINE p == [pool.port EXCEPT ![w] = Tail(@)]
  <2>2. /\ pool.port \in [Worker -> Seq(Task \cup {MSG_SHUTDOWN})] /\ pool.port[w] # <<>>
        /\ Len(pool.port[w]) = 1 /\ w \in pool.ready /\ w \in pool.live
        /\ Head(pool.port[w]) = msg.taskId
    BY <1>0, <2>1 DEF ThreadReplies, PoolState, IdleInv
  <2>3. pool.port[w] # ToldToEnd
    <3>1. Head(ToldToEnd) = MSG_SHUTDOWN /\ MSG_SHUTDOWN \notin Task
      BY BoundsAssumption DEF ToldToEnd, MSG_SHUTDOWN, Task
    <3>. QED
      BY <2>1, <2>2, <3>1
  <2>4. w \in pool.workers \/ pool.destroyed
    BY <1>0, <2>2, <2>3 DEF IdleInv
  <2>5. w \notin Idle(pool) /\ thread[w].out = <<>> /\ thread[w].state = "running"
    BY <1>0, <2>1, <2>2 DEF IdleInv, Link, ThreadReplies
  <2>6. p[w] = <<>> /\ \A v \in Worker : v # w => p[v] = pool.port[v]
    <3>. DEFINE q == pool.port[w]
    <3>1. q \in Seq(Task \cup {MSG_SHUTDOWN}) /\ q # <<>> /\ Len(q) = 1
      BY <2>2
    <3>2. Tail(q) \in Seq(Task \cup {MSG_SHUTDOWN}) /\ Len(Tail(q)) = 0
      BY <3>1
    <3>3. Tail(q) = <<>>
      BY <3>2, EmptySeq
    <3>. QED
      BY <2>2, <3>3
  <2>7. pool' = [pool EXCEPT !.port = p]
    BY <1>0, <2>1 DEF ThreadReplies, PoolState
  <2>. HIDE DEF p
  <2>8. /\ pool'.port = p /\ pool'.ready = pool.ready /\ pool'.live = pool.live
        /\ pool'.workers = pool.workers /\ pool'.destroyed = pool.destroyed
        /\ pool'.currentTask = pool.currentTask
        /\ pool'.idleWorkers = pool.idleWorkers /\ pool'.idleTimer = pool.idleTimer
    BY <1>0, <2>7 DEF PoolState
  <2>9. Idle(pool') = Idle(pool) /\ Idle(pool) \subseteq Worker
    BY <1>0, <2>8, IdleWorkersType DEF Idle
  <2>10. IdleInv(pool')
    BY <1>0, <2>5, <2>6, <2>8, <2>9 DEF IdleInv
  <2>11. \A v \in Worker : v # w => thread'[v] = thread[v]
    BY <1>0, <2>1 DEF ThreadReplies
  <2>12. thread'[w].out = <<msg>> /\ thread'[w].state = "running"
    BY <1>0, <2>1, <2>5 DEF ThreadReplies, ThreadState
  <2>13. Len(<<msg>>) = 1 /\ <<msg>>[1] = msg
    OBVIOUS
  <2>14. ASSUME NEW v \in Worker  PROVE Link(pool', thread'[v], v)
    <3>1. CASE v = w
      BY <2>1, <2>2, <2>4, <2>5, <2>6, <2>8, <2>9, <2>12, <2>13, <3>1 DEF Link
    <3>2. CASE v # w
      BY <1>0, <2>6, <2>8, <2>9, <2>11, <3>2 DEF Link
    <3>. QED
      BY <3>1, <3>2
  <2>. QED
    BY <2>10, <2>14 DEF ThreadInv
<1>4. CASE ThreadShutsDown(w)
  BY <1>1, <1>4 DEF ThreadShutsDown
<1>5. CASE ThreadTerminated(w)
  BY <1>1, <1>5 DEF ThreadTerminated
<1>6. ASSUME NEW error \in BOOLEAN, ThreadStartFails(w, error) \/ ThreadCrashes(w, error)
      PROVE  ThreadInv'
  BY <1>1, <1>6 DEF ThreadStartFails, ThreadCrashes
<1>. QED
  BY <1>2, <1>3, <1>4, <1>5, <1>6

\* make() establishes ThreadInv.
LEMMA InitThread == Init => ThreadInv
<1>. SUFFICES ASSUME Init PROVE ThreadInv
  OBVIOUS
<1>1. Idle(pool) = {} /\ IsInjective(pool.idleWorkers)
  BY DEF Init, Idle, Range, IsInjective
<1>2. IdleInv(pool)
  BY <1>1 DEF Init, IdleInv
<1>3. ASSUME NEW w \in Worker  PROVE Link(pool, thread[w], w)
  <2>1. w \in 1..MinThreads <=> w <= MinThreads
    BY ThreadsAssumption, BoundsAssumption DEF Worker
  <2>2. thread[w] = IF w <= MinThreads THEN Booting ELSE NoThread
    BY DEF Init
  <2>3. /\ Booting.out = <<>> /\ Booting.state = "booting"
        /\ NoThread.out = <<>> /\ NoThread.state = "none"
    BY DEF Booting, NoThread
  <2>. QED
    BY <2>1, <2>2, <2>3 DEF Init, Link
<1>. QED
  BY <1>2, <1>3 DEF ThreadInv

-----------------------------------------------------------------------------
(* The theorems. *)

\* One step of the pool or of a thread preserves both invariants together:
\* neither is inductive without the other.
LEMMA NextInv == Inv /\ ThreadInv /\ [Next]_vars => Inv' /\ ThreadInv'
<1>. SUFFICES ASSUME Inv, ThreadInv, [Next]_vars  PROVE Inv' /\ ThreadInv'
  OBVIOUS
<1>1. ASSUME NEW p \in Priority, NEW cloneable \in Cloneable,
             RunOnIdle(p, cloneable) \/ RunOnNewThread(p, cloneable) \/ RunQueued(p, cloneable)
      PROVE  Inv' /\ ThreadInv'
  BY <1>1, RunOnIdleInv, RunOnNewThreadInv, RunQueuedInv, RunThread
<1>2. ASSUME NEW t \in Task, Abort(t)  PROVE Inv' /\ ThreadInv'
  BY <1>2, AbortInv, AbortThread
<1>3. CASE Drain
  BY <1>3, DrainInv, DrainThread
<1>4. CASE Destroy
  BY <1>4, DestroyInv, DestroyThread
<1>5. ASSUME NEW S \in SUBSET Worker, DestroyDone(S)  PROVE Inv' /\ ThreadInv'
  BY <1>5, DestroyDoneInv, DrainThread
<1>6. ASSUME NEW w \in Worker, TerminateIdleWorker(w)  PROVE Inv' /\ ThreadInv'
  BY <1>6, TerminateIdleWorkerInv, TerminateIdleWorkerThread
<1>7. ASSUME NEW w \in Worker, OnMessage(w)  PROVE Inv' /\ ThreadInv'
  BY <1>7, OnMessageInv, OnMessageThread
<1>8. ASSUME NEW w \in Worker, OnError(w)  PROVE Inv' /\ ThreadInv'
  BY <1>8, OnErrorInv, OnErrorThread
<1>9. ASSUME NEW w \in Worker, OnExit(w)  PROVE Inv' /\ ThreadInv'
  BY <1>9, OnExitInv, OnExitThread
<1>10. ASSUME NEW w \in Worker,
              \/ ThreadReady(w) \/ ThreadReply(w) \/ ThreadShutsDown(w) \/ ThreadTerminated(w)
              \/ \E error \in BOOLEAN : ThreadStartFails(w, error) \/ ThreadCrashes(w, error)
       PROVE  Inv' /\ ThreadInv'
  BY <1>10, ThreadStepInv, ThreadStepThread
<1>11. CASE UNCHANGED vars
  BY <1>11 DEF vars, Inv, ThreadInv
<1>12. CASE Client
  BY <1>1, <1>2, <1>3, <1>4, <1>12 DEF Client
<1>. QED
  BY <1>5, <1>6, <1>7, <1>8, <1>9, <1>10, <1>11, <1>12 DEF Next

\* Inv and ThreadInv hold in every reachable state of the pool and its threads
\* (WorkerPool.ts with WorkerPool.worker.ts): the strengthening the others need.
THEOREM Inductive == Spec => [](Inv /\ ThreadInv)
<1>1. Init => Inv /\ ThreadInv
  BY InitInv, InitThread
<1>. QED
  BY <1>1, NextInv, PTL DEF Spec

\* Every field keeps its type: no handler finds a task, a worker or a counter
\* outside its range, a thread is always there to be started (WorkerPool.ts).
THEOREM TypeCorrect == Spec => []TypeOK
<1>1. Inv => TypeOK
  BY DEF Inv, TaskInv, TypeOK
<1>. QED
  BY <1>1, Inductive, PTL

\* A caller that still waits for run() is known to the pool.
THEOREM NoTaskIsLost == Spec => []NoTaskLost
<1>1. Inv => NoTaskLost
  BY DEF Inv, TaskInv, NoTaskLost
<1>. QED
  BY <1>1, Inductive, PTL

\* pendingCount() subtracts exactly the aborted tasks of the queue.
THEOREM AbortedIsCounted == Spec => []AbortedCounted
<1>1. Inv => AbortedCounted
  BY DEF Inv, TaskInv, AbortedCounted
<1>. QED
  BY <1>1, Inductive, PTL

\* kWorkers stays within maxThreads, and tasks wait only behind a full pool
\* without an idle worker.
THEOREM IsWorkConserving == Spec => []WorkConserving
<1>1. Inv => WorkConserving
  BY DEF Inv, SlotInv, WorkConserving
<1>. QED
  BY <1>1, Inductive, PTL

\* What popIdleWorker returns can take a task.
THEOREM IdleIsSound == Spec => []IdleSound
<1>1. ASSUME Inv, ThreadInv  PROVE IdleSound
  <2>. SUFFICES ASSUME NEW i \in DOMAIN pool.idleWorkers
                PROVE  LET w == pool.idleWorkers[i]
                       IN  /\ w \in pool.ready /\ pool.currentTask[w] = NoTask
                           /\ pool.port[w] = <<>> /\ thread[w].out = <<>>
                           /\ w \in pool.workers \/ pool.destroyed
                           /\ \A j \in DOMAIN pool.idleWorkers : pool.idleWorkers[j] = w => i = j
    BY DEF IdleSound
  <2>. DEFINE w == pool.idleWorkers[i]
  <2>1. w \in Idle(pool)
    BY DEF Idle, Range
  <2>2. \A j \in DOMAIN pool.idleWorkers : pool.idleWorkers[j] = w => i = j
    BY <1>1 DEF ThreadInv, IdleInv, IsInjective
  <2>3. w \in Worker
    BY <1>1, <2>1, IdleWorkersType DEF Inv, TaskInv
  <2>. HIDE DEF w
  <2>4. /\ w \in pool.ready /\ pool.currentTask[w] = NoTask /\ pool.port[w] = <<>>
        /\ w \in pool.workers \/ pool.destroyed
    BY <1>1, <2>1 DEF ThreadInv, IdleInv
  <2>5. thread[w].out = <<>>
    BY <1>1, <2>1, <2>3 DEF ThreadInv, Link
  <2>. QED
    BY <2>2, <2>4, <2>5 DEF w
<1>. QED
  BY <1>1, Inductive, PTL
=============================================================================
