----------------------------- MODULE WorkerPool -----------------------------
(***************************************************************************)
(* The thread pool of src/src/WorkerPool.ts with the worker threads it     *)
(* drives (src/src/WorkerPool.worker.ts).                                  *)
(*                                                                         *)
(* The main thread is single threaded: run(), an abort listener, drain(),  *)
(* destroy(), a timer callback or a worker event each run to completion,   *)
(* so each is one action.  What is concurrent is the threads: they boot,   *)
(* reply, crash and are terminated between any two of those actions, and   *)
(* their events arrive later.  Node delivers a worker's messages in order, *)
(* its 'error' event on a port of its own (before or after messages still  *)
(* in flight) and its 'exit' event last.                                   *)
(*                                                                         *)
(* A handler is an operator from the pool's record to the pool's record,   *)
(* so that a handler that calls another is the composition of the two.     *)
(* Two loops are written in closed form, postTask/markWorkerIdle and       *)
(* tryDispatch; MCWorkerPool runs them step by step and compares.          *)
(***************************************************************************)
EXTENDS Integers, Sequences, FiniteSets, SequencesExt

CONSTANTS MaxTasks,     \* bound: calls of run() that reach the promise executor
          MaxLive,      \* bound: threads started whose exit event is still to come
          Priority,     \* the values of options.priority
          MinThreads, MaxThreads,
          IdleTimeout,  \* kIdleTimeout > 0
          Cloneable     \* whether a payload survives structured cloning: a subset of BOOLEAN

ASSUME BoundsAssumption == MaxTasks \in Nat /\ MaxLive \in Nat /\ MaxThreads <= MaxLive
ASSUME ThreadsAssumption ==
  MinThreads \in Nat /\ MaxThreads \in Nat \ {0} /\ MinThreads <= MaxThreads
ASSUME OptionsAssumption == IdleTimeout \in BOOLEAN /\ Cloneable \subseteq BOOLEAN
\* 0 is the default; the values in use have a least one
ASSUME PriorityAssumption ==
  /\ Priority \subseteq Int /\ 0 \in Priority
  /\ \E lowest \in Priority : \A p \in Priority : lowest <= p

Task == 1..MaxTasks              \* taskId; ids grow in submission order
Worker == 1..MaxLive             \* a started thread and its WorkerEntry
NoTask == 0                      \* entry.currentTask === undefined
MSG_SHUTDOWN == -1
Rejection == {"taskError", "cloneError", "workerError", "exitError", "destroyed", "aborted"}
Outcome == {"none", "pending", "fulfilled"} \cup Rejection

MSG_READY == [tag |-> "READY", taskId |-> NoTask]
MSG_RESULT(t) == [tag |-> "RESULT", taskId |-> t]
MSG_ERROR(t) == [tag |-> "ERROR", taskId |-> t]
OutboundMessage == [tag : {"READY", "RESULT", "ERROR"}, taskId : Task \cup {NoTask}]

VARIABLES pool,    \* everything the main thread keeps, and the workers' inboxes
          thread   \* each worker thread: its state, its undelivered messages and error
vars == <<pool, thread>>

PoolState ==
  [workers : SUBSET Worker, idleWorkers : Seq(Worker), taskQueue : SUBSET Task,
   nextTaskId : 0..MaxTasks, pendingTasks : SUBSET Task, abortedQueued : Int,
   destroyed : BOOLEAN, drainDeferred : BOOLEAN,
   \* WorkerEntry, field by field
   ready : SUBSET Worker, failed : SUBSET Worker, idleTimer : SUBSET Worker,
   currentTask : [Worker -> Task \cup {NoTask}],
   \* Task, field by field, and the state of the promise run() returned
   priority : [Task -> Priority], uncloneable : SUBSET Task,
   aborted : SUBSET Task, promise : [Task -> Outcome],
   \* node:worker_threads: inboxes, threads not yet exited, terminate() calls
   port : [Worker -> Seq(Task \cup {MSG_SHUTDOWN})], live : SUBSET Worker,
   terminating : SUBSET Worker, destroying : SUBSET SUBSET Worker]

ThreadState ==
  [state : {"none", "booting", "running", "dead"}, out : Seq(OutboundMessage), err : BOOLEAN]

NoThread == [state |-> "none", out |-> <<>>, err |-> FALSE]
Booting == [state |-> "booting", out |-> <<>>, err |-> FALSE]

-----------------------------------------------------------------------------
(* Promises and the task queue.  The priority queue is the set of its      *)
(* elements: PQ.pop returns the least of them in the order of taskCmp.     *)

\* resolve/reject of the tasks in T; a promise settles once, later calls do nothing
Settle(s, T, outcome) ==
  [s EXCEPT !.promise = [t \in Task |->
     IF t \in T /\ s.promise[t] = "pending" THEN outcome ELSE s.promise[t]]]

\* mutant: ties broken the other way round
Before_Lifo(s, a, b) ==
  s.priority[a] < s.priority[b] \/ (s.priority[a] = s.priority[b] /\ a > b)

Before(s, a, b) ==
  s.priority[a] < s.priority[b] \/ (s.priority[a] = s.priority[b] /\ a < b)

First(s, S) == CHOOSE t \in S : \A u \in S : u = t \/ Before(s, t, u)

Valid(s) == s.taskQueue \ s.aborted

\* t and whatever is popped before it
UpTo(s, t) == {u \in s.taskQueue : ~Before(s, t, u)}

\* the tasks of D leave the queue, kAbortedQueued counting down for the aborted
PopAll(s, D) ==
  [s EXCEPT !.taskQueue = @ \ D, !.abortedQueued = @ - Cardinality(D \cap s.aborted)]

\* dequeueNextValid when it finds no task, or its task is pushed straight back
SkipAborted(s) ==
  PopAll(s, IF Valid(s) = {} THEN s.taskQueue ELSE UpTo(s, First(s, Valid(s))) \cap s.aborted)

\* mutant: tasks in flight are not looked at
MaybeResolveDrain_QueueOnly(s) == [s EXCEPT !.drainDeferred = @ /\ s.taskQueue # {}]

MaybeResolveDrain(s) ==
  [s EXCEPT !.drainDeferred = @ /\ (s.pendingTasks # {} \/ s.taskQueue # {})]

-----------------------------------------------------------------------------
(* Giving a task to a worker. *)

Assign(s, w, t) == [s EXCEPT !.currentTask[w] = t, !.pendingTasks = @ \cup {t}]

Unassign(s, w) ==
  [s EXCEPT !.currentTask[w] = NoTask, !.pendingTasks = @ \ {s.currentTask[w]}]

SendTask(s, w, t) == [s EXCEPT !.port[w] = Append(@, t)]

\* mutant: off by one, the timer starts one worker too late
BecomeIdle_OffByOne(s, w) ==
  MaybeResolveDrain(
    [s EXCEPT !.idleWorkers = Append(@, w),
              !.idleTimer = IF IdleTimeout /\ Cardinality(s.workers) > MinThreads + 1
                            THEN @ \cup {w} ELSE @])

BecomeIdle(s, w) ==
  MaybeResolveDrain(
    [s EXCEPT !.idleWorkers = Append(@, w),
              !.idleTimer = IF IdleTimeout /\ Cardinality(s.workers) > MinThreads
                            THEN @ \cup {w} ELSE @])

\* markWorkerIdle -> dispatchTask -> postTask -> markWorkerIdle ...: the next
\* valid task is sent, after those whose payload cannot be cloned were rejected
MarkWorkerIdle(s, w) ==
  LET sendable == Valid(s) \ s.uncloneable
      t == First(s, sendable)
  IN  IF sendable = {}
      THEN BecomeIdle(Settle(PopAll(s, s.taskQueue), Valid(s), "cloneError"), w)
      ELSE SendTask(Assign(Settle(PopAll(s, UpTo(s, t)),
                                  (UpTo(s, t) \ s.aborted) \ {t}, "cloneError"), w, t), w, t)

PostTask(s, w, t) ==
  IF t \in s.uncloneable
  THEN MarkWorkerIdle(Settle(Unassign(s, w), {t}, "cloneError"), w)
  ELSE SendTask(s, w, t)

DispatchTask(s, w, t) == PostTask(Assign(s, w, t), w, t)

\* positions of the idle stack popIdleWorker would return
Usable(s) == {i \in DOMAIN s.idleWorkers :
                 s.idleWorkers[i] \in s.ready /\ s.currentTask[s.idleWorkers[i]] = NoTask}

IdleTop(s) == s.idleWorkers[Max(Usable(s))]

\* entries above the one returned are dropped: all of them if there is none
PopIdleWorker(s) ==
  IF Usable(s) = {} THEN [s EXCEPT !.idleWorkers = <<>>]
  ELSE [s EXCEPT !.idleWorkers = SubSeq(@, 1, Max(Usable(s)) - 1), !.idleTimer = @ \ {IdleTop(s)}]

\* idleWorkers.indexOf(w) and splice
Splice(q, w) ==
  LET at == CHOOSE i \in DOMAIN q : q[i] = w /\ \A j \in 1..(i - 1) : q[j] # w
  IN  IF \E i \in DOMAIN q : q[i] = w
      THEN [j \in 1..(Len(q) - 1) |-> IF j < at THEN q[j] ELSE q[j + 1]] ELSE q

\* id of the next thread; the code's ids never repeat, the model's repeat after exit
FreshWorker(s) == CHOOSE w \in Worker : w \notin s.live

\* mutant: a respawned worker registers its missing task
SpawnWorker_NoTask(s, t) ==
  LET w == FreshWorker(s)
  IN  [s EXCEPT !.workers = @ \cup {w}, !.live = @ \cup {w}, !.currentTask[w] = t,
                !.pendingTasks = @ \cup {t}]

\* spawnWorker, then newEntry.currentTask = t (NoTask: a worker without a task)
SpawnWorker(s, t) ==
  LET w == FreshWorker(s)
  IN  [s EXCEPT !.workers = @ \cup {w}, !.live = @ \cup {w}, !.currentTask[w] = t,
                !.pendingTasks = @ \cup ({t} \ {NoTask})]

\* mutant: with no worker available the task is not pushed back
TryDispatch_NoPushBack(s) ==
  LET t == First(s, Valid(s))
      d == PopIdleWorker(PopAll(s, UpTo(s, t)))
  IN  IF Valid(s) = {} THEN SkipAborted(s)
      ELSE IF Usable(s) # {} THEN SkipAborted(DispatchTask(d, IdleTop(s), t))
      ELSE IF Cardinality(s.workers) < MaxThreads THEN SkipAborted(SpawnWorker(d, t))
      ELSE d

\* mutant: a single placement, the aborted tasks after it are left for later
TryDispatch_Once(s) ==
  LET t == First(s, Valid(s))
      d == PopIdleWorker(PopAll(s, UpTo(s, t)))
  IN  IF Valid(s) = {} THEN SkipAborted(s)
      ELSE IF Usable(s) # {} THEN DispatchTask(d, IdleTop(s), t)
      ELSE IF Cardinality(s.workers) < MaxThreads THEN SpawnWorker(d, t)
      ELSE SkipAborted(PopIdleWorker(s))

\* The loop places at most one task, for a queue that was empty before a push,
\* or a slot that an exit has freed; what follows only skips aborted tasks.
TryDispatch(s) ==
  LET t == First(s, Valid(s))
      d == PopIdleWorker(PopAll(s, UpTo(s, t)))
  IN  IF Valid(s) = {} THEN SkipAborted(s)
      ELSE IF Usable(s) # {} THEN SkipAborted(DispatchTask(d, IdleTop(s), t))
      ELSE IF Cardinality(s.workers) < MaxThreads THEN SkipAborted(SpawnWorker(d, t))
      ELSE SkipAborted(PopIdleWorker(s))

-----------------------------------------------------------------------------
(* The API: make, run, abort, drain, destroy. *)

Init ==
  /\ pool = [workers |-> 1..MinThreads, idleWorkers |-> <<>>, taskQueue |-> {},
             nextTaskId |-> 0, pendingTasks |-> {}, abortedQueued |-> 0,
             destroyed |-> FALSE, drainDeferred |-> FALSE,
             ready |-> {}, failed |-> {}, idleTimer |-> {},
             currentTask |-> [w \in Worker |-> NoTask],
             priority |-> [t \in Task |-> 0], uncloneable |-> {}, aborted |-> {},
             promise |-> [t \in Task |-> "none"],
             port |-> [w \in Worker |-> <<>>], live |-> 1..MinThreads,
             terminating |-> {}, destroying |-> {}]
  /\ thread = [w \in Worker |-> IF w <= MinThreads THEN Booting ELSE NoThread]

\* the task object of a new call, before it is placed
NewTask(s, p, cloneable) ==
  LET t == s.nextTaskId + 1
  IN  [s EXCEPT !.nextTaskId = t, !.priority[t] = p, !.promise[t] = "pending",
                !.uncloneable = IF cloneable THEN @ ELSE @ \cup {t}]

\* the last two conjuncts are the bounds of the model
CanRun ==
  /\ ~pool.destroyed
  /\ pool.nextTaskId < MaxTasks
  /\ Cardinality(pool.workers) < MaxThreads => pool.live # Worker

FastPath(p) == p = 0 /\ pool.taskQueue = {}

StartThreads == thread' = [w \in Worker |-> IF w \in pool'.live \ pool.live
                                            THEN Booting ELSE thread[w]]

RunOnIdle(p, cloneable) ==
  /\ CanRun /\ FastPath(p) /\ Usable(pool) # {}
  /\ LET s == NewTask(pool, p, cloneable)
     IN  pool' = DispatchTask(PopIdleWorker(s), IdleTop(s), s.nextTaskId)
  /\ UNCHANGED thread

RunOnNewThread(p, cloneable) ==
  /\ CanRun /\ FastPath(p) /\ Usable(pool) = {} /\ Cardinality(pool.workers) < MaxThreads
  /\ LET s == NewTask(pool, p, cloneable)
     IN  pool' = SpawnWorker(PopIdleWorker(s), s.nextTaskId)
  /\ StartThreads

RunQueued(p, cloneable) ==
  /\ CanRun
  /\ ~(FastPath(p) /\ (Usable(pool) # {} \/ Cardinality(pool.workers) < MaxThreads))
  /\ LET s == NewTask(pool, p, cloneable)
     IN  pool' = TryDispatch([s EXCEPT !.taskQueue = @ \cup {s.nextTaskId}])
  /\ StartThreads

\* the signal's listener is removed when the promise settles
Abort(t) ==
  /\ pool.promise[t] = "pending"
  /\ pool' = [pool EXCEPT !.aborted = @ \cup {t}, !.promise[t] = "aborted",
                          !.abortedQueued = IF t \in pool.pendingTasks THEN @ ELSE @ + 1]
  /\ UNCHANGED thread

Drain ==
  /\ ~pool.drainDeferred /\ (pool.pendingTasks # {} \/ pool.taskQueue # {})
  /\ pool' = [pool EXCEPT !.drainDeferred = TRUE]
  /\ UNCHANGED thread

\* mutant: worker.terminate() is not called
Destroy_NoTerminate ==
  /\ pool' = [Settle(pool, pool.taskQueue \cup pool.pendingTasks, "destroyed") EXCEPT
                !.destroyed = TRUE, !.taskQueue = {}, !.abortedQueued = 0,
                !.pendingTasks = {}, !.idleTimer = @ \ pool.workers, !.workers = {},
                !.idleWorkers = <<>>, !.destroying = @ \cup {pool.workers}]
  /\ UNCHANGED thread

\* up to the await; the call then waits for the threads it has terminated
Destroy ==
  /\ pool' = [Settle(pool, pool.taskQueue \cup pool.pendingTasks, "destroyed") EXCEPT
                !.destroyed = TRUE, !.taskQueue = {}, !.abortedQueued = 0,
                !.pendingTasks = {}, !.idleTimer = @ \ pool.workers,
                !.terminating = @ \cup pool.workers, !.workers = {},
                !.idleWorkers = <<>>, !.destroying = @ \cup {pool.workers}]
  /\ UNCHANGED thread

DestroyDone(S) ==
  /\ S \in pool.destroying /\ S \cap pool.live = {}
  /\ pool' = [pool EXCEPT !.destroying = @ \ {S}, !.drainDeferred = FALSE]
  /\ UNCHANGED thread

-----------------------------------------------------------------------------
(* Timer and worker events. *)

\* mutant: the worker stays in the idle stack
TerminateIdleWorker_KeepsIdle(w) ==
  /\ w \in pool.idleTimer
  /\ pool' = IF pool.currentTask[w] # NoTask \/ Cardinality(pool.workers) <= MinThreads
             THEN [pool EXCEPT !.idleTimer = @ \ {w}]
             ELSE [pool EXCEPT !.idleTimer = @ \ {w}, !.workers = @ \ {w},
                               !.port[w] = Append(@, MSG_SHUTDOWN)]
  /\ UNCHANGED thread

\* the callback of entry.idleTimer
TerminateIdleWorker(w) ==
  /\ w \in pool.idleTimer
  /\ pool' = IF pool.currentTask[w] # NoTask \/ Cardinality(pool.workers) <= MinThreads
             THEN [pool EXCEPT !.idleTimer = @ \ {w}]
             ELSE [pool EXCEPT !.idleTimer = @ \ {w}, !.workers = @ \ {w},
                               !.idleWorkers = Splice(@, w),
                               !.port[w] = Append(@, MSG_SHUTDOWN)]
  /\ UNCHANGED thread

\* mutant: the task of the READY worker is sent without looking at its signal
HandleReady_NoAbortCheck(s, w) ==
  LET r == [s EXCEPT !.ready = @ \cup {w}]
  IN  IF s.currentTask[w] = NoTask THEN MarkWorkerIdle(r, w) ELSE PostTask(r, w, s.currentTask[w])

\* mutant: an aborted task is not deleted from kPendingTasks
HandleReady_KeepsPending(s, w) ==
  LET r == [s EXCEPT !.ready = @ \cup {w}]
      t == s.currentTask[w]
  IN  IF t = NoTask THEN MarkWorkerIdle(r, w)
      ELSE IF t \in s.aborted THEN MarkWorkerIdle([r EXCEPT !.currentTask[w] = NoTask], w)
      ELSE PostTask(r, w, t)

HandleReady(s, w) ==
  LET r == [s EXCEPT !.ready = @ \cup {w}]
      t == s.currentTask[w]
  IN  IF t = NoTask THEN MarkWorkerIdle(r, w)
      ELSE IF t \in s.aborted THEN MarkWorkerIdle(Unassign(r, w), w)
      ELSE PostTask(r, w, t)

\* RESULT and ERROR: the task settles if it is still in kPendingTasks
HandleReply(s, w, t, outcome) ==
  MarkWorkerIdle(
    Settle([s EXCEPT !.pendingTasks = @ \ {t}, !.currentTask[w] = NoTask],
           {t} \cap s.pendingTasks, outcome), w)

HandleWorkerMessage(s, w, msg) ==
  CASE msg.tag = "READY"  -> HandleReady(s, w)
    [] msg.tag = "RESULT" -> HandleReply(s, w, msg.taskId, "fulfilled")
    [] msg.tag = "ERROR"  -> HandleReply(s, w, msg.taskId, "taskError")

\* mutant: kAbortedQueued is not reset with the queue
FailStartup_KeepsCount(s, w, why) ==
  IF w \in s.failed THEN s
  ELSE Settle([Unassign(s, w) EXCEPT !.failed = @ \cup {w}, !.taskQueue = {}],
              {s.currentTask[w]} \cup s.taskQueue, why)

FailStartup(s, w, why) ==
  IF w \in s.failed THEN s
  ELSE Settle([Unassign(s, w) EXCEPT !.failed = @ \cup {w}, !.taskQueue = {},
                                     !.abortedQueued = 0],
              {s.currentTask[w]} \cup s.taskQueue, why)

\* mutant: every error is taken for a startup failure
HandleWorkerError_AlwaysStartup(s, w) == FailStartup(s, w, "workerError")

HandleWorkerError(s, w) ==
  IF w \notin s.ready THEN FailStartup(s, w, "workerError")
  ELSE Settle(Unassign(s, w), {s.currentTask[w]}, "workerError")

\* handleWorkerExit up to the settled task; the entry is garbage from here on
RemoveExited(s, w) ==
  LET a == [s EXCEPT !.idleTimer = @ \ {w}, !.workers = @ \ {w},
                     !.idleWorkers = Splice(@, w)]
      b == IF w \notin s.ready /\ ~s.destroyed THEN FailStartup(a, w, "exitError") ELSE a
  IN  [Settle(Unassign(b, w), {b.currentTask[w]}, "exitError") EXCEPT
         !.ready = @ \ {w}, !.failed = @ \ {w}, !.terminating = @ \ {w},
         !.live = @ \ {w}, !.port[w] = <<>>]

\* a crashed ready worker is replaced below minThreads, one that never started is not
ReplaceExited(s, w) ==
  LET c == RemoveExited(s, w)
  IN  IF w \in s.ready /\ Cardinality(c.workers) < MinThreads THEN SpawnWorker(c, NoTask) ELSE c

\* mutants: queued tasks are not given the freed slot; no look at the drain
HandleWorkerExit_NoDispatch(s, w) ==
  MaybeResolveDrain(IF s.destroyed THEN RemoveExited(s, w) ELSE ReplaceExited(s, w))
HandleWorkerExit_NoDrain(s, w) ==
  IF s.destroyed THEN RemoveExited(s, w) ELSE TryDispatch(ReplaceExited(s, w))

HandleWorkerExit(s, w) ==
  MaybeResolveDrain(IF s.destroyed THEN RemoveExited(s, w) ELSE TryDispatch(ReplaceExited(s, w)))

OnMessage(w) ==
  /\ thread[w].out # <<>>
  /\ pool' = HandleWorkerMessage(pool, w, Head(thread[w].out))
  /\ thread' = [thread EXCEPT ![w].out = Tail(@)]

OnError(w) ==
  /\ thread[w].err
  /\ pool' = HandleWorkerError(pool, w)
  /\ thread' = [thread EXCEPT ![w].err = FALSE]

ExitDue(w) == thread[w].state = "dead" /\ thread[w].out = <<>> /\ ~thread[w].err

OnExit(w) ==
  /\ ExitDue(w)
  /\ pool' = HandleWorkerExit(pool, w)
  /\ thread' = [v \in Worker |->
                  IF v \in pool'.live \ (pool.live \ {w}) THEN Booting
                  ELSE IF v = w THEN NoThread ELSE thread[v]]

-----------------------------------------------------------------------------
(* The worker thread: bootstrap, message loop, and its ways to end. *)

Dies(w, error) == thread' = [thread EXCEPT ![w].state = "dead", ![w].err = error]

ThreadReady(w) ==
  /\ thread[w].state = "booting"
  /\ thread' = [thread EXCEPT ![w].state = "running", ![w].out = Append(@, MSG_READY)]
  /\ UNCHANGED pool

\* a throw at import or no default function (an 'error' event), or process.exit
ThreadStartFails(w, error) ==
  /\ thread[w].state = "booting" /\ Dies(w, error)
  /\ UNCHANGED pool

\* the handler returns or throws, and the reply is posted
ThreadReplies(w, msg) ==
  /\ thread[w].state = "running" /\ pool.port[w] # <<>> /\ Head(pool.port[w]) = msg.taskId
  /\ thread' = [thread EXCEPT ![w].out = Append(@, msg)]
  /\ pool' = [pool EXCEPT !.port[w] = Tail(@)]

ThreadShutsDown(w) ==
  /\ thread[w].state = "running" /\ pool.port[w] # <<>> /\ Head(pool.port[w]) = MSG_SHUTDOWN
  /\ Dies(w, FALSE)
  /\ UNCHANGED pool

\* an uncaught exception of the user's module (an 'error' event), or process.exit
ThreadCrashes(w, error) ==
  /\ thread[w].state = "running" /\ Dies(w, error)
  /\ UNCHANGED pool

ThreadTerminated(w) ==
  /\ w \in pool.terminating /\ thread[w].state \in {"booting", "running"}
  /\ Dies(w, FALSE)
  /\ UNCHANGED pool

-----------------------------------------------------------------------------
Client ==
  \/ \E p \in Priority, cloneable \in Cloneable :
       \/ RunOnIdle(p, cloneable)
       \/ RunOnNewThread(p, cloneable)
       \/ RunQueued(p, cloneable)
  \/ \E t \in Task : Abort(t)
  \/ Drain
  \/ Destroy

ThreadReply(w) == \E t \in Task : ThreadReplies(w, MSG_RESULT(t)) \/ ThreadReplies(w, MSG_ERROR(t))

Next ==
  \/ Client
  \/ \E S \in SUBSET Worker : DestroyDone(S)
  \/ \E w \in Worker :
       \/ TerminateIdleWorker(w) \/ OnMessage(w) \/ OnError(w) \/ OnExit(w)
       \/ ThreadReady(w) \/ ThreadReply(w) \/ ThreadShutsDown(w) \/ ThreadTerminated(w)
       \/ \E error \in BOOLEAN : ThreadStartFails(w, error) \/ ThreadCrashes(w, error)

Spec == Init /\ [][Next]_vars

(* The event loop delivers every event and fires every timer, a thread     *)
(* boots or fails, a handler returns or its thread ends, terminate() takes *)
(* effect.  Nothing is assumed of the client, nor that threads crash.      *)
(* The first three conjuncts are WF_vars of OnMessage, OnError and OnExit  *)
(* with ENABLED spelled out, which TLC evaluates slowly for a handler.     *)
Fairness ==
  /\ \A S \in SUBSET Worker : WF_vars(DestroyDone(S))
  /\ \A w \in Worker :
       /\ []<>(thread[w].out = <<>>) \/ []<><<OnMessage(w)>>_vars
       /\ []<>(~thread[w].err) \/ []<><<OnError(w)>>_vars
       /\ []<>(~ExitDue(w)) \/ []<><<OnExit(w)>>_vars
       /\ WF_vars(TerminateIdleWorker(w))
       /\ WF_vars(ThreadReady(w) \/ \E error \in BOOLEAN : ThreadStartFails(w, error))
       /\ WF_vars(ThreadReply(w)) /\ WF_vars(ThreadShutsDown(w)) /\ WF_vars(ThreadTerminated(w))

FairSpec == Spec /\ Fairness

-----------------------------------------------------------------------------
(* Safety. *)

\* Every field of the pool's record and of the threads has its type.
TypeOK == pool \in PoolState /\ thread \in [Worker -> ThreadState]

\* What popIdleWorker hands out can take a task: entries of kIdleWorkers are
\* pairwise distinct, ready, without a task or any message under way, and in
\* kWorkers unless destroy() has emptied it (a late RESULT still pushes).
IdleSound ==
  \A i \in DOMAIN pool.idleWorkers :
    LET w == pool.idleWorkers[i]
    IN  /\ w \in pool.ready /\ pool.currentTask[w] = NoTask
        /\ pool.port[w] = <<>> /\ thread[w].out = <<>>
        /\ w \in pool.workers \/ pool.destroyed
        /\ \A j \in DOMAIN pool.idleWorkers : pool.idleWorkers[j] = w => i = j

\* activeCount() is truthful: until destroy(), kPendingTasks holds exactly the
\* tasks held by entries of kWorkers, no task is held twice or still queued.
PendingIsHeld ==
  ~pool.destroyed =>
    /\ pool.pendingTasks = {pool.currentTask[w] : w \in pool.workers} \ {NoTask}
    /\ \A w \in Worker : pool.currentTask[w] # NoTask =>
         /\ w \in pool.workers /\ pool.currentTask[w] \notin pool.taskQueue
         /\ \A v \in Worker : pool.currentTask[v] = pool.currentTask[w] => v = w

\* pendingCount() is truthful: kAbortedQueued is the number of aborted tasks
\* that are still in the queue, whatever skipped or rejected them.
AbortedCounted ==
  pool.abortedQueued = Cardinality(pool.taskQueue \cap pool.aborted)

\* kWorkers never exceeds maxThreads, respawns included, and no task waits
\* beside a free slot: while the queue is not empty no worker is idle and
\* kWorkers is full, so some event of a worker will look at the queue.
WorkConserving ==
  /\ Cardinality(pool.workers) <= MaxThreads
  /\ pool.taskQueue # {} =>
       pool.idleWorkers = <<>> /\ Cardinality(pool.workers) = MaxThreads

\* A caller that still waits is known to the pool: its task is queued or held.
NoTaskLost ==
  \A t \in Task : pool.promise[t] = "pending" => t \in pool.taskQueue \cup pool.pendingTasks

\* A worker is never given a task, nor told to shut down, before it has
\* replied, and the task a running thread executes is the one its entry holds
\* (unless destroy() dropped it): a reply cannot settle another worker's task.
OneOutstanding ==
  \A w \in Worker :
    /\ Len(pool.port[w]) + Len(thread[w].out) <= 1
    /\ \A t \in Task : thread[w].state = "running" /\ pool.port[w] = <<t>> /\ ~pool.destroyed
         => pool.currentTask[w] = t /\ t \in pool.pendingTasks

\* After destroy() nothing is queued, held or awaited, whatever late replies,
\* errors and exits the terminated threads still deliver.
DestroyedIsEmpty ==
  pool.destroyed =>
    /\ pool.workers = {} /\ pool.taskQueue = {} /\ pool.pendingTasks = {}
    /\ pool.idleTimer = {} /\ pool.abortedQueued = 0
    /\ \A t \in Task : pool.promise[t] # "pending"

\* Idle timers belong to idle workers, and no idle thread is forgotten: above
\* minThreads every idle worker has its timer armed, although that is decided
\* when it becomes idle and a callback that finds the pool at minThreads does
\* not re-arm its timer.
IdleTimers ==
  /\ \A w \in pool.idleTimer : \E i \in DOMAIN pool.idleWorkers : pool.idleWorkers[i] = w
  /\ IdleTimeout /\ Cardinality(pool.workers) > MinThreads =>
       \A i \in DOMAIN pool.idleWorkers : pool.idleWorkers[i] \in pool.idleTimer

\* The pool's books are what its threads do: until destroy() a task is held
\* by exactly one worker, which runs it and nothing else; afterwards nothing
\* is held, however late the events of the terminated threads come, and at no time
\* is an idle thread forgotten.
BooksAgree == PendingIsHeld /\ OneOutstanding /\ DestroyedIsEmpty /\ IdleTimers

-----------------------------------------------------------------------------
(* Action properties. *)

\* taskCmp: a task taken from the queue for a worker comes before every valid
\* task left in it, lower priority number first, submission order among equals.
QueueOrder ==
  [][\A t \in pool.taskQueue \ pool'.taskQueue : t \in pool'.pendingTasks =>
       \A u \in pool'.taskQueue \ pool'.aborted :
         /\ pool.priority[t] <= pool.priority[u]
         /\ pool.priority[t] = pool.priority[u] => t < u]_vars

\* A task aborted before its worker was ready, or while queued, is never sent.
AbortedNeverSent ==
  [][\A w \in Worker, t \in Task : pool'.port[w] = <<t>> /\ pool.port[w] # <<t>> =>
       t \notin pool.aborted /\ (pool.promise[t] = "pending" \/ pool.promise[t] = "none"
                                  \/ pool.destroyed)]_vars

\* "queued work continues on a replacement": the error or the exit of a worker
\* that had become ready settles no task but the one it held.
CrashIsolated ==
  [][\A w \in pool.ready : OnError(w) \/ OnExit(w) =>
       \A t \in Task : pool'.promise[t] # pool.promise[t] => t = pool.currentTask[w]]_vars

\* drain() resolves only when every caller has been answered and, unless the
\* pool is destroyed, no running thread has a task (an aborted one included).
DrainTruthful ==
  [][pool.drainDeferred /\ ~pool'.drainDeferred =>
       /\ \A t \in Task : pool'.promise[t] # "pending"
       /\ \A w \in Worker : thread'[w].state = "running" /\ ~pool'.destroyed =>
             \A t \in Task : pool'.port[w] # <<t>>]_vars

-----------------------------------------------------------------------------
(* Liveness, under Fairness. *)

\* Every promise run() returned settles: through crashes, failed startups,
\* payloads that cannot be cloned, idle shutdowns and destroy().
EveryTaskSettles ==
  \A t \in Task : pool.promise[t] = "pending" ~> pool.promise[t] # "pending"

\* drain() resolves (run() is called finitely often).
DrainResolves == pool.drainDeferred ~> ~pool.drainDeferred

\* Every destroy() call returns.
DestroyResolves ==
  \A S \in SUBSET Worker : S \in pool.destroying ~> S \notin pool.destroying

\* With an idle timeout the pool falls back to minThreads once calls stop.
ExcessShed == IdleTimeout => <>[](Cardinality(pool.workers) <= MinThreads)

-----------------------------------------------------------------------------
(* What the module's documentation says and the code does not do. *)

\* "Equal-priority tasks run in submission order": when a task is posted to a
\* worker, no earlier task of its priority is still waiting to be posted.
SubmissionOrder ==
  [][\A w \in Worker, t \in Task : pool'.port[w] = <<t>> /\ pool.port[w] # <<t>> =>
       ~\E u \in Task :
          /\ u < t /\ pool.priority[u] = pool.priority[t] /\ pool'.promise[u] = "pending"
          /\ \/ u \in pool'.taskQueue
             \/ \E v \in Worker \ pool'.ready : pool'.currentTask[v] = u]_vars

\* "Maximum number of threads": threads booting or running at one time.
ThreadsBounded ==
  Cardinality({w \in Worker : thread[w].state \in {"booting", "running"}}) <= MaxThreads
=============================================================================
