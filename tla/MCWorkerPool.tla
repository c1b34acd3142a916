---------------------------- MODULE MCWorkerPool ----------------------------
(***************************************************************************)
(* The model of WorkerPool for TLC.  dequeueNextValid, the mutual          *)
(* recursion of markWorkerIdle and postTask, and the loop of tryDispatch   *)
(* are written here iteration by iteration, as recursive functions, and    *)
(* compared with the closed forms of WorkerPool on every argument the      *)
(* handlers call them with (WorkerPoolLoopProofs: for every pool).         *)
(***************************************************************************)
EXTENDS WorkerPool

Least(s) == First(s, s.taskQueue)
Pop(s) == [s EXCEPT !.taskQueue = @ \ {Least(s)}]

DequeueNextValid[s \in PoolState] ==
  IF s.taskQueue = {} THEN [state |-> s, task |-> NoTask]
  ELSE IF Least(s) \notin s.aborted THEN [state |-> Pop(s), task |-> Least(s)]
  ELSE DequeueNextValid[[Pop(s) EXCEPT !.abortedQueued = @ - 1]]

\* postMessage threw: the worker is released and the task rejected
Uncloned(s, w, t) == Settle(Unassign(Assign(s, w, t), w), {t}, "cloneError")

MarkWorkerIdleLoop[x \in PoolState \X Worker] ==
  LET next == DequeueNextValid[x[1]]
      s == next.state
      w == x[2]
      t == next.task
  IN  IF t = NoTask THEN BecomeIdle(s, w)
      ELSE IF t \in s.uncloneable THEN MarkWorkerIdleLoop[<<Uncloned(s, w, t), w>>]
      ELSE SendTask(Assign(s, w, t), w, t)

DispatchTaskLoop(s, w, t) ==
  IF t \in s.uncloneable THEN MarkWorkerIdleLoop[<<Uncloned(s, w, t), w>>]
  ELSE SendTask(Assign(s, w, t), w, t)

\* live # Worker is the bound MaxLive: in the code there is always another thread
TryDispatchLoop[s \in PoolState] ==
  LET next == DequeueNextValid[s]
      d == next.state
      t == next.task
  IN  IF s.taskQueue = {} THEN s
      ELSE IF t = NoTask THEN d
      ELSE IF Usable(d) # {}
           THEN TryDispatchLoop[DispatchTaskLoop(PopIdleWorker(d), IdleTop(d), t)]
      ELSE IF Cardinality(d.workers) < MaxThreads /\ d.live # Worker
           THEN TryDispatchLoop[SpawnWorker(PopIdleWorker(d), t)]
      ELSE [PopIdleWorker(d) EXCEPT !.taskQueue = @ \cup {t}]

\* The closed forms are the loops.  markWorkerIdle, for any worker whose task
\* is done: the first sendable task is sent, uncloneable ones before it are
\* rejected.  tryDispatch, wherever run() or a worker's exit calls it: the
\* loop never finds a place for a second task.
LoopsAgree ==
  /\ \A w \in Worker : LET s == Unassign(pool, w)
                       IN  MarkWorkerIdle(s, w) = MarkWorkerIdleLoop[<<s, w>>]
  /\ \A p \in Priority, cloneable \in Cloneable : CanRun =>
       LET s == NewTask(pool, p, cloneable)
           q == [s EXCEPT !.taskQueue = @ \cup {s.nextTaskId}]
       IN  TryDispatch(q) = TryDispatchLoop[q]
  /\ \A w \in pool.live : ~pool.destroyed =>
       TryDispatch(ReplaceExited(pool, w)) = TryDispatchLoop[ReplaceExited(pool, w)]
=============================================================================
