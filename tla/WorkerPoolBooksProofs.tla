------------------------ MODULE WorkerPoolBooksProofs ------------------------
(***************************************************************************)
(* The books of WorkerPool agree with what its threads do, and what a step *)
(* of the pool may never do, for every number of threads and tasks.        *)
(*                                                                         *)
(* BooksAgree needs more than Inv and ThreadInv: what a thread was sent,   *)
(* and what it has answered, is the task its entry holds (Duty), and a     *)
(* task that is still queued or held is still awaited (Awaited).  What a   *)
(* handler does to the tasks (Moves) and to a worker (Touch) is stated for *)
(* every helper, so that a handler is the composition of its helpers here  *)
(* too; the action properties are read off the composition.                *)
(***************************************************************************)
EXTENDS WorkerPoolProofs

\* kPendingTasks holds exactly what the entries hold, each task once
Held(s) ==
  ~s.destroyed =>
    /\ s.pendingTasks = {s.currentTask[w] : w \in Worker} \ {NoTask}
    /\ \A w \in Worker : s.currentTask[w] # NoTask => w \in s.workers
    /\ \A v, w \in Worker : s.currentTask[v] = s.currentTask[w] /\ s.currentTask[w] # NoTask => v = w

\* a task that is queued, held or in hand is awaited unless it was aborted,
\* and a promise that does not exist yet has not settled
Awaited(s, T) ==
  /\ ~s.destroyed => \A t \in (s.taskQueue \cup s.pendingTasks \cup T) \ s.aborted :
                       s.promise[t] = "pending"
  /\ \A t \in Task : t > s.nextTaskId => s.promise[t] = "none"

\* above minThreads every idle worker has its timer armed
Timed(s) ==
  ~s.destroyed /\ IdleTimeout /\ Cardinality(s.workers) > MinThreads => Idle(s) \subseteq s.idleTimer

Books(s, T) ==
  Held(s) /\ Awaited(s, T) /\ Timed(s) /\ (s.destroying # {} => s.destroyed)

\* a task the pool is done with
Gone(s, t) == t \in 1..s.nextTaskId /\ t \notin s.taskQueue \cup s.pendingTasks

\* what thread w was sent or has answered, against its entry
Duty(s, h, w) ==
  /\ h.err => h.state = "dead"
  /\ ~s.destroyed =>
       /\ h.out # <<>> /\ h.out[1].tag # "READY" =>
            \/ s.currentTask[w] = h.out[1].taskId
            \/ s.currentTask[w] = NoTask /\ Gone(s, h.out[1].taskId)
       /\ h.state = "running" => \A t \in Task : s.port[w] = <<t>> => s.currentTask[w] = t

BooksInv == Books(pool, {}) /\ \A w \in Worker : Duty(pool, thread[w], w)

\* what a handler never changes
Fixed(s, r) ==
  /\ r.nextTaskId = s.nextTaskId /\ r.aborted = s.aborted /\ r.priority = s.priority
  /\ r.uncloneable = s.uncloneable /\ r.destroyed = s.destroyed /\ r.destroying = s.destroying

\* Tasks leave the queue in its order and are held afterwards or not, S being
\* the tasks in hand before, R after; a drain ends with nothing queued or held.
Moves(s, S, r, R) ==
  /\ Fixed(s, r)
  /\ \A t \in Task : r.promise[t] = s.promise[t] \/ s.promise[t] = "pending"
  /\ r.taskQueue \subseteq s.taskQueue
  /\ r.pendingTasks \cup R \subseteq s.pendingTasks \cup s.taskQueue \cup S
  /\ \A t \in s.taskQueue \ r.taskQueue : t \in r.pendingTasks \cup R =>
       \A u \in r.taskQueue : Before(s, t, u)
  /\ s.drainDeferred /\ ~r.drainDeferred => r.taskQueue \cup r.pendingTasks \cup R = {}

\* w was sent the task it holds
Sent(r, w) ==
  /\ r.currentTask[w] \in Task /\ r.currentTask[w] \notin r.aborted
  /\ r.port[w] = <<r.currentTask[w]>>
  /\ ~r.destroyed => r.currentTask[w] \in r.pendingTasks

\* No worker but w gains or loses a task, and w is sent at most the one it holds.
Touch(s, r, w) ==
  /\ \A v \in Worker \ {w} : r.currentTask[v] = s.currentTask[v] /\ r.port[v] = s.port[v]
  /\ r.port[w] = s.port[w] \/ Sent(r, w)

\* Tasks go to threads that were idle or are new, at most one to each.
Spread(s, r) ==
  \A v \in Worker :
    \/ r.currentTask[v] = s.currentTask[v] /\ r.port[v] = s.port[v]
    \/ v \in Idle(s) /\ (r.port[v] = <<>> \/ Sent(r, v))
    \/ v \notin s.live /\ r.port[v] = s.port[v]

-----------------------------------------------------------------------------
(* Moves and Touch compose. *)

\* A handler that calls another moves tasks as the two do one after the other.
LEMMA MovesTransitive ==
  ASSUME NEW s, NEW S, NEW r, NEW R, NEW q, NEW Q, Moves(s, S, r, R), Moves(r, R, q, Q)
  PROVE  Moves(s, S, q, Q)
<1>1. Fixed(s, q) /\ \A t, u : Before(r, t, u) <=> Before(s, t, u)
  BY DEF Moves, Fixed, Before
<1>2. \A t \in Task : q.promise[t] = s.promise[t] \/ s.promise[t] = "pending"
  BY DEF Moves
<1>3. /\ q.taskQueue \subseteq r.taskQueue /\ r.taskQueue \subseteq s.taskQueue
      /\ q.pendingTasks \cup Q \subseteq r.pendingTasks \cup r.taskQueue \cup R
      /\ r.pendingTasks \cup R \subseteq s.pendingTasks \cup s.taskQueue \cup S
  BY DEF Moves
<1>4. ASSUME NEW t \in s.taskQueue \ q.taskQueue, t \in q.pendingTasks \cup Q, NEW u \in q.taskQueue
      PROVE  Before(s, t, u)
  <2>1. CASE t \in r.taskQueue
    BY <1>1, <1>4, <2>1 DEF Moves
  <2>2. CASE t \notin r.taskQueue
    BY <1>3, <1>4, <2>2 DEF Moves
  <2>. QED
    BY <2>1, <2>2
<1>5. s.drainDeferred /\ ~q.drainDeferred => q.taskQueue \cup q.pendingTasks \cup Q = {}
  <2>1. CASE r.drainDeferred
    BY <2>1 DEF Moves
  <2>2. CASE ~r.drainDeferred
    BY <1>3, <2>2 DEF Moves
  <2>. QED
    BY <2>1, <2>2
<1>. QED
  BY <1>1, <1>2, <1>3, <1>4, <1>5 DEF Moves

\* What is in hand may be dropped.
LEMMA MovesDrop ==
  ASSUME NEW s, NEW S, NEW r, NEW R, NEW Q \in SUBSET R, Moves(s, S, r, R)
  PROVE  Moves(s, S, r, Q)
<1>1. \A t \in s.taskQueue \ r.taskQueue : t \in r.pendingTasks \cup Q => t \in r.pendingTasks \cup R
  OBVIOUS
<1>. QED
  BY <1>1 DEF Moves

\* A handler that calls another touches a worker as the two do, if the second
\* sends it nothing or the first did not.
LEMMA TouchTransitive ==
  ASSUME NEW s, NEW r, NEW q, NEW w \in Worker, Touch(s, r, w), Touch(r, q, w),
         r.port[w] = s.port[w] \/ (Sent(r, w) => Sent(q, w))
  PROVE  Touch(s, q, w)
  BY DEF Touch

-----------------------------------------------------------------------------
(* The helpers. *)

\* Popped tasks are in hand, and R, those that may still be held, come before
\* all that is left.
LEMMA PopAllBooks ==
  ASSUME NEW s, TaskInv(s, {}), Books(s, {}), NEW D \in SUBSET s.taskQueue, NEW R \in SUBSET D,
         \A t \in R : \A u \in s.taskQueue \ D : Before(s, t, u)
  PROVE  LET r == PopAll(s, D)
         IN  /\ Books(r, D) /\ Moves(s, {}, r, R)
             /\ r.promise = s.promise /\ r.pendingTasks = s.pendingTasks
             /\ r.taskQueue = s.taskQueue \ D
<1>. DEFINE r == PopAll(s, D)
            a == s.abortedQueued - Cardinality(D \cap s.aborted)
            Q == s.taskQueue \ D
<1>0. s \in PoolState /\ s.taskQueue \cap s.pendingTasks = {} /\ Same(s, r)
  BY PopAllSame DEF TaskInv
<1>1. r = [s EXCEPT !.taskQueue = Q, !.abortedQueued = a]
  BY <1>0 DEF PopAll, PoolState
<1>2. /\ r.taskQueue = Q /\ r.pendingTasks = s.pendingTasks /\ r.promise = s.promise
      /\ r.drainDeferred = s.drainDeferred /\ Fixed(s, r)
  <2>. HIDE DEF a, Q, r
  <2>. QED
    BY <1>0, <1>1 DEF PoolState, Fixed
<1>. HIDE DEF r, a
<1>3. Idle(r) = Idle(s)
  BY <1>0 DEF Same, Idle
<1>4. Held(r) /\ Timed(r)
  BY <1>0, <1>2, <1>3 DEF Books, Held, Timed, Same
<1>5. Awaited(r, D)
  BY <1>2 DEF Books, Awaited, Fixed
<1>6. Books(r, D)
  BY <1>2, <1>4, <1>5 DEF Books, Fixed
<1>7. \A t \in s.taskQueue \ r.taskQueue : t \in r.pendingTasks \cup R => t \in R
  BY <1>0, <1>2
<1>8. Moves(s, {}, r, R)
  BY <1>2, <1>7 DEF Moves
<1>. QED
  BY <1>2, <1>6, <1>8 DEF r

\* Settled tasks are neither queued nor held.
LEMMA SettleBooks ==
  ASSUME NEW s \in PoolState, NEW T \in SUBSET Task, Books(s, T), NEW R, NEW outcome,
         ~s.destroyed => R \cap (s.taskQueue \cup s.pendingTasks) = {}
  PROVE  LET r == Settle(s, R, outcome)
         IN  /\ Books(r, T \ R) /\ Same(s, r) /\ \A S : Moves(s, S, r, S)
             /\ r.taskQueue = s.taskQueue /\ r.pendingTasks = s.pendingTasks
             /\ \A t \in Task : r.promise[t] # s.promise[t] => t \in R
<1>. DEFINE r == Settle(s, R, outcome)
            f == [t \in Task |-> IF t \in R /\ s.promise[t] = "pending"
                                 THEN outcome ELSE s.promise[t]]
<1>0. Same(s, r)
  BY SettleSame
<1>1. r = [s EXCEPT !.promise = f]
  BY DEF Settle
<1>2. /\ r.taskQueue = s.taskQueue /\ r.pendingTasks = s.pendingTasks /\ r.promise = f
      /\ r.drainDeferred = s.drainDeferred /\ Fixed(s, r)
  <2>. HIDE DEF f, r
  <2>. QED
    BY <1>1 DEF PoolState, Fixed
<1>. HIDE DEF r
<1>3. /\ \A t \in Task : r.promise[t] = s.promise[t] \/ (s.promise[t] = "pending" /\ t \in R)
  BY <1>2
<1>. HIDE DEF f
<1>4. Idle(r) = Idle(s)
  BY <1>0 DEF Same, Idle
<1>5. Held(r) /\ Timed(r)
  BY <1>0, <1>2, <1>4 DEF Books, Held, Timed, Same
<1>6. Awaited(r, T \ R)
  <2>1. ASSUME ~r.destroyed, NEW t \in (r.taskQueue \cup r.pendingTasks \cup (T \ R)) \ r.aborted
        PROVE  r.promise[t] = "pending"
    <3>1. t \notin R /\ s.promise[t] = "pending"
      BY <1>2, <2>1 DEF Books, Awaited, Fixed
    <3>2. t \in Task
      BY <1>2, <2>1 DEF PoolState
    <3>. QED
      BY <1>3, <3>1, <3>2
  <2>2. \A t \in Task : t > r.nextTaskId => r.promise[t] = "none"
    <3>1. \A t \in Task : t > r.nextTaskId => s.promise[t] = "none"
      BY <1>2 DEF Books, Awaited, Fixed
    <3>. QED
      BY <1>3, <3>1
  <2>. QED
    BY <2>1, <2>2 DEF Awaited
<1>7. Books(r, T \ R)
  BY <1>2, <1>5, <1>6 DEF Books, Fixed
<1>8. \A S : Moves(s, S, r, S)
  BY <1>2, <1>3 DEF Moves
<1>. QED
  BY <1>0, <1>2, <1>3, <1>7, <1>8 DEF r

\* The same with nothing in hand.
LEMMA SettleDoneBooks ==
  ASSUME NEW s \in PoolState, Books(s, {}), NEW R, NEW outcome,
         ~s.destroyed => R \cap (s.taskQueue \cup s.pendingTasks) = {}
  PROVE  LET r == Settle(s, R, outcome)
         IN  /\ Books(r, {}) /\ Moves(s, {}, r, {}) /\ Same(s, r)
             /\ r.taskQueue = s.taskQueue /\ r.pendingTasks = s.pendingTasks
             /\ \A t \in Task : r.promise[t] # s.promise[t] => t \in R
<1>. DEFINE T == {}
            r == Settle(s, R, outcome)
<1>1. T \in SUBSET Task /\ T \ R = {} /\ Books(s, T)
  OBVIOUS
<1>. HIDE DEF T
<1>2. /\ Books(r, T \ R) /\ Moves(s, T, r, T) /\ Same(s, r)
      /\ r.taskQueue = s.taskQueue /\ r.pendingTasks = s.pendingTasks
      /\ \A t \in Task : r.promise[t] # s.promise[t] => t \in R
  <2>1. Books(r, T \ R) /\ Same(s, r) /\ \A S : Moves(s, S, r, S)
    BY <1>1, SettleBooks
  <2>2. r.taskQueue = s.taskQueue /\ r.pendingTasks = s.pendingTasks
    BY DEF Settle, PoolState
  <2>3. \A t \in Task : r.promise[t] # s.promise[t] => t \in R
    BY DEF Settle, PoolState
  <2>. QED
    BY <2>1, <2>2, <2>3
<1>. HIDE DEF r
<1>. QED
  BY <1>1, <1>2 DEF T, r

\* A worker without a task takes the task in hand.
LEMMA AssignBooks ==
  ASSUME NEW s, NEW t, TaskInv(s, {t}), Books(s, {t}), NEW w \in Worker,
         s.currentTask[w] = NoTask, w \in s.workers \/ s.destroyed
  PROVE  LET r == Assign(s, w, t)
         IN  /\ Books(r, {}) /\ Moves(s, {t}, r, {}) /\ Touch(s, r, w)
             /\ r.port = s.port /\ r.currentTask[w] = t /\ t \in r.pendingTasks
             /\ r.taskQueue = s.taskQueue /\ Fixed(s, r)
<1>. DEFINE r == Assign(s, w, t)
            c == [s.currentTask EXCEPT ![w] = t]
            q == s.pendingTasks \cup {t}
<1>0. s \in PoolState /\ t \in Task /\ t # NoTask /\ t \notin s.taskQueue \cup s.pendingTasks
  BY SMTT(20), BoundsAssumption DEF TaskInv, PoolState, Task, NoTask
<1>1. r = [s EXCEPT !.currentTask = c, !.pendingTasks = q]
  BY <1>0 DEF Assign, PoolState
<1>2. /\ r.taskQueue = s.taskQueue /\ r.pendingTasks = q /\ r.promise = s.promise
      /\ r.drainDeferred = s.drainDeferred /\ Fixed(s, r) /\ r.currentTask = c
      /\ r.port = s.port /\ r.workers = s.workers /\ r.idleWorkers = s.idleWorkers
      /\ r.idleTimer = s.idleTimer
  <2>. HIDE DEF c, q, r
  <2>. QED
    BY <1>0, <1>1 DEF PoolState, Fixed
<1>. HIDE DEF r
<1>3. c[w] = t /\ \A v \in Worker : v # w => c[v] = s.currentTask[v]
  BY <1>0 DEF PoolState
<1>. HIDE DEF c
<1>4. Idle(r) = Idle(s)
  BY <1>2 DEF Idle
<1>5. Held(r)
  <2>. SUFFICES ASSUME ~r.destroyed
                PROVE  /\ q = {c[v] : v \in Worker} \ {NoTask}
                       /\ \A v \in Worker : c[v] # NoTask => v \in s.workers
                       /\ \A v, u \in Worker : c[v] = c[u] /\ c[u] # NoTask => v = u
    BY <1>2 DEF Held
  <2>1. /\ s.pendingTasks = {s.currentTask[v] : v \in Worker} \ {NoTask}
        /\ \A v \in Worker : s.currentTask[v] # NoTask => v \in s.workers
        /\ \A v, u \in Worker : s.currentTask[v] = s.currentTask[u] /\ s.currentTask[u] # NoTask => v = u
        /\ w \in s.workers
    BY <1>2 DEF Books, Held, Fixed
  <2>2. \A v \in Worker : s.currentTask[v] # t
    BY <1>0, <2>1
  <2>3. q = {c[v] : v \in Worker} \ {NoTask}
    <3>1. \A x \in q : \E v \in Worker : x = c[v] /\ x # NoTask
      BY <1>0, <1>3, <2>1
    <3>2. \A v \in Worker : c[v] # NoTask => c[v] \in q
      BY <1>3, <2>1
    <3>. QED
      BY <3>1, <3>2
  <2>4. \A v, u \in Worker : c[v] = c[u] /\ c[u] # NoTask => v = u
    BY <1>3, <2>1, <2>2
  <2>. QED
    BY <1>3, <2>1, <2>3, <2>4
<1>6. Awaited(r, {}) /\ Timed(r)
  BY <1>2, <1>4 DEF Books, Awaited, Timed, Fixed
<1>7. Books(r, {})
  BY <1>2, <1>5, <1>6 DEF Books, Fixed
<1>8. Moves(s, {t}, r, {})
  BY <1>0, <1>2 DEF Moves
<1>9. Touch(s, r, w)
  BY <1>2, <1>3 DEF Touch
<1>. QED
  BY <1>2, <1>3, <1>7, <1>8, <1>9 DEF r

\* A worker gives its task up.
LEMMA UnassignBooks ==
  ASSUME NEW s \in PoolState, NEW T, Books(s, T), NEW w \in Worker, NEW S
  PROVE  LET r == Unassign(s, w)
         IN  /\ Books(r, T) /\ Moves(s, S, r, S) /\ Touch(s, r, w)
             /\ r.port = s.port /\ r.currentTask[w] = NoTask /\ r.promise = s.promise
             /\ r.pendingTasks = s.pendingTasks \ {s.currentTask[w]}
             /\ r.taskQueue = s.taskQueue /\ Fixed(s, r) /\ r.workers = s.workers
             /\ r.idleWorkers = s.idleWorkers
<1>. DEFINE r == Unassign(s, w)
            c == [s.currentTask EXCEPT ![w] = NoTask]
            q == s.pendingTasks \ {s.currentTask[w]}
<1>1. r = [s EXCEPT !.currentTask = c, !.pendingTasks = q]
  BY DEF Unassign, PoolState
<1>2. /\ r.taskQueue = s.taskQueue /\ r.pendingTasks = q /\ r.promise = s.promise
      /\ r.drainDeferred = s.drainDeferred /\ Fixed(s, r) /\ r.currentTask = c
      /\ r.port = s.port /\ r.workers = s.workers /\ r.idleWorkers = s.idleWorkers
      /\ r.idleTimer = s.idleTimer
  <2>. HIDE DEF c, q, r
  <2>. QED
    BY <1>1 DEF PoolState, Fixed
<1>. HIDE DEF r
<1>3. c[w] = NoTask /\ \A v \in Worker : v # w => c[v] = s.currentTask[v]
  BY DEF PoolState
<1>. HIDE DEF c
<1>4. Idle(r) = Idle(s)
  BY <1>2 DEF Idle
<1>5. Held(r)
  <2>. SUFFICES ASSUME ~r.destroyed
                PROVE  /\ q = {c[v] : v \in Worker} \ {NoTask}
                       /\ \A v \in Worker : c[v] # NoTask => v \in s.workers
                       /\ \A v, u \in Worker : c[v] = c[u] /\ c[u] # NoTask => v = u
    BY <1>2 DEF Held
  <2>1. /\ s.pendingTasks = {s.currentTask[v] : v \in Worker} \ {NoTask}
        /\ \A v \in Worker : s.currentTask[v] # NoTask => v \in s.workers
        /\ \A v, u \in Worker : s.currentTask[v] = s.currentTask[u] /\ s.currentTask[u] # NoTask => v = u
    BY <1>2 DEF Books, Held, Fixed
  <2>2. q = {c[v] : v \in Worker} \ {NoTask}
    <3>1. \A x \in q : \E v \in Worker : x = c[v] /\ x # NoTask
      BY <1>3, <2>1
    <3>2. \A v \in Worker : c[v] # NoTask => c[v] \in q
      BY <1>3, <2>1
    <3>. QED
      BY <3>1, <3>2
  <2>. QED
    BY <1>3, <2>1, <2>2
<1>6. Awaited(r, T) /\ Timed(r)
  BY <1>2, <1>4 DEF Books, Awaited, Timed, Fixed
<1>7. Books(r, T)
  BY <1>2, <1>5, <1>6 DEF Books, Fixed
<1>8. Moves(s, S, r, S)
  BY <1>2 DEF Moves
<1>9. Touch(s, r, w)
  BY <1>2, <1>3 DEF Touch
<1>. QED
  BY <1>2, <1>3, <1>7, <1>8, <1>9 DEF r

\* A worker is sent the task it holds.
LEMMA SendBooks ==
  ASSUME NEW s \in PoolState, Books(s, {}), NEW w \in Worker, NEW t \in Task,
         s.currentTask[w] = t, s.port[w] = <<>>, t \notin s.aborted,
         ~s.destroyed => t \in s.pendingTasks
  PROVE  LET r == SendTask(s, w, t)
         IN  Books(r, {}) /\ Moves(s, {}, r, {}) /\ Touch(s, r, w) /\ Sent(r, w)
<1>. DEFINE r == SendTask(s, w, t)
            p == [s.port EXCEPT ![w] = Append(s.port[w], t)]
<1>1. r = [s EXCEPT !.port = p]
  BY DEF SendTask, PoolState
<1>2. /\ r.taskQueue = s.taskQueue /\ r.pendingTasks = s.pendingTasks /\ r.promise = s.promise
      /\ r.drainDeferred = s.drainDeferred /\ Fixed(s, r) /\ r.currentTask = s.currentTask
      /\ r.port = p /\ r.workers = s.workers /\ r.idleWorkers = s.idleWorkers
      /\ r.idleTimer = s.idleTimer
  <2>. HIDE DEF p, r
  <2>. QED
    BY <1>1 DEF PoolState, Fixed
<1>3. \A v \in Worker : v # w => p[v] = s.port[v]
  BY DEF PoolState
<1>4. p[w] = <<t>>
  BY DEF PoolState
<1>. HIDE DEF r, p
<1>5. Idle(r) = Idle(s)
  BY <1>2 DEF Idle
<1>6. Books(r, {})
  BY <1>2, <1>5 DEF Books, Held, Awaited, Timed, Fixed
<1>7. Moves(s, {}, r, {})
  BY <1>2 DEF Moves
<1>8. Sent(r, w)
  BY <1>2, <1>4 DEF Sent, Fixed
<1>9. Touch(s, r, w)
  BY <1>2, <1>3, <1>8 DEF Touch
<1>. QED
  BY <1>6, <1>7, <1>8, <1>9 DEF r

\* maybeResolveDrain ends a drain when nothing is queued or held.
LEMMA MaybeResolveDrainBooks ==
  ASSUME NEW s \in PoolState, Books(s, {})
  PROVE  LET r == MaybeResolveDrain(s)
         IN  /\ Books(r, {}) /\ Moves(s, {}, r, {}) /\ Same(s, r)
             /\ r.promise = s.promise /\ r.pendingTasks = s.pendingTasks
<1>. DEFINE r == MaybeResolveDrain(s)
            b == s.drainDeferred /\ (s.pendingTasks # {} \/ s.taskQueue # {})
<1>0. Same(s, r)
  BY MaybeResolveDrainSame
<1>1. r = [s EXCEPT !.drainDeferred = b]
  BY DEF MaybeResolveDrain, PoolState
<1>2. /\ r.taskQueue = s.taskQueue /\ r.pendingTasks = s.pendingTasks /\ r.promise = s.promise
      /\ r.drainDeferred = b /\ Fixed(s, r)
  <2>. HIDE DEF b, r
  <2>. QED
    BY <1>1 DEF PoolState, Fixed
<1>. HIDE DEF r
<1>3. Idle(r) = Idle(s)
  BY <1>0 DEF Same, Idle
<1>4. Books(r, {})
  BY <1>0, <1>2, <1>3 DEF Books, Held, Awaited, Timed, Fixed, Same
<1>5. Moves(s, {}, r, {})
  BY <1>2 DEF Moves
<1>. QED
  BY <1>0, <1>2, <1>4, <1>5 DEF r

\* A worker joins the idle stack, with its timer armed above minThreads.
LEMMA BecomeIdleBooks ==
  ASSUME NEW s \in PoolState, IdleInv(s), Books(s, {}), NEW w \in Worker, Free(s, w)
  PROVE  LET r == BecomeIdle(s, w)
         IN  Books(r, {}) /\ Moves(s, {}, r, {}) /\ Touch(s, r, w) /\ r.port = s.port
<1>. DEFINE i == Append(s.idleWorkers, w)
            m == IF IdleTimeout /\ Cardinality(s.workers) > MinThreads
                 THEN s.idleTimer \cup {w} ELSE s.idleTimer
            r == [s EXCEPT !.idleWorkers = i, !.idleTimer = m]
            q == MaybeResolveDrain(r)
<1>1. BecomeIdle(s, w) = q /\ i \in Seq(Worker) /\ m \in SUBSET Worker
  BY DEF BecomeIdle, PoolState
<1>2. /\ r \in PoolState /\ r.port = s.port /\ r.workers = s.workers /\ Fixed(s, r)
      /\ r.currentTask = s.currentTask /\ r.promise = s.promise /\ r.taskQueue = s.taskQueue
      /\ r.pendingTasks = s.pendingTasks /\ r.drainDeferred = s.drainDeferred
      /\ r.idleWorkers = i /\ r.idleTimer = m
  <2>. HIDE DEF i, m
  <2>. QED
    BY <1>1 DEF PoolState, Fixed
<1>3. Range(i) = Idle(s) \cup {w}
  BY PushIdle DEF IdleInv, Free, Idle, PoolState
<1>4. /\ IdleTimeout /\ Cardinality(s.workers) > MinThreads => w \in m
      /\ s.idleTimer \subseteq m
  OBVIOUS
<1>. HIDE DEF i, m, r
<1>5. Idle(r) = Idle(s) \cup {w}
  BY <1>2, <1>3 DEF Idle
<1>6. Timed(r)
  BY <1>2, <1>4, <1>5 DEF Books, Timed, Fixed
<1>7. Books(r, {})
  BY <1>2, <1>6 DEF Books, Held, Awaited, Fixed
<1>8. Moves(s, {}, r, {})
  BY <1>2 DEF Moves
<1>9. Books(q, {}) /\ Moves(r, {}, q, {}) /\ Same(r, q)
  BY <1>2, <1>7, MaybeResolveDrainBooks
<1>. HIDE DEF q
<1>10. q.port = s.port /\ Touch(s, q, w)
  BY <1>2, <1>9 DEF Touch, Same
<1>. QED
  BY <1>1, <1>8, <1>9, <1>10, MovesTransitive

\* What popIdleWorker takes off the stack loses its timer.
LEMMA PopIdleWorkerBooks ==
  ASSUME NEW s \in PoolState, IdleInv(s), NEW T, Books(s, T), NEW S
  PROVE  LET r == PopIdleWorker(s)
         IN  /\ Books(r, T) /\ Moves(s, S, r, S)
             /\ r.currentTask = s.currentTask /\ r.port = s.port /\ r.promise = s.promise
             /\ r.taskQueue = s.taskQueue /\ r.pendingTasks = s.pendingTasks
             /\ r.workers = s.workers /\ r.live = s.live
             /\ Usable(s) = {} => Idle(r) = {}
<1>. DEFINE q == s.idleWorkers
            n == Len(q)
            r == PopIdleWorker(s)
<1>1. q \in Seq(Worker) /\ n \in Nat /\ DOMAIN q = 1..n
  BY DEF PoolState
<1>2. \A i \in 1..n : q[i] \in Idle(s) /\ q[i] \in Worker
  BY <1>1 DEF Idle, Range
<1>3. Usable(s) = 1..n
  BY <1>1, <1>2 DEF Usable, IdleInv
<1>4. /\ Fixed(s, r) /\ r.port = s.port /\ r.workers = s.workers /\ r.live = s.live
      /\ r.currentTask = s.currentTask /\ r.promise = s.promise /\ r.taskQueue = s.taskQueue
      /\ r.pendingTasks = s.pendingTasks /\ r.drainDeferred = s.drainDeferred
      /\ Idle(r) \ r.idleTimer \subseteq Idle(s) \ s.idleTimer
      /\ Usable(s) = {} => Idle(r) = {}
  <2>1. CASE n = 0
    <3>1. q = <<>> /\ Usable(s) = {}
      BY <1>1, <1>3, <2>1
    <3>2. r = [s EXCEPT !.idleWorkers = <<>>]
      BY <3>1 DEF PopIdleWorker
    <3>3. r = s
      BY <3>1, <3>2 DEF PoolState
    <3>4. Idle(s) = {}
      BY <3>1 DEF Idle, Range
    <3>. HIDE DEF r
    <3>. QED
      BY <3>3, <3>4 DEF Fixed
  <2>2. CASE n # 0
    <3>. DEFINE i == SubSeq(q, 1, n - 1)
                m == s.idleTimer \ {q[n]}
    <3>1. Max(Usable(s)) = n
      <4>1. n \in 1..n /\ \A j \in 1..n : n >= j
        BY <1>1, <2>2
      <4>2. \A k \in 1..n : (\A j \in 1..n : k >= j) => k = n
        BY <1>1, <4>1
      <4>. QED
        BY <1>3, <4>1, <4>2 DEF Max
    <3>2. Usable(s) # {} /\ IdleTop(s) = q[n] /\ q # <<>>
      <4>1. n \in Usable(s)
        BY <1>1, <1>3, <2>2
      <4>2. IdleTop(s) = q[n]
        BY <3>1 DEF IdleTop
      <4>3. q # <<>>
        BY <1>1, <2>2
      <4>. QED
        BY <4>1, <4>2, <4>3
    <3>3. Range(i) = Idle(s) \ {q[n]}
      BY <1>1, <3>2, PopIdle DEF IdleInv, Idle
    <3>4. r = [s EXCEPT !.idleWorkers = i, !.idleTimer = m]
      BY <3>1, <3>2 DEF PopIdleWorker
    <3>5. /\ Fixed(s, r) /\ r.port = s.port /\ r.workers = s.workers /\ r.live = s.live
          /\ r.currentTask = s.currentTask /\ r.promise = s.promise /\ r.taskQueue = s.taskQueue
          /\ r.pendingTasks = s.pendingTasks /\ r.drainDeferred = s.drainDeferred
          /\ r.idleWorkers = i /\ r.idleTimer = m
      <4>. HIDE DEF i, m, r
      <4>. QED
        BY <3>4 DEF PoolState, Fixed
    <3>. HIDE DEF i, r
    <3>. QED
      BY <3>2, <3>3, <3>5 DEF Idle
  <2>. QED
    BY <2>1, <2>2
<1>. HIDE DEF r
<1>5. Books(r, T)
  BY <1>4 DEF Books, Held, Awaited, Timed, Fixed
<1>6. Moves(s, S, r, S)
  BY <1>4 DEF Moves
<1>. QED
  BY <1>4, <1>5, <1>6 DEF r

\* A started thread, with the task in hand or none.  The pool has no idle
\* worker then, or stays within minThreads.
LEMMA SpawnWorkerBooks ==
  ASSUME NEW s, NEW T, TaskInv(s, T), IdleInv(s), Books(s, T), s.live # Worker,
         s.workers \subseteq s.live, NEW t \in {NoTask} \cup T, T \subseteq {t}, ~s.destroyed,
         Idle(s) = {} \/ Cardinality(s.workers) < MinThreads
  PROVE  LET r == SpawnWorker(s, t)
         IN  /\ Books(r, {}) /\ Moves(s, T, r, {})
             /\ r.port = s.port /\ r.promise = s.promise /\ r.taskQueue = s.taskQueue
             /\ \A v \in s.live : r.currentTask[v] = s.currentTask[v]
             /\ r.idleWorkers = s.idleWorkers
<1>. DEFINE w == FreshWorker(s)
            r == SpawnWorker(s, t)
            W == s.workers \cup {w}
            L == s.live \cup {w}
            c == [s.currentTask EXCEPT ![w] = t]
            q == s.pendingTasks \cup ({t} \ {NoTask})
<1>0. /\ s \in PoolState /\ t \notin s.taskQueue \cup s.pendingTasks /\ s.live \subseteq Worker
      /\ t # NoTask => t \in T
  BY BoundsAssumption DEF TaskInv, PoolState, Task, NoTask
<1>1. w \in Worker /\ w \notin s.live
  <2>1. \E v \in Worker : v \notin s.live
    BY <1>0
  <2>. QED
    BY <2>1 DEF FreshWorker
<1>. HIDE DEF w
<1>2. r = [s EXCEPT !.workers = W, !.live = L, !.currentTask = c, !.pendingTasks = q]
  BY <1>0 DEF SpawnWorker, PoolState, w
<1>3. /\ r.port = s.port /\ r.workers = W /\ Fixed(s, r) /\ r.currentTask = c
      /\ r.idleWorkers = s.idleWorkers /\ r.idleTimer = s.idleTimer
      /\ r.promise = s.promise /\ r.taskQueue = s.taskQueue /\ r.pendingTasks = q
      /\ r.drainDeferred = s.drainDeferred
  <2>. HIDE DEF W, L, c, q, r
  <2>. QED
    BY <1>0, <1>2 DEF PoolState, Fixed
<1>4. c[w] = t /\ \A v \in Worker : v # w => c[v] = s.currentTask[v]
  BY <1>0, <1>1 DEF PoolState
<1>. HIDE DEF r, c
<1>5. Idle(r) = Idle(s) /\ s.currentTask[w] = NoTask
  BY <1>1, <1>3 DEF Idle, IdleInv
<1>6. Timed(r)
  <2>1. CASE Idle(s) = {}
    BY <1>5, <2>1 DEF Timed
  <2>2. CASE Cardinality(s.workers) < MinThreads
    <3>1. IsFiniteSet(s.workers) /\ Cardinality(s.workers) \in Nat
      BY <1>0, WorkersFinite DEF PoolState
    <3>2. Cardinality(W) = Cardinality(s.workers) + 1
      BY <1>1, <3>1, FS_AddElement
    <3>3. ~(Cardinality(r.workers) > MinThreads)
      BY <1>3, <2>2, <3>1, <3>2, ThreadsAssumption
    <3>. QED
      BY <3>3 DEF Timed
  <2>. QED
    BY <2>1, <2>2
<1>7. Held(r)
  <2>. SUFFICES /\ q = {c[v] : v \in Worker} \ {NoTask}
                /\ \A v \in Worker : c[v] # NoTask => v \in W
                /\ \A v, u \in Worker : c[v] = c[u] /\ c[u] # NoTask => v = u
    BY <1>3 DEF Held
  <2>1. /\ s.pendingTasks = {s.currentTask[v] : v \in Worker} \ {NoTask}
        /\ \A v \in Worker : s.currentTask[v] # NoTask => v \in s.workers
        /\ \A v, u \in Worker : s.currentTask[v] = s.currentTask[u] /\ s.currentTask[u] # NoTask => v = u
    BY <1>3 DEF Books, Held
  <2>2. \A v \in Worker : s.currentTask[v] = t => t = NoTask
    BY <1>0, <2>1
  <2>3. q = {c[v] : v \in Worker} \ {NoTask}
    <3>1. \A x \in q : \E v \in Worker : x = c[v] /\ x # NoTask
      BY <1>1, <1>4, <1>5, <2>1
    <3>2. \A v \in Worker : c[v] # NoTask => c[v] \in q
      BY <1>4, <2>1
    <3>. QED
      BY <3>1, <3>2
  <2>4. \A v, u \in Worker : c[v] = c[u] /\ c[u] # NoTask => v = u
    BY <1>4, <2>1, <2>2
  <2>. QED
    BY <1>4, <2>1, <2>3, <2>4
<1>8. Awaited(r, {})
  BY <1>0, <1>3 DEF Books, Awaited, Fixed
<1>9. Books(r, {})
  BY <1>3, <1>6, <1>7, <1>8 DEF Books, Fixed
<1>10. Moves(s, T, r, {})
  BY <1>0, <1>3 DEF Moves
<1>11. \A v \in s.live : r.currentTask[v] = s.currentTask[v]
  BY <1>0, <1>1, <1>3, <1>4
<1>. QED
  BY <1>3, <1>9, <1>10, <1>11 DEF r

\* Only aborted tasks are dropped, and no worker is touched.
LEMMA SkipAbortedBooks ==
  ASSUME NEW s, TaskInv(s, {}), Books(s, {})
  PROVE  LET r == SkipAborted(s)
         IN  /\ Books(r, {}) /\ Moves(s, {}, r, {}) /\ Same(s, r)
             /\ r.promise = s.promise /\ r.pendingTasks = s.pendingTasks
<1>. DEFINE D == IF Valid(s) = {} THEN s.taskQueue ELSE UpTo(s, First(s, Valid(s))) \cap s.aborted
            r == PopAll(s, D)
<1>1. D \in SUBSET s.taskQueue /\ D \subseteq s.aborted /\ SkipAborted(s) = r
  BY DEF SkipAborted, UpTo, Valid
<1>. HIDE DEF D
<1>2. /\ Books(r, D) /\ Moves(s, {}, r, {}) /\ r.promise = s.promise
      /\ r.pendingTasks = s.pendingTasks
  <2>1. {} \in SUBSET D
    OBVIOUS
  <2>. QED
    BY <1>1, <2>1, PopAllBooks
<1>3. Same(s, r)
  BY PopAllSame DEF TaskInv
<1>. HIDE DEF r
<1>4. Books(r, {})
  BY <1>1, <1>2 DEF Books, Awaited
<1>. QED
  BY <1>1, <1>2, <1>3, <1>4

\* What is left when t and the tasks before it are popped comes after t.
LEMMA UpToIsFirst ==
  ASSUME NEW s \in PoolState, NEW t \in s.taskQueue
  PROVE  /\ t \in UpTo(s, t) /\ UpTo(s, t) \in SUBSET s.taskQueue
         /\ \A u \in s.taskQueue \ UpTo(s, t) : Before(s, t, u)
<1>1. t \in Task
  BY DEF PoolState
<1>. QED
  BY <1>1, NotBeforeItself DEF UpTo

\* markWorkerIdle: the next valid task goes to the worker, or it becomes idle.
LEMMA MarkWorkerIdleBooks ==
  ASSUME NEW s, TaskInv(s, {}), IdleInv(s), Books(s, {}),
         NEW w \in Worker, Free(s, w), s.currentTask[w] = NoTask
  PROVE  LET r == MarkWorkerIdle(s, w)
         IN  Books(r, {}) /\ Moves(s, {}, r, {}) /\ Touch(s, r, w)
<1>. DEFINE sendable == Valid(s) \ s.uncloneable
            t == First(s, sendable)
<1>0. /\ s \in PoolState /\ s.taskQueue \in SUBSET Task /\ s.port[w] = <<>>
      /\ s.taskQueue \cap s.pendingTasks = {} /\ (s.destroyed => s.taskQueue = {})
  BY DEF TaskInv, PoolState, Free
<1>1. CASE sendable = {}
  <2>. DEFINE p == PopAll(s, s.taskQueue)
              r == Settle(p, Valid(s), "cloneError")
  <2>1. MarkWorkerIdle(s, w) = BecomeIdle(r, w)
    BY <1>1 DEF MarkWorkerIdle
  <2>2. /\ Books(p, s.taskQueue) /\ Moves(s, {}, p, {}) /\ p.taskQueue = {}
        /\ p.pendingTasks = s.pendingTasks /\ Same(s, p)
    <3>1. s.taskQueue \in SUBSET s.taskQueue /\ {} \in SUBSET s.taskQueue
      OBVIOUS
    <3>. QED
      BY <1>0, <3>1, PopAllBooks, PopAllSame
  <2>3. p \in PoolState
    <3>. DEFINE T == {} \cup (s.taskQueue \ s.aborted)
    <3>1. TaskInv(p, T)
      BY PopAllInv
    <3>. HIDE DEF p, T
    <3>. QED
      BY <3>1 DEF TaskInv
  <2>. HIDE DEF p
  <2>4. Valid(s) \cap (p.taskQueue \cup p.pendingTasks) = {}
    BY <1>0, <2>2 DEF Valid
  <2>5. /\ Books(r, s.taskQueue \ Valid(s)) /\ Moves(p, {}, r, {}) /\ Same(p, r)
    BY <1>0, <2>2, <2>3, <2>4, SettleBooks
  <2>6. r \in PoolState
    BY PopSettleSame DEF Outcome, Rejection, p
  <2>. HIDE DEF r
  <2>7. Same(s, r) /\ Books(r, {})
    BY <2>2, <2>5, SameTransitive DEF Books, Awaited
  <2>8. IdleInv(r) /\ Free(r, w)
    BY <2>7, SameIdle
  <2>9. LET q == BecomeIdle(r, w)
        IN  Books(q, {}) /\ Moves(r, {}, q, {}) /\ Touch(r, q, w)
    BY <2>6, <2>7, <2>8, BecomeIdleBooks
  <2>10. Touch(s, BecomeIdle(r, w), w)
    BY <2>7, <2>9 DEF Touch, Same
  <2>. QED
    BY <2>1, <2>2, <2>5, <2>9, <2>10, MovesTransitive
<1>2. CASE sendable # {}
  <2>. DEFINE U == UpTo(s, t)
              R == (U \ s.aborted) \ {t}
              p == PopAll(s, U)
              r == Settle(p, R, "cloneError")
              a == Assign(r, w, t)
  <2>1. MarkWorkerIdle(s, w) = SendTask(a, w, t)
    BY <1>2 DEF MarkWorkerIdle
  <2>2. t \in s.taskQueue /\ t \notin s.aborted /\ t \in Task
    BY <1>0, <1>2, FirstIsLeast DEF Valid
  <2>. HIDE DEF t
  <2>3. t \in U /\ U \in SUBSET s.taskQueue /\ \A u \in s.taskQueue \ U : Before(s, t, u)
    BY <1>0, <2>2, UpToIsFirst
  <2>. HIDE DEF U
  <2>4. /\ Books(p, U) /\ Moves(s, {}, p, {t}) /\ p.taskQueue = s.taskQueue \ U
        /\ p.pendingTasks = s.pendingTasks /\ Same(s, p)
    BY <1>0, <2>3, PopAllBooks, PopAllSame
  <2>5. TaskInv(p, {} \cup (U \ s.aborted))
    BY <2>3, PopAllInv
  <2>6. TaskInv(r, ({} \cup (U \ s.aborted)) \ R)
    <3>. HIDE DEF p, R
    <3>. QED
      BY <2>5, SettleInv DEF Outcome, Rejection
  <2>7. ({} \cup (U \ s.aborted)) \ R = {t}
    BY <2>2, <2>3
  <2>8. p \in PoolState
    <3>. HIDE DEF p
    <3>. QED
      BY <2>5 DEF TaskInv
  <2>. HIDE DEF p
  <2>9. R \cap (p.taskQueue \cup p.pendingTasks) = {}
    BY <1>0, <2>3, <2>4
  <2>10. /\ Books(r, U \ R) /\ Moves(p, {t}, r, {t}) /\ Same(p, r)
    <3>1. U \in SUBSET Task
      BY <1>0, <2>3
    <3>. HIDE DEF R
    <3>. QED
      BY <2>4, <2>8, <2>9, <3>1, SettleBooks
  <2>11. t \in U \ R
    BY <2>3
  <2>12. TaskInv(r, {t})
    BY <2>6, <2>7
  <2>. HIDE DEF r, R
  <2>13. Books(r, {t}) /\ Same(s, r) /\ Moves(s, {}, r, {t})
    BY <2>4, <2>10, <2>11, SameTransitive, MovesTransitive DEF Books, Awaited
  <2>14. r.currentTask[w] = NoTask /\ (w \in r.workers \/ r.destroyed) /\ r.port = s.port
         /\ r.currentTask = s.currentTask
    BY <2>13 DEF Same, Free
  <2>15. /\ Books(a, {}) /\ Moves(r, {t}, a, {}) /\ Touch(r, a, w) /\ a.port = r.port
         /\ a.currentTask[w] = t /\ t \in a.pendingTasks /\ Fixed(r, a)
    <3>1. r.currentTask[w] = NoTask
      BY <2>14
    <3>2. w \in r.workers \/ r.destroyed
      BY <2>14
    <3>3. Books(r, {t})
      BY <2>13
    <3>4. TaskInv(r, {t})
      BY <2>12
    <3>. QED
      BY <3>1, <3>2, <3>3, <3>4, AssignBooks
  <2>16. a \in PoolState
    <3>1. TaskInv(a, {t} \ {t})
      BY <2>12, AssignInv
    <3>. HIDE DEF a
    <3>. QED
      BY <3>1 DEF TaskInv
  <2>. HIDE DEF a
  <2>17. a.port[w] = <<>> /\ t \notin a.aborted
    BY <1>0, <2>2, <2>13, <2>14, <2>15 DEF Moves, Fixed
  <2>18. LET q == SendTask(a, w, t)
         IN  Books(q, {}) /\ Moves(a, {}, q, {}) /\ Touch(a, q, w) /\ Sent(q, w)
    BY <2>2, <2>15, <2>16, <2>17, SendBooks
  <2>19. Touch(s, SendTask(a, w, t), w)
    BY <2>14, <2>15, <2>18 DEF Touch
  <2>20. Moves(s, {}, SendTask(a, w, t), {})
    BY <2>13, <2>15, <2>18, MovesTransitive
  <2>. QED
    BY <2>1, <2>18, <2>19, <2>20
<1>. QED
  BY <1>1, <1>2

\* postTask: the worker is sent its task, or the task is rejected and the
\* worker takes the next one.
LEMMA PostTaskBooks ==
  ASSUME NEW s, TaskInv(s, {}), IdleInv(s), Books(s, {}), s.destroyed => s.workers = {},
         NEW w \in Worker, Free(s, w), NEW t \in Task, s.currentTask[w] = t, t \notin s.aborted
  PROVE  LET r == PostTask(s, w, t)
         IN  Books(r, {}) /\ Moves(s, {}, r, {}) /\ Touch(s, r, w)
<1>0. /\ s \in PoolState /\ t # NoTask /\ s.taskQueue \cap s.pendingTasks = {}
      /\ s.port[w] = <<>>
  BY BoundsAssumption DEF TaskInv, Task, NoTask, Free
<1>1. ~s.destroyed => t \in s.pendingTasks
  BY <1>0 DEF Books, Held
<1>2. CASE t \in s.uncloneable
  <2>. DEFINE u == Unassign(s, w)
              r == Settle(u, {t}, "cloneError")
              q == MarkWorkerIdle(r, w)
  <2>1. PostTask(s, w, t) = q
    BY <1>2 DEF PostTask
  <2>2. TaskInv(r, {})
    BY SettleHeldInv DEF Outcome, Rejection
  <2>3. IdleInv(u) /\ Free(u, w)
    BY <1>0, UnassignIdle
  <2>4. /\ Books(u, {}) /\ Moves(s, {}, u, {}) /\ Touch(s, u, w) /\ u.currentTask[w] = NoTask
        /\ u.port = s.port /\ u.taskQueue = s.taskQueue /\ Fixed(s, u)
        /\ u.pendingTasks = s.pendingTasks \ {t}
    BY <1>0, UnassignBooks
  <2>5. u \in PoolState
    BY UnassignDrops
  <2>. HIDE DEF u
  <2>6. ~u.destroyed => {t} \cap (u.taskQueue \cup u.pendingTasks) = {}
    BY <1>0, <1>1, <2>4 DEF Fixed
  <2>7. Books(r, {} \ {t}) /\ Moves(u, {}, r, {}) /\ Same(u, r)
    <3>1. {} \in SUBSET Task
      OBVIOUS
    <3>. QED
      BY <2>4, <2>5, <2>6, <3>1, SettleBooks
  <2>8. {} \ {t} = {}
    OBVIOUS
  <2>. HIDE DEF r
  <2>9. Books(r, {}) /\ IdleInv(r) /\ Free(r, w) /\ r.currentTask[w] = NoTask
    BY <2>3, <2>4, <2>7, <2>8, SameIdle DEF Same
  <2>10. Books(q, {}) /\ Moves(r, {}, q, {}) /\ Touch(r, q, w)
    BY <2>2, <2>9, MarkWorkerIdleBooks
  <2>. HIDE DEF q
  <2>11. Touch(s, q, w)
    BY <2>4, <2>7, <2>10 DEF Touch, Same
  <2>. QED
    BY <2>1, <2>4, <2>7, <2>10, <2>11, MovesTransitive
<1>3. CASE t \notin s.uncloneable
  <2>1. PostTask(s, w, t) = SendTask(s, w, t)
    BY <1>3 DEF PostTask
  <2>. QED
    BY <1>0, <1>1, <2>1, SendBooks
<1>. QED
  BY <1>2, <1>3

\* dispatchTask: the task in hand goes to a worker without one.
LEMMA DispatchTaskBooks ==
  ASSUME NEW s, NEW t \in Task, TaskInv(s, {t}), IdleInv(s), Books(s, {t}),
         s.destroyed => s.workers = {}, NEW w \in Worker, Free(s, w),
         s.currentTask[w] = NoTask, t \notin s.aborted
  PROVE  LET r == DispatchTask(s, w, t)
         IN  Books(r, {}) /\ Moves(s, {t}, r, {}) /\ Touch(s, r, w)
<1>. DEFINE a == Assign(s, w, t)
            q == PostTask(a, w, t)
<1>0. s \in PoolState /\ w \notin Idle(s) /\ w \in s.live /\ (w \in s.workers \/ s.destroyed)
  BY DEF TaskInv, Free
<1>1. IdleInv(a) /\ Only(s, a, w) /\ Free(a, w)
  BY <1>0, AssignIdle
<1>2. TaskInv(a, {t} \ {t})
  BY AssignInv
<1>3. /\ Books(a, {}) /\ Moves(s, {t}, a, {}) /\ Touch(s, a, w) /\ a.port = s.port
      /\ a.currentTask[w] = t /\ Fixed(s, a)
  BY <1>0, AssignBooks
<1>. HIDE DEF a
<1>4. TaskInv(a, {}) /\ (a.destroyed => a.workers = {}) /\ t \notin a.aborted
  <2>1. {t} \ {t} = {}
    OBVIOUS
  <2>. QED
    BY <1>1, <1>2, <1>3, <2>1 DEF Only, Fixed
<1>5. Books(q, {}) /\ Moves(a, {}, q, {}) /\ Touch(a, q, w)
  BY <1>1, <1>3, <1>4, PostTaskBooks
<1>6. DispatchTask(s, w, t) = q
  BY DEF DispatchTask, a
<1>. HIDE DEF q
<1>7. Touch(s, q, w)
  BY <1>3, <1>5 DEF Touch
<1>. QED
  BY <1>3, <1>5, <1>6, <1>7, MovesTransitive

\* tryDispatch places the first valid task, on an idle worker or a new one;
\* with no worker idle it settles nothing, and with no slot left it starts
\* nothing either.
LEMMA TryDispatchBooks ==
  ASSUME NEW s, TaskInv(s, {}), IdleInv(s), Books(s, {}), ~s.destroyed, s.workers \subseteq s.live,
         s.taskQueue # {} /\ Cardinality(s.workers) < MaxThreads => s.live # Worker
  PROVE  LET r == TryDispatch(s)
         IN  /\ Books(r, {}) /\ Moves(s, {}, r, {}) /\ Spread(s, r)
             /\ Idle(s) = {} => r.promise = s.promise
             /\ Idle(s) = {} /\ ~(Cardinality(s.workers) < MaxThreads)
                  => r.pendingTasks = s.pendingTasks
<1>. DEFINE t == First(s, Valid(s))
            U == UpTo(s, t)
            p == PopAll(s, U)
            d == PopIdleWorker(p)
            r == TryDispatch(s)
<1>0. s \in PoolState /\ s.taskQueue \in SUBSET Task /\ Idle(s) \subseteq Worker
  BY IdleWorkersType DEF TaskInv, PoolState
<1>1. CASE Valid(s) = {}
  <2>1. r = SkipAborted(s)
    BY <1>1 DEF TryDispatch
  <2>2. /\ Books(r, {}) /\ Moves(s, {}, r, {}) /\ Same(s, r) /\ r.promise = s.promise
        /\ r.pendingTasks = s.pendingTasks
    BY <2>1, SkipAbortedBooks
  <2>. HIDE DEF r
  <2>3. Spread(s, r)
    BY <2>2 DEF Spread, Same
  <2>. QED
    BY <2>2, <2>3 DEF r
<1>2. CASE Valid(s) # {}
  <2>1. /\ TaskInv(p, {t}) /\ Quiet(s, p)
        /\ Usable(p) = Usable(s) /\ IdleTop(p) = IdleTop(s)
    BY <1>2, PopFirstInv
  <2>2. t \in s.taskQueue /\ t \notin s.aborted /\ t \in Task
    BY <1>0, <1>2, FirstIsLeast DEF Valid
  <2>3. SkipAborted(DispatchTask(d, IdleTop(s), t)) = r \/ Usable(s) = {}
    BY <1>2 DEF TryDispatch
  <2>4. Usable(s) = {} /\ Cardinality(s.workers) < MaxThreads => r = SkipAborted(SpawnWorker(d, t))
    BY <1>2 DEF TryDispatch
  <2>5. Usable(s) = {} /\ ~(Cardinality(s.workers) < MaxThreads) => r = SkipAborted(PopIdleWorker(s))
    BY <1>2 DEF TryDispatch
  <2>. HIDE DEF t, r
  <2>6. t \in U /\ U \in SUBSET s.taskQueue /\ \A u \in s.taskQueue \ U : Before(s, t, u)
    BY <1>0, <2>2, UpToIsFirst
  <2>. HIDE DEF U
  <2>7. /\ Books(p, U) /\ Moves(s, {}, p, {t}) /\ p.promise = s.promise /\ Same(s, p)
    BY <1>0, <2>6, PopAllBooks, PopAllSame
  <2>. HIDE DEF p
  <2>8. Books(p, {t}) /\ IdleInv(p) /\ p \in PoolState
    BY <2>1, <2>6, <2>7, SameIdle DEF Books, Awaited, TaskInv
  <2>9. /\ Books(d, {t}) /\ Moves(p, {t}, d, {t}) /\ d.promise = p.promise
        /\ d.currentTask = p.currentTask /\ d.port = p.port
        /\ d.workers = p.workers /\ d.live = p.live /\ (Usable(p) = {} => Idle(d) = {})
    BY <2>8, PopIdleWorkerBooks
  <2>10. /\ IdleInv(d)
         /\ Usable(s) # {} => /\ IdleTop(s) \in Worker /\ IdleTop(s) \in Idle(p)
                              /\ Free(d, IdleTop(s))
    BY <2>1, <2>8, PopIdleWorkerIdle
  <2>11. TaskInv(d, {t})
    BY <2>1, PopIdleWorkerInv
  <2>. HIDE DEF d
  <2>12. /\ Moves(s, {}, d, {t}) /\ d.promise = s.promise /\ d.currentTask = s.currentTask
         /\ d.port = s.port /\ d.workers = s.workers /\ d.live = s.live
         /\ ~d.destroyed /\ t \notin d.aborted /\ Idle(p) = Idle(s)
    <3>1. Moves(s, {}, d, {t})
      BY <2>7, <2>9, MovesTransitive
    <3>. QED
      BY <2>2, <2>7, <2>9, <3>1 DEF Moves, Fixed, Same, Idle
  <2>13. CASE Usable(s) # {}
    <3>. DEFINE w == IdleTop(s)
                e == DispatchTask(d, w, t)
    <3>1. w \in Worker /\ w \in Idle(s) /\ Free(d, w) /\ d.currentTask[w] = NoTask /\ s.port[w] = <<>>
      BY <2>10, <2>12, <2>13 DEF IdleInv
    <3>2. TaskInv(e, {})
      BY <2>2, <2>11, <3>1, DispatchTaskInv
    <3>. HIDE DEF w
    <3>3. Books(e, {}) /\ Moves(d, {t}, e, {}) /\ Touch(d, e, w)
      BY <2>2, <2>9, <2>10, <2>11, <2>12, <3>1, DispatchTaskBooks
    <3>4. r = SkipAborted(e)
      BY <2>3, <2>13 DEF w
    <3>. HIDE DEF e
    <3>5. Books(r, {}) /\ Moves(e, {}, r, {}) /\ Same(e, r) /\ r.pendingTasks = e.pendingTasks
      BY <3>2, <3>3, <3>4, SkipAbortedBooks
    <3>6. Moves(s, {}, r, {})
      BY <2>12, <3>3, <3>5, MovesTransitive
    <3>7. Spread(s, r)
      <4>1. \A v \in Worker : v # w => r.currentTask[v] = s.currentTask[v] /\ r.port[v] = s.port[v]
        BY <2>12, <3>3, <3>5 DEF Touch, Same
      <4>2. r.port[w] = <<>> \/ Sent(r, w)
        BY <2>12, <3>1, <3>3, <3>5 DEF Touch, Same, Sent, Moves, Fixed
      <4>. QED
        BY <3>1, <4>1, <4>2 DEF Spread
    <3>. QED
      BY <3>1, <3>5, <3>6, <3>7 DEF r
  <2>14. CASE Usable(s) = {} /\ Cardinality(s.workers) < MaxThreads
    <3>. DEFINE e == SpawnWorker(d, t)
    <3>1. d.live # Worker /\ d.workers \subseteq d.live /\ Idle(d) = {}
      BY <2>1, <2>2, <2>9, <2>12, <2>14
    <3>2. TaskInv(e, {t} \ {t})
      BY <2>11, <3>1, SpawnWorkerInv
    <3>3. /\ Books(e, {}) /\ Moves(d, {t}, e, {}) /\ e.port = d.port /\ e.promise = d.promise
          /\ \A v \in d.live : e.currentTask[v] = d.currentTask[v]
      <4>1. t \in {NoTask} \cup {t} /\ {t} \subseteq {t}
        OBVIOUS
      <4>. QED
        BY <2>9, <2>10, <2>11, <2>12, <3>1, <4>1, SpawnWorkerBooks
    <3>4. r = SkipAborted(e)
      BY <2>4, <2>14
    <3>. HIDE DEF e
    <3>5. /\ Books(r, {}) /\ Moves(e, {}, r, {}) /\ Same(e, r) /\ r.promise = e.promise
      <4>1. {t} \ {t} = {}
        OBVIOUS
      <4>. QED
        BY <3>2, <3>3, <3>4, <4>1, SkipAbortedBooks
    <3>6. Moves(s, {}, r, {})
      BY <2>12, <3>3, <3>5, MovesTransitive
    <3>7. Spread(s, r)
      BY <2>12, <3>3, <3>5 DEF Spread, Same
    <3>. QED
      BY <2>12, <2>14, <3>3, <3>5, <3>6, <3>7 DEF r
  <2>15. CASE Usable(s) = {} /\ ~(Cardinality(s.workers) < MaxThreads)
    <3>. DEFINE e == PopIdleWorker(s)
    <3>1. /\ Books(e, {}) /\ Moves(s, {}, e, {}) /\ e.promise = s.promise
          /\ e.currentTask = s.currentTask /\ e.port = s.port
          /\ e.pendingTasks = s.pendingTasks
      BY <1>0, PopIdleWorkerBooks
    <3>2. TaskInv(e, {})
      BY PopIdleWorkerInv
    <3>3. r = SkipAborted(e)
      BY <2>5, <2>15
    <3>. HIDE DEF e
    <3>4. /\ Books(r, {}) /\ Moves(e, {}, r, {}) /\ Same(e, r) /\ r.promise = e.promise
          /\ r.pendingTasks = e.pendingTasks
      BY <3>1, <3>2, <3>3, SkipAbortedBooks
    <3>5. Moves(s, {}, r, {})
      BY <3>1, <3>4, MovesTransitive
    <3>6. Spread(s, r)
      BY <3>1, <3>4 DEF Spread, Same
    <3>. QED
      BY <3>1, <3>4, <3>5, <3>6 DEF r
  <2>. QED
    BY <2>13, <2>14, <2>15
<1>. QED
  BY <1>1, <1>2

\* t is new in r, and nothing else has changed
Fresh(s, r, t) ==
  /\ t \in Task /\ t = s.nextTaskId + 1
  /\ r.taskQueue = s.taskQueue /\ r.pendingTasks = s.pendingTasks
  /\ r.drainDeferred = s.drainDeferred /\ r.aborted = s.aborted
  /\ r.destroyed = s.destroyed /\ r.promise[t] = "pending" /\ s.promise[t] = "none"
  /\ \A u \in Task : u # t => r.promise[u] = s.promise[u]

\* A new task is in hand, awaited.
LEMMA NewTaskBooks ==
  ASSUME NEW s, TaskInv(s, {}), Books(s, {}), ~s.destroyed, s.nextTaskId < MaxTasks,
         NEW p \in Priority, NEW cloneable \in BOOLEAN
  PROVE  LET r == NewTask(s, p, cloneable)
         IN  Books(r, {r.nextTaskId}) /\ Fresh(s, r, r.nextTaskId)
<1>. DEFINE t == s.nextTaskId + 1
            f == [s.priority EXCEPT ![t] = p]
            g == [s.promise EXCEPT ![t] = "pending"]
            c == IF cloneable THEN s.uncloneable ELSE s.uncloneable \cup {t}
            r == NewTask(s, p, cloneable)
<1>0. s \in PoolState
  BY DEF TaskInv
<1>1. r = [s EXCEPT !.nextTaskId = t, !.priority = f, !.promise = g, !.uncloneable = c]
  BY <1>0 DEF NewTask, PoolState
<1>2. t \in Task /\ s.nextTaskId \in Nat
  BY <1>0, BoundsAssumption DEF PoolState, Task
<1>3. g[t] = "pending" /\ \A u \in Task : u # t => g[u] = s.promise[u]
  BY <1>0, <1>2 DEF PoolState
<1>4. s.promise[t] = "none" /\ \A u \in Task : u > t => u > s.nextTaskId
  BY <1>2 DEF Books, Awaited, Task
<1>. HIDE DEF t, f, g, c, r
<1>5. /\ r.taskQueue = s.taskQueue /\ r.pendingTasks = s.pendingTasks /\ r.promise = g
      /\ r.drainDeferred = s.drainDeferred /\ r.nextTaskId = t /\ r.aborted = s.aborted
      /\ r.destroyed = s.destroyed /\ r.destroying = s.destroying /\ r.workers = s.workers
      /\ r.currentTask = s.currentTask /\ r.idleWorkers = s.idleWorkers /\ r.idleTimer = s.idleTimer
  BY <1>0, <1>1 DEF PoolState
<1>6. Idle(r) = Idle(s)
  BY <1>5 DEF Idle
<1>7. Held(r) /\ Timed(r)
  BY <1>5, <1>6 DEF Books, Held, Timed
<1>8. Awaited(r, {t})
  <2>1. ASSUME NEW u \in (r.taskQueue \cup r.pendingTasks \cup {t}) \ r.aborted
        PROVE  r.promise[u] = "pending"
    <3>1. CASE u = t
      BY <1>3, <1>5, <3>1
    <3>2. CASE u # t
      <4>1. u \in (s.taskQueue \cup s.pendingTasks \cup {}) \ s.aborted
        BY <1>5, <2>1, <3>2
      <4>2. s.promise[u] = "pending" /\ u \in Task
        BY <1>0, <4>1 DEF Books, Awaited, PoolState
      <4>. QED
        BY <1>3, <1>5, <3>2, <4>2
    <3>. QED
      BY <3>1, <3>2
  <2>2. ASSUME NEW u \in Task, u > t  PROVE r.promise[u] = "none"
    <3>1. u # t
      BY <1>2, <2>2 DEF Task
    <3>2. s.promise[u] = "none"
      BY <1>4, <2>2 DEF Books, Awaited
    <3>. QED
      BY <1>3, <1>5, <3>1, <3>2
  <2>. QED
    BY <1>5, <2>1, <2>2 DEF Awaited
<1>9. Books(r, {t})
  BY <1>5, <1>7, <1>8 DEF Books
<1>. QED
  BY <1>2, <1>3, <1>4, <1>5, <1>9 DEF r, t, Fresh

\* The task in hand is queued.
LEMMA PushTaskBooks ==
  ASSUME NEW s \in PoolState, NEW t \in Task, Books(s, {t})
  PROVE  LET r == [s EXCEPT !.taskQueue = @ \cup {t}]
         IN  /\ Books(r, {}) /\ Fixed(s, r) /\ Same(s, r) /\ r.promise = s.promise
             /\ r.pendingTasks = s.pendingTasks /\ r.drainDeferred = s.drainDeferred
<1>. DEFINE q == s.taskQueue \cup {t}
            r == [s EXCEPT !.taskQueue = q]
<1>1. /\ r.taskQueue = q /\ Fixed(s, r) /\ Same(s, r) /\ r.promise = s.promise
      /\ r.pendingTasks = s.pendingTasks /\ r.drainDeferred = s.drainDeferred
  <2>. HIDE DEF q
  <2>. QED
    BY DEF PoolState, Fixed, Same
<1>. HIDE DEF r
<1>2. Idle(r) = Idle(s)
  BY <1>1 DEF Same, Idle
<1>3. Books(r, {})
  BY <1>1, <1>2 DEF Books, Held, Awaited, Timed, Fixed, Same
<1>. QED
  BY <1>1, <1>3 DEF r

-----------------------------------------------------------------------------
(* A thread fails or ends. *)

\* A worker gives its task up, and only that task settles.
LEMMA SettleHeldBooks ==
  ASSUME NEW s, TaskInv(s, {}), Books(s, {}), NEW w \in Worker, NEW why
  PROVE  LET r == Settle(Unassign(s, w), {s.currentTask[w]}, why)
         IN  /\ Books(r, {}) /\ Moves(s, {}, r, {})
             /\ \A t \in Task : r.promise[t] # s.promise[t] => t = s.currentTask[w]
             /\ s.currentTask[w] \notin r.pendingTasks
<1>. DEFINE u == Unassign(s, w)
            c == s.currentTask[w]
            r == Settle(u, {c}, why)
<1>0. s \in PoolState /\ s.taskQueue \cap s.pendingTasks = {} /\ c \in Task \cup {NoTask}
      /\ NoTask \notin s.taskQueue
  BY BoundsAssumption DEF TaskInv, PoolState, Task, NoTask
<1>1. /\ Books(u, {}) /\ Moves(s, {}, u, {}) /\ u.promise = s.promise
      /\ u.taskQueue = s.taskQueue /\ u.pendingTasks = s.pendingTasks \ {c} /\ Fixed(s, u)
  BY <1>0, UnassignBooks
<1>2. u \in PoolState
  BY UnassignDrops
<1>. HIDE DEF u
<1>3. ~u.destroyed => {c} \cap (u.taskQueue \cup u.pendingTasks) = {}
  <2>1. ~s.destroyed => c = NoTask \/ c \in s.pendingTasks
    BY DEF Books, Held
  <2>. QED
    BY <1>0, <1>1, <2>1 DEF Fixed
<1>. HIDE DEF c
<1>4. /\ Books(r, {}) /\ Moves(u, {}, r, {}) /\ r.pendingTasks = u.pendingTasks
      /\ \A t \in Task : r.promise[t] # u.promise[t] => t \in {c}
  BY <1>1, <1>2, <1>3, SettleDoneBooks
<1>. HIDE DEF r
<1>5. Moves(s, {}, r, {})
  BY <1>1, <1>4, MovesTransitive
<1>. QED
  BY <1>1, <1>4, <1>5 DEF r, u, c

\* failStartup gives up the task of its worker and the whole queue.
LEMMA FailStartupBooks ==
  ASSUME NEW s, TaskInv(s, {}), Books(s, {}), NEW w \in Worker, NEW why
  PROVE  LET r == FailStartup(s, w, why)
         IN  /\ Books(r, {}) /\ Moves(s, {}, r, {})
             /\ r.currentTask[w] # s.currentTask[w] => s.currentTask[w] \notin r.pendingTasks
<1>. DEFINE r == FailStartup(s, w, why)
<1>1. CASE w \in s.failed
  <2>1. r = s
    BY <1>1 DEF FailStartup
  <2>2. Moves(s, {}, s, {})
    BY DEF Moves, Fixed
  <2>. QED
    BY <2>1, <2>2
<1>2. CASE w \notin s.failed
  <2>. DEFINE u == Unassign(s, w)
              c == s.currentTask[w]
              F == u.failed \cup {w}
              none == {}
              zero == 0
              d == [u EXCEPT !.failed = F, !.taskQueue = none, !.abortedQueued = zero]
              R == {c} \cup s.taskQueue
  <2>0. s \in PoolState /\ s.taskQueue \cap s.pendingTasks = {}
    BY DEF TaskInv
  <2>1. r = Settle(d, R, why)
    BY <1>2 DEF FailStartup
  <2>2. /\ Books(u, {}) /\ Moves(s, {}, u, {}) /\ u.taskQueue = s.taskQueue
        /\ u.pendingTasks = s.pendingTasks \ {c}
    BY <2>0, UnassignBooks
  <2>3. u \in PoolState
    BY UnassignDrops
  <2>. HIDE DEF u, r
  <2>4. F \in SUBSET Worker /\ none \in SUBSET Task /\ zero \in Int
    BY <2>3 DEF PoolState
  <2>5. /\ d \in PoolState /\ d.taskQueue = none /\ d.pendingTasks = u.pendingTasks
        /\ d.promise = u.promise /\ d.drainDeferred = u.drainDeferred /\ Fixed(u, d) /\ Same(u, d)
    <3>. HIDE DEF F, none, zero
    <3>. QED
      BY <2>3, <2>4 DEF PoolState, Fixed, Same
  <2>. HIDE DEF d
  <2>6. Idle(d) = Idle(u)
    BY <2>5 DEF Same, Idle
  <2>7. Books(d, {})
    BY <2>2, <2>5, <2>6 DEF Books, Held, Awaited, Timed, Fixed, Same
  <2>8. Moves(u, {}, d, {})
    BY <2>0, <2>2, <2>5 DEF Moves
  <2>9. R \cap (d.taskQueue \cup d.pendingTasks) = {}
    BY <2>0, <2>2, <2>5
  <2>10. Books(r, {}) /\ Moves(d, {}, r, {}) /\ r.pendingTasks = d.pendingTasks
    <3>. HIDE DEF R
    <3>. QED
      BY <2>1, <2>5, <2>7, <2>9, SettleDoneBooks
  <2>11. Moves(s, {}, r, {}) /\ c \notin r.pendingTasks
    BY <2>2, <2>5, <2>8, <2>10, MovesTransitive
  <2>. QED
    BY <2>10, <2>11 DEF r
<1>. QED
  BY <1>1, <1>2

\* handleWorkerError: once the worker is ready, only its task settles.
LEMMA HandleWorkerErrorBooks ==
  ASSUME NEW s, TaskInv(s, {}), Books(s, {}), NEW w \in Worker
  PROVE  LET r == HandleWorkerError(s, w)
         IN  /\ Books(r, {}) /\ Moves(s, {}, r, {})
             /\ r.currentTask[w] # s.currentTask[w] => s.currentTask[w] \notin r.pendingTasks
             /\ w \in s.ready => \A t \in Task : r.promise[t] # s.promise[t] => t = s.currentTask[w]
<1>1. CASE w \notin s.ready
  <2>1. HandleWorkerError(s, w) = FailStartup(s, w, "workerError")
    BY <1>1 DEF HandleWorkerError
  <2>. QED
    BY <1>1, <2>1, FailStartupBooks
<1>2. CASE w \in s.ready
  <2>1. HandleWorkerError(s, w) = Settle(Unassign(s, w), {s.currentTask[w]}, "workerError")
    BY <1>2 DEF HandleWorkerError
  <2>. DEFINE r == Settle(Unassign(s, w), {s.currentTask[w]}, "workerError")
  <2>2. /\ Books(r, {}) /\ Moves(s, {}, r, {}) /\ s.currentTask[w] \notin r.pendingTasks
        /\ \A t \in Task : r.promise[t] # s.promise[t] => t = s.currentTask[w]
    BY SettleHeldBooks
  <2>. QED
    BY <2>1, <2>2
<1>. QED
  BY <1>1, <1>2

\* the same tasks, in the same places
Like(s, r) ==
  /\ Fixed(s, r) /\ r.taskQueue = s.taskQueue /\ r.pendingTasks = s.pendingTasks
  /\ r.promise = s.promise /\ r.drainDeferred = s.drainDeferred /\ r.currentTask = s.currentTask

\* What a worker gives up depends on the tasks only.
LEMMA LikeUnassign ==
  ASSUME NEW s \in PoolState, NEW r \in PoolState, Like(s, r), NEW w \in Worker
  PROVE  Like(Unassign(s, w), Unassign(r, w))
<1>. DEFINE c == [s.currentTask EXCEPT ![w] = NoTask]
            q == s.pendingTasks \ {s.currentTask[w]}
            a == Unassign(s, w)
            b == Unassign(r, w)
<1>1. a = [s EXCEPT !.currentTask = c, !.pendingTasks = q]
  BY DEF Unassign, PoolState
<1>2. b = [r EXCEPT !.currentTask = c, !.pendingTasks = q]
  BY DEF Unassign, PoolState, Like
<1>. HIDE DEF a, b, c, q
<1>. QED
  BY <1>1, <1>2 DEF PoolState, Like, Fixed, a, b

\* So does what settles.
LEMMA LikeSettle ==
  ASSUME NEW s \in PoolState, NEW r \in PoolState, Like(s, r), NEW R, NEW outcome
  PROVE  Like(Settle(s, R, outcome), Settle(r, R, outcome))
<1>. DEFINE f == [t \in Task |-> IF t \in R /\ s.promise[t] = "pending"
                                 THEN outcome ELSE s.promise[t]]
            a == Settle(s, R, outcome)
            b == Settle(r, R, outcome)
<1>1. a = [s EXCEPT !.promise = f]
  BY DEF Settle
<1>2. b = [r EXCEPT !.promise = f]
  BY DEF Settle, Like
<1>. HIDE DEF a, b, f
<1>. QED
  BY <1>1, <1>2 DEF PoolState, Like, Fixed, a, b

\* And what a failed start drops.
LEMMA LikeFailStartup ==
  ASSUME NEW s, TaskInv(s, {}), NEW r, TaskInv(r, {}), Like(s, r), NEW w \in Worker, NEW why,
         s.failed = r.failed
  PROVE  Like(FailStartup(s, w, why), FailStartup(r, w, why))
<1>1. CASE w \in s.failed
  BY <1>1 DEF FailStartup
<1>2. CASE w \notin s.failed
  <2>. DEFINE a == Unassign(s, w)
              b == Unassign(r, w)
              F == a.failed \cup {w}
              G == b.failed \cup {w}
              none == {}
              zero == 0
              d == [a EXCEPT !.failed = F, !.taskQueue = none, !.abortedQueued = zero]
              e == [b EXCEPT !.failed = G, !.taskQueue = none, !.abortedQueued = zero]
              R == {s.currentTask[w]} \cup s.taskQueue
  <2>0. s \in PoolState /\ r \in PoolState
    BY DEF TaskInv
  <2>1. a \in PoolState /\ b \in PoolState
    BY UnassignDrops
  <2>2. Like(a, b)
    BY <2>0, LikeUnassign
  <2>3. FailStartup(s, w, why) = Settle(d, R, why) /\ FailStartup(r, w, why) = Settle(e, R, why)
    BY <1>2 DEF FailStartup, Like
  <2>. HIDE DEF a, b, R
  <2>4. F \in SUBSET Worker /\ G \in SUBSET Worker /\ none \in SUBSET Task /\ zero \in Int
    BY <2>1 DEF PoolState
  <2>. HIDE DEF F, G, none, zero
  <2>5. d \in PoolState /\ e \in PoolState /\ Like(d, e)
    BY <2>1, <2>2, <2>4 DEF PoolState, Like, Fixed
  <2>. HIDE DEF d, e
  <2>. QED
    BY <2>3, <2>5, LikeSettle
<1>. QED
  BY <1>1, <1>2

\* An exited worker leaves the books; if it was ready, only its task settles.
LEMMA RemoveExitedBooks ==
  ASSUME NEW s, TaskInv(s, {}), SlotInv(s), IdleInv(s), Books(s, {}), NEW w \in Worker
  PROVE  LET c == RemoveExited(s, w)
         IN  /\ Books(c, {}) /\ Moves(s, {}, c, {})
             /\ w \in s.ready => \A t \in Task : c.promise[t] # s.promise[t] => t = s.currentTask[w]
<1>. DEFINE m == s.idleTimer \ {w}
            W == s.workers \ {w}
            i == Splice(s.idleWorkers, w)
            a == [s EXCEPT !.idleTimer = m, !.workers = W, !.idleWorkers = i]
            startup == w \notin s.ready /\ ~s.destroyed
            b == IF startup THEN FailStartup(a, w, "exitError") ELSE a
            e == Settle(Unassign(b, w), {b.currentTask[w]}, "exitError")
            x == IF startup THEN FailStartup(s, w, "exitError") ELSE s
            z == Settle(Unassign(x, w), {x.currentTask[w]}, "exitError")
            c == RemoveExited(s, w)
<1>0. s \in PoolState
  BY DEF TaskInv
<1>1. m \in SUBSET Worker /\ W \in SUBSET Worker /\ i \in Seq(Worker)
  BY <1>0, SpliceType DEF PoolState
<1>2. /\ a \in PoolState /\ Like(s, a) /\ a.ready = s.ready /\ a.failed = s.failed
      /\ a.abortedQueued = s.abortedQueued /\ a.nextTaskId = s.nextTaskId
  <2>. HIDE DEF m, W, i
  <2>. QED
    BY <1>0, <1>1 DEF PoolState, Like, Fixed
<1>3. c = [e EXCEPT !.ready = @ \ {w}, !.failed = @ \ {w}, !.terminating = @ \ {w},
                    !.live = @ \ {w}, !.port[w] = <<>>]
  BY DEF RemoveExited
<1>. HIDE DEF a, c
<1>4. TaskInv(a, {})
  BY <1>2 DEF TaskInv, Like, Fixed
<1>5. Like(s, s) /\ Moves(s, {}, s, {})
  BY DEF Like, Fixed, Moves
<1>6. TaskInv(b, {}) /\ TaskInv(x, {}) /\ Like(x, b) /\ Books(x, {}) /\ Moves(s, {}, x, {})
      /\ (w \in s.ready => x = s)
  <2>1. CASE startup
    <3>1. TaskInv(b, {}) /\ TaskInv(x, {})
      BY <1>4, <2>1, FailStartupInv DEF Outcome, Rejection
    <3>2. Books(x, {}) /\ Moves(s, {}, x, {})
      BY <2>1, FailStartupBooks
    <3>3. Like(x, b)
      BY <1>2, <1>4, <2>1, LikeFailStartup
    <3>. QED
      BY <2>1, <3>1, <3>2, <3>3
  <2>2. CASE ~startup
    BY <1>2, <1>4, <1>5, <2>2
  <2>. QED
    BY <2>1, <2>2
<1>. HIDE DEF b, x, startup
<1>7. /\ Books(z, {}) /\ Moves(x, {}, z, {})
      /\ \A t \in Task : z.promise[t] # x.promise[t] => t = x.currentTask[w]
  <2>1. TaskInv(x, {}) /\ Books(x, {})
    BY <1>6
  <2>2. Books(z, {}) /\ Moves(x, {}, z, {})
    BY <2>1, SettleHeldBooks
  <2>3. \A t \in Task : z.promise[t] # x.promise[t] => t = x.currentTask[w]
    BY <2>1, SettleHeldBooks
  <2>. QED
    BY <2>2, <2>3
<1>8. TaskInv(e, {}) /\ TaskInv(z, {})
  BY <1>6, SettleHeldInv DEF Outcome, Rejection
<1>9. Like(z, e)
  <2>1. x.currentTask[w] = b.currentTask[w] /\ x \in PoolState /\ b \in PoolState
    BY <1>6 DEF Like, TaskInv
  <2>2. Like(Unassign(x, w), Unassign(b, w))
    BY <1>6, <2>1, LikeUnassign
  <2>3. Unassign(x, w) \in PoolState /\ Unassign(b, w) \in PoolState
    BY <1>6, UnassignDrops
  <2>. QED
    BY <2>1, <2>2, <2>3, LikeSettle
<1>. HIDE DEF e, z
<1>10. e \in PoolState
  BY <1>8 DEF TaskInv
<1>. DEFINE y == e.ready \ {w}
            f == e.failed \ {w}
            n == e.terminating \ {w}
            l == e.live \ {w}
            p == [e.port EXCEPT ![w] = <<>>]
<1>11. c = [e EXCEPT !.ready = y, !.failed = f, !.terminating = n, !.live = l, !.port = p]
  BY <1>3, <1>10 DEF PoolState
<1>12. Like(z, c)
  <2>. HIDE DEF y, f, n, l, p
  <2>. QED
    BY <1>9, <1>10, <1>11 DEF PoolState, Like, Fixed
<1>. HIDE DEF y, f, n, l, p
<1>13. /\ Idle(c) = Idle(s) \ {w} /\ c.workers = s.workers \ {w} /\ c.destroyed = s.destroyed
       /\ c.idleTimer = s.idleTimer \ {w} /\ c.currentTask[w] = NoTask
       /\ \A v \in Worker \ {w} : c.currentTask[v] = s.currentTask[v]
  BY RemoveExitedIdle DEF c
<1>14. Moves(s, {}, c, {})
  <2>1. Moves(s, {}, z, {})
    BY <1>6, <1>7, MovesTransitive
  <2>. QED
    BY <1>12, <2>1 DEF Moves, Like, Fixed
<1>15. Timed(c)
  <2>1. IsFiniteSet(s.workers) /\ Cardinality(s.workers) \in Nat
        /\ Cardinality(c.workers) \in Nat
    BY <1>0, <1>13, WorkersFinite DEF PoolState
  <2>2. Cardinality(c.workers) <= Cardinality(s.workers)
    BY <1>13, <2>1, FS_Subset
  <2>3. Cardinality(c.workers) > MinThreads => Cardinality(s.workers) > MinThreads
    BY <2>1, <2>2, ThreadsAssumption
  <2>. QED
    BY <1>13, <2>3 DEF Books, Timed
<1>16. Held(c)
  <2>. SUFFICES ASSUME ~c.destroyed
                PROVE  /\ c.pendingTasks = {c.currentTask[v] : v \in Worker} \ {NoTask}
                       /\ \A v \in Worker : c.currentTask[v] # NoTask => v \in c.workers
                       /\ \A v, u \in Worker : c.currentTask[v] = c.currentTask[u]
                                                /\ c.currentTask[u] # NoTask => v = u
    BY DEF Held
  <2>1. ~s.destroyed /\ ~z.destroyed
    BY <1>12, <1>13 DEF Like, Fixed
  <2>2. \A v \in Worker : c.currentTask[v] # NoTask => v \in c.workers
    BY <1>13, <2>1 DEF Books, Held
  <2>3. c.pendingTasks = z.pendingTasks /\ c.currentTask = z.currentTask
    BY <1>12 DEF Like
  <2>. QED
    BY <1>7, <2>1, <2>2, <2>3 DEF Books, Held
<1>17. Books(c, {})
  <2>1. Awaited(c, {}) /\ (c.destroying # {} => c.destroyed)
    BY <1>7, <1>12 DEF Books, Awaited, Like, Fixed
  <2>. QED
    BY <1>15, <1>16, <2>1 DEF Books
<1>18. w \in s.ready => \A t \in Task : c.promise[t] # s.promise[t] => t = s.currentTask[w]
  BY <1>6, <1>7, <1>12 DEF Like
<1>. QED
  BY <1>14, <1>17, <1>18 DEF c

-----------------------------------------------------------------------------
(* The actions.  StepRel is what a step may do to the tasks and inboxes,   *)
(* from which the action properties follow.                                *)

StepRel ==
  /\ pool.aborted \subseteq pool'.aborted
  /\ \A t \in Task : pool'.promise[t] = pool.promise[t] \/ pool.promise[t] \in {"none", "pending"}
  /\ \A w \in Worker, t \in Task : pool'.port[w] = <<t>> /\ pool.port[w] # <<t>> =>
       Sent(pool', w) /\ pool'.destroyed = pool.destroyed
  /\ pool.drainDeferred /\ ~pool'.drainDeferred => pool'.taskQueue \cup pool'.pendingTasks = {}
  /\ \A t \in pool.taskQueue \ pool'.taskQueue : t \in pool'.pendingTasks =>
       \A u \in pool'.taskQueue : Before(pool, t, u)

AllInv == Inv /\ ThreadInv /\ BooksInv

\* A handler that moves tasks and sends a worker what it holds is a StepRel.
LEMMA MovesStep ==
  ASSUME Moves(pool, {}, pool', {}),
         \A w \in Worker : \/ pool'.port[w] = pool.port[w] \/ Sent(pool', w)
                           \/ \A t \in Task : pool'.port[w] # <<t>>
  PROVE  StepRel /\ \A t : Gone(pool, t) => Gone(pool', t)
<1>1. \A t : Gone(pool, t) => Gone(pool', t)
  BY DEF Moves, Fixed, Gone
<1>. QED
  BY <1>1 DEF StepRel, Moves, Fixed

\* What a thread was sent or has answered is still so when its entry stays.
LEMMA DutyKept ==
  ASSUME NEW s, NEW r, NEW h, NEW g, NEW w, Duty(s, h, w), g.out = h.out, g.state = h.state,
         g.err => h.err, r.destroyed = s.destroyed, r.currentTask[w] = s.currentTask[w],
         r.port[w] = s.port[w], \A t : Gone(s, t) => Gone(r, t)
  PROVE  Duty(r, g, w)
  BY DEF Duty

\* Duty after tryDispatch, or run(), and the threads it starts.
LEMMA SpreadDuty ==
  ASSUME NEW s, NEW r, NEW h, NEW g, IdleInv(s), Spread(s, r), r.destroyed = s.destroyed,
         \A t : Gone(s, t) => Gone(r, t),
         \A w \in Worker : Link(s, h[w], w) /\ Duty(s, h[w], w),
         \A w \in Worker : g[w] = IF w \in r.live \ s.live THEN Booting ELSE h[w]
  PROVE  \A w \in Worker : Duty(r, g[w], w)
<1>. SUFFICES ASSUME NEW w \in Worker  PROVE Duty(r, g[w], w)
  OBVIOUS
<1>0. Link(s, h[w], w) /\ Duty(s, h[w], w)
  OBVIOUS
<1>1. CASE w \in r.live \ s.live
  <2>1. g[w] = Booting
    BY <1>1
  <2>2. Booting.out = <<>> /\ Booting.state = "booting" /\ ~Booting.err
    BY DEF Booting
  <2>. QED
    BY <2>1, <2>2 DEF Duty
<1>2. CASE w \notin r.live \ s.live
  <2>1. g[w] = h[w]
    BY <1>2
  <2>2. CASE r.currentTask[w] = s.currentTask[w] /\ r.port[w] = s.port[w]
    BY <1>0, <2>1, <2>2, DutyKept
  <2>3. CASE w \in Idle(s) /\ (r.port[w] = <<>> \/ Sent(r, w))
    <3>1. h[w].out = <<>>
      BY <1>0, <2>3 DEF Link
    <3>2. \A t \in Task : r.port[w] = <<t>> => r.currentTask[w] = t
      BY <2>3 DEF Sent
    <3>. QED
      BY <1>0, <2>1, <3>1, <3>2 DEF Duty
  <2>4. CASE w \notin s.live
    <3>1. h[w].out = <<>> /\ h[w].state = "none"
      BY <1>0, <2>4 DEF Link
    <3>. QED
      BY <1>0, <2>1, <3>1 DEF Duty
  <2>. QED
    BY <2>2, <2>3, <2>4 DEF Spread
<1>. QED
  BY <1>1, <1>2

\* run() on each of its paths.
LEMMA RunBooks ==
  ASSUME AllInv, NEW p \in Priority, NEW cloneable \in Cloneable,
         RunOnIdle(p, cloneable) \/ RunOnNewThread(p, cloneable) \/ RunQueued(p, cloneable)
  PROVE  BooksInv' /\ StepRel
<1>. DEFINE s == NewTask(pool, p, cloneable)
            t == s.nextTaskId
            d == PopIdleWorker(s)
            q == [s EXCEPT !.taskQueue = @ \cup {t}]
<1>0. /\ TaskInv(pool, {}) /\ SlotInv(pool) /\ IdleInv(pool) /\ Books(pool, {})
      /\ pool \in PoolState /\ ~pool.destroyed /\ pool.nextTaskId < MaxTasks
      /\ pool.workers \subseteq pool.live /\ cloneable \in BOOLEAN
      /\ Cardinality(pool.workers) < MaxThreads => pool.live # Worker
      /\ pool.nextTaskId \in Nat /\ pool.taskQueue \cap pool.pendingTasks = {}
  BY OptionsAssumption DEF AllInv, Inv, TaskInv, SlotInv, ThreadInv, BooksInv, RunOnIdle,
     RunOnNewThread, RunQueued, CanRun, PoolState
<1>1. /\ TaskInv(s, {t}) /\ t \notin s.aborted /\ Usable(s) = Usable(pool)
  BY <1>0, NewTaskInv
<1>2. Same(pool, s)
  BY <1>0, NewTaskSame
<1>3. /\ Books(s, {t}) /\ t \in Task /\ t = pool.nextTaskId + 1
      /\ s.taskQueue = pool.taskQueue /\ s.pendingTasks = pool.pendingTasks
      /\ s.drainDeferred = pool.drainDeferred /\ s.aborted = pool.aborted
      /\ s.destroyed = pool.destroyed /\ s.promise[t] = "pending" /\ pool.promise[t] = "none"
      /\ \A u \in Task : u # t => s.promise[u] = pool.promise[u]
  <2>1. Books(s, {t}) /\ Fresh(pool, s, t)
    BY <1>0, NewTaskBooks
  <2>. HIDE DEF s, t
  <2>. QED
    BY <2>1 DEF Fresh
<1>. HIDE DEF s
<1>4. s \in PoolState /\ IdleInv(s) /\ Idle(s) = Idle(pool)
  BY <1>0, <1>1, <1>2, SameIdle DEF Same, Idle, TaskInv
<1>5. /\ Books(d, {t}) /\ Moves(s, {t}, d, {t}) /\ d.currentTask = s.currentTask /\ d.port = s.port
      /\ d.workers = s.workers /\ d.live = s.live
      /\ Usable(s) = {} => Idle(d) = {}
  BY <1>3, <1>4, PopIdleWorkerBooks
<1>6. /\ IdleInv(d)
      /\ Usable(s) # {} => /\ IdleTop(s) \in Worker /\ IdleTop(s) \in Idle(s)
                           /\ Free(d, IdleTop(s))
  BY <1>4, PopIdleWorkerIdle
<1>7. TaskInv(d, {t})
  BY <1>1, PopIdleWorkerInv
<1>. HIDE DEF d
<1>8. t = s.nextTaskId
  OBVIOUS
<1>. HIDE DEF t
<1>9. ~d.destroyed /\ t \notin d.aborted
  BY <1>0, <1>1, <1>3, <1>5 DEF Moves, Fixed
<1>10. ASSUME NEW x, NEW S, Moves(x, S, pool', {}), x.nextTaskId = t,
              x.taskQueue \cup S \subseteq pool.taskQueue \cup {t},
              x.pendingTasks = pool.pendingTasks, x.drainDeferred = pool.drainDeferred,
              x.promise = s.promise, x.aborted = pool.aborted, x.destroyed = pool.destroyed,
              Books(pool', {}), Spread(pool, pool'), pool.taskQueue \cap pool'.pendingTasks = {},
              \A w \in Worker : thread'[w] = IF w \in pool'.live \ pool.live
                                             THEN Booting ELSE thread[w]
       PROVE  BooksInv' /\ StepRel
  <2>1. /\ pool'.nextTaskId = t /\ pool'.aborted = pool.aborted /\ pool'.destroyed = pool.destroyed
        /\ pool'.taskQueue \cup pool'.pendingTasks \subseteq
             pool.taskQueue \cup pool.pendingTasks \cup {t}
    BY <1>10 DEF Moves, Fixed
  <2>2. \A u : Gone(pool, u) => Gone(pool', u)
    <3>. SUFFICES ASSUME NEW u \in 1..pool.nextTaskId, u \notin pool.taskQueue \cup pool.pendingTasks
                  PROVE  u \in 1..t /\ u # t
      BY <2>1 DEF Gone
    <3>. QED
      BY <1>0, <1>3
  <2>3. \A w \in Worker : Link(pool, thread[w], w) /\ Duty(pool, thread[w], w)
    BY DEF AllInv, ThreadInv, BooksInv
  <2>4. \A w \in Worker : Duty(pool', thread'[w], w)
    BY <1>0, <1>10, <2>1, <2>2, <2>3, SpreadDuty
  <2>5. BooksInv'
    BY <1>10, <2>4 DEF BooksInv
  <2>6. \A u \in Task : pool'.promise[u] = pool.promise[u] \/ pool.promise[u] \in {"none", "pending"}
    <3>. SUFFICES ASSUME NEW u \in Task
                  PROVE  pool'.promise[u] = pool.promise[u] \/ pool.promise[u] \in {"none", "pending"}
      OBVIOUS
    <3>1. CASE u = t
      BY <1>3, <3>1
    <3>2. CASE u # t
      BY <1>3, <1>10, <3>2 DEF Moves
    <3>. QED
      BY <3>1, <3>2
  <2>7. \A w \in Worker, u \in Task : pool'.port[w] = <<u>> /\ pool.port[w] # <<u>> => Sent(pool', w)
    <3>1. \A u : <<u>> # <<>>
      OBVIOUS
    <3>. QED
      BY <1>10, <3>1 DEF Spread
  <2>8. pool.drainDeferred /\ ~pool'.drainDeferred => pool'.taskQueue \cup pool'.pendingTasks = {}
    BY <1>10 DEF Moves
  <2>. QED
    BY <1>10, <2>1, <2>5, <2>6, <2>7, <2>8 DEF StepRel
<1>11. CASE RunOnIdle(p, cloneable)
  <2>. DEFINE w == IdleTop(s)
  <2>1. pool' = DispatchTask(d, w, t) /\ thread' = thread /\ Usable(s) # {} /\ pool.taskQueue = {}
    BY <1>1, <1>11 DEF RunOnIdle, FastPath, s, t, d
  <2>2. w \in Worker /\ w \in Idle(pool) /\ Free(d, w) /\ d.currentTask[w] = NoTask
        /\ pool.port[w] = <<>>
    BY <1>0, <1>2, <1>4, <1>5, <1>6, <2>1 DEF IdleInv, Same
  <2>. HIDE DEF w
  <2>3. Books(pool', {}) /\ Moves(d, {t}, pool', {}) /\ Touch(d, pool', w)
    BY <1>3, <1>5, <1>6, <1>7, <1>9, <2>1, <2>2, DispatchTaskBooks
  <2>4. Only(d, pool', w)
    BY <1>3, <1>6, <1>7, <1>9, <2>1, <2>2, DispatchTaskIdle
  <2>5. pool'.live = pool.live
    BY <1>2, <1>5, <2>4 DEF Only, Same
  <2>6. Spread(pool, pool')
    <3>1. \A v \in Worker : v # w => pool'.currentTask[v] = pool.currentTask[v] /\ pool'.port[v] = pool.port[v]
      BY <1>2, <1>5, <2>3 DEF Touch, Same
    <3>2. pool'.port[w] = <<>> \/ Sent(pool', w)
      BY <1>2, <1>5, <2>2, <2>3 DEF Touch, Same
    <3>. QED
      BY <2>2, <3>1, <3>2 DEF Spread
  <2>7. Moves(s, {t}, pool', {})
    BY <1>5, <2>3, MovesTransitive
  <2>8. s.taskQueue \cup {t} \subseteq pool.taskQueue \cup {t}
    BY <1>3
  <2>. QED
    BY <1>3, <1>8, <1>10, <2>1, <2>3, <2>5, <2>6, <2>7, <2>8
<1>12. CASE RunOnNewThread(p, cloneable)
  <2>1. pool' = SpawnWorker(d, t) /\ StartThreads /\ Usable(s) = {} /\ pool.taskQueue = {}
        /\ Cardinality(pool.workers) < MaxThreads
    BY <1>1, <1>12 DEF RunOnNewThread, FastPath, s, t, d
  <2>2. d.live # Worker /\ d.workers \subseteq d.live /\ Idle(d) = {}
    BY <1>0, <1>2, <1>5, <2>1 DEF Same
  <2>3. /\ Books(pool', {}) /\ Moves(d, {t}, pool', {}) /\ pool'.port = d.port
        /\ \A v \in d.live : pool'.currentTask[v] = d.currentTask[v]
    <3>1. t \in {NoTask} \cup {t} /\ {t} \subseteq {t}
      OBVIOUS
    <3>. QED
      BY <1>5, <1>6, <1>7, <1>9, <2>1, <2>2, <3>1, SpawnWorkerBooks
  <2>4. Spread(pool, pool')
    BY <1>2, <1>5, <2>3 DEF Spread, Same
  <2>5. Moves(s, {t}, pool', {})
    BY <1>5, <2>3, MovesTransitive
  <2>6. s.taskQueue \cup {t} \subseteq pool.taskQueue \cup {t}
    BY <1>3
  <2>. QED
    BY <1>3, <1>8, <1>10, <2>1, <2>3, <2>4, <2>5, <2>6 DEF StartThreads
<1>13. CASE RunQueued(p, cloneable)
  <2>1. pool' = TryDispatch(q) /\ StartThreads
    BY <1>13 DEF RunQueued, s, t
  <2>2. TaskInv(q, {}) /\ q.taskQueue = s.taskQueue \cup {t}
    BY <1>1, <1>3, PushTaskInv
  <2>3. /\ Books(q, {}) /\ Fixed(s, q) /\ Same(s, q) /\ q.promise = s.promise
        /\ q.pendingTasks = s.pendingTasks /\ q.drainDeferred = s.drainDeferred
    BY <1>3, <1>4, PushTaskBooks
  <2>. HIDE DEF q
  <2>4. IdleInv(q) /\ Same(pool, q) /\ Idle(q) = Idle(pool)
    BY <1>2, <1>4, <2>3, SameIdle, SameTransitive DEF Same, Idle
  <2>5. /\ ~q.destroyed /\ q.workers \subseteq q.live
        /\ Cardinality(q.workers) < MaxThreads => q.live # Worker
    BY <1>0, <2>4 DEF Same
  <2>6. /\ Books(pool', {}) /\ Moves(q, {}, pool', {}) /\ Spread(q, pool')
        /\ Idle(q) = {} /\ ~(Cardinality(q.workers) < MaxThreads)
             => pool'.pendingTasks = q.pendingTasks
    BY <2>1, <2>2, <2>3, <2>4, <2>5, TryDispatchBooks
  <2>7. Spread(pool, pool')
    BY <2>4, <2>6 DEF Spread, Same
  <2>8. pool.taskQueue \cap pool'.pendingTasks = {}
    <3>1. CASE pool.taskQueue = {}
      BY <3>1
    <3>2. CASE pool.taskQueue # {}
      <4>1. pool.idleWorkers = <<>> /\ Cardinality(pool.workers) = MaxThreads
        BY <1>0, <3>2 DEF SlotInv
      <4>2. Idle(q) = {} /\ ~(Cardinality(q.workers) < MaxThreads)
        <5>1. Idle(pool) = {}
          BY <4>1 DEF Idle, Range
        <5>2. q.workers = pool.workers
          BY <2>4 DEF Same
        <5>. QED
          BY <2>4, <4>1, <5>1, <5>2, ThreadsAssumption
      <4>. QED
        BY <1>0, <1>3, <2>3, <2>6, <4>2
    <3>. QED
      BY <3>1, <3>2
  <2>9. /\ q.nextTaskId = t /\ q.aborted = pool.aborted /\ q.destroyed = pool.destroyed
        /\ q.taskQueue \cup {} \subseteq pool.taskQueue \cup {t}
        /\ q.pendingTasks = pool.pendingTasks /\ q.drainDeferred = pool.drainDeferred
    BY <1>3, <1>8, <2>2, <2>3 DEF Fixed
  <2>. QED
    BY <1>10, <2>1, <2>3, <2>6, <2>7, <2>8, <2>9 DEF StartThreads
<1>. QED
  BY <1>11, <1>12, <1>13

\* An aborted task is not awaited any longer; its promise was pending.
LEMMA AbortBooks ==
  ASSUME AllInv, NEW t \in Task, Abort(t)
  PROVE  BooksInv' /\ StepRel
<1>. DEFINE a == pool.aborted \cup {t}
            g == [pool.promise EXCEPT ![t] = "aborted"]
            n == IF t \in pool.pendingTasks THEN pool.abortedQueued ELSE pool.abortedQueued + 1
<1>1. /\ pool \in PoolState /\ thread' = thread /\ pool.promise[t] = "pending"
      /\ Books(pool, {}) /\ \A w \in Worker : Duty(pool, thread[w], w)
  BY DEF AllInv, Inv, TaskInv, Abort, BooksInv
<1>2. pool' = [pool EXCEPT !.aborted = a, !.promise = g, !.abortedQueued = n]
  BY <1>1 DEF Abort, PoolState
<1>3. \A u \in Task : u # t => g[u] = pool.promise[u]
  BY <1>1 DEF PoolState
<1>. HIDE DEF g, n
<1>4. /\ pool'.aborted = a /\ pool'.promise = g /\ Same(pool, pool')
      /\ pool'.taskQueue = pool.taskQueue /\ pool'.pendingTasks = pool.pendingTasks
      /\ pool'.nextTaskId = pool.nextTaskId /\ pool'.destroying = pool.destroying
      /\ pool'.drainDeferred = pool.drainDeferred
  <2>. HIDE DEF a
  <2>. QED
    BY <1>1, <1>2 DEF Same, PoolState
<1>5. Idle(pool') = Idle(pool)
  BY <1>4 DEF Same, Idle
<1>6. Awaited(pool', {})
  <2>1. ASSUME ~pool'.destroyed,
               NEW u \in (pool'.taskQueue \cup pool'.pendingTasks \cup {}) \ pool'.aborted
        PROVE  pool'.promise[u] = "pending"
    <3>1. u # t /\ u \in Task /\ u \in (pool.taskQueue \cup pool.pendingTasks \cup {}) \ pool.aborted
          /\ ~pool.destroyed
      BY <1>1, <1>4, <2>1 DEF PoolState, Same
    <3>2. pool.promise[u] = "pending"
      BY <1>1, <3>1 DEF Books, Awaited
    <3>. QED
      BY <1>3, <1>4, <3>1, <3>2
  <2>2. ASSUME NEW u \in Task, u > pool'.nextTaskId  PROVE pool'.promise[u] = "none"
    <3>1. pool.promise[u] = "none"
      BY <1>1, <1>4, <2>2 DEF Books, Awaited
    <3>2. u # t
      BY <1>1, <3>1
    <3>. QED
      BY <1>3, <1>4, <3>1, <3>2
  <2>. QED
    BY <2>1, <2>2 DEF Awaited
<1>7. Books(pool', {})
  BY <1>1, <1>4, <1>5, <1>6 DEF Books, Held, Timed, Same
<1>8. \A w \in Worker : Duty(pool', thread'[w], w)
  BY <1>1, <1>4 DEF Duty, Gone, Same
<1>9. StepRel
  BY <1>1, <1>3, <1>4 DEF StepRel, Same
<1>. QED
  BY <1>7, <1>8, <1>9 DEF BooksInv

\* drain() only asks, and a destroy() that returns ends a drain of an empty pool.
LEMMA DrainBooks ==
  ASSUME AllInv, Drain \/ \E S \in SUBSET Worker : DestroyDone(S)
  PROVE  BooksInv' /\ StepRel
<1>1. /\ pool \in PoolState /\ thread' = thread /\ TaskInv(pool, {})
      /\ Books(pool, {}) /\ \A w \in Worker : Duty(pool, thread[w], w)
  BY DEF AllInv, Inv, TaskInv, Drain, DestroyDone, BooksInv
<1>2. /\ Same(pool, pool') /\ pool'.aborted = pool.aborted /\ pool'.promise = pool.promise
      /\ pool'.taskQueue = pool.taskQueue /\ pool'.pendingTasks = pool.pendingTasks
      /\ pool'.nextTaskId = pool.nextTaskId /\ pool'.destroying \subseteq pool.destroying
      /\ pool.drainDeferred /\ ~pool'.drainDeferred => pool.destroying # {}
  <2>1. CASE Drain
    BY <1>1, <2>1 DEF Drain, Same, PoolState
  <2>2. ASSUME NEW S \in SUBSET Worker, DestroyDone(S)
        PROVE  /\ Same(pool, pool') /\ pool'.aborted = pool.aborted /\ pool'.promise = pool.promise
               /\ pool'.taskQueue = pool.taskQueue /\ pool'.pendingTasks = pool.pendingTasks
               /\ pool'.nextTaskId = pool.nextTaskId /\ pool'.destroying \subseteq pool.destroying
               /\ pool.destroying # {}
    <3>. DEFINE g == pool.destroying \ {S}
    <3>1. pool' = [pool EXCEPT !.destroying = g, !.drainDeferred = FALSE] /\ S \in pool.destroying
      BY <2>2 DEF DestroyDone
    <3>2. g \subseteq pool.destroying
      OBVIOUS
    <3>. HIDE DEF g
    <3>. QED
      BY <1>1, <3>1, <3>2 DEF Same, PoolState
  <2>. QED
    BY <2>1, <2>2
<1>3. Idle(pool') = Idle(pool)
  BY <1>2 DEF Same, Idle
<1>4. Books(pool', {})
  BY <1>1, <1>2, <1>3 DEF Books, Held, Awaited, Timed, Same
<1>5. \A w \in Worker : Duty(pool', thread'[w], w)
  BY <1>1, <1>2 DEF Duty, Gone, Same
<1>6. StepRel
  <2>1. pool.destroying # {} => pool.taskQueue \cup pool.pendingTasks = {}
    BY <1>1 DEF Books, TaskInv
  <2>. QED
    BY <1>1, <1>2, <2>1 DEF StepRel, Same
<1>. QED
  BY <1>4, <1>5, <1>6 DEF BooksInv

\* destroy() drops every task; what had not started still has not settled.
LEMMA DestroyBooks ==
  ASSUME AllInv, Destroy
  PROVE  BooksInv' /\ StepRel
<1>. DEFINE R == pool.taskQueue \cup pool.pendingTasks
            s == Settle(pool, R, "destroyed")
            f == [t \in Task |-> IF t \in R /\ pool.promise[t] = "pending"
                                 THEN "destroyed" ELSE pool.promise[t]]
            m == s.idleTimer \ pool.workers
            e == s.terminating \cup pool.workers
            g == s.destroying \cup {pool.workers}
<1>1. /\ pool \in PoolState /\ thread' = thread
      /\ Books(pool, {}) /\ \A w \in Worker : Duty(pool, thread[w], w)
  BY DEF AllInv, Inv, TaskInv, Destroy, BooksInv
<1>2. s = [pool EXCEPT !.promise = f]
  BY DEF Settle
<1>3. pool' = [s EXCEPT !.destroyed = TRUE, !.taskQueue = {}, !.abortedQueued = 0,
                        !.pendingTasks = {}, !.idleTimer = m, !.terminating = e,
                        !.workers = {}, !.idleWorkers = <<>>, !.destroying = g]
  BY DEF Destroy
<1>4. \A t \in Task : f[t] = pool.promise[t] \/ pool.promise[t] = "pending"
  OBVIOUS
<1>. HIDE DEF s, m, e, g, f
<1>5. /\ pool'.port = pool.port /\ pool'.destroyed = TRUE /\ pool'.promise = f
      /\ pool'.nextTaskId = pool.nextTaskId /\ pool'.aborted = pool.aborted
      /\ pool'.taskQueue = {} /\ pool'.pendingTasks = {}
  BY <1>1, <1>2, <1>3 DEF PoolState
<1>6. Awaited(pool', {})
  <2>1. \A t \in Task : t > pool'.nextTaskId => pool'.promise[t] = "none"
    BY <1>1, <1>4, <1>5 DEF Books, Awaited
  <2>. QED
    BY <1>5, <2>1 DEF Awaited
<1>7. Books(pool', {})
  BY <1>5, <1>6 DEF Books, Held, Timed
<1>8. \A w \in Worker : Duty(pool', thread'[w], w)
  BY <1>1, <1>5 DEF Duty
<1>9. StepRel
  BY <1>4, <1>5 DEF StepRel
<1>. QED
  BY <1>7, <1>8, <1>9 DEF BooksInv

\* The idle timer's worker holds no task and leaves the stack with its timer.
LEMMA TerminateIdleWorkerBooks ==
  ASSUME AllInv, NEW w \in Worker, TerminateIdleWorker(w)
  PROVE  BooksInv' /\ StepRel
<1>. DEFINE m == pool.idleTimer \ {w}
            W == pool.workers \ {w}
            i == Splice(pool.idleWorkers, w)
            p == [pool.port EXCEPT ![w] = Append(@, MSG_SHUTDOWN)]
<1>1. /\ pool \in PoolState /\ thread' = thread /\ IdleInv(pool)
      /\ pool.port \in [Worker -> Seq(Task \cup {MSG_SHUTDOWN})]
      /\ Books(pool, {}) /\ \A v \in Worker : Duty(pool, thread[v], v)
  BY DEF AllInv, Inv, TaskInv, TerminateIdleWorker, ThreadInv, PoolState, BooksInv
<1>2. w \in Idle(pool) /\ pool.currentTask[w] = NoTask /\ pool.port[w] = <<>>
  BY <1>1 DEF TerminateIdleWorker, IdleInv
<1>3. CASE Cardinality(pool.workers) <= MinThreads
  <2>1. pool' = [pool EXCEPT !.idleTimer = m]
    BY <1>3 DEF TerminateIdleWorker
  <2>2. /\ pool'.port = pool.port /\ pool'.currentTask = pool.currentTask /\ Fixed(pool, pool')
        /\ pool'.workers = pool.workers /\ pool'.taskQueue = pool.taskQueue
        /\ pool'.pendingTasks = pool.pendingTasks /\ pool'.promise = pool.promise
        /\ pool'.drainDeferred = pool.drainDeferred
    <3>. HIDE DEF m
    <3>. QED
      BY <1>1, <2>1 DEF PoolState, Fixed
  <2>3. Timed(pool')
    <3>1. Cardinality(pool.workers) \in Nat
      BY <1>1, WorkersFinite DEF PoolState
    <3>. QED
      BY <1>3, <2>2, <3>1, ThreadsAssumption DEF Timed
  <2>4. Books(pool', {})
    BY <1>1, <2>2, <2>3 DEF Books, Held, Awaited, Fixed
  <2>5. Moves(pool, {}, pool', {})
    BY <2>2 DEF Moves
  <2>6. StepRel /\ \A t : Gone(pool, t) => Gone(pool', t)
    BY <2>2, <2>5, MovesStep
  <2>7. \A v \in Worker : Duty(pool', thread'[v], v)
    BY <1>1, <2>2, <2>6 DEF Duty, Fixed
  <2>. QED
    BY <2>4, <2>6, <2>7 DEF BooksInv
<1>4. CASE ~(Cardinality(pool.workers) <= MinThreads)
  <2>1. pool' = [pool EXCEPT !.idleTimer = m, !.workers = W, !.idleWorkers = i, !.port = p]
    BY <1>1, <1>2, <1>4 DEF TerminateIdleWorker, PoolState
  <2>2. /\ pool'.port = p /\ pool'.currentTask = pool.currentTask /\ Fixed(pool, pool')
        /\ pool'.workers = W /\ pool'.taskQueue = pool.taskQueue
        /\ pool'.pendingTasks = pool.pendingTasks /\ pool'.promise = pool.promise
        /\ pool'.drainDeferred = pool.drainDeferred /\ pool'.idleWorkers = i /\ pool'.idleTimer = m
    <3>. HIDE DEF m, W, i, p
    <3>. QED
      BY <1>1, <2>1 DEF PoolState, Fixed
  <2>3. Range(i) = Idle(pool) \ {w}
    BY <1>1, SpliceIdle DEF IdleInv, Idle, PoolState
  <2>4. p[w] = <<MSG_SHUTDOWN>> /\ \A v \in Worker : v # w => p[v] = pool.port[v]
    BY <1>1, <1>2
  <2>5. \A t \in Task : p[w] # <<t>>
    BY <2>4, BoundsAssumption DEF MSG_SHUTDOWN, Task
  <2>. HIDE DEF i, p
  <2>6. Idle(pool') = Idle(pool) \ {w}
    BY <2>2, <2>3 DEF Idle
  <2>7. Timed(pool')
    <3>1. IsFiniteSet(pool.workers) /\ Cardinality(pool.workers) \in Nat /\ Cardinality(W) \in Nat
      BY <1>1, WorkersFinite DEF PoolState
    <3>2. Cardinality(W) <= Cardinality(pool.workers)
      BY <3>1, FS_Subset
    <3>3. Cardinality(W) > MinThreads => Cardinality(pool.workers) > MinThreads
      BY <3>1, <3>2, ThreadsAssumption
    <3>. QED
      BY <1>1, <2>2, <2>6, <3>3 DEF Books, Timed, Fixed
  <2>8. Books(pool', {})
    BY <1>1, <1>2, <2>2, <2>7 DEF Books, Held, Awaited, Fixed
  <2>9. Moves(pool, {}, pool', {})
    BY <2>2 DEF Moves
  <2>10. StepRel /\ \A t : Gone(pool, t) => Gone(pool', t)
    BY <2>2, <2>4, <2>5, <2>9, MovesStep
  <2>11. ASSUME NEW v \in Worker  PROVE Duty(pool', thread'[v], v)
    <3>1. CASE v = w
      BY <1>1, <2>2, <2>5, <2>10, <3>1 DEF Duty, Fixed
    <3>2. CASE v # w
      BY <1>1, <2>2, <2>4, <2>10, <3>2 DEF Duty, Fixed
    <3>. QED
      BY <3>1, <3>2
  <2>. QED
    BY <2>8, <2>10, <2>11 DEF BooksInv
<1>. QED
  BY <1>3, <1>4

\* A message: READY starts the task its entry holds, a reply frees the entry.
LEMMA OnMessageBooks ==
  ASSUME AllInv, NEW w \in Worker, OnMessage(w)
  PROVE  BooksInv' /\ StepRel
<1>. DEFINE o == thread[w].out
            h == thread'[w]
<1>1. /\ pool \in PoolState /\ TaskInv(pool, {}) /\ IdleInv(pool)
      /\ pool.destroyed => pool.workers = {}
      /\ Link(pool, thread[w], w) /\ thread \in [Worker -> ThreadState]
      /\ Books(pool, {}) /\ \A v \in Worker : Duty(pool, thread[v], v)
  BY DEF AllInv, Inv, TaskInv, SlotInv, ThreadInv, BooksInv
<1>2. o \in Seq(OutboundMessage) /\ o # <<>> /\ Len(o) = 1 /\ Head(o) = o[1]
      /\ o[1] \in OutboundMessage
  BY <1>1 DEF OnMessage, ThreadState, Link
<1>3. /\ h.out = <<>> /\ h.state = thread[w].state /\ h.err = thread[w].err
      /\ \A v \in Worker : v # w => thread'[v] = thread[v]
  BY <1>1, <1>2 DEF OnMessage, ThreadState
<1>4. /\ pool.port[w] = <<>> /\ w \notin Idle(pool) /\ w \in pool.live
      /\ w \in pool.workers \/ pool.destroyed
      /\ thread[w].state \notin {"none", "booting"}
      /\ o[1].tag = "READY" <=> w \notin pool.ready
  BY <1>1, <1>2 DEF Link
<1>5. pool' = HandleWorkerMessage(pool, w, o[1])
  BY <1>2 DEF OnMessage
<1>. HIDE DEF o, h
<1>6. SUFFICES Books(pool', {}) /\ Moves(pool, {}, pool', {}) /\ Touch(pool, pool', w)
  <2>. SUFFICES ASSUME Books(pool', {}), Moves(pool, {}, pool', {}), Touch(pool, pool', w)
                PROVE  BooksInv' /\ StepRel
    OBVIOUS
  <2>1. StepRel /\ \A t : Gone(pool, t) => Gone(pool', t)
    <3>1. \A v \in Worker : pool'.port[v] = pool.port[v] \/ Sent(pool', v)
      BY DEF Touch
    <3>. QED
      BY <3>1, MovesStep
  <2>2. ASSUME NEW v \in Worker  PROVE Duty(pool', thread'[v], v)
    <3>1. CASE v = w
      <4>1. \A t \in Task : pool'.port[w] = <<t>> => pool'.currentTask[w] = t
        BY <1>4 DEF Touch, Sent
      <4>2. thread[w].err => thread[w].state = "dead"
        BY <1>1 DEF Duty
      <4>. QED
        BY <1>3, <3>1, <4>1, <4>2 DEF Duty, h
    <3>2. CASE v # w
      <4>1. /\ thread'[v] = thread[v] /\ pool'.currentTask[v] = pool.currentTask[v]
            /\ pool'.port[v] = pool.port[v] /\ pool'.destroyed = pool.destroyed
            /\ Duty(pool, thread[v], v)
        BY <1>1, <1>3, <3>2 DEF Touch, Moves, Fixed
      <4>. QED
        BY <2>1, <4>1, DutyKept
    <3>. QED
      BY <3>1, <3>2
  <2>. QED
    BY <2>1, <2>2 DEF BooksInv
<1>7. CASE o[1].tag = "READY"
  <2>. DEFINE y == pool.ready \cup {w}
              r == [pool EXCEPT !.ready = y]
              t == pool.currentTask[w]
  <2>1. y \in SUBSET Worker /\ t \in Task \cup {NoTask}
    BY <1>1 DEF PoolState
  <2>2. /\ r \in PoolState /\ Fixed(pool, r)
        /\ r.taskQueue = pool.taskQueue /\ r.abortedQueued = pool.abortedQueued
        /\ r.promise = pool.promise /\ r.drainDeferred = pool.drainDeferred
        /\ r.pendingTasks = pool.pendingTasks /\ r.workers = pool.workers /\ r.live = pool.live
        /\ r.idleWorkers = pool.idleWorkers /\ r.idleTimer = pool.idleTimer
        /\ r.currentTask = pool.currentTask /\ r.port = pool.port /\ r.ready = y
    <3>. HIDE DEF y
    <3>. QED
      BY <1>1, <2>1 DEF PoolState, Fixed
  <2>3. pool' = IF t = NoTask THEN MarkWorkerIdle(r, w)
                ELSE IF t \in pool.aborted THEN MarkWorkerIdle(Unassign(r, w), w)
                ELSE PostTask(r, w, t)
    BY <1>5, <1>7 DEF HandleWorkerMessage, HandleReady
  <2>. HIDE DEF r
  <2>4. TaskInv(r, {}) /\ (r.destroyed => r.workers = {})
    BY <1>1, <2>2 DEF TaskInv, Fixed
  <2>5. Idle(r) = Idle(pool)
    BY <2>2 DEF Idle
  <2>6. IdleInv(r) /\ Free(r, w)
    BY <1>1, <1>4, <2>2, <2>5 DEF IdleInv, Free, Fixed
  <2>7. Books(r, {}) /\ Moves(pool, {}, r, {})
    BY <1>1, <2>2, <2>5 DEF Books, Held, Awaited, Timed, Fixed, Moves
  <2>8. Books(pool', {}) /\ Moves(r, {}, pool', {}) /\ Touch(r, pool', w)
    <3>1. CASE t = NoTask
      BY <2>2, <2>3, <2>4, <2>6, <2>7, <3>1, MarkWorkerIdleBooks
    <3>2. CASE t # NoTask /\ t \in pool.aborted
      <4>. DEFINE u == Unassign(r, w)
      <4>1. pool' = MarkWorkerIdle(u, w)
        BY <2>3, <3>2
      <4>2. IdleInv(u) /\ Free(u, w)
        BY <2>2, <2>6, UnassignIdle
      <4>3. /\ Books(u, {}) /\ Moves(r, {}, u, {}) /\ Touch(r, u, w) /\ u.port = r.port
            /\ u.currentTask[w] = NoTask
        BY <2>2, <2>7, UnassignBooks
      <4>4. TaskInv(u, {})
        <5>. DEFINE c == r.currentTask[w]
                    T == {} \cup ({c} \cap r.pendingTasks)
        <5>1. TaskInv(u, T) /\ u.promise = r.promise
          BY <2>4, UnassignInv
        <5>2. r.promise[c] # "pending"
          BY <1>1, <2>2, <3>2 DEF TaskInv
        <5>. HIDE DEF u, c
        <5>3. TaskInv(u, T \ {c})
          BY <5>1, <5>2, AnsweredInv
        <5>4. T \ {c} = {}
          OBVIOUS
        <5>. QED
          BY <5>3, <5>4
      <4>. HIDE DEF u
      <4>5. Books(pool', {}) /\ Moves(u, {}, pool', {}) /\ Touch(u, pool', w)
        BY <4>1, <4>2, <4>3, <4>4, MarkWorkerIdleBooks
      <4>6. Touch(r, pool', w)
        BY <4>3, <4>5 DEF Touch
      <4>. QED
        BY <4>3, <4>5, <4>6, MovesTransitive
    <3>3. CASE t # NoTask /\ t \notin pool.aborted
      <4>1. pool' = PostTask(r, w, t) /\ t \in Task /\ r.currentTask[w] = t /\ t \notin r.aborted
        BY <2>1, <2>2, <2>3, <3>3 DEF Fixed
      <4>. HIDE DEF t
      <4>. QED
        BY <2>4, <2>6, <2>7, <4>1, PostTaskBooks
    <3>. QED
      BY <3>1, <3>2, <3>3
  <2>9. Touch(pool, pool', w)
    BY <2>2, <2>8 DEF Touch
  <2>. QED
    BY <2>7, <2>8, <2>9, MovesTransitive
<1>8. CASE o[1].tag # "READY"
  <2>1. PICK outcome \in {"fulfilled", "taskError"} :
          pool' = HandleReply(pool, w, o[1].taskId, outcome)
    BY <1>2, <1>5, <1>8 DEF HandleWorkerMessage, OutboundMessage
  <2>. DEFINE t == o[1].taskId
              q == pool.pendingTasks \ {t}
              c == [pool.currentTask EXCEPT ![w] = NoTask]
              a == [pool EXCEPT !.pendingTasks = q, !.currentTask = c]
              T == {t} \cap pool.pendingTasks
              b == Settle(a, T, outcome)
  <2>2. q \in SUBSET Task /\ c \in [Worker -> Task \cup {NoTask}] /\ c[w] = NoTask
        /\ \A v \in Worker : v # w => c[v] = pool.currentTask[v]
    BY <1>1 DEF PoolState
  <2>3. pool' = MarkWorkerIdle(b, w)
    BY <1>1, <2>1 DEF HandleReply, PoolState
  <2>4. /\ ~pool.destroyed => pool.currentTask[w] = t \/ (pool.currentTask[w] = NoTask /\ Gone(pool, t))
        /\ t # NoTask => t \in Task
    BY <1>1, <1>2, <1>8 DEF Duty, o, OutboundMessage
  <2>. HIDE DEF t
  <2>5. /\ a \in PoolState /\ a.pendingTasks = q /\ a.currentTask = c /\ Fixed(pool, a)
        /\ a.taskQueue = pool.taskQueue /\ a.abortedQueued = pool.abortedQueued
        /\ a.promise = pool.promise /\ a.drainDeferred = pool.drainDeferred
        /\ a.workers = pool.workers /\ a.live = pool.live
        /\ a.idleWorkers = pool.idleWorkers /\ a.idleTimer = pool.idleTimer
        /\ a.port = pool.port /\ a.ready = pool.ready
    <3>. HIDE DEF q, c
    <3>. QED
      BY <1>1, <2>2 DEF PoolState, Fixed
  <2>. HIDE DEF a, c
  <2>6. TaskInv(a, T)
    BY <1>1, <2>5 DEF TaskInv, Fixed
  <2>7. Idle(a) = Idle(pool) /\ Idle(pool) \subseteq Worker
    BY <1>1, <2>5, IdleWorkersType DEF Idle
  <2>8. IdleInv(a) /\ Free(a, w)
    BY <1>1, <1>4, <1>8, <2>2, <2>5, <2>7 DEF IdleInv, Free, Fixed
  <2>9. Held(a)
    <3>. SUFFICES ASSUME ~a.destroyed
                  PROVE  /\ q = {c[v] : v \in Worker} \ {NoTask}
                         /\ \A v \in Worker : c[v] # NoTask => v \in pool.workers
                         /\ \A v, u \in Worker : c[v] = c[u] /\ c[u] # NoTask => v = u
      BY <2>5 DEF Held
    <3>1. /\ pool.pendingTasks = {pool.currentTask[v] : v \in Worker} \ {NoTask}
          /\ \A v \in Worker : pool.currentTask[v] # NoTask => v \in pool.workers
          /\ \A v, u \in Worker : pool.currentTask[v] = pool.currentTask[u]
                                   /\ pool.currentTask[u] # NoTask => v = u
      BY <1>1, <2>5 DEF Books, Held, Fixed
    <3>2. pool.currentTask[w] = t \/ (pool.currentTask[w] = NoTask /\ t \notin pool.pendingTasks)
      BY <2>4, <2>5 DEF Gone, Fixed
    <3>3. \A x \in q : \E v \in Worker : x = c[v] /\ x # NoTask
      BY <2>2, <3>1, <3>2
    <3>4. \A v \in Worker : c[v] # NoTask => c[v] \in q
      BY <2>2, <3>1, <3>2
    <3>5. q = {c[v] : v \in Worker} \ {NoTask}
      BY <3>3, <3>4
    <3>. QED
      BY <2>2, <3>1, <3>5
  <2>10. Books(a, {}) /\ Moves(pool, {}, a, {})
    BY <1>1, <2>5, <2>7, <2>9 DEF Books, Awaited, Timed, Fixed, Moves
  <2>11. T \cap (a.taskQueue \cup a.pendingTasks) = {}
    BY <1>1, <2>5 DEF TaskInv
  <2>. HIDE DEF T
  <2>12. Books(b, {}) /\ Moves(a, {}, b, {}) /\ Same(a, b)
    BY <2>5, <2>10, <2>11, SettleDoneBooks
  <2>13. TaskInv(b, T \ T)
    BY <2>6, SettleInv DEF Outcome, Rejection
  <2>. HIDE DEF b
  <2>14. TaskInv(b, {}) /\ IdleInv(b) /\ Free(b, w) /\ b.currentTask[w] = NoTask
    <3>1. T \ T = {}
      OBVIOUS
    <3>. QED
      BY <2>2, <2>5, <2>8, <2>12, <2>13, <3>1, SameIdle DEF Same
  <2>15. Books(pool', {}) /\ Moves(b, {}, pool', {}) /\ Touch(b, pool', w)
    BY <2>3, <2>12, <2>14, MarkWorkerIdleBooks
  <2>16. Touch(pool, pool', w)
    BY <2>2, <2>5, <2>12, <2>15 DEF Touch, Same
  <2>. QED
    BY <2>10, <2>12, <2>15, <2>16, MovesTransitive
<1>. QED
  BY <1>7, <1>8

\* An error event: a reply still in flight names a task the pool is done with.
LEMMA OnErrorBooks ==
  ASSUME AllInv, NEW w \in Worker, OnError(w)
  PROVE  /\ BooksInv' /\ StepRel
         /\ w \in pool.ready => \A t \in Task : pool'.promise[t] # pool.promise[t]
                                                => t = pool.currentTask[w]
<1>1. /\ pool \in PoolState /\ TaskInv(pool, {}) /\ Books(pool, {})
      /\ thread \in [Worker -> ThreadState] /\ \A v \in Worker : Duty(pool, thread[v], v)
      /\ pool.pendingTasks \subseteq 1..pool.nextTaskId
      /\ pool.taskQueue \cap pool.pendingTasks = {}
  BY DEF AllInv, Inv, TaskInv, BooksInv
<1>2. pool' = HandleWorkerError(pool, w) /\ thread[w].err
  BY DEF OnError
<1>3. Drops(pool, pool', w)
  BY <1>1, <1>2, HandleWorkerErrorDrops
<1>4. /\ Books(pool', {}) /\ Moves(pool, {}, pool', {})
      /\ pool'.currentTask[w] # pool.currentTask[w] => pool.currentTask[w] \notin pool'.pendingTasks
      /\ w \in pool.ready => \A t \in Task : pool'.promise[t] # pool.promise[t]
                                             => t = pool.currentTask[w]
  BY <1>1, <1>2, HandleWorkerErrorBooks
<1>5. StepRel /\ \A t : Gone(pool, t) => Gone(pool', t)
  BY <1>3, <1>4, MovesStep DEF Drops
<1>6. /\ \A v \in Worker : thread'[v].out = thread[v].out /\ thread'[v].state = thread[v].state
      /\ \A v \in Worker : v # w => thread'[v] = thread[v]
      /\ ~thread'[w].err
  BY <1>1 DEF OnError, ThreadState
<1>7. ASSUME NEW v \in Worker  PROVE Duty(pool', thread'[v], v)
  <2>0. pool'.destroyed = pool.destroyed /\ pool'.port = pool.port
    BY <1>3 DEF Drops
  <2>1. CASE v = w
    <3>1. thread[w].state = "dead"
      BY <1>1, <1>2 DEF Duty
    <3>2. ASSUME ~pool'.destroyed, thread[w].out # <<>>, thread[w].out[1].tag # "READY"
          PROVE  LET x == thread[w].out[1].taskId
                 IN  pool'.currentTask[w] = x \/ (pool'.currentTask[w] = NoTask /\ Gone(pool', x))
      <4>. DEFINE x == thread[w].out[1].taskId
      <4>1. pool.currentTask[w] = x \/ (pool.currentTask[w] = NoTask /\ Gone(pool, x))
        BY <1>1, <2>0, <3>2 DEF Duty
      <4>. HIDE DEF x
      <4>2. CASE pool'.currentTask[w] = pool.currentTask[w]
        BY <1>5, <4>1, <4>2 DEF x
      <4>3. CASE pool'.currentTask[w] # pool.currentTask[w]
        <5>1. pool'.currentTask[w] = NoTask /\ pool.currentTask[w] # NoTask
          BY <1>3, <4>3 DEF Drops
        <5>2. x = pool.currentTask[w] /\ x \in pool.pendingTasks
          BY <1>1, <2>0, <3>2, <4>1, <5>1 DEF Books, Held
        <5>3. Gone(pool', x)
          BY <1>1, <1>4, <4>3, <5>2 DEF Gone, Moves, Fixed
        <5>. QED
          BY <5>1, <5>3 DEF x
      <4>. QED
        BY <4>2, <4>3
    <3>. QED
      BY <1>6, <2>1, <3>1, <3>2 DEF Duty
  <2>2. CASE v # w
    <3>1. thread'[v] = thread[v] /\ pool'.currentTask[v] = pool.currentTask[v] /\ Duty(pool, thread[v], v)
      BY <1>1, <1>3, <1>6, <2>2 DEF Drops
    <3>. QED
      BY <1>5, <2>0, <3>1, DutyKept
  <2>. QED
    BY <2>1, <2>2
<1>. QED
  BY <1>4, <1>5, <1>7 DEF BooksInv

\* An exit: the entry is gone, the freed slot is filled; queued tasks wait for
\* workers that are all busy, so dispatching settles none of them.
LEMMA OnExitBooks ==
  ASSUME AllInv, NEW w \in Worker, OnExit(w)
  PROVE  /\ BooksInv' /\ StepRel
         /\ w \in pool.ready => \A t \in Task : pool'.promise[t] # pool.promise[t]
                                                => t = pool.currentTask[w]
<1>. DEFINE c == RemoveExited(pool, w)
            g == [v \in Worker |-> IF v = w THEN NoThread ELSE thread[v]]
<1>1. /\ TaskInv(pool, {}) /\ SlotInv(pool) /\ IdleInv(pool) /\ Books(pool, {})
      /\ \A v \in Worker : Link(pool, thread[v], v) /\ Duty(pool, thread[v], v)
      /\ ThreadInv /\ Inv
  BY DEF AllInv, Inv, ThreadInv, BooksInv
<1>2. /\ IdleInv(c) /\ Idle(c) = Idle(pool) \ {w}
      /\ c.ready = pool.ready \ {w} /\ c.live = pool.live \ {w}
      /\ c.workers = pool.workers \ {w} /\ c.destroyed = pool.destroyed
      /\ c.port[w] = <<>> /\ (\A v \in Worker \ {w} : c.port[v] = pool.port[v])
      /\ c.currentTask[w] = NoTask
      /\ \A v \in Worker \ {w} : c.currentTask[v] = pool.currentTask[v]
  BY <1>1, RemoveExitedIdle
<1>3. TaskInv(c, {}) /\ (pool.idleWorkers = <<>> => c.idleWorkers = <<>>)
      /\ c.taskQueue \subseteq pool.taskQueue
  BY <1>1, RemoveExitedInv
<1>4. /\ Books(c, {}) /\ Moves(pool, {}, c, {})
      /\ w \in pool.ready => \A t \in Task : c.promise[t] # pool.promise[t] => t = pool.currentTask[w]
  BY <1>1, RemoveExitedBooks
<1>. HIDE DEF c
<1>5. \A v \in Worker : Link(c, g[v], v) /\ Duty(c, g[v], v)
  <2>. SUFFICES ASSUME NEW v \in Worker  PROVE Link(c, g[v], v) /\ Duty(c, g[v], v)
    OBVIOUS
  <2>1. CASE v = w
    <3>1. NoThread.out = <<>> /\ NoThread.state = "none" /\ ~NoThread.err /\ g[v] = NoThread
      BY <2>1 DEF NoThread
    <3>. QED
      BY <1>2, <2>1, <3>1 DEF Link, Duty
  <2>2. CASE v # w
    <3>1. g[v] = thread[v] /\ Link(pool, thread[v], v) /\ Duty(pool, thread[v], v)
      BY <1>1, <2>2
    <3>. HIDE DEF g
    <3>2. /\ c.port[v] = pool.port[v] /\ (v \in Idle(c) <=> v \in Idle(pool))
          /\ (v \in c.ready <=> v \in pool.ready) /\ (v \in c.live <=> v \in pool.live)
          /\ (v \in c.workers <=> v \in pool.workers) /\ c.destroyed = pool.destroyed
          /\ c.currentTask[v] = pool.currentTask[v]
      BY <1>2, <2>2
    <3>3. \A t : Gone(pool, t) => Gone(c, t)
      BY <1>4 DEF Moves, Fixed, Gone
    <3>4. Duty(c, g[v], v)
      BY <3>1, <3>2, <3>3, DutyKept
    <3>. QED
      BY <3>1, <3>2, <3>4 DEF Link
  <2>. QED
    BY <2>1, <2>2
<1>6. /\ Books(pool', {}) /\ Moves(c, {}, pool', {}) /\ Spread(c, pool')
      /\ w \in pool.ready => pool'.promise = c.promise
  <2>1. CASE pool.destroyed
    <3>1. pool' = MaybeResolveDrain(c) /\ c \in PoolState
      BY <1>3, <2>1 DEF OnExit, HandleWorkerExit, TaskInv, c
    <3>2. Books(pool', {}) /\ Moves(c, {}, pool', {}) /\ Same(c, pool') /\ pool'.promise = c.promise
      BY <1>4, <3>1, MaybeResolveDrainBooks
    <3>. QED
      BY <3>2 DEF Spread, Same
  <2>2. CASE ~pool.destroyed
    <3>. DEFINE d == ReplaceExited(pool, w)
                e == TryDispatch(d)
    <3>1. /\ TaskInv(d, {}) /\ ~d.destroyed /\ d.workers \subseteq d.live
          /\ Cardinality(d.workers) <= MaxThreads
          /\ d.taskQueue # {} => d.idleWorkers = <<>> /\ Cardinality(d.workers) >= MaxThreads - 1
          /\ d.taskQueue # {} /\ Cardinality(d.workers) < MaxThreads => d.live # Worker
      BY <1>1, <2>2, ReplaceExitedInv
    <3>2. pool' = MaybeResolveDrain(e)
      BY <2>2 DEF OnExit, HandleWorkerExit
    <3>3. \/ d = c
          \/ d = SpawnWorker(c, NoTask) /\ Cardinality(c.workers) < MinThreads
      BY DEF ReplaceExited, c
    <3>. HIDE DEF d
    <3>4. c \in PoolState /\ c.live # Worker /\ c.workers \subseteq c.live /\ ~c.destroyed
      BY <1>1, <1>2, <1>3, <2>2 DEF TaskInv, SlotInv
    <3>5. /\ IdleInv(d) /\ Books(d, {}) /\ Moves(c, {}, d, {}) /\ d.promise = c.promise
          /\ d.port = c.port /\ d.idleWorkers = c.idleWorkers /\ c.live \subseteq d.live
          /\ \A v \in c.live : d.currentTask[v] = c.currentTask[v]
      <4>1. CASE d = c
        BY <1>2, <1>4, <4>1 DEF Moves, Fixed
      <4>2. CASE d = SpawnWorker(c, NoTask) /\ Cardinality(c.workers) < MinThreads
        <5>1. IdleInv(d) /\ Grow(c, d)
          BY <1>2, <3>4, <4>2, SpawnWorkerIdle
        <5>2. /\ Books(d, {}) /\ Moves(c, {}, d, {}) /\ d.port = c.port /\ d.promise = c.promise
              /\ (\A v \in c.live : d.currentTask[v] = c.currentTask[v])
              /\ d.idleWorkers = c.idleWorkers
          <6>. DEFINE T == {}
                      t == NoTask
          <6>1. T = {} /\ t = NoTask /\ t \in {NoTask} \cup T /\ T \subseteq {t}
            OBVIOUS
          <6>2. TaskInv(c, T) /\ Books(c, T) /\ IdleInv(c)
            BY <1>2, <1>3, <1>4
          <6>3. Idle(c) = {} \/ Cardinality(c.workers) < MinThreads
            BY <4>2
          <6>4. d = SpawnWorker(c, t)
            BY <4>2
          <6>. HIDE DEF T, t
          <6>5. /\ Books(d, {}) /\ Moves(c, T, d, {}) /\ d.port = c.port /\ d.promise = c.promise
                /\ (\A v \in c.live : d.currentTask[v] = c.currentTask[v])
                /\ d.idleWorkers = c.idleWorkers
            BY <3>4, <6>1, <6>2, <6>3, <6>4, SpawnWorkerBooks
          <6>. QED
            BY <6>1, <6>5
        <5>. QED
          BY <5>1, <5>2 DEF Grow
      <4>. QED
        BY <3>3, <4>1, <4>2
    <3>6. /\ Books(e, {}) /\ Moves(d, {}, e, {}) /\ Spread(d, e)
          /\ Idle(d) = {} => e.promise = d.promise
      BY <3>1, <3>5, TryDispatchBooks
    <3>7. w \in pool.ready => e.promise = d.promise
      <4>1. CASE d.taskQueue = {}
        <5>1. Valid(d) = {} /\ d \in PoolState
          BY <3>1, <4>1 DEF Valid, TaskInv
        <5>2. e = SkipAborted(d)
          BY <5>1 DEF TryDispatch
        <5>. QED
          BY <3>1, <3>5, <5>2, SkipAbortedBooks
      <4>2. CASE d.taskQueue # {}
        <5>1. Idle(d) = {}
          BY <3>1, <4>2 DEF Idle, Range
        <5>. QED
          BY <3>6, <5>1
      <4>. QED
        BY <4>1, <4>2
    <3>8. e \in PoolState
      <4>1. \/ \E t : d.taskQueue \subseteq {t}
            \/ d.idleWorkers = <<>> /\ Cardinality(d.workers) >= MaxThreads - 1
        BY <3>1
      <4>2. TaskInv(e, {})
        BY <3>1, <4>1, TryDispatchInv
      <4>. HIDE DEF e
      <4>. QED
        BY <4>2 DEF TaskInv
    <3>. HIDE DEF e
    <3>9. Books(pool', {}) /\ Moves(e, {}, pool', {}) /\ Same(e, pool') /\ pool'.promise = e.promise
          /\ pool'.pendingTasks = e.pendingTasks
      BY <3>2, <3>6, <3>8, MaybeResolveDrainBooks
    <3>10. Spread(c, pool')
      <4>. SUFFICES ASSUME NEW v \in Worker
                    PROVE  \/ pool'.currentTask[v] = c.currentTask[v] /\ pool'.port[v] = c.port[v]
                           \/ v \in Idle(c) /\ (pool'.port[v] = <<>> \/ Sent(pool', v))
                           \/ v \notin c.live /\ pool'.port[v] = c.port[v]
        BY DEF Spread
      <4>1. Idle(d) = Idle(c)
        BY <3>5 DEF Idle
      <4>2. Sent(e, v) => Sent(pool', v)
        BY <3>9 DEF Sent, Same, Moves, Fixed
      <4>3. \/ e.currentTask[v] = d.currentTask[v] /\ e.port[v] = d.port[v]
            \/ v \in Idle(d) /\ (e.port[v] = <<>> \/ Sent(e, v))
            \/ v \notin d.live /\ e.port[v] = d.port[v]
        BY <3>6 DEF Spread
      <4>. QED
        BY <3>5, <3>9, <4>1, <4>2, <4>3 DEF Same
    <3>11. Moves(c, {}, pool', {})
      BY <3>5, <3>6, <3>9, MovesTransitive
    <3>. QED
      BY <3>5, <3>7, <3>9, <3>10, <3>11
  <2>. QED
    BY <2>1, <2>2
<1>7. Moves(pool, {}, pool', {})
  BY <1>4, <1>6, MovesTransitive
<1>8. StepRel
  <2>1. \A v \in Worker : \/ pool'.port[v] = pool.port[v] \/ Sent(pool', v)
                          \/ \A t \in Task : pool'.port[v] # <<t>>
    <3>1. \A t : <<t>> # <<>>
      OBVIOUS
    <3>. QED
      BY ZenonT(30), <1>2, <1>6, <3>1 DEF Spread
  <2>. QED
    BY <1>7, <2>1, MovesStep
<1>9. \A v \in Worker : Duty(pool', thread'[v], v)
  <2>1. \A v \in Worker : thread'[v] = IF v \in pool'.live \ c.live THEN Booting ELSE g[v]
    BY <1>2 DEF OnExit
  <2>2. pool'.destroyed = c.destroyed /\ \A t : Gone(c, t) => Gone(pool', t)
    BY <1>6 DEF Moves, Fixed, Gone
  <2>. HIDE DEF g
  <2>. QED
    BY <1>2, <1>5, <1>6, <2>1, <2>2, SpreadDuty
<1>. QED
  BY <1>4, <1>6, <1>8, <1>9 DEF BooksInv

\* What a thread does by itself: its reply is for the task its entry holds.
LEMMA ThreadStepBooks ==
  ASSUME AllInv, NEW w \in Worker,
         \/ ThreadReady(w) \/ ThreadReply(w) \/ ThreadShutsDown(w) \/ ThreadTerminated(w)
         \/ \E error \in BOOLEAN : ThreadStartFails(w, error) \/ ThreadCrashes(w, error)
  PROVE  BooksInv' /\ StepRel
<1>0. /\ thread \in [Worker -> ThreadState] /\ pool \in PoolState /\ IdleInv(pool)
      /\ \A v \in Worker : Link(pool, thread[v], v) /\ Duty(pool, thread[v], v)
      /\ Books(pool, {})
  BY DEF AllInv, Inv, TaskInv, ThreadInv, BooksInv
<1>1. ASSUME pool' = pool, NEW h, Duty(pool, h, w),
             \A v \in Worker : thread'[v] = IF v = w THEN h ELSE thread[v]
      PROVE  BooksInv' /\ StepRel
  <2>1. \A v \in Worker : Duty(pool, thread'[v], v)
    BY <1>0, <1>1
  <2>2. Books(pool, {})' /\ \A v \in Worker : Duty(pool', thread'[v], v)
    BY <1>0, <1>1, <2>1
  <2>. QED
    BY <1>1, <2>2 DEF BooksInv, StepRel
<1>2. ASSUME NEW error, Dies(w, error), pool' = pool
      PROVE  BooksInv' /\ StepRel
  <2>. DEFINE h == [thread[w] EXCEPT !.state = "dead", !.err = error]
  <2>1. \A v \in Worker : thread'[v] = IF v = w THEN h ELSE thread[v]
    BY <1>0, <1>2 DEF Dies
  <2>2. h.out = thread[w].out /\ h.state = "dead"
    BY <1>0 DEF ThreadState
  <2>. HIDE DEF h
  <2>3. Duty(pool, h, w)
    BY <1>0, <2>2 DEF Duty
  <2>. QED
    BY <1>1, <1>2, <2>1, <2>3
<1>3. CASE ThreadReady(w)
  <2>. DEFINE h == [thread[w] EXCEPT !.state = "running", !.out = Append(@, MSG_READY)]
  <2>1. \A v \in Worker : thread'[v] = IF v = w THEN h ELSE thread[v]
    BY <1>0, <1>3 DEF ThreadReady
  <2>2. thread[w].out = <<>> /\ w \notin pool.ready /\ ~thread[w].err /\ thread[w].state = "booting"
    BY <1>0, <1>3 DEF Link, Duty, ThreadReady
  <2>3. h.out = <<MSG_READY>> /\ h.state = "running" /\ ~h.err
    BY <1>0, <2>2 DEF ThreadState
  <2>4. pool.port[w] = <<>> /\ <<MSG_READY>>[1].tag = "READY"
    BY <1>0, <2>2 DEF IdleInv, MSG_READY
  <2>5. \A t : <<t>> # <<>>
    OBVIOUS
  <2>. HIDE DEF h
  <2>6. Duty(pool, h, w)
    BY <2>3, <2>4, <2>5 DEF Duty
  <2>. QED
    BY <1>1, <1>3, <2>1, <2>6 DEF ThreadReady
<1>4. CASE ThreadReply(w)
  <2>0. \A t \in Task : /\ MSG_RESULT(t) \in OutboundMessage /\ MSG_RESULT(t).taskId = t
                        /\ MSG_ERROR(t) \in OutboundMessage /\ MSG_ERROR(t).taskId = t
    BY DEF MSG_RESULT, MSG_ERROR, OutboundMessage
  <2>1. PICK msg \in OutboundMessage : ThreadReplies(w, msg) /\ msg.taskId \in Task
    BY <1>4, <2>0 DEF ThreadReply
  <2>. DEFINE p == [pool.port EXCEPT ![w] = Tail(@)]
              h == [thread[w] EXCEPT !.out = Append(@, msg)]
              q == pool.port[w]
  <2>2. /\ q \in Seq(Task \cup {MSG_SHUTDOWN}) /\ q # <<>> /\ Len(q) = 1 /\ Head(q) = msg.taskId
        /\ pool.port \in [Worker -> Seq(Task \cup {MSG_SHUTDOWN})]
    BY <1>0, <2>1 DEF ThreadReplies, PoolState, IdleInv
  <2>3. thread[w].out = <<>> /\ thread[w].state = "running" /\ ~thread[w].err
    BY <1>0, <2>1, <2>2 DEF Link, Duty, ThreadReplies
  <2>4. q = <<msg.taskId>>
    BY <2>2
  <2>5. ~pool.destroyed => pool.currentTask[w] = msg.taskId
    BY <1>0, <2>1, <2>3, <2>4 DEF Duty
  <2>6. p[w] = <<>> /\ \A v \in Worker : v # w => p[v] = pool.port[v]
    <3>2. Tail(q) \in Seq(Task \cup {MSG_SHUTDOWN}) /\ Len(Tail(q)) = 0
      BY <2>2
    <3>3. Tail(q) = <<>>
      BY <3>2, EmptySeq
    <3>. QED
      BY <2>2, <3>3
  <2>7. pool' = [pool EXCEPT !.port = p]
    BY <1>0, <2>1 DEF ThreadReplies, PoolState
  <2>. HIDE DEF p, q
  <2>8. /\ pool'.port = p /\ Same([pool EXCEPT !.port = p], pool') /\ Fixed(pool, pool')
        /\ pool'.taskQueue = pool.taskQueue /\ pool'.pendingTasks = pool.pendingTasks
        /\ pool'.promise = pool.promise /\ pool'.drainDeferred = pool.drainDeferred
        /\ pool'.workers = pool.workers /\ pool'.idleWorkers = pool.idleWorkers
        /\ pool'.idleTimer = pool.idleTimer /\ pool'.currentTask = pool.currentTask
    BY <1>0, <2>7 DEF PoolState, Fixed, Same
  <2>9. Books(pool', {})
    BY <1>0, <2>8 DEF Books, Held, Awaited, Timed, Idle, Fixed
  <2>10. h.out = <<msg>> /\ h.state = "running" /\ ~h.err
    BY <1>0, <2>3 DEF ThreadState
  <2>11. \A v \in Worker : thread'[v] = IF v = w THEN h ELSE thread[v]
    BY <1>0, <2>1 DEF ThreadReplies
  <2>12. \A t : <<t>> # <<>>
    OBVIOUS
  <2>. HIDE DEF h
  <2>13. ASSUME NEW v \in Worker  PROVE Duty(pool', thread'[v], v)
    <3>1. CASE v = w
      <4>1. <<msg>>[1] = msg /\ pool'.port[w] = <<>> /\ pool'.destroyed = pool.destroyed
        BY <2>6, <2>8 DEF Fixed
      <4>2. thread'[w] = h
        BY <2>11
      <4>. QED
        BY <2>5, <2>8, <2>10, <2>12, <3>1, <4>1, <4>2 DEF Duty
    <3>2. CASE v # w
      <4>1. /\ thread'[v] = thread[v] /\ pool'.port[v] = pool.port[v]
            /\ pool'.currentTask[v] = pool.currentTask[v] /\ pool'.destroyed = pool.destroyed
        BY <2>6, <2>8, <2>11, <3>2 DEF Fixed
      <4>2. \A t : Gone(pool, t) => Gone(pool', t)
        BY <2>8 DEF Gone, Fixed
      <4>. QED
        BY <1>0, <4>1, <4>2, DutyKept
    <3>. QED
      BY <3>1, <3>2
  <2>14. StepRel
    BY <2>6, <2>8, <2>12 DEF StepRel, Fixed
  <2>. QED
    BY <2>9, <2>13, <2>14 DEF BooksInv
<1>5. CASE ThreadShutsDown(w)
  BY <1>2, <1>5 DEF ThreadShutsDown
<1>6. CASE ThreadTerminated(w)
  BY <1>2, <1>6 DEF ThreadTerminated
<1>7. ASSUME NEW error \in BOOLEAN, ThreadStartFails(w, error) \/ ThreadCrashes(w, error)
      PROVE  BooksInv' /\ StepRel
  BY <1>2, <1>7 DEF ThreadStartFails, ThreadCrashes
<1>. QED
  BY <1>3, <1>4, <1>5, <1>6, <1>7

\* make() establishes BooksInv.
LEMMA InitBooks == Init => BooksInv
<1>. SUFFICES ASSUME Init PROVE BooksInv
  OBVIOUS
<1>1. /\ pool.taskQueue = {} /\ pool.pendingTasks = {} /\ pool.destroying = {}
      /\ pool.idleWorkers = <<>> /\ (\A t \in Task : pool.promise[t] = "none")
      /\ \A w \in Worker : pool.currentTask[w] = NoTask /\ pool.port[w] = <<>>
  BY DEF Init
<1>2. Held(pool)
  BY <1>1 DEF Held
<1>3. Awaited(pool, {}) /\ Timed(pool)
  BY <1>1 DEF Awaited, Timed, Idle, Range
<1>4. ASSUME NEW w \in Worker  PROVE Duty(pool, thread[w], w)
  <2>1. thread[w] = Booting \/ thread[w] = NoThread
    BY DEF Init
  <2>2. /\ Booting.out = <<>> /\ Booting.state = "booting" /\ ~Booting.err
        /\ NoThread.out = <<>> /\ NoThread.state = "none" /\ ~NoThread.err
    BY DEF Booting, NoThread
  <2>. QED
    BY <2>1, <2>2 DEF Duty
<1>. QED
  BY <1>1, <1>2, <1>3, <1>4 DEF BooksInv, Books

-----------------------------------------------------------------------------
(* The theorems. *)

\* One step preserves the three invariants together, and is a StepRel.
LEMMA NextBooks == AllInv /\ [Next]_vars => AllInv' /\ StepRel
<1>. SUFFICES ASSUME AllInv, [Next]_vars  PROVE AllInv' /\ StepRel
  OBVIOUS
<1>0. Inv' /\ ThreadInv'
  BY NextInv DEF AllInv
<1>. SUFFICES BooksInv' /\ StepRel
  BY <1>0 DEF AllInv
<1>1. ASSUME NEW p \in Priority, NEW cloneable \in Cloneable,
             RunOnIdle(p, cloneable) \/ RunOnNewThread(p, cloneable) \/ RunQueued(p, cloneable)
      PROVE  BooksInv' /\ StepRel
  BY <1>1, RunBooks
<1>2. ASSUME NEW t \in Task, Abort(t)  PROVE BooksInv' /\ StepRel
  BY <1>2, AbortBooks
<1>3. CASE Drain
  BY <1>3, DrainBooks
<1>4. CASE Destroy
  BY <1>4, DestroyBooks
<1>5. ASSUME NEW S \in SUBSET Worker, DestroyDone(S)  PROVE BooksInv' /\ StepRel
  BY <1>5, DrainBooks
<1>6. ASSUME NEW w \in Worker, TerminateIdleWorker(w)  PROVE BooksInv' /\ StepRel
  BY <1>6, TerminateIdleWorkerBooks
<1>7. ASSUME NEW w \in Worker, OnMessage(w)  PROVE BooksInv' /\ StepRel
  BY <1>7, OnMessageBooks
<1>8. ASSUME NEW w \in Worker, OnError(w)  PROVE BooksInv' /\ StepRel
  BY <1>8, OnErrorBooks
<1>9. ASSUME NEW w \in Worker, OnExit(w)  PROVE BooksInv' /\ StepRel
  BY <1>9, OnExitBooks
<1>10. ASSUME NEW w \in Worker,
              \/ ThreadReady(w) \/ ThreadReply(w) \/ ThreadShutsDown(w) \/ ThreadTerminated(w)
              \/ \E error \in BOOLEAN : ThreadStartFails(w, error) \/ ThreadCrashes(w, error)
       PROVE  BooksInv' /\ StepRel
  BY <1>10, ThreadStepBooks
<1>11. CASE UNCHANGED vars
  <2>1. BooksInv'
    BY <1>11 DEF vars, AllInv, BooksInv
  <2>2. StepRel
    BY <1>11 DEF vars, StepRel
  <2>. QED
    BY <2>1, <2>2
<1>12. CASE Client
  BY <1>1, <1>2, <1>3, <1>4, <1>12 DEF Client
<1>. QED
  BY <1>5, <1>6, <1>7, <1>8, <1>9, <1>10, <1>11, <1>12 DEF Next

\* The three invariants hold in every reachable state.
THEOREM BooksInductive == Spec => []AllInv
<1>1. Init => AllInv
  BY InitInv, InitThread, InitBooks DEF AllInv
<1>. QED
  BY <1>1, NextBooks, PTL DEF Spec

\* activeCount() is truthful, a thread has one thing outstanding, which is what
\* its entry holds, a destroyed pool is empty and no idle thread is forgotten
\* (dispatchTask, handleWorkerMessage, handleWorkerExit, destroy).
THEOREM BooksDoAgree == Spec => []BooksAgree
<1>1. ASSUME AllInv  PROVE BooksAgree
  <2>0. /\ TaskInv(pool, {}) /\ SlotInv(pool) /\ IdleInv(pool) /\ Books(pool, {})
        /\ \A w \in Worker : Link(pool, thread[w], w) /\ Duty(pool, thread[w], w)
        /\ thread \in [Worker -> ThreadState] /\ pool \in PoolState
    BY <1>1 DEF AllInv, Inv, TaskInv, ThreadInv, BooksInv
  <2>1. PendingIsHeld
    <3>. SUFFICES ASSUME ~pool.destroyed
                  PROVE  /\ pool.pendingTasks = {pool.currentTask[w] : w \in pool.workers} \ {NoTask}
                         /\ \A w \in Worker : pool.currentTask[w] # NoTask =>
                              /\ w \in pool.workers /\ pool.currentTask[w] \notin pool.taskQueue
                              /\ \A v \in Worker : pool.currentTask[v] = pool.currentTask[w] => v = w
      BY DEF PendingIsHeld
    <3>1. /\ pool.pendingTasks = {pool.currentTask[w] : w \in Worker} \ {NoTask}
          /\ \A w \in Worker : pool.currentTask[w] # NoTask => w \in pool.workers
          /\ \A v, w \in Worker : pool.currentTask[v] = pool.currentTask[w]
                                  /\ pool.currentTask[w] # NoTask => v = w
      BY <2>0 DEF Books, Held
    <3>2. pool.taskQueue \cap pool.pendingTasks = {} /\ pool.workers \subseteq Worker
      BY <2>0 DEF TaskInv, PoolState
    <3>3. {pool.currentTask[w] : w \in pool.workers} \ {NoTask} = pool.pendingTasks
      BY <3>1, <3>2
    <3>. QED
      BY <3>1, <3>2, <3>3
  <2>2. OneOutstanding
    <3>. SUFFICES ASSUME NEW w \in Worker
                  PROVE  /\ Len(pool.port[w]) + Len(thread[w].out) <= 1
                         /\ \A t \in Task :
                              thread[w].state = "running" /\ pool.port[w] = <<t>> /\ ~pool.destroyed
                              => pool.currentTask[w] = t /\ t \in pool.pendingTasks
      BY DEF OneOutstanding
    <3>1. /\ pool.port[w] = <<>> \/ (Len(pool.port[w]) = 1 /\ thread[w].out = <<>>)
          /\ thread[w].out = <<>> \/ Len(thread[w].out) = 1
      BY <2>0 DEF IdleInv, Link
    <3>2. Len(<<>>) = 0
      OBVIOUS
    <3>3. Len(pool.port[w]) + Len(thread[w].out) <= 1
      <4>. DEFINE a == Len(pool.port[w])
                  b == Len(thread[w].out)
      <4>1. (a = 0 \/ (a = 1 /\ b = 0)) /\ (b = 0 \/ b = 1)
        BY <3>1, <3>2
      <4>. HIDE DEF a, b
      <4>2. a + b <= 1
        BY <4>1
      <4>. QED
        BY <4>2 DEF a, b
    <3>4. ASSUME NEW t \in Task, thread[w].state = "running", pool.port[w] = <<t>>, ~pool.destroyed
          PROVE  pool.currentTask[w] = t /\ t \in pool.pendingTasks
      <4>1. pool.currentTask[w] = t /\ t # NoTask
        BY <2>0, <3>4, BoundsAssumption DEF Duty, Task, NoTask
      <4>. QED
        BY <2>0, <3>4, <4>1 DEF Books, Held
    <3>. QED
      BY <3>3, <3>4
  <2>3. DestroyedIsEmpty
    <3>1. Cardinality({}) = 0
      BY FS_EmptySet
    <3>. QED
      BY <2>0, <3>1 DEF DestroyedIsEmpty, TaskInv, SlotInv, IdleInv
  <2>4. IdleTimers
    <3>1. \A w \in pool.idleTimer : \E i \in DOMAIN pool.idleWorkers : pool.idleWorkers[i] = w
      BY <2>0 DEF IdleInv, Idle, Range
    <3>2. pool.destroyed => Cardinality(pool.workers) = 0
      BY <2>0, FS_EmptySet DEF SlotInv
    <3>3. IdleTimeout /\ Cardinality(pool.workers) > MinThreads => ~pool.destroyed
      BY <3>2, ThreadsAssumption
    <3>4. IdleTimeout /\ Cardinality(pool.workers) > MinThreads =>
            \A i \in DOMAIN pool.idleWorkers : pool.idleWorkers[i] \in pool.idleTimer
      BY <2>0, <3>3 DEF Books, Timed, Idle, Range
    <3>. QED
      BY <3>1, <3>4 DEF IdleTimers
  <2>. QED
    BY <2>1, <2>2, <2>3, <2>4 DEF BooksAgree
<1>. QED
  BY <1>1, BooksInductive, PTL

\* taskCmp: what leaves the queue for a worker comes before every valid task
\* left in it (dequeueNextValid, tryDispatch).
THEOREM QueueIsOrdered == Spec => QueueOrder
<1>1. AllInv /\ [Next]_vars =>
        [\A t \in pool.taskQueue \ pool'.taskQueue : t \in pool'.pendingTasks =>
           \A u \in pool'.taskQueue \ pool'.aborted :
             /\ pool.priority[t] <= pool.priority[u]
             /\ pool.priority[t] = pool.priority[u] => t < u]_vars
  <2>. SUFFICES ASSUME AllInv, [Next]_vars, NEW t \in pool.taskQueue \ pool'.taskQueue,
                       t \in pool'.pendingTasks, NEW u \in pool'.taskQueue \ pool'.aborted
                PROVE  /\ pool.priority[t] <= pool.priority[u]
                       /\ pool.priority[t] = pool.priority[u] => t < u
    OBVIOUS
  <2>1. Before(pool, t, u)
    BY NextBooks DEF StepRel
  <2>2. t \in Task /\ u \in Task
    BY NextBooks DEF AllInv, Inv, TaskInv, PoolState
  <2>3. pool.priority[t] \in Int /\ pool.priority[u] \in Int
    BY <2>2, PriorityAssumption DEF AllInv, Inv, TaskInv, PoolState
  <2>. QED
    BY <2>1, <2>2, <2>3 DEF Before, Task
<1>. QED
  BY <1>1, BooksInductive, PTL DEF Spec, QueueOrder

\* A task whose caller has aborted is never posted to a thread (postTask,
\* handleReady, dequeueNextValid).
THEOREM AbortedIsNeverSent == Spec => AbortedNeverSent
<1>1. AllInv /\ [Next]_vars =>
        [\A w \in Worker, t \in Task : pool'.port[w] = <<t>> /\ pool.port[w] # <<t>> =>
           t \notin pool.aborted /\ (pool.promise[t] = "pending" \/ pool.promise[t] = "none"
                                      \/ pool.destroyed)]_vars
  <2>. SUFFICES ASSUME AllInv, [Next]_vars, NEW w \in Worker, NEW t \in Task,
                       pool'.port[w] = <<t>>, pool.port[w] # <<t>>
                PROVE  /\ t \notin pool.aborted
                       /\ pool.promise[t] = "pending" \/ pool.promise[t] = "none" \/ pool.destroyed
    OBVIOUS
  <2>1. StepRel /\ Books(pool', {})
    BY NextBooks DEF AllInv, BooksInv
  <2>2. Sent(pool', w) /\ pool'.destroyed = pool.destroyed
    BY <2>1 DEF StepRel
  <2>3. t = pool'.currentTask[w]
    BY <2>2 DEF Sent
  <2>4. t \notin pool.aborted
    BY <2>1, <2>2, <2>3 DEF Sent, StepRel
  <2>5. CASE ~pool.destroyed
    <3>1. t \in pool'.pendingTasks /\ t \notin pool'.aborted /\ ~pool'.destroyed
      BY <2>2, <2>3, <2>5 DEF Sent
    <3>2. pool'.promise[t] = "pending"
      BY <2>1, <3>1 DEF Books, Awaited
    <3>. QED
      BY <2>1, <2>4, <3>2 DEF StepRel
  <2>. QED
    BY <2>4, <2>5
<1>. QED
  BY <1>1, BooksInductive, PTL DEF Spec, AbortedNeverSent

\* drain() resolves only when every caller has its answer and no running
\* thread has a task left (maybeResolveDrain, in whichever handler).
THEOREM DrainIsTruthful == Spec => DrainTruthful
<1>1. AllInv /\ [Next]_vars =>
        [pool.drainDeferred /\ ~pool'.drainDeferred =>
           /\ \A t \in Task : pool'.promise[t] # "pending"
           /\ \A w \in Worker : thread'[w].state = "running" /\ ~pool'.destroyed =>
                 \A t \in Task : pool'.port[w] # <<t>>]_vars
  <2>. SUFFICES ASSUME AllInv, [Next]_vars, pool.drainDeferred, ~pool'.drainDeferred
                PROVE  /\ \A t \in Task : pool'.promise[t] # "pending"
                       /\ \A w \in Worker : thread'[w].state = "running" /\ ~pool'.destroyed =>
                             \A t \in Task : pool'.port[w] # <<t>>
    OBVIOUS
  <2>1. /\ pool'.taskQueue \cup pool'.pendingTasks = {} /\ TaskInv(pool', {}) /\ Books(pool', {})
        /\ \A w \in Worker : Duty(pool', thread'[w], w)
    BY NextBooks DEF StepRel, AllInv, Inv, BooksInv
  <2>2. \A t \in Task : pool'.promise[t] # "pending"
    BY <2>1 DEF TaskInv
  <2>3. ASSUME NEW w \in Worker, thread'[w].state = "running", ~pool'.destroyed,
               NEW t \in Task, pool'.port[w] = <<t>>
        PROVE  FALSE
    <3>1. pool'.currentTask[w] = t /\ t # NoTask
      BY <2>1, <2>3, BoundsAssumption DEF Duty, Task, NoTask
    <3>2. t \in pool'.pendingTasks
      BY <2>1, <2>3, <3>1 DEF Books, Held
    <3>. QED
      BY <2>1, <3>2
  <2>. QED
    BY <2>2, <2>3
<1>. QED
  BY <1>1, BooksInductive, PTL DEF Spec, DrainTruthful

\* The error or the exit of a worker that was ready settles no task but the
\* one it held (handleWorkerError, handleWorkerExit).
THEOREM CrashIsIsolated == Spec => CrashIsolated
<1>1. AllInv /\ [Next]_vars =>
        [\A w \in pool.ready : OnError(w) \/ OnExit(w) =>
           \A t \in Task : pool'.promise[t] # pool.promise[t] => t = pool.currentTask[w]]_vars
  <2>. SUFFICES ASSUME AllInv, NEW w \in pool.ready, OnError(w) \/ OnExit(w)
                PROVE  \A t \in Task : pool'.promise[t] # pool.promise[t] => t = pool.currentTask[w]
    OBVIOUS
  <2>1. w \in Worker
    BY DEF AllInv, Inv, TaskInv, PoolState
  <2>. QED
    BY <2>1, OnErrorBooks, OnExitBooks
<1>. QED
  BY <1>1, BooksInductive, PTL DEF Spec, CrashIsolated
=============================================================================
