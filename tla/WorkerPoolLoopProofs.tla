------------------------ MODULE WorkerPoolLoopProofs ------------------------
(***************************************************************************)
(* The loops of WorkerPool.ts, as MCWorkerPool runs them, end, and compute *)
(* what the closed forms of WorkerPool say: LoopsAgree for every number of *)
(* threads and tasks.                                                      *)
(*                                                                         *)
(* A loop is a recursive function.  That one exists is TailRecursion: its  *)
(* argument shrinks with the queue.  What it computes is proved with a     *)
(* least counterexample on the length of the queue.                        *)
(***************************************************************************)
EXTENDS WorkerPoolProofs, MCWorkerPool

Solves(f, D, Stop, out, next) == f = [x \in D |-> IF x \in Stop THEN out[x] ELSE f[next[x]]]

\* Solutions on two parts of S, closed under next, agree where both are defined.
LEMMA SolutionsAgree ==
  ASSUME NEW S, NEW Stop, NEW out, NEW next \in [S -> S], NEW m \in [S -> Nat],
         NEW D \in SUBSET S, NEW E \in SUBSET S, NEW f, NEW g,
         \A x \in D \cap E : x \notin Stop => next[x] \in D \cap E /\ m[next[x]] < m[x],
         Solves(f, D, Stop, out, next), Solves(g, E, Stop, out, next)
  PROVE  \A x \in D \cap E : f[x] = g[x]
<1>. DEFINE Bad == {x \in D \cap E : f[x] # g[x]}
            M == {m[x] : x \in Bad}
<1>1. /\ \A x \in D : f[x] = IF x \in Stop THEN out[x] ELSE f[next[x]]
      /\ \A x \in E : g[x] = IF x \in Stop THEN out[x] ELSE g[next[x]]
  BY DEF Solves
<1>2. SUFFICES ASSUME M # {}  PROVE FALSE
  OBVIOUS
<1>3. M \in SUBSET Nat
  OBVIOUS
<1>. HIDE DEF M
<1>4. PICK k \in M : \A j \in M : k <= j
  BY <1>2, <1>3, NatHasLeast
<1>5. PICK x \in Bad : k = m[x]
  BY <1>4 DEF M
<1>6. x \notin Stop
  BY <1>1, <1>5
<1>7. next[x] \in D \cap E /\ m[next[x]] < m[x]
  BY <1>5, <1>6
<1>8. f[next[x]] # g[next[x]]
  BY <1>1, <1>5, <1>6
<1>9. m[next[x]] \in M
  BY <1>7, <1>8 DEF M
<1>10. m[next[x]] \in Nat /\ m[x] \in Nat
  BY <1>5, <1>7
<1>. QED
  BY <1>4, <1>5, <1>7, <1>9, <1>10

\* A tail recursion whose argument shrinks has a solution.
LEMMA TailRecursion ==
  ASSUME NEW S, NEW Stop, NEW out, NEW next \in [S -> S], NEW m \in [S -> Nat],
         \A x \in S : x \notin Stop => m[next[x]] < m[x]
  PROVE  \E f : Solves(f, S, Stop, out, next)
<1>. DEFINE Below(k) == {x \in S : m[x] < k}
            Bad == {k \in Nat : ~\E f : Solves(f, Below(k), Stop, out, next)}
<1>1. Bad = {}
  <2>1. SUFFICES ASSUME Bad # {}  PROVE FALSE
    OBVIOUS
  <2>2. Bad \in SUBSET Nat
    OBVIOUS
  <2>3. PICK k \in Bad : \A j \in Bad : k <= j
    <3>. HIDE DEF Bad
    <3>. QED
      BY <2>1, <2>2, NatHasLeast
  <2>4. PICK g : k # 0 => Solves(g, Below(k - 1), Stop, out, next)
    <3>1. CASE k = 0
      BY <3>1
    <3>2. CASE k # 0
      <4>1. k - 1 \in Nat /\ ~(k <= k - 1)
        BY <2>2, <2>3, <3>2
      <4>2. k - 1 \notin Bad
        <5>. HIDE DEF Bad
        <5>. QED
          BY <2>3, <4>1
      <4>. QED
        BY <4>1, <4>2
    <3>. QED
      BY <3>1, <3>2
  <2>. DEFINE h == [x \in Below(k) |-> IF x \in Stop THEN out[x] ELSE g[next[x]]]
  <2>5. ASSUME NEW x \in Below(k), x \notin Stop  PROVE g[next[x]] = h[next[x]]
    <3>1. /\ k \in Nat /\ m[x] \in Nat /\ next[x] \in S /\ m[next[x]] \in Nat
          /\ m[next[x]] < m[x] /\ m[x] < k
      BY <2>2, <2>3, <2>5
    <3>2. k # 0 /\ next[x] \in Below(k - 1) /\ next[x] \in Below(k)
      BY <3>1
    <3>3. g = [y \in Below(k - 1) |-> IF y \in Stop THEN out[y] ELSE g[next[y]]]
      BY <2>4, <3>2 DEF Solves
    <3>. HIDE DEF Below
    <3>4. g[next[x]] = IF next[x] \in Stop THEN out[next[x]] ELSE g[next[next[x]]]
      BY <3>2, <3>3
    <3>. QED
      BY <3>2, <3>4
  <2>6. h = [x \in Below(k) |-> IF x \in Stop THEN out[x] ELSE h[next[x]]]
    <3>. HIDE DEF Below
    <3>. DEFINE e == [x \in Below(k) |-> IF x \in Stop THEN out[x] ELSE h[next[x]]]
    <3>1. \A x \in Below(k) : h[x] = e[x]
      BY <2>5
    <3>. QED
      BY <3>1
  <2>7. Solves(h, Below(k), Stop, out, next)
    <3>. HIDE DEF h, Below
    <3>. QED
      BY <2>6 DEF Solves
  <2>. QED
    BY <2>3, <2>7
<1>. DEFINE Sol(k) == CHOOSE f : Solves(f, Below(k), Stop, out, next)
            F == [x \in S |-> Sol(m[x] + 1)[x]]
<1>2. \A k \in Nat : Solves(Sol(k), Below(k), Stop, out, next)
  <2>. HIDE DEF Below
  <2>. QED
    BY <1>1
<1>. HIDE DEF Sol
<1>3. ASSUME NEW x \in S  PROVE F[x] = IF x \in Stop THEN out[x] ELSE F[next[x]]
  <2>. DEFINE a == m[x] + 1
              b == m[next[x]] + 1
  <2>1. m[x] \in Nat /\ a \in Nat /\ b \in Nat /\ next[x] \in S /\ m[next[x]] \in Nat
    OBVIOUS
  <2>2. Solves(Sol(a), Below(a), Stop, out, next) /\ Solves(Sol(b), Below(b), Stop, out, next)
    BY <1>2, <2>1
  <2>3. x \in Below(a) /\ next[x] \in Below(b)
    BY <2>1
  <2>4. Sol(a)[x] = IF x \in Stop THEN out[x] ELSE Sol(a)[next[x]]
    <3>. HIDE DEF Below, a
    <3>. QED
      BY <2>2, <2>3 DEF Solves
  <2>5. F[x] = Sol(a)[x] /\ F[next[x]] = Sol(b)[next[x]]
    BY <2>1
  <2>6. CASE x \notin Stop
    <3>1. m[next[x]] < m[x]
      BY <2>6
    <3>2. next[x] \in Below(a) \cap Below(b) /\ Below(a) \in SUBSET S /\ Below(b) \in SUBSET S
      BY <2>1, <3>1
    <3>3. \A y \in Below(a) \cap Below(b) : y \notin Stop =>
             next[y] \in Below(a) \cap Below(b) /\ m[next[y]] < m[y]
      <4>. SUFFICES ASSUME NEW y \in Below(a) \cap Below(b), y \notin Stop
                    PROVE  next[y] \in Below(a) \cap Below(b) /\ m[next[y]] < m[y]
        OBVIOUS
      <4>1. y \in S /\ next[y] \in S /\ m[y] \in Nat /\ m[next[y]] \in Nat /\ m[next[y]] < m[y]
            /\ m[y] < a /\ m[y] < b
        OBVIOUS
      <4>. HIDE DEF a, b
      <4>. QED
        BY <2>1, <4>1
    <3>. HIDE DEF Below, a, b, F
    <3>4. \A y \in Below(a) \cap Below(b) : Sol(a)[y] = Sol(b)[y]
      BY <2>2, <3>2, <3>3, SolutionsAgree
    <3>. QED
      BY <2>4, <2>5, <2>6, <3>2, <3>4
  <2>7. CASE x \in Stop
    BY <2>4, <2>5, <2>7
  <2>. QED
    BY <2>6, <2>7
<1>4. F = [x \in S |-> IF x \in Stop THEN out[x] ELSE F[next[x]]]
  <2>1. F = [x \in S |-> F[x]]
    OBVIOUS
  <2>. HIDE DEF F
  <2>. QED
    BY <1>3, <2>1
<1>. HIDE DEF F
<1>. QED
  BY <1>4 DEF Solves

-----------------------------------------------------------------------------
(* What is popped from the queue, and in which order. *)

\* The pool with another queue and another kAbortedQueued.
Requeue(s, q, n) == [s EXCEPT !.taskQueue = q, !.abortedQueued = n]

\* Everything else in the pool is as before.
LEMMA RequeueIs ==
  ASSUME NEW s \in PoolState, NEW q \in SUBSET Task, NEW n \in Int
  PROVE  LET r == Requeue(s, q, n)
         IN  /\ r \in PoolState /\ r.taskQueue = q /\ r.abortedQueued = n
             /\ r.aborted = s.aborted /\ r.priority = s.priority /\ r.uncloneable = s.uncloneable
             /\ r.currentTask = s.currentTask /\ r.pendingTasks = s.pendingTasks
             /\ r.workers = s.workers /\ r.live = s.live /\ r.idleWorkers = s.idleWorkers
             /\ r.ready = s.ready /\ r.promise = s.promise
             /\ \A p, k : Requeue(r, p, k) = Requeue(s, p, k)
<1>1. Requeue(s, q, n) \in PoolState
  BY DEF Requeue, PoolState
<1>2. \A p, k : Requeue(Requeue(s, q, n), p, k) = Requeue(s, p, k)
  BY DEF Requeue, PoolState
<1>. QED
  BY <1>1, <1>2 DEF Requeue, PoolState

\* A pool is its own requeueing, and the updates of the loops are requeueings.
LEMMA Requeues ==
  ASSUME NEW s \in PoolState
  PROVE  /\ Requeue(s, s.taskQueue, s.abortedQueued) = s
         /\ \A q : [s EXCEPT !.taskQueue = q] = Requeue(s, q, s.abortedQueued)
         /\ \A n : [s EXCEPT !.abortedQueued = n] = Requeue(s, s.taskQueue, n)
<1>1. Requeue(s, s.taskQueue, s.abortedQueued) = s
  BY DEF Requeue, PoolState
<1>2. \A q : [s EXCEPT !.taskQueue = q] = Requeue(s, q, s.abortedQueued)
  BY DEF Requeue, PoolState
<1>3. \A n : [s EXCEPT !.abortedQueued = n] = Requeue(s, s.taskQueue, n)
  BY DEF Requeue, PoolState
<1>. QED
  BY <1>1, <1>2, <1>3

\* Popping changes the queue and the count only.
LEMMA PopAllIs ==
  ASSUME NEW s \in PoolState, NEW D \in SUBSET s.taskQueue
  PROVE  LET r == PopAll(s, D)
         IN  /\ r \in PoolState /\ r.taskQueue = s.taskQueue \ D
             /\ r.abortedQueued = s.abortedQueued - Cardinality(D \cap s.aborted)
             /\ r.aborted = s.aborted /\ r.priority = s.priority /\ r.uncloneable = s.uncloneable
             /\ r.currentTask = s.currentTask /\ r.pendingTasks = s.pendingTasks
             /\ r.workers = s.workers /\ r.live = s.live /\ r.idleWorkers = s.idleWorkers
             /\ r.ready = s.ready /\ r.promise = s.promise
             /\ \A p, k : Requeue(r, p, k) = Requeue(s, p, k)
<1>1. /\ s.taskQueue \in SUBSET Task /\ s.abortedQueued \in Int /\ s.aborted \in SUBSET Task
      /\ D \cap s.aborted \in SUBSET Task
  BY DEF PoolState
<1>2. Cardinality(D \cap s.aborted) \in Nat
  BY <1>1, TasksFinite
<1>. DEFINE q == s.taskQueue \ D
            n == s.abortedQueued - Cardinality(D \cap s.aborted)
<1>3. q \in SUBSET Task /\ n \in Int /\ PopAll(s, D) = Requeue(s, q, n)
  BY <1>1, <1>2 DEF PopAll, Requeue
<1>. HIDE DEF q, n
<1>4. PopAll(s, D) \in PoolState /\ PopAll(s, D).taskQueue = q /\ PopAll(s, D).abortedQueued = n
  BY <1>3, RequeueIs
<1>5. LET r == PopAll(s, D)
      IN  /\ r.aborted = s.aborted /\ r.priority = s.priority /\ r.uncloneable = s.uncloneable
          /\ r.currentTask = s.currentTask /\ r.pendingTasks = s.pendingTasks
          /\ r.workers = s.workers /\ r.live = s.live /\ r.idleWorkers = s.idleWorkers
          /\ r.ready = s.ready /\ r.promise = s.promise
          /\ \A p, k : Requeue(r, p, k) = Requeue(s, p, k)
  BY <1>3, RequeueIs
<1>. QED
  BY <1>4, <1>5 DEF q, n

\* Popping some tasks and then others is popping them all.
LEMMA PopAllTwice ==
  ASSUME NEW s \in PoolState, NEW D \in SUBSET s.taskQueue, NEW E \in SUBSET (s.taskQueue \ D)
  PROVE  PopAll(PopAll(s, D), E) = PopAll(s, D \cup E)
<1>. DEFINE r == PopAll(s, D)
            A == D \cap s.aborted
            B == E \cap s.aborted
<1>1. s.taskQueue \in SUBSET Task /\ s.abortedQueued \in Int /\ s.aborted \in SUBSET Task
  BY DEF PoolState
<1>2. /\ IsFiniteSet(A) /\ IsFiniteSet(B) /\ Cardinality(A) \in Nat /\ Cardinality(B) \in Nat
  BY <1>1, TasksFinite
<1>3. A \cap B = {} /\ A \cup B = (D \cup E) \cap s.aborted
  OBVIOUS
<1>4. Cardinality(A \cup B) = Cardinality(A) + Cardinality(B)
  <2>1. Cardinality(A \cup B) = Cardinality(A) + Cardinality(B) - Cardinality(A \cap B)
    BY <1>2, FS_Union
  <2>2. Cardinality(A \cap B) = 0
    BY <1>3, FS_EmptySet
  <2>. QED
    BY <1>2, <2>1, <2>2
<1>5. /\ r \in PoolState /\ r.taskQueue = s.taskQueue \ D /\ r.aborted = s.aborted
      /\ r.abortedQueued = s.abortedQueued - Cardinality(A)
      /\ \A p, k : Requeue(r, p, k) = Requeue(s, p, k)
  BY PopAllIs
<1>. HIDE DEF r
<1>6. PopAll(r, E) = Requeue(r, r.taskQueue \ E, r.abortedQueued - Cardinality(B))
  BY <1>5 DEF PopAll, Requeue
<1>7. PopAll(s, D \cup E) = Requeue(s, s.taskQueue \ (D \cup E),
                                    s.abortedQueued - Cardinality(A \cup B))
  BY <1>3 DEF PopAll, Requeue
<1>8. r.taskQueue \ E = s.taskQueue \ (D \cup E)
  BY <1>5
<1>9. r.abortedQueued - Cardinality(B) = s.abortedQueued - Cardinality(A \cup B)
  <2>. HIDE DEF A, B
  <2>. QED
    BY <1>1, <1>2, <1>4, <1>5
<1>. HIDE DEF A, B
<1>. QED
  BY <1>5, <1>6, <1>7, <1>8, <1>9 DEF r

\* taskCmp orders the tasks totally.
LEMMA BeforeIs ==
  ASSUME NEW s \in PoolState, NEW t \in Task, NEW u \in Task
  PROVE  /\ Before(s, t, u) => ~Before(s, u, t)
         /\ t = u \/ Before(s, t, u) \/ Before(s, u, t)
         /\ \A v \in Task : Before(s, t, u) /\ Before(s, u, v) => Before(s, t, v)
<1>1. \A v \in Task : v \in Int
  BY BoundsAssumption DEF Task
<1>2. \A v \in Task : s.priority[v] \in Int
  BY PriorityAssumption DEF PoolState
<1>. QED
  BY <1>1, <1>2 DEF Before

\* The first of a set is the only one that no other comes before.
LEMMA FirstUnique ==
  ASSUME NEW s \in PoolState, NEW S \in SUBSET Task, NEW t \in S,
         \A u \in S : u = t \/ Before(s, t, u)
  PROVE  First(s, S) = t
<1>1. First(s, S) \in S /\ \A u \in S : u = First(s, S) \/ Before(s, First(s, S), u)
  BY FirstIsLeast
<1>. QED
  BY <1>1, BeforeIs

\* What comes before t in the queue, with t itself.
LEMMA UpToIs ==
  ASSUME NEW s \in PoolState, NEW t \in s.taskQueue
  PROVE  /\ UpTo(s, t) \in SUBSET s.taskQueue /\ t \in UpTo(s, t)
         /\ \A u \in s.taskQueue : u \in UpTo(s, t) <=> u = t \/ Before(s, u, t)
<1>1. s.taskQueue \in SUBSET Task
  BY DEF PoolState
<1>. QED
  BY <1>1, BeforeIs, NotBeforeItself DEF UpTo

\* The first valid task: only aborted ones come before it.
LEMMA FirstValid ==
  ASSUME NEW s \in PoolState, Valid(s) # {}
  PROVE  LET t == First(s, Valid(s))
         IN  /\ t \in s.taskQueue /\ t \notin s.aborted /\ t \in Task
             /\ \A u \in Valid(s) : u = t \/ Before(s, t, u)
             /\ UpTo(s, t) \in SUBSET s.taskQueue /\ UpTo(s, t) \ s.aborted = {t}
<1>. DEFINE t == First(s, Valid(s))
<1>1. Valid(s) \in SUBSET Task /\ s.taskQueue \in SUBSET Task
  BY DEF PoolState, Valid
<1>2. t \in Valid(s) /\ \A u \in Valid(s) : u = t \/ Before(s, t, u)
  BY <1>1, FirstIsLeast
<1>. HIDE DEF t
<1>3. t \in s.taskQueue /\ t \notin s.aborted /\ t \in Task
  BY <1>1, <1>2 DEF Valid
<1>4. UpTo(s, t) \in SUBSET s.taskQueue /\ t \in UpTo(s, t)
  BY <1>3, UpToIs
<1>5. ASSUME NEW u \in UpTo(s, t) \ s.aborted  PROVE u = t
  <2>1. u \in Valid(s) /\ ~Before(s, t, u)
    BY <1>5 DEF UpTo, Valid
  <2>. QED
    BY <1>2, <2>1
<1>. QED
  BY <1>2, <1>3, <1>4, <1>5 DEF t

-----------------------------------------------------------------------------
(* dequeueNextValid. *)

\* The least task leaves the queue.
LEMMA PopIs ==
  ASSUME NEW s \in PoolState, s.taskQueue # {}
  PROVE  LET l == Least(s)
             r == [Pop(s) EXCEPT !.abortedQueued = @ - 1]
         IN  /\ l \in s.taskQueue /\ l \in Task
             /\ \A u \in s.taskQueue : u = l \/ Before(s, l, u)
             /\ Cardinality({l}) = 1
             /\ l \notin s.aborted => Pop(s) = PopAll(s, {l})
             /\ l \in s.aborted => r = PopAll(s, {l})
             /\ PopAll(s, {l}) \in PoolState
             /\ Cardinality(PopAll(s, {l}).taskQueue) < Cardinality(s.taskQueue)
             /\ r \in PoolState /\ r.taskQueue = s.taskQueue \ {l}
<1>. DEFINE l == Least(s)
            q == s.taskQueue \ {l}
            p == Pop(s)
            r == [Pop(s) EXCEPT !.abortedQueued = @ - 1]
            n == s.abortedQueued
<1>1. s.taskQueue \in SUBSET Task /\ n \in Int /\ q \in SUBSET Task
  BY DEF PoolState
<1>2. l \in s.taskQueue /\ \A u \in s.taskQueue : u = l \/ Before(s, l, u)
  BY <1>1, FirstIsLeast DEF Least
<1>3. p = Requeue(s, q, n)
  BY DEF Pop, Requeue, PoolState
<1>4. p \in PoolState /\ p.abortedQueued = n /\ p.taskQueue = q
  <2>. HIDE DEF p, q, n
  <2>. QED
    BY <1>1, <1>3, RequeueIs DEF n
<1>5. r = Requeue(s, q, n - 1)
  <2>1. r = [p EXCEPT !.abortedQueued = n - 1]
    BY <1>4
  <2>2. [p EXCEPT !.abortedQueued = n - 1] = Requeue(p, q, n - 1)
    <3>. HIDE DEF p, q, n
    <3>. QED
      BY <1>4, Requeues
  <2>3. Requeue(p, q, n - 1) = Requeue(s, q, n - 1)
    <3>. HIDE DEF p, q, n
    <3>. QED
      BY <1>1, <1>3, RequeueIs
  <2>. HIDE DEF p, q, n, r
  <2>. QED
    BY <2>1, <2>2, <2>3
<1>. HIDE DEF l
<1>6. Cardinality({l}) = 1
  BY FS_Singleton
<1>7. PopAll(s, {l}) = Requeue(s, q, n - Cardinality({l} \cap s.aborted))
  BY DEF PopAll, Requeue
<1>8. l \notin s.aborted => p = PopAll(s, {l})
  <2>1. SUFFICES ASSUME l \notin s.aborted  PROVE p = PopAll(s, {l})
    OBVIOUS
  <2>2. {l} \cap s.aborted = {}
    BY <2>1
  <2>3. n - Cardinality({l} \cap s.aborted) = n
    BY <1>1, <2>2, FS_EmptySet
  <2>. HIDE DEF p, q, n
  <2>. QED
    BY <1>3, <1>7, <2>3
<1>9. l \in s.aborted => r = PopAll(s, {l})
  <2>1. SUFFICES ASSUME l \in s.aborted  PROVE r = PopAll(s, {l})
    OBVIOUS
  <2>2. {l} \cap s.aborted = {l}
    BY <2>1
  <2>3. n - Cardinality({l} \cap s.aborted) = n - 1
    BY <1>6, <2>2
  <2>. HIDE DEF r, q, n
  <2>. QED
    BY <1>5, <1>7, <2>3
<1>10. PopAll(s, {l}) \in PoolState /\ PopAll(s, {l}).taskQueue = q
  <2>1. {l} \in SUBSET s.taskQueue
    BY <1>2
  <2>. QED
    BY <2>1, PopAllIs
<1>11. Cardinality(q) < Cardinality(s.taskQueue)
  <2>1. IsFiniteSet(s.taskQueue) /\ Cardinality(s.taskQueue) \in Nat
    BY <1>1, TasksFinite
  <2>2. Cardinality(q) = Cardinality(s.taskQueue) - 1
    BY <1>2, <2>1, FS_RemoveElement
  <2>. QED
    BY <2>1, <2>2
<1>12. r \in PoolState /\ r.taskQueue = q
  <2>1. n - 1 \in Int
    BY <1>1
  <2>. HIDE DEF r, q, n
  <2>. QED
    BY <1>1, <1>5, <2>1, RequeueIs
<1>. QED
  BY <1>1, <1>2, <1>6, <1>8, <1>9, <1>10, <1>11, <1>12 DEF l

\* The recursive definition of dequeueNextValid has a solution.
LEMMA DequeueRecursion ==
  \A s \in PoolState : DequeueNextValid[s] =
    IF s.taskQueue = {} THEN [state |-> s, task |-> NoTask]
    ELSE IF Least(s) \notin s.aborted THEN [state |-> Pop(s), task |-> Least(s)]
    ELSE DequeueNextValid[[Pop(s) EXCEPT !.abortedQueued = @ - 1]]
<1>. DEFINE Rest(s) == [Pop(s) EXCEPT !.abortedQueued = @ - 1]
            Found(s) == [state |-> Pop(s), task |-> Least(s)]
            None(s) == [state |-> s, task |-> NoTask]
            Body(f, s) == IF s.taskQueue = {} THEN None(s)
                          ELSE IF Least(s) \notin s.aborted THEN Found(s) ELSE f[Rest(s)]
            Stop == {s \in PoolState : s.taskQueue = {} \/ Least(s) \notin s.aborted}
            out == [s \in PoolState |-> IF s.taskQueue = {} THEN None(s) ELSE Found(s)]
            next == [s \in PoolState |-> IF s \in Stop THEN s ELSE Rest(s)]
            m == [s \in PoolState |-> Cardinality(s.taskQueue)]
            P(g) == g = [s \in PoolState |-> Body(g, s)]
<1>1. DequeueNextValid = CHOOSE g : P(g)
  BY DEF DequeueNextValid
<1>2. \A s \in PoolState : s \notin Stop =>
        Rest(s) \in PoolState /\ Cardinality(Rest(s).taskQueue) < Cardinality(s.taskQueue)
  BY PopIs
<1>3. next \in [PoolState -> PoolState]
  <2>. HIDE DEF Stop, Rest
  <2>. QED
    BY <1>2
<1>4. m \in [PoolState -> Nat]
  BY TasksFinite DEF PoolState
<1>5. \A s \in PoolState : s \notin Stop => m[next[s]] < m[s]
  <2>. HIDE DEF Stop, Rest
  <2>. QED
    BY <1>2
<1>. HIDE DEF next, m
<1>6. PICK f : Solves(f, PoolState, Stop, out, next)
  <2>. HIDE DEF Stop, out
  <2>. QED
    BY <1>3, <1>4, <1>5, TailRecursion
<1>7. \A s \in PoolState : Body(f, s) = IF s \in Stop THEN out[s] ELSE f[next[s]]
  <2>. HIDE DEF Rest, Found, None
  <2>. QED
    BY DEF next
<1>8. P(f)
  <2>. HIDE DEF Body, Stop, out
  <2>1. f = [s \in PoolState |-> IF s \in Stop THEN out[s] ELSE f[next[s]]]
    BY <1>6 DEF Solves
  <2>2. [s \in PoolState |-> IF s \in Stop THEN out[s] ELSE f[next[s]]] =
        [s \in PoolState |-> Body(f, s)]
    BY <1>7
  <2>. QED
    BY <2>1, <2>2
<1>. HIDE DEF Body
<1>9. P(DequeueNextValid)
  <2>. HIDE DEF P
  <2>. QED
    BY <1>1, <1>8
<1>10. \A s \in PoolState : DequeueNextValid[s] = Body(DequeueNextValid, s)
  BY <1>9
<1>. QED
  BY <1>10 DEF Body

\* A least counterexample: one with the shortest queue.
LEMMA LeastPool ==
  ASSUME NEW B \in SUBSET PoolState, B # {}
  PROVE  \E r \in B : \A u \in PoolState :
           Cardinality(u.taskQueue) < Cardinality(r.taskQueue) => u \notin B
<1>. DEFINE M == {Cardinality(r.taskQueue) : r \in B}
<1>1. \A r \in PoolState : Cardinality(r.taskQueue) \in Nat
  BY TasksFinite DEF PoolState
<1>2. M \in SUBSET Nat /\ M # {}
  BY <1>1
<1>. HIDE DEF M
<1>3. PICK k \in M : \A j \in M : k <= j
  BY <1>2, NatHasLeast
<1>4. PICK r \in B : k = Cardinality(r.taskQueue)
  BY <1>3 DEF M
<1>5. \A u \in B : Cardinality(r.taskQueue) <= Cardinality(u.taskQueue)
  BY <1>3, <1>4 DEF M
<1>. QED
  BY <1>1, <1>5

\* dequeueNextValid in closed form: the first valid task, and the aborted ones
\* before it, leave the queue.
Dequeued(s) ==
  IF Valid(s) = {} THEN [state |-> PopAll(s, s.taskQueue), task |-> NoTask]
  ELSE [state |-> PopAll(s, UpTo(s, First(s, Valid(s)))), task |-> First(s, Valid(s))]

\* Popping an aborted task that comes first changes nothing of the rest.
LEMMA DequeuedRest ==
  ASSUME NEW s \in PoolState, NEW l \in s.taskQueue, l \in s.aborted,
         \A u \in s.taskQueue : u = l \/ Before(s, l, u)
  PROVE  Dequeued(PopAll(s, {l})) = Dequeued(s)
<1>. DEFINE r == PopAll(s, {l})
            t == First(s, Valid(s))
<1>1. /\ r \in PoolState /\ r.taskQueue = s.taskQueue \ {l}
      /\ r.aborted = s.aborted /\ r.priority = s.priority
  <2>1. {l} \in SUBSET s.taskQueue
    OBVIOUS
  <2>. QED
    BY <2>1, PopAllIs
<1>2. \A E \in SUBSET (s.taskQueue \ {l}) : PopAll(r, E) = PopAll(s, {l} \cup E)
  BY PopAllTwice
<1>. HIDE DEF r
<1>3. Valid(r) = Valid(s)
  BY <1>1 DEF Valid
<1>4. CASE Valid(s) = {}
  <2>1. PopAll(r, s.taskQueue \ {l}) = PopAll(s, {l} \cup (s.taskQueue \ {l}))
    BY <1>2
  <2>2. {l} \cup (s.taskQueue \ {l}) = s.taskQueue
    OBVIOUS
  <2>3. PopAll(r, r.taskQueue) = PopAll(s, s.taskQueue)
    BY <1>1, <2>1, <2>2
  <2>. QED
    BY <1>3, <1>4, <2>3 DEF Dequeued, r
<1>5. CASE Valid(s) # {}
  <2>1. t \in s.taskQueue /\ t \notin s.aborted /\ UpTo(s, t) \in SUBSET s.taskQueue
    BY <1>5, FirstValid
  <2>2. First(r, Valid(r)) = t
    BY <1>1, <1>3 DEF First, Before
  <2>. HIDE DEF t
  <2>3. UpTo(r, t) = UpTo(s, t) \ {l}
    BY <1>1 DEF UpTo, Before
  <2>4. l \in UpTo(s, t)
    BY <2>1, UpToIs
  <2>5. UpTo(s, t) = {l} \cup UpTo(r, t)
    BY <2>3, <2>4
  <2>6. UpTo(r, t) \in SUBSET (s.taskQueue \ {l})
    BY <2>1, <2>3
  <2>7. PopAll(r, UpTo(r, t)) = PopAll(s, UpTo(s, t))
    BY <1>2, <2>5, <2>6
  <2>. QED
    BY <1>3, <1>5, <2>2, <2>7 DEF Dequeued, r, t
<1>. QED
  BY <1>4, <1>5

\* One iteration of the loop, in terms of the closed form.
LEMMA DequeuedStep ==
  ASSUME NEW s \in PoolState
  PROVE  /\ s.taskQueue = {} => Dequeued(s) = [state |-> s, task |-> NoTask]
         /\ s.taskQueue # {} =>
              LET l == Least(s)
              IN  IF l \notin s.aborted THEN Dequeued(s) = [state |-> Pop(s), task |-> l]
                  ELSE Dequeued(s) = Dequeued(PopAll(s, {l}))
<1>0. s.taskQueue \in SUBSET Task /\ s.abortedQueued \in Int
  BY DEF PoolState
<1>1. ASSUME s.taskQueue = {}  PROVE Dequeued(s) = [state |-> s, task |-> NoTask]
  <2>1. Valid(s) = {}
    BY <1>1 DEF Valid
  <2>2. PopAll(s, s.taskQueue) = s
    <3>1. s.taskQueue \ s.taskQueue = s.taskQueue /\ s.taskQueue \cap s.aborted = {}
      BY <1>1
    <3>2. s.abortedQueued - Cardinality(s.taskQueue \cap s.aborted) = s.abortedQueued
      BY <1>0, <3>1, FS_EmptySet
    <3>3. PopAll(s, s.taskQueue) = Requeue(s, s.taskQueue, s.abortedQueued)
      BY <3>1, <3>2 DEF PopAll, Requeue
    <3>. QED
      BY <3>3, Requeues
  <2>. QED
    BY <2>1, <2>2 DEF Dequeued
<1>2. ASSUME s.taskQueue # {}, Least(s) \notin s.aborted
      PROVE  Dequeued(s) = [state |-> Pop(s), task |-> Least(s)]
  <2>. DEFINE l == Least(s)
  <2>1. /\ l \in s.taskQueue /\ Pop(s) = PopAll(s, {l})
        /\ \A u \in s.taskQueue : u = l \/ Before(s, l, u)
    BY <1>2, PopIs
  <2>. HIDE DEF l
  <2>2. l \in Valid(s) /\ Valid(s) \in SUBSET Task
    BY <1>0, <1>2, <2>1 DEF Valid, l
  <2>3. First(s, Valid(s)) = l
    <3>1. \A u \in Valid(s) : u = l \/ Before(s, l, u)
      BY <2>1 DEF Valid
    <3>. QED
      BY <2>2, <3>1, FirstUnique
  <2>4. UpTo(s, l) = {l}
    <3>1. l \in UpTo(s, l) /\ UpTo(s, l) \in SUBSET s.taskQueue
      BY <2>1, UpToIs
    <3>2. \A u \in UpTo(s, l) : u = l
      BY <2>1, <3>1 DEF UpTo
    <3>. QED
      BY <3>1, <3>2
  <2>. QED
    BY <2>1, <2>2, <2>3, <2>4 DEF Dequeued, l
<1>3. ASSUME s.taskQueue # {}, Least(s) \in s.aborted
      PROVE  Dequeued(s) = Dequeued(PopAll(s, {Least(s)}))
  BY <1>3, PopIs, DequeuedRest
<1>. QED
  BY <1>1, <1>2, <1>3

\* The loop of dequeueNextValid computes the closed form.
LEMMA DequeueIs ==
  ASSUME NEW s \in PoolState
  PROVE  DequeueNextValid[s] = Dequeued(s)
<1>. DEFINE Bad == {r \in PoolState : DequeueNextValid[r] # Dequeued(r)}
<1>1. SUFFICES ASSUME Bad # {}  PROVE FALSE
  OBVIOUS
<1>2. Bad \in SUBSET PoolState
  OBVIOUS
<1>3. PICK r \in Bad : \A u \in PoolState :
        Cardinality(u.taskQueue) < Cardinality(r.taskQueue) => u \notin Bad
  <2>. HIDE DEF Bad
  <2>. QED
    BY <1>1, <1>2, LeastPool
<1>4. r \in PoolState /\ DequeueNextValid[r] # Dequeued(r)
  OBVIOUS
<1>5. \A u \in PoolState : Cardinality(u.taskQueue) < Cardinality(r.taskQueue) =>
        DequeueNextValid[u] = Dequeued(u)
  BY <1>3
<1>. HIDE DEF Bad
<1>6. CASE r.taskQueue = {}
  BY <1>4, <1>6, DequeueRecursion, DequeuedStep
<1>7. CASE r.taskQueue # {} /\ Least(r) \notin r.aborted
  BY <1>4, <1>7, DequeueRecursion, DequeuedStep
<1>8. CASE r.taskQueue # {} /\ Least(r) \in r.aborted
  <2>. DEFINE u == PopAll(r, {Least(r)})
  <2>1. DequeueNextValid[r] = DequeueNextValid[u]
    BY <1>4, <1>8, DequeueRecursion, PopIs
  <2>2. u \in PoolState /\ Cardinality(u.taskQueue) < Cardinality(r.taskQueue)
    BY <1>4, <1>8, PopIs
  <2>3. Dequeued(r) = Dequeued(u)
    BY <1>4, <1>8, DequeuedStep
  <2>. HIDE DEF u
  <2>. QED
    BY <1>4, <1>5, <2>1, <2>2, <2>3
<1>. QED
  BY <1>6, <1>7, <1>8

\* What dequeueNextValid returns.
LEMMA DequeuedIs ==
  ASSUME NEW s \in PoolState
  PROVE  LET n == DequeueNextValid[s]
             d == n.state
             t == n.task
         IN  /\ d \in PoolState /\ d.taskQueue \in SUBSET s.taskQueue
             /\ d.aborted = s.aborted /\ d.priority = s.priority
             /\ d.uncloneable = s.uncloneable /\ d.currentTask = s.currentTask
             /\ d.pendingTasks = s.pendingTasks /\ d.workers = s.workers /\ d.live = s.live
             /\ d.idleWorkers = s.idleWorkers /\ d.ready = s.ready /\ d.promise = s.promise
             /\ IF Valid(s) = {} THEN t = NoTask /\ d = PopAll(s, s.taskQueue)
                ELSE /\ t = First(s, Valid(s)) /\ t \in Task /\ t # NoTask /\ t \in s.taskQueue
                     /\ d = PopAll(s, UpTo(s, t)) /\ d.taskQueue = s.taskQueue \ UpTo(s, t)
                     /\ Cardinality(d.taskQueue) < Cardinality(s.taskQueue)
                     /\ t \notin d.taskQueue
<1>. DEFINE n == DequeueNextValid[s]
            d == n.state
            t == n.task
<1>1. n = Dequeued(s)
  BY DequeueIs
<1>. DEFINE D == IF Valid(s) = {} THEN s.taskQueue ELSE UpTo(s, First(s, Valid(s)))
<1>2. d = PopAll(s, D) /\ t = IF Valid(s) = {} THEN NoTask ELSE First(s, Valid(s))
  BY <1>1 DEF Dequeued
<1>3. D \in SUBSET s.taskQueue
  BY FirstValid
<1>. HIDE DEF n, d, D
<1>4. /\ d \in PoolState /\ d.taskQueue = s.taskQueue \ D
      /\ d.aborted = s.aborted /\ d.priority = s.priority /\ d.uncloneable = s.uncloneable
      /\ d.currentTask = s.currentTask /\ d.pendingTasks = s.pendingTasks
      /\ d.workers = s.workers /\ d.live = s.live /\ d.idleWorkers = s.idleWorkers
      /\ d.ready = s.ready /\ d.promise = s.promise
  BY <1>2, <1>3, PopAllIs
<1>5. CASE Valid(s) = {}
  <2>1. t = NoTask /\ D = s.taskQueue
    BY <1>2, <1>5 DEF D
  <2>. QED
    BY <1>2, <1>4, <1>5, <2>1 DEF d, n
<1>6. CASE Valid(s) # {}
  <2>1. t = First(s, Valid(s)) /\ D = UpTo(s, t)
    BY <1>2, <1>6 DEF D
  <2>2. t \in s.taskQueue /\ t \in Task /\ t \in UpTo(s, t)
    BY <1>6, <2>1, FirstValid, UpToIs
  <2>3. t # NoTask
    BY <2>2, BoundsAssumption DEF Task, NoTask
  <2>4. Cardinality(d.taskQueue) < Cardinality(s.taskQueue)
    <3>1. s.taskQueue \in SUBSET Task
      BY DEF PoolState
    <3>2. IsFiniteSet(s.taskQueue) /\ Cardinality(s.taskQueue) \in Nat
      BY <3>1, TasksFinite
    <3>3. d.taskQueue \in SUBSET (s.taskQueue \ {t})
      BY <1>4, <2>1, <2>2
    <3>4. IsFiniteSet(s.taskQueue \ {t}) /\ Cardinality(s.taskQueue \ {t}) = Cardinality(s.taskQueue) - 1
      BY <2>2, <3>2, FS_RemoveElement
    <3>5. Cardinality(d.taskQueue) <= Cardinality(s.taskQueue \ {t}) /\ Cardinality(d.taskQueue) \in Nat
      BY <3>1, <3>3, <3>4, FS_Subset, TasksFinite
    <3>. QED
      BY <3>2, <3>4, <3>5
  <2>5. t \notin d.taskQueue
    BY <1>4, <2>1, <2>2
  <2>. QED
    BY <1>2, <1>4, <1>6, <2>1, <2>2, <2>3, <2>4, <2>5 DEF d, n
<1>. QED
  BY <1>5, <1>6

-----------------------------------------------------------------------------
(* The helpers the loops call, for any pool. *)

\* Settling changes promises only, and settling nobody changes nothing.
LEMMA SettleIs ==
  ASSUME NEW s \in PoolState, NEW R, NEW outcome \in Outcome
  PROVE  LET r == Settle(s, R, outcome)
         IN  /\ r \in PoolState /\ r.taskQueue = s.taskQueue /\ r.aborted = s.aborted
             /\ r.abortedQueued = s.abortedQueued
             /\ r.priority = s.priority /\ r.uncloneable = s.uncloneable
             /\ r.currentTask = s.currentTask /\ r.pendingTasks = s.pendingTasks
             /\ R = {} => r = s
<1>. DEFINE r == Settle(s, R, outcome)
            f == [t \in Task |-> IF t \in R /\ s.promise[t] = "pending"
                                 THEN outcome ELSE s.promise[t]]
<1>1. f \in [Task -> Outcome]
  BY DEF PoolState
<1>2. r = [s EXCEPT !.promise = f]
  BY DEF Settle
<1>3. R = {} => f = s.promise
  BY DEF PoolState
<1>4. [s EXCEPT !.promise = s.promise] = s
  BY DEF PoolState
<1>. HIDE DEF f, r
<1>5. R = {} => r = s
  BY <1>2, <1>3, <1>4
<1>6. r \in PoolState
  BY <1>1, <1>2 DEF PoolState
<1>7. /\ r.taskQueue = s.taskQueue /\ r.aborted = s.aborted /\ r.abortedQueued = s.abortedQueued
      /\ r.priority = s.priority /\ r.uncloneable = s.uncloneable
      /\ r.currentTask = s.currentTask /\ r.pendingTasks = s.pendingTasks
  BY <1>2 DEF PoolState
<1>. QED
  BY <1>5, <1>6, <1>7 DEF r

\* Settling some tasks and then others is settling them all.
LEMMA SettleTwice ==
  ASSUME NEW s \in PoolState, NEW R, NEW Q
  PROVE  Settle(Settle(s, R, "cloneError"), Q, "cloneError") = Settle(s, R \cup Q, "cloneError")
<1>. DEFINE o == "cloneError"
            f == [t \in Task |-> IF t \in R /\ s.promise[t] = "pending" THEN o ELSE s.promise[t]]
            g == [t \in Task |-> IF t \in Q /\ f[t] = "pending" THEN o ELSE f[t]]
            h == [t \in Task |-> IF t \in R \cup Q /\ s.promise[t] = "pending"
                                 THEN o ELSE s.promise[t]]
            r == [s EXCEPT !.promise = f]
<1>1. g = h
  OBVIOUS
<1>2. Settle(s, R, o) = r /\ Settle(s, R \cup Q, o) = [s EXCEPT !.promise = h]
  BY DEF Settle
<1>. HIDE DEF f
<1>3. r.promise = f
  BY DEF PoolState
<1>4. Settle(r, Q, o) = [r EXCEPT !.promise = g]
  BY <1>3 DEF Settle
<1>5. [r EXCEPT !.promise = g] = [s EXCEPT !.promise = g]
  <2>. HIDE DEF g
  <2>. QED
    BY DEF PoolState
<1>. HIDE DEF g, h, r
<1>. QED
  BY <1>1, <1>2, <1>4, <1>5

\* Settling and popping do not interfere.
LEMMA SettlePop ==
  ASSUME NEW s \in PoolState, NEW R, NEW D
  PROVE  PopAll(Settle(s, R, "cloneError"), D) = Settle(PopAll(s, D), R, "cloneError")
<1>. DEFINE f == [t \in Task |-> IF t \in R /\ s.promise[t] = "pending"
                                 THEN "cloneError" ELSE s.promise[t]]
            q == s.taskQueue \ D
            n == s.abortedQueued - Cardinality(D \cap s.aborted)
            r == [s EXCEPT !.promise = f]
            p == [s EXCEPT !.taskQueue = q, !.abortedQueued = n]
<1>1. Settle(s, R, "cloneError") = r /\ PopAll(s, D) = p
  BY DEF Settle, PopAll
<1>. HIDE DEF f
<1>2. r.taskQueue = s.taskQueue /\ r.abortedQueued = s.abortedQueued /\ r.aborted = s.aborted
  BY DEF PoolState
<1>3. PopAll(r, D) = [r EXCEPT !.taskQueue = q, !.abortedQueued = n]
  <2>. HIDE DEF r
  <2>. QED
    BY <1>2 DEF PopAll
<1>. HIDE DEF q, n
<1>4. p.promise = s.promise
  BY DEF PoolState
<1>5. Settle(p, R, "cloneError") = [p EXCEPT !.promise = f]
  <2>. HIDE DEF p
  <2>. QED
    BY <1>4 DEF Settle, f
<1>6. [r EXCEPT !.taskQueue = q, !.abortedQueued = n] = [p EXCEPT !.promise = f]
  BY DEF PoolState
<1>. QED
  BY <1>1, <1>3, <1>5, <1>6

\* A worker that had no task, and gave the one it got back, is as it was.
LEMMA UnclonedIs ==
  ASSUME NEW s \in PoolState, NEW w \in Worker, NEW t \in Task
  PROVE  LET r == Uncloned(s, w, t)
         IN  /\ r \in PoolState /\ r.taskQueue = s.taskQueue /\ r.currentTask[w] = NoTask
             /\ s.currentTask[w] = NoTask /\ t \notin s.pendingTasks =>
                  r = Settle(s, {t}, "cloneError")
<1>. DEFINE c == [s.currentTask EXCEPT ![w] = t]
            q == s.pendingTasks \cup {t}
            a == [s EXCEPT !.currentTask = c, !.pendingTasks = q]
            e == [s.currentTask EXCEPT ![w] = NoTask]
            p == q \ {t}
            u == [s EXCEPT !.currentTask = e, !.pendingTasks = p]
<1>1. /\ c[w] = t /\ [c EXCEPT ![w] = NoTask] = e
      /\ e \in [Worker -> Task \cup {NoTask}] /\ p \in SUBSET Task /\ e[w] = NoTask
      /\ s.currentTask[w] = NoTask => e = s.currentTask
      /\ t \notin s.pendingTasks => p = s.pendingTasks
  BY DEF PoolState
<1>2. Assign(s, w, t) = a
  BY DEF Assign, PoolState
<1>. HIDE DEF c, q, e, p
<1>3. a.currentTask = c /\ a.pendingTasks = q
  BY DEF PoolState
<1>4. Unassign(a, w) = [a EXCEPT !.currentTask = e, !.pendingTasks = p]
  <2>1. Unassign(a, w) = [a EXCEPT !.currentTask = [a.currentTask EXCEPT ![w] = NoTask],
                                   !.pendingTasks = a.pendingTasks \ {a.currentTask[w]}]
    BY DEF Unassign, PoolState
  <2>. HIDE DEF a
  <2>. QED
    BY <1>1, <1>3, <2>1 DEF p
<1>5. [a EXCEPT !.currentTask = e, !.pendingTasks = p] = u
  BY DEF PoolState
<1>6. u \in PoolState /\ u.taskQueue = s.taskQueue /\ u.currentTask[w] = NoTask
  BY <1>1 DEF PoolState
<1>7. [s EXCEPT !.currentTask = s.currentTask, !.pendingTasks = s.pendingTasks] = s
  BY DEF PoolState
<1>. HIDE DEF a
<1>8. Uncloned(s, w, t) = Settle(u, {t}, "cloneError")
  BY <1>2, <1>4, <1>5 DEF Uncloned
<1>9. s.currentTask[w] = NoTask /\ t \notin s.pendingTasks => u = s
  BY <1>1, <1>7
<1>. HIDE DEF u
<1>10. "cloneError" \in Outcome
  BY DEF Outcome, Rejection
<1>. QED
  BY <1>6, <1>8, <1>9, <1>10, SettleIs

\* A worker with nothing to do is pushed on the idle stack.
LEMMA BecomeIdleIs ==
  ASSUME NEW s \in PoolState, NEW w \in Worker
  PROVE  BecomeIdle(s, w) \in PoolState /\ BecomeIdle(s, w).taskQueue = s.taskQueue
<1>. DEFINE i == Append(s.idleWorkers, w)
            m == IF IdleTimeout /\ Cardinality(s.workers) > MinThreads
                 THEN s.idleTimer \cup {w} ELSE s.idleTimer
            r == [s EXCEPT !.idleWorkers = i, !.idleTimer = m]
            b == r.drainDeferred /\ (r.pendingTasks # {} \/ r.taskQueue # {})
<1>1. i \in Seq(Worker) /\ m \in SUBSET Worker
  BY DEF PoolState
<1>2. BecomeIdle(s, w) = MaybeResolveDrain(r)
  BY DEF BecomeIdle
<1>. HIDE DEF i, m
<1>3. r \in PoolState /\ r.taskQueue = s.taskQueue
  BY <1>1 DEF PoolState
<1>. HIDE DEF r
<1>4. b \in BOOLEAN /\ MaybeResolveDrain(r) = [r EXCEPT !.drainDeferred = b]
  BY <1>3 DEF MaybeResolveDrain, PoolState
<1>. HIDE DEF b
<1>5. [r EXCEPT !.drainDeferred = b] \in PoolState
      /\ [r EXCEPT !.drainDeferred = b].taskQueue = r.taskQueue
  BY <1>3, <1>4 DEF PoolState
<1>. QED
  BY <1>2, <1>3, <1>4, <1>5

\* A task is assigned and posted: the queue is as before.
LEMMA AssignSendIs ==
  ASSUME NEW s \in PoolState, NEW w \in Worker, NEW t \in Task
  PROVE  LET r == SendTask(Assign(s, w, t), w, t)
         IN  r \in PoolState /\ r.taskQueue = s.taskQueue
<1>. DEFINE c == [s.currentTask EXCEPT ![w] = t]
            q == s.pendingTasks \cup {t}
            a == [s EXCEPT !.currentTask = c, !.pendingTasks = q]
            p == [a.port EXCEPT ![w] = Append(a.port[w], t)]
<1>1. c \in [Worker -> Task \cup {NoTask}] /\ q \in SUBSET Task
  BY DEF PoolState
<1>2. Assign(s, w, t) = a
  BY DEF Assign, PoolState
<1>. HIDE DEF c, q
<1>3. a \in PoolState /\ a.taskQueue = s.taskQueue
  BY <1>1 DEF PoolState
<1>. HIDE DEF a
<1>4. p \in [Worker -> Seq(Task \cup {MSG_SHUTDOWN})]
  BY <1>3 DEF PoolState
<1>5. SendTask(a, w, t) = [a EXCEPT !.port = p]
  BY <1>3 DEF SendTask, PoolState
<1>. HIDE DEF p
<1>6. [a EXCEPT !.port = p] \in PoolState /\ [a EXCEPT !.port = p].taskQueue = a.taskQueue
  BY <1>3, <1>4 DEF PoolState
<1>. QED
  BY <1>2, <1>3, <1>5, <1>6

-----------------------------------------------------------------------------
(* markWorkerIdle. *)

\* The recursive definition of markWorkerIdle has a solution.
LEMMA MarkRecursion ==
  ASSUME NEW r \in PoolState, NEW w \in Worker
  PROVE  LET s == DequeueNextValid[r].state
             t == DequeueNextValid[r].task
         IN  MarkWorkerIdleLoop[<<r, w>>] =
               IF t = NoTask THEN BecomeIdle(s, w)
               ELSE IF t \in s.uncloneable THEN MarkWorkerIdleLoop[<<Uncloned(s, w, t), w>>]
               ELSE SendTask(Assign(s, w, t), w, t)
<1>. DEFINE S == PoolState \X Worker
            N(x) == DequeueNextValid[x[1]]
            Again(x) == <<Uncloned(N(x).state, x[2], N(x).task), x[2]>>
            Ends(x) == N(x).task = NoTask \/ N(x).task \notin N(x).state.uncloneable
            End(x) == IF N(x).task = NoTask THEN BecomeIdle(N(x).state, x[2])
                      ELSE SendTask(Assign(N(x).state, x[2], N(x).task), x[2], N(x).task)
            Body(f, x) == IF N(x).task = NoTask THEN BecomeIdle(N(x).state, x[2])
                          ELSE IF N(x).task \in N(x).state.uncloneable THEN f[Again(x)]
                          ELSE SendTask(Assign(N(x).state, x[2], N(x).task), x[2], N(x).task)
            Stop == {x \in S : Ends(x)}
            out == [x \in S |-> End(x)]
            next == [x \in S |-> IF x \in Stop THEN x ELSE Again(x)]
            m == [x \in S |-> Cardinality(x[1].taskQueue)]
            P(g) == g = [x \in S |-> Body(g, x)]
<1>1. MarkWorkerIdleLoop = CHOOSE g : P(g)
  BY DEF MarkWorkerIdleLoop
<1>2. ASSUME NEW x \in S, x \notin Stop
      PROVE  Again(x) \in S /\ Cardinality(Again(x)[1].taskQueue) < Cardinality(x[1].taskQueue)
  <2>1. x[1] \in PoolState /\ x[2] \in Worker /\ N(x).task # NoTask
    BY <1>2
  <2>2. /\ N(x).state \in PoolState /\ N(x).task \in Task
        /\ Cardinality(N(x).state.taskQueue) < Cardinality(x[1].taskQueue)
    BY <2>1, DequeuedIs
  <2>. HIDE DEF N
  <2>3. /\ Uncloned(N(x).state, x[2], N(x).task) \in PoolState
        /\ Uncloned(N(x).state, x[2], N(x).task).taskQueue = N(x).state.taskQueue
    BY <2>1, <2>2, UnclonedIs
  <2>. QED
    BY <2>1, <2>2, <2>3
<1>3. next \in [S -> S]
  <2>. HIDE DEF S, Stop, Again
  <2>. QED
    BY <1>2
<1>4. m \in [S -> Nat]
  <2>1. \A x \in S : x[1].taskQueue \in SUBSET Task
    BY DEF PoolState
  <2>. QED
    BY <2>1, TasksFinite
<1>5. \A x \in S : x \notin Stop => m[next[x]] < m[x]
  <2>. HIDE DEF S, Stop, Again
  <2>. QED
    BY <1>2
<1>. HIDE DEF next, m
<1>6. PICK f : Solves(f, S, Stop, out, next)
  <2>. HIDE DEF S, Stop, out
  <2>. QED
    BY <1>3, <1>4, <1>5, TailRecursion
<1>7. \A x \in S : Body(f, x) = IF x \in Stop THEN out[x] ELSE f[next[x]]
  <2>. HIDE DEF S, Again, N
  <2>. QED
    BY DEF next
<1>8. P(f)
  <2>. HIDE DEF S, Body, Stop, out
  <2>1. f = [x \in S |-> IF x \in Stop THEN out[x] ELSE f[next[x]]]
    BY <1>6 DEF Solves
  <2>2. [x \in S |-> IF x \in Stop THEN out[x] ELSE f[next[x]]] = [x \in S |-> Body(f, x)]
    BY <1>7
  <2>. QED
    BY <2>1, <2>2
<1>. HIDE DEF Body
<1>9. P(MarkWorkerIdleLoop)
  <2>. HIDE DEF P
  <2>. QED
    BY <1>1, <1>8
<1>10. <<r, w>> \in S /\ <<r, w>>[1] = r /\ <<r, w>>[2] = w
  OBVIOUS
<1>11. MarkWorkerIdleLoop[<<r, w>>] = Body(MarkWorkerIdleLoop, <<r, w>>)
  <2>. HIDE DEF S
  <2>. QED
    BY <1>9, <1>10
<1>. QED
  BY <1>10, <1>11 DEF Body

\* The loop leaves a pool, with nothing added to its queue.
LEMMA MarkLoopIs ==
  ASSUME NEW s \in PoolState, NEW w \in Worker
  PROVE  LET r == MarkWorkerIdleLoop[<<s, w>>]
         IN  r \in PoolState /\ r.taskQueue \in SUBSET s.taskQueue
<1>. DEFINE Good(r) == LET q == MarkWorkerIdleLoop[<<r, w>>]
                       IN  q \in PoolState /\ q.taskQueue \in SUBSET r.taskQueue
            Bad == {r \in PoolState : ~Good(r)}
<1>1. SUFFICES ASSUME Bad # {}  PROVE FALSE
  OBVIOUS
<1>2. Bad \in SUBSET PoolState
  OBVIOUS
<1>3. PICK r \in Bad : \A u \in PoolState :
        Cardinality(u.taskQueue) < Cardinality(r.taskQueue) => u \notin Bad
  <2>. HIDE DEF Bad
  <2>. QED
    BY <1>1, <1>2, LeastPool
<1>4. r \in PoolState /\ ~Good(r)
  OBVIOUS
<1>5. \A u \in PoolState : Cardinality(u.taskQueue) < Cardinality(r.taskQueue) => Good(u)
  <2>. HIDE DEF Good
  <2>. QED
    BY <1>3
<1>. HIDE DEF Bad
<1>. DEFINE d == DequeueNextValid[r].state
            t == DequeueNextValid[r].task
<1>6. /\ d \in PoolState /\ d.taskQueue \in SUBSET r.taskQueue
      /\ t # NoTask => t \in Task /\ Cardinality(d.taskQueue) < Cardinality(r.taskQueue)
  BY <1>4, DequeuedIs
<1>7. MarkWorkerIdleLoop[<<r, w>>] =
        IF t = NoTask THEN BecomeIdle(d, w)
        ELSE IF t \in d.uncloneable THEN MarkWorkerIdleLoop[<<Uncloned(d, w, t), w>>]
        ELSE SendTask(Assign(d, w, t), w, t)
  BY <1>4, MarkRecursion
<1>. HIDE DEF d, t
<1>8. CASE t = NoTask
  BY <1>4, <1>6, <1>7, <1>8, BecomeIdleIs
<1>9. CASE t # NoTask /\ t \in d.uncloneable
  <2>. DEFINE u == Uncloned(d, w, t)
  <2>1. u \in PoolState /\ u.taskQueue = d.taskQueue
    BY <1>6, <1>9, UnclonedIs
  <2>. HIDE DEF u
  <2>2. Good(u)
    BY <1>5, <1>6, <1>9, <2>1
  <2>. QED
    BY <1>4, <1>6, <1>7, <1>9, <2>1, <2>2 DEF u
<1>10. CASE t # NoTask /\ t \notin d.uncloneable
  BY <1>4, <1>6, <1>7, <1>10, AssignSendIs
<1>. QED
  BY <1>8, <1>9, <1>10

\* A task rejected before the rest of the queue is looked at, or with it.
LEMMA MarkRest ==
  ASSUME NEW s \in PoolState, NEW w \in Worker, Valid(s) # {},
         NEW t \in s.uncloneable, t = First(s, Valid(s))
  PROVE  MarkWorkerIdle(Settle(PopAll(s, UpTo(s, t)), {t}, "cloneError"), w) = MarkWorkerIdle(s, w)
<1>. DEFINE o == "cloneError"
            U == UpTo(s, t)
            d == PopAll(s, U)
            r == Settle(d, {t}, o)
            sendable == Valid(s) \ s.uncloneable
<1>1. /\ t \in s.taskQueue /\ t \notin s.aborted /\ t \in Task
      /\ \A u \in Valid(s) : u = t \/ Before(s, t, u)
      /\ U \in SUBSET s.taskQueue /\ U \ s.aborted = {t}
  BY FirstValid
<1>2. \A u \in s.taskQueue : u \in U <=> u = t \/ Before(s, u, t)
  BY <1>1, UpToIs
<1>. HIDE DEF U
<1>3. /\ d \in PoolState /\ d.taskQueue = s.taskQueue \ U /\ d.aborted = s.aborted
      /\ d.priority = s.priority /\ d.uncloneable = s.uncloneable
  BY <1>1, PopAllIs
<1>4. \A E \in SUBSET (s.taskQueue \ U) : PopAll(d, E) = PopAll(s, U \cup E)
  BY <1>1, PopAllTwice
<1>. HIDE DEF d
<1>5. o \in Outcome
  BY DEF Outcome, Rejection
<1>6. /\ r \in PoolState /\ r.taskQueue = d.taskQueue /\ r.aborted = s.aborted
      /\ r.priority = s.priority /\ r.uncloneable = s.uncloneable
  BY <1>3, <1>5, SettleIs
<1>7. \A E \in SUBSET (s.taskQueue \ U) : \A Q :
        Settle(PopAll(r, E), Q, o) = Settle(PopAll(s, U \cup E), {t} \cup Q, o)
  <2>. SUFFICES ASSUME NEW E \in SUBSET (s.taskQueue \ U), NEW Q
                PROVE  Settle(PopAll(r, E), Q, o) = Settle(PopAll(s, U \cup E), {t} \cup Q, o)
    OBVIOUS
  <2>1. PopAll(r, E) = Settle(PopAll(d, E), {t}, o)
    BY <1>3, SettlePop
  <2>2. PopAll(d, E) = PopAll(s, U \cup E)
    BY <1>4
  <2>3. U \cup E \in SUBSET s.taskQueue
    BY <1>1
  <2>4. PopAll(s, U \cup E) \in PoolState
    BY <2>3, PopAllIs
  <2>. QED
    BY <2>1, <2>2, <2>4, SettleTwice
<1>. HIDE DEF r
<1>8. Valid(r) = Valid(s) \ {t} /\ Valid(r) \ r.uncloneable = sendable
  BY <1>1, <1>3, <1>6 DEF Valid
<1>9. CASE sendable = {}
  <2>1. /\ MarkWorkerIdle(s, w) = BecomeIdle(Settle(PopAll(s, s.taskQueue), Valid(s), o), w)
        /\ MarkWorkerIdle(r, w) = BecomeIdle(Settle(PopAll(r, r.taskQueue), Valid(r), o), w)
    BY <1>8, <1>9 DEF MarkWorkerIdle
  <2>2. U \cup (s.taskQueue \ U) = s.taskQueue /\ {t} \cup Valid(r) = Valid(s)
    BY <1>1, <1>8 DEF Valid
  <2>3. Settle(PopAll(r, s.taskQueue \ U), Valid(r), o) =
        Settle(PopAll(s, U \cup (s.taskQueue \ U)), {t} \cup Valid(r), o)
    BY <1>7
  <2>. QED
    BY <1>3, <1>6, <2>1, <2>2, <2>3 DEF r, d, U
<1>10. CASE sendable # {}
  <2>. DEFINE v == First(s, sendable)
              W == UpTo(s, v)
              E == UpTo(r, v)
              Q == (E \ r.aborted) \ {v}
              R == (W \ s.aborted) \ {v}
  <2>1. v \in sendable /\ v \in Valid(s) /\ v # t /\ v \in s.taskQueue /\ v \notin s.aborted
    <3>1. sendable \in SUBSET Task
      BY DEF Valid, PoolState
    <3>2. v \in sendable
      BY <1>10, <3>1, FirstIsLeast
    <3>. HIDE DEF v
    <3>. QED
      BY <3>2 DEF Valid
  <2>2. First(r, sendable) = v
    BY <1>6 DEF First, Before
  <2>. HIDE DEF v
  <2>3. W \in SUBSET s.taskQueue /\ \A u \in s.taskQueue : u \in W <=> u = v \/ Before(s, u, v)
    BY <2>1, UpToIs
  <2>4. E = W \ U
    BY <1>3, <1>6 DEF UpTo, Before
  <2>. HIDE DEF W, E
  <2>5. U \in SUBSET W
    <3>. SUFFICES ASSUME NEW u \in U  PROVE u \in W
      OBVIOUS
    <3>1. u \in s.taskQueue /\ (u = t \/ Before(s, u, t))
      BY <1>1, <1>2
    <3>2. Before(s, t, v)
      BY <1>1, <2>1
    <3>3. u \in Task /\ t \in Task /\ v \in Task
      BY <1>1, <2>1, <3>1 DEF PoolState
    <3>4. Before(s, u, v)
      BY <3>1, <3>2, <3>3, BeforeIs
    <3>. QED
      BY <2>3, <3>1, <3>4
  <2>6. E \in SUBSET (s.taskQueue \ U) /\ U \cup E = W
    BY <2>3, <2>4, <2>5
  <2>7. {t} \cup Q = R
    BY <1>1, <1>6, <2>1, <2>4, <2>5
  <2>8. Settle(PopAll(r, E), Q, o) = Settle(PopAll(s, W), R, o)
    <3>1. Settle(PopAll(r, E), Q, o) = Settle(PopAll(s, U \cup E), {t} \cup Q, o)
      BY <1>7, <2>6
    <3>. QED
      BY <2>6, <2>7, <3>1
  <2>9. MarkWorkerIdle(s, w) = SendTask(Assign(Settle(PopAll(s, W), R, o), w, v), w, v)
    BY <1>10 DEF MarkWorkerIdle, v, W
  <2>10. MarkWorkerIdle(r, w) = SendTask(Assign(Settle(PopAll(r, E), Q, o), w, v), w, v)
    BY <1>8, <1>10, <2>2 DEF MarkWorkerIdle, E
  <2>. QED
    BY <2>8, <2>9, <2>10 DEF r, d, U
<1>. QED
  BY <1>9, <1>10

\* markWorkerIdle and postTask, calling one another until a task is posted or
\* none is left, compute the closed form, for a worker that holds no task.
LEMMA MarkAgrees ==
  ASSUME NEW s \in PoolState, NEW w \in Worker, s.currentTask[w] = NoTask,
         s.taskQueue \cap s.pendingTasks = {}
  PROVE  MarkWorkerIdleLoop[<<s, w>>] = MarkWorkerIdle(s, w)
<1>. DEFINE Pre(r) == r.currentTask[w] = NoTask /\ r.taskQueue \cap r.pendingTasks = {}
            Good(r) == MarkWorkerIdleLoop[<<r, w>>] = MarkWorkerIdle(r, w)
            Bad == {r \in PoolState : Pre(r) /\ ~Good(r)}
<1>1. SUFFICES ASSUME Bad # {}  PROVE FALSE
  OBVIOUS
<1>2. Bad \in SUBSET PoolState
  OBVIOUS
<1>3. PICK r \in Bad : \A u \in PoolState :
        Cardinality(u.taskQueue) < Cardinality(r.taskQueue) => u \notin Bad
  <2>. HIDE DEF Bad
  <2>. QED
    BY <1>1, <1>2, LeastPool
<1>4. r \in PoolState /\ Pre(r) /\ ~Good(r)
  OBVIOUS
<1>5. \A u \in PoolState :
        Cardinality(u.taskQueue) < Cardinality(r.taskQueue) /\ Pre(u) => Good(u)
  <2>. HIDE DEF Good, Pre
  <2>. QED
    BY <1>3
<1>. HIDE DEF Bad
<1>. DEFINE o == "cloneError"
            d == DequeueNextValid[r].state
            t == DequeueNextValid[r].task
<1>6. /\ d \in PoolState /\ d.taskQueue \in SUBSET r.taskQueue
      /\ d.currentTask = r.currentTask /\ d.pendingTasks = r.pendingTasks
      /\ d.uncloneable = r.uncloneable
      /\ IF Valid(r) = {} THEN t = NoTask /\ d = PopAll(r, r.taskQueue)
         ELSE /\ t = First(r, Valid(r)) /\ t \in Task /\ t # NoTask /\ t \in r.taskQueue
              /\ d = PopAll(r, UpTo(r, t))
              /\ Cardinality(d.taskQueue) < Cardinality(r.taskQueue)
  BY <1>4, DequeuedIs
<1>7. MarkWorkerIdleLoop[<<r, w>>] =
        IF t = NoTask THEN BecomeIdle(d, w)
        ELSE IF t \in d.uncloneable THEN MarkWorkerIdleLoop[<<Uncloned(d, w, t), w>>]
        ELSE SendTask(Assign(d, w, t), w, t)
  BY <1>4, MarkRecursion
<1>. HIDE DEF d, t
<1>8. o \in Outcome
  BY DEF Outcome, Rejection
<1>9. Settle(d, {}, o) = d
  BY <1>6, <1>8, SettleIs
<1>10. CASE Valid(r) = {}
  <2>1. Valid(r) \ r.uncloneable = {}
    BY <1>10
  <2>2. MarkWorkerIdle(r, w) = BecomeIdle(Settle(PopAll(r, r.taskQueue), Valid(r), o), w)
    BY <2>1 DEF MarkWorkerIdle
  <2>. QED
    BY <1>4, <1>6, <1>7, <1>9, <1>10, <2>2
<1>11. CASE Valid(r) # {} /\ t \in r.uncloneable
  <2>. DEFINE u == Settle(d, {t}, o)
  <2>1. t \notin d.pendingTasks /\ d.currentTask[w] = NoTask
    BY <1>4, <1>6, <1>11
  <2>2. Uncloned(d, w, t) = u
    BY <1>6, <1>11, <2>1, UnclonedIs
  <2>3. u \in PoolState /\ u.taskQueue = d.taskQueue /\ u.currentTask = d.currentTask
        /\ u.pendingTasks = d.pendingTasks
    BY <1>6, <1>8, SettleIs
  <2>. HIDE DEF u
  <2>4. Good(u)
    <3>1. Pre(u) /\ Cardinality(u.taskQueue) < Cardinality(r.taskQueue)
      BY <1>4, <1>6, <1>11, <2>3
    <3>. HIDE DEF Good, Pre
    <3>. QED
      BY <1>5, <2>3, <3>1
  <2>5. MarkWorkerIdle(u, w) = MarkWorkerIdle(r, w)
    BY <1>4, <1>6, <1>11, MarkRest DEF u
  <2>6. MarkWorkerIdleLoop[<<r, w>>] = MarkWorkerIdleLoop[<<u, w>>]
    BY <1>6, <1>7, <1>11, <2>2
  <2>. QED
    BY <1>4, <2>4, <2>5, <2>6
<1>12. CASE Valid(r) # {} /\ t \notin r.uncloneable
  <2>. DEFINE sendable == Valid(r) \ r.uncloneable
  <2>1. /\ \A u \in Valid(r) : u = t \/ Before(r, t, u)
        /\ UpTo(r, t) \ r.aborted = {t} /\ t \in r.taskQueue /\ t \notin r.aborted
    BY <1>4, <1>6, <1>12, FirstValid
  <2>2. t \in sendable /\ sendable \in SUBSET Task
    BY <1>4, <1>12, <2>1 DEF Valid, PoolState
  <2>3. First(r, sendable) = t
    <3>1. \A u \in sendable : u = t \/ Before(r, t, u)
      BY <2>1
    <3>. HIDE DEF sendable
    <3>. QED
      BY <1>4, <2>2, <3>1, FirstUnique
  <2>4. (UpTo(r, t) \ r.aborted) \ {t} = {}
    BY <2>1
  <2>5. MarkWorkerIdle(r, w) = SendTask(Assign(Settle(PopAll(r, UpTo(r, t)), {}, o), w, t), w, t)
    BY <2>2, <2>3, <2>4 DEF MarkWorkerIdle
  <2>. QED
    BY <1>4, <1>6, <1>7, <1>9, <1>12, <2>5
<1>. QED
  BY <1>10, <1>11, <1>12

-----------------------------------------------------------------------------
(* tryDispatch. *)

\* popIdleWorker changes the idle stack and a timer: without a usable entry,
\* it empties the stack.
LEMMA PopIdleIs ==
  ASSUME NEW s \in PoolState
  PROVE  LET r == PopIdleWorker(s)
         IN  /\ r \in PoolState /\ r.taskQueue = s.taskQueue /\ r.abortedQueued = s.abortedQueued
             /\ r.aborted = s.aborted /\ r.priority = s.priority
             /\ r.workers = s.workers /\ r.live = s.live
             /\ Usable(s) # {} => IdleTop(s) \in Worker /\ s.idleWorkers # <<>>
             /\ Usable(s) = {} => r = [s EXCEPT !.idleWorkers = <<>>] /\ r.idleWorkers = <<>>
<1>. DEFINE n == Max(Usable(s))
            i == SubSeq(s.idleWorkers, 1, n - 1)
            m == s.idleTimer \ {IdleTop(s)}
            r == PopIdleWorker(s)
<1>1. s.idleWorkers \in Seq(Worker) /\ m \in SUBSET Worker
  BY DEF PoolState
<1>2. Usable(s) \in SUBSET (1..Len(s.idleWorkers)) /\ Len(s.idleWorkers) \in Nat
  BY <1>1 DEF Usable
<1>3. Usable(s) # {} => n \in 1..Len(s.idleWorkers)
  BY <1>2, IntervalHasGreatest
<1>4. Usable(s) # {} => i \in Seq(Worker) /\ IdleTop(s) \in Worker /\ s.idleWorkers # <<>>
  <2>1. IdleTop(s) = s.idleWorkers[n]
    BY DEF IdleTop
  <2>. HIDE DEF n
  <2>. QED
    BY <1>1, <1>3, <2>1
<1>. HIDE DEF n
<1>5. CASE Usable(s) = {}
  <2>1. r = [s EXCEPT !.idleWorkers = <<>>]
    BY <1>5 DEF PopIdleWorker
  <2>2. <<>> \in Seq(Worker)
    OBVIOUS
  <2>. HIDE DEF r
  <2>3. /\ r \in PoolState /\ r.taskQueue = s.taskQueue /\ r.abortedQueued = s.abortedQueued
        /\ r.aborted = s.aborted /\ r.priority = s.priority
        /\ r.workers = s.workers /\ r.live = s.live /\ r.idleWorkers = <<>>
    BY <2>1, <2>2 DEF PoolState
  <2>. QED
    BY <1>5, <2>1, <2>3 DEF r
<1>6. CASE Usable(s) # {}
  <2>1. r = [s EXCEPT !.idleWorkers = i, !.idleTimer = m]
    BY <1>6 DEF PopIdleWorker, n
  <2>2. i \in Seq(Worker)
    BY <1>4, <1>6
  <2>. HIDE DEF r, i, m
  <2>3. /\ r \in PoolState /\ r.taskQueue = s.taskQueue /\ r.abortedQueued = s.abortedQueued
        /\ r.aborted = s.aborted /\ r.priority = s.priority
        /\ r.workers = s.workers /\ r.live = s.live
    BY <1>1, <2>1, <2>2 DEF PoolState
  <2>. QED
    BY <1>4, <1>6, <2>3 DEF r
<1>. QED
  BY <1>5, <1>6

\* A new thread with a task is one worker more.
LEMMA SpawnIs ==
  ASSUME NEW s \in PoolState, NEW t \in Task, s.live # Worker
  PROVE  LET r == SpawnWorker(s, t)
         IN  /\ r \in PoolState /\ r.taskQueue = s.taskQueue /\ r.aborted = s.aborted
             /\ r.idleWorkers = s.idleWorkers
             /\ r.workers = s.workers \cup {FreshWorker(s)} /\ FreshWorker(s) \notin s.live
<1>. DEFINE w == FreshWorker(s)
            r == SpawnWorker(s, t)
            W == s.workers \cup {w}
            L == s.live \cup {w}
            c == [s.currentTask EXCEPT ![w] = t]
            q == s.pendingTasks \cup ({t} \ {NoTask})
<1>1. w \in Worker /\ w \notin s.live
  <2>1. \E v \in Worker : v \notin s.live
    BY DEF PoolState
  <2>. QED
    BY <2>1 DEF FreshWorker
<1>2. r = [s EXCEPT !.workers = W, !.live = L, !.currentTask = c, !.pendingTasks = q]
  BY DEF SpawnWorker, PoolState
<1>. HIDE DEF w
<1>3. W \in SUBSET Worker /\ L \in SUBSET Worker /\ c \in [Worker -> Task \cup {NoTask}]
      /\ q \in SUBSET Task
  BY <1>1 DEF PoolState
<1>4. /\ r \in PoolState /\ r.workers = W /\ r.taskQueue = s.taskQueue
      /\ r.aborted = s.aborted /\ r.idleWorkers = s.idleWorkers
  <2>. HIDE DEF W, L, c, q, r
  <2>. QED
    BY <1>2, <1>3 DEF PoolState
<1>. QED
  BY <1>1, <1>4 DEF w

\* dispatchTask adds nothing to the queue.
LEMMA DispatchLoopIs ==
  ASSUME NEW s \in PoolState, NEW w \in Worker, NEW t \in Task
  PROVE  LET r == DispatchTaskLoop(s, w, t)
         IN  r \in PoolState /\ r.taskQueue \in SUBSET s.taskQueue
<1>1. CASE t \in s.uncloneable
  <2>. DEFINE u == Uncloned(s, w, t)
  <2>1. u \in PoolState /\ u.taskQueue = s.taskQueue
    BY UnclonedIs
  <2>2. DispatchTaskLoop(s, w, t) = MarkWorkerIdleLoop[<<u, w>>]
    BY <1>1 DEF DispatchTaskLoop
  <2>. HIDE DEF u
  <2>. QED
    BY <2>1, <2>2, MarkLoopIs
<1>2. CASE t \notin s.uncloneable
  <2>1. DispatchTaskLoop(s, w, t) = SendTask(Assign(s, w, t), w, t)
    BY <1>2 DEF DispatchTaskLoop
  <2>. QED
    BY <2>1, AssignSendIs
<1>. QED
  BY <1>1, <1>2

\* The recursive definition of tryDispatch has a solution.
LEMMA TryRecursion ==
  ASSUME NEW r \in PoolState
  PROVE  LET d == DequeueNextValid[r].state
             t == DequeueNextValid[r].task
         IN  TryDispatchLoop[r] =
               IF r.taskQueue = {} THEN r
               ELSE IF t = NoTask THEN d
               ELSE IF Usable(d) # {}
                    THEN TryDispatchLoop[DispatchTaskLoop(PopIdleWorker(d), IdleTop(d), t)]
               ELSE IF Cardinality(d.workers) < MaxThreads /\ d.live # Worker
                    THEN TryDispatchLoop[SpawnWorker(PopIdleWorker(d), t)]
               ELSE [PopIdleWorker(d) EXCEPT !.taskQueue = @ \cup {t}]
<1>. DEFINE S == PoolState
            d(s) == DequeueNextValid[s].state
            t(s) == DequeueNextValid[s].task
            Room(s) == Cardinality(d(s).workers) < MaxThreads /\ d(s).live # Worker
            Ends(s) == s.taskQueue = {} \/ t(s) = NoTask \/ (Usable(d(s)) = {} /\ ~Room(s))
            Back(s) == [PopIdleWorker(d(s)) EXCEPT !.taskQueue = @ \cup {t(s)}]
            End(s) == IF s.taskQueue = {} THEN s ELSE IF t(s) = NoTask THEN d(s) ELSE Back(s)
            Dispatched(s) == DispatchTaskLoop(PopIdleWorker(d(s)), IdleTop(d(s)), t(s))
            Spawned(s) == SpawnWorker(PopIdleWorker(d(s)), t(s))
            Again(s) == IF Usable(d(s)) # {} THEN Dispatched(s) ELSE Spawned(s)
            Body(f, s) == IF s.taskQueue = {} THEN s
                          ELSE IF t(s) = NoTask THEN d(s)
                          ELSE IF Usable(d(s)) # {} THEN f[Dispatched(s)]
                          ELSE IF Room(s) THEN f[Spawned(s)]
                          ELSE Back(s)
            Stop == {s \in S : Ends(s)}
            out == [s \in S |-> End(s)]
            next == [s \in S |-> IF s \in Stop THEN s ELSE Again(s)]
            m == [s \in S |-> Cardinality(s.taskQueue)]
            P(g) == g = [s \in S |-> Body(g, s)]
<1>1. TryDispatchLoop = CHOOSE g : P(g)
  BY DEF TryDispatchLoop
<1>2. ASSUME NEW s \in S, s \notin Stop
      PROVE  Again(s) \in S /\ Cardinality(Again(s).taskQueue) < Cardinality(s.taskQueue)
  <2>. DEFINE e == d(s)
              u == t(s)
              p == PopIdleWorker(e)
              a == Again(s)
  <2>1. u # NoTask /\ (Usable(e) = {} => e.live # Worker)
    BY <1>2
  <2>2. e \in PoolState /\ u \in Task /\ Cardinality(e.taskQueue) < Cardinality(s.taskQueue)
    BY <2>1, DequeuedIs
  <2>3. a = IF Usable(e) # {} THEN DispatchTaskLoop(p, IdleTop(e), u) ELSE SpawnWorker(p, u)
    OBVIOUS
  <2>. HIDE DEF e, u, a
  <2>4. /\ p \in PoolState /\ p.taskQueue = e.taskQueue /\ p.live = e.live
        /\ Usable(e) # {} => IdleTop(e) \in Worker
    BY <2>2, PopIdleIs
  <2>. HIDE DEF p
  <2>5. a \in PoolState /\ a.taskQueue \in SUBSET e.taskQueue
    <3>1. CASE Usable(e) # {}
      BY <2>2, <2>3, <2>4, <3>1, DispatchLoopIs
    <3>2. CASE Usable(e) = {}
      BY <2>1, <2>2, <2>3, <2>4, <3>2, SpawnIs
    <3>. QED
      BY <3>1, <3>2
  <2>6. Cardinality(a.taskQueue) < Cardinality(s.taskQueue)
    <3>1. e.taskQueue \in SUBSET Task /\ s.taskQueue \in SUBSET Task /\ a.taskQueue \in SUBSET Task
      BY <2>2, <2>5 DEF PoolState
    <3>2. IsFiniteSet(e.taskQueue) /\ Cardinality(e.taskQueue) \in Nat
          /\ Cardinality(s.taskQueue) \in Nat /\ Cardinality(a.taskQueue) \in Nat
      BY <3>1, TasksFinite
    <3>3. Cardinality(a.taskQueue) <= Cardinality(e.taskQueue)
      BY <2>5, <3>2, FS_Subset
    <3>. QED
      BY <2>2, <3>2, <3>3
  <2>. QED
    BY <2>5, <2>6 DEF a
<1>3. next \in [S -> S]
  <2>. HIDE DEF S, Stop, Again
  <2>. QED
    BY <1>2
<1>4. m \in [S -> Nat]
  <2>1. \A s \in S : s.taskQueue \in SUBSET Task
    BY DEF PoolState
  <2>. QED
    BY <2>1, TasksFinite
<1>5. \A s \in S : s \notin Stop => m[next[s]] < m[s]
  <2>. HIDE DEF S, Stop, Again
  <2>. QED
    BY <1>2
<1>. HIDE DEF next, m
<1>6. PICK f : Solves(f, S, Stop, out, next)
  <2>. HIDE DEF S, Stop, out
  <2>. QED
    BY <1>3, <1>4, <1>5, TailRecursion
<1>7. \A s \in S : Body(f, s) = IF s \in Stop THEN out[s] ELSE f[next[s]]
  <2>. HIDE DEF S, Dispatched, Spawned, Back, d, t, Room
  <2>. QED
    BY DEF next
<1>8. P(f)
  <2>. HIDE DEF S, Body, Stop, out
  <2>1. f = [s \in S |-> IF s \in Stop THEN out[s] ELSE f[next[s]]]
    BY <1>6 DEF Solves
  <2>2. [s \in S |-> IF s \in Stop THEN out[s] ELSE f[next[s]]] = [s \in S |-> Body(f, s)]
    BY <1>7
  <2>. QED
    BY <2>1, <2>2
<1>. HIDE DEF Body
<1>9. P(TryDispatchLoop)
  <2>. HIDE DEF P
  <2>. QED
    BY <1>1, <1>8
<1>10. TryDispatchLoop[r] = Body(TryDispatchLoop, r)
  BY <1>9
<1>. QED
  BY <1>10 DEF Body

\* Without a valid task the loop only drops the aborted ones.
LEMMA TrySkips ==
  ASSUME NEW s \in PoolState, Valid(s) = {}
  PROVE  TryDispatchLoop[s] = SkipAborted(s)
<1>1. SkipAborted(s) = PopAll(s, s.taskQueue)
  BY DEF SkipAborted
<1>2. CASE s.taskQueue = {}
  <2>1. TryDispatchLoop[s] = s
    BY <1>2, TryRecursion
  <2>2. PopAll(s, s.taskQueue) = Requeue(s, s.taskQueue, s.abortedQueued)
    <3>1. s.taskQueue \ s.taskQueue = s.taskQueue /\ s.taskQueue \cap s.aborted = {}
      BY <1>2
    <3>2. Cardinality(s.taskQueue \cap s.aborted) = 0
      BY <3>1, FS_EmptySet
    <3>3. s.abortedQueued - Cardinality(s.taskQueue \cap s.aborted) = s.abortedQueued
      BY <3>2 DEF PoolState
    <3>. QED
      BY <3>1, <3>3 DEF PopAll, Requeue
  <2>. QED
    BY <1>1, <2>1, <2>2, Requeues
<1>3. CASE s.taskQueue # {}
  <2>1. DequeueNextValid[s].task = NoTask /\ DequeueNextValid[s].state = PopAll(s, s.taskQueue)
    BY DequeuedIs
  <2>. QED
    BY <1>1, <1>3, <2>1, TryRecursion
<1>. QED
  BY <1>2, <1>3

\* An empty idle stack has nothing to pop.
LEMMA NoneIdle ==
  ASSUME NEW s \in PoolState, s.idleWorkers = <<>>
  PROVE  Usable(s) = {} /\ PopIdleWorker(s) = s
<1>1. Usable(s) = {}
  BY DEF Usable
<1>2. [s EXCEPT !.idleWorkers = <<>>] = s
  BY DEF PoolState
<1>. QED
  BY <1>1, <1>2 DEF PopIdleWorker

\* The first valid task, popped and pushed back: the aborted ones before it
\* are gone.
LEMMA PushBack ==
  ASSUME NEW s \in PoolState, Valid(s) # {}, Usable(s) = {},
         NEW t, t = First(s, Valid(s))
  PROVE  [PopIdleWorker(PopAll(s, UpTo(s, t))) EXCEPT !.taskQueue = @ \cup {t}] =
         SkipAborted(PopIdleWorker(s))
<1>. DEFINE U == UpTo(s, t)
            A == U \cap s.aborted
            p == PopAll(s, U)
            d == PopIdleWorker(p)
            i == PopIdleWorker(s)
            q == s.taskQueue \ A
            n == s.abortedQueued - Cardinality(A)
<1>1. t \in s.taskQueue /\ t \notin s.aborted /\ U \in SUBSET s.taskQueue /\ U \ s.aborted = {t}
  BY FirstValid
<1>2. i = [s EXCEPT !.idleWorkers = <<>>]
  BY PopIdleIs
<1>3. /\ i \in PoolState /\ i.taskQueue = s.taskQueue /\ i.aborted = s.aborted
      /\ i.priority = s.priority /\ i.abortedQueued = s.abortedQueued
  BY PopIdleIs
<1>4. SkipAborted(i) = PopAll(i, A)
  <2>. HIDE DEF i
  <2>1. Valid(i) = Valid(s)
    BY <1>3 DEF Valid
  <2>2. First(i, Valid(i)) = t
    BY <1>3, <2>1 DEF First, Before
  <2>3. UpTo(i, t) = U
    BY <1>3 DEF UpTo, Before
  <2>. QED
    BY <1>3, <2>1, <2>2, <2>3 DEF SkipAborted
<1>5. PopAll(i, A) = [i EXCEPT !.taskQueue = q, !.abortedQueued = n]
  <2>1. A \cap s.aborted = A
    OBVIOUS
  <2>. HIDE DEF i, A
  <2>. QED
    BY <1>3, <2>1 DEF PopAll
<1>6. p = [s EXCEPT !.taskQueue = s.taskQueue \ U, !.abortedQueued = n]
  BY DEF PopAll
<1>7. Usable(p) = {}
  <2>1. p.idleWorkers = s.idleWorkers /\ p.ready = s.ready /\ p.currentTask = s.currentTask
    BY <1>1, PopAllIs
  <2>. HIDE DEF p
  <2>. QED
    BY <2>1 DEF Usable
<1>8. p \in PoolState /\ p.taskQueue = s.taskQueue \ U
  BY <1>1, PopAllIs
<1>9. d = [p EXCEPT !.idleWorkers = <<>>] /\ d \in PoolState /\ d.taskQueue = s.taskQueue \ U
  <2>. HIDE DEF p
  <2>. QED
    BY <1>7, <1>8, PopIdleIs
<1>10. (s.taskQueue \ U) \cup {t} = q
  BY <1>1
<1>. HIDE DEF d
<1>11. [d EXCEPT !.taskQueue = @ \cup {t}] = [d EXCEPT !.taskQueue = q]
  BY <1>9, <1>10
<1>. HIDE DEF p, i, q, n, U, A
<1>12. [d EXCEPT !.taskQueue = q] = [i EXCEPT !.taskQueue = q, !.abortedQueued = n]
  BY <1>2, <1>6, <1>9 DEF PoolState
<1>. QED
  BY <1>4, <1>5, <1>11, <1>12 DEF d, p, i, U

\* A pool without room keeps its first valid task.
LEMMA TryKeeps ==
  ASSUME NEW s \in PoolState, Valid(s) # {}, Usable(s) = {},
         ~(Cardinality(s.workers) < MaxThreads)
  PROVE  TryDispatchLoop[s] = SkipAborted(PopIdleWorker(s))
<1>. DEFINE d == DequeueNextValid[s].state
            t == DequeueNextValid[s].task
<1>1. /\ t = First(s, Valid(s)) /\ t # NoTask /\ t \in s.taskQueue
      /\ d = PopAll(s, UpTo(s, t)) /\ d.workers = s.workers /\ d.idleWorkers = s.idleWorkers
      /\ d.ready = s.ready /\ d.currentTask = s.currentTask
  BY DequeuedIs
<1>2. TryDispatchLoop[s] =
        IF s.taskQueue = {} THEN s
        ELSE IF t = NoTask THEN d
        ELSE IF Usable(d) # {}
             THEN TryDispatchLoop[DispatchTaskLoop(PopIdleWorker(d), IdleTop(d), t)]
        ELSE IF Cardinality(d.workers) < MaxThreads /\ d.live # Worker
             THEN TryDispatchLoop[SpawnWorker(PopIdleWorker(d), t)]
        ELSE [PopIdleWorker(d) EXCEPT !.taskQueue = @ \cup {t}]
  BY TryRecursion
<1>. HIDE DEF d, t
<1>3. Usable(d) = {}
  BY <1>1 DEF Usable
<1>4. TryDispatchLoop[s] = [PopIdleWorker(d) EXCEPT !.taskQueue = @ \cup {t}]
  BY <1>1, <1>2, <1>3
<1>. QED
  BY <1>1, <1>4, PushBack

\* With an empty queue dispatchTask computes its closed form.
LEMMA DispatchAgrees ==
  ASSUME NEW s \in PoolState, NEW w \in Worker, NEW t \in Task, s.taskQueue = {}
  PROVE  DispatchTaskLoop(s, w, t) = DispatchTask(s, w, t)
<1>. DEFINE a == Assign(s, w, t)
            u == Uncloned(s, w, t)
<1>1. a.uncloneable = s.uncloneable
  BY DEF Assign, PoolState
<1>2. CASE t \notin s.uncloneable
  BY <1>1, <1>2 DEF DispatchTaskLoop, DispatchTask, PostTask
<1>3. CASE t \in s.uncloneable
  <2>1. DispatchTask(s, w, t) = MarkWorkerIdle(u, w)
    BY <1>1, <1>3 DEF DispatchTask, PostTask, Uncloned
  <2>2. DispatchTaskLoop(s, w, t) = MarkWorkerIdleLoop[<<u, w>>]
    BY <1>3 DEF DispatchTaskLoop
  <2>3. u \in PoolState /\ u.taskQueue = {} /\ u.currentTask[w] = NoTask
    BY UnclonedIs
  <2>. HIDE DEF u
  <2>4. u.taskQueue \cap u.pendingTasks = {}
    BY <2>3
  <2>. HIDE DEF u
  <2>. QED
    BY <2>1, <2>2, <2>3, <2>4, MarkAgrees
<1>. QED
  BY <1>2, <1>3

\* tryDispatch, from the states its two callers reach, computes its closed
\* form: at most one queued task, or no idle worker and at most one free slot.
LEMMA TryAgrees ==
  ASSUME NEW s, TaskInv(s, {}), ~s.destroyed, s.workers \subseteq s.live,
         Cardinality(s.workers) <= MaxThreads,
         \/ \E t : s.taskQueue \subseteq {t}
         \/ s.idleWorkers = <<>> /\ Cardinality(s.workers) >= MaxThreads - 1,
         s.taskQueue # {} /\ Cardinality(s.workers) < MaxThreads => s.live # Worker
  PROVE  TryDispatch(s) = TryDispatchLoop[s]
<1>. DEFINE t == First(s, Valid(s))
            p == PopAll(s, UpTo(s, t))
            d == PopIdleWorker(p)
            top == IdleTop(s)
<1>0. s \in PoolState /\ s.workers \in SUBSET Worker
  BY DEF TaskInv, PoolState
<1>1. CASE Valid(s) = {}
  BY <1>0, <1>1, TrySkips DEF TryDispatch
<1>2. CASE Valid(s) # {}
  <2>1. /\ t \in Task /\ t \in s.taskQueue /\ t # NoTask
        /\ p \in PoolState /\ p.taskQueue = s.taskQueue \ UpTo(s, t)
        /\ p.workers = s.workers /\ p.live = s.live
        /\ DequeueNextValid[s].state = p /\ DequeueNextValid[s].task = t
    <3>. DEFINE e == DequeueNextValid[s].state
                u == DequeueNextValid[s].task
    <3>1. /\ u = t /\ u \in Task /\ u # NoTask /\ u \in s.taskQueue
          /\ e = PopAll(s, UpTo(s, u)) /\ e \in PoolState
          /\ e.taskQueue = s.taskQueue \ UpTo(s, u)
          /\ e.workers = s.workers /\ e.live = s.live
      BY <1>0, <1>2, DequeuedIs
    <3>. HIDE DEF e, u, t
    <3>. QED
      BY <3>1 DEF e, u
  <2>2. t \in UpTo(s, t) /\ Usable(p) = Usable(s) /\ IdleTop(p) = top
    BY <1>2, PopFirstInv
  <2>. HIDE DEF t, top
  <2>3. /\ d \in PoolState /\ d.taskQueue = p.taskQueue /\ d.workers = p.workers
        /\ d.live = p.live
        /\ Usable(p) # {} => IdleTop(p) \in Worker
        /\ Usable(p) = {} => d.idleWorkers = <<>>
    <3>. HIDE DEF p
    <3>. QED
      BY <2>1, PopIdleIs
  <2>4. (\E u : s.taskQueue \subseteq {u}) => d.taskQueue = {}
    <3>. HIDE DEF p, d
    <3>. QED
      BY <2>1, <2>2, <2>3
  <2>5. Usable(s) # {} => s.idleWorkers # <<>>
    BY DEF Usable
  <2>6. TryDispatchLoop[s] =
          IF Usable(p) # {} THEN TryDispatchLoop[DispatchTaskLoop(d, IdleTop(p), t)]
          ELSE IF Cardinality(p.workers) < MaxThreads /\ p.live # Worker
               THEN TryDispatchLoop[SpawnWorker(d, t)]
          ELSE [d EXCEPT !.taskQueue = @ \cup {t}]
    <3>1. LET e == DequeueNextValid[s].state
              u == DequeueNextValid[s].task
          IN  TryDispatchLoop[s] =
                IF s.taskQueue = {} THEN s
                ELSE IF u = NoTask THEN e
                ELSE IF Usable(e) # {}
                     THEN TryDispatchLoop[DispatchTaskLoop(PopIdleWorker(e), IdleTop(e), u)]
                ELSE IF Cardinality(e.workers) < MaxThreads /\ e.live # Worker
                     THEN TryDispatchLoop[SpawnWorker(PopIdleWorker(e), u)]
                ELSE [PopIdleWorker(e) EXCEPT !.taskQueue = @ \cup {u}]
      BY <1>0, TryRecursion
    <3>. HIDE DEF p
    <3>. QED
      BY <2>1, <3>1
  <2>7. TryDispatch(s) =
          IF Usable(s) # {} THEN SkipAborted(DispatchTask(d, top, t))
          ELSE IF Cardinality(s.workers) < MaxThreads THEN SkipAborted(SpawnWorker(d, t))
          ELSE SkipAborted(PopIdleWorker(s))
    BY <1>2 DEF TryDispatch, t, top
  <2>. HIDE DEF p, d
  <2>8. CASE Usable(s) # {}
    <3>. DEFINE e == DispatchTaskLoop(d, top, t)
    <3>1. d.taskQueue = {} /\ top \in Worker
      BY <2>2, <2>3, <2>4, <2>5, <2>8
    <3>2. e = DispatchTask(d, top, t)
      BY <2>1, <2>3, <3>1, DispatchAgrees
    <3>3. e \in PoolState /\ e.taskQueue \in SUBSET d.taskQueue
      BY <2>1, <2>3, <3>1, DispatchLoopIs
    <3>4. TryDispatchLoop[s] = TryDispatchLoop[e] /\ TryDispatch(s) = SkipAborted(e)
      BY <2>2, <2>6, <2>7, <2>8, <3>2
    <3>. HIDE DEF e
    <3>5. Valid(e) = {}
      BY <3>1, <3>3 DEF Valid
    <3>. QED
      BY <3>3, <3>4, <3>5, TrySkips
  <2>9. CASE Usable(s) = {} /\ Cardinality(s.workers) < MaxThreads
    <3>. DEFINE e == SpawnWorker(d, t)
    <3>1. d.live # Worker /\ d.idleWorkers = <<>>
      BY <2>1, <2>2, <2>3, <2>9
    <3>2. /\ e \in PoolState /\ e.taskQueue = d.taskQueue /\ e.idleWorkers = <<>>
          /\ e.workers = s.workers \cup {FreshWorker(d)} /\ FreshWorker(d) \notin d.live
      BY <2>1, <2>3, <3>1, SpawnIs
    <3>3. TryDispatchLoop[s] = TryDispatchLoop[e] /\ TryDispatch(s) = SkipAborted(e)
      BY <2>1, <2>2, <2>3, <2>6, <2>7, <2>9, <3>1
    <3>. HIDE DEF e
    <3>4. Cardinality(e.workers) = Cardinality(s.workers) + 1
      <4>1. IsFiniteSet(s.workers) /\ FreshWorker(d) \notin s.workers
        BY <1>0, <2>1, <2>3, <3>2, WorkersFinite
      <4>. QED
        BY <3>2, <4>1, FS_AddElement
    <3>5. CASE Valid(e) = {}
      BY <3>2, <3>3, <3>5, TrySkips
    <3>6. CASE Valid(e) # {}
      <4>1. d.taskQueue # {}
        BY <3>2, <3>6 DEF Valid
      <4>2. Cardinality(s.workers) >= MaxThreads - 1
        BY <2>4, <4>1
      <4>3. Cardinality(s.workers) \in Nat /\ MaxThreads \in Nat
        BY <1>0, WorkersFinite, ThreadsAssumption
      <4>4. ~(Cardinality(e.workers) < MaxThreads)
        BY <3>4, <4>2, <4>3
      <4>5. Usable(e) = {} /\ PopIdleWorker(e) = e
        BY <3>2, NoneIdle
      <4>6. TryDispatchLoop[e] = SkipAborted(PopIdleWorker(e))
        BY <3>2, <3>6, <4>4, <4>5, TryKeeps
      <4>. QED
        BY <3>3, <4>5, <4>6
    <3>. QED
      BY <3>5, <3>6
  <2>10. CASE Usable(s) = {} /\ ~(Cardinality(s.workers) < MaxThreads)
    BY <1>0, <1>2, <2>7, <2>10, TryKeeps
  <2>. QED
    BY <2>8, <2>9, <2>10
<1>. QED
  BY <1>1, <1>2

\* An entry that gives back its task is one that MarkAgrees speaks of.
LEMMA UnassignedIs ==
  ASSUME NEW s, TaskInv(s, {}), NEW w \in Worker
  PROVE  LET r == Unassign(s, w)
         IN  /\ r \in PoolState /\ r.currentTask[w] = NoTask
             /\ r.taskQueue \cap r.pendingTasks = {}
<1>. DEFINE r == Unassign(s, w)
<1>1. s \in PoolState /\ s.taskQueue \cap s.pendingTasks = {}
  BY DEF TaskInv
<1>2. r \in PoolState
  <2>1. TaskInv(r, {} \cup ({s.currentTask[w]} \cap s.pendingTasks))
    BY UnassignInv
  <2>. HIDE DEF r
  <2>. QED
    BY <2>1 DEF TaskInv
<1>3. /\ r.currentTask = [s.currentTask EXCEPT ![w] = NoTask]
      /\ r.pendingTasks = s.pendingTasks \ {s.currentTask[w]} /\ r.taskQueue = s.taskQueue
  BY <1>1 DEF Unassign, PoolState
<1>. HIDE DEF r
<1>4. r.currentTask[w] = NoTask
  BY <1>1, <1>3 DEF PoolState
<1>. QED
  BY <1>1, <1>2, <1>3, <1>4 DEF r

\* A call of run() that reaches the queue finds tryDispatch where TryAgrees
\* needs it.
LEMMA RunAgrees ==
  ASSUME Inv, CanRun, NEW p \in Priority, NEW cloneable \in Cloneable
  PROVE  LET s == NewTask(pool, p, cloneable)
             q == [s EXCEPT !.taskQueue = @ \cup {s.nextTaskId}]
         IN  TryDispatch(q) = TryDispatchLoop[q]
<1>. DEFINE s == NewTask(pool, p, cloneable)
            t == s.nextTaskId
            d == [s EXCEPT !.taskQueue = @ \cup {t}]
<1>1. /\ TaskInv(s, {t}) /\ t \in Task /\ Quiet(pool, s) /\ s.taskQueue = pool.taskQueue
      /\ s.idleWorkers = pool.idleWorkers /\ t \notin s.aborted
  BY NewTaskInv, OptionsAssumption DEF Inv, CanRun
<1>. HIDE DEF s
<1>2. /\ TaskInv(d, {}) /\ d.taskQueue = pool.taskQueue \cup {t}
      /\ d.workers = pool.workers /\ d.live = pool.live /\ d.destroyed = pool.destroyed
      /\ d.idleWorkers = pool.idleWorkers
  <2>. HIDE DEF t
  <2>. QED
    BY <1>1, PushTaskInv DEF Quiet
<1>. HIDE DEF d, t
<1>3. /\ ~d.destroyed /\ d.workers \subseteq d.live /\ Cardinality(d.workers) <= MaxThreads
      /\ Cardinality(d.workers) < MaxThreads => d.live # Worker
  BY <1>2 DEF CanRun, Inv, SlotInv
<1>4. \/ \E u : d.taskQueue \subseteq {u}
      \/ d.idleWorkers = <<>> /\ Cardinality(d.workers) >= MaxThreads - 1
  <2>1. CASE pool.taskQueue = {}
    BY <1>2, <2>1
  <2>2. CASE pool.taskQueue # {}
    BY <1>2, <2>2, ThreadsAssumption DEF Inv, SlotInv
  <2>. QED
    BY <2>1, <2>2
<1>5. TryDispatch(d) = TryDispatchLoop[d]
  BY <1>2, <1>3, <1>4, TryAgrees
<1>. QED
  BY <1>5 DEF d, t, s

\* The same for the exit of a worker.
LEMMA ExitAgrees ==
  ASSUME Inv, NEW w \in Worker, ~pool.destroyed
  PROVE  TryDispatch(ReplaceExited(pool, w)) = TryDispatchLoop[ReplaceExited(pool, w)]
<1>. DEFINE d == ReplaceExited(pool, w)
<1>1. /\ TaskInv(d, {}) /\ ~d.destroyed /\ d.workers \subseteq d.live
      /\ Cardinality(d.workers) <= MaxThreads
      /\ d.taskQueue # {} =>
           d.idleWorkers = <<>> /\ Cardinality(d.workers) >= MaxThreads - 1
      /\ d.taskQueue # {} /\ Cardinality(d.workers) < MaxThreads => d.live # Worker
  BY ReplaceExitedInv DEF Inv
<1>. HIDE DEF d
<1>2. \/ \E u : d.taskQueue \subseteq {u}
      \/ d.idleWorkers = <<>> /\ Cardinality(d.workers) >= MaxThreads - 1
  BY <1>1
<1>3. TryDispatch(d) = TryDispatchLoop[d]
  BY <1>1, <1>2, TryAgrees
<1>. QED
  BY <1>3 DEF d

\* The closed forms of WorkerPool are the loops of WorkerPool.ts: the
\* recursion of markWorkerIdle, dispatchTask and postTask for any worker whose
\* task is done, the loop of tryDispatch wherever run() or an exit calls it.
THEOREM LoopsDoAgree == Spec => []LoopsAgree
<1>1. ASSUME Inv  PROVE LoopsAgree
  <2>1. ASSUME NEW w \in Worker
        PROVE  MarkWorkerIdle(Unassign(pool, w), w) = MarkWorkerIdleLoop[<<Unassign(pool, w), w>>]
    <3>. DEFINE r == Unassign(pool, w)
    <3>1. r \in PoolState /\ r.currentTask[w] = NoTask /\ r.taskQueue \cap r.pendingTasks = {}
      BY <1>1, UnassignedIs DEF Inv
    <3>. HIDE DEF r
    <3>2. MarkWorkerIdleLoop[<<r, w>>] = MarkWorkerIdle(r, w)
      BY <3>1, MarkAgrees
    <3>. QED
      BY <3>2 DEF r
  <2>2. \A p \in Priority, cloneable \in Cloneable : CanRun =>
          LET s == NewTask(pool, p, cloneable)
              q == [s EXCEPT !.taskQueue = @ \cup {s.nextTaskId}]
          IN  TryDispatch(q) = TryDispatchLoop[q]
    BY <1>1, RunAgrees
  <2>3. \A w \in pool.live : ~pool.destroyed =>
          TryDispatch(ReplaceExited(pool, w)) = TryDispatchLoop[ReplaceExited(pool, w)]
    <3>1. pool.live \in SUBSET Worker
      BY <1>1 DEF Inv, TaskInv, PoolState
    <3>. QED
      BY <1>1, <3>1, ExitAgrees
  <2>. QED
    BY <2>1, <2>2, <2>3 DEF LoopsAgree
<1>. QED
  BY <1>1, Inductive, PTL
=============================================================================
