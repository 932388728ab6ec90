----------------------------- MODULE RTOSProofs -----------------------------
(***************************************************************************)
(* Proofs about the RTOS scheduler, for any set of priorities, any tick    *)
(* and id width and any nesting depth.                                     *)
(*                                                                         *)
(* GoodState is what holds even inside a call, between the steps that      *)
(* delay(), suspendTask(), deleteTask() and yield() take before they call  *)
(* schedule(); Settled is what holds again when schedule() enters a body   *)
(* or the call returns.  Each private function has a lemma that says how   *)
(* it preserves GoodState.                                                 *)
(***************************************************************************)
EXTENDS RTOS, QueueTheorems

GoodState(s) == /\ WellFormed(s)
                /\ QueuesMatch(s)
                /\ OnlyCurrentRuns(s)
                /\ Awake(s, IDLE_TASK_ID)

Settled(s) == /\ GoodState(s)
              /\ AllDueLater(s)
              /\ Awake(s, s.current)

\* The inductive invariant of the scheduler.
IInv == Settled(rtos) /\ IdsBelowNext(rtos)

\* createTask is never called often enough to wrap the 32-bit id counter.
IdsDoNotWrap == MaxTaskId < IdRange - 1

-----------------------------------------------------------------------------
(***************************************************************************)
(* The order of a queue.  From q to r nobody but the tasks of X loses his  *)
(* place: another one that was in q is in r, and ahead of everyone who was *)
(* not ahead of him in q.  Such changes compose.                           *)
(***************************************************************************)
KeepsOrder(q, r, X) ==
  /\ Range(q) \ X \subseteq Range(r)
  /\ \A a \in Range(q) \ X : \A b \in Range(r) : a # b /\ ~Ahead(q, b, a) => Ahead(r, a, b)

\* From s to x, only the tasks of X may lose their place in a ready bucket ...
BucketsKeepOrder(s, x, X) ==
  \A p \in Priorities : KeepsOrder(s.readyQueue[p], x.readyQueue[p], X)

\* ... or stop being suspended.
StaySuspended(s, x, X) ==
  \A t \in (DOMAIN s.tasks \cap DOMAIN x.tasks) \ X :
    s.tasks[t].state = SUSPENDED => x.tasks[t].state = SUSPENDED

\* Who is ahead of whom, by positions.
LEMMA AheadByIndex ==
  ASSUME NEW S, NEW q \in Seq(S), NEW a, NEW b
  PROVE  Ahead(q, a, b) <=> \E i, j \in 1 .. Len(q) : i < j /\ q[i] = a /\ q[j] = b
BY DEF Ahead

\* Of two tasks in a queue exactly one is ahead.
LEMMA OneAhead ==
  ASSUME NEW S, NEW q \in Seq(S), IsInjective(q), NEW a \in Range(q), NEW b
  PROVE  /\ b \in Range(q) /\ a # b => Ahead(q, a, b) \/ Ahead(q, b, a)
         /\ ~(Ahead(q, a, b) /\ Ahead(q, b, a))
         /\ Ahead(q, a, b) => a # b
         /\ Ahead(q, b, a) => b \in Range(q)
<1>1. /\ Len(q) \in Nat
      /\ \A i, j \in 1 .. Len(q) : q[i] = q[j] => i = j
      /\ \A x : x \in Range(q) <=> \E i \in 1 .. Len(q) : q[i] = x
  BY QueueByIndex
<1>2. ASSUME b \in Range(q), a # b PROVE Ahead(q, a, b) \/ Ahead(q, b, a)
  <2>1. PICK i \in 1 .. Len(q) : q[i] = a
    BY <1>1
  <2>2. PICK j \in 1 .. Len(q) : q[j] = b
    BY <1>1, <1>2
  <2>3. i < j \/ j < i
    BY <1>1, <1>2, <2>1, <2>2
  <2> QED BY <2>1, <2>2, <2>3, AheadByIndex
<1>3. ASSUME Ahead(q, a, b), Ahead(q, b, a) PROVE FALSE
  <2>1. PICK i, j \in 1 .. Len(q) : i < j /\ q[i] = a /\ q[j] = b
    BY <1>3, AheadByIndex
  <2>2. PICK k, l \in 1 .. Len(q) : k < l /\ q[k] = b /\ q[l] = a
    BY <1>3, AheadByIndex
  <2>3. i = l /\ j = k
    BY <1>1, <2>1, <2>2
  <2> QED BY <1>1, <2>1, <2>2, <2>3
<1>4. ASSUME Ahead(q, a, b) PROVE a # b
  <2>1. PICK i, j \in 1 .. Len(q) : i < j /\ q[i] = a /\ q[j] = b
    BY <1>4, AheadByIndex
  <2>2. i # j
    BY <1>1, <2>1
  <2> QED BY <1>1, <2>1, <2>2
<1>5. ASSUME Ahead(q, b, a) PROVE b \in Range(q)
  <2>1. PICK i, j \in 1 .. Len(q) : i < j /\ q[i] = b /\ q[j] = a
    BY <1>5, AheadByIndex
  <2> QED BY <1>1, <2>1
<1> QED BY <1>2, <1>3, <1>4, <1>5

LEMMA SameOrder ==
  ASSUME NEW S, NEW q \in Seq(S), IsInjective(q), NEW X
  PROVE  KeepsOrder(q, q, X)
BY OneAhead DEF KeepsOrder

LEMMA OrderComposes ==
  ASSUME NEW S, NEW m \in Seq(S), IsInjective(m), NEW q, NEW r, NEW X, NEW Y,
         KeepsOrder(q, m, X), KeepsOrder(m, r, Y)
  PROVE  KeepsOrder(q, r, X \cup Y)
<1>1. ASSUME NEW a \in Range(q) \ (X \cup Y) PROVE a \in Range(m) \ Y /\ a \in Range(r)
  BY <1>1 DEF KeepsOrder
<1>2. ASSUME NEW a \in Range(q) \ (X \cup Y), NEW b \in Range(r), a # b, ~Ahead(q, b, a)
      PROVE  Ahead(r, a, b)
  <2>1. a \in Range(m) /\ a \in Range(m) \ Y /\ a \in Range(q) \ X
    BY <1>1, <1>2
  <2>2. ~Ahead(m, b, a)
    <3>1. CASE b \in Range(m)
      <4>1. Ahead(m, a, b)
        BY <1>2, <2>1, <3>1 DEF KeepsOrder
      <4> QED BY <2>1, <4>1, OneAhead
    <3>2. CASE b \notin Range(m)
      BY <2>1, <3>2, OneAhead
    <3> QED BY <3>1, <3>2
  <2> QED BY <1>2, <2>1, <2>2 DEF KeepsOrder
<1> QED BY <1>1, <1>2 DEF KeepsOrder

\* What joins a queue at its end joins behind everyone.
LEMMA JoiningKeepsOrder ==
  ASSUME NEW S, NEW q \in Seq(S), NEW f \in Seq(S), IsInjective(q)
  PROVE  KeepsOrder(q, q \o f, {})
<1> DEFINE r == q \o f
<1>1. /\ Len(q) \in Nat /\ Len(f) \in Nat /\ r \in Seq(S) /\ Len(r) = Len(q) + Len(f)
      /\ \A i \in 1 .. Len(q) + Len(f) : r[i] = IF i <= Len(q) THEN q[i] ELSE f[i - Len(q)]
  BY ConcatProperties
<1> HIDE DEF r
<1>2. \A i \in 1 .. Len(q) : i \in 1 .. Len(r) /\ r[i] = q[i]
  BY <1>1
<1>3. Range(q) \subseteq Range(r)
  <2>1. ASSUME NEW x \in Range(q) PROVE x \in Range(r)
    <3>1. PICK i \in 1 .. Len(q) : q[i] = x
      BY QueueByIndex
    <3> QED BY <1>1, <1>2, <3>1, QueueByIndex
  <2> QED BY <2>1
<1>4. ASSUME NEW a \in Range(q), NEW b \in Range(r), a # b, ~Ahead(q, b, a)
      PROVE  Ahead(r, a, b)
  <2>1. PICK i \in 1 .. Len(q) : q[i] = a
    BY QueueByIndex
  <2>2. PICK j \in 1 .. Len(r) : r[j] = b
    BY <1>1, QueueByIndex, ZenonT(30)
  <2>3. i < j
    <3>1. CASE j <= Len(q)
      <4>1. j \in 1 .. Len(q) /\ q[j] = b
        BY <1>1, <2>2, <3>1
      <4>2. ~(j < i)
        BY <1>4, <2>1, <4>1, AheadByIndex
      <4>3. i # j
        BY <1>4, <2>1, <4>1
      <4> QED BY <1>1, <4>1, <4>2, <4>3
    <3>2. CASE ~(j <= Len(q))
      BY <1>1, <3>2
    <3> QED BY <3>1, <3>2
  <2> QED BY <1>1, <1>2, <2>1, <2>2, <2>3, AheadByIndex
<1> QED BY <1>3, <1>4 DEF KeepsOrder, r

\* Exempting more tasks asks for less.
LEMMA OrderWeakens ==
  ASSUME NEW q, NEW r, NEW X, NEW Y, X \subseteq Y, KeepsOrder(q, r, X)
  PROVE  KeepsOrder(q, r, Y)
BY DEF KeepsOrder

\* The same at the end of an append.
LEMMA AppendingKeepsOrder ==
  ASSUME NEW S, NEW q \in Seq(S), NEW e \in S, IsInjective(q)
  PROVE  KeepsOrder(q, Append(q, e), {})
<1>1. Append(q, e) = q \o << e >> /\ << e >> \in Seq(S)
  BY AppendIsConcat
<1> QED BY <1>1, JoiningKeepsOrder

\* Who leaves a queue changes nobody else's place.
LEMMA RemovingKeepsOrder ==
  ASSUME NEW S, NEW q \in Seq(S), NEW e, IsInjective(q)
  PROVE  KeepsOrder(q, RemoveFirst(q, e), {e})
<1> DEFINE r == RemoveFirst(q, e)
<1>1. r \in Seq(S) /\ Range(r) = Range(q) \ {e}
  BY RemoveFirstOnce
<1>2. CASE e \notin Range(q)
  <2>1. r = q
    BY <1>2, QueueByIndex DEF RemoveFirst
  <2> QED BY <2>1, SameOrder
<1>3. CASE e \in Range(q)
  <2>1. PICK k \in 1 .. Len(q) : q[k] = e
    BY <1>3, QueueByIndex
  <2>2. /\ Len(q) \in Nat /\ Len(r) = Len(q) - 1
        /\ \A i \in 1 .. Len(q) - 1 : r[i] = IF i < k THEN q[i] ELSE q[i + 1]
    BY <2>1, RemoveFirstByIndex
  <2> HIDE DEF r
  <2>3. ASSUME NEW a \in Range(q) \ {e}, NEW b \in Range(r), a # b, ~Ahead(q, b, a)
        PROVE  Ahead(r, a, b)
    <3>1. PICK i \in 1 .. Len(r) : r[i] = a
      BY <1>1, <2>3, QueueByIndex
    <3>2. PICK j \in 1 .. Len(r) : r[j] = b
      BY <1>1, <2>3, QueueByIndex
    <3> DEFINE m == IF i < k THEN i ELSE i + 1
               n == IF j < k THEN j ELSE j + 1
    <3>3. /\ m \in 1 .. Len(q) /\ q[m] = a
          /\ n \in 1 .. Len(q) /\ q[n] = b
      BY <2>2, <3>1, <3>2
    <3>4. ~(n < m)
      <4> HIDE DEF m, n
      <4> QED BY <2>3, <3>3, AheadByIndex
    <3>5. i # j
      BY <2>3, <3>1, <3>2
    <3>6. i < j
      BY <2>2, <3>4, <3>5
    <3> QED BY <1>1, <3>1, <3>2, <3>6, AheadByIndex
  <2> QED BY <1>1, <2>3 DEF KeepsOrder, r
<1> QED BY <1>2, <1>3

\* The rotation moves the head of the queue and nobody else.
LEMMA RotatingKeepsOrder ==
  ASSUME NEW S, NEW q \in Seq(S), q # << >>, IsInjective(q)
  PROVE  KeepsOrder(q, Append(Tail(q), Head(q)), {Head(q)})
<1> DEFINE t == Tail(q)
           h == Head(q)
           r == Append(t, h)
<1>1. r \in Seq(S) /\ Range(r) = Range(q)
  BY RotateQueue
<1>2. /\ t \in Seq(S) /\ h \in S /\ h = q[1]
      /\ Len(q) \in Nat /\ Len(t) = Len(q) - 1 /\ Len(q) >= 1
      /\ \A i \in 1 .. Len(t) : t[i] = q[i + 1]
  <2>1. h = q[1] /\ Len(q) >= 1
    OBVIOUS
  <2> QED BY <2>1, HeadTailProperties, QueueByIndex
<1> HIDE DEF t, h
<1>3. /\ Len(r) = Len(t) + 1
      /\ \A i \in 1 .. Len(t) : r[i] = t[i]
      /\ r[Len(t) + 1] = h
  BY <1>2, AppendProperties
<1> HIDE DEF r
<1>4. ASSUME NEW a \in Range(q) \ {h}, NEW b \in Range(r), a # b, ~Ahead(q, b, a)
      PROVE  Ahead(r, a, b)
  <2>1. PICK i \in 1 .. Len(r) : r[i] = a
    BY <1>1, <1>4, QueueByIndex
  <2>2. PICK j \in 1 .. Len(r) : r[j] = b
    BY <1>1, <1>4, QueueByIndex
  <2>3. i <= Len(t) /\ i \in 1 .. Len(t) /\ i + 1 \in 1 .. Len(q) /\ q[i + 1] = a
    BY <1>2, <1>3, <1>4, <2>1
  <2>4. i # j
    BY <1>4, <2>1, <2>2
  <2>5. CASE j <= Len(t)
    <3>1. j + 1 \in 1 .. Len(q) /\ q[j + 1] = b
      BY <1>2, <1>3, <2>2, <2>5
    <3>2. ~(j + 1 < i + 1)
      BY <1>4, <2>3, <3>1, AheadByIndex
    <3>3. i < j
      BY <1>2, <2>3, <2>4, <2>5, <3>1, <3>2
    <3> QED BY <1>1, <2>1, <2>2, <3>3, AheadByIndex
  <2>6. CASE ~(j <= Len(t))
    <3>1. i < j
      BY <1>2, <1>3, <2>2, <2>3, <2>6
    <3> QED BY <1>1, <2>1, <2>2, <3>1, AheadByIndex
  <2> QED BY <2>5, <2>6
<1> QED BY <1>1, <1>4 DEF KeepsOrder, r, t, h

\* A value reduced modulo a width fits that width.
LEMMA ModRange ==
  ASSUME NEW a \in Nat, NEW b \in Nat \ {0}
  PROVE  a % b \in 0 .. b - 1
OBVIOUS

\* Reducing a value that fits changes nothing.
LEMMA ModSmall ==
  ASSUME NEW b \in Nat \ {0}, NEW a \in 0 .. b - 1
  PROVE  a % b = a
OBVIOUS

\* pickNextTask stops at a nonempty bucket, the one of the largest priority.
LEMMA TopPriorityExists ==
  ASSUME NEW s, NonEmpty(s) # {}
  PROVE  /\ TopPriority(s) \in NonEmpty(s)
         /\ \A q \in NonEmpty(s) : q <= TopPriority(s)
<1> DEFINE T == {255 - p : p \in NonEmpty(s)}
<1>1. NonEmpty(s) \subseteq 0 .. 255
  BY PrioritiesAssumption DEF NonEmpty
<1> HIDE DEF NonEmpty
<1>2. T \in SUBSET Nat /\ T # {}
  BY <1>1
<1>3. PICK n \in T : \A m \in T : n <= m
  <2> HIDE DEF T
  <2> QED BY <1>2, LeastNat
<1>4. PICK p \in NonEmpty(s) : n = 255 - p
  OBVIOUS
<1>5. \A q \in NonEmpty(s) : q <= p
  <2>1. ASSUME NEW q \in NonEmpty(s) PROVE q <= p
    <3>1. 255 - q \in T
      OBVIOUS
    <3>2. n <= 255 - q
      BY <3>1, <1>3
    <3>3. p \in 0 .. 255 /\ q \in 0 .. 255
      BY <1>1
    <3> QED BY ONLY <3>2, <3>3, <1>4
  <2> QED BY <2>1
<1> QED BY <1>4, <1>5 DEF TopPriority

\* The sleepers of priority p that processDelayQueue appends to its bucket.
Woken(s, p) == {id \in Due(s) : /\ s.tasks[id].priority = p
                                /\ id \notin Range(s.readyQueue[p])}

\* What processDelayQueue leaves, member by member.
LEMMA ProcessDelayQueueFields ==
  ASSUME NEW s, IsSchedulerState(s), NEW w, w = ProcessDelayQueue(s)
  PROVE  /\ w.readyQueue = [p \in Priorities |->
                              s.readyQueue[p] \o FilterSeq(s.delayQueue, Woken(s, p))]
         /\ w.delayQueue = FilterSeq(s.delayQueue, Range(s.delayQueue) \ Due(s))
         /\ w.tasks = [id \in DOMAIN s.tasks |->
                         IF id \in Due(s) THEN [s.tasks[id] EXCEPT !.state = READY]
                                          ELSE s.tasks[id]]
         /\ w.tickCount = s.tickCount
         /\ w.current = s.current
         /\ w.running = s.running
         /\ w.nextTaskId = s.nextTaskId
         /\ w.stack = s.stack
         /\ DOMAIN w.tasks = DOMAIN s.tasks
         /\ w = [tasks |-> w.tasks, readyQueue |-> w.readyQueue, delayQueue |-> w.delayQueue,
                 tickCount |-> w.tickCount, nextTaskId |-> w.nextTaskId, current |-> w.current,
                 running |-> w.running, stack |-> w.stack]
<1> DEFINE T == [id \in DOMAIN s.tasks |->
                   IF id \in Due(s) THEN [s.tasks[id] EXCEPT !.state = READY]
                                    ELSE s.tasks[id]]
           R == [p \in Priorities |-> s.readyQueue[p] \o FilterSeq(s.delayQueue, Woken(s, p))]
           D == FilterSeq(s.delayQueue, Range(s.delayQueue) \ Due(s))
<1>1. w = [s EXCEPT !.tasks = T, !.readyQueue = R, !.delayQueue = D]
  BY DEF ProcessDelayQueue, Woken
<1>2. DOMAIN T = DOMAIN s.tasks
  OBVIOUS
<1> HIDE DEF T, R, D
<1>3. w = [tasks |-> T, readyQueue |-> R, delayQueue |-> D,
           tickCount |-> s.tickCount, nextTaskId |-> s.nextTaskId, current |-> s.current,
           running |-> s.running, stack |-> s.stack]
  BY <1>1 DEF IsSchedulerState
<1> QED BY <1>2, <1>3 DEF T, R, D

\* processDelayQueue preserves GoodState and leaves no overdue sleeper.
LEMMA ProcessDelayQueueGood ==
  ASSUME NEW s, GoodState(s)
  PROVE  /\ GoodState(ProcessDelayQueue(s))
         /\ AllDueLater(ProcessDelayQueue(s))
         /\ ProcessDelayQueue(s).current = s.current
         /\ ProcessDelayQueue(s).running = s.running
         /\ ProcessDelayQueue(s).nextTaskId = s.nextTaskId
         /\ DOMAIN ProcessDelayQueue(s).tasks = DOMAIN s.tasks
         /\ Awake(s, s.current) => Awake(ProcessDelayQueue(s), s.current)
<1> DEFINE w == ProcessDelayQueue(s)
           due == Due(s)
           woken(p) == {id \in due : /\ s.tasks[id].priority = p
                                     /\ id \notin Range(s.readyQueue[p])}
<1>1. /\ s.delayQueue \in Seq(TaskIds)
      /\ IsInjective(s.delayQueue)
      /\ Range(s.delayQueue) = BlockedIn(s)
      /\ s.tasks \in [DOMAIN s.tasks -> TaskControlBlock]
      /\ DOMAIN s.tasks \subseteq TaskIds
      /\ \A p \in Priorities : /\ s.readyQueue[p] \in Seq(TaskIds)
                               /\ IsInjective(s.readyQueue[p])
                               /\ Range(s.readyQueue[p]) = ReadyIn(s, p)
  BY DEF GoodState, WellFormed, IsSchedulerState, QueuesMatch
<1>2. due \subseteq BlockedIn(s)
  BY <1>1 DEF Due
<1>3. \A id \in due : /\ id \in DOMAIN s.tasks
                      /\ s.tasks[id].state = BLOCKED
                      /\ s.tasks[id].delayUntil <= s.tickCount
  BY <1>2 DEF Due, BlockedIn
<1>4. /\ w.readyQueue = [p \in Priorities |->
                           s.readyQueue[p] \o FilterSeq(s.delayQueue, woken(p))]
      /\ w.delayQueue = FilterSeq(s.delayQueue, Range(s.delayQueue) \ due)
      /\ w.tasks = [id \in DOMAIN s.tasks |->
                      IF id \in due THEN [s.tasks[id] EXCEPT !.state = READY]
                                    ELSE s.tasks[id]]
      /\ w.tickCount = s.tickCount
      /\ w.current = s.current
      /\ w.running = s.running
      /\ w.nextTaskId = s.nextTaskId
      /\ w.stack = s.stack
      /\ DOMAIN w.tasks = DOMAIN s.tasks
      /\ w = [tasks |-> w.tasks, readyQueue |-> w.readyQueue, delayQueue |-> w.delayQueue,
              tickCount |-> w.tickCount, nextTaskId |-> w.nextTaskId, current |-> w.current,
              running |-> w.running, stack |-> w.stack]
  BY ProcessDelayQueueFields DEF GoodState, WellFormed, Woken
<1> HIDE DEF w, due
<1>5. \A id \in DOMAIN s.tasks :
        /\ w.tasks[id] \in TaskControlBlock
        /\ w.tasks[id].priority = s.tasks[id].priority
        /\ w.tasks[id].delayUntil = s.tasks[id].delayUntil
        /\ w.tasks[id].state = IF id \in due THEN READY ELSE s.tasks[id].state
  BY <1>1, <1>4 DEF TaskControlBlock
<1>6. /\ w.delayQueue \in Seq(TaskIds)
      /\ IsInjective(w.delayQueue)
      /\ Range(w.delayQueue) = BlockedIn(s) \ due
  <2>1. /\ w.delayQueue \in Seq(TaskIds)
        /\ IsInjective(w.delayQueue)
        /\ Range(w.delayQueue) = Range(s.delayQueue) \cap (Range(s.delayQueue) \ due)
    BY <1>1, <1>4, FilterSeqOnce
  <2> QED BY <2>1, <1>1
<1>7. BlockedIn(w) = BlockedIn(s) \ due
  BY <1>3, <1>4, <1>5 DEF BlockedIn, READY, BLOCKED
<1>8. ASSUME NEW p \in Priorities
      PROVE  /\ w.readyQueue[p] \in Seq(TaskIds)
             /\ IsInjective(w.readyQueue[p])
             /\ Range(w.readyQueue[p]) = ReadyIn(w, p)
  <2> DEFINE f == FilterSeq(s.delayQueue, woken(p))
             K == woken(p)
  <2>1. woken(p) \subseteq Range(s.delayQueue)
    BY <1>1, <1>2
  <2>2. /\ f \in Seq(TaskIds)
        /\ IsInjective(f)
        /\ Range(f) = Range(s.delayQueue) \cap woken(p)
    <3> HIDE DEF woken
    <3> QED BY <1>1, FilterSeqOnce
  <2>3. Range(f) = woken(p)
    BY <2>1, <2>2
  <2>4. Range(s.readyQueue[p]) \cap Range(f) = {}
    BY <2>3
  <2>5. /\ s.readyQueue[p] \o f \in Seq(TaskIds)
        /\ IsInjective(s.readyQueue[p] \o f)
        /\ Range(s.readyQueue[p] \o f) = Range(s.readyQueue[p]) \cup Range(f)
    <3> HIDE DEF f
    <3> QED BY <1>1, <2>2, <2>4, ConcatDisjoint
  <2>6. w.readyQueue[p] = s.readyQueue[p] \o f
    BY <1>4
  <2>7. ReadyIn(w, p) = ReadyIn(s, p) \cup woken(p)
    <3>1. woken(p) = {id \in due : s.tasks[id].priority = p}
      BY <1>1, <1>3 DEF ReadyIn, READY, RUNNING, BLOCKED
    <3>2. ASSUME NEW id \in DOMAIN s.tasks
          PROVE  id \in ReadyIn(w, p) <=> id \in ReadyIn(s, p) \/ id \in woken(p)
      BY <3>1, <1>3, <1>4, <1>5 DEF ReadyIn, READY, RUNNING, BLOCKED
    <3> QED BY <3>1, <3>2, <1>3, <1>4 DEF ReadyIn
  <2> QED BY <2>3, <2>5, <2>6, <2>7, <1>1
<1>9. IsSchedulerState(w)
  <2>1. w.readyQueue \in [Priorities -> Seq(TaskIds)]
    BY <1>4, <1>8
  <2>2. w.tasks \in [DOMAIN w.tasks -> TaskControlBlock] /\ DOMAIN w.tasks \subseteq TaskIds
    BY <1>1, <1>4, <1>5
  <2>3. /\ s.tickCount \in Ticks /\ s.nextTaskId \in TaskIds /\ s.current \in TaskIds
        /\ s.running \in BOOLEAN /\ s.stack \in Seq(TaskIds)
    BY DEF GoodState, WellFormed, IsSchedulerState
  <2> QED BY <2>1, <2>2, <2>3, <1>4, <1>6 DEF IsSchedulerState
<1>10. WellFormed(w)
  BY <1>4, <1>9 DEF GoodState, WellFormed
<1>11. QueuesMatch(w)
  BY <1>6, <1>7, <1>8 DEF QueuesMatch
<1>12. OnlyCurrentRuns(w)
  BY <1>4, <1>5 DEF GoodState, OnlyCurrentRuns, READY, RUNNING
<1>13. \A id \in DOMAIN s.tasks : Awake(s, id) => Awake(w, id)
  BY <1>5 DEF Awake, READY, BLOCKED
<1>14. AllDueLater(w)
  <2>1. ASSUME NEW id \in Range(w.delayQueue) PROVE w.tasks[id].delayUntil > w.tickCount
    <3>1. id \in DOMAIN s.tasks /\ id \notin due /\ id \in Range(s.delayQueue)
      BY <1>1, <1>6 DEF BlockedIn
    <3>2. ~(s.tasks[id].delayUntil <= s.tickCount)
      BY <3>1 DEF Due, due
    <3>3. s.tasks[id].delayUntil \in Int /\ s.tickCount \in Int
      BY <3>1, <1>1 DEF TaskControlBlock, Ticks, GoodState, WellFormed, IsSchedulerState
    <3> QED BY <3>1, <3>2, <3>3, <1>4, <1>5
  <2> QED BY <2>1 DEF AllDueLater
<1> QED BY <1>4, <1>10, <1>11, <1>12, <1>13, <1>14 DEF GoodState, WellFormed, w

\* The typed fields of a good state, in the form the lemmas below use them.
LEMMA GoodStateFields ==
  ASSUME NEW s, GoodState(s)
  PROVE  /\ IsSchedulerState(s)
         /\ s = [tasks |-> s.tasks, readyQueue |-> s.readyQueue,
                 delayQueue |-> s.delayQueue, tickCount |-> s.tickCount,
                 nextTaskId |-> s.nextTaskId, current |-> s.current,
                 running |-> s.running, stack |-> s.stack]
         /\ DOMAIN s.tasks \subseteq TaskIds
         /\ \A id \in DOMAIN s.tasks : /\ s.tasks[id] \in TaskControlBlock
                                       /\ s.tasks[id].priority \in Priorities
         /\ s.readyQueue \in [Priorities -> Seq(TaskIds)]
         /\ \A p \in Priorities : /\ s.readyQueue[p] \in Seq(TaskIds)
                                  /\ IsInjective(s.readyQueue[p])
                                  /\ Range(s.readyQueue[p]) = ReadyIn(s, p)
         /\ s.delayQueue \in Seq(TaskIds)
         /\ IsInjective(s.delayQueue)
         /\ Range(s.delayQueue) = BlockedIn(s)
         /\ s.tickCount \in Ticks
         /\ s.nextTaskId \in TaskIds
         /\ s.current \in TaskIds
         /\ s.running \in BOOLEAN
         /\ s.stack \in Seq(TaskIds)
         /\ IDLE_TASK_ID \in DOMAIN s.tasks
         /\ s.current \in DOMAIN s.tasks
<1>1. IsSchedulerState(s) /\ QueuesMatch(s) /\ {IDLE_TASK_ID, s.current} \subseteq DOMAIN s.tasks
  BY DEF GoodState, WellFormed
<1>2. \A id \in DOMAIN s.tasks : /\ s.tasks[id] \in TaskControlBlock
                                 /\ s.tasks[id].priority \in Priorities
  BY <1>1 DEF IsSchedulerState, TaskControlBlock
<1>3. s = [tasks |-> s.tasks, readyQueue |-> s.readyQueue,
           delayQueue |-> s.delayQueue, tickCount |-> s.tickCount,
           nextTaskId |-> s.nextTaskId, current |-> s.current,
           running |-> s.running, stack |-> s.stack]
  BY <1>1 DEF IsSchedulerState
<1> QED BY <1>1, <1>2, <1>3 DEF IsSchedulerState, QueuesMatch

\* The rotation of pickNextTask only permutes a bucket.
LEMMA RotateGood ==
  ASSUME NEW s, GoodState(s)
  PROVE  /\ GoodState(Rotate(s))
         /\ \E R : Rotate(s) = [tasks |-> s.tasks, readyQueue |-> R,
                      delayQueue |-> s.delayQueue, tickCount |-> s.tickCount,
                      nextTaskId |-> s.nextTaskId, current |-> s.current,
                      running |-> s.running, stack |-> s.stack]
         /\ BucketsKeepOrder(s, Rotate(s), {PickNextTask(s)})
<1>1. CASE NonEmpty(s) = {}
  <2>1. Rotate(s) = s
    BY <1>1 DEF Rotate
  <2>2. BucketsKeepOrder(s, s, {PickNextTask(s)})
    BY GoodStateFields, SameOrder DEF BucketsKeepOrder
  <2> QED BY <2>1, <2>2, GoodStateFields
<1>2. CASE NonEmpty(s) # {}
  <2> DEFINE P == TopPriority(s)
             Q == Append(Tail(s.readyQueue[P]), Head(s.readyQueue[P]))
             R == [s.readyQueue EXCEPT ![P] = Q]
             w == Rotate(s)
  <2>1. P \in Priorities /\ s.readyQueue[P] # << >>
    BY <1>2, TopPriorityExists DEF NonEmpty
  <2>2. w = [s EXCEPT !.readyQueue = R]
    BY <1>2, <2>1, GoodStateFields DEF Rotate
  <2>3. Q \in Seq(TaskIds) /\ IsInjective(Q) /\ Range(Q) = ReadyIn(s, P)
    BY <2>1, GoodStateFields, RotateQueue
  <2>9. KeepsOrder(s.readyQueue[P], Q, {PickNextTask(s)})
    <3>1. PickNextTask(s) = Head(s.readyQueue[P])
      BY <1>2 DEF PickNextTask
    <3> HIDE DEF P
    <3> QED BY <2>1, <3>1, GoodStateFields, RotatingKeepsOrder
  <2> HIDE DEF P, Q
  <2>10. \A p \in Priorities : KeepsOrder(s.readyQueue[p], s.readyQueue[p], {PickNextTask(s)})
    BY GoodStateFields, SameOrder
  <2>11. \A p \in Priorities : KeepsOrder(s.readyQueue[p], R[p], {PickNextTask(s)})
    BY <2>1, <2>9, <2>10, GoodStateFields
  <2>4. /\ R \in [Priorities -> Seq(TaskIds)]
        /\ \A p \in Priorities : IsInjective(R[p]) /\ Range(R[p]) = ReadyIn(s, p)
    BY <2>1, <2>3, GoodStateFields
  <2> HIDE DEF R
  <2>5. w = [tasks |-> s.tasks, readyQueue |-> R,
             delayQueue |-> s.delayQueue, tickCount |-> s.tickCount,
             nextTaskId |-> s.nextTaskId, current |-> s.current,
             running |-> s.running, stack |-> s.stack]
    BY <2>2, GoodStateFields, ZenonT(30)
  <2> HIDE DEF w
  <2>6. WellFormed(w)
    BY <2>4, <2>5 DEF GoodState, WellFormed, IsSchedulerState
  <2>7. QueuesMatch(w)
    BY <2>4, <2>5, GoodStateFields DEF QueuesMatch, ReadyIn, BlockedIn
  <2>8. OnlyCurrentRuns(w) /\ Awake(w, IDLE_TASK_ID)
    BY <2>5 DEF GoodState, OnlyCurrentRuns, Awake
  <2>12. BucketsKeepOrder(s, w, {PickNextTask(s)})
    BY <2>5, <2>11 DEF BucketsKeepOrder
  <2> QED BY <2>5, <2>6, <2>7, <2>8, <2>12 DEF GoodState, w
<1> QED BY <1>1, <1>2

\* pickNextTask returns a task that exists and is not asleep.
LEMMA PickNextTaskGood ==
  ASSUME NEW s, GoodState(s)
  PROVE  /\ PickNextTask(s) \in DOMAIN s.tasks
         /\ Awake(s, PickNextTask(s))
         /\ NonEmpty(s) # {} => PickNextTask(s) \in ReadyIn(s, TopPriority(s))
<1>1. CASE NonEmpty(s) = {}
  BY <1>1, GoodStateFields DEF PickNextTask, GoodState
<1>2. CASE NonEmpty(s) # {}
  <2> DEFINE P == TopPriority(s)
  <2>1. P \in Priorities /\ s.readyQueue[P] # << >>
    BY <1>2, TopPriorityExists DEF NonEmpty
  <2>2. PickNextTask(s) = Head(s.readyQueue[P])
    BY <1>2 DEF PickNextTask
  <2> HIDE DEF P
  <2>3. PickNextTask(s) \in ReadyIn(s, P)
    BY <2>1, <2>2, GoodStateFields, RotateQueue
  <2> QED BY <2>3 DEF ReadyIn, Awake, READY, RUNNING, BLOCKED, P
<1> QED BY <1>1, <1>2

\* The switch moves tasks between READY and RUNNING only.
LEMMA SwitchToFields ==
  ASSUME NEW s, GoodState(s), NEW next \in DOMAIN s.tasks,
         NEW w, w = SwitchTo(s, next)
  PROVE  /\ w = [tasks |-> w.tasks, readyQueue |-> s.readyQueue,
                 delayQueue |-> s.delayQueue, tickCount |-> s.tickCount,
                 nextTaskId |-> s.nextTaskId, current |-> next,
                 running |-> s.running, stack |-> w.stack]
         /\ w.stack \in Seq(TaskIds)
         /\ DOMAIN w.tasks = DOMAIN s.tasks
         /\ w.tasks = [id \in DOMAIN s.tasks |-> w.tasks[id]]
         /\ \A id \in DOMAIN s.tasks :
              /\ w.tasks[id] \in TaskControlBlock
              /\ w.tasks[id].priority = s.tasks[id].priority
              /\ w.tasks[id].delayUntil = s.tasks[id].delayUntil
              /\ w.tasks[id].state \in {READY, RUNNING} <=> s.tasks[id].state \in {READY, RUNNING}
              /\ w.tasks[id].state = BLOCKED <=> s.tasks[id].state = BLOCKED
              /\ w.tasks[id].state = RUNNING => id = next
<1> DEFINE enters == s.tasks[next].state \in {READY, RUNNING}
           demoted == {id \in {s.current} \ {next} : /\ id \in DOMAIN s.tasks
                                                     /\ s.tasks[id].state = RUNNING}
           T == [id \in DOMAIN s.tasks |->
                   IF id \in demoted THEN [s.tasks[id] EXCEPT !.state = READY]
                   ELSE IF id = next /\ enters
                        THEN [s.tasks[id] EXCEPT !.state = RUNNING]
                        ELSE s.tasks[id]]
           K == IF enters THEN Append(s.stack, next) ELSE s.stack
<1>1. w = [s EXCEPT !.tasks = T, !.current = next, !.stack = K]
  BY DEF SwitchTo
<1>2. K \in Seq(TaskIds)
  BY GoodStateFields
<1>3. DOMAIN T = DOMAIN s.tasks
  OBVIOUS
<1>4. ASSUME NEW id \in DOMAIN s.tasks
      PROVE  /\ T[id] \in TaskControlBlock
             /\ T[id].priority = s.tasks[id].priority
             /\ T[id].delayUntil = s.tasks[id].delayUntil
             /\ T[id].state \in {READY, RUNNING} <=> s.tasks[id].state \in {READY, RUNNING}
             /\ T[id].state = BLOCKED <=> s.tasks[id].state = BLOCKED
             /\ T[id].state = RUNNING => id = next
  <2>1. s.tasks[id] \in TaskControlBlock
    BY GoodStateFields
  <2>2. s.tasks[id].state = RUNNING => id = s.current
    BY DEF GoodState, OnlyCurrentRuns
  <2>3. T[id] = IF id \in demoted THEN [s.tasks[id] EXCEPT !.state = READY]
                ELSE IF id = next /\ enters
                     THEN [s.tasks[id] EXCEPT !.state = RUNNING]
                     ELSE s.tasks[id]
    OBVIOUS
  <2> HIDE DEF T
  <2>4. CASE id \in demoted
    BY <2>1, <2>3, <2>4 DEF TaskControlBlock, READY, RUNNING, BLOCKED
  <2>5. CASE id \notin demoted /\ id = next /\ enters
    BY <2>1, <2>3, <2>5 DEF TaskControlBlock, READY, RUNNING, BLOCKED
  <2>6. CASE id \notin demoted /\ ~(id = next /\ enters)
    BY <2>1, <2>2, <2>3, <2>6
  <2> QED BY <2>4, <2>5, <2>6
<1> HIDE DEF T, K
<1>5. w = [tasks |-> T, readyQueue |-> s.readyQueue,
           delayQueue |-> s.delayQueue, tickCount |-> s.tickCount,
           nextTaskId |-> s.nextTaskId, current |-> next,
           running |-> s.running, stack |-> K]
  <2>1. IsSchedulerState(s)
    BY GoodStateFields
  <2> QED BY <1>1, <2>1 DEF IsSchedulerState
<1>6. T = [id \in DOMAIN s.tasks |-> T[id]]
  BY DEF T
<1> QED BY <1>2, <1>3, <1>4, <1>5, <1>6

\* The switch preserves GoodState, and the task it switches to is awake.
LEMMA SwitchToGood ==
  ASSUME NEW s, GoodState(s), NEW next \in DOMAIN s.tasks, Awake(s, next)
  PROVE  /\ GoodState(SwitchTo(s, next))
         /\ AllDueLater(s) => AllDueLater(SwitchTo(s, next))
         /\ SwitchTo(s, next).current = next
         /\ SwitchTo(s, next).nextTaskId = s.nextTaskId
         /\ DOMAIN SwitchTo(s, next).tasks = DOMAIN s.tasks
         /\ Awake(SwitchTo(s, next), next)
<1> DEFINE w == SwitchTo(s, next)
           T == w.tasks
           K == w.stack
<1>0. /\ w = [tasks |-> w.tasks, readyQueue |-> s.readyQueue,
              delayQueue |-> s.delayQueue, tickCount |-> s.tickCount,
              nextTaskId |-> s.nextTaskId, current |-> next,
              running |-> s.running, stack |-> w.stack]
      /\ w.stack \in Seq(TaskIds)
      /\ DOMAIN w.tasks = DOMAIN s.tasks
      /\ w.tasks = [id \in DOMAIN s.tasks |-> w.tasks[id]]
      /\ \A id \in DOMAIN s.tasks :
           /\ w.tasks[id] \in TaskControlBlock
           /\ w.tasks[id].priority = s.tasks[id].priority
           /\ w.tasks[id].delayUntil = s.tasks[id].delayUntil
           /\ w.tasks[id].state \in {READY, RUNNING} <=> s.tasks[id].state \in {READY, RUNNING}
           /\ w.tasks[id].state = BLOCKED <=> s.tasks[id].state = BLOCKED
           /\ w.tasks[id].state = RUNNING => id = next
  BY SwitchToFields
<1> HIDE DEF w
<1>2. K \in Seq(TaskIds)
  BY <1>0
<1>3. DOMAIN T = DOMAIN s.tasks
  BY <1>0
<1>4. \A id \in DOMAIN s.tasks :
           /\ T[id] \in TaskControlBlock
           /\ T[id].priority = s.tasks[id].priority
           /\ T[id].delayUntil = s.tasks[id].delayUntil
           /\ T[id].state \in {READY, RUNNING} <=> s.tasks[id].state \in {READY, RUNNING}
           /\ T[id].state = BLOCKED <=> s.tasks[id].state = BLOCKED
           /\ T[id].state = RUNNING => id = next
  BY <1>0
<1>5. w = [tasks |-> T, readyQueue |-> s.readyQueue,
           delayQueue |-> s.delayQueue, tickCount |-> s.tickCount,
           nextTaskId |-> s.nextTaskId, current |-> next,
           running |-> s.running, stack |-> K]
  BY <1>0
<1>1. T = [id \in DOMAIN s.tasks |-> T[id]]
  BY <1>0
<1> HIDE DEF T, K
<1>6. T \in [DOMAIN T -> TaskControlBlock]
  BY <1>1, <1>3, <1>4
<1>7. WellFormed(w)
  BY <1>2, <1>3, <1>5, <1>6, GoodStateFields DEF WellFormed, IsSchedulerState
<1>8. BlockedIn(w) = BlockedIn(s) /\ \A p \in Priorities : ReadyIn(w, p) = ReadyIn(s, p)
  BY <1>3, <1>4, <1>5 DEF BlockedIn, ReadyIn
<1>9. QueuesMatch(w)
  BY <1>5, <1>8, GoodStateFields DEF QueuesMatch
<1>10. OnlyCurrentRuns(w)
  BY <1>3, <1>4, <1>5 DEF OnlyCurrentRuns
<1>11. Awake(w, IDLE_TASK_ID) /\ Awake(w, next)
  BY <1>4, <1>5, GoodStateFields DEF GoodState, Awake
<1>12. AllDueLater(s) => AllDueLater(w)
  BY <1>4, <1>5, GoodStateFields DEF AllDueLater, BlockedIn
<1> QED BY <1>3, <1>5, <1>7, <1>9, <1>10, <1>11, <1>12 DEF GoodState, w

\* schedule() turns a good state into a settled one.
LEMMA ScheduleSettles ==
  ASSUME NEW s, GoodState(s), s.running \/ (AllDueLater(s) /\ Awake(s, s.current))
  PROVE  /\ Settled(Schedule(s))
         /\ Schedule(s).nextTaskId = s.nextTaskId
         /\ DOMAIN Schedule(s).tasks = DOMAIN s.tasks
<1>1. CASE ~s.running
  BY <1>1 DEF Schedule, Settled
<1>2. CASE s.running
  <2> DEFINE w == ProcessDelayQueue(s)
             n == PickNextTask(w)
             r == Rotate(w)
  <2>1. Schedule(s) = SwitchTo(r, n)
    BY <1>2 DEF Schedule
  <2>2. /\ GoodState(w) /\ AllDueLater(w)
        /\ w.nextTaskId = s.nextTaskId /\ DOMAIN w.tasks = DOMAIN s.tasks
    BY ProcessDelayQueueGood
  <2> HIDE DEF w
  <2>3. n \in DOMAIN w.tasks /\ Awake(w, n)
    BY <2>2, PickNextTaskGood
  <2>4. /\ GoodState(r) /\ r.tasks = w.tasks /\ r.delayQueue = w.delayQueue
        /\ r.tickCount = w.tickCount /\ r.nextTaskId = w.nextTaskId
    <3>1. /\ GoodState(r)
          /\ \E R : r = [tasks |-> w.tasks, readyQueue |-> R,
                        delayQueue |-> w.delayQueue, tickCount |-> w.tickCount,
                        nextTaskId |-> w.nextTaskId, current |-> w.current,
                        running |-> w.running, stack |-> w.stack]
      BY <2>2, RotateGood
    <3> HIDE DEF r
    <3> QED BY <3>1
  <2> HIDE DEF n, r
  <2>5. n \in DOMAIN r.tasks /\ Awake(r, n) /\ AllDueLater(r)
    BY <2>2, <2>3, <2>4 DEF Awake, AllDueLater
  <2> QED BY <2>1, <2>2, <2>4, <2>5, SwitchToGood DEF Settled
<1> QED BY <1>1, <1>2

\* Waking the sleepers puts them behind everyone and wakes nobody suspended.
LEMMA WakingKeepsOrder ==
  ASSUME NEW s, GoodState(s), NEW w, w = ProcessDelayQueue(s)
  PROVE  BucketsKeepOrder(s, w, {}) /\ StaySuspended(s, w, {}) /\ w.stack = s.stack
<1>1. /\ IsSchedulerState(s) /\ s.delayQueue \in Seq(TaskIds) /\ IsInjective(s.delayQueue)
      /\ Range(s.delayQueue) = BlockedIn(s)
      /\ \A p \in Priorities : s.readyQueue[p] \in Seq(TaskIds) /\ IsInjective(s.readyQueue[p])
  BY GoodStateFields
<1>2. /\ w.readyQueue = [p \in Priorities |->
                           s.readyQueue[p] \o FilterSeq(s.delayQueue, Woken(s, p))]
      /\ w.tasks = [id \in DOMAIN s.tasks |->
                      IF id \in Due(s) THEN [s.tasks[id] EXCEPT !.state = READY]
                                       ELSE s.tasks[id]]
      /\ w.stack = s.stack
  BY <1>1, ProcessDelayQueueFields, ZenonT(30)
<1>3. ASSUME NEW p \in Priorities PROVE KeepsOrder(s.readyQueue[p], w.readyQueue[p], {})
  <2> DEFINE f == FilterSeq(s.delayQueue, Woken(s, p))
  <2>1. f \in Seq(TaskIds)
    BY <1>1, FilterSeqOnce
  <2>2. w.readyQueue[p] = s.readyQueue[p] \o f
    BY <1>2
  <2> HIDE DEF f
  <2> QED BY <1>1, <2>1, <2>2, JoiningKeepsOrder
<1>4. ASSUME NEW t \in DOMAIN s.tasks, s.tasks[t].state = SUSPENDED
      PROVE  w.tasks[t].state = SUSPENDED
  <2>1. t \notin Due(s)
    BY <1>1, <1>4 DEF Due, BlockedIn, BLOCKED, SUSPENDED
  <2> QED BY <1>2, <1>4, <2>1
<1> QED BY <1>2, <1>3, <1>4 DEF BucketsKeepOrder, StaySuspended

\* schedule() moves only the task it dispatches, and dispatches one of the
\* largest priority among the tasks that are then ready.
LEMMA ScheduleDispatches ==
  ASSUME NEW s, GoodState(s), NEW x, x = Schedule(s)
  PROVE  /\ BucketsKeepOrder(s, x, {x.current})
         /\ StaySuspended(s, x, {})
         /\ DOMAIN x.tasks = DOMAIN s.tasks
         /\ s.running => \A id \in DOMAIN x.tasks :
                           x.tasks[id].state \in {READY, RUNNING} =>
                             x.tasks[id].priority <= x.tasks[x.current].priority
<1>1. CASE ~s.running
  <2>1. x = s
    BY <1>1 DEF Schedule
  <2>2. BucketsKeepOrder(s, s, {s.current})
    BY GoodStateFields, SameOrder DEF BucketsKeepOrder
  <2> QED BY <1>1, <2>1, <2>2 DEF StaySuspended
<1>2. CASE s.running
  <2> DEFINE w == ProcessDelayQueue(s)
             n == PickNextTask(w)
             r == Rotate(w)
  <2>1. x = SwitchTo(r, n)
    BY <1>2 DEF Schedule
  <2>2. GoodState(w) /\ DOMAIN w.tasks = DOMAIN s.tasks
    BY ProcessDelayQueueGood
  <2>3. BucketsKeepOrder(s, w, {}) /\ StaySuspended(s, w, {})
    BY WakingKeepsOrder
  <2> HIDE DEF w
  <2>4. n \in DOMAIN w.tasks /\ (NonEmpty(w) # {} => n \in ReadyIn(w, TopPriority(w)))
    BY <2>2, PickNextTaskGood
  <2>5. GoodState(r) /\ r.tasks = w.tasks /\ BucketsKeepOrder(w, r, {n})
    <3>1. /\ GoodState(r) /\ BucketsKeepOrder(w, r, {n})
          /\ \E R : r = [tasks |-> w.tasks, readyQueue |-> R,
                        delayQueue |-> w.delayQueue, tickCount |-> w.tickCount,
                        nextTaskId |-> w.nextTaskId, current |-> w.current,
                        running |-> w.running, stack |-> w.stack]
      BY <2>2, RotateGood
    <3> HIDE DEF r, n
    <3> QED BY <3>1
  <2> HIDE DEF n, r
  <2>6. /\ x.readyQueue = r.readyQueue /\ x.current = n
        /\ DOMAIN x.tasks = DOMAIN r.tasks
        /\ \A id \in DOMAIN r.tasks :
             /\ x.tasks[id] \in TaskControlBlock
             /\ x.tasks[id].priority = r.tasks[id].priority
             /\ x.tasks[id].state \in {READY, RUNNING} <=> r.tasks[id].state \in {READY, RUNNING}
             /\ x.tasks[id].state = BLOCKED <=> r.tasks[id].state = BLOCKED
    <3>1. n \in DOMAIN r.tasks
      BY <2>4, <2>5
    <3> DEFINE y == SwitchTo(r, n)
    <3>2. /\ y = [tasks |-> y.tasks, readyQueue |-> r.readyQueue,
                  delayQueue |-> r.delayQueue, tickCount |-> r.tickCount,
                  nextTaskId |-> r.nextTaskId, current |-> n,
                  running |-> r.running, stack |-> y.stack]
          /\ y.stack \in Seq(TaskIds)
          /\ DOMAIN y.tasks = DOMAIN r.tasks
          /\ y.tasks = [id \in DOMAIN r.tasks |-> y.tasks[id]]
          /\ \A id \in DOMAIN r.tasks :
               /\ y.tasks[id] \in TaskControlBlock
               /\ y.tasks[id].priority = r.tasks[id].priority
               /\ y.tasks[id].delayUntil = r.tasks[id].delayUntil
               /\ y.tasks[id].state \in {READY, RUNNING} <=> r.tasks[id].state \in {READY, RUNNING}
               /\ y.tasks[id].state = BLOCKED <=> r.tasks[id].state = BLOCKED
               /\ y.tasks[id].state = RUNNING => id = n
      <4>1. GoodState(r) /\ n \in DOMAIN r.tasks
        BY <2>5, <3>1
      <4> QED BY <4>1, SwitchToFields
    <3> HIDE DEF y
    <3>3. y.readyQueue = r.readyQueue /\ y.current = n
      BY ONLY <3>2
    <3>4. x = y
      BY <2>1 DEF y
    <3> QED BY ONLY <3>2, <3>3, <3>4
  <2>7. BucketsKeepOrder(s, x, {n})
    <3>1. ASSUME NEW p \in Priorities PROVE KeepsOrder(s.readyQueue[p], r.readyQueue[p], {n})
      <4>1. w.readyQueue[p] \in Seq(TaskIds) /\ IsInjective(w.readyQueue[p])
        BY <2>2, GoodStateFields
      <4>2. /\ KeepsOrder(s.readyQueue[p], w.readyQueue[p], {})
            /\ KeepsOrder(w.readyQueue[p], r.readyQueue[p], {n})
        BY <2>3, <2>5 DEF BucketsKeepOrder
      <4>3. KeepsOrder(s.readyQueue[p], r.readyQueue[p], {} \cup {n})
        BY ONLY <4>1, <4>2, OrderComposes
      <4> QED BY <4>3, OrderWeakens
    <3> QED BY <2>6, <3>1 DEF BucketsKeepOrder
  <2>8. StaySuspended(s, x, {})
    <3>1. ASSUME NEW id \in DOMAIN r.tasks, r.tasks[id].state = SUSPENDED
          PROVE  x.tasks[id].state = SUSPENDED
      BY <2>6, <3>1 DEF TaskControlBlock, READY, RUNNING, BLOCKED, SUSPENDED
    <3> QED BY <2>2, <2>3, <2>5, <2>6, <3>1 DEF StaySuspended
  <2>9. ASSUME NEW id \in DOMAIN x.tasks, x.tasks[id].state \in {READY, RUNNING}
        PROVE  x.tasks[id].priority <= x.tasks[x.current].priority
    <3> DEFINE p == w.tasks[id].priority
    <3>1. id \in ReadyIn(w, p) /\ p \in Priorities
      BY <2>2, <2>5, <2>6, <2>9, GoodStateFields DEF ReadyIn
    <3>2. w.readyQueue[p] # << >>
      <4>1. id \in Range(w.readyQueue[p])
        BY <2>2, <3>1, GoodStateFields
      <4> HIDE DEF p
      <4> QED BY <4>1 DEF Range
    <3>3. p \in NonEmpty(w)
      BY <3>1, <3>2 DEF NonEmpty
    <3> HIDE DEF p
    <3>4. p <= TopPriority(w)
      BY <3>3, TopPriorityExists
    <3>5. w.tasks[n].priority = TopPriority(w)
      BY <2>4, <3>3 DEF ReadyIn
    <3> QED BY <2>4, <2>5, <2>6, <2>9, <3>4, <3>5 DEF p
  <2> QED BY <2>2, <2>5, <2>6, <2>7, <2>8, <2>9
<1> QED BY <1>1, <1>2

-----------------------------------------------------------------------------
(***************************************************************************)
(* The queue operations on a state whose tasks map was just changed and    *)
(* whose queues do not match it yet.                                       *)
(***************************************************************************)
NoDuplicates(s) == /\ IsSchedulerState(s)
                   /\ \A p \in Priorities : IsInjective(s.readyQueue[p])
                   /\ IsInjective(s.delayQueue)

WithQueues(s, R, D) == [tasks |-> s.tasks, readyQueue |-> R,
                        delayQueue |-> D, tickCount |-> s.tickCount,
                        nextTaskId |-> s.nextTaskId, current |-> s.current,
                        running |-> s.running, stack |-> s.stack]

\* The share of task id in bucket p.
Slot(s, id, p) == IF p = s.tasks[id].priority THEN {id} ELSE {}

\* R are the ready buckets of s with task id added, or removed, and every
\* other task in its place.
ReadyPlus(s, id, R) ==
  /\ R \in [Priorities -> Seq(TaskIds)]
  /\ \A p \in Priorities : /\ IsInjective(R[p])
                           /\ Range(R[p]) = Range(s.readyQueue[p]) \cup Slot(s, id, p)
                           /\ KeepsOrder(s.readyQueue[p], R[p], {id})
ReadyMinus(s, id, R) ==
  /\ R \in [Priorities -> Seq(TaskIds)]
  /\ \A p \in Priorities : /\ IsInjective(R[p])
                           /\ Range(R[p]) = Range(s.readyQueue[p]) \ Slot(s, id, p)
                           /\ KeepsOrder(s.readyQueue[p], R[p], {id})

\* D is the delay queue of s with task id removed.
DelayMinus(s, id, D) == /\ D \in Seq(TaskIds)
                        /\ IsInjective(D)
                        /\ Range(D) = Range(s.delayQueue) \ {id}

\* A record whose fields are well typed is a scheduler state.
LEMMA MakeState ==
  ASSUME NEW T, DOMAIN T \subseteq TaskIds, T \in [DOMAIN T -> TaskControlBlock],
         NEW R \in [Priorities -> Seq(TaskIds)], NEW D \in Seq(TaskIds),
         NEW t \in Ticks, NEW n \in TaskIds, NEW c \in TaskIds,
         NEW r \in BOOLEAN, NEW k \in Seq(TaskIds)
  PROVE  IsSchedulerState([tasks |-> T, readyQueue |-> R, delayQueue |-> D, tickCount |-> t,
                           nextTaskId |-> n, current |-> c, running |-> r, stack |-> k])
BY DEF IsSchedulerState

\* Replacing the ready queue of a scheduler state, as a record.
LEMMA ReadyQueueUpdate ==
  ASSUME NEW s, IsSchedulerState(s), NEW R
  PROVE  [s EXCEPT !.readyQueue = R] = WithQueues(s, R, s.delayQueue)
<1> DEFINE w == [s EXCEPT !.readyQueue = R]
<1>1. w = [s EXCEPT !.readyQueue = R]
  OBVIOUS
<1> HIDE DEF w
<1>2. w = WithQueues(s, R, s.delayQueue)
  BY <1>1 DEF IsSchedulerState, WithQueues
<1> QED BY <1>1, <1>2

\* addToReadyQueue: the task is in its own bucket afterwards, once, and nothing
\* else moved.
LEMMA AddToReadyQueueFields ==
  ASSUME NEW s, NoDuplicates(s), NEW id, id \in DOMAIN s.tasks
  PROVE  \E R : /\ AddToReadyQueue(s, id) = WithQueues(s, R, s.delayQueue)
                /\ ReadyPlus(s, id, R)
<1> DEFINE P == s.tasks[id].priority
           q == s.readyQueue[P]
<1>1. /\ IsSchedulerState(s) /\ P \in Priorities /\ id \in TaskIds
      /\ s.readyQueue \in [Priorities -> Seq(TaskIds)]
      /\ q \in Seq(TaskIds) /\ IsInjective(q)
  BY DEF NoDuplicates, IsSchedulerState, TaskControlBlock
<1>5. \A p \in Priorities : KeepsOrder(s.readyQueue[p], s.readyQueue[p], {id})
  BY <1>1, SameOrder DEF NoDuplicates
<1>2. Contains(q, id) <=> id \in Range(q)
  BY <1>1, QueueByIndex DEF Contains
<1>3. CASE id \in Range(q)
  <2>1. AddToReadyQueue(s, id) = s
    BY <1>2, <1>3 DEF AddToReadyQueue
  <2>2. s = WithQueues(s, s.readyQueue, s.delayQueue)
    BY <1>1 DEF IsSchedulerState, WithQueues
  <2>3. ReadyPlus(s, id, s.readyQueue)
    BY <1>1, <1>3, <1>5 DEF NoDuplicates, ReadyPlus, Slot
  <2> QED BY <2>1, <2>2, <2>3
<1>4. CASE id \notin Range(q)
  <2> DEFINE R == [s.readyQueue EXCEPT ![P] = Append(q, id)]
  <2>1. /\ Append(q, id) \in Seq(TaskIds)
        /\ IsInjective(Append(q, id))
        /\ Range(Append(q, id)) = Range(q) \cup {id}
    BY <1>1, <1>4, AppendFresh
  <2>2. AddToReadyQueue(s, id) = [s EXCEPT !.readyQueue = R]
    BY <1>1, <1>2, <1>4 DEF AddToReadyQueue, IsSchedulerState
  <2>3. /\ R \in [Priorities -> Seq(TaskIds)]
        /\ R[P] = Append(q, id)
        /\ \A p \in Priorities : p # P => R[p] = s.readyQueue[p]
    <3> HIDE DEF q, P
    <3> QED BY <1>1, <2>1
  <2> HIDE DEF R
  <2>4. [s EXCEPT !.readyQueue = R] = WithQueues(s, R, s.delayQueue)
    BY <1>1, ReadyQueueUpdate
  <2>7. KeepsOrder(q, R[P], {id})
    <3>1. KeepsOrder(q, Append(q, id), {})
      <4> HIDE DEF q, P
      <4> QED BY <1>1, AppendingKeepsOrder
    <3> QED BY <3>1, <2>3, OrderWeakens, SMTT(30)
  <2>5. ASSUME NEW p \in Priorities
        PROVE  /\ IsInjective(R[p])
               /\ Range(R[p]) = Range(s.readyQueue[p]) \cup (IF p = P THEN {id} ELSE {})
               /\ KeepsOrder(s.readyQueue[p], R[p], {id})
    <3>1. CASE p = P
      BY <2>1, <2>3, <2>7, <3>1
    <3>2. CASE p # P
      <4> HIDE DEF P
      <4> QED BY <1>5, <2>3, <3>2 DEF NoDuplicates
    <3> QED BY <3>1, <3>2
  <2>6. ReadyPlus(s, id, R)
    BY <2>3, <2>5 DEF ReadyPlus, Slot
  <2> QED BY <2>2, <2>4, <2>6
<1> QED BY <1>3, <1>4

\* removeFromReadyQueue: the task is gone from its own bucket, and nothing else
\* moved.
LEMMA RemoveFromReadyQueueFields ==
  ASSUME NEW s, NoDuplicates(s), NEW id, id \in DOMAIN s.tasks
  PROVE  \E R : /\ RemoveFromReadyQueue(s, id) = WithQueues(s, R, s.delayQueue)
                /\ ReadyMinus(s, id, R)
<1> DEFINE P == s.tasks[id].priority
           q == s.readyQueue[P]
           R == [s.readyQueue EXCEPT ![P] = RemoveFirst(q, id)]
<1>1. /\ IsSchedulerState(s) /\ P \in Priorities
      /\ s.readyQueue \in [Priorities -> Seq(TaskIds)]
      /\ q \in Seq(TaskIds) /\ IsInjective(q)
  BY DEF NoDuplicates, IsSchedulerState, TaskControlBlock
<1>2. /\ RemoveFirst(q, id) \in Seq(TaskIds)
      /\ IsInjective(RemoveFirst(q, id))
      /\ Range(RemoveFirst(q, id)) = Range(q) \ {id}
  BY <1>1, RemoveFirstOnce
<1>3. RemoveFromReadyQueue(s, id) = [s EXCEPT !.readyQueue = R]
  BY <1>1 DEF RemoveFromReadyQueue, IsSchedulerState
<1>4. /\ R \in [Priorities -> Seq(TaskIds)]
      /\ R[P] = RemoveFirst(q, id)
      /\ \A p \in Priorities : p # P => R[p] = s.readyQueue[p]
  <2> HIDE DEF q, P
  <2> QED BY <1>1, <1>2
<1> HIDE DEF R
<1>5. [s EXCEPT !.readyQueue = R] = WithQueues(s, R, s.delayQueue)
  BY <1>1, ReadyQueueUpdate
<1>6. ASSUME NEW p \in Priorities
      PROVE  /\ IsInjective(R[p])
             /\ Range(R[p]) = Range(s.readyQueue[p]) \ (IF p = P THEN {id} ELSE {})
             /\ KeepsOrder(s.readyQueue[p], R[p], {id})
  <2>1. CASE p = P
    <3>1. KeepsOrder(q, RemoveFirst(q, id), {id})
      BY <1>1, RemovingKeepsOrder
    <3> QED BY <1>2, <1>4, <2>1, <3>1
  <2>2. CASE p # P
    <3>1. KeepsOrder(s.readyQueue[p], s.readyQueue[p], {id})
      BY <1>1, SameOrder DEF NoDuplicates
    <3> HIDE DEF P
    <3> QED BY <1>4, <2>2, <3>1 DEF NoDuplicates
  <2> QED BY <2>1, <2>2
<1>7. ReadyMinus(s, id, R)
  BY <1>4, <1>6 DEF ReadyMinus, Slot
<1> QED BY <1>3, <1>5, <1>7

\* deleteTask and suspendTask take the task out of both queues.
LEMMA UnqueueFields ==
  ASSUME NEW s, NoDuplicates(s), NEW id, id \in DOMAIN s.tasks
  PROVE  \E R, D : /\ Unqueue(s, id) = WithQueues(s, R, D)
                   /\ ReadyMinus(s, id, R)
                   /\ DelayMinus(s, id, D)
<1>1. PICK R : /\ RemoveFromReadyQueue(s, id) = WithQueues(s, R, s.delayQueue)
               /\ ReadyMinus(s, id, R)
  BY RemoveFromReadyQueueFields
<1> DEFINE D == RemoveFirst(s.delayQueue, id)
<1>2. s.delayQueue \in Seq(TaskIds) /\ IsInjective(s.delayQueue)
  BY DEF NoDuplicates, IsSchedulerState
<1>3. DelayMinus(s, id, D)
  BY <1>2, RemoveFirstOnce DEF DelayMinus
<1>4. Unqueue(s, id) = [WithQueues(s, R, s.delayQueue) EXCEPT !.delayQueue = D]
  BY <1>1 DEF Unqueue, WithQueues
<1> HIDE DEF D
<1>5. [WithQueues(s, R, s.delayQueue) EXCEPT !.delayQueue = D] = WithQueues(s, R, D)
  BY DEF WithQueues
<1> QED BY <1>1, <1>3, <1>4, <1>5

\* Changing the state (and the wake-up time) of one task.
LEMMA SetStateFields ==
  ASSUME NEW s, GoodState(s), NEW id \in DOMAIN s.tasks,
         NEW x \in {READY, BLOCKED, SUSPENDED},
         NEW u, u = [s EXCEPT !.tasks[id].state = x]
  PROVE  /\ NoDuplicates(u)
         /\ \E T : u = [tasks |-> T, readyQueue |-> s.readyQueue,
                        delayQueue |-> s.delayQueue, tickCount |-> s.tickCount,
                        nextTaskId |-> s.nextTaskId, current |-> s.current,
                        running |-> s.running, stack |-> s.stack]
         /\ DOMAIN u.tasks = DOMAIN s.tasks
         /\ \A t \in DOMAIN s.tasks :
              /\ u.tasks[t] \in TaskControlBlock
              /\ u.tasks[t].priority = s.tasks[t].priority
              /\ u.tasks[t].delayUntil = s.tasks[t].delayUntil
              /\ u.tasks[t].state = IF t = id THEN x ELSE s.tasks[t].state
<1> DEFINE T == [s.tasks EXCEPT ![id].state = x]
<1>1. IsSchedulerState(s)
  BY GoodStateFields
<1>2. u = [s EXCEPT !.tasks = T]
  BY <1>1 DEF IsSchedulerState
<1>3. /\ DOMAIN T = DOMAIN s.tasks
      /\ \A t \in DOMAIN s.tasks :
              /\ T[t] \in TaskControlBlock
              /\ T[t].priority = s.tasks[t].priority
              /\ T[t].delayUntil = s.tasks[t].delayUntil
              /\ T[t].state = IF t = id THEN x ELSE s.tasks[t].state
  BY <1>1 DEF IsSchedulerState, TaskControlBlock
<1>4. T \in [DOMAIN T -> TaskControlBlock]
  BY <1>3
<1> HIDE DEF T
<1>5. u = [tasks |-> T, readyQueue |-> s.readyQueue,
           delayQueue |-> s.delayQueue, tickCount |-> s.tickCount,
           nextTaskId |-> s.nextTaskId, current |-> s.current,
           running |-> s.running, stack |-> s.stack]
  BY <1>1, <1>2 DEF IsSchedulerState
<1>6. IsSchedulerState(u)
  <2>1. DOMAIN T \subseteq TaskIds
    BY <1>3, GoodStateFields
  <2>2. /\ s.readyQueue \in [Priorities -> Seq(TaskIds)] /\ s.delayQueue \in Seq(TaskIds)
        /\ s.tickCount \in Ticks /\ s.nextTaskId \in TaskIds /\ s.current \in TaskIds
        /\ s.running \in BOOLEAN /\ s.stack \in Seq(TaskIds)
    BY GoodStateFields
  <2>3. IsSchedulerState([tasks |-> T, readyQueue |-> s.readyQueue,
                          delayQueue |-> s.delayQueue, tickCount |-> s.tickCount,
                          nextTaskId |-> s.nextTaskId, current |-> s.current,
                          running |-> s.running, stack |-> s.stack])
    BY ONLY <1>4, <2>1, <2>2, MakeState
  <2> QED BY ONLY <1>5, <2>3
<1>7. NoDuplicates(u)
  BY <1>5, <1>6, GoodStateFields DEF NoDuplicates
<1>8. u.tasks = T
  BY <1>5
<1> QED BY <1>3, <1>5, <1>7, <1>8

\* The state with other queues, if it is to be good, needs only its queues checked.
LEMMA WithQueuesGood ==
  ASSUME NEW u, NoDuplicates(u), {IDLE_TASK_ID, u.current} \subseteq DOMAIN u.tasks,
         OnlyCurrentRuns(u), Awake(u, IDLE_TASK_ID),
         NEW R \in [Priorities -> Seq(TaskIds)], NEW D \in Seq(TaskIds),
         \A p \in Priorities : IsInjective(R[p]) /\ Range(R[p]) = ReadyIn(u, p),
         IsInjective(D), Range(D) = BlockedIn(u)
  PROVE  GoodState(WithQueues(u, R, D))
<1> DEFINE w == WithQueues(u, R, D)
<1>1. /\ w.tasks = u.tasks /\ w.readyQueue = R /\ w.delayQueue = D /\ w.current = u.current
      /\ w.tickCount = u.tickCount
  BY DEF WithQueues
<1>2. /\ DOMAIN u.tasks \subseteq TaskIds /\ u.tasks \in [DOMAIN u.tasks -> TaskControlBlock]
      /\ u.tickCount \in Ticks /\ u.nextTaskId \in TaskIds /\ u.current \in TaskIds
      /\ u.running \in BOOLEAN /\ u.stack \in Seq(TaskIds)
  BY DEF NoDuplicates, IsSchedulerState
<1>3. IsSchedulerState(w)
  BY <1>2, MakeState DEF WithQueues
<1> HIDE DEF w
<1>4. BlockedIn(w) = BlockedIn(u) /\ \A p \in Priorities : ReadyIn(w, p) = ReadyIn(u, p)
  BY <1>1 DEF BlockedIn, ReadyIn
<1>5. WellFormed(w) /\ QueuesMatch(w)
  BY <1>1, <1>3, <1>4 DEF WellFormed, QueuesMatch
<1>6. OnlyCurrentRuns(w) /\ Awake(w, IDLE_TASK_ID)
  BY <1>1 DEF OnlyCurrentRuns, Awake
<1> QED BY <1>5, <1>6 DEF GoodState, w

\* What suspendTask hands to schedule().
LEMMA SuspendGood ==
  ASSUME NEW s, Settled(s), NEW id \in DOMAIN s.tasks,
         NEW w, w = Unqueue([s EXCEPT !.tasks[id].state = SUSPENDED], id)
  PROVE  /\ Settled(w)
         /\ w.nextTaskId = s.nextTaskId
         /\ DOMAIN w.tasks = DOMAIN s.tasks
         /\ w.stack = s.stack
         /\ w.tasks[id].state = SUSPENDED
         /\ BucketsKeepOrder(s, w, {id}) /\ StaySuspended(s, w, {})
<1> DEFINE u == [s EXCEPT !.tasks[id].state = SUSPENDED]
<1>1. GoodState(s) /\ AllDueLater(s) /\ Awake(s, s.current)
  BY DEF Settled
<1>2. /\ NoDuplicates(u)
      /\ u.readyQueue = s.readyQueue /\ u.delayQueue = s.delayQueue
      /\ u.tickCount = s.tickCount /\ u.nextTaskId = s.nextTaskId /\ u.current = s.current
      /\ u.stack = s.stack
      /\ DOMAIN u.tasks = DOMAIN s.tasks
      /\ \A t \in DOMAIN s.tasks :
           /\ u.tasks[t].priority = s.tasks[t].priority
           /\ u.tasks[t].delayUntil = s.tasks[t].delayUntil
           /\ u.tasks[t].state = IF t = id THEN SUSPENDED ELSE s.tasks[t].state
  BY <1>1, SetStateFields
<1>3. w = Unqueue(u, id)
  OBVIOUS
<1> HIDE DEF u
<1>4. PICK R, D : w = WithQueues(u, R, D) /\ ReadyMinus(u, id, R) /\ DelayMinus(u, id, D)
  <2>1. NoDuplicates(u) /\ id \in DOMAIN u.tasks
    BY <1>2
  <2> QED BY ONLY <2>1, <1>3, UnqueueFields
<1>5. BlockedIn(u) = BlockedIn(s) \ {id}
  BY <1>2 DEF BlockedIn, SUSPENDED, BLOCKED
<1>6. \A p \in Priorities : ReadyIn(u, p) = ReadyIn(s, p) \ Slot(u, id, p)
  BY <1>2 DEF ReadyIn, Slot, SUSPENDED, READY, RUNNING
<1>7. /\ D \in Seq(TaskIds) /\ IsInjective(D) /\ Range(D) = BlockedIn(u)
      /\ R \in [Priorities -> Seq(TaskIds)]
      /\ \A p \in Priorities : IsInjective(R[p]) /\ Range(R[p]) = ReadyIn(u, p)
  <2>1. /\ Range(s.delayQueue) = BlockedIn(s)
        /\ \A p \in Priorities : Range(s.readyQueue[p]) = ReadyIn(s, p)
    BY <1>1, GoodStateFields
  <2> QED BY <1>2, <1>4, <1>5, <1>6, <2>1 DEF ReadyMinus, DelayMinus
<1>8. OnlyCurrentRuns(u) /\ \A t \in DOMAIN s.tasks : Awake(s, t) => Awake(u, t)
  BY <1>1, <1>2 DEF GoodState, OnlyCurrentRuns, Awake, SUSPENDED, RUNNING, BLOCKED
<1>9. GoodState(w)
  <2>1. /\ IDLE_TASK_ID \in DOMAIN s.tasks /\ s.current \in DOMAIN s.tasks
        /\ Awake(s, IDLE_TASK_ID)
    BY <1>1, GoodStateFields DEF GoodState
  <2>2. /\ NoDuplicates(u) /\ {IDLE_TASK_ID, u.current} \subseteq DOMAIN u.tasks
        /\ OnlyCurrentRuns(u) /\ Awake(u, IDLE_TASK_ID)
    BY <2>1, <1>2, <1>8
  <2>3. GoodState(WithQueues(u, R, D))
    BY ONLY <2>2, <1>7, WithQueuesGood
  <2> QED BY <2>3, <1>4
<1>10. /\ w.tasks = u.tasks /\ w.delayQueue = D /\ w.tickCount = u.tickCount
       /\ w.current = u.current /\ w.nextTaskId = u.nextTaskId
  BY <1>4 DEF WithQueues
<1>11. AllDueLater(w)
  BY <1>1, <1>2, <1>4, <1>10, GoodStateFields DEF AllDueLater, BlockedIn, DelayMinus
<1>12. Awake(w, w.current)
  BY <1>1, <1>2, <1>8, <1>10, GoodStateFields DEF Awake
<1>13. w.readyQueue = R /\ w.stack = u.stack
  BY <1>4 DEF WithQueues
<1>14. BucketsKeepOrder(s, w, {id})
  BY <1>2, <1>4, <1>13 DEF BucketsKeepOrder, ReadyMinus
<1>15. w.tasks[id].state = SUSPENDED /\ StaySuspended(s, w, {})
  BY <1>2, <1>10 DEF StaySuspended
<1> QED BY <1>2, <1>9, <1>10, <1>11, <1>12, <1>13, <1>14, <1>15 DEF Settled

\* What resumeTask leaves, and the first half of yield(): a task that is not
\* in the delay queue becomes READY and is in its bucket.
LEMMA MakeReadyGood ==
  ASSUME NEW s, GoodState(s), NEW id \in DOMAIN s.tasks, Awake(s, id),
         NEW w, w = AddToReadyQueue([s EXCEPT !.tasks[id].state = READY], id)
  PROVE  /\ GoodState(w)
         /\ AllDueLater(s) => AllDueLater(w)
         /\ Awake(s, s.current) => Awake(w, w.current)
         /\ w.nextTaskId = s.nextTaskId
         /\ DOMAIN w.tasks = DOMAIN s.tasks
         /\ w.stack = s.stack
         /\ BucketsKeepOrder(s, w, {id}) /\ StaySuspended(s, w, {id})
<1> DEFINE u == [s EXCEPT !.tasks[id].state = READY]
<1>2. /\ NoDuplicates(u)
      /\ u.readyQueue = s.readyQueue /\ u.delayQueue = s.delayQueue
      /\ u.tickCount = s.tickCount /\ u.nextTaskId = s.nextTaskId /\ u.current = s.current
      /\ u.stack = s.stack
      /\ DOMAIN u.tasks = DOMAIN s.tasks
      /\ \A t \in DOMAIN s.tasks :
           /\ u.tasks[t].priority = s.tasks[t].priority
           /\ u.tasks[t].delayUntil = s.tasks[t].delayUntil
           /\ u.tasks[t].state = IF t = id THEN READY ELSE s.tasks[t].state
  BY SetStateFields
<1>3. w = AddToReadyQueue(u, id)
  OBVIOUS
<1> HIDE DEF u
<1>4. PICK R : w = WithQueues(u, R, u.delayQueue) /\ ReadyPlus(u, id, R)
  <2>1. NoDuplicates(u) /\ id \in DOMAIN u.tasks
    BY <1>2
  <2> QED BY ONLY <2>1, <1>3, AddToReadyQueueFields
<1>5. BlockedIn(u) = BlockedIn(s)
  BY <1>2 DEF BlockedIn, Awake, READY, BLOCKED
<1>6. \A p \in Priorities : ReadyIn(u, p) = ReadyIn(s, p) \cup Slot(u, id, p)
  BY <1>2 DEF ReadyIn, Slot, READY, RUNNING
<1>7. /\ R \in [Priorities -> Seq(TaskIds)]
      /\ \A p \in Priorities : IsInjective(R[p]) /\ Range(R[p]) = ReadyIn(u, p)
  <2>1. \A p \in Priorities : Range(s.readyQueue[p]) = ReadyIn(s, p)
    BY GoodStateFields
  <2> QED BY <1>2, <1>4, <1>6, <2>1 DEF ReadyPlus
<1>8. OnlyCurrentRuns(u) /\ \A t \in DOMAIN s.tasks : Awake(s, t) => Awake(u, t)
  BY <1>2 DEF GoodState, OnlyCurrentRuns, Awake, READY, RUNNING, BLOCKED
<1>9. GoodState(w)
  <2>1. /\ IDLE_TASK_ID \in DOMAIN s.tasks /\ s.current \in DOMAIN s.tasks
        /\ Awake(s, IDLE_TASK_ID)
        /\ u.delayQueue \in Seq(TaskIds) /\ IsInjective(u.delayQueue)
        /\ Range(u.delayQueue) = BlockedIn(u)
    BY <1>2, <1>5, GoodStateFields DEF GoodState
  <2>2. /\ NoDuplicates(u) /\ {IDLE_TASK_ID, u.current} \subseteq DOMAIN u.tasks
        /\ OnlyCurrentRuns(u) /\ Awake(u, IDLE_TASK_ID)
    BY <2>1, <1>2, <1>8
  <2>3. GoodState(WithQueues(u, R, u.delayQueue))
    BY ONLY <2>1, <2>2, <1>7, WithQueuesGood
  <2> QED BY <2>3, <1>4
<1>10. /\ w.tasks = u.tasks /\ w.delayQueue = u.delayQueue /\ w.tickCount = u.tickCount
       /\ w.current = u.current /\ w.nextTaskId = u.nextTaskId
  BY <1>4 DEF WithQueues
<1>11. AllDueLater(s) => AllDueLater(w)
  BY <1>2, <1>10, GoodStateFields DEF AllDueLater, BlockedIn
<1>12. Awake(s, s.current) => Awake(w, w.current)
  BY <1>2, <1>8, <1>10, GoodStateFields DEF Awake
<1>13. w.readyQueue = R /\ w.stack = u.stack
  BY <1>4 DEF WithQueues
<1>14. BucketsKeepOrder(s, w, {id})
  BY <1>2, <1>4, <1>13 DEF BucketsKeepOrder, ReadyPlus
<1>15. StaySuspended(s, w, {id})
  BY <1>2, <1>10 DEF StaySuspended
<1> QED BY <1>2, <1>9, <1>10, <1>11, <1>12, <1>13, <1>14, <1>15

\* Replacing the ready queue keeps the state free of duplicates.
LEMMA WithQueuesNoDuplicates ==
  ASSUME NEW u, NoDuplicates(u),
         NEW R \in [Priorities -> Seq(TaskIds)], \A p \in Priorities : IsInjective(R[p]),
         NEW D \in Seq(TaskIds), IsInjective(D)
  PROVE  NoDuplicates(WithQueues(u, R, D))
<1>1. /\ DOMAIN u.tasks \subseteq TaskIds /\ u.tasks \in [DOMAIN u.tasks -> TaskControlBlock]
      /\ u.tickCount \in Ticks /\ u.nextTaskId \in TaskIds /\ u.current \in TaskIds
      /\ u.running \in BOOLEAN /\ u.stack \in Seq(TaskIds)
  BY DEF NoDuplicates, IsSchedulerState
<1>2. IsSchedulerState(WithQueues(u, R, D))
  BY <1>1, MakeState DEF WithQueues
<1>3. WithQueues(u, R, D).readyQueue = R /\ WithQueues(u, R, D).delayQueue = D
  BY DEF WithQueues
<1> QED BY <1>2, <1>3 DEF NoDuplicates

\* What yield() hands to schedule(): the current task, READY, at the back of
\* its bucket.
LEMMA YieldGood ==
  ASSUME NEW s, Settled(s), NEW id, id \in DOMAIN s.tasks, s.tasks[id].state = RUNNING,
         NEW w, w = AddToReadyQueue(RemoveFromReadyQueue(
                      [s EXCEPT !.tasks[id].state = READY], id), id)
  PROVE  /\ GoodState(w)
         /\ w.running = s.running
         /\ w.nextTaskId = s.nextTaskId
         /\ DOMAIN w.tasks = DOMAIN s.tasks
         /\ w.stack = s.stack
         /\ BucketsKeepOrder(s, w, {id}) /\ StaySuspended(s, w, {})
<1> DEFINE u == [s EXCEPT !.tasks[id].state = READY]
           v == RemoveFromReadyQueue(u, id)
<1>1. GoodState(s) /\ Awake(s, id)
  BY DEF Settled, Awake, RUNNING, BLOCKED
<1>2. /\ NoDuplicates(u)
      /\ u.readyQueue = s.readyQueue /\ u.delayQueue = s.delayQueue
      /\ u.running = s.running /\ u.nextTaskId = s.nextTaskId /\ u.current = s.current
      /\ u.stack = s.stack
      /\ DOMAIN u.tasks = DOMAIN s.tasks
      /\ \A t \in DOMAIN s.tasks :
           /\ u.tasks[t].priority = s.tasks[t].priority
           /\ u.tasks[t].state = IF t = id THEN READY ELSE s.tasks[t].state
  BY <1>1, SetStateFields
<1>3. w = AddToReadyQueue(v, id)
  OBVIOUS
<1> HIDE DEF u
<1>4. PICK R : v = WithQueues(u, R, u.delayQueue) /\ ReadyMinus(u, id, R)
  <2>1. NoDuplicates(u) /\ id \in DOMAIN u.tasks
    BY <1>2
  <2> QED BY ONLY <2>1, RemoveFromReadyQueueFields
<1> HIDE DEF v
<1>5. /\ v.tasks = u.tasks /\ v.readyQueue = R /\ v.delayQueue = u.delayQueue
      /\ v.current = u.current /\ v.running = u.running /\ v.nextTaskId = u.nextTaskId
      /\ v.stack = u.stack
  BY <1>4 DEF WithQueues
<1>6. NoDuplicates(v)
  <2>1. /\ R \in [Priorities -> Seq(TaskIds)] /\ \A p \in Priorities : IsInjective(R[p])
        /\ u.delayQueue \in Seq(TaskIds) /\ IsInjective(u.delayQueue)
    BY <1>1, <1>2, <1>4, GoodStateFields DEF ReadyMinus
  <2> QED BY <2>1, <1>2, <1>4, WithQueuesNoDuplicates
<1>7. PICK Q : w = WithQueues(v, Q, v.delayQueue) /\ ReadyPlus(v, id, Q)
  <2>1. NoDuplicates(v) /\ id \in DOMAIN v.tasks
    BY <1>2, <1>5, <1>6
  <2> QED BY ONLY <2>1, <1>3, AddToReadyQueueFields
<1>8. /\ Q \in [Priorities -> Seq(TaskIds)]
      /\ \A p \in Priorities : IsInjective(Q[p]) /\ Range(Q[p]) = ReadyIn(v, p)
  <2>1. \A p \in Priorities : Range(s.readyQueue[p]) = ReadyIn(s, p)
    BY <1>1, GoodStateFields
  <2>2. \A p \in Priorities : /\ ReadyIn(v, p) = ReadyIn(s, p)
                              /\ Slot(v, id, p) = Slot(u, id, p)
                              /\ Slot(u, id, p) \subseteq ReadyIn(s, p)
    BY <1>2, <1>5 DEF ReadyIn, Slot, READY, RUNNING
  <2>3. \A p \in Priorities : Range(v.readyQueue[p]) = ReadyIn(s, p) \ Slot(u, id, p)
    BY <1>2, <1>4, <1>5, <2>1 DEF ReadyMinus
  <2> QED BY <1>7, <2>2, <2>3 DEF ReadyPlus
<1>9. /\ v.delayQueue \in Seq(TaskIds) /\ IsInjective(v.delayQueue)
      /\ Range(v.delayQueue) = BlockedIn(v)
  <2>1. BlockedIn(v) = BlockedIn(s)
    BY <1>1, <1>2, <1>5 DEF BlockedIn, Awake, READY, BLOCKED
  <2> QED BY <2>1, <1>1, <1>2, <1>5, GoodStateFields
<1>10. /\ {IDLE_TASK_ID, v.current} \subseteq DOMAIN v.tasks
       /\ OnlyCurrentRuns(v) /\ Awake(v, IDLE_TASK_ID)
  <2>1. {IDLE_TASK_ID, s.current} \subseteq DOMAIN s.tasks
    BY <1>1, GoodStateFields
  <2>2. OnlyCurrentRuns(s) /\ Awake(s, IDLE_TASK_ID)
    BY <1>1 DEF GoodState
  <2> QED BY <2>1, <2>2, <1>2, <1>5 DEF OnlyCurrentRuns, Awake, READY, RUNNING, BLOCKED
<1>11. GoodState(WithQueues(v, Q, v.delayQueue))
  BY ONLY <1>6, <1>8, <1>9, <1>10, WithQueuesGood
<1>12. /\ w.tasks = v.tasks /\ w.running = v.running /\ w.nextTaskId = v.nextTaskId
       /\ w.readyQueue = Q /\ w.stack = v.stack
  BY <1>7 DEF WithQueues
<1>13. BucketsKeepOrder(s, w, {id})
  <2>1. ASSUME NEW p \in Priorities PROVE KeepsOrder(s.readyQueue[p], Q[p], {id})
    <3>1. R[p] \in Seq(TaskIds) /\ IsInjective(R[p])
      BY <1>4 DEF ReadyMinus
    <3>2. KeepsOrder(s.readyQueue[p], R[p], {id})
      BY <1>2, <1>4 DEF ReadyMinus
    <3>3. KeepsOrder(R[p], Q[p], {id})
      BY <1>5, <1>7 DEF ReadyPlus
    <3>4. KeepsOrder(s.readyQueue[p], Q[p], {id} \cup {id})
      BY ONLY <3>1, <3>2, <3>3, OrderComposes
    <3> QED BY <3>4, OrderWeakens
  <2> QED BY <2>1, <1>12 DEF BucketsKeepOrder
<1>14. StaySuspended(s, w, {})
  BY <1>2, <1>5, <1>12 DEF StaySuspended, RUNNING, SUSPENDED
<1> QED BY <1>2, <1>5, <1>7, <1>11, <1>12, <1>13, <1>14

\* What delay() hands to schedule(): the current task, BLOCKED, in the delay
\* queue.
LEMMA AsleepGood ==
  ASSUME NEW s, Settled(s), s.current # IDLE_TASK_ID, NEW n \in Nat
  PROVE  /\ GoodState(Asleep(s, n))
         /\ Asleep(s, n).running = s.running
         /\ Asleep(s, n).nextTaskId = s.nextTaskId
         /\ DOMAIN Asleep(s, n).tasks = DOMAIN s.tasks
         /\ Asleep(s, n).stack = s.stack
         /\ BucketsKeepOrder(s, Asleep(s, n), {s.current})
         /\ StaySuspended(s, Asleep(s, n), {s.current})
<1> DEFINE id == s.current
           x == (s.tickCount + n) % TickRange
           T == [s.tasks EXCEPT ![id] = [@ EXCEPT !.state = BLOCKED, !.delayUntil = x]]
           b == [s EXCEPT !.tasks = T]
           v == RemoveFromReadyQueue(b, id)
           w == Asleep(s, n)
<1>1. GoodState(s) /\ Awake(s, id) /\ id \in DOMAIN s.tasks /\ IsSchedulerState(s)
  BY GoodStateFields DEF Settled
<1>2. w = [v EXCEPT !.delayQueue = Append(@, id)]
  <2>1. [s EXCEPT !.tasks[s.current].state = BLOCKED,
                  !.tasks[s.current].delayUntil = (s.tickCount + n) % TickRange] = b
    BY <1>1 DEF IsSchedulerState, TaskControlBlock
  <2> QED BY <2>1 DEF Asleep
<1>3. x \in Ticks
  <2>1. s.tickCount + n \in Nat
    BY <1>1 DEF IsSchedulerState, Ticks
  <2> QED BY <2>1, ModRange, TicksAssumption DEF Ticks
<1> HIDE DEF x
<1>4. /\ DOMAIN T = DOMAIN s.tasks
      /\ \A t \in DOMAIN s.tasks :
              /\ T[t] \in TaskControlBlock
              /\ T[t].priority = s.tasks[t].priority
              /\ T[t].state = IF t = id THEN BLOCKED ELSE s.tasks[t].state
  BY <1>1, <1>3 DEF IsSchedulerState, TaskControlBlock
<1>5. T \in [DOMAIN T -> TaskControlBlock]
  BY <1>4
<1> HIDE DEF T
<1>6. b = [tasks |-> T, readyQueue |-> s.readyQueue,
           delayQueue |-> s.delayQueue, tickCount |-> s.tickCount,
           nextTaskId |-> s.nextTaskId, current |-> s.current,
           running |-> s.running, stack |-> s.stack]
  <2>1. b = [s EXCEPT !.tasks = T]
    OBVIOUS
  <2> HIDE DEF b
  <2> QED BY <1>1, <2>1 DEF IsSchedulerState
<1> HIDE DEF b
<1>7. NoDuplicates(b)
  <2>1. /\ s.readyQueue \in [Priorities -> Seq(TaskIds)] /\ s.delayQueue \in Seq(TaskIds)
        /\ s.tickCount \in Ticks /\ s.nextTaskId \in TaskIds /\ s.current \in TaskIds
        /\ s.running \in BOOLEAN /\ s.stack \in Seq(TaskIds)
        /\ DOMAIN T \subseteq TaskIds
    BY <1>1, <1>4, GoodStateFields
  <2>2. IsSchedulerState([tasks |-> T, readyQueue |-> s.readyQueue,
                          delayQueue |-> s.delayQueue, tickCount |-> s.tickCount,
                          nextTaskId |-> s.nextTaskId, current |-> s.current,
                          running |-> s.running, stack |-> s.stack])
    BY ONLY <1>5, <2>1, MakeState
  <2>3. IsSchedulerState(b)
    BY ONLY <2>2, <1>6
  <2> QED BY <2>3, <1>1, <1>6, GoodStateFields DEF NoDuplicates
<1>8. PICK R : v = WithQueues(b, R, b.delayQueue) /\ ReadyMinus(b, id, R)
  <2>1. NoDuplicates(b) /\ id \in DOMAIN b.tasks
    BY <1>1, <1>4, <1>6, <1>7
  <2> HIDE DEF id
  <2> QED BY ONLY <2>1, RemoveFromReadyQueueFields
<1> HIDE DEF v
<1> DEFINE D == Append(s.delayQueue, id)
<1>9. w = WithQueues(b, R, D)
  <2>1. v = [tasks |-> T, readyQueue |-> R,
             delayQueue |-> s.delayQueue, tickCount |-> s.tickCount,
             nextTaskId |-> s.nextTaskId, current |-> s.current,
             running |-> s.running, stack |-> s.stack]
    BY <1>6, <1>8 DEF WithQueues
  <2>2. w = [tasks |-> T, readyQueue |-> R,
             delayQueue |-> D, tickCount |-> s.tickCount,
             nextTaskId |-> s.nextTaskId, current |-> s.current,
             running |-> s.running, stack |-> s.stack]
    BY <1>2, <2>1
  <2> HIDE DEF D, w
  <2> QED BY <2>2, <1>6 DEF WithQueues
<1>10. D \in Seq(TaskIds) /\ IsInjective(D) /\ Range(D) = BlockedIn(b)
  <2>1. /\ s.delayQueue \in Seq(TaskIds) /\ IsInjective(s.delayQueue)
        /\ Range(s.delayQueue) = BlockedIn(s) /\ id \in TaskIds
    BY <1>1, GoodStateFields
  <2>2. id \notin BlockedIn(s)
    BY <1>1 DEF Awake, BlockedIn
  <2>3. /\ D \in Seq(TaskIds) /\ IsInjective(D)
        /\ Range(D) = Range(s.delayQueue) \cup {id}
    <3> HIDE DEF id
    <3> QED BY <2>1, <2>2, AppendFresh
  <2>4. BlockedIn(b) = BlockedIn(s) \cup {id}
    BY <1>1, <1>4, <1>6 DEF BlockedIn
  <2> QED BY <2>1, <2>3, <2>4
<1>11. /\ R \in [Priorities -> Seq(TaskIds)]
       /\ \A p \in Priorities : IsInjective(R[p]) /\ Range(R[p]) = ReadyIn(b, p)
  <2>1. \A p \in Priorities : Range(s.readyQueue[p]) = ReadyIn(s, p)
    BY <1>1, GoodStateFields
  <2>2. \A p \in Priorities : ReadyIn(b, p) = ReadyIn(s, p) \ Slot(b, id, p)
    BY <1>1, <1>4, <1>6 DEF ReadyIn, Slot, BLOCKED, READY, RUNNING
  <2>3. b.readyQueue = s.readyQueue
    BY <1>6
  <2> QED BY <1>8, <2>1, <2>2, <2>3 DEF ReadyMinus
<1>12. /\ {IDLE_TASK_ID, b.current} \subseteq DOMAIN b.tasks
       /\ OnlyCurrentRuns(b) /\ Awake(b, IDLE_TASK_ID)
  <2>1. {IDLE_TASK_ID, s.current} \subseteq DOMAIN s.tasks
    BY <1>1, GoodStateFields
  <2>2. OnlyCurrentRuns(s) /\ Awake(s, IDLE_TASK_ID)
    BY <1>1 DEF GoodState
  <2> QED BY <2>1, <2>2, <1>4, <1>6 DEF OnlyCurrentRuns, Awake, RUNNING, BLOCKED
<1> HIDE DEF D
<1>13. GoodState(WithQueues(b, R, D))
  BY ONLY <1>7, <1>10, <1>11, <1>12, WithQueuesGood
<1>14. /\ w.running = s.running /\ w.nextTaskId = s.nextTaskId
       /\ DOMAIN w.tasks = DOMAIN s.tasks
       /\ w.stack = s.stack /\ w.tasks = T /\ w.readyQueue = R
  <2> HIDE DEF w
  <2> QED BY <1>4, <1>6, <1>9 DEF WithQueues
<1> HIDE DEF w
<1>15. BucketsKeepOrder(s, w, {id})
  <2>1. b.readyQueue = s.readyQueue
    BY <1>6
  <2> QED BY <2>1, <1>8, <1>14 DEF BucketsKeepOrder, ReadyMinus
<1>16. StaySuspended(s, w, {id})
  BY <1>4, <1>14 DEF StaySuspended
<1> QED BY <1>9, <1>13, <1>14, <1>15, <1>16 DEF w

\* Members that no queue depends on may change freely.
Reframed(s, t, n, r, k) ==
  [tasks |-> s.tasks, readyQueue |-> s.readyQueue, delayQueue |-> s.delayQueue,
   tickCount |-> t, nextTaskId |-> n, current |-> s.current, running |-> r, stack |-> k]

\* Such a change preserves GoodState and, if the tick count stays, Settled.
LEMMA ReframedGood ==
  ASSUME NEW s, GoodState(s), NEW t \in Ticks, NEW n \in TaskIds, NEW r \in BOOLEAN,
         NEW k \in Seq(TaskIds)
  PROVE  /\ GoodState(Reframed(s, t, n, r, k))
         /\ Settled(s) => Settled(Reframed(s, s.tickCount, n, r, k))
<1>1. ASSUME NEW x \in Ticks PROVE GoodState(Reframed(s, x, n, r, k))
  <2> DEFINE w == Reframed(s, x, n, r, k)
  <2>1. IsSchedulerState(w)
    <3>1. /\ DOMAIN s.tasks \subseteq TaskIds /\ s.tasks \in [DOMAIN s.tasks -> TaskControlBlock]
          /\ s.readyQueue \in [Priorities -> Seq(TaskIds)] /\ s.delayQueue \in Seq(TaskIds)
          /\ s.current \in TaskIds
      BY DEF GoodState, WellFormed, IsSchedulerState
    <3> QED BY <3>1, MakeState DEF Reframed
  <2>2. /\ w.tasks = s.tasks /\ w.readyQueue = s.readyQueue /\ w.delayQueue = s.delayQueue
        /\ w.current = s.current
    BY DEF Reframed
  <2> HIDE DEF w
  <2>3. BlockedIn(w) = BlockedIn(s) /\ \A p \in Priorities : ReadyIn(w, p) = ReadyIn(s, p)
    BY <2>2 DEF BlockedIn, ReadyIn
  <2>4. WellFormed(w) /\ QueuesMatch(w) /\ OnlyCurrentRuns(w) /\ Awake(w, IDLE_TASK_ID)
    BY <2>1, <2>2, <2>3
    DEF GoodState, WellFormed, QueuesMatch, OnlyCurrentRuns, Awake
  <2> QED BY <2>4 DEF GoodState, w
<1>2. ASSUME Settled(s) PROVE Settled(Reframed(s, s.tickCount, n, r, k))
  <2> DEFINE w == Reframed(s, s.tickCount, n, r, k)
  <2>1. GoodState(w)
    BY <1>1, GoodStateFields
  <2>2. /\ w.tasks = s.tasks /\ w.delayQueue = s.delayQueue
        /\ w.current = s.current /\ w.tickCount = s.tickCount
    BY DEF Reframed
  <2> HIDE DEF w
  <2>3. AllDueLater(w) /\ Awake(w, w.current)
    BY <2>2, <1>2 DEF Settled, AllDueLater, Awake
  <2> QED BY <2>1, <2>3 DEF Settled, w
<1> QED BY <1>1, <1>2

\* createTask and ensureIdleTask: a task under an id that is free.
LEMMA AddTaskSettled ==
  ASSUME NEW s, Settled(s), NEW id \in TaskIds, id \notin DOMAIN s.tasks,
         NEW pr \in Priorities
  PROVE  /\ Settled(AddTask(s, id, pr))
         /\ AddTask(s, id, pr).nextTaskId = s.nextTaskId
         /\ DOMAIN AddTask(s, id, pr).tasks = DOMAIN s.tasks \cup {id}
         /\ AddTask(s, id, pr).stack = s.stack
         /\ BucketsKeepOrder(s, AddTask(s, id, pr), {id})
         /\ StaySuspended(s, AddTask(s, id, pr), {})
<1> DEFINE T == [t \in DOMAIN s.tasks \cup {id} |->
                   IF t = id THEN NewTask(pr) ELSE s.tasks[t]]
           b == [s EXCEPT !.tasks = T]
           w == AddTask(s, id, pr)
<1>1. GoodState(s) /\ IsSchedulerState(s) /\ AllDueLater(s) /\ Awake(s, s.current)
  BY GoodStateFields DEF Settled
<1>2. w = AddToReadyQueue(b, id)
  BY DEF AddTask
<1>3. NewTask(pr) \in TaskControlBlock /\ NewTask(pr).priority = pr /\ NewTask(pr).state = READY
  BY TicksAssumption DEF NewTask, TaskControlBlock, Ticks
<1>4. /\ DOMAIN T = DOMAIN s.tasks \cup {id}
      /\ T[id] = NewTask(pr)
      /\ \A t \in DOMAIN s.tasks : t # id /\ T[t] = s.tasks[t]
  OBVIOUS
<1>5. T \in [DOMAIN T -> TaskControlBlock]
  BY <1>1, <1>3 DEF IsSchedulerState
<1> HIDE DEF T
<1>6. b = [tasks |-> T, readyQueue |-> s.readyQueue,
           delayQueue |-> s.delayQueue, tickCount |-> s.tickCount,
           nextTaskId |-> s.nextTaskId, current |-> s.current,
           running |-> s.running, stack |-> s.stack]
  <2>1. b = [s EXCEPT !.tasks = T]
    OBVIOUS
  <2> HIDE DEF b
  <2> QED BY <1>1, <2>1 DEF IsSchedulerState
<1> HIDE DEF b
<1>7. NoDuplicates(b)
  <2>1. /\ s.readyQueue \in [Priorities -> Seq(TaskIds)] /\ s.delayQueue \in Seq(TaskIds)
        /\ s.tickCount \in Ticks /\ s.nextTaskId \in TaskIds /\ s.current \in TaskIds
        /\ s.running \in BOOLEAN /\ s.stack \in Seq(TaskIds)
        /\ DOMAIN T \subseteq TaskIds
    BY <1>1, <1>4, GoodStateFields
  <2>2. IsSchedulerState([tasks |-> T, readyQueue |-> s.readyQueue,
                          delayQueue |-> s.delayQueue, tickCount |-> s.tickCount,
                          nextTaskId |-> s.nextTaskId, current |-> s.current,
                          running |-> s.running, stack |-> s.stack])
    BY ONLY <1>5, <2>1, MakeState
  <2>3. IsSchedulerState(b)
    BY ONLY <2>2, <1>6
  <2> QED BY <2>3, <1>1, <1>6, GoodStateFields DEF NoDuplicates
<1>8. PICK R : w = WithQueues(b, R, b.delayQueue) /\ ReadyPlus(b, id, R)
  <2>1. NoDuplicates(b) /\ id \in DOMAIN b.tasks
    BY <1>4, <1>6, <1>7
  <2> QED BY ONLY <2>1, <1>2, AddToReadyQueueFields
<1> HIDE DEF w
<1>9. /\ R \in [Priorities -> Seq(TaskIds)]
      /\ \A p \in Priorities : IsInjective(R[p]) /\ Range(R[p]) = ReadyIn(b, p)
  <2>1. \A p \in Priorities : Range(s.readyQueue[p]) = ReadyIn(s, p)
    BY <1>1, GoodStateFields
  <2>2. \A p \in Priorities : ReadyIn(b, p) = ReadyIn(s, p) \cup Slot(b, id, p)
    BY <1>3, <1>4, <1>6 DEF ReadyIn, Slot, READY, RUNNING
  <2>3. b.readyQueue = s.readyQueue
    BY <1>6
  <2> QED BY <1>8, <2>1, <2>2, <2>3 DEF ReadyPlus
<1>10. /\ b.delayQueue \in Seq(TaskIds) /\ IsInjective(b.delayQueue)
       /\ Range(b.delayQueue) = BlockedIn(b)
  <2>1. BlockedIn(b) = BlockedIn(s)
    BY <1>3, <1>4, <1>6 DEF BlockedIn, READY, BLOCKED
  <2> QED BY <2>1, <1>1, <1>6, GoodStateFields
<1>11. /\ {IDLE_TASK_ID, b.current} \subseteq DOMAIN b.tasks
       /\ OnlyCurrentRuns(b) /\ Awake(b, IDLE_TASK_ID)
  <2>1. {IDLE_TASK_ID, s.current} \subseteq DOMAIN s.tasks
    BY <1>1, GoodStateFields
  <2>2. OnlyCurrentRuns(s) /\ Awake(s, IDLE_TASK_ID)
    BY <1>1 DEF GoodState
  <2> QED BY <2>1, <2>2, <1>3, <1>4, <1>6 DEF OnlyCurrentRuns, Awake, READY, RUNNING
<1>12. GoodState(w)
  <2>1. GoodState(WithQueues(b, R, b.delayQueue))
    BY ONLY <1>7, <1>9, <1>10, <1>11, WithQueuesGood
  <2> QED BY <2>1, <1>8
<1>13. /\ w.tasks = T /\ w.delayQueue = s.delayQueue /\ w.tickCount = s.tickCount
       /\ w.current = s.current /\ w.nextTaskId = s.nextTaskId
       /\ w.readyQueue = R /\ w.stack = s.stack
  BY <1>6, <1>8 DEF WithQueues
<1>14. AllDueLater(w) /\ Awake(w, w.current)
  BY <1>1, <1>4, <1>13, GoodStateFields DEF AllDueLater, BlockedIn, Awake
<1>15. BucketsKeepOrder(s, w, {id}) /\ StaySuspended(s, w, {})
  <2>1. b.readyQueue = s.readyQueue
    BY <1>6
  <2> QED BY <2>1, <1>4, <1>8, <1>13 DEF BucketsKeepOrder, StaySuspended, ReadyPlus
<1> QED BY <1>4, <1>12, <1>13, <1>14, <1>15 DEF Settled, w

\* What deleteTask leaves before it may call schedule().
LEMMA EraseSettled ==
  ASSUME NEW s, Settled(s), NEW id \in DOMAIN s.tasks, id # IDLE_TASK_ID,
         NEW e, e = [Unqueue(s, id) EXCEPT !.tasks = [t \in DOMAIN Unqueue(s, id).tasks \ {id}
                                                        |-> Unqueue(s, id).tasks[t]]]
  PROVE  /\ s.current = id => Settled([e EXCEPT !.current = IDLE_TASK_ID])
         /\ s.current # id => Settled(e)
         /\ e.nextTaskId = s.nextTaskId
         /\ DOMAIN e.tasks = DOMAIN s.tasks \ {id}
         /\ [e EXCEPT !.current = IDLE_TASK_ID].nextTaskId = s.nextTaskId
         /\ DOMAIN [e EXCEPT !.current = IDLE_TASK_ID].tasks = DOMAIN s.tasks \ {id}
         /\ e.stack = s.stack
         /\ BucketsKeepOrder(s, e, {id}) /\ StaySuspended(s, e, {})
         /\ [e EXCEPT !.current = IDLE_TASK_ID].stack = s.stack
         /\ BucketsKeepOrder(s, [e EXCEPT !.current = IDLE_TASK_ID], {id})
         /\ StaySuspended(s, [e EXCEPT !.current = IDLE_TASK_ID], {})
<1> DEFINE T == [t \in DOMAIN s.tasks \ {id} |-> s.tasks[t]]
           b(c) == [tasks |-> T, readyQueue |-> s.readyQueue,
                    delayQueue |-> s.delayQueue, tickCount |-> s.tickCount,
                    nextTaskId |-> s.nextTaskId, current |-> c,
                    running |-> s.running, stack |-> s.stack]
<1>1. GoodState(s) /\ IsSchedulerState(s) /\ AllDueLater(s) /\ Awake(s, s.current)
  BY GoodStateFields DEF Settled
<1>2. NoDuplicates(s)
  BY <1>1, GoodStateFields DEF NoDuplicates
<1>3. PICK R, D : /\ Unqueue(s, id) = WithQueues(s, R, D)
                  /\ ReadyMinus(s, id, R) /\ DelayMinus(s, id, D)
  BY <1>2, UnqueueFields
<1>4. DOMAIN T = DOMAIN s.tasks \ {id} /\ \A t \in DOMAIN T : T[t] = s.tasks[t]
  OBVIOUS
<1>5. DOMAIN T \subseteq TaskIds /\ T \in [DOMAIN T -> TaskControlBlock]
  BY <1>1 DEF IsSchedulerState
<1>6. e = [WithQueues(s, R, D) EXCEPT !.tasks = T]
  <2>1. WithQueues(s, R, D).tasks = s.tasks
    BY DEF WithQueues
  <2> QED BY <1>3, <2>1
<1> HIDE DEF T
<1>7. e = [tasks |-> T, readyQueue |-> R, delayQueue |-> D, tickCount |-> s.tickCount,
           nextTaskId |-> s.nextTaskId, current |-> s.current,
           running |-> s.running, stack |-> s.stack]
  BY <1>6 DEF WithQueues
<1>8. [e EXCEPT !.current = IDLE_TASK_ID] =
          [tasks |-> T, readyQueue |-> R, delayQueue |-> D, tickCount |-> s.tickCount,
           nextTaskId |-> s.nextTaskId, current |-> IDLE_TASK_ID,
           running |-> s.running, stack |-> s.stack]
  BY ONLY <1>7
<1>9. ASSUME NEW c, c \in DOMAIN T, Awake(s, c), s.current = id \/ s.current = c
      PROVE  Settled([tasks |-> T, readyQueue |-> R, delayQueue |-> D,
                      tickCount |-> s.tickCount, nextTaskId |-> s.nextTaskId, current |-> c,
                      running |-> s.running, stack |-> s.stack])
  <2> DEFINE w == WithQueues(b(c), R, D)
  <2>1. w = [tasks |-> T, readyQueue |-> R, delayQueue |-> D,
             tickCount |-> s.tickCount, nextTaskId |-> s.nextTaskId, current |-> c,
             running |-> s.running, stack |-> s.stack]
    BY DEF WithQueues
  <2>2. NoDuplicates(b(c))
    <3>1. /\ s.readyQueue \in [Priorities -> Seq(TaskIds)] /\ s.delayQueue \in Seq(TaskIds)
          /\ s.tickCount \in Ticks /\ s.nextTaskId \in TaskIds /\ c \in TaskIds
          /\ s.running \in BOOLEAN /\ s.stack \in Seq(TaskIds)
      BY <1>1, <1>5, <1>9, GoodStateFields
    <3>2. IsSchedulerState(b(c))
      BY <1>5, <3>1, MakeState
    <3> QED BY <3>2, <1>1, GoodStateFields DEF NoDuplicates
  <2>3. b(c).tasks = T /\ b(c).current = c
    OBVIOUS
  <2>4. BlockedIn(b(c)) = BlockedIn(s) \ {id}
    BY <2>3, <1>4 DEF BlockedIn
  <2>5. \A p \in Priorities : ReadyIn(b(c), p) = ReadyIn(s, p) \ Slot(s, id, p)
    BY <2>3, <1>4 DEF ReadyIn, Slot
  <2>6. /\ R \in [Priorities -> Seq(TaskIds)]
        /\ \A p \in Priorities : IsInjective(R[p]) /\ Range(R[p]) = ReadyIn(b(c), p)
    <3>1. \A p \in Priorities : Range(s.readyQueue[p]) = ReadyIn(s, p)
      BY <1>1, GoodStateFields
    <3> HIDE DEF b
    <3> QED BY <3>1, <2>5, <1>3 DEF ReadyMinus
  <2>7. D \in Seq(TaskIds) /\ IsInjective(D) /\ Range(D) = BlockedIn(b(c))
    <3>1. Range(s.delayQueue) = BlockedIn(s)
      BY <1>1, GoodStateFields
    <3> HIDE DEF b
    <3> QED BY <3>1, <2>4, <1>3 DEF DelayMinus
  <2>8. /\ {IDLE_TASK_ID, b(c).current} \subseteq DOMAIN b(c).tasks
        /\ OnlyCurrentRuns(b(c)) /\ Awake(b(c), IDLE_TASK_ID)
    <3>1. IDLE_TASK_ID \in DOMAIN s.tasks
      BY <1>1, GoodStateFields
    <3>2. OnlyCurrentRuns(s) /\ Awake(s, IDLE_TASK_ID)
      BY <1>1 DEF GoodState
    <3> HIDE DEF b
    <3> QED BY <3>1, <3>2, <2>3, <1>4, <1>9 DEF OnlyCurrentRuns, Awake
  <2>9. GoodState(w)
    <3> HIDE DEF b
    <3> QED BY ONLY <2>2, <2>6, <2>7, <2>8, WithQueuesGood
  <2> HIDE DEF w
  <2>10. AllDueLater(w)
    <3>1. Range(D) \subseteq Range(s.delayQueue) \ {id} /\ Range(s.delayQueue) \subseteq DOMAIN s.tasks
      BY <1>1, <1>3, GoodStateFields DEF DelayMinus, BlockedIn
    <3> QED BY <3>1, <2>1, <1>1, <1>4 DEF AllDueLater
  <2>11. Awake(w, w.current)
    BY <2>1, <1>4, <1>9 DEF Awake
  <2> QED BY <2>1, <2>9, <2>10, <2>11 DEF Settled
<1>10. s.current = id => Settled([e EXCEPT !.current = IDLE_TASK_ID])
  BY <1>1, <1>4, <1>8, <1>9, GoodStateFields DEF GoodState
<1>11. s.current # id => Settled(e)
  <2> SUFFICES ASSUME s.current # id PROVE Settled(e)
    OBVIOUS
  <2> DEFINE c == s.current
  <2>1. c \in DOMAIN T /\ Awake(s, c)
    BY <1>1, <1>4, GoodStateFields
  <2>2. Settled([tasks |-> T, readyQueue |-> R, delayQueue |-> D,
                 tickCount |-> s.tickCount, nextTaskId |-> s.nextTaskId, current |-> c,
                 running |-> s.running, stack |-> s.stack])
    BY ONLY <2>1, <1>9
  <2> QED BY ONLY <2>2, <1>7
<1>12. ASSUME NEW x, x \in {e, [e EXCEPT !.current = IDLE_TASK_ID]}
       PROVE  /\ x.stack = s.stack
              /\ BucketsKeepOrder(s, x, {id}) /\ StaySuspended(s, x, {})
  <2>1. x.tasks = T /\ x.readyQueue = R /\ x.stack = s.stack
    BY <1>7, <1>8, <1>12
  <2> QED BY <2>1, <1>3, <1>4 DEF BucketsKeepOrder, StaySuspended, ReadyMinus
<1> QED BY <1>4, <1>7, <1>8, <1>10, <1>11, <1>12

\* The constructor and reset() leave the idle task alone, ready.
LEMMA FreshState ==
  ASSUME NEW k \in Seq(TaskIds)
  PROVE  LET w == EnsureIdleTask([Cleared EXCEPT !.stack = k])
         IN Settled(w) /\ w.nextTaskId = 1 /\ DOMAIN w.tasks = {IDLE_TASK_ID} /\ w.stack = k
<1> DEFINE c == [Cleared EXCEPT !.stack = k]
           T == [t \in {IDLE_TASK_ID} |-> NewTask(IDLE_TASK_PRIORITY)]
           b == [c EXCEPT !.tasks = T]
           w == AddToReadyQueue(b, IDLE_TASK_ID)
           E == [p \in Priorities |-> << >>]
<1>1. c.tasks = [t \in {} |-> NewTask(IDLE_TASK_PRIORITY)] /\ DOMAIN c.tasks = {}
  BY DEF Cleared
<1>2. EnsureIdleTask(c) = w
  <2>1. [t \in DOMAIN c.tasks \cup {IDLE_TASK_ID} |->
           IF t = IDLE_TASK_ID THEN NewTask(IDLE_TASK_PRIORITY) ELSE c.tasks[t]] = T
    BY <1>1
  <2> QED BY <1>1, <2>1 DEF EnsureIdleTask, AddTask
<1>3. b = [tasks |-> T, readyQueue |-> E, delayQueue |-> << >>, tickCount |-> 0,
           nextTaskId |-> 1, current |-> IDLE_TASK_ID, running |-> FALSE, stack |-> k]
  <2> DEFINE X == [t \in {} |-> NewTask(IDLE_TASK_PRIORITY)]
  <2>1. Cleared = [tasks |-> X, readyQueue |-> E, delayQueue |-> << >>, tickCount |-> 0,
                   nextTaskId |-> 1, current |-> IDLE_TASK_ID, running |-> FALSE,
                   stack |-> << >>]
    BY DEF Cleared
  <2>2. b = [[Cleared EXCEPT !.stack = k] EXCEPT !.tasks = T]
    OBVIOUS
  <2> HIDE DEF X, E, T, b
  <2> QED BY <2>1, <2>2
<1>4. /\ NewTask(IDLE_TASK_PRIORITY) \in TaskControlBlock
      /\ NewTask(IDLE_TASK_PRIORITY).priority = IDLE_TASK_PRIORITY
      /\ NewTask(IDLE_TASK_PRIORITY).state = READY
  BY TicksAssumption, PrioritiesAssumption DEF NewTask, TaskControlBlock, Ticks
<1>5. /\ DOMAIN T = {IDLE_TASK_ID} /\ DOMAIN T \subseteq TaskIds
      /\ T \in [DOMAIN T -> TaskControlBlock]
      /\ T[IDLE_TASK_ID] = NewTask(IDLE_TASK_PRIORITY)
  BY <1>4, BoundsAssumption DEF IDLE_TASK_ID, TaskIds
<1>6. /\ E \in [Priorities -> Seq(TaskIds)]
      /\ \A p \in Priorities : IsInjective(E[p]) /\ Range(E[p]) = {}
  BY DEF IsInjective, Range
<1>7. /\ << >> \in Seq(TaskIds) /\ IsInjective(<< >>) /\ Range(<< >>) = {}
      /\ 0 \in Ticks /\ 1 \in TaskIds /\ IDLE_TASK_ID \in TaskIds /\ FALSE \in BOOLEAN
  BY TicksAssumption, BoundsAssumption DEF IsInjective, Range, Ticks, TaskIds, IDLE_TASK_ID
<1> HIDE DEF T, E, b
<1>8. NoDuplicates(b)
  <2>1. IsSchedulerState([tasks |-> T, readyQueue |-> E, delayQueue |-> << >>,
                          tickCount |-> 0, nextTaskId |-> 1, current |-> IDLE_TASK_ID,
                          running |-> FALSE, stack |-> k])
    BY ONLY <1>5, <1>6, <1>7, k \in Seq(TaskIds), MakeState
  <2>2. IsSchedulerState(b)
    BY ONLY <2>1, <1>3
  <2> QED BY <2>2, <1>3, <1>6, <1>7 DEF NoDuplicates
<1>9. PICK R : w = WithQueues(b, R, b.delayQueue) /\ ReadyPlus(b, IDLE_TASK_ID, R)
  <2>1. NoDuplicates(b) /\ IDLE_TASK_ID \in DOMAIN b.tasks
    BY <1>3, <1>5, <1>8
  <2> QED BY ONLY <2>1, AddToReadyQueueFields
<1> HIDE DEF w
<1>10. /\ R \in [Priorities -> Seq(TaskIds)]
       /\ \A p \in Priorities : IsInjective(R[p]) /\ Range(R[p]) = ReadyIn(b, p)
  <2>1. \A p \in Priorities : ReadyIn(b, p) = Slot(b, IDLE_TASK_ID, p)
    BY <1>3, <1>4, <1>5 DEF ReadyIn, Slot, READY, RUNNING
  <2>2. b.readyQueue = E
    BY <1>3
  <2> QED BY <1>6, <1>9, <2>1, <2>2 DEF ReadyPlus
<1>11. /\ b.delayQueue \in Seq(TaskIds) /\ IsInjective(b.delayQueue)
       /\ Range(b.delayQueue) = BlockedIn(b)
  <2>1. BlockedIn(b) = {}
    BY <1>3, <1>4, <1>5 DEF BlockedIn, READY, BLOCKED
  <2> QED BY <2>1, <1>3, <1>7
<1>12. /\ {IDLE_TASK_ID, b.current} \subseteq DOMAIN b.tasks
       /\ OnlyCurrentRuns(b) /\ Awake(b, IDLE_TASK_ID)
  BY <1>3, <1>4, <1>5 DEF OnlyCurrentRuns, Awake, READY, RUNNING, BLOCKED
<1>13. GoodState(w)
  <2>1. GoodState(WithQueues(b, R, b.delayQueue))
    BY ONLY <1>8, <1>10, <1>11, <1>12, WithQueuesGood
  <2> QED BY <2>1, <1>9
<1>14. /\ w.tasks = T /\ w.delayQueue = << >> /\ w.current = IDLE_TASK_ID
       /\ w.nextTaskId = 1 /\ w.stack = k
  BY <1>3, <1>9 DEF WithQueues
<1>15. AllDueLater(w) /\ Awake(w, w.current)
  BY <1>4, <1>5, <1>7, <1>14 DEF AllDueLater, Awake, READY, BLOCKED
<1> QED BY <1>2, <1>5, <1>13, <1>14, <1>15 DEF Settled

-----------------------------------------------------------------------------
(***************************************************************************)
(* The induction: one lemma per group of public functions.  Each says that *)
(* the state the function leaves is settled, how ids change, and which     *)
(* tasks it may have moved.                                                *)
(***************************************************************************)

\* A call changes the queues and states of rtos to a good state x and may then
\* call schedule().  On the way to x only the tasks of X lose their place and
\* only those of Y stop being suspended.
StepsThrough(X, Y) ==
  \E x : /\ GoodState(x)
         /\ x.stack = rtos.stack
         /\ BucketsKeepOrder(rtos, x, X)
         /\ StaySuspended(rtos, x, Y)
         /\ rtos' = x \/ rtos' = Schedule(x)

\* A change that moves no task.
LEMMA NothingMoves ==
  ASSUME NEW s, GoodState(s), NEW x, x.tasks = s.tasks, x.readyQueue = s.readyQueue
  PROVE  BucketsKeepOrder(s, x, {}) /\ StaySuspended(s, x, {})
BY GoodStateFields, SameOrder DEF BucketsKeepOrder, StaySuspended

\* The initial state satisfies the invariant.
LEMMA InitIInv == Init => IInv
<1> SUFFICES ASSUME Init PROVE IInv
  OBVIOUS
<1>1. << >> \in Seq(TaskIds)
  OBVIOUS
<1>2. Cleared = [Cleared EXCEPT !.stack = << >>]
  <2> DEFINE X == [t \in {} |-> NewTask(IDLE_TASK_PRIORITY)]
             E == [p \in Priorities |-> << >>]
             z == << >>
             F == [Cleared EXCEPT !.stack = << >>]
  <2>1. Cleared = [tasks |-> X, readyQueue |-> E, delayQueue |-> << >>, tickCount |-> 0,
                   nextTaskId |-> 1, current |-> IDLE_TASK_ID, running |-> FALSE,
                   stack |-> z]
    BY DEF Cleared
  <2>2. F = [Cleared EXCEPT !.stack = z]
    OBVIOUS
  <2> HIDE DEF X, E, z, F
  <2>3. F = [tasks |-> X, readyQueue |-> E, delayQueue |-> << >>, tickCount |-> 0,
             nextTaskId |-> 1, current |-> IDLE_TASK_ID, running |-> FALSE,
             stack |-> z]
    BY <2>1, <2>2
  <2> QED BY ONLY <2>1, <2>3 DEF F
<1>3. rtos = EnsureIdleTask([Cleared EXCEPT !.stack = << >>])
  BY <1>2 DEF Init
<1>4. Settled(rtos) /\ rtos.nextTaskId = 1 /\ DOMAIN rtos.tasks = {IDLE_TASK_ID}
  <2>1. \A k \in Seq(TaskIds) :
          LET w == EnsureIdleTask([Cleared EXCEPT !.stack = k])
          IN Settled(w) /\ w.nextTaskId = 1 /\ DOMAIN w.tasks = {IDLE_TASK_ID} /\ w.stack = k
    BY FreshState
  <2> QED BY ONLY <1>1, <1>3, <2>1
<1> QED BY <1>4 DEF IInv, IdsBelowNext, IDLE_TASK_ID

\* Setting members that no queue depends on is a reframing.
LEMMA ReframedBy ==
  ASSUME NEW s, GoodState(s), NEW t, NEW n, NEW r, NEW k
  PROVE  /\ [s EXCEPT !.tickCount = t] = Reframed(s, t, s.nextTaskId, s.running, s.stack)
         /\ [s EXCEPT !.nextTaskId = n] = Reframed(s, s.tickCount, n, s.running, s.stack)
         /\ [s EXCEPT !.running = r] = Reframed(s, s.tickCount, s.nextTaskId, r, s.stack)
         /\ [s EXCEPT !.stack = k] = Reframed(s, s.tickCount, s.nextTaskId, s.running, k)
BY GoodStateFields DEF Reframed

\* createTask.
LEMMA CreateTaskIInv ==
  ASSUME IdsDoNotWrap, IInv, NEW p \in Priorities, CreateTask(p)
  PROVE  IInv' /\ StepsThrough({rtos.nextTaskId}, {})
<1> DEFINE id == rtos.nextTaskId
           n == (rtos.nextTaskId + 1) % IdRange
           s == [rtos EXCEPT !.nextTaskId = n]
<1>1. Settled(rtos) /\ GoodState(rtos) /\ IdsBelowNext(rtos)
  BY DEF IInv, Settled
<1>2. rtos' = AddTask(s, id, p) /\ id <= MaxTaskId
  BY DEF CreateTask, Call
<1>3. id \in TaskIds /\ rtos.running \in BOOLEAN /\ rtos.stack \in Seq(TaskIds)
      /\ rtos.tickCount \in Ticks /\ DOMAIN rtos.tasks \subseteq TaskIds
  BY <1>1, GoodStateFields
<1>4. n = id + 1 /\ n \in TaskIds
  <2>1. id + 1 \in 0 .. IdRange - 1
    BY <1>2, <1>3, BoundsAssumption DEF TaskIds, IdsDoNotWrap
  <2> QED BY <2>1, ModSmall, BoundsAssumption DEF TaskIds
<1> HIDE DEF n
<1>5. s = Reframed(rtos, rtos.tickCount, n, rtos.running, rtos.stack)
  BY <1>1, ReframedBy
<1>6. /\ Settled(s) /\ s.tasks = rtos.tasks /\ s.nextTaskId = n
      /\ s.readyQueue = rtos.readyQueue /\ s.stack = rtos.stack
  <2>1. Settled(Reframed(rtos, rtos.tickCount, n, rtos.running, rtos.stack))
    BY <1>1, <1>3, <1>4, ReframedGood
  <2> HIDE DEF s
  <2> QED BY <2>1, <1>5 DEF Reframed
<1>7. id \notin DOMAIN s.tasks
  BY <1>1, <1>3, <1>6 DEF IdsBelowNext, TaskIds
<1> HIDE DEF s, id
<1>8. /\ Settled(AddTask(s, id, p))
      /\ AddTask(s, id, p).nextTaskId = s.nextTaskId
      /\ DOMAIN AddTask(s, id, p).tasks = DOMAIN s.tasks \cup {id}
      /\ AddTask(s, id, p).stack = s.stack
      /\ BucketsKeepOrder(s, AddTask(s, id, p), {id})
      /\ StaySuspended(s, AddTask(s, id, p), {})
  BY ONLY <1>3, <1>6, <1>7, p \in Priorities, AddTaskSettled
<1>9. Settled(rtos') /\ rtos'.nextTaskId = id + 1
      /\ DOMAIN rtos'.tasks = DOMAIN rtos.tasks \cup {id}
  BY ONLY <1>2, <1>4, <1>6, <1>8
<1>10. IdsBelowNext(rtos')
  BY <1>1, <1>3, <1>9 DEF IdsBelowNext, TaskIds, id
<1>11. StepsThrough({id}, {})
  <2>1. GoodState(rtos') /\ rtos'.stack = rtos.stack
    BY <1>2, <1>6, <1>8, <1>9 DEF Settled
  <2>2. BucketsKeepOrder(rtos, rtos', {id}) /\ StaySuspended(rtos, rtos', {})
    BY <1>2, <1>6, <1>8 DEF BucketsKeepOrder, StaySuspended
  <2> QED BY <2>1, <2>2 DEF StepsThrough
<1> QED BY <1>9, <1>10, <1>11 DEF IInv, id

\* The calls that neither create a task nor reset the ids keep IdsBelowNext.
LEMMA KeepsIInv ==
  ASSUME IInv, Settled(rtos'), rtos'.nextTaskId = rtos.nextTaskId,
         DOMAIN rtos'.tasks \subseteq DOMAIN rtos.tasks
  PROVE  IInv'
BY DEF IInv, IdsBelowNext

\* deleteTask.
LEMMA DeleteTaskIInv ==
  ASSUME IInv, NEW id \in TaskIds, DeleteTask(id)
  PROVE  IInv' /\ StepsThrough({id}, {}) /\ id \notin DOMAIN rtos'.tasks
<1> DEFINE u == Unqueue(rtos, id)
           e == [u EXCEPT !.tasks = [t \in DOMAIN u.tasks \ {id} |-> u.tasks[t]]]
           c == [e EXCEPT !.current = IDLE_TASK_ID]
<1>1. Settled(rtos) /\ id \in DOMAIN rtos.tasks /\ id # IDLE_TASK_ID
  BY DEF IInv, DeleteTask
<1>2. rtos' = IF rtos.current = id THEN Schedule(c) ELSE e
  BY DEF DeleteTask, Call
<1>3. /\ rtos.current = id => Settled(c)
      /\ rtos.current # id => Settled(e)
      /\ e.nextTaskId = rtos.nextTaskId
      /\ DOMAIN e.tasks = DOMAIN rtos.tasks \ {id}
      /\ c.nextTaskId = rtos.nextTaskId
      /\ DOMAIN c.tasks = DOMAIN rtos.tasks \ {id}
      /\ e.stack = rtos.stack
      /\ BucketsKeepOrder(rtos, e, {id}) /\ StaySuspended(rtos, e, {})
      /\ c.stack = rtos.stack
      /\ BucketsKeepOrder(rtos, c, {id})
      /\ StaySuspended(rtos, c, {})
  BY ONLY <1>1, EraseSettled
<1> HIDE DEF c, e
<1>4. CASE rtos.current = id
  <2>1. GoodState(c) /\ AllDueLater(c) /\ Awake(c, c.current)
    BY <1>3, <1>4 DEF Settled
  <2>2. /\ Settled(Schedule(c)) /\ Schedule(c).nextTaskId = c.nextTaskId
        /\ DOMAIN Schedule(c).tasks = DOMAIN c.tasks
    BY <2>1, ScheduleSettles
  <2>3. IInv' /\ id \notin DOMAIN rtos'.tasks
    BY <1>2, <1>3, <1>4, <2>2, KeepsIInv
  <2>4. StepsThrough({id}, {})
    BY <1>2, <1>3, <1>4, <2>1 DEF StepsThrough
  <2> QED BY <2>3, <2>4
<1>5. CASE rtos.current # id
  <2>1. IInv' /\ id \notin DOMAIN rtos'.tasks
    BY <1>2, <1>3, <1>5, KeepsIInv
  <2>2. StepsThrough({id}, {})
    BY <1>2, <1>3, <1>5 DEF StepsThrough, Settled
  <2> QED BY <2>1, <2>2
<1> QED BY <1>4, <1>5

\* start, stop and the return of a body.
LEMMA FrameIInv ==
  ASSUME IInv, Start \/ Stop \/ Return
  PROVE  /\ IInv'
         /\ rtos'.tasks = rtos.tasks /\ rtos'.readyQueue = rtos.readyQueue
         /\ ~Dispatches
<1>1. Settled(rtos) /\ GoodState(rtos)
  BY DEF IInv, Settled
<1>2. /\ rtos.tickCount \in Ticks /\ rtos.nextTaskId \in TaskIds /\ rtos.running \in BOOLEAN
      /\ rtos.stack \in Seq(TaskIds) /\ IDLE_TASK_ID \in DOMAIN rtos.tasks
  BY <1>1, GoodStateFields
<1>3. ASSUME NEW r \in BOOLEAN, NEW k \in Seq(TaskIds),
             rtos' = Reframed(rtos, rtos.tickCount, rtos.nextTaskId, r, k)
      PROVE  /\ IInv' /\ rtos'.tasks = rtos.tasks /\ rtos'.readyQueue = rtos.readyQueue
             /\ rtos'.stack = k
  <2>1. Settled(rtos')
    BY <1>1, <1>2, <1>3, ReframedGood
  <2>2. /\ rtos'.nextTaskId = rtos.nextTaskId /\ rtos'.tasks = rtos.tasks
        /\ rtos'.readyQueue = rtos.readyQueue /\ rtos'.stack = k
    BY <1>3 DEF Reframed
  <2> QED BY <2>1, <2>2, KeepsIInv
<1>5. Len(rtos.stack) \in Nat
  BY <1>2
<1>4. CASE Start
  <2>1. rtos' = [rtos EXCEPT !.running = TRUE]
    BY <1>2, <1>4 DEF Start, Call, EnsureIdleTask
  <2>2. /\ IInv' /\ rtos'.tasks = rtos.tasks /\ rtos'.readyQueue = rtos.readyQueue
        /\ rtos'.stack = rtos.stack
    BY <2>1, <1>1, <1>2, <1>3, ReframedBy
  <2> QED BY <2>2, <1>5 DEF Dispatches
<1>6. CASE Stop
  <2>1. rtos' = [rtos EXCEPT !.running = FALSE]
    BY <1>6 DEF Stop, Call
  <2>2. /\ IInv' /\ rtos'.tasks = rtos.tasks /\ rtos'.readyQueue = rtos.readyQueue
        /\ rtos'.stack = rtos.stack
    BY <2>1, <1>1, <1>2, <1>3, ReframedBy
  <2> QED BY <2>2, <1>5 DEF Dispatches
<1>7. CASE Return
  <2> DEFINE k == Front(rtos.stack)
  <2>1. rtos' = [rtos EXCEPT !.stack = k]
    BY <1>7 DEF Return
  <2>2. k \in Seq(TaskIds) /\ Len(k) = Len(rtos.stack) - 1
    BY <1>2, <1>5, <1>7 DEF Return, Front
  <2> HIDE DEF k
  <2>3. /\ IInv' /\ rtos'.tasks = rtos.tasks /\ rtos'.readyQueue = rtos.readyQueue
        /\ rtos'.stack = k
    BY <2>1, <2>2, <1>1, <1>2, <1>3, ReframedBy, ZenonT(30)
  <2> QED BY <2>2, <2>3, <1>5 DEF Dispatches
<1> QED BY <1>4, <1>6, <1>7

\* schedule() called directly.
LEMMA ScheduleIInv ==
  ASSUME IInv, ScheduleCall
  PROVE  IInv' /\ StepsThrough({}, {})
<1>1. GoodState(rtos) /\ AllDueLater(rtos) /\ Awake(rtos, rtos.current)
  BY DEF IInv, Settled
<1>2. rtos' = Schedule(rtos)
  BY DEF ScheduleCall, Call
<1>3. StepsThrough({}, {})
  BY <1>1, <1>2, NothingMoves DEF StepsThrough
<1> QED BY <1>1, <1>2, <1>3, ScheduleSettles, KeepsIInv

\* yield.
LEMMA YieldIInv ==
  ASSUME IInv, Yield
  PROVE  IInv' /\ StepsThrough({rtos.current}, {})
<1> DEFINE t == rtos.current
           moves == /\ t \in DOMAIN rtos.tasks \ {IDLE_TASK_ID}
                    /\ rtos.tasks[t].state = RUNNING
           w == AddToReadyQueue(RemoveFromReadyQueue(
                  [rtos EXCEPT !.tasks[t].state = READY], t), t)
<1>1. Settled(rtos) /\ GoodState(rtos) /\ rtos.running
  BY DEF IInv, Settled, Yield
<1>2. rtos' = Schedule(IF moves THEN w ELSE rtos)
  BY DEF Yield, Call
<1>3. CASE moves
  <2>1. /\ GoodState(w) /\ w.running = rtos.running
        /\ w.nextTaskId = rtos.nextTaskId /\ DOMAIN w.tasks = DOMAIN rtos.tasks
        /\ w.stack = rtos.stack
        /\ BucketsKeepOrder(rtos, w, {t}) /\ StaySuspended(rtos, w, {})
    <3>1. t \in DOMAIN rtos.tasks /\ rtos.tasks[t].state = RUNNING
      BY <1>3
    <3> HIDE DEF t
    <3> QED BY ONLY <1>1, <3>1, YieldGood
  <2>2. rtos' = Schedule(w)
    BY <1>2, <1>3
  <2> HIDE DEF w
  <2>3. w.running
    BY <1>1, <2>1
  <2>4. /\ Settled(Schedule(w)) /\ Schedule(w).nextTaskId = w.nextTaskId
        /\ DOMAIN Schedule(w).tasks = DOMAIN w.tasks
    BY <2>1, <2>3, ScheduleSettles
  <2>5. StepsThrough({t}, {})
    BY <2>1, <2>2 DEF StepsThrough
  <2> QED BY <2>1, <2>2, <2>4, <2>5, KeepsIInv
<1>4. CASE ~moves
  <2>1. rtos' = Schedule(rtos)
    BY <1>2, <1>4
  <2>2. BucketsKeepOrder(rtos, rtos, {t}) /\ StaySuspended(rtos, rtos, {})
    BY <1>1, GoodStateFields, SameOrder DEF BucketsKeepOrder, StaySuspended
  <2>3. StepsThrough({t}, {})
    BY <2>1, <2>2, <1>1 DEF StepsThrough
  <2> QED BY <2>1, <2>3, <1>1, ScheduleSettles, KeepsIInv
<1> QED BY <1>3, <1>4

\* delay.
LEMMA DelayIInv ==
  ASSUME IInv, NEW n \in DelayTicks, Delay(n)
  PROVE  IInv' /\ StepsThrough({rtos.current}, {rtos.current})
<1> DEFINE w == Asleep(rtos, n)
<1>1. /\ Settled(rtos) /\ GoodState(rtos) /\ rtos.running /\ rtos.current # IDLE_TASK_ID
      /\ rtos.current \in DOMAIN rtos.tasks
  BY GoodStateFields DEF IInv, Settled, Delay
<1>2. rtos' = Schedule(w)
  BY <1>1 DEF Delay, Call
<1>3. n \in Nat
  BY TicksAssumption
<1>4. /\ GoodState(w) /\ w.running = rtos.running
      /\ w.nextTaskId = rtos.nextTaskId /\ DOMAIN w.tasks = DOMAIN rtos.tasks
      /\ w.stack = rtos.stack
      /\ BucketsKeepOrder(rtos, w, {rtos.current})
      /\ StaySuspended(rtos, w, {rtos.current})
  BY <1>1, <1>3, AsleepGood
<1> HIDE DEF w
<1>5. w.running
  BY <1>1, <1>4
<1>6. /\ Settled(Schedule(w)) /\ Schedule(w).nextTaskId = w.nextTaskId
      /\ DOMAIN Schedule(w).tasks = DOMAIN w.tasks
  BY <1>4, <1>5, ScheduleSettles
<1>7. StepsThrough({rtos.current}, {rtos.current})
  BY <1>2, <1>4 DEF StepsThrough
<1> QED BY <1>2, <1>4, <1>6, <1>7, KeepsIInv

\* What tick() leaves: the counter advanced and the due sleepers woken.
LEMMA TickSettled ==
  ASSUME NEW s, Settled(s)
  PROVE  /\ Settled(Tick(s))
         /\ Tick(s).nextTaskId = s.nextTaskId
         /\ DOMAIN Tick(s).tasks = DOMAIN s.tasks
         /\ Tick(s).stack = s.stack
         /\ BucketsKeepOrder(s, Tick(s), {}) /\ StaySuspended(s, Tick(s), {})
<1> DEFINE t == (s.tickCount + 1) % TickRange
           r == Reframed(s, t, s.nextTaskId, s.running, s.stack)
<1>1. GoodState(s) /\ Awake(s, s.current)
  BY DEF Settled
<1>2. t \in Ticks
  <2>1. s.tickCount + 1 \in Nat
    BY <1>1, GoodStateFields DEF Ticks
  <2> QED BY <2>1, ModRange, TicksAssumption DEF Ticks
<1> HIDE DEF t
<1>3. Tick(s) = ProcessDelayQueue(r)
  <2>1. [s EXCEPT !.tickCount = t] = r
    BY <1>1, ReframedBy
  <2> QED BY <2>1 DEF Tick, t
<1>4. GoodState(r)
  BY <1>1, <1>2, GoodStateFields, ReframedGood
<1>5. /\ r.current = s.current /\ r.nextTaskId = s.nextTaskId /\ r.tasks = s.tasks
      /\ r.readyQueue = s.readyQueue /\ r.stack = s.stack
  BY DEF Reframed
<1> HIDE DEF r
<1>6. Awake(r, r.current)
  BY <1>1, <1>5 DEF Awake
<1>7. /\ GoodState(ProcessDelayQueue(r)) /\ AllDueLater(ProcessDelayQueue(r))
      /\ ProcessDelayQueue(r).current = r.current
      /\ ProcessDelayQueue(r).nextTaskId = r.nextTaskId
      /\ DOMAIN ProcessDelayQueue(r).tasks = DOMAIN r.tasks
      /\ Awake(ProcessDelayQueue(r), r.current)
  BY <1>4, <1>6, ProcessDelayQueueGood
<1>8. /\ BucketsKeepOrder(r, Tick(s), {}) /\ StaySuspended(r, Tick(s), {})
      /\ Tick(s).stack = r.stack
  BY <1>3, <1>4, WakingKeepsOrder
<1>9. BucketsKeepOrder(s, Tick(s), {}) /\ StaySuspended(s, Tick(s), {})
  BY <1>5, <1>8 DEF BucketsKeepOrder, StaySuspended
<1> QED BY <1>3, <1>5, <1>7, <1>8, <1>9 DEF Settled

\* tick(), alone or followed by schedule() in CPU::step.
LEMMA TickIInv ==
  ASSUME IInv, TickCall \/ CpuStep
  PROVE  IInv' /\ StepsThrough({}, {})
<1> DEFINE w == Tick(rtos)
<1>1. /\ Settled(w) /\ w.nextTaskId = rtos.nextTaskId
      /\ DOMAIN w.tasks = DOMAIN rtos.tasks
      /\ w.stack = rtos.stack
      /\ BucketsKeepOrder(rtos, w, {}) /\ StaySuspended(rtos, w, {})
  BY TickSettled DEF IInv
<1>2. rtos' = w \/ rtos' = Schedule(w)
  BY DEF TickCall, CpuStep, Call
<1> HIDE DEF w
<1>3. /\ Settled(Schedule(w)) /\ Schedule(w).nextTaskId = w.nextTaskId
      /\ DOMAIN Schedule(w).tasks = DOMAIN w.tasks
  BY <1>1, ScheduleSettles DEF Settled
<1>4. StepsThrough({}, {})
  BY <1>1, <1>2 DEF StepsThrough, Settled
<1> QED BY <1>1, <1>2, <1>3, <1>4, KeepsIInv

\* suspendTask.
LEMMA SuspendTaskIInv ==
  ASSUME IInv, NEW id \in TaskIds, SuspendTask(id)
  PROVE  /\ IInv' /\ StepsThrough({id}, {})
         /\ id \in DOMAIN rtos'.tasks /\ rtos'.tasks[id].state = SUSPENDED
<1> DEFINE w == Unqueue([rtos EXCEPT !.tasks[id].state = SUSPENDED], id)
<1>1. Settled(rtos) /\ id \in DOMAIN rtos.tasks
  BY DEF IInv, SuspendTask
<1>2. rtos' = w \/ rtos' = Schedule(w)
  BY DEF SuspendTask, Call
<1>3. /\ Settled(w) /\ w.nextTaskId = rtos.nextTaskId
      /\ DOMAIN w.tasks = DOMAIN rtos.tasks
      /\ w.stack = rtos.stack
      /\ w.tasks[id].state = SUSPENDED
      /\ BucketsKeepOrder(rtos, w, {id}) /\ StaySuspended(rtos, w, {})
  BY ONLY <1>1, SuspendGood
<1> HIDE DEF w
<1>4. /\ Settled(Schedule(w)) /\ Schedule(w).nextTaskId = w.nextTaskId
      /\ DOMAIN Schedule(w).tasks = DOMAIN w.tasks
  BY <1>3, ScheduleSettles DEF Settled
<1>5. StepsThrough({id}, {})
  BY <1>2, <1>3 DEF StepsThrough, Settled
<1>6. id \in DOMAIN rtos'.tasks /\ rtos'.tasks[id].state = SUSPENDED
  <2>1. StaySuspended(w, Schedule(w), {})
    BY <1>3, ScheduleDispatches DEF Settled
  <2> QED BY <2>1, <1>1, <1>2, <1>3, <1>4 DEF StaySuspended
<1> QED BY <1>2, <1>3, <1>4, <1>5, <1>6, KeepsIInv

\* resumeTask.
LEMMA ResumeTaskIInv ==
  ASSUME IInv, NEW id \in TaskIds, ResumeTask(id)
  PROVE  IInv' /\ StepsThrough({id}, {id})
<1> DEFINE w == AddToReadyQueue([rtos EXCEPT !.tasks[id].state = READY], id)
<1>1. /\ GoodState(rtos) /\ AllDueLater(rtos) /\ Awake(rtos, rtos.current)
      /\ id \in DOMAIN rtos.tasks
  BY DEF IInv, Settled, ResumeTask
<1>2. Awake(rtos, id)
  BY DEF ResumeTask, Awake, SUSPENDED, BLOCKED
<1>3. rtos' = w
  BY DEF ResumeTask, Call
<1>4. /\ GoodState(w)
      /\ AllDueLater(rtos) => AllDueLater(w)
      /\ Awake(rtos, rtos.current) => Awake(w, w.current)
      /\ w.nextTaskId = rtos.nextTaskId
      /\ DOMAIN w.tasks = DOMAIN rtos.tasks
      /\ w.stack = rtos.stack
      /\ BucketsKeepOrder(rtos, w, {id}) /\ StaySuspended(rtos, w, {id})
  BY ONLY <1>1, <1>2, MakeReadyGood
<1> HIDE DEF w
<1>5. Settled(w)
  BY <1>1, <1>4 DEF Settled
<1>6. StepsThrough({id}, {id})
  BY <1>3, <1>4 DEF StepsThrough
<1> QED BY <1>3, <1>4, <1>5, <1>6, KeepsIInv

\* reset.
LEMMA ResetIInv ==
  ASSUME IInv, Reset
  PROVE  IInv' /\ DOMAIN rtos'.tasks = {IDLE_TASK_ID} /\ rtos'.stack = rtos.stack
<1>1. rtos.stack \in Seq(TaskIds)
  BY GoodStateFields DEF IInv, Settled
<1>2. rtos' = EnsureIdleTask([Cleared EXCEPT !.stack = rtos.stack])
  BY DEF Reset, Call
<1>3. /\ Settled(rtos') /\ rtos'.nextTaskId = 1 /\ DOMAIN rtos'.tasks = {IDLE_TASK_ID}
      /\ rtos'.stack = rtos.stack
  <2>1. \A k \in Seq(TaskIds) :
          LET w == EnsureIdleTask([Cleared EXCEPT !.stack = k])
          IN Settled(w) /\ w.nextTaskId = 1 /\ DOMAIN w.tasks = {IDLE_TASK_ID} /\ w.stack = k
    BY FreshState
  <2> QED BY ONLY <1>1, <1>2, <2>1
<1> QED BY <1>3 DEF IInv, IdsBelowNext, IDLE_TASK_ID

\* IInv is inductive: every public function of the scheduler, and the return
\* of a task body, preserves it.
THEOREM Inductive ==
  ASSUME IdsDoNotWrap
  PROVE  Spec => []IInv
<1>1. IInv /\ [Next]_rtos => IInv'
  <2> SUFFICES ASSUME IInv, [Next]_rtos PROVE IInv'
    OBVIOUS
  <2>1. CASE \E p \in Priorities : CreateTask(p)
    BY <2>1, CreateTaskIInv
  <2>2. CASE \E id \in TaskIds : DeleteTask(id)
    BY <2>2, DeleteTaskIInv
  <2>3. CASE \E id \in TaskIds : SuspendTask(id)
    BY <2>3, SuspendTaskIInv
  <2>4. CASE \E id \in TaskIds : ResumeTask(id)
    BY <2>4, ResumeTaskIInv
  <2>5. CASE Start \/ Stop \/ Return
    BY <2>5, FrameIInv
  <2>6. CASE ScheduleCall
    BY <2>6, ScheduleIInv
  <2>7. CASE Yield
    BY <2>7, YieldIInv
  <2>8. CASE TickCall \/ CpuStep
    BY <2>8, TickIInv
  <2>9. CASE Reset
    BY <2>9, ResetIInv
  <2>10. CASE \E n \in DelayTicks : Delay(n)
    BY <2>10, DelayIInv
  <2>11. CASE UNCHANGED rtos
    BY <2>11 DEF IInv
  <2> QED BY <2>1, <2>2, <2>3, <2>4, <2>5, <2>6, <2>7, <2>8, <2>9, <2>10, <2>11 DEF Next
<1> QED BY <1>1, InitIInv, PTL DEF Spec

\* The members keep their C++ types and m_tasks always holds the idle task and
\* the current task, so schedule() never dereferences a missing entry.
THEOREM TypeCorrect ==
  ASSUME IdsDoNotWrap
  PROVE  Spec => []TypeOK
<1>1. IInv => TypeOK
  BY DEF IInv, Settled, GoodState, TypeOK
<1> QED BY <1>1, Inductive, PTL

\* The ready buckets and the delay queue always agree with the task states.
THEOREM QueuesAgree ==
  ASSUME IdsDoNotWrap
  PROVE  Spec => []QueuesMatchStates
<1>1. IInv => QueuesMatchStates
  BY DEF IInv, Settled, GoodState, QueuesMatchStates
<1> QED BY <1>1, Inductive, PTL

\* At most one task is RUNNING, and it is the current one, however deeply task
\* bodies are nested.
THEOREM AtMostOneRunning ==
  ASSUME IdsDoNotWrap
  PROVE  Spec => []OneRunning
<1>1. IInv => OneRunning
  BY DEF IInv, Settled, GoodState, OneRunning
<1> QED BY <1>1, Inductive, PTL

\* No sleeper is overdue when a call returns, also across a wrap of the tick
\* counter.
THEOREM NoSleeperOverdue ==
  ASSUME IdsDoNotWrap
  PROVE  Spec => []NoOverdueSleeper
<1>1. IInv => NoOverdueSleeper
  BY DEF IInv, Settled, NoOverdueSleeper
<1> QED BY <1>1, Inductive, PTL

\* Neither the idle task nor the current task is ever asleep, so delay() never
\* enters a task twice in the delay queue.
THEOREM CurrentNeverAsleep ==
  ASSUME IdsDoNotWrap
  PROVE  Spec => []CurrentAwake
<1>1. IInv => CurrentAwake
  BY DEF IInv, Settled, GoodState, CurrentAwake
<1> QED BY <1>1, Inductive, PTL

\* createTask never hands out the id of a living task.
THEOREM FreshIds ==
  ASSUME IdsDoNotWrap
  PROVE  Spec => []NextIdIsFree
<1>1. IInv => NextIdIsFree
  <2> SUFFICES ASSUME IInv PROVE rtos.nextTaskId \notin DOMAIN rtos.tasks
    BY DEF NextIdIsFree, Tasks
  <2>1. rtos.nextTaskId \in TaskIds
    BY GoodStateFields DEF IInv, Settled
  <2> QED BY <2>1 DEF IInv, IdsBelowNext, TaskIds
<1> QED BY <1>1, Inductive, PTL
-----------------------------------------------------------------------------
(***************************************************************************)
(* What a step may never do.                                               *)
(***************************************************************************)

\* What the shape of a call says of its whole effect, schedule() included.
LEMMA StepConsequences ==
  ASSUME GoodState(rtos), NEW X, NEW Y, StepsThrough(X, Y)
  PROVE  /\ Dispatches => \A id \in DOMAIN rtos'.tasks :
                            rtos'.tasks[id].state \in {READY, RUNNING} =>
                              rtos'.tasks[id].priority <= rtos'.tasks[rtos'.current].priority
         /\ BucketsKeepOrder(rtos, rtos', X \cup {rtos'.current})
         /\ StaySuspended(rtos, rtos', Y)
<1>1. PICK x : /\ GoodState(x)
               /\ x.stack = rtos.stack
               /\ BucketsKeepOrder(rtos, x, X)
               /\ StaySuspended(rtos, x, Y)
               /\ rtos' = x \/ rtos' = Schedule(x)
  BY DEF StepsThrough
<1>2. Len(rtos.stack) \in Nat
  BY GoodStateFields
<1>3. CASE rtos' = x
  <2>1. ~Dispatches
    BY <1>1, <1>2, <1>3 DEF Dispatches
  <2>2. BucketsKeepOrder(rtos, rtos', X \cup {rtos'.current})
    <3>1. ASSUME NEW p \in Priorities
          PROVE  KeepsOrder(rtos.readyQueue[p], x.readyQueue[p], X \cup {x.current})
      <4>1. KeepsOrder(rtos.readyQueue[p], x.readyQueue[p], X)
        BY <1>1 DEF BucketsKeepOrder
      <4> QED BY <4>1, OrderWeakens
    <3> QED BY <3>1, <1>3 DEF BucketsKeepOrder
  <2> QED BY <1>1, <1>3, <2>1, <2>2
<1>4. CASE rtos' = Schedule(x)
  <2> DEFINE y == Schedule(x)
  <2>1. /\ BucketsKeepOrder(x, y, {y.current})
        /\ StaySuspended(x, y, {})
        /\ DOMAIN y.tasks = DOMAIN x.tasks
        /\ x.running => \A id \in DOMAIN y.tasks :
                          y.tasks[id].state \in {READY, RUNNING} =>
                            y.tasks[id].priority <= y.tasks[y.current].priority
    BY <1>1, ScheduleDispatches
  <2>2. ~x.running => y = x
    BY DEF Schedule
  <2> HIDE DEF y
  <2>3. rtos' = y
    BY <1>4 DEF y
  <2>4. Dispatches => x.running
    BY <1>1, <1>2, <2>2, <2>3 DEF Dispatches
  <2>5. BucketsKeepOrder(rtos, y, X \cup {y.current})
    <3>1. ASSUME NEW p \in Priorities
          PROVE  KeepsOrder(rtos.readyQueue[p], y.readyQueue[p], X \cup {y.current})
      <4>1. x.readyQueue[p] \in Seq(TaskIds) /\ IsInjective(x.readyQueue[p])
        BY <1>1, GoodStateFields
      <4>2. /\ KeepsOrder(rtos.readyQueue[p], x.readyQueue[p], X)
            /\ KeepsOrder(x.readyQueue[p], y.readyQueue[p], {y.current})
        BY <1>1, <2>1 DEF BucketsKeepOrder
      <4> QED BY ONLY <4>1, <4>2, OrderComposes
    <3> QED BY <3>1 DEF BucketsKeepOrder
  <2>6. StaySuspended(rtos, y, Y)
    BY <1>1, <2>1 DEF StaySuspended
  <2> QED BY <2>1, <2>3, <2>4, <2>5, <2>6
<1> QED BY <1>1, <1>3, <1>4

\* The queue changes that a step of the order property allows: whoever else may
\* lose his place is the current task, or was or is not in a ready bucket.
FifoStep ==
  \A p \in Priorities : \A a, b \in Range(rtos.readyQueue[p]) :
    /\ Ahead(rtos.readyQueue[p], a, b)
    /\ {a, b} \subseteq Range(rtos'.readyQueue[p])
    => Ahead(rtos'.readyQueue[p], a, b) \/ a \in {rtos.current, rtos'.current}

IsReady(s, id) == id \in DOMAIN s.tasks /\ s.tasks[id].state \in {READY, RUNNING}

LEMMA FifoFromOrder ==
  ASSUME GoodState(rtos), GoodState(rtos'), NEW X,
         BucketsKeepOrder(rtos, rtos', X \cup {rtos'.current}),
         \A a \in X : a = rtos.current \/ ~IsReady(rtos, a) \/ ~IsReady(rtos', a)
  PROVE  FifoStep
<1> SUFFICES ASSUME NEW p \in Priorities,
                    NEW a \in Range(rtos.readyQueue[p]), NEW b \in Range(rtos.readyQueue[p]),
                    Ahead(rtos.readyQueue[p], a, b),
                    a \in Range(rtos'.readyQueue[p]), b \in Range(rtos'.readyQueue[p]),
                    a # rtos.current, a # rtos'.current
             PROVE  Ahead(rtos'.readyQueue[p], a, b)
  BY DEF FifoStep
<1>1. /\ rtos.readyQueue[p] \in Seq(TaskIds) /\ IsInjective(rtos.readyQueue[p])
      /\ Range(rtos.readyQueue[p]) = ReadyIn(rtos, p)
  BY GoodStateFields
<1>2. Range(rtos'.readyQueue[p]) = ReadyIn(rtos', p)
  BY GoodStateFields
<1>3. a \notin X
  BY <1>1, <1>2 DEF ReadyIn, IsReady
<1>4. a # b /\ ~Ahead(rtos.readyQueue[p], b, a)
  BY <1>1, OneAhead
<1>5. KeepsOrder(rtos.readyQueue[p], rtos'.readyQueue[p], X \cup {rtos'.current})
  BY DEF BucketsKeepOrder
<1> QED BY <1>3, <1>4, <1>5 DEF KeepsOrder

\* Every step of the scheduler: which tasks may have lost their place, and which
\* may have stopped being suspended.
LEMMA EveryStep ==
  ASSUME IdsDoNotWrap, IInv, Next
  PROVE  /\ GoodState(rtos')
         /\ \/ \E X, Y : /\ StepsThrough(X, Y)
                         /\ \A a \in X : \/ a = rtos.current
                                         \/ ~IsReady(rtos, a) \/ ~IsReady(rtos', a)
                         /\ \A t \in Y \cap DOMAIN rtos.tasks :
                              \/ rtos.tasks[t].state # SUSPENDED
                              \/ ResumeTask(t)
                              \/ t = rtos.current /\ \E n \in DelayTicks : Delay(n)
            \/ /\ rtos'.tasks = rtos.tasks /\ rtos'.readyQueue = rtos.readyQueue
               /\ ~Dispatches
            \/ Reset /\ DOMAIN rtos'.tasks = {IDLE_TASK_ID} /\ ~Dispatches
<1>1. GoodState(rtos) /\ IdsBelowNext(rtos) /\ rtos.nextTaskId \in TaskIds
  BY GoodStateFields DEF IInv, Settled
<1>2. IInv' => GoodState(rtos')
  BY DEF IInv, Settled
<1>3. ASSUME NEW p \in Priorities, CreateTask(p)
      PROVE  /\ IInv' /\ StepsThrough({rtos.nextTaskId}, {})
             /\ ~IsReady(rtos, rtos.nextTaskId)
  <2>1. rtos.nextTaskId \notin DOMAIN rtos.tasks
    BY <1>1 DEF IdsBelowNext, TaskIds
  <2> QED BY <2>1, <1>3, CreateTaskIInv DEF IsReady
<1>4. ASSUME NEW id \in TaskIds, DeleteTask(id)
      PROVE  IInv' /\ StepsThrough({id}, {}) /\ ~IsReady(rtos', id)
  BY <1>4, DeleteTaskIInv DEF IsReady
<1>5. ASSUME NEW id \in TaskIds, SuspendTask(id)
      PROVE  IInv' /\ StepsThrough({id}, {}) /\ ~IsReady(rtos', id)
  BY <1>5, SuspendTaskIInv DEF IsReady, SUSPENDED, READY, RUNNING
<1>6. ASSUME NEW id \in TaskIds, ResumeTask(id)
      PROVE  IInv' /\ StepsThrough({id}, {id}) /\ ~IsReady(rtos, id)
  <2>1. ~IsReady(rtos, id)
    BY <1>6 DEF ResumeTask, IsReady, SUSPENDED, READY, RUNNING
  <2> QED BY <2>1, <1>6, ResumeTaskIInv
<1>7. ASSUME Start \/ Stop \/ Return
      PROVE  /\ IInv' /\ rtos'.tasks = rtos.tasks /\ rtos'.readyQueue = rtos.readyQueue
             /\ ~Dispatches
  BY <1>7, FrameIInv
<1>8. ASSUME ScheduleCall \/ TickCall \/ CpuStep
      PROVE  IInv' /\ StepsThrough({}, {})
  BY <1>8, ScheduleIInv, TickIInv
<1>9. ASSUME Yield
      PROVE  IInv' /\ StepsThrough({rtos.current}, {})
  BY <1>9, YieldIInv
<1>10. ASSUME NEW n \in DelayTicks, Delay(n)
       PROVE  IInv' /\ StepsThrough({rtos.current}, {rtos.current})
  BY <1>10, DelayIInv
<1>11. ASSUME Reset
       PROVE  IInv' /\ DOMAIN rtos'.tasks = {IDLE_TASK_ID} /\ ~Dispatches
  <2>1. Len(rtos.stack) \in Nat
    BY <1>1, GoodStateFields
  <2> QED BY <2>1, <1>11, ResetIInv DEF Dispatches
<1>12. CASE \E p \in Priorities : CreateTask(p)
  <2> DEFINE X == {rtos.nextTaskId}
             Y == {}
  <2>1. /\ GoodState(rtos') /\ StepsThrough(X, Y)
        /\ \A a \in X : ~IsReady(rtos, a)
    BY <1>2, <1>3, <1>12
  <2>2. Y = {}
    OBVIOUS
  <2> HIDE DEF X, Y
  <2> QED BY <2>1, <2>2
<1>13. CASE \E id \in TaskIds : DeleteTask(id) \/ SuspendTask(id)
  <2>1. PICK id \in TaskIds : DeleteTask(id) \/ SuspendTask(id)
    BY <1>13
  <2> DEFINE X == {id}
             Y == {}
  <2>2. /\ GoodState(rtos') /\ StepsThrough(X, Y)
        /\ \A a \in X : ~IsReady(rtos', a)
    BY <1>2, <1>4, <1>5, <2>1
  <2>3. Y = {}
    OBVIOUS
  <2> HIDE DEF X, Y
  <2> QED BY <2>2, <2>3
<1>14. CASE \E id \in TaskIds : ResumeTask(id)
  <2>1. PICK id \in TaskIds : ResumeTask(id)
    BY <1>14
  <2> DEFINE X == {id}
  <2>2. /\ GoodState(rtos') /\ StepsThrough(X, X)
        /\ \A a \in X : ~IsReady(rtos, a) /\ ResumeTask(a)
    BY <1>2, <1>6, <2>1
  <2> HIDE DEF X
  <2> QED BY <2>2
<1>15. CASE Start \/ Stop \/ Return
  BY <1>2, <1>7, <1>15
<1>16. CASE ScheduleCall \/ TickCall \/ CpuStep
  BY <1>2, <1>8, <1>16
<1>17. CASE Yield
  BY <1>2, <1>9, <1>17
<1>18. CASE \E n \in DelayTicks : Delay(n)
  BY <1>2, <1>10, <1>18
<1>19. CASE Reset
  BY <1>2, <1>11, <1>19
<1> QED BY <1>12, <1>13, <1>14, <1>15, <1>16, <1>17, <1>18, <1>19 DEF Next

\* A body is only ever entered for a task of the numerically largest priority
\* among all tasks that are ready, those woken by this very call included:
\* schedule() looks at the buckets after processDelayQueue, and the buckets hold
\* every ready task under its priority.
THEOREM DispatchesHighest ==
  ASSUME IdsDoNotWrap
  PROVE  Spec => HighestPriorityFirst
<1>1. IInv /\ [Next]_rtos =>
        [Dispatches => \A id \in DOMAIN rtos'.tasks :
           Runnable(id)' => PriorityOf(id)' <= rtos'.tasks[rtos'.current].priority]_rtos
  <2> SUFFICES ASSUME IInv, Next, Dispatches, NEW id \in DOMAIN rtos'.tasks,
                      rtos'.tasks[id].state \in {READY, RUNNING}
               PROVE  rtos'.tasks[id].priority <= rtos'.tasks[rtos'.current].priority
    BY DEF Runnable, PriorityOf, StateOf, Tasks
  <2>1. PICK X, Y : StepsThrough(X, Y)
    BY EveryStep
  <2> QED BY <2>1, StepConsequences DEF IInv, Settled
<1> QED BY <1>1, Inductive, PTL DEF Spec, HighestPriorityFirst

\* Round robin does not reorder: a task stays ahead of those behind it in its
\* bucket until it is dispatched, yields, or leaves the bucket.  The calls append
\* to buckets and erase from them; only pickNextTask's rotation moves a task.
THEOREM RoundRobinKeepsOrder ==
  ASSUME IdsDoNotWrap
  PROVE  Spec => FifoWithinPriority
<1>1. IInv /\ [Next]_rtos =>
        [\A p \in Priorities : \A a, b \in Range(rtos.readyQueue[p]) :
           /\ Ahead(rtos.readyQueue[p], a, b)
           /\ {a, b} \subseteq Range(rtos'.readyQueue[p])
           => Ahead(rtos'.readyQueue[p], a, b) \/ a \in {rtos.current, rtos'.current}]_rtos
  <2> SUFFICES ASSUME IInv, Next PROVE FifoStep
    BY DEF FifoStep
  <2>1. GoodState(rtos) /\ GoodState(rtos')
    BY EveryStep DEF IInv, Settled
  <2>2. CASE \E X, Y : /\ StepsThrough(X, Y)
                       /\ \A a \in X : \/ a = rtos.current
                                       \/ ~IsReady(rtos, a) \/ ~IsReady(rtos', a)
    <3>1. PICK X, Y : /\ StepsThrough(X, Y)
                      /\ \A a \in X : \/ a = rtos.current
                                      \/ ~IsReady(rtos, a) \/ ~IsReady(rtos', a)
      BY <2>2
    <3>2. BucketsKeepOrder(rtos, rtos', X \cup {rtos'.current})
      BY <2>1, <3>1, StepConsequences
    <3> QED BY ONLY <2>1, <3>1, <3>2, FifoFromOrder
  <2>3. CASE rtos'.readyQueue = rtos.readyQueue
    BY <2>3 DEF FifoStep
  <2>4. CASE DOMAIN rtos'.tasks = {IDLE_TASK_ID}
    <3> SUFFICES ASSUME NEW p \in Priorities,
                        NEW a \in Range(rtos.readyQueue[p]), NEW b \in Range(rtos.readyQueue[p]),
                        Ahead(rtos.readyQueue[p], a, b),
                        {a, b} \subseteq Range(rtos'.readyQueue[p])
                 PROVE  FALSE
      BY DEF FifoStep
    <3>1. Range(rtos'.readyQueue[p]) \subseteq {IDLE_TASK_ID}
      <4>1. Range(rtos'.readyQueue[p]) = ReadyIn(rtos', p)
        BY <2>1, GoodStateFields
      <4> QED BY <4>1, <2>4 DEF ReadyIn
    <3>2. a # b
      BY <2>1, GoodStateFields, OneAhead
    <3> QED BY <3>1, <3>2
  <2> QED BY <2>2, <2>3, <2>4, EveryStep
<1> QED BY <1>1, Inductive, PTL DEF Spec, FifoWithinPriority

\* A suspended task starts again only through resumeTask or reset, or, if it is
\* the current task, through delay(): no schedule(), tick() or yield() wakes it.
THEOREM SuspensionHolds ==
  ASSUME IdsDoNotWrap
  PROVE  Spec => SuspendedStaysSuspended
<1>1. IInv /\ [Next]_rtos =>
        [\A id \in Tasks \cap DOMAIN rtos'.tasks :
           /\ StateOf(id) = SUSPENDED
           /\ StateOf(id)' # SUSPENDED
           => ResumeTask(id) \/ Reset \/ (id = rtos.current /\ \E n \in DelayTicks : Delay(n))]_rtos
  <2> SUFFICES ASSUME IInv, Next, NEW id \in DOMAIN rtos.tasks \cap DOMAIN rtos'.tasks,
                      rtos.tasks[id].state = SUSPENDED, rtos'.tasks[id].state # SUSPENDED
               PROVE  \/ ResumeTask(id) \/ Reset
                      \/ (id = rtos.current /\ \E n \in DelayTicks : Delay(n))
    BY DEF StateOf, Tasks
  <2>1. CASE \E X, Y : /\ StepsThrough(X, Y)
                       /\ \A t \in Y \cap DOMAIN rtos.tasks :
                            \/ rtos.tasks[t].state # SUSPENDED
                            \/ ResumeTask(t)
                            \/ t = rtos.current /\ \E n \in DelayTicks : Delay(n)
    <3>1. PICK X, Y : /\ StepsThrough(X, Y)
                      /\ \A t \in Y \cap DOMAIN rtos.tasks :
                           \/ rtos.tasks[t].state # SUSPENDED
                           \/ ResumeTask(t)
                           \/ t = rtos.current /\ \E n \in DelayTicks : Delay(n)
      BY <2>1
    <3>2. StaySuspended(rtos, rtos', Y)
      BY <3>1, StepConsequences DEF IInv, Settled
    <3>3. id \in Y
      BY <3>2 DEF StaySuspended
    <3> QED BY <3>1, <3>3
  <2> QED BY <2>1, EveryStep
<1> QED BY <1>1, Inductive, PTL DEF Spec, SuspendedStaysSuspended
=============================================================================
