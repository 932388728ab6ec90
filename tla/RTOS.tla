-------------------------------- MODULE RTOS --------------------------------
(***************************************************************************)
(* The RTOS task scheduler, class efs::rtos::Scheduler                     *)
(* (src/src/rtos/rtos_scheduler.cpp, src/include/rtos/*.hpp).              *)
(*                                                                         *)
(* The simulator has one thread: a task is a callback, and "running" a     *)
(* task is a nested call of its body from inside schedule().  Any body may *)
(* call back into the scheduler (yield, delay, suspend, create, delete,    *)
(* even reset), so a second dispatch starts before the first has returned. *)
(* The field stack is that C++ call stack.  No scheduler function does     *)
(* anything after the body it called returns, so a return is just a pop.   *)
(*                                                                         *)
(* Every private member function is an operator from scheduler state to    *)
(* scheduler state; every public one is an action that applies them to the *)
(* variable rtos in the order the code calls them.  Names, stack sizes and *)
(* execution counts of tasks are not part of any decision and are left     *)
(* out.                                                                    *)
(***************************************************************************)
EXTENDS Integers, Sequences, SequencesExt, Queues

CONSTANTS
  Priorities,   \* the uint8 priorities in use, IDLE_TASK_PRIORITY among them
  DelayTicks,   \* the arguments delay() is called with
  TickRange,    \* number of values of the uint64 tick counter (2^64 in C++)
  IdRange,      \* number of values of the uint32 TaskId (2^32 in C++)
  MaxTaskId,    \* bound: createTask is called while the next id is at most this
  MaxDepth      \* bound: nesting of task bodies on the C++ stack

IDLE_TASK_ID == 0
IDLE_TASK_PRIORITY == 0

ASSUME PrioritiesAssumption == /\ Priorities \subseteq 0 .. 255
                               /\ IDLE_TASK_PRIORITY \in Priorities
ASSUME TicksAssumption == /\ TickRange \in Nat \ {0}
                          /\ DelayTicks \subseteq 0 .. TickRange - 1
ASSUME BoundsAssumption == /\ IdRange \in Nat \ {0, 1}
                           /\ MaxTaskId \in 0 .. IdRange - 1
                           /\ MaxDepth \in Nat

VARIABLE rtos   \* the members of the Scheduler object, and the call stack

TaskIds == 0 .. IdRange - 1
Ticks == 0 .. TickRange - 1

READY == "READY"
RUNNING == "RUNNING"
BLOCKED == "BLOCKED"
SUSPENDED == "SUSPENDED"

(***************************************************************************)
(* TERMINATED is set only on a task erased in the next statement, so no    *)
(* task of the map is ever in it.                                          *)
(***************************************************************************)
TaskControlBlock == [priority : Priorities,
                     state : {READY, RUNNING, BLOCKED, SUSPENDED},
                     delayUntil : Ticks]

NewTask(p) == [priority |-> p, state |-> READY, delayUntil |-> 0]

(***************************************************************************)
(* The std::map of ready buckets is a total function here: an absent       *)
(* bucket and an empty one are treated alike by every reader of the map.   *)
(***************************************************************************)
IsSchedulerState(s) ==
  /\ s \in [tasks : {s.tasks},
            readyQueue : [Priorities -> Seq(TaskIds)],
            delayQueue : Seq(TaskIds),
            tickCount : Ticks,
            nextTaskId : TaskIds,
            current : TaskIds,
            running : BOOLEAN,
            stack : Seq(TaskIds)]
  /\ DOMAIN s.tasks \subseteq TaskIds
  /\ s.tasks \in [DOMAIN s.tasks -> TaskControlBlock]

-----------------------------------------------------------------------------
(***************************************************************************)
(* Private member functions.                                               *)
(***************************************************************************)

\* Mutant: the new entry jumps to the front of its bucket.
AddToReadyQueueAtFront(s, id) ==
  IF id \in DOMAIN s.tasks /\ ~Contains(s.readyQueue[s.tasks[id].priority], id)
  THEN [s EXCEPT !.readyQueue[s.tasks[id].priority] = <<id>> \o @]
  ELSE s

\* addToReadyQueue: at the back of the bucket of its priority, once.
AddToReadyQueue(s, id) ==
  IF id \in DOMAIN s.tasks /\ ~Contains(s.readyQueue[s.tasks[id].priority], id)
  THEN [s EXCEPT !.readyQueue[s.tasks[id].priority] = Append(@, id)]
  ELSE s

\* removeFromReadyQueue: erases the first occurrence in its own bucket.
RemoveFromReadyQueue(s, id) ==
  IF id \in DOMAIN s.tasks
  THEN [s EXCEPT !.readyQueue[s.tasks[id].priority] = RemoveFirst(@, id)]
  ELSE s

\* Mutant: a sleeper that is suspended or deleted stays in the delay queue.
UnqueueReadyOnly(s, id) == RemoveFromReadyQueue(s, id)

\* What deleteTask and suspendTask do to both queues.
Unqueue(s, id) ==
  LET t == RemoveFromReadyQueue(s, id)
  IN [t EXCEPT !.delayQueue = RemoveFirst(@, id)]

\* Mutant: a task due exactly now sleeps on.
DueLate(s) == {id \in Range(s.delayQueue) : /\ id \in DOMAIN s.tasks
                                            /\ s.tasks[id].delayUntil < s.tickCount}

\* The sleepers whose time has come.
Due(s) == {id \in Range(s.delayQueue) : /\ id \in DOMAIN s.tasks
                                        /\ s.tasks[id].delayUntil <= s.tickCount}

(***************************************************************************)
(* processDelayQueue: every due sleeper becomes READY, is appended to its  *)
(* bucket (in the order of the delay queue, and only if it is not there    *)
(* already) and leaves the delay queue.                                    *)
(***************************************************************************)
ProcessDelayQueue(s) ==
  LET due == Due(s)
      woken(p) == {id \in due : /\ s.tasks[id].priority = p
                                /\ id \notin Range(s.readyQueue[p])}
  IN [s EXCEPT
        !.tasks = [id \in DOMAIN s.tasks |->
                     IF id \in due THEN [s.tasks[id] EXCEPT !.state = READY]
                                   ELSE s.tasks[id]],
        !.readyQueue = [p \in Priorities |->
                          s.readyQueue[p] \o FilterSeq(s.delayQueue, woken(p))],
        !.delayQueue = FilterSeq(s.delayQueue, Range(s.delayQueue) \ due)]

\* The buckets pickNextTask may stop at.
NonEmpty(s) == {p \in Priorities : s.readyQueue[p] # << >>}

\* Mutant: std::map in its default order, smallest number first.
BottomPriority(s) == CHOOSE p \in NonEmpty(s) : \A q \in NonEmpty(s) : p <= q

\* The first of them in the order of std::greater.
TopPriority(s) == CHOOSE p \in NonEmpty(s) : \A q \in NonEmpty(s) : q <= p

\* pickNextTask: the id it returns ...
PickNextTask(s) ==
  IF NonEmpty(s) = {} THEN IDLE_TASK_ID ELSE Head(s.readyQueue[TopPriority(s)])

\* Mutant: pickNextTask without its rotation.
NoRotate(s) == s

\* ... and the rotation of that task to the back of its bucket.
Rotate(s) ==
  IF NonEmpty(s) = {} THEN s
  ELSE [s EXCEPT !.readyQueue[TopPriority(s)] = Append(Tail(@), Head(@))]

\* Mutant: the outgoing task is not demoted.
SwitchToOnly(s, next) ==
  [s EXCEPT !.tasks[next].state = IF @ \in {READY, RUNNING} THEN RUNNING ELSE @,
            !.current = next,
            !.stack = IF s.tasks[next].state \in {READY, RUNNING}
                      THEN Append(s.stack, next) ELSE s.stack]

(***************************************************************************)
(* The rest of schedule(): the old current task falls back to READY if it  *)
(* was RUNNING, the chosen one becomes current and, if READY or RUNNING,   *)
(* its body is entered.                                                    *)
(***************************************************************************)
SwitchTo(s, next) ==
  LET enters == s.tasks[next].state \in {READY, RUNNING}
      demoted == {id \in {s.current} \ {next} : /\ id \in DOMAIN s.tasks
                                                /\ s.tasks[id].state = RUNNING}
  IN [s EXCEPT
        !.tasks = [id \in DOMAIN s.tasks |->
                     IF id \in demoted THEN [s.tasks[id] EXCEPT !.state = READY]
                     ELSE IF id = next /\ enters
                          THEN [s.tasks[id] EXCEPT !.state = RUNNING]
                          ELSE s.tasks[id]],
        !.current = next,
        !.stack = IF enters THEN Append(s.stack, next) ELSE s.stack]

Schedule(s) ==
  IF ~s.running THEN s
  ELSE LET w == ProcessDelayQueue(s)
       IN SwitchTo(Rotate(w), PickNextTask(w))

AddTask(s, id, p) ==
  AddToReadyQueue(
    [s EXCEPT !.tasks = [t \in DOMAIN s.tasks \cup {id} |->
                           IF t = id THEN NewTask(p) ELSE s.tasks[t]]], id)

EnsureIdleTask(s) ==
  IF IDLE_TASK_ID \in DOMAIN s.tasks THEN s
  ELSE AddTask(s, IDLE_TASK_ID, IDLE_TASK_PRIORITY)

\* The members as their initializers and reset() leave them.
Cleared == [tasks |-> [t \in {} |-> NewTask(IDLE_TASK_PRIORITY)],
            readyQueue |-> [p \in Priorities |-> << >>],
            delayQueue |-> << >>,
            tickCount |-> 0,
            nextTaskId |-> 1,
            current |-> IDLE_TASK_ID,
            running |-> FALSE,
            stack |-> << >>]

-----------------------------------------------------------------------------
(***************************************************************************)
(* Public member functions.  Any of them may be called by the host program *)
(* between CPU steps (stack empty) or by the body on top of the stack; the *)
(* idle task's body is an empty lambda and calls nothing.  A body whose    *)
(* task was deleted meanwhile is still on the stack and may go on calling. *)
(***************************************************************************)
MayCall == rtos.stack # << >> => Last(rtos.stack) # IDLE_TASK_ID

Call(s) == /\ MayCall
           /\ Len(s.stack) <= MaxDepth
           /\ rtos' = s

Init == rtos = EnsureIdleTask(Cleared)

\* createTask with a null function throws before it changes anything.
CreateTask(p) ==
  /\ rtos.nextTaskId <= MaxTaskId
  /\ Call(AddTask([rtos EXCEPT !.nextTaskId = (@ + 1) % IdRange],
                  rtos.nextTaskId, p))

\* Mutant: current keeps naming the task that was erased.
DeleteTaskKeepsCurrent(id) ==
  /\ id \in DOMAIN rtos.tasks \ {IDLE_TASK_ID}
  /\ LET u == Unqueue(rtos, id)
     IN Call([u EXCEPT !.tasks = [t \in DOMAIN u.tasks \ {id} |-> u.tasks[t]]])

\* deleteTask of the idle task or of an unknown id returns false.
DeleteTask(id) ==
  /\ id \in DOMAIN rtos.tasks \ {IDLE_TASK_ID}
  /\ LET u == Unqueue(rtos, id)
         erased == [u EXCEPT !.tasks = [t \in DOMAIN u.tasks \ {id} |-> u.tasks[t]]]
     IN Call(IF rtos.current = id
             THEN Schedule([erased EXCEPT !.current = IDLE_TASK_ID])
             ELSE erased)

Start == Call([EnsureIdleTask(rtos) EXCEPT !.running = TRUE])

Stop == Call([rtos EXCEPT !.running = FALSE])

\* schedule() called directly.
ScheduleCall == Call(Schedule(rtos))

Yield ==
  /\ rtos.running
  /\ LET t == rtos.current
         moves == /\ t \in DOMAIN rtos.tasks \ {IDLE_TASK_ID}
                  /\ rtos.tasks[t].state = RUNNING
     IN Call(Schedule(
          IF moves
          THEN AddToReadyQueue(
                 RemoveFromReadyQueue([rtos EXCEPT !.tasks[t].state = READY], t), t)
          ELSE rtos))

\* Mutant: the sleeper stays in its ready bucket.
AsleepInReadyQueue(s, ticks) ==
  LET t == s.current
      b == [s EXCEPT !.tasks[t].state = BLOCKED,
                     !.tasks[t].delayUntil = (s.tickCount + ticks) % TickRange]
  IN [b EXCEPT !.delayQueue = Append(@, t)]

\* The state delay() hands to schedule(): the current task is put to sleep.
Asleep(s, ticks) ==
  LET t == s.current
      b == [s EXCEPT !.tasks[t].state = BLOCKED,
                     !.tasks[t].delayUntil = (s.tickCount + ticks) % TickRange]
  IN [RemoveFromReadyQueue(b, t) EXCEPT !.delayQueue = Append(@, t)]

\* Mutant: delay() without its check for the idle task.
DelayAnyTask(ticks) == rtos.running /\ Call(Schedule(Asleep(rtos, ticks)))

\* delay() sleeps the current task, whichever body calls it.
Delay(ticks) ==
  /\ rtos.running /\ rtos.current # IDLE_TASK_ID
  /\ Call(Schedule(IF rtos.current \in DOMAIN rtos.tasks
                   THEN Asleep(rtos, ticks) ELSE rtos))

\* Mutant: tick() only counts.
TickOnly(s) == [s EXCEPT !.tickCount = (@ + 1) % TickRange]

\* tick().
Tick(s) == ProcessDelayQueue([s EXCEPT !.tickCount = (@ + 1) % TickRange])

\* tick() called directly.
TickCall == Call(Tick(rtos))

SuspendTask(id) ==
  /\ id \in DOMAIN rtos.tasks
  /\ LET s == Unqueue([rtos EXCEPT !.tasks[id].state = SUSPENDED], id)
     IN Call(IF id = rtos.current /\ rtos.running THEN Schedule(s) ELSE s)

ResumeTask(id) ==
  /\ id \in DOMAIN rtos.tasks
  /\ rtos.tasks[id].state = SUSPENDED
  /\ Call(AddToReadyQueue([rtos EXCEPT !.tasks[id].state = READY], id))

\* Mutant: the id counter restarts although the tasks are kept.
ResetIdsOnly == Call([rtos EXCEPT !.running = FALSE, !.nextTaskId = 1])

Reset == Call(EnsureIdleTask([Cleared EXCEPT !.stack = rtos.stack]))

(***************************************************************************)
(* CPU::step while the RTOS runs: tick() then schedule(), nothing between. *)
(***************************************************************************)
CpuStep == /\ rtos.stack = << >>
           /\ rtos.running
           /\ Call(Schedule(Tick(rtos)))

\* Task::execute returns to schedule(), and schedule() to its caller.
Return == /\ rtos.stack # << >>
          /\ rtos' = [rtos EXCEPT !.stack = Front(@)]

Next == \/ \E p \in Priorities : CreateTask(p)
        \/ \E id \in TaskIds : DeleteTask(id) \/ SuspendTask(id) \/ ResumeTask(id)
        \/ Start \/ Stop \/ ScheduleCall \/ Yield \/ TickCall \/ Reset
        \/ \E n \in DelayTicks : Delay(n)
        \/ CpuStep
        \/ Return

Spec == Init /\ [][Next]_rtos

(***************************************************************************)
(* Bodies return (the scheduler is cooperative and relies on it), and the  *)
(* host keeps stepping the CPU whenever it has control back: CPU::run is a *)
(* loop of steps.  No other call is fair.  The second conjunct is strong   *)
(* fairness of CpuStep with its enabling condition written out (TLC is     *)
(* slow to evaluate ENABLED of a nested call).                             *)
(***************************************************************************)
FairSpec == /\ Spec
            /\ WF_rtos(Return)
            /\ []<>(rtos.running /\ rtos.stack = << >>) => []<><<CpuStep>>_rtos

-----------------------------------------------------------------------------
(***************************************************************************)
(* Properties.                                                             *)
(***************************************************************************)
Tasks == DOMAIN rtos.tasks
StateOf(id) == rtos.tasks[id].state
PriorityOf(id) == rtos.tasks[id].priority
Runnable(id) == id \in Tasks /\ StateOf(id) \in {READY, RUNNING}

\* The members keep their C++ types, and the idle task and the current task
\* are entries of m_tasks (schedule() dereferences m_tasks[nextId] unchecked).
WellFormed(s) == /\ IsSchedulerState(s)
                 /\ {IDLE_TASK_ID, s.current} \subseteq DOMAIN s.tasks
TypeOK == WellFormed(rtos)

\* Between calls, the queues and the task states agree: a task is in the
\* bucket of its priority exactly when it is READY or RUNNING, in the delay
\* queue exactly when it is BLOCKED, at most once in each, and no queue names
\* a task that was deleted.  Breaks if any of createTask, deleteTask, delay,
\* suspendTask, resumeTask or processDelayQueue forgets one of the queues.
ReadyIn(s, p) == {id \in DOMAIN s.tasks : /\ s.tasks[id].state \in {READY, RUNNING}
                                          /\ s.tasks[id].priority = p}
BlockedIn(s) == {id \in DOMAIN s.tasks : s.tasks[id].state = BLOCKED}
QueuesMatch(s) ==
  /\ \A p \in Priorities : /\ IsInjective(s.readyQueue[p])
                           /\ Range(s.readyQueue[p]) = ReadyIn(s, p)
  /\ IsInjective(s.delayQueue)
  /\ Range(s.delayQueue) = BlockedIn(s)
QueuesMatchStates == QueuesMatch(rtos)

\* However deeply bodies are nested, at most one task is RUNNING and it is the
\* current one (schedule() demotes the task it switches away from).
OnlyCurrentRuns(s) == \A id \in DOMAIN s.tasks :
                        s.tasks[id].state = RUNNING => id = s.current
OneRunning == OnlyCurrentRuns(rtos)

\* No sleeper is overdue when a call returns: delay() and tick() leave in the
\* delay queue only tasks that are due strictly later, also when the tick
\* counter wraps around.
AllDueLater(s) == \A id \in Range(s.delayQueue) : s.tasks[id].delayUntil > s.tickCount
NoOverdueSleeper == AllDueLater(rtos)

\* The idle task never sleeps and the current task is never asleep, so delay()
\* cannot enter the same task twice in the delay queue.
Awake(s, id) == s.tasks[id].state # BLOCKED
CurrentAwake == Awake(rtos, IDLE_TASK_ID) /\ Awake(rtos, rtos.current)

\* The id that the next createTask will hand out belongs to no living task
\* (m_tasks[id] = ... would silently destroy it).  It rests on ids being handed
\* out in increasing order, and holds only until the 32-bit counter wraps.
IdsBelowNext(s) == \A id \in DOMAIN s.tasks : id < s.nextTaskId
NextIdIsFree == rtos.nextTaskId \notin Tasks

Dispatches == Len(rtos'.stack) > Len(rtos.stack)

\* A body is only ever entered for a task of the numerically largest priority
\* among all tasks that are ready, those woken by this very call included.
HighestPriorityFirst ==
  [][Dispatches => \A id \in DOMAIN rtos'.tasks :
       Runnable(id)' => PriorityOf(id)' <= rtos'.tasks[rtos'.current].priority]_rtos

Ahead(q, a, b) == \E i, j \in DOMAIN q : i < j /\ q[i] = a /\ q[j] = b

\* Round robin does not reorder: a task stays ahead of those behind it in its
\* bucket until it is dispatched, yields, or leaves the bucket.
FifoWithinPriority ==
  [][\A p \in Priorities : \A a, b \in Range(rtos.readyQueue[p]) :
       /\ Ahead(rtos.readyQueue[p], a, b)
       /\ {a, b} \subseteq Range(rtos'.readyQueue[p])
       => Ahead(rtos'.readyQueue[p], a, b) \/ a \in {rtos.current, rtos'.current}]_rtos

\* A suspended task starts again only through resumeTask, or, if it is the
\* current task (suspended while the scheduler was stopped), through delay().
SuspendedStaysSuspended ==
  [][\A id \in Tasks \cap DOMAIN rtos'.tasks :
       /\ StateOf(id) = SUSPENDED
       /\ StateOf(id)' # SUSPENDED
       => ResumeTask(id) \/ Reset \/ (id = rtos.current /\ \E n \in DelayTicks : Delay(n))]_rtos

\* Time slicing: a task that from some moment on is always ready at the top
\* priority of a running scheduler is dispatched again and again.
AtTop(id) == /\ rtos.running
             /\ Runnable(id)
             /\ PriorityOf(id) = TopPriority(rtos)
RoundRobin == \A id \in 0 .. MaxTaskId :
                <>[]AtTop(id) => []<>(rtos.current = id)

\* A sleeper wakes (or is suspended or deleted) if the scheduler keeps being
\* stepped, whatever the other tasks do and across a wrap of the tick counter.
SleepersWake ==
  []<>(rtos.running /\ rtos.stack = << >>)
    => \A id \in 1 .. MaxTaskId :
         (id \in Tasks /\ StateOf(id) = BLOCKED) ~> ~(id \in Tasks /\ StateOf(id) = BLOCKED)

\* delay() "Blocks current running task": when a body calls it, the task that
\* goes to sleep is the one whose body is running.  Refuted: after a nested
\* dispatch has returned, m_currentTaskId still names the nested task.
DelayBlocksCaller ==
  [][\A n \in DelayTicks : n > 0 /\ rtos.stack # << >> /\ Delay(n)
       => Range(rtos'.delayQueue) \subseteq Range(rtos.delayQueue) \cup {Last(rtos.stack)}]_rtos
=============================================================================
