\* Safety of the scheduler: two tasks beside idle, two priorities, one of them
\* the idle task's own, a tick counter that wraps.
CONSTANTS
  Priorities = {0, 1}
  DelayTicks = {0, 1, 2}
  TickRange = 4
  IdRange = 4
  MaxTaskId = 2
  MaxDepth = 2
SPECIFICATION Spec
INVARIANTS TypeOK QueuesMatchStates OneRunning NoOverdueSleeper CurrentAwake NextIdIsFree
PROPERTIES HighestPriorityFirst FifoWithinPriority SuspendedStaysSuspended
