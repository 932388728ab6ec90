\* Liveness: the cheapest instance in which two tasks of one priority take
\* turns, sleep across a tick wrap and nest.
CONSTANTS
  Priorities = {0, 1}
  DelayTicks = {1}
  TickRange = 3
  IdRange = 4
  MaxTaskId = 2
  MaxDepth = 2
SPECIFICATION FairSpec
PROPERTIES RoundRobin SleepersWake
