\* What the comment on delay() says, with bodies that nest.
CONSTANTS
  Priorities = {0, 1}
  DelayTicks = {1}
  TickRange = 3
  IdRange = 4
  MaxTaskId = 2
  MaxDepth = 2
SPECIFICATION Spec
PROPERTIES DelayBlocksCaller
