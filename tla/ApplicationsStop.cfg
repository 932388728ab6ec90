SPECIFICATION Spec
CONSTANTS
  CountRange = 8
  Pin = 3
  Compare = 2
  Interval = 2
  Bytes = {1, 2}
  FifoBound = 2
  MaxClock = 5
  MaxEventId = 4
PROPERTY StopShutsDown
CHECK_DEADLOCK FALSE
