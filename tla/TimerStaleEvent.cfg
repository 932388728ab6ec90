SPECIFICATION Spec
CONSTANTS
  CountRange = 3
  Timers = {t1}
  Compares = {0, 2}
  Options = {}
  Leads = {0, 1}
  MaxClock = 3
  MaxEventId = 3
PROPERTY MatchAtCompare
CHECK_DEADLOCK FALSE
