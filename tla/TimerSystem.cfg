SPECIFICATION FairSpec
CONSTANTS
  CountRange = 3
  Timers = {t1}
  Compares = {0, 2}
  Options = {"INT_ENABLE"}
  Leads = {0, 1}
  MaxClock = 3
  MaxEventId = 3
INVARIANTS TypeOK NoEventTwice OneEventPerTimer EventTracksCounter
PROPERTIES NothingOvertaken MatchRaisesInterrupt EventsAreServed
CHECK_DEADLOCK FALSE
