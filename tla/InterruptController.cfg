SPECIFICATION FairSpec
CONSTANTS
  MAX_INTERRUPTS = 3
  Levels = {128, 255}
  MaxDepth = 2
INVARIANTS TypeOK HandlersAreRegistered
PROPERTIES ServedLineIsCleared MostUrgentFirst MostUrgentIsServed
