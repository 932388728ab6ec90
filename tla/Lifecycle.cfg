\* Two names, two firmwares (one firmware may be registered under both names),
\* runs of up to two steps.
CONSTANTS
  Names = {1, 2}
  Images = {f1, f2}
  NoImage = NoImage
  Cycles = {0, 2}
SPECIFICATION FairSpec
INVARIANTS TypeOK ActiveIsRegistered OnlyActiveIsUp
PROPERTIES HaltMeansDown RunReturns SlotSpec
