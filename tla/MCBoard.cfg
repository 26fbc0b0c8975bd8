SPECIFICATION MCFairSpec
CHECK_DEADLOCK FALSE
CONSTANTS
  Goals = {1, 2, 3}
  SlotCount = 2
  Grants = {1, 2}
  MAX_SEGMENTS = 2
  Mishaps = {"cut", "tear", "erase"}
  MaxMishaps = 2
  MaxSpawns = 3
INVARIANTS
  SlotsAgree
  DrivesCommittedSeed
PROPERTIES
  RefusedOnlyWhenFull
  StoreIsRunStore
  Answers
