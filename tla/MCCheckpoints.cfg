SPECIFICATION MCFairSpec
CHECK_DEADLOCK FALSE
CONSTANTS
  D1 = D1
  D2 = D2
  D3 = D3
  Digests <- MCDigests
  NoDigest = NoDigest
  Items = 3
  Slots = 6
  Mishaps = {"cut", "tear", "fault", "reinstall"}
  MaxMishaps = 3
  Steady = TRUE
  Revisits = TRUE
INVARIANT AnsweredIsLoadable
INVARIANT NewestStays
INVARIANT RecordsHold
INVARIANT CompactionKeeps
PROPERTY LogIsStore
PROPERTY ContinuesAsNew
