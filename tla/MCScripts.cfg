SPECIFICATION MCFairSpec
CONSTANTS
  MaxGoals = 2
  MaxId = 2
  MaxFailures = 2
  BackoffBase = 1
  BackoffCap = 2
  OverdueAfter = 2
  NoGoal = NoGoal
  MaxMemory = 3
  MaxStamp = 16
  RECALL_K = 2
  BRIEF_CAP = 200
  MaxPinned = 2
  Specs <- MCSpecs
  Notes = {n1, n2, n3}
  Observations = {o1, o2}
  CommandBatches <- MCBatches
  Endings = {"Completed", "Stuck"}
  HarvestCounts = {0, 1, 2}
  InputsVanish = FALSE
  Horizon = 5
INVARIANTS
  LedgerNeverRefuses
  CheckpointRestorable
  HarvestNeverRefused
  BriefsAreRecall
PROPERTIES
  ObligationKept
  BudgetsEscrowed
  PinnedNeverEvicted
  EventuallyServed
