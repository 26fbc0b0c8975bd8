SPECIFICATION MCOperatedFairSpec
CONSTANTS
  MaxGoals = 2
  MaxId = 2
  MaxFailures = 2
  BackoffBase = 1
  BackoffCap = 2
  OverdueAfter = 2
  NoGoal = NoGoal
  MaxMemory = 2
  MaxStamp = 16
  MaxPinned = 1
  Specs <- MCOperatedSpecs
  Notes = {}
  NoteNames = {}
  NoName = NoName
  Observations = {}
  CommandBatches <- MCCommandBatches
  Endings = {"Completed"}
  HarvestCounts = {0}
  InputsVanish = TRUE
  Horizon = 2
  MaxCommands = 2
  InputSlots = 2
  LineEnvelope <- MCLineEnvelope
  Lines <- MCLines
  MaxResets = 1
INVARIANTS
  ResumedFindsInput
PROPERTIES
  CommandsInTurn
  InputIsTaken
