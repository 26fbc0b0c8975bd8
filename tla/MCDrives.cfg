SPECIFICATION DrivesSpec
CONSTANTS
  Nothing = Nothing
  AnyTool = AnyTool
  NoCrash = NoCrash
  NoReset = NoReset
  NoStrike = NoStrike
  Class <- MCClass
  Begin <- MCBegin
  After <- MCAfter
  Seeds <- MCSeeds
  Worlds <- MCWorlds
  Crashes <- MCCrashes
  Resets <- MCResets
  MAX_BOOTS = 32
  LateInput = "late"
  MaxDrives = 3
  SegmentTurns = 2
  NoteMax = 1
  MaxCompleted = 1
  MaxDecisions = 2
  MaxFacts = 1
  MaxFailed = 1
  MaxPending = 1
  MaxFingerprints = 4
  MEMORY_INPUT_MAX = 4
  MAX_HARVEST = 3
  ReadOnly = {"read", "sample", "uptime", "status"}
INVARIANTS
  EffectsOnce
  CrashesLeaveNoTrace
  TraceIsRun
  FoldIsFrames
  HarvestIsRecords
  ResetsAreInvisible
  JournalsTellTheDevice
PROPERTIES
  DrivesArrive
