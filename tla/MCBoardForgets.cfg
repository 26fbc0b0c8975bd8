SPECIFICATION SpecForgets
CHECK_DEADLOCK FALSE
CONSTANTS
  Goals = {1, 2}
  SlotCount = 2
  Grants = {1, 2}
  MAX_SEGMENTS = 2
  Mishaps = {"tear"}
  MaxMishaps = 1
  MaxSpawns = 2
INVARIANT AgentSurvives
