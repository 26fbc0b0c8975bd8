CONSTANTS
  Reads = {r}
  PinWrites = {w}
  Delays = {}
  Forbidden = {}
  NoCall = none
  Turns = 3
  Mutations = 3
  RollsOver = FALSE
  Contexts = {0}
  PromptSizes = {4}
  Transients = FALSE
  Failures = FALSE
  MaxFailedPaths = 1
  MaxKept = 2
  MaxResets = 0
SPECIFICATION Spec
INVARIANTS
  CompletedIsVerified
CHECK_DEADLOCK FALSE
