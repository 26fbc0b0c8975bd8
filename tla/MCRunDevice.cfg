CONSTANTS
  Reads = {r}
  PinWrites = {w}
  Delays = {d}
  Forbidden = {w}
  NoCall = none
  Turns = 4
  Mutations = 2
  RollsOver = TRUE
  Contexts = {0, 10}
  PromptSizes = {4, 8}
  Transients = TRUE
  Failures = TRUE
  MaxFailedPaths = 1
  MaxKept = 2
  MaxResets = 1
SPECIFICATION FairSpec
INVARIANTS
  EffectNamesOneCall
  NeverFaultsItself
  SpendsItsGrant
PROPERTIES
  Settles
CHECK_DEADLOCK FALSE
