CONSTANTS
  Reads = {r}
  PinWrites = {w, x}
  Delays = {}
  Forbidden = {}
  NoCall = none
  Turns = 6
  Mutations = 6
  RollsOver = TRUE
  Contexts = {0, 10}
  PromptSizes = {1, 8}
  Transients = FALSE
  Failures = FALSE
  MaxFailedPaths = 1
  MaxKept = 2
  MaxResets = 0
SYMMETRY Symmetry
SPECIFICATION Spec
INVARIANTS
  NeverLoops
  RuledOutStaysRuledOut
CHECK_DEADLOCK FALSE
