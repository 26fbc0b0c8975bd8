SPECIFICATION MCSpec
CHECK_DEADLOCK FALSE
CONSTANTS
  D1 = D1
  D2 = D2
  D3 = D3
  Digests <- MCDigests
  NoDigest = NoDigest
  Items = 2
  Slots = 4
  Mishaps = {}
  MaxMishaps = 0
  Steady = FALSE
  Revisits = TRUE
INVARIANT NewestStaysOnMedia
