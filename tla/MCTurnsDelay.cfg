SPECIFICATION Spec
CHECK_DEADLOCK FALSE
CONSTANTS
  Pins <- MCPins
  Sensors <- MCSensors
  Waits <- MCWaits
  NumberCap = 255
  MaxDepth = 3
  MaxKeys = 8
  LastSize = 1
  EmitSize = 2
  MarkerSize = 2
  Responses <- MCResponses
  MaxHead = 3
  MaxBody = 5
  MaxRead = 2
  MaxResponseDepth = 8
  One = 10000
  NOUL_GATE_BPS = 5000
  Proxied = TRUE
  Scripts <- DelayScripts
  Tables <- NoTables
  NoEntry = NoEntry
  NoLine = NoLine
  NoResponse = NoResponse
  Caps <- MCCaps
  Rooms = {3, 6, 8}
  Reports <- DelayReports
  TokenMin = 3
  TokenCap = 4
  AkiaTail = 2
  PemWindow = 4
  DomainMin = 3
  PhoneMin = 7
  PhoneMax = 15
  BareMax = 11
  MarkWidth = 2
  MaxOutcome = 20
  ObservationCap = 20
  MaxTurns = 3
  MaxCrashes = 1
  FaultsLost = FALSE
INVARIANTS
  DelaysAreReadable
