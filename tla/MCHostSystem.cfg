SPECIFICATION SystemSpec
CONSTANTS
  portA = portA
  portB = portB
  Attached <- MCAttached
  Ports = {portA, portB}
  NoPort = none
  MaxProbes = 2
  MaxRequests = 1
  MaxMoves = 1
  SectorSize = 2
  Lengths <- MCLengths
  RegionSize = 3
  MaxUpdates = 1
INVARIANTS
  SystemTypeOK
  OneUpgrade
  LateProbeHarmless
  RepliesToAsker
  PresetOutcomeIsTrue
PROPERTIES
  PresetOwnSectors
  WorkerReports
CHECK_DEADLOCK FALSE
