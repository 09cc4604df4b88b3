SPECIFICATION Spec
CONSTANTS
  ImageLen = 2
  MaxData = 2
  VERIFY = 8
  FINISH = 9
  SuccessLen = 1
  Expected <- MCExpected
  NoModel = "none"
  Attempts = 2
  StopAfter <- MCStopAfter
  ServeStop = 1
  WaitMax = 1
  MaxIdle = 2
  Ids <- MCIds
  Asked <- MCAsked
  MaxFrames = 5
  MaxRx = 2
INVARIANTS
  TypeOK
  RepliesExact
  OkNeedsEvidence
PROPERTIES
  Termination
