SPECIFICATION Spec
CONSTANTS
  ImageLen = 2
  MaxData = 1
  VERIFY = 8
  FINISH = 9
  SuccessLen = 1
  Expected <- MCExpected
  NoModel = "none"
  Attempts = 2
  StopAfter <- MCStopAfter
  ServeStop = 1
  WaitMax = 1
  MaxIdle = 2
  Statuses = {11, 14, 20}
  MaxReads = 1
  MaxRx = 2
  Verbs = {"flash"}
  Device <- MCOtherDevice
  Whole = TRUE
  MaxRuns = 2
  MaxLoss = 1
  MaxCuts = 1
INVARIANTS
  OtherModelLeftAlone
CHECK_DEADLOCK FALSE
