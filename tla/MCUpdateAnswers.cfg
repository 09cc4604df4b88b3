SPECIFICATION Spec
CONSTANTS
  ImageLen = 2
  MaxData = 1
  VERIFY = 8
  FINISH = 9
  SuccessLen = 1
  Expected <- MCExpected
  NoModel = "none"
  Attempts = 2
  StopAfter <- MCStopAfter
  ServeStop = 1
  WaitMax = 1
  MaxIdle = 2
  Statuses = {11, 14, 20}
  MaxReads = 0
  MaxRx = 2
  Verbs = {"flash"}
  Device <- MCOldDevice
  Whole = TRUE
  MaxRuns = 1
  MaxLoss = 0
  MaxCuts = 0
PROPERTY AnswersUntilTheyStop
CHECK_DEADLOCK FALSE
