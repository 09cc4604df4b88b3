SPECIFICATION Spec
CONSTANTS
  ImageLen = 3
  MaxData = 2
  VERIFY = 8
  FINISH = 9
  SuccessLen = 1
  Statuses = {11, 14, 19, 20}
  MaxReads = 1
  MaxRx = 2
  Ids = {loader}
INVARIANTS
  TypeOK
  FinishMeansWritten
  HeadLast
  StageInv
  AnsweredByItsReply
PROPERTIES
  FailedGateRetries
