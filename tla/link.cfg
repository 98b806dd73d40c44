SPECIFICATION BoundedSpec
CONSTANTS
  MaxCalls = 2
  ReqPieces = 1
  RespPieces = 1
  MaxDups = 0
  MaxLosses = 0
  MaxExpiries = 0
  MaxRestarts = 0
  MaxRejects = 0
  MaxReuses = 0
  try_time = 1
  MaxTimers = 2
  MaxRefusals = 0
  MaxQueue = 2
  MaxTimeouts = 2
  MaxInFlight = 1
  Overwritten = Overwritten
INVARIANTS
  TypeOK
  RequestKeepsTimer
  AnswersAreClaimed
  OnlyLateAnswersSpin
PROPERTIES
  OnlyLateAnswersCapture
  ImplementsRpcCall
CHECK_DEADLOCK FALSE
