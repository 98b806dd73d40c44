SPECIFICATION BoundedSpec
CONSTANTS
  MaxCalls = 1
  ReqPieces = 2
  RespPieces = 2
  MaxDups = 0
  MaxLosses = 0
  MaxExpiries = 0
  MaxRestarts = 0
  MaxRejects = 0
  MaxReuses = 0
  try_time = 1
  MaxTimers = 2
  MaxRefusals = 1
  MaxTimeouts = 2
  Overwritten = Overwritten
INVARIANTS
  TypeOK
  AcknowledgedIsStored
  RequestKeepsTimer
  DeliveredIsReceived
  StopWaitsForCallbacks
PROPERTIES
  CalledBackOnce
  ImplementsRpcCall
CHECK_DEADLOCK FALSE
