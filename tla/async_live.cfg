SPECIFICATION RequestPhaseSpec
CONSTANTS
  MaxCalls = 1
  ReqPieces = 1
  RespPieces = 1
  MaxDups = 1
  MaxLosses = 2
  MaxExpiries = 0
  MaxRestarts = 1
  MaxRejects = 1
  MaxReuses = 0
  try_time = 2
  MaxTimers = 2
  MaxRefusals = 0
  Overwritten = Overwritten
PROPERTY RequestPhaseEnds
CHECK_DEADLOCK FALSE
