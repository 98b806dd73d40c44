SPECIFICATION FairSpec
CONSTANTS
  MaxCalls = 1
  ReqPieces = 1
  RespPieces = 1
  MaxDups = 0
  MaxLosses = 0
  MaxExpiries = 0
  MaxRestarts = 0
  MaxRejects = 0
  MaxReuses = 0
  try_time = 1
  MaxTimers = 1
  MaxRefusals = 0
  Overwritten = Overwritten
PROPERTY EveryCallbackRuns
CHECK_DEADLOCK FALSE
