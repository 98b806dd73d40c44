SPECIFICATION Spec
CONSTANTS
  MaxCalls = 2
  ReqPieces = 1
  RespPieces = 1
  MaxDups = 0
  MaxLosses = 1
  MaxExpiries = 0
  MaxRestarts = 0
  MaxRejects = 0
  MaxReuses = 0
  TryTimes = 2
  Overwritten = Overwritten
INVARIANT ResponseFromOneExecution
