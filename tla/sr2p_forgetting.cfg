SPECIFICATION Spec
CONSTANTS
  MaxCalls = 1
  ReqPieces = 2
  RespPieces = 1
  MaxDups = 0
  MaxLosses = 0
  MaxExpiries = 1
  MaxRestarts = 1
  MaxRejects = 1
  MaxReuses = 1
  TryTimes = 2
  Overwritten = Overwritten
INVARIANT ExecutionsBounded
