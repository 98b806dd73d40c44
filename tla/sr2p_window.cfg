SPECIFICATION Spec
CONSTANTS
  MaxCalls = 1
  ReqPieces = 4
  RespPieces = 1
  MaxDups = 0
  MaxLosses = 0
  MaxExpiries = 0
  MaxRestarts = 0
  MaxRejects = 0
  MaxReuses = 0
  TryTimes = 2
  Overwritten = Overwritten
INVARIANTS
  AcknowledgedIsStored
  ExecutedWhole
