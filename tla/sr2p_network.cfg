SPECIFICATION FairSpec
CONSTANTS
  MaxCalls = 1
  ReqPieces = 2
  RespPieces = 2
  MaxDups = 1
  MaxLosses = 1
  MaxExpiries = 0
  MaxRestarts = 0
  MaxRejects = 0
  MaxReuses = 0
  TryTimes = 3
  Overwritten = Overwritten
INVARIANTS
  TypeOK
  DeliveredIsReceived
PROPERTIES
  NothingUnlearned
  ImplementsRpcCall
  EveryCallReturns
