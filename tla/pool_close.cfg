SPECIFICATION Spec
CONSTANTS
  cores = 3
  MaxThreadCount = 4
  QueueMaxSize = 2
  Type = "Flexible"
  closeStrategy = "WaitAllTaskFinish"
  Tasks = {t1, t2, t3}
  NoTask = NoTask
  Committers = {c1, c2}
  MaxBatch = 2
CHECK_DEADLOCK FALSE
INVARIANTS
  TypeOK
  NothingLeftBehindIfQuiet
  NoThreadLeftIfStarted
PROPERTY SettledOnce
