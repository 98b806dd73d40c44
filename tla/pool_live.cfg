SPECIFICATION FairSpec
CONSTANTS
  cores = 2
  MaxThreadCount = 3
  QueueMaxSize = 2
  Type = "Flexible"
  closeStrategy = "DiscardAllTasks"
  Tasks = {t1, t2}
  NoTask = NoTask
  Committers = {c1}
  MaxBatch = 2
CHECK_DEADLOCK FALSE
PROPERTIES
  EveryTaskRuns
  StartedCloseReturns
