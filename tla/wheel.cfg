SPECIFICATION Spec
CONSTANTS
  Timers = {t1}
  Levels = 3
  LevelSize <- FourBuckets
  tickGap = 2
  Delays = {1, 9, 25, 26}
  Intervals = {5, 9}
  None = None
  MaxTime = 34
  MaxLag = 2
INVARIANTS
  TypeOK
  NoTimerIsPassedBy
PROPERTY EarlyByTheLagAtMost
CHECK_DEADLOCK FALSE
