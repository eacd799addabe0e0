SPECIFICATION FairSpecAll
CONSTANTS
  Threads <- FewThreads
  Workers <- FewWorkers
  w1 = w1
  w2 = w2
  Owner = Owner
  Free = Free
  Nothing = Nothing
  MaxPushes = 2
  MaxSignals = 2
CHECK_DEADLOCK FALSE
INVARIANTS AllTypeOK WaitsOnlyIfMissed OneMoreBatch IdleEndIsClean
PROPERTIES StopsUnlessMissed
