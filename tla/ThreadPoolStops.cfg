SPECIFICATION FairSpec
CONSTANTS
  Threads <- FewThreads
  Workers <- FewWorkers
  w1 = w1
  w2 = w2
  w3 = w3
  Owner = Owner
  Free = Free
  Nothing = Nothing
  MaxPushes = 3
CHECK_DEADLOCK FALSE
INVARIANTS TypeOK EachTaskOnce JoinedMeansDone
PROPERTIES EveryTaskRuns PoolStops
