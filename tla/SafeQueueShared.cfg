SPECIFICATION QueueSpec
CONSTANTS
  Threads <- ThreeThreads
  t1 = t1
  t2 = t2
  t3 = t3
  Free = Free
  Nothing = Nothing
  MaxPushes = 3
SYMMETRY Symmetric
CHECK_DEADLOCK FALSE
INVARIANTS QueueTypeOK NoLostWakeup ShutdownReachesAll
PROPERTY Implements
