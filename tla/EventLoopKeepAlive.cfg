SPECIFICATION Spec
CONSTANTS
  Clients <- OneClient
  Fds <- OneFd
  Workers <- OneWorker
  serverFd = serverFd
  efd = efd
  Nil = Nil
  c1 = c1
  c2 = c2
  f1 = f1
  f2 = f2
  w1 = w1
  w2 = w2
  MaxEvents = 3
  SndBuf = 1
  Scripts <- RejectedThenPost
  Pipelining = FALSE
  Leaving = {}
  MaxFaults = 0
CHECK_DEADLOCK FALSE
INVARIANTS RepliesInOrder
