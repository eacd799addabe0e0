SPECIFICATION Spec
CONSTANTS
  Clients <- TwoClients
  Fds <- TwoFds
  Workers <- OneWorker
  serverFd = serverFd
  efd = efd
  Nil = Nil
  c1 = c1
  c2 = c2
  f1 = f1
  f2 = f2
  w1 = w1
  w2 = w2
  MaxEvents = 2
  SndBuf = 1
  Scripts <- WellFormed
  Pipelining = FALSE
  Leaving = {"rst"}
  MaxFaults = 0
SYMMETRY Symmetric
CHECK_DEADLOCK FALSE
INVARIANTS WholeResponses RepliesInOrder
