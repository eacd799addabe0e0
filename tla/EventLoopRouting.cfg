SPECIFICATION Spec
CONSTANTS
  Clients <- TwoClients
  Fds <- TwoFds
  Workers <- TwoWorkers
  serverFd = serverFd
  efd = efd
  Nil = Nil
  c1 = c1
  c2 = c2
  f1 = f1
  f2 = f2
  w1 = w1
  w2 = w2
  MaxEvents = 2
  SndBuf = 1
  Scripts <- SingleRequests
  Pipelining = FALSE
  Leaving = {"fin", "rst"}
  MaxFaults = 1
SYMMETRY Symmetric
CHECK_DEADLOCK FALSE
INVARIANTS FdsOwned RepliesReachAsker NoLostResult NoStrandedInput NoStrandedOutput
PROPERTY ResultsDelivered
