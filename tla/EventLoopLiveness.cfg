SPECIFICATION FairSpecOfPair
CONSTANTS
  Clients <- TwoClients
  Fds <- TwoFds
  Workers <- OneWorker
  serverFd = serverFd
  efd = efd
  Nil = Nil
  c1 = c1
  c2 = c2
  f1 = f1
  f2 = f2
  w1 = w1
  w2 = w2
  MaxEvents = 4
  SndBuf = 1
  Scripts <- Few
  Pipelining = FALSE
  Leaving = {"rst"}
  MaxFaults = 0
CHECK_DEADLOCK FALSE
PROPERTY EveryRequestAnswered
