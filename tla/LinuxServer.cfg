\* Every call may fail, the process may be killed and is started twice.  After
\* a failing epoll_wait() the server may hang: deadlock is not checked.
SPECIFICATION FairSpec
CONSTANTS
  NrProcs = 2
  Spare = 3
  MaxConns = 2
  MaxRuns = 1
  Faults <- EveryFault
INVARIANTS TypeOK NothingReleasedTwice ReleasedAtExit LiveHoldTheirs ListedAreReady NoConnectionForgotten SignalNotForgotten JoinedAreTold
PROPERTIES RunsInOrder Exits
CHECK_DEADLOCK FALSE
