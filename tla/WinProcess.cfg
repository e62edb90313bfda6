\* Every call of the start-up may fail.  The server may wait for an event that
\* never comes, and stops for good when it has returned.
CONSTANTS
  CommandLines <- SomeCommandLines
  Processors = 1
  Word = 12
  SizeWord = 12
  HandleSize = 4
  MaxConns = 2
  MaxCtrl = 2
  Faults <- EveryFault
SPECIFICATION FairSpec
CHECK_DEADLOCK FALSE
INVARIANTS TypeOK NothingReleasedTwice ReleasedAtReturn ThreadsHoldTheirs PortClean StatsExact ReplyTruthful
PROPERTIES RunsInOrder Stops
