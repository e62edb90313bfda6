\* The main thread's wait may fail: the server hangs for good.
SPECIFICATION FairSpec
CONSTANTS
  NrProcs = 1
  Spare = 2
  MaxConns = 1
  MaxRuns = 0
  Faults = {"wait"}
PROPERTY CleansUp
CHECK_DEADLOCK FALSE
