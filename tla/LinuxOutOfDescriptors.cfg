\* As many connections as there are descriptors left.
SPECIFICATION FairSpec
CONSTANTS
  NrProcs = 1
  Spare = 2
  MaxConns = 2
  MaxRuns = 0
  Faults = {}
PROPERTY AlwaysExits
