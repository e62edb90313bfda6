\* No memory for the list of clients, and one call that fails after it.
CONSTANTS
  CommandLines <- SomeCommandLines
  Processors = 1
  Word = 16
  SizeWord = 16
  HandleSize = 4
  MaxConns = 0
  MaxCtrl = 0
  Faults = {"list", "bind"}
SPECIFICATION Spec
CHECK_DEADLOCK FALSE
INVARIANTS ListExists
