\* Nothing fails, and the connections may come one after the other.
CONSTANTS
  CommandLines <- PlainCommandLine
  Processors = 2
  Word = 16
  SizeWord = 16
  HandleSize = 4
  MaxConns = 2
  MaxCtrl = 0
  Faults = {}
SPECIFICATION Spec
CHECK_DEADLOCK FALSE
INVARIANTS PeakIsSimultaneous
