\* Setting up an accepted connection may fail.
CONSTANTS
  Clients = {c1, c2}
  NoClient = NoClient
  Workers = {w1, w2}
  MaxOutstanding = 1
  BatchSize = 2
  MaxCtrl = 0
  Faults = {"setup"}
SPECIFICATION Spec
SYMMETRY Symmetry
INVARIANTS OutstandingIsOutstanding
