\* Every call may fail: what holds whatever goes wrong.  With lost packets or
\* no worker left the server may hang, so deadlock is not checked.
CONSTANTS
  Clients = {c1, c2}
  NoClient = NoClient
  Workers = {w1, w2}
  MaxOutstanding = 1
  BatchSize = 2
  MaxCtrl = 0
  Faults = {"acceptex", "connreset", "socket", "alloc", "node", "setup",
            "transmit", "partial", "post", "dequeue"}
SPECIFICATION Spec
SYMMETRY Symmetry
CHECK_DEADLOCK FALSE
INVARIANTS TypeOK SingleOwner HeldAreAlive AcceptBound AssociationMatches FileClosed OpcodeMatches ListTellsApart
PROPERTIES ServesInOrder
