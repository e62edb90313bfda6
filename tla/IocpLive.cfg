\* Liveness: while nobody stops the server, and of the shutdown.
CONSTANTS
  Clients = {c1}
  NoClient = NoClient
  Workers = {w1, w2}
  MaxOutstanding = 1
  BatchSize = 2
  MaxCtrl = 2
  Faults = {"transmit"}
SPECIFICATION FairSpec
PROPERTIES KeepsAccepting Served ShutsDown
