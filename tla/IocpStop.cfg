\* The normal course of events up to the exit, in every interleaving.
CONSTANTS
  Clients = {c1, c2}
  NoClient = NoClient
  Workers = {w1, w2}
  MaxOutstanding = 1
  BatchSize = 2
  MaxCtrl = 1
  Faults = {"transmit"}
SPECIFICATION Spec
SYMMETRY Symmetry
INVARIANTS SocketReady ShutdownRelay NoLeakAtExit CounterExact NoClientForgotten NeverDeaf
