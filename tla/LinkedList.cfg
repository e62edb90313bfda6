\* Four nodes: an allocation fails when they are all in use, or for no reason.
CONSTANTS
  Nodes = {n1, n2, n3, n4}
  Sentinel = Sentinel
  i1 = i1
  i2 = i2
  i3 = i3
  Items <- MCItems
  NULL = NULL
  Key <- MCKey
SPECIFICATION Spec
SYMMETRY Symmetry
INVARIANTS CountMatches RingCloses
PROPERTIES IsAList
