---------------------------- MODULE MCLinkedList ----------------------------
(* Two of the three items compare equal, as two clients with the same      *)
(* socket value would.                                                     *)
EXTENDS LinkedList, TLC

CONSTANTS i1, i2, i3

MCItems == {i1, i2, i3}
MCKey == i1 :> 1 @@ i2 :> 1 @@ i3 :> 2
Symmetry == Permutations(Nodes)
=============================================================================
