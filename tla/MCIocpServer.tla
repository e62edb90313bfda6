---------------------------- MODULE MCIocpServer ----------------------------
(* Constants for TLC: clients and workers are interchangeable.             *)
EXTENDS IocpServer, TLC

Symmetry == Permutations(Clients) \cup Permutations(Workers)
=============================================================================
