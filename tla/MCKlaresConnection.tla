------------------------- MODULE MCKlaresConnection -------------------------
(* Instances of KlaresConnection for TLC: the symmetry of the sockets, which *)
(* only the runs without liveness use.                                       *)
EXTENDS KlaresConnection, TLC

Symmetry == Permutations(Socket)
=============================================================================
