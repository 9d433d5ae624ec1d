------------------------------ MODULE MCServer ------------------------------
(***************************************************************************)
(* Instances of Server.tla for TLC.  Clients are interchangeable, and so   *)
(* are the threads that serve them.                                        *)
(***************************************************************************)
EXTENDS Server, TLC

CONSTANTS c1, c2

MCConnections == {c1, c2}
Symmetry == Permutations(MCConnections)
=============================================================================
