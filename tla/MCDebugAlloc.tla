---------------------------- MODULE MCDebugAlloc ----------------------------
(***************************************************************************)
(* Instances of DebugAlloc.tla for TLC.  malloc() may return any address,  *)
(* so the addresses are interchangeable.                                   *)
(***************************************************************************)
EXTENDS DebugAlloc, TLC

CONSTANTS t1, t2, a1, a2, a3

MCThreads == {t1, t2}
MCAddresses == {a1, a2, a3}
Symmetry == Permutations(MCAddresses)
=============================================================================
