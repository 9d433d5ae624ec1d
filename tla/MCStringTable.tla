--------------------------- MODULE MCStringTable ---------------------------
(***************************************************************************)
(* Four strings with any hashes.  Strings are interchangeable because all  *)
(* hash functions are tried.                                               *)
(***************************************************************************)
EXTENDS StringTable, TLC

CONSTANTS s1, s2, s3, s4

MCStrings == {s1, s2, s3, s4}
Symmetry == Permutations(MCStrings)
=============================================================================
