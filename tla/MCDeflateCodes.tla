--------------------------- MODULE MCDeflateCodes ---------------------------
(***************************************************************************)
(* The tokens of the run of DeflateCodes.tla alone: the distances of the   *)
(* last bucket that compress_search finds matches at.                      *)
(***************************************************************************)
EXTENDS DeflateCodes

CONSTANT MaxDistance    \* the greatest distance written

FarReferences == {<<d, 3>> : d \in {16384, 16385, 16386, MaxDistance}}
=============================================================================
