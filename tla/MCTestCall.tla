----------------------------- MODULE MCTestCall -----------------------------
(***************************************************************************)
(* Instances of TestCall.tla for TLC.                                      *)
(***************************************************************************)
EXTENDS TestCall

CONSTANTS
    SampleBytes, BoundaryPoints, BoundaryBytes,
    MaxDistance     \* the greatest distance written

\* A letter, and an unknown entity, which is copied as it stands.
Letter == <<"a">>
Unknown == <<"&", "u", ";">>

MCAttributeLists ==
    { <<>>,
      <<[key |-> "id", value |-> <<>>]>>,
      <<[key |-> "id", value |-> <<Letter>>]>>,
      <<[key |-> "x", value |-> <<Letter, Unknown>>], [key |-> "id", value |-> <<Unknown>>]>> }

MCTexts == { <<Letter>>, <<Letter, Unknown>> }

MCMessages == BoundedSeq(SampleBytes, 2)
MCEncodings == BoundedSeq(BoundaryPoints, 2)
MCStreams == BoundedSeq(BoundaryBytes, 3)

\* All lengths, all distances.
MCReferences ==
    ({1, MaxDistance} \X (3 .. 258)) \cup ((1 .. MaxDistance) \X {3})
=============================================================================
