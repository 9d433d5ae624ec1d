\* What a collection leaves behind.
SPECIFICATION Spec
CONSTANTS
    TextLength = 14
    LongLength = 20
    LongWords = {2}
    Bytes = {0, 1}
    Inputs <- MCInputs
    Hashes <- MCHashes
    ChainCount = 2
    DataCount = 20
    TupleSize = 3
    MaxSync = 3
    MaxDist = 5
    Terminator = 15
    MaxMatches = 2
    MaxReference = 5
    Fresh = {15}
    Beyond = 2
INVARIANTS
    ChainsSurviveCollection
CHECK_DEADLOCK FALSE
