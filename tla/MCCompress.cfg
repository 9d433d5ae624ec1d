\* Every text of two letters, hashes that collide, blocks that fill up.
SPECIFICATION FairSpec
CONSTANTS
    TextLength = 11
    LongLength = 36
    LongWords = {1, 2, 3, 5, 7}
    Bytes = {0, 1}
    Inputs <- MCInputs
    Hashes <- MCHashes
    ChainCount = 2
    DataCount = 21
    TupleSize = 3
    MaxSync = 3
    MaxDist = 6
    Terminator = 15
    MaxMatches = 2
    MaxReference = 5
    Fresh = {0, 15}
    Beyond = 2
INVARIANTS
    TypeOK
    OutputIsText
    ChainsAreHistory
    OverrunsOnlyAtLimit
    LongestMatch
PROPERTIES
    CallsAdvance
    Terminates
CHECK_DEADLOCK FALSE
