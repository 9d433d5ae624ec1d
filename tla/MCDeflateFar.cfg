\* References to 16385 bytes ago and further.
SPECIFICATION BlockSpec
CONSTANTS
    Literals = {0}
    References <- FarReferences
    MaxDistance = 31999
    MaxTokens = 2
INVARIANTS
    RoundTrips
CHECK_DEADLOCK FALSE
