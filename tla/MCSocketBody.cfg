\* A client that sends a whole test in small segments; recv() never fails.
SPECIFICATION Spec
CONSTANTS
    Streams <- MCWholeTest
    TailLength = 0
    LineSize = 3
    DataSize = 2
    HeadLimit = 16
    BodyLimit = 6
    BodyLength = 4
    Fresh = {"Z"}
    RecvMayFail = FALSE
PROPERTIES
    BodyArrivesWhole
CHECK_DEADLOCK FALSE
