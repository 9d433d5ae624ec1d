\* Short lines, a two-byte buffer, every segmentation, recv() failing anywhere.
SPECIFICATION FairSpec
CONSTANTS
    Streams <- MCStreams
    TailLength = 4
    LineSize = 3
    DataSize = 2
    HeadLimit = 8
    BodyLimit = 4
    BodyLength = 3
    Fresh = {"a", "Z"}
    RecvMayFail = TRUE
INVARIANTS
    TypeOK
    FailedBufferNotReused
PROPERTIES
    RefinesRequestStream
    NoViableLineRefused
    ConnectionEnds
CHECK_DEADLOCK FALSE
