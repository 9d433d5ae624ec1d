\* Every test, and the faces: documents of up to seven pieces of markup, and the
\* corner bytes, every length and every distance below 16385, one token a block.
SPECIFICATION Spec
CONSTANTS
    Tags = {"r"}
    AttributeLists <- MCAttributeLists
    Texts <- MCTexts
    MaxMarkup = 7
    Messages <- MCMessages
    Encodings <- MCEncodings
    Streams <- MCStreams
    SampleBytes = {0, 1, 2, 127, 128, 171, 255}
    BoundaryPoints = {0, 65, 127, 128, 233, 2047, 2048, 4095, 4096, 65535, 65536, 128512, 131071, 131072}
    BoundaryBytes = {0, 127, 128, 159, 191, 192, 194, 223, 224, 239, 240, 247, 248, 251, 252, 253, 254, 255}
    Literals = {0, 1, 47, 48, 143, 144, 145, 254, 255}
    References <- MCReferences
    MaxDistance = 16384
    MaxTokens = 1
    MaxCollections = 1
INVARIANTS
    TypeOK
    TreeIsDocument
    IdsAreFound
    PrintedXmlIsFreed
    XmlArrives
    CrcIsRemainder
    CodepointsComeBack
    OneForEachBeginning
    RoundTrips
CHECK_DEADLOCK FALSE
