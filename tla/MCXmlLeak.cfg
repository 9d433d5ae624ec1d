\* Small documents, some of which are refused.
SPECIFICATION Spec
CONSTANTS
    Tags = {"r"}
    AttributeLists <- MCAttributeLists
    Texts <- MCTexts
    MaxMarkup = 3
    Messages = {}
    Encodings = {}
    Streams = {}
    SampleBytes = {}
    BoundaryPoints = {}
    BoundaryBytes = {}
    Literals = {0}
    References = {}
    MaxDistance = 1
    MaxTokens = 1
    MaxCollections = 1
INVARIANTS
    XmlTestLeaksNothing
CHECK_DEADLOCK FALSE
