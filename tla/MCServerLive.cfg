\* Every route, fair threads, and a clock that may be set back.
SPECIFICATION FairSpec
CONSTANTS
    Connections = {c1, c2}
    Updater = Updater
    Sampler = Sampler
    Nobody = Nobody
    NoPage = NoPage
    Routes = {"world", "stats", "other"}
    SnapshotCount = 1
    Word = 16
    ClockStepsBack = TRUE
    MaxClock = 1
    MaxSamples = 0
PROPERTIES
    RequestsAnswered
    ConnectionsClosed
CHECK_DEADLOCK FALSE
