\* Two connections and the updater share the world, and a ring of samples that
\* wraps is drawn while it is written.
SPECIFICATION Spec
CONSTANTS
    c1 = c1
    c2 = c2
    Connections <- MCConnections
    Updater = Updater
    Sampler = Sampler
    Nobody = Nobody
    NoPage = NoPage
    Routes = {"world", "stats"}
    SnapshotCount = 3
    Word = 16
    ClockStepsBack = FALSE
    MaxClock = 2
    MaxSamples = 4
INVARIANTS
    TypeOK
    TickAccounting
    SocketsAccounted
PROPERTIES
    RefinesWorldService
    SeriesIsHistory
SYMMETRY Symmetry
CHECK_DEADLOCK FALSE
