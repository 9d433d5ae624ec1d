\* Two threads, three blocks, a log of two entries that wraps.
SPECIFICATION Spec
CONSTANTS
    t1 = t1
    t2 = t2
    a1 = a1
    a2 = a2
    a3 = a3
    Threads <- MCThreads
    Tester = t1
    Addresses <- MCAddresses
    Root = Root
    Null = Null
    LogSize = 2
    MaxSerial = 5
SYMMETRY Symmetry
INVARIANTS
    TypeOK
    ListIsHeap
    LeakIsExact
    LogTellsFate
PROPERTIES
    WalkIsComplete
CHECK_DEADLOCK FALSE
