\* Two dwarves share a short feed; needs are scaled down.
SPECIFICATION FairSpec
CONSTANTS
    DwarfCount = 2
    Locations = {1, 2, 3, 4}
    HasFood = {3}
    HasBed = {4}
    Start = 1
    InitialNeeds = 4
    NeedLimit = 4
    ContentBelow = 2
    PostSlots = 2
INVARIANTS
    TypeOK
    NeedsBounded
    DeathIsLastPost
PROPERTIES
    NeedsAreMet
