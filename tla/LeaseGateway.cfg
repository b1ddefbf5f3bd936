SPECIFICATION FairSpec
CONSTANTS
    PlugId = {a, b}
    Handle = {h1, h2}
    Call = {k1, k2}
    Load = {l1, l2}
    Overlap = TRUE
    MaxGen = 1
    NoPlug = NoPlug
    NoHandle = NoHandle
INVARIANTS
    InFlightAccounting
    UnloadStopsQuiet
    StoppedOwnsNoLease
PROPERTIES
    RevokingAdmitsNothing
    OnlyOwnerGivesUpLease
    UnloadEnds
CHECK_DEADLOCK FALSE
