SPECIFICATION FairSpec
CONSTANTS
    PlugId = {a, b}
    Op = {o1}
    Kind = {"boot", "start", "load", "unload", "reload", "poll", "shutdown"}
    Call = {k1}
    Gaps = TRUE
    MaxStaged = 1
    MaxRec = 2
    MaxGen = 2
    NoPlug = NoPlug
    NoOp = NoOp
INVARIANTS
    TypeOK
    OfferedIsHeld
    ShutdownLeavesStuck
PROPERTIES
    OpEnds
CHECK_DEADLOCK FALSE
