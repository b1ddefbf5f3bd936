SPECIFICATION Spec
CONSTANTS
    PlugId = {a, b}
    Op = {o1, o2}
    Kind = {"load", "unload", "reload", "poll", "shutdown"}
    Call = {k1}
    Gaps = FALSE
    MaxStaged = 0
    MaxRec = 2
    MaxGen = 2
    NoPlug = NoPlug
    NoOp = NoOp
SYMMETRY Symm
INVARIANTS
    LegalLife
    OneBatch
    DeferredNotLost
CHECK_DEADLOCK FALSE
