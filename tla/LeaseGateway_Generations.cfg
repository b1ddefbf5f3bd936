SPECIFICATION Spec
CONSTANTS
    PlugId = {a, b, c}
    Handle = {h1}
    Call = {k1}
    Load = {l1}
    Overlap = FALSE
    MaxGen = 4
    NoPlug = NoPlug
    NoHandle = NoHandle
SYMMETRY Symm
PROPERTIES
    StaleStaysStale
    IsRack
CHECK_DEADLOCK FALSE
