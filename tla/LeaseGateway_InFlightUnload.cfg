SPECIFICATION Spec
CONSTANTS
    PlugId = {a, b}
    Handle = {h1}
    Call = {k1}
    Load = {}
    Overlap = FALSE
    MaxGen = 2
    NoPlug = NoPlug
    NoHandle = NoHandle
SYMMETRY Symm
PROPERTY
    InFlightUnloadIsRetryable
CHECK_DEADLOCK FALSE
