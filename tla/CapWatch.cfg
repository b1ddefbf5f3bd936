SPECIFICATION Spec
CONSTANTS
    PlugId = {1, 2}
    MaxGen = 2
    MaxWatch = 3
INVARIANTS
    ViewIsTable
PROPERTIES
    InactiveHearsNothing
CHECK_DEADLOCK FALSE
