SPECIFICATION FairSpec
CONSTANTS
    PlugId = {1, 2, 3}
    Other = {0, 9}
    Initialized = {0}
    Decl <- SmallDecl
INVARIANTS
    PlanRespectsEdges
    EarliestFirst
    CycleIffCyclic
PROPERTIES
    Terminates
CHECK_DEADLOCK FALSE
