SPECIFICATION FairSpec
CONSTANTS
    Owner = {p, q}
    Name = {a, b}
    Drainer = {start, poll}
    Capacity = 2
    DispatchBudget = 2
    MaxTokens = 2
    MaxEvents = 3
INVARIANTS
    FifoOnce
    NoneMissed
PROPERTIES
    GoneHearsNothing
    AllDequeued
CHECK_DEADLOCK FALSE
