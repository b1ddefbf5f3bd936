SPECIFICATION Spec
CONSTANTS
    a = a
    Resource = {a}
    Size <- SmallSize
    MaxGen = 2
    MaxLife <- OneLifeEach
    MaxMount = 2
INVARIANTS TypeOK RoutesAreRecorded RpcInStep
CHECK_DEADLOCK FALSE
