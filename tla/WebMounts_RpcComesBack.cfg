SPECIFICATION Spec
CONSTANTS
    a = a
    Resource = {a}
    Size <- SmallSize
    MaxGen = 2
    MaxLife <- OneLifeEach
    MaxMount = 2
INVARIANT RpcComesBack
CHECK_DEADLOCK FALSE
