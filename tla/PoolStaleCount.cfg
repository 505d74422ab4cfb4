\* Two calls, one after the other, two gateways.
SPECIFICATION Spec
CONSTANTS
    g1 = g1  g2 = g2  g3 = g3
    c1 = c1  c2 = c2
    Gateways = {g1, g2}
    NoGateway = NoGateway
    Calls = {c1, c2}
    Methods <- MCMethods
    MethodOf <- PlainCalls
    SequentialMethods <- MCSequential
    ErrorSkipMethods <- MCErrorSkip
    Supports <- FullSupport
    PoolLists <- TwoGateways
    MaxShift = 5
    MaxConcurrent = 1
    MaxAppOps = 0
    MaxStray = 1
    Reusable = {}
PROPERTY
    NeverGivesUpEarly
