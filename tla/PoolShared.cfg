\* A plain call that overlaps with one once-only call after another, and a
\* refresh or a shift by the application at any time.  One of the lists is
\* longer than the limit of the counter, another holds one gateway.
SPECIFICATION FairSpec
CONSTANTS
    g1 = g1  g2 = g2  g3 = g3
    c1 = c1  c2 = c2
    Gateways = {g1, g2, g3}
    NoGateway = NoGateway
    Calls = {c1, c2}
    Methods <- MCMethods
    MethodOf <- MixedCalls
    SequentialMethods <- MCSequential
    ErrorSkipMethods <- MCErrorSkip
    Supports <- PartialSupport
    PoolLists <- MixedLists
    MaxShift = 2
    MaxConcurrent = 2
    MaxAppOps = 1
    MaxStray = 1
    Reusable = {c2}
INVARIANTS
    BudgetBounded
    OnceOnlyNotRepeated
PROPERTIES
    SoloTriesEveryGateway
    SoloNeverReturns
    EveryCallSettles
    ImplementsDelivery
