CONSTANTS
    g1 = g1
    g2 = g2
    g3 = g3
    ca1 = ca1
    ca2 = ca2
    BAD = BAD
    Callers <- MCCallers
    Roots <- MCRoots
    RootSets <- MCRootSets
    InitRoots <- MCInitRoots
    ServerCA = ca1
    MaxCalls = 2
    MaxRefresh = 2
    NULL = NULL
    ERR = ERR
SPECIFICATION Spec
\* every goroutine makes its MaxCalls calls, the config blocks run out, and the program then stops
CHECK_DEADLOCK FALSE
INVARIANT TypeOK
PROPERTY ImplementsAbstractStub
PROPERTY EveryCallReturns
