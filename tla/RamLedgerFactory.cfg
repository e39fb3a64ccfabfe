CONSTANTS
    t1 = t1
    t2 = t2
    ch1 = ch1
    ch2 = ch2
    NONE = NONE
    Threads <- MCThreads
    Chains <- MCChains
    MaxCalls = 3
SPECIFICATION Spec
\* the goroutines stop calling after MaxCalls calls and the factory idles
CHECK_DEADLOCK FALSE
INVARIANT TypeOK
PROPERTY ImplementsAtomicFactory
INVARIANT ChainIDsExact
PROPERTY EveryCallReturns
