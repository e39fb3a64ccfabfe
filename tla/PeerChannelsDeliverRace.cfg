\* One channel: a deliver request while createChain inserts the chain.
CONSTANTS
    ch1 = ch1
    ch2 = ch2
    s1 = s1
    Channels <- MCOneChannel
    StaticRoots <- MCStaticRoots
    NULL = NULL
    MaxConfigs = 2
    MaxRestarts = 0
SPECIFICATION Spec
INVARIANT NoFatalError
