\* Two channels, each with a genesis and one later config block, and one
\* restart: enough for a commit to race the insertion of its own chain, for
\* both channels' createChain to interleave, and for a reload after a kill.
CONSTANTS
    ch1 = ch1
    ch2 = ch2
    s1 = s1
    Channels <- MCTwoChannels
    StaticRoots <- MCStaticRoots
    NULL = NULL
    MaxConfigs = 2
    MaxRestarts = 1
SPECIFICATION Spec
INVARIANT TypeOK
INVARIANT CurrConfigBlockIsLatest
INVARIANT ServerRootsCurrent
PROPERTY EveryCreateChainReturns
