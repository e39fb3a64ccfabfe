\* Batches of up to 3 blocks with two distinct config envelopes, so that a
\* block can be signed under a config adopted two blocks earlier.  With a
\* 4-bit uint64, MaxInt64 is 7: a batch from 6 ends past MaxInt with only
\* its last header beyond it, one from 15 wraps to 0 after its first block.
CONSTANTS
    Configs <- MCConfigs
    c1 = c1
    c2 = c2
    NULL = NULL
    Starts = {0, 6, 15}
    MaxLen = 3
    Width = 4
SPECIFICATION Spec
INVARIANT TypeOK
INVARIANT AcceptedBatchAuthenticated
INVARIANT AcceptedNumbersIncrease
