CONSTANTS
    a = a
    b = b
    c = c
    Msgs <- MCMsgs
    Size <- MCSizeWrap
    PreferredMaxBytes = 12
    MaxMessageCount = 3
    Width = 4
    MaxOrdered = 3
SPECIFICATION Spec
INVARIANT BatchWithinLimits
