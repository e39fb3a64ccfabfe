CONSTANTS
    a = a
    b = b
    c = c
    Msgs <- MCMsgs
    Size <- MCSizeSmall
    PreferredMaxBytes = 4
    MaxMessageCount = 3
    Width = 4
    MaxOrdered = 5
SPECIFICATION Spec
INVARIANT TypeOK
INVARIANT NoLossNoDup
INVARIANT SizeAccounting
INVARIANT BatchWithinLimits
PROPERTY OrderedContract
