CONSTANTS
    o1 = o1
    o2 = o2
    m1 = m1
    m2 = m2
    a1 = a1
    EMPTY = EMPTY
    BADMSP = BADMSP
    NONE = NONE
    Orgs <- MCOrgs
    MSPIDs <- MCMSPIDs
    Anchors <- MCAnchors
    MaxTx = 4
SPECIFICATION Spec
INVARIANT TypeOK
PROPERTY MSPIDImmutable
