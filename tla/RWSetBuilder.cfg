CONSTANTS
    n1 = n1
    n2 = n2
    c1 = c1
    k1 = k1
    k2 = k2
    q1 = q1
    q2 = q2
    p1 = p1
    p2 = p2
    v1 = v1
    v2 = v2
    NONE = NONE
    NS <- MCNS
    Colls <- MCColls
    Keys <- MCKeys
    Vers <- MCVers
    Vals <- MCVals
    RQKeys <- MCRQKeys
    Payloads <- MCPayloads
    MaxOps = 3
SPECIFICATION Spec
INVARIANT TypeOK
INVARIANT ResultsMatchReference
