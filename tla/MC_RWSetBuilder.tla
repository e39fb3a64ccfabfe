--------------------------- MODULE MC_RWSetBuilder ---------------------------
EXTENDS RWSetBuilder

CONSTANTS n1, n2, c1, k1, k2, q1, q2, p1, p2, v1, v2

MCNS == {n1, n2}
MCColls == {c1}
MCKeys == {k1, k2}
MCVers == {1, 2}
MCVals == {v1, v2}
MCRQKeys == {q1, q2}
MCPayloads == {p1, p2}
=============================================================================
