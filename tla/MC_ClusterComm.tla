--------------------------- MODULE MC_ClusterComm ---------------------------
EXTENDS ClusterComm, TLC

CONSTANTS g1, g2, g3, ca1, ca2

MCCallers == {g1, g2, g3}
MCRoots == {ca1, ca2}
\* the initial roots, a rotation to the other CA, both, and a block with a bad entry
MCRootSets == {{ca1}, {ca2}, {ca1, ca2}, {ca1, BAD}}
MCInitRoots == {ca1}
=============================================================================
