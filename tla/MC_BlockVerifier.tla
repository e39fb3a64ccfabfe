-------------------------- MODULE MC_BlockVerifier --------------------------
EXTENDS BlockVerifier, TLC

CONSTANTS c1, c2

MCConfigs == {c1, c2}
====
