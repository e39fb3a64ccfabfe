----------------------------- MODULE MC_OrgConfig -----------------------------
EXTENDS OrgConfig

CONSTANTS o1, o2, m1, m2, a1

MCOrgs == {o1, o2}
MCMSPIDs == {m1, m2}
MCAnchors == {a1}
=============================================================================
