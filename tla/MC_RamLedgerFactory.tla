------------------------- MODULE MC_RamLedgerFactory -------------------------
EXTENDS RamLedgerFactory

CONSTANTS t1, t2, ch1, ch2

MCThreads == {t1, t2}
MCChains == {ch1, ch2}
=============================================================================
