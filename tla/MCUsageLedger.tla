--------------------------- MODULE MCUsageLedger ---------------------------
EXTENDS UsageLedger, TLC

Symmetric == Permutations(Connections)
=============================================================================
