--------------------------- MODULE MCExpirySweep ---------------------------
EXTENDS ExpirySweep, TLC

Symmetric ==
    Permutations(Configs) \cup Permutations(Customers) \cup Permutations(Sweepers)
=============================================================================
