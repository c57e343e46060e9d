---------------------------- MODULE MCNodeHealth ----------------------------
EXTENDS NodeHealth, TLC

Symmetric == Permutations(Names) \cup Permutations(Admins)
=============================================================================
