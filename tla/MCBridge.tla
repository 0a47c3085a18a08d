------------------------------ MODULE MCBridge ------------------------------
EXTENDS PomeloBridge, TLC
CONSTANTS c1, c2, r1, r2, n1, e1, disconnect, main, none
Symm == Permutations({c1, c2})
=============================================================================
