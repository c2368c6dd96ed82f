------------------------------ MODULE MCSessionSync ------------------------------
EXTENDS SessionSync, TLC

SessionSymmetry == Permutations(Sessions)
=============================================================================
