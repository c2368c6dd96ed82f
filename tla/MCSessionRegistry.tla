--------------------------- MODULE MCSessionRegistry ---------------------------
EXTENDS SessionRegistry, TLC

SessionSymmetry == Permutations(Sessions)
=============================================================================
