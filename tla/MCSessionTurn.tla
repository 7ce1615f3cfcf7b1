---------------------------- MODULE MCSessionTurn ----------------------------
EXTENDS SessionTurn, TLC
Symmetry == Permutations(Turn)
=============================================================================
