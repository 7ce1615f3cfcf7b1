----------------------------- MODULE MCApprovals -----------------------------
EXTENDS Approvals, TLC
Symmetry == Permutations(Owner)
=============================================================================
