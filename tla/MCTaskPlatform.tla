--------------------------- MODULE MCTaskPlatform ---------------------------
EXTENDS TaskPlatform, TLC
Symmetry == Permutations(Conn)
=============================================================================
