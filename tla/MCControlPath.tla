--------------------------- MODULE MCControlPath ---------------------------
EXTENDS ControlPath, TLC

Symmetry == Permutations(Client)
============================================================================
