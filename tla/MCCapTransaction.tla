-------------------------- MODULE MCCapTransaction --------------------------
EXTENDS CapTransaction, TLC

CONSTANTS p1, p2, t1, t2

Symmetry == Permutations({t1, t2}) \union Permutations(Publishers)
=============================================================================
