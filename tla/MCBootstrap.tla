---------------------------- MODULE MCBootstrap ----------------------------
EXTENDS Bootstrap, TLC

CONSTANTS f1, f2

Symmetry == Permutations(Flows)
=============================================================================
