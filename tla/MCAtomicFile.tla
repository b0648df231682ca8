------------------------------ MODULE MCAtomicFile ------------------------------
EXTENDS AtomicFile, TLC

CONSTANTS w1, w2, w3

MCWriters == {w1, w2, w3}
\* The writers are alike.
Symmetry == Permutations(MCWriters)
==============================================================================
