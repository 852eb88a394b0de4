---------------------------- MODULE MCProviderRun ---------------------------
EXTENDS ProviderRun, TLC
CONSTANTS r1, r2, j1, j2
Symmetry == Permutations({r1, r2}) \cup Permutations({j1, j2})
=============================================================================
