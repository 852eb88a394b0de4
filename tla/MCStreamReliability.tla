------------------------ MODULE MCStreamReliability -------------------------
EXTENDS StreamReliability, TLC
CONSTANTS w1, w2
Symmetry == Permutations({w1, w2})
=============================================================================
