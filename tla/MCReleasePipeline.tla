------------------------- MODULE MCReleasePipeline -------------------------
EXTENDS ReleasePipeline, TLC

CONSTANTS d1, d2, c1, c2, c3

MCSymmetry == Permutations({d1, d2})
=============================================================================
