--------------------------- MODULE MCSecondFactor ---------------------------
EXTENDS SecondFactor, TLC

Symmetry == Permutations(Handlers) \cup Permutations(Sessions)
=============================================================================
