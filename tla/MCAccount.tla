----------------------------- MODULE MCAccount -----------------------------
EXTENDS Account, TLC

Symmetry == Permutations(Handlers) \cup Permutations(Sessions)
            \cup Permutations(Resets) \cup Permutations(Passwords)
=============================================================================
