--------------------------- MODULE MCCreateModule ---------------------------
(* Instances of CreateModule for TLC. *)
EXTENDS CreateModule, TLC

Symmetry == Permutations(Creates) \cup Permutations(Names)
=============================================================================
