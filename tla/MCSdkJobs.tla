----------------------------- MODULE MCSdkJobs -----------------------------
(* Instances of SdkJobs for TLC. *)
EXTENDS SdkJobs, TLC

Symmetry == Permutations(Jobs) \cup Permutations(Workers)
=============================================================================
