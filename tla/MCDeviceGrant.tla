--------------------------- MODULE MCDeviceGrant ---------------------------
(* Instances of DeviceGrant for TLC. *)
EXTENDS DeviceGrant, TLC

Symmetry == Permutations(Grants) \cup Permutations(Users) \cup Permutations(Polls)
                \cup Permutations(Approvals)
=============================================================================
