--------------------------- MODULE MCOrgMembership ---------------------------
(* Instances of OrgMembership for TLC. *)
EXTENDS OrgMembership, TLC

Symmetry == Permutations(Handlers)

\* Each user is asked to be an admin and something else: a member, or what the
\* policy does not know.
MCAsked == [u \in Users |-> IF u = "u1" THEN {"member", "admin"} ELSE {"admin", "other"}]
=============================================================================
