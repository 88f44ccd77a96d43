------------------------------- MODULE MCPush -------------------------------
(* Instances of Push for TLC. *)
EXTENDS Push, TLC

CONSTANTS m1, m2, u1, u2, u3

MCPaths == {"buf.yaml", "README.md", "a.proto", "b.proto"}
MCAccepted == MCPaths \ {"buf.yaml"}
MCBlobs == {"settings", "empty", "x"}

\* The file set with content x at the paths of S.
At(S) == [p \in MCPaths |-> IF p \in S THEN "x" ELSE "absent"]

Content(m, S) == [module |-> m, files |-> At(S)]

\* One module: three different file sets, one of them with a buf.yaml of its own.
OneModule == {<<Content(m1, {"a.proto"})>>,
              <<Content(m1, {"b.proto"})>>,
              <<Content(m1, {"a.proto", "buf.yaml"})>>}

\* Two modules, and requests over both of them.
TwoModules == {<<Content(m1, {"a.proto"}), Content(m2, {"a.proto"})>>,
               <<Content(m2, {"b.proto"}), Content(m1, {"a.proto", "b.proto"})>>}

AllRequests == OneModule \cup TwoModules

Symmetry == Permutations(Uploads)
=============================================================================
