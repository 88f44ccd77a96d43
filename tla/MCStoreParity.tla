--------------------------- MODULE MCStoreParity ---------------------------
(* Bounds for StoreParity; every store in turn, one existing account and module. *)
EXTENDS StoreParity

MCUsers == {1}
MCModules == {1}

\* An empty file and one of two bytes.
MCContents == {<< >>, <<1, 2>>}
=============================================================================
