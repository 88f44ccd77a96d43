------------------------------- MODULE Tables -------------------------------
(***************************************************************************)
(* What the two storage backends do to a table: SQLite, which keeps an id  *)
(* as the text it is given, and PostgreSQL, which keeps it as a value      *)
(* (internal/hades/storage/db), with the conversions of sqlutil and the    *)
(* error translation of utils/connerr.                                     *)
(*                                                                         *)
(* An id is a number; its text is the number with the form it is written   *)
(* in: hyphenated ("dash") or as bare hexadecimal digits ("hex"), in lower *)
(* case or, with a capital digit, "DASH" and "HEX".  Text that is no id    *)
(* has the form "text".  A table is a set of records.  A statement returns *)
(* the table after it, the driver's error and the rows it answers with.    *)
(***************************************************************************)
EXTENDS Naturals, FiniteSets

\* sqlutil.ID: a hyphenated id loses its hyphens and keeps the case of its
\* digits; other text is left alone.
ID(x) == CASE x[2] = "dash" -> <<x[1], "hex">>
           [] x[2] = "DASH" -> <<x[1], "HEX">>
           [] OTHER -> x

\* sqlutil.UUID binds a parsed id.
UUID(i) == <<i, "hex">>

\* sqlutil.Canonical: bare digits are hyphenated, in the case they have; other
\* text is left alone.
Canonical(x) == CASE x[2] = "hex" -> <<x[1], "dash">>
                  [] x[2] = "HEX" -> <<x[1], "DASH">>
                  [] OTHER -> x

\* PostgreSQL reads any form of an id, and writes the hyphenated one in lower case.
Uuid(x) == x[1]
Text(i) == <<i, "dash">>
Malformed(x) == x[2] = "text"

\* The code a caller sees for a driver's or a store's error.
FromDB(e) ==
    CASE e = "none" -> "ok"
      [] e \in {"sql.ErrNoRows", "pgx.ErrNoRows", "ErrNotFound"} -> "NotFound"
      [] e \in {"23505", "2067", "1555", "2579"} -> "AlreadyExists"
      [] e \in {"23503", "787"} -> "FailedPrecondition"
      [] e = "22P02" -> "NotFound"
      [] e = "context.Canceled" -> "Canceled"
      [] e = "context.DeadlineExceeded" -> "DeadlineExceeded"
      [] e \in {"ErrCodeAlreadyUsed", "ErrAlreadyApproved", "ErrTokenAlreadyIssued"} -> e
      [] OTHER -> "Internal"

-----------------------------------------------------------------------------
(* Statements. *)

Result(T, e, rows) == [table |-> T, err |-> e, rows |-> rows]

\* PostgreSQL raises 22P02 for a statement that is given text where an id is
\* expected, before it touches a row; res is what the statement does otherwise.
Parsed(T, xs, res) == IF \E x \in xs : Malformed(x) THEN Result(T, "22P02", {}) ELSE res

\* INSERT: dup says the row breaks a unique constraint, known that the row it
\* references is there.
Insert(T, r, dup, known, unique, foreign, answer) ==
    CASE dup -> Result(T, unique, {})
      [] ~dup /\ ~known -> Result(T, foreign, {})
      [] OTHER -> Result(T \cup {r}, "none", answer)

LiteInsert(T, r, dup, known, answer) == Insert(T, r, dup, known, "2067", "787", answer)
PgInsert(T, r, dup, known, answer) == Insert(T, r, dup, known, "23505", "23503", answer)

\* UPDATE whose count of rows is not looked at.
Exec(T, P(_), F(_)) == Result({IF P(r) THEN F(r) ELSE r : r \in T}, "none", {})

\* UPDATE that reports e when it touches no row.
ExecOne(T, P(_), F(_), e) == IF \E r \in T : P(r) THEN Exec(T, P, F) ELSE Result(T, e, {})

Delete(T, P(_)) == Result({r \in T : ~P(r)}, "none", {})

Query(T, P(_), V(_)) == Result(T, "none", {V(r) : r \in {q \in T : P(q)}})

\* SELECT of one row; where several match, which one is up to the database.
QueryRow(T, P(_), V(_), e) ==
    IF \E r \in T : P(r) THEN Result(T, "none", {V(CHOOSE r \in T : P(r))}) ELSE Result(T, e, {})

LiteQueryRow(T, P(_), V(_)) == QueryRow(T, P, V, "sql.ErrNoRows")
PgQueryRow(T, P(_), V(_)) == QueryRow(T, P, V, "pgx.ErrNoRows")
=============================================================================
