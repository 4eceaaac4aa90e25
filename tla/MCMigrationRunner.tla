-------------------------- MODULE MCMigrationRunner --------------------------
(***************************************************************************)
(* Small instances of MigrationRunner for TLC.                             *)
(***************************************************************************)
EXTENDS MigrationRunner

CONSTANTS old, new,   \* sessions: two deployed versions of one program
          a, b, c,    \* migration names, in version order
          x1, x2      \* texts

M(n, t, down, notx) ==
  [name |-> n, sql |-> t, has_down |-> down, no_transaction |-> notx]

\* The new binary edits the text of a deployed migration and adds one before it.
DriftSource == [s \in Session |->
  IF s = old THEN <<M(b, x1, TRUE, FALSE)>>
             ELSE <<M(a, x1, TRUE, FALSE), M(b, x2, TRUE, FALSE), M(c, x1, FALSE, FALSE)>>]

\* The first migration runs outside a transaction and cannot be undone; the new
\* binary edits the second; the last runs outside one in both directions.
MixedSource == [s \in Session |->
  <<M(a, x1, FALSE, TRUE), M(b, IF s = new THEN x2 ELSE x1, TRUE, FALSE),
    M(c, x1, TRUE, TRUE)>>]

\* An index built concurrently, then an ordinary migration.
IndexSource == [s \in Session |-> <<M(a, x1, TRUE, TRUE), M(b, x1, TRUE, FALSE)>>]

Fresh == {[n \in Name |-> NoRow]}

\* b is there, with its text, without one (a row older than sql_source), or not.
PerhapsB == {[n \in Name |-> IF n = b THEN r ELSE NoRow] : r \in {NoRow, NoSql, x1}}
=============================================================================
