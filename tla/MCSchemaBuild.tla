--------------------------- MODULE MCSchemaBuild ---------------------------
(***************************************************************************)
(* A crate with a default database, which has a migration of its own and   *)
(* one under extra_migrations, and a named database with one migration.    *)
(* Each file may come, go and come back.                                   *)
(***************************************************************************)
EXTENDS SchemaBuild, TLC

CONSTANTS main, extra, named,   \* files
          q1, q2                \* queries

TwoDatabases == [q \in Query |-> IF q = q1 THEN {main, extra} ELSE {named}]

\* The two files of the default database are read together or not at all.
Interchangeable == Permutations({main, extra})

\* Bound: files saved during one compilation or between it and the next.
FewSaves == Cardinality({f \in File : saved[f] # {}}) <= 2
=============================================================================
