----------------------------- MODULE MCCatalog -----------------------------
(***************************************************************************)
(* Catalog on small instances.  The names of relations, and those of       *)
(* columns, are interchangeable.                                           *)
(***************************************************************************)
EXTENDS Catalog, TLC

Alike == Permutations(Name) \cup Permutations(Column)

\* No pattern that the code mistracks.
NoGaps == {}
=============================================================================
