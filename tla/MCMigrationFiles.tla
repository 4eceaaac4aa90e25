-------------------------- MODULE MCMigrationFiles --------------------------
(***************************************************************************)
(* A small set of stems: versions of two widths, one version used twice    *)
(* with descriptions that differ only after a common start, a name that is *)
(* not well formed.                                                        *)
(***************************************************************************)
EXTENDS MigrationFiles

S(digits, description) ==
  [i \in 1..Len(digits) |-> Digit(digits[i])] \o <<Underscore>> \o description

Stems == {
  S(<<9>>, <<Letter(1)>>),                       \* 9_a
  S(<<1>>, <<Letter(1)>>),                       \* 1_a
  S(<<1>>, <<Letter(1), Dash, Letter(2)>>),      \* 1_a-b
  S(<<1, 0>>, <<Letter(2)>>),                    \* 10_b
  S(<<0, 9>>, <<Letter(3)>>),                    \* 09_c
  <<Letter(1), Underscore, Letter(1)>>           \* a_a
}

\* Sorted is the sort of the library, in each of the orders.
ASSUME SortedAssumption ==
  \A stems \in SUBSET {s \in Stems : WellNamed(s)} :
     /\ Sorted(stems, DirOrder(stems)) = SetToSortSeq(stems, DirLess)
     /\ Sorted(stems, EmbedOrder(stems)) = SetToSortSeq(stems, EmbedLess)
     /\ Sorted(stems, FileOrder(stems)) =
           SetToSortSeq(stems, LAMBDA s, t : LexLess(FileName(s), FileName(t)))
=============================================================================
