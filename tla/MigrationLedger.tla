-------------------------- MODULE MigrationLedger --------------------------
(***************************************************************************)
(* What typedpg::migrate promises about the database: the tracking table   *)
(* and the schema effects it accounts for, with every session, lock and    *)
(* statement of the implementation left out.                               *)
(*                                                                         *)
(* A migration listed in a source becomes a row of the tracking table only *)
(* when every migration before it in that source already is one.  Except   *)
(* for the scripts that run outside a transaction (NonAtomic), a script    *)
(* and its row change together or not at all; a row whose source has no    *)
(* down script can also be forgotten on its own (Forgettable).             *)
(***************************************************************************)
EXTENDS Integers, Sequences

CONSTANTS
  Name,         \* migration names, the key of the tracking table
  NoRow,        \* the value of ledger[n] when n has no row
  Sources,      \* the ordered sources deployed, each a sequence of records
  InitialRows,  \* the contents the tracking table may have at the start
  NonAtomic,    \* names some binary runs outside a transaction
  Forgettable   \* names a forced revert may drop without a down script

VARIABLES
  ledger,       \* ledger[n]: the stored text of n's row, NoRow without one
  effect        \* effect[n]: up scripts of n committed, less the down scripts

vars == <<ledger, effect>>

\* The row of m may be inserted: m is in a source whose earlier members are rows.
Insertable(m) ==
  \E src \in Sources : \E i \in 1..Len(src) :
    /\ src[i] = m
    /\ \A j \in 1..(i - 1) : ledger[src[j].name] # NoRow

Deployed == UNION {{src[i] : i \in 1..Len(src)} : src \in Sources}

Init ==
  /\ ledger \in InitialRows
  /\ effect = [n \in Name |-> IF ledger[n] = NoRow THEN 0 ELSE 1]

\* The up script of m and its row, in one transaction.
Apply(m) ==
  /\ ledger[m.name] = NoRow
  /\ Insertable(m)
  /\ ledger' = [ledger EXCEPT ![m.name] = m.sql]
  /\ effect' = [effect EXCEPT ![m.name] = @ + 1]

\* The down script of n and the removal of its row, in one transaction.
Revert(n) ==
  /\ ledger[n] # NoRow
  /\ ledger' = [ledger EXCEPT ![n] = NoRow]
  /\ effect' = [effect EXCEPT ![n] = @ - 1]

\* A script that runs outside a transaction, seen before its row changes.
RunOnly(n, delta) ==
  /\ n \in NonAtomic
  /\ effect' = [effect EXCEPT ![n] = @ + delta]
  /\ UNCHANGED ledger

RecordOnly(m) ==
  /\ m.name \in NonAtomic
  /\ ledger[m.name] = NoRow
  /\ Insertable(m)
  /\ ledger' = [ledger EXCEPT ![m.name] = m.sql]
  /\ UNCHANGED effect

\* A row removed on its own: the last statement of a revert outside a
\* transaction, or a forced revert of a migration that has no down script.
EraseOnly(n) ==
  /\ n \in NonAtomic \cup Forgettable
  /\ ledger' = [ledger EXCEPT ![n] = NoRow]
  /\ UNCHANGED effect

Next ==
  \/ \E m \in Deployed : Apply(m) \/ RecordOnly(m)
  \/ \E n \in Name : Revert(n) \/ EraseOnly(n) \/ RunOnly(n, 1) \/ RunOnly(n, -1)

Spec == Init /\ [][Next]_vars
=============================================================================
