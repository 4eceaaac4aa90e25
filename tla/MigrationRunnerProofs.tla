----------------------- MODULE MigrationRunnerProofs -----------------------
(***************************************************************************)
(* Proofs that the properties of MigrationRunner hold for every set of     *)
(* sessions, names and texts and every source, not only in the instances   *)
(* TLC checks.                                                             *)
(***************************************************************************)
EXTENDS MigrationRunner, TLAPS

LEMMA NoCallType == NoCall \in Calls /\ NoRows \in Rows /\ NoCall.force = FALSE
  BY NameAssumption DEF NoCall, Calls, NoRows, Rows

\* The member of a source at a position within it is a migration that is deployed.
LEMMA SourceMember ==
  ASSUME NEW s \in Session, NEW i \in 1..Len(Source[s])
  PROVE  /\ Source[s][i] \in Migration
         /\ Source[s][i] \in Deployed
         /\ Source[s][i].name \in Names(s)
         /\ Source[s][i].name \in Name
         /\ Source[s][i].sql \in Sql
  <1>1. Source[s] \in Seq(Migration)
    BY SourceAssumption
  <1>2. Source[s][i] \in Migration
    BY <1>1
  <1>3. Source[s][i] \in {Source[s][j] : j \in 1..Len(Source[s])}
    OBVIOUS
  <1>4. Source[s][i] \in Deployed
    BY <1>3 DEF Deployed
  <1>5. QED
    BY <1>2, <1>4 DEF Migration, Names

LEMMA LenType == ASSUME NEW s \in Session PROVE Len(Source[s]) \in Nat
  BY SourceAssumption

-----------------------------------------------------------------------------
(* Type correctness.  The depth of the lock stays a natural number because   *)
(* only its holder releases it, so TypeOK is proved together with LockInv    *)
(* and PositionInv.                                                          *)

Base == TypeOK /\ LockInv /\ PositionInv

LEMMA BaseInit == Init => Base
  <1> SUFFICES ASSUME Init PROVE Base
    OBVIOUS
  <1>1. ledger \in Rows /\ table \in BOOLEAN
    BY ConfigAssumption DEF Init
  <1>2. TypeOK
    BY <1>1, NoCallType, ConfigAssumption DEF Init, TypeOK, ConnState, Outside, Outcome, Rows
  <1>3. LockInv /\ PositionInv
    BY NoCallType DEF Init, LockInv, PositionInv, InCritical, Critical, AtScript
  <1>4. QED
    BY <1>2, <1>3 DEF Base

\* At its script a session's position names a migration of its source.
LEMMA CurType ==
  ASSUME Base, NEW s \in Session, pc[s] \in AtScript
  PROVE  /\ next[s] \in 1..Len(Source[s])
         /\ Cur(s) \in Migration /\ Cur(s) \in Deployed
         /\ Cur(s).name \in Names(s) /\ Cur(s).name \in Name /\ Cur(s).sql \in Sql
  <1>1. next[s] \in Nat \ {0}
    BY DEF Base, TypeOK
  <1>2. next[s] <= Len(Source[s])
    BY DEF Base, PositionInv
  <1>3. next[s] \in 1..Len(Source[s])
    BY <1>1, <1>2, LenType
  <1>4. QED
    BY <1>3, SourceMember DEF Cur

LEMMA AfterType ==
  ASSUME Base, NEW s \in Session, pc[s] \in AtScript
  PROVE  EffectAfter(s) \in [Name -> Int] /\ LedgerAfter(s) \in Rows
  <1>1. effect \in [Name -> Int] /\ ledger \in Rows
    BY DEF Base, TypeOK
  <1>2. Cur(s).name \in Name /\ Cur(s).sql \in Sql
    BY CurType
  <1>3. QED
    BY <1>1, <1>2 DEF EffectAfter, LedgerAfter, Rows

\* Every request is a call, and carries the force flag only if callers pass it.
LEMMA RequestType ==
  ASSUME NEW c \in Requests
  PROVE  c \in Calls /\ c.force \in ForceFlags \cup {FALSE}
  BY NoCallType DEF Requests

\* Whoever is inside the lock holds it, so its depth is at least one.
LEMMA HolderDepth ==
  ASSUME Base, NEW s \in Session, InCritical(s)
  PROVE  holder = s /\ depth \in Nat \ {0}
  BY RowAssumption DEF Base, TypeOK, LockInv

LEMMA TypeStep == ASSUME Base, Next PROVE TypeOK'
  <1> USE DEF Base, TypeOK, boundvars, dbvars, lockvars
  <1> USE NoCallType
  <1>1. ASSUME NEW s \in Session, NEW c \in Requests, Begin(s, c) PROVE TypeOK'
    <2>1. calls' \in [Session -> 0..MaxCalls]
      BY <1>1, ConfigAssumption DEF Begin
    <2>2. call' \in [Session -> Calls]
      BY <1>1, RequestType DEF Begin
    <2>3. QED
      BY <1>1, <2>1, <2>2 DEF Begin, Goto, ConnState, Outside, Critical, Outcome
  <1>2. ASSUME NEW s \in Session, EnsureTable(s) PROVE TypeOK'
    BY <1>2
    DEF EnsureTable, Goto, AfterEnsure, ConnState, Outside, Critical, Outcome
  <1>3. ASSUME NEW s \in Session, EnsureRefused(s) PROVE TypeOK'
    BY <1>3
    DEF EnsureRefused, Return, ConnState, Outside, Critical, Outcome
  <1>4. ASSUME NEW s \in Session, CreateTable(s) PROVE TypeOK'
    BY <1>4
    DEF CreateTable, Goto, AfterEnsure, ConnState, Outside, Critical, Outcome
  <1>5. ASSUME NEW s \in Session, CreateConflicts(s) PROVE TypeOK'
    BY <1>5
    DEF CreateConflicts, Return, ConnState, Outside, Critical, Outcome
  <1>6. ASSUME NEW s \in Session, PickLast(s) PROVE TypeOK'
    <2>1. PICK i \in AppliedIn(s, ledger) :
            call' = [call EXCEPT ![s].op = "revert_last", ![s].name = Source[s][i].name]
      BY <1>6 DEF PickLast
    <2>2. Source[s][i].name \in Name
      BY SourceMember DEF AppliedIn
    <2>3. call' \in [Session -> Calls]
      BY <2>1, <2>2 DEF Calls
    <2>4. QED
      BY <1>6, <2>3 DEF PickLast, Goto, Outside, Critical
  <1>7. ASSUME NEW s \in Session, PickNone(s) PROVE TypeOK'
    BY <1>7
    DEF PickNone, Return, ConnState, Outside, Critical, Outcome
  <1>8. ASSUME NEW s \in Session, AcquireLock(s) PROVE TypeOK'
    BY <1>8
    DEF AcquireLock, Goto, Take, ConnState, Outside, Critical, Outcome
  <1>9. ASSUME NEW s \in Session, GetApplied(s) PROVE TypeOK'
    BY <1>9
    DEF GetApplied, Goto, ConnState, Outside, Critical, Outcome
  <1>10. ASSUME NEW s \in Session, SkipApplied(s) PROVE TypeOK'
    BY <1>10
    DEF SkipApplied, ConnState, Outside, Critical, Outcome
  <1>11. ASSUME NEW s \in Session, StopOnDrift(s) PROVE TypeOK'
    BY <1>11
    DEF StopOnDrift, Finish, ConnState, Outside, Critical, Outcome
  <1>12. ASSUME NEW s \in Session, StartPending(s) PROVE TypeOK'
    BY <1>12
    DEF StartPending, Goto, ConnState, Outside, Critical, Outcome
  <1>13. ASSUME NEW s \in Session, AllApplied(s) PROVE TypeOK'
    BY <1>13
    DEF AllApplied, Finish, ConnState, Outside, Critical, Outcome
  <1>14. ASSUME NEW s \in Session, FindToRevert(s) PROVE TypeOK'
    <2>1. next' \in [Session -> Nat \ {0}]
      BY <1>14, LenType DEF FindToRevert
    <2>2. QED
      BY <1>14, <2>1 DEF FindToRevert, Goto, Outside, Critical
  <1>15. ASSUME NEW s \in Session, RefuseRevert(s) PROVE TypeOK'
    BY <1>15
    DEF RefuseRevert, Finish, ConnState, Outside, Critical, Outcome
  <1>16. ASSUME NEW s \in Session, ExecScript(s) PROVE TypeOK'
    BY <1>16, AfterType
    DEF ExecScript, Goto, ConnState, Outside, Critical, Outcome, AtScript
  <1>17. ASSUME NEW s \in Session, ExecFails(s) PROVE TypeOK'
    BY <1>17
    DEF ExecFails, Finish, ConnState, Outside, Critical, Outcome
  <1>18. ASSUME NEW s \in Session, RecordRow(s) PROVE TypeOK'
    BY <1>18, AfterType
    DEF RecordRow, Proceed, Finish, ConnState, Outside, Critical, Outcome, AtScript
  <1>19. ASSUME NEW s \in Session, CommitTx(s) PROVE TypeOK'
    BY <1>19, AfterType
    DEF CommitTx, Proceed, Finish, ConnState, Outside, Critical, Outcome, AtScript
  <1>20. ASSUME NEW s \in Session, RowFails(s) PROVE TypeOK'
    BY <1>20
    DEF RowFails, Finish, ConnState, Outside, Critical, Outcome
  <1>21. ASSUME NEW s \in Session, ForgetRow(s) PROVE TypeOK'
    BY <1>21, AfterType
    DEF ForgetRow, Proceed, Finish, ConnState, Outside, Critical, Outcome, AtScript
  <1>22. ASSUME NEW s \in Session, ReleaseLock(s) PROVE TypeOK'
    BY <1>22, HolderDepth
    DEF ReleaseLock, Unlock, Return, ConnState, Outside, Critical, Outcome, InCritical
  <1>23. ASSUME NEW s \in Session, ReleaseRefused(s) PROVE TypeOK'
    BY <1>23
    DEF ReleaseRefused, Return, ConnState, Outside, Critical, Outcome
  <1>24. ASSUME NEW s \in Session, Crash(s) PROVE TypeOK'
    <2>1. crashes' \in 0..MaxCrashes
      BY <1>24, ConfigAssumption DEF Crash
    <2>2. depth' \in Nat /\ holder' \in Session \cup {Nobody}
      BY <1>24 DEF Crash
    <2>3. QED
      BY <1>24, <2>1, <2>2 DEF Crash, Return, ConnState, Outside, Critical, Outcome
  <1>25. ASSUME NEW s \in Session, Cancel(s) PROVE TypeOK'
    <2>1. cancels' \in 0..MaxCancels
      BY <1>25, ConfigAssumption DEF Cancel
    <2>2. conn' \in [Session -> ConnState]
      BY <1>25 DEF Cancel, ConnState
    <2>3. QED
      BY <1>25, <2>1, <2>2 DEF Cancel, Return, ConnState, Outside, Critical, Outcome
  <1>26. ASSUME NEW s \in Session, OrphanGranted(s) PROVE TypeOK'
    BY <1>26
    DEF OrphanGranted, Take, ConnState, Outside, Critical, Outcome
  <1>27. ASSUME NEW s \in Session, NEW t \in Session, DeadlockKillsScript(s, t) PROVE TypeOK'
    BY <1>27
    DEF DeadlockKillsScript, Finish, ConnState, Outside, Critical, Outcome
  <1>28. ASSUME NEW s \in Session, NEW t \in Session, DeadlockKillsWaiter(s, t) PROVE TypeOK'
    BY <1>28
    DEF DeadlockKillsWaiter, Return, ConnState, Outside, Critical, Outcome
  <1>29. ASSUME NEW s \in Session, NEW t \in Session, DeadlockKillsOrphan(s, t) PROVE TypeOK'
    BY <1>29
    DEF DeadlockKillsOrphan, ConnState, Outside, Critical, Outcome
  <1>q. QED
    BY Zenon, <1>1, <1>2, <1>3, <1>4, <1>5, <1>6, <1>7, <1>8, <1>9, <1>10, <1>11, <1>12, <1>13, <1>14, <1>15, <1>16, <1>17, <1>18, <1>19, <1>20, <1>21, <1>22, <1>23, <1>24, <1>25, <1>26, <1>27, <1>28, <1>29
    DEF Next, Work, Disturb, Prepare, Scan, Check, Change, Release

-----------------------------------------------------------------------------
LEMMA LockStep == ASSUME Base, Next PROVE LockInv'
  <1> USE RowAssumption, HolderDepth
  <1> USE DEF Base, TypeOK, LockInv, InCritical, dbvars, lockvars
  <1>1. ASSUME NEW s \in Session, NEW c \in Requests, Begin(s, c) PROVE LockInv'
    BY <1>1
    DEF Begin, Goto, Outside, Critical
  <1>2. ASSUME NEW s \in Session, EnsureTable(s) PROVE LockInv'
    BY <1>2
    DEF EnsureTable, Goto, AfterEnsure, Outside, Critical
  <1>3. ASSUME NEW s \in Session, EnsureRefused(s) PROVE LockInv'
    BY <1>3
    DEF EnsureRefused, Return, Outside, Critical
  <1>4. ASSUME NEW s \in Session, CreateTable(s) PROVE LockInv'
    BY <1>4
    DEF CreateTable, Goto, AfterEnsure, Outside, Critical
  <1>5. ASSUME NEW s \in Session, CreateConflicts(s) PROVE LockInv'
    BY <1>5
    DEF CreateConflicts, Return, Outside, Critical
  <1>6. ASSUME NEW s \in Session, PickLast(s) PROVE LockInv'
    BY <1>6
    DEF PickLast, Goto, AppliedIn, Outside, Critical
  <1>7. ASSUME NEW s \in Session, PickNone(s) PROVE LockInv'
    BY <1>7
    DEF PickNone, Return, Outside, Critical
  <1>8. ASSUME NEW s \in Session, AcquireLock(s) PROVE LockInv'
    BY <1>8
    DEF AcquireLock, Goto, Take, Outside, Critical
  <1>9. ASSUME NEW s \in Session, GetApplied(s) PROVE LockInv'
    BY <1>9
    DEF GetApplied, Goto, Outside, Critical
  <1>10. ASSUME NEW s \in Session, SkipApplied(s) PROVE LockInv'
    BY <1>10
    DEF SkipApplied, Outside, Critical
  <1>11. ASSUME NEW s \in Session, StopOnDrift(s) PROVE LockInv'
    BY <1>11
    DEF StopOnDrift, Finish, Outside, Critical
  <1>12. ASSUME NEW s \in Session, StartPending(s) PROVE LockInv'
    BY <1>12
    DEF StartPending, Goto, Outside, Critical
  <1>13. ASSUME NEW s \in Session, AllApplied(s) PROVE LockInv'
    BY <1>13
    DEF AllApplied, Finish, Outside, Critical
  <1>14. ASSUME NEW s \in Session, FindToRevert(s) PROVE LockInv'
    BY <1>14
    DEF FindToRevert, Goto, Outside, Critical
  <1>15. ASSUME NEW s \in Session, RefuseRevert(s) PROVE LockInv'
    BY <1>15
    DEF RefuseRevert, Finish, Outside, Critical
  <1>16. ASSUME NEW s \in Session, ExecScript(s) PROVE LockInv'
    BY <1>16
    DEF ExecScript, Goto, EffectAfter, Outside, Critical
  <1>17. ASSUME NEW s \in Session, ExecFails(s) PROVE LockInv'
    BY <1>17
    DEF ExecFails, Finish, Outside, Critical
  <1>18. ASSUME NEW s \in Session, RecordRow(s) PROVE LockInv'
    BY <1>18
    DEF RecordRow, LedgerAfter, Proceed, Finish, Outside, Critical
  <1>19. ASSUME NEW s \in Session, CommitTx(s) PROVE LockInv'
    BY <1>19
    DEF CommitTx, EffectAfter, LedgerAfter, Proceed, Finish, Outside, Critical
  <1>20. ASSUME NEW s \in Session, RowFails(s) PROVE LockInv'
    BY <1>20
    DEF RowFails, Finish, Outside, Critical
  <1>21. ASSUME NEW s \in Session, ForgetRow(s) PROVE LockInv'
    BY <1>21
    DEF ForgetRow, LedgerAfter, Proceed, Finish, Outside, Critical
  <1>22. ASSUME NEW s \in Session, ReleaseLock(s) PROVE LockInv'
    BY <1>22
    DEF ReleaseLock, Unlock, Return, Outside, Critical
  <1>23. ASSUME NEW s \in Session, ReleaseRefused(s) PROVE LockInv'
    BY <1>23
    DEF ReleaseRefused, Return, Outside, Critical
  <1>24. ASSUME NEW s \in Session, Crash(s) PROVE LockInv'
    BY <1>24
    DEF Crash, Return, Outside, Critical
  <1>25. ASSUME NEW s \in Session, Cancel(s) PROVE LockInv'
    BY <1>25
    DEF Cancel, Return, Outside, Critical
  <1>26. ASSUME NEW s \in Session, OrphanGranted(s) PROVE LockInv'
    BY <1>26
    DEF OrphanGranted, Take, Outside, Critical
  <1>27. ASSUME NEW s \in Session, NEW t \in Session, DeadlockKillsScript(s, t) PROVE LockInv'
    BY <1>27
    DEF DeadlockKillsScript, Finish, Outside, Critical
  <1>28. ASSUME NEW s \in Session, NEW t \in Session, DeadlockKillsWaiter(s, t) PROVE LockInv'
    BY <1>28
    DEF DeadlockKillsWaiter, Return, Outside, Critical
  <1>29. ASSUME NEW s \in Session, NEW t \in Session, DeadlockKillsOrphan(s, t) PROVE LockInv'
    BY <1>29
    DEF DeadlockKillsOrphan, Outside, Critical
  <1>q. QED
    BY Zenon, <1>1, <1>2, <1>3, <1>4, <1>5, <1>6, <1>7, <1>8, <1>9, <1>10, <1>11, <1>12, <1>13, <1>14, <1>15, <1>16, <1>17, <1>18, <1>19, <1>20, <1>21, <1>22, <1>23, <1>24, <1>25, <1>26, <1>27, <1>28, <1>29
    DEF Next, Work, Disturb, Prepare, Scan, Check, Change, Release

-----------------------------------------------------------------------------
(* What a step does to the sessions and the tables, whatever its action: the *)
(* invariants below are about these variables only.                          *)

\* A step of s leaves the other sessions where they are.
Elsewhere(s) ==
  \A t \in Session : t # s =>
    /\ pc'[t] = pc[t] /\ call'[t] = call[t] /\ applied'[t] = applied[t]
    /\ next'[t] = next[t] /\ result'[t] = result[t]

\* s is not past the reading of the applied migrations.
Leaves(s) ==
  /\ pc'[s] \in Outside \cup {"read"} /\ next'[s] = 1
  /\ call'[s].force \in ForceFlags \cup {FALSE}
  /\ UNCHANGED <<ledger, effect>>

\* s is done, and successful only at the end of its source.
Ends(s) ==
  /\ pc'[s] = "release"
  /\ result'[s] = "ok" => pc[s] = "scan" /\ next[s] > Len(Source[s])
  /\ UNCHANGED <<ledger, effect, call, applied, next>>

Stays(s) == UNCHANGED <<ledger, effect, pc, call, applied, next, result>>

Moves(s) ==
  \/ Leaves(s) \/ Ends(s) \/ Stays(s)
  \/ GetApplied(s) \/ SkipApplied(s) \/ StartPending(s) \/ FindToRevert(s)
  \/ ExecScript(s) \/ RecordRow(s) \/ CommitTx(s) \/ ForgetRow(s)

\* Every step moves one session in one of these ways.
LEMMA Kinds == ASSUME Base, Next PROVE \E s \in Session : Elsewhere(s) /\ Moves(s)
  <1> USE NoCallType
  <1> USE DEF Base, TypeOK, PositionInv, Elsewhere, dbvars, lockvars
  <1>1. ASSUME NEW s \in Session, NEW c \in Requests, Begin(s, c) PROVE Elsewhere(s) /\ Leaves(s)
    BY <1>1, RequestType DEF Begin, Goto, Leaves, Outside
  <1>2. ASSUME NEW s \in Session, EnsureTable(s) PROVE Elsewhere(s) /\ Leaves(s)
    BY <1>2 DEF EnsureTable, Goto, AfterEnsure, Leaves, Outside
  <1>3. ASSUME NEW s \in Session, EnsureRefused(s) PROVE Elsewhere(s) /\ Leaves(s)
    BY <1>3 DEF EnsureRefused, Return, Leaves, Outside
  <1>4. ASSUME NEW s \in Session, CreateTable(s) PROVE Elsewhere(s) /\ Leaves(s)
    BY <1>4 DEF CreateTable, Goto, AfterEnsure, Leaves, Outside
  <1>5. ASSUME NEW s \in Session, CreateConflicts(s) PROVE Elsewhere(s) /\ Leaves(s)
    BY <1>5 DEF CreateConflicts, Return, Leaves, Outside
  <1>6. ASSUME NEW s \in Session, PickLast(s) PROVE Elsewhere(s) /\ Leaves(s)
    <2>1. call'[s].force = call[s].force /\ \A t \in Session : t # s => call'[t] = call[t]
      BY <1>6 DEF PickLast, Calls
    <2>2. QED
      BY <1>6, <2>1 DEF PickLast, Goto, Leaves, Outside
  <1>7. ASSUME NEW s \in Session, PickNone(s) PROVE Elsewhere(s) /\ Leaves(s)
    BY <1>7 DEF PickNone, Return, Leaves, Outside
  <1>8. ASSUME NEW s \in Session, AcquireLock(s) PROVE Elsewhere(s) /\ Leaves(s)
    BY <1>8 DEF AcquireLock, Goto, Leaves, Outside
  <1>9. ASSUME NEW s \in Session, ReleaseLock(s) PROVE Elsewhere(s) /\ Leaves(s)
    BY <1>9 DEF ReleaseLock, Return, Leaves, Outside
  <1>10. ASSUME NEW s \in Session, ReleaseRefused(s) PROVE Elsewhere(s) /\ Leaves(s)
    BY <1>10 DEF ReleaseRefused, Return, Leaves, Outside
  <1>11. ASSUME NEW s \in Session, Crash(s) PROVE Elsewhere(s) /\ Leaves(s)
    BY <1>11 DEF Crash, Return, Leaves, Outside
  <1>12. ASSUME NEW s \in Session, Cancel(s) PROVE Elsewhere(s) /\ Leaves(s)
    BY <1>12 DEF Cancel, Return, Leaves, Outside
  <1>13. ASSUME NEW s \in Session, NEW t \in Session, DeadlockKillsWaiter(s, t) PROVE Elsewhere(t) /\ Leaves(t)
    BY <1>13 DEF DeadlockKillsWaiter, Return, Leaves, Outside
  <1>14. ASSUME NEW s \in Session, StopOnDrift(s) PROVE Elsewhere(s) /\ Ends(s)
    BY <1>14 DEF StopOnDrift, Finish, Ends
  <1>15. ASSUME NEW s \in Session, AllApplied(s) PROVE Elsewhere(s) /\ Ends(s)
    BY <1>15 DEF AllApplied, Finish, Ends
  <1>16. ASSUME NEW s \in Session, RefuseRevert(s) PROVE Elsewhere(s) /\ Ends(s)
    BY <1>16 DEF RefuseRevert, Finish, Ends
  <1>17. ASSUME NEW s \in Session, ExecFails(s) PROVE Elsewhere(s) /\ Ends(s)
    BY <1>17 DEF ExecFails, Finish, Ends
  <1>18. ASSUME NEW s \in Session, RowFails(s) PROVE Elsewhere(s) /\ Ends(s)
    BY <1>18 DEF RowFails, Finish, Ends
  <1>19. ASSUME NEW s \in Session, NEW t \in Session, DeadlockKillsScript(s, t) PROVE Elsewhere(s) /\ Ends(s)
    BY <1>19 DEF DeadlockKillsScript, Finish, Ends
  <1>20. ASSUME NEW s \in Session, NEW t \in Session, DeadlockKillsOrphan(s, t) PROVE Elsewhere(t) /\ Stays(t)
    BY <1>20 DEF DeadlockKillsOrphan, Stays
  <1>21. ASSUME NEW s \in Session, OrphanGranted(s) PROVE Elsewhere(s) /\ Stays(s)
    BY <1>21 DEF OrphanGranted, Stays
  <1>22. ASSUME NEW s \in Session, GetApplied(s) PROVE Elsewhere(s)
    BY <1>22 DEF GetApplied, Goto
  <1>23. ASSUME NEW s \in Session, SkipApplied(s) PROVE Elsewhere(s)
    BY <1>23 DEF SkipApplied
  <1>24. ASSUME NEW s \in Session, StartPending(s) PROVE Elsewhere(s)
    BY <1>24 DEF StartPending, Goto
  <1>25. ASSUME NEW s \in Session, FindToRevert(s) PROVE Elsewhere(s)
    BY <1>25 DEF FindToRevert, Goto
  <1>26. ASSUME NEW s \in Session, ExecScript(s) PROVE Elsewhere(s)
    BY <1>26 DEF ExecScript, Goto
  <1>27. ASSUME NEW s \in Session, RecordRow(s) PROVE Elsewhere(s)
    BY <1>27 DEF RecordRow, Proceed, Finish
  <1>28. ASSUME NEW s \in Session, CommitTx(s) PROVE Elsewhere(s)
    BY <1>28 DEF CommitTx, Proceed, Finish
  <1>29. ASSUME NEW s \in Session, ForgetRow(s) PROVE Elsewhere(s)
    BY <1>29 DEF ForgetRow, Proceed, Finish
  <1>30. ASSUME NEW s \in Session, Work(s) PROVE Elsewhere(s) /\ Moves(s)
    <2>1. CASE Prepare(s) \/ GetApplied(s) \/ Release(s)
      BY Zenon, <2>1, <1>2, <1>3, <1>4, <1>5, <1>6, <1>7, <1>9, <1>10, <1>22
      DEF Moves, Prepare, Release
    <2>2. CASE Scan(s) \/ Check(s)
      BY Zenon, <2>2, <1>14, <1>15, <1>16, <1>23, <1>24, <1>25
      DEF Moves, Scan, Check
    <2>3. CASE Change(s)
      BY Zenon, <2>3, <1>17, <1>18, <1>19, <1>26, <1>27, <1>28, <1>29
      DEF Moves, Change
    <2>4. QED
      BY Zenon, <1>30, <2>1, <2>2, <2>3 DEF Work
  <1>31. ASSUME NEW s \in Session, Disturb(s)
        PROVE  \E t \in Session : Elsewhere(t) /\ Moves(t)
    BY Zenon, <1>31, <1>11, <1>12, <1>13, <1>20 DEF Moves, Disturb
  <1>q. QED
    BY Zenon, <1>30, <1>31, <1>1, <1>8, <1>21 DEF Moves, Next

-----------------------------------------------------------------------------
(* The steps at a script.                                                   *)

\* A step of s that moves to the next migration once its row is there:
RecordsRow(s) ==
  /\ pc[s] \in AtScript /\ pc[s] # "forget" /\ Running(s)
  /\ ledger' = LedgerAfter(s)
  /\ pc' = [pc EXCEPT ![s] = "scan"]
  /\ next' = [next EXCEPT ![s] = @ + 1]
  /\ UNCHANGED <<applied, call>>

\* the last step of a revert, which leaves the loop's positions behind:
ErasesRow(s) ==
  /\ pc[s] \in AtScript /\ ~Running(s)
  /\ ledger' = LedgerAfter(s)
  /\ pc' = [pc EXCEPT ![s] = "release"]
  /\ UNCHANGED <<applied, call, next>>

\* and one that leaves the row to the steps that follow.
Continues(s) ==
  /\ \/ pc[s] = "exec" /\ pc' = [pc EXCEPT ![s] = "record"]
     \/ pc[s] = "record" /\ InTx(s) /\ pc' = [pc EXCEPT ![s] = "commit"]
  /\ UNCHANGED <<ledger, applied, call, next>>

LEMMA RowSteps ==
  ASSUME Base, NEW s \in Session
  PROVE  /\ ExecScript(s) => Continues(s)
         /\ RecordRow(s) => RecordsRow(s) \/ ErasesRow(s) \/ Continues(s)
         /\ CommitTx(s) => RecordsRow(s) \/ ErasesRow(s)
         /\ ForgetRow(s) => ErasesRow(s)
  <1> USE DEF Proceed, Finish, Goto, RecordsRow, ErasesRow, Continues, AtScript
  <1>1. ExecScript(s) => Continues(s)
    BY DEF ExecScript
  <1>2. RecordRow(s) => RecordsRow(s) \/ ErasesRow(s) \/ Continues(s)
    BY DEF RecordRow
  <1>3. CommitTx(s) => RecordsRow(s) \/ ErasesRow(s)
    BY DEF CommitTx
  <1>4. ForgetRow(s) => ErasesRow(s)
    BY DEF ForgetRow, Base, PositionInv
  <1>5. QED
    BY <1>1, <1>2, <1>3, <1>4

\* The eight ways in which a session moves, the row steps taken together.
LEMMA Cases ==
  ASSUME Base, NEW s \in Session, Moves(s)
  PROVE  \/ Leaves(s) \/ Ends(s) \/ Stays(s)
         \/ GetApplied(s) \/ SkipApplied(s) \/ StartPending(s) \/ FindToRevert(s)
         \/ RecordsRow(s) \/ ErasesRow(s) \/ Continues(s)
  BY Zenon, RowSteps DEF Moves

-----------------------------------------------------------------------------
LEMMA PositionStep == ASSUME Base, Next PROVE PositionInv'
  <1>1. PICK s \in Session : Elsewhere(s) /\ Moves(s)
    BY Kinds
  <1> DEFINE Position(t) ==
        /\ pc[t] \in AtScript => next[t] <= Len(Source[t])
        /\ pc[t] \in Outside \cup {"read"} => next[t] = 1
        /\ (pc[t] = "scan" => Running(t)) /\ (pc[t] = "find" => ~Running(t))
        /\ pc[t] = "commit" => InTx(t)
        /\ pc[t] = "forget" => ~Cur(t).has_down /\ ~Running(t) /\ TRUE \in ForceFlags
        /\ pc[t] \in AtScript /\ ~Running(t) => Cur(t).name = call[t].name
        /\ call[t].force \in ForceFlags \cup {FALSE}
  <1>2. \A t \in Session : Position(t)
    BY DEF Base, PositionInv
  <1>3. ASSUME NEW t \in Session, t # s PROVE Position(t)'
    BY <1>1, <1>2, <1>3 DEF Elsewhere, Running, InTx, Cur
  <1>4. Position(s)'
    <2> USE <1>2
    <2> USE DEF Base, TypeOK, Running, InTx, Cur, AtScript, Outside
    <2>1. CASE Leaves(s)
      BY <2>1 DEF Leaves
    <2>2. CASE Ends(s)
      BY <2>2 DEF Ends
    <2>3. CASE Stays(s)
      BY <2>3 DEF Stays
    <2>4. CASE GetApplied(s)
      BY <2>4 DEF GetApplied, Goto
    <2>5. CASE SkipApplied(s)
      BY <2>5 DEF SkipApplied
    <2>6. CASE StartPending(s)
      BY <2>6 DEF StartPending, Goto
    <2>7. CASE FindToRevert(s)
      <3>1. PICK i \in 1..Len(Source[s]) :
              /\ Source[s][i].name = call[s].name
              /\ next' = [next EXCEPT ![s] = i]
              /\ \/ pc' = [pc EXCEPT ![s] = "exec"]
                 \/ /\ pc' = [pc EXCEPT ![s] = "forget"]
                    /\ call[s].force /\ ~Source[s][i].has_down
        BY <2>7 DEF FindToRevert, Goto
      <3>2. pc[s] = "find" /\ call' = call
        BY <2>7 DEF FindToRevert, Goto
      <3>3. next'[s] = i /\ i <= Len(Source[s])
        BY <3>1, LenType
      <3>4. pc'[s] \in {"exec", "forget"} /\ ~Running(s)
        BY <3>1, <3>2
      <3>5. pc'[s] = "forget" => ~Source[s][i].has_down /\ TRUE \in ForceFlags
        BY <3>1
      <3>6. QED
        BY <3>1, <3>2, <3>3, <3>4, <3>5
    <2>8. CASE RecordsRow(s)
      BY <2>8 DEF RecordsRow
    <2>9. CASE ErasesRow(s)
      BY <2>9 DEF ErasesRow
    <2>10. CASE Continues(s)
      BY <2>10 DEF Continues
    <2>11. QED
      BY Zenon, <1>1, Cases, <2>1, <2>2, <2>3, <2>4, <2>5, <2>6, <2>7, <2>8, <2>9, <2>10
  <1>5. \A t \in Session : Position(t)'
    BY <1>3, <1>4
  <1>6. QED
    BY <1>5 DEF PositionInv

LEMMA BaseStep == Base /\ [Next]_vars => Base'
  <1>1. CASE UNCHANGED vars
    BY <1>1 DEF vars, dbvars, lockvars, sessionvars, boundvars, Base, TypeOK, LockInv,
                PositionInv, InCritical, Cur, InTx, Running
  <1>2. QED
    BY <1>1, TypeStep, LockStep, PositionStep DEF Base

THEOREM BaseInvariant == Spec => []Base
  BY BaseInit, BaseStep, PTL DEF Spec

\* Every variable keeps its type; the depth of the lock never goes below zero.
THEOREM TypeCorrect == Spec => []TypeOK
  <1>1. Base => TypeOK
    BY DEF Base
  <1>2. QED
    BY <1>1, BaseInvariant, PTL

\* Two sessions are inside the lock only if each holds it.
LEMMA Alone ==
  ASSUME Base, NEW s \in Session, NEW t \in Session, InCritical(s), InCritical(t)
  PROVE  s = t
  BY DEF Base, LockInv

\* At most one session is between acquire_lock and release_lock, through any
\* crash, dropped future or deadlock, and it holds the advisory lock.
THEOREM MutualExclusionHolds == Spec => []MutualExclusion
  <1>1. Base => MutualExclusion
    BY Alone DEF MutualExclusion, Base, LockInv
  <1>2. QED
    BY <1>1, BaseInvariant, PTL

-----------------------------------------------------------------------------
(* What the session in the lock knows of the tracking table.                *)

Known == SnapshotFresh /\ PassedInv /\ PendingInv /\ RunCompletes

LEMMA KnownInit == Init => Known
  BY DEF Init, Known, SnapshotFresh, PassedInv, PendingInv, RunCompletes, AtPending

\* The other members of its source do not share the name a session works on.
LEMMA OtherNames ==
  ASSUME Base, NEW s \in Session, pc[s] \in AtScript,
         NEW i \in 1..Len(Source[s]), i # next[s]
  PROVE  Source[s][i].name # Cur(s).name
  BY CurType, SourceAssumption DEF Cur

\* A step of s that changes its row changes no other row.
LEMMA RowChange ==
  ASSUME Base, NEW s \in Session, pc[s] \in AtScript, ledger' = LedgerAfter(s)
  PROVE  /\ ledger'[Cur(s).name] = IF Running(s) THEN Cur(s).sql ELSE NoRow
         /\ \A n \in Name : n # Cur(s).name => ledger'[n] = ledger[n]
  BY CurType DEF Base, TypeOK, Rows, LedgerAfter

\* A script's text is never the absence of a row, nor drifted from itself.
LEMMA OwnText ==
  ASSUME Base, NEW s \in Session, pc[s] \in AtScript
  PROVE  Cur(s).sql # NoRow /\ ~Drifted(Cur(s).sql, Cur(s))
  BY CurType, RowAssumption DEF Drifted

-----------------------------------------------------------------------------
(* The same for one session, and how its steps keep it.                     *)

KnownOf(t) ==
  /\ pc[t] \in AtPending \cup {"find", "forget"} =>
       IF Running(t)
         THEN \A i \in next[t]..Len(Source[t]) :
                applied[t][Source[t][i].name] = ledger[Source[t][i].name]
         ELSE applied[t] = ledger
  /\ Running(t) /\ pc[t] \in AtPending =>
       \A i \in 1..(next[t] - 1) :
         /\ i <= Len(Source[t])
         /\ ledger[Source[t][i].name] # NoRow
         /\ FailOnDrift => ~Drifted(ledger[Source[t][i].name], Source[t][i])
  /\ pc[t] \in {"exec", "record", "commit"} =>
       (Running(t) <=> ledger[Cur(t).name] = NoRow)
  /\ pc[t] = "release" /\ Running(t) /\ result[t] = "ok" =>
       \A n \in Names(t) : ledger[n] # NoRow

LEMMA KnownParts == Known <=> \A t \in Session : KnownOf(t)
  BY Zenon DEF Known, KnownOf, SnapshotFresh, PassedInv, PendingInv, RunCompletes

\* A session outside the lock knows nothing.
LEMMA KnownOutside == ASSUME NEW t \in Session, pc[t] \notin Critical PROVE KnownOf(t)
  BY DEF KnownOf, Critical, AtPending

LEMMA KnownElsewhere ==
  ASSUME Base, Known, NEW s \in Session, Elsewhere(s),
         ledger' = ledger \/ InCritical(s),
         NEW t \in Session, t # s
  PROVE  KnownOf(t)'
  <1>1. /\ pc'[t] = pc[t] /\ call'[t] = call[t] /\ applied'[t] = applied[t]
        /\ next'[t] = next[t] /\ result'[t] = result[t]
    BY DEF Elsewhere
  <1>2. CASE ledger' = ledger
    <2>1. KnownOf(t)
      BY KnownParts
    <2>2. QED
      BY <1>1, <1>2, <2>1 DEF KnownOf, Running, Cur
  <1>3. CASE InCritical(s)
    <2>1. pc'[t] \notin Critical
      BY <1>1, <1>3, Alone DEF InCritical
    <2>2. QED
      BY <2>1 DEF KnownOf, Critical, AtPending
  <1>4. QED
    BY <1>2, <1>3

\* The step that moves run to the next migration: its row is there.
LEMMA KnownRecords ==
  ASSUME Base, Known, NEW s \in Session, RecordsRow(s)
  PROVE  KnownOf(s)'
  <1>1. pc[s] \in AtScript /\ pc[s] \in AtPending /\ Running(s)
    BY DEF RecordsRow, AtScript, AtPending
  <1>2. next[s] \in 1..Len(Source[s])
    BY <1>1, CurType
  <1>3. /\ pc'[s] = "scan" /\ next'[s] = next[s] + 1
        /\ call' = call /\ applied' = applied /\ ledger' = LedgerAfter(s)
    BY DEF RecordsRow, Base, TypeOK
  <1>4. ASSUME NEW i \in 1..Len(Source[s]), i # next[s]
        PROVE  ledger'[Source[s][i].name] = ledger[Source[s][i].name]
    <2>1. Source[s][i].name # Cur(s).name /\ Source[s][i].name \in Name
      BY <1>1, <1>4, OtherNames, SourceMember
    <2>2. QED
      BY <1>1, <1>3, <2>1, RowChange
  <1>5. ledger'[Source[s][next[s]].name] = Cur(s).sql
    BY <1>1, <1>3, RowChange DEF Cur
  <1>6. ASSUME NEW i \in (next[s] + 1)..Len(Source[s])
        PROVE  applied[s][Source[s][i].name] = ledger'[Source[s][i].name]
    <2>1. i \in 1..Len(Source[s]) /\ i # next[s] /\ i \in next[s]..Len(Source[s])
      BY <1>2, LenType
    <2>2. applied[s][Source[s][i].name] = ledger[Source[s][i].name]
      BY <1>1, <2>1 DEF Known, SnapshotFresh
    <2>3. QED
      BY <1>4, <2>1, <2>2
  <1>7. ASSUME NEW i \in 1..next[s]
        PROVE  /\ i <= Len(Source[s])
               /\ ledger'[Source[s][i].name] # NoRow
               /\ FailOnDrift => ~Drifted(ledger'[Source[s][i].name], Source[s][i])
    <2>1. i \in 1..Len(Source[s]) /\ i <= Len(Source[s])
      BY <1>2, LenType
    <2>2. CASE i = next[s]
      BY <1>1, <1>5, <2>1, <2>2, OwnText DEF Cur
    <2>3. CASE i # next[s]
      <3>1. i \in 1..(next[s] - 1)
        BY <1>2, <2>3, LenType
      <3>2. /\ ledger[Source[s][i].name] # NoRow
            /\ FailOnDrift => ~Drifted(ledger[Source[s][i].name], Source[s][i])
        BY <1>1, <3>1 DEF Known, PassedInv
      <3>3. QED
        BY <1>4, <2>1, <2>3, <3>2
    <2>4. QED
      BY <2>2, <2>3
  <1>8. (next[s] + 1) - 1 = next[s]
    BY <1>2, LenType
  <1>9. QED
    BY <1>1, <1>3, <1>6, <1>7, <1>8 DEF KnownOf, Running, AtPending

LEMMA KnownSkips ==
  ASSUME Base, Known, NEW s \in Session, SkipApplied(s)
  PROVE  KnownOf(s)'
  <1>1. /\ pc[s] = "scan" /\ pc'[s] = "scan" /\ next'[s] = next[s] + 1
        /\ call' = call /\ applied' = applied /\ ledger' = ledger /\ Running(s)
    BY DEF SkipApplied, Base, TypeOK, PositionInv, dbvars
  <1>2. next[s] \in Nat \ {0} /\ next[s] <= Len(Source[s])
    BY DEF SkipApplied, Base, TypeOK
  <1>3. /\ next[s] \in next[s]..Len(Source[s]) /\ (next[s] + 1) - 1 = next[s]
        /\ \A i \in 1..next[s] : i = next[s] \/ i \in 1..(next[s] - 1)
        /\ \A i \in (next[s] + 1)..Len(Source[s]) : i \in next[s]..Len(Source[s])
    BY <1>2, LenType
  <1>4. \A i \in next[s]..Len(Source[s]) :
          applied[s][Source[s][i].name] = ledger[Source[s][i].name]
    BY <1>1 DEF Known, SnapshotFresh, AtPending
  <1>5. \A i \in 1..(next[s] - 1) :
          /\ i <= Len(Source[s]) /\ ledger[Source[s][i].name] # NoRow
          /\ FailOnDrift => ~Drifted(ledger[Source[s][i].name], Source[s][i])
    BY <1>1 DEF Known, PassedInv, AtPending
  <1>6. /\ ledger[Source[s][next[s]].name] # NoRow
        /\ FailOnDrift => ~Drifted(ledger[Source[s][next[s]].name], Source[s][next[s]])
    BY <1>3, <1>4 DEF SkipApplied, Cur
  <1>7. \A i \in 1..next[s] :
          /\ i <= Len(Source[s]) /\ ledger[Source[s][i].name] # NoRow
          /\ FailOnDrift => ~Drifted(ledger[Source[s][i].name], Source[s][i])
    BY <1>2, <1>3, <1>5, <1>6
  <1>8. QED
    BY <1>1, <1>3, <1>4, <1>7 DEF KnownOf, Running, AtPending

LEMMA KnownFinds ==
  ASSUME Base, Known, NEW s \in Session, FindToRevert(s)
  PROVE  KnownOf(s)'
  <1>1. pc[s] = "find" /\ ~Running(s) /\ applied[s] = ledger
    BY DEF FindToRevert, Goto, Base, PositionInv, Known, SnapshotFresh
  <1>2. PICK i \in 1..Len(Source[s]) :
          Source[s][i].name = call[s].name /\ next' = [next EXCEPT ![s] = i]
    BY DEF FindToRevert
  <1>3. /\ call' = call /\ applied' = applied /\ ledger' = ledger
        /\ pc'[s] \in {"exec", "forget"} /\ next'[s] = i
    BY <1>2 DEF FindToRevert, Goto, Base, TypeOK, dbvars
  <1>4. ledger[Source[s][i].name] # NoRow
    BY <1>1, <1>2 DEF FindToRevert
  <1>5. QED
    BY <1>1, <1>3, <1>4 DEF KnownOf, Running, Cur, AtPending

LEMMA KnownStep == Base /\ Known /\ [Next]_vars => Known'
  <1>1. CASE UNCHANGED vars
    BY <1>1, KnownParts DEF vars, dbvars, lockvars, sessionvars, KnownOf, Known, SnapshotFresh,
       PassedInv, PendingInv, RunCompletes, Running, Cur
  <1>2. ASSUME Base, Known, Next PROVE Known'
    <2>1. PICK s \in Session : Elsewhere(s) /\ Moves(s)
      BY <1>2, Kinds
    <2>2. KnownOf(s)
      BY <1>2, KnownParts
    <2>3. KnownOf(s)' /\ (ledger' = ledger \/ InCritical(s))
      <3> USE DEF Base, TypeOK, Running
      <3>1. CASE Leaves(s)
        BY <3>1 DEF Leaves, KnownOf, Outside, AtPending
      <3>2. CASE Ends(s)
        <4>1. /\ pc'[s] = "release" /\ ledger' = ledger /\ call' = call
              /\ result'[s] = "ok" => pc[s] = "scan" /\ next[s] > Len(Source[s])
          BY <3>2 DEF Ends
        <4>2. ASSUME pc[s] = "scan", next[s] > Len(Source[s]), Running(s), NEW n \in Names(s)
              PROVE  ledger[n] # NoRow
          <5>1. PICK i \in 1..Len(Source[s]) : n = Source[s][i].name
            BY DEF Names
          <5>2. i \in 1..(next[s] - 1)
            BY <1>2, <4>2, LenType
          <5>3. QED
            BY <1>2, <4>2, <5>1, <5>2 DEF Known, PassedInv, AtPending
        <4>3. QED
          BY <4>1, <4>2 DEF KnownOf, AtPending
      <3>3. CASE Stays(s)
        BY <2>2, <3>3 DEF Stays, KnownOf, Cur
      <3>4. CASE GetApplied(s)
        <4>1. /\ pc[s] = "read" /\ pc'[s] \in {"scan", "find"} /\ ledger' = ledger
              /\ applied'[s] = ledger /\ next' = next /\ call' = call
          BY <1>2, <3>4 DEF GetApplied, Goto, dbvars
        <4>2. next[s] = 1
          BY <1>2, <4>1 DEF PositionInv
        <4>3. QED
          BY <4>1, <4>2 DEF KnownOf, AtPending
      <3>5. CASE SkipApplied(s)
        BY <1>2, <3>5, KnownSkips DEF SkipApplied, dbvars
      <3>6. CASE StartPending(s)
        <4>1. /\ pc[s] = "scan" /\ pc'[s] = "exec" /\ ledger' = ledger /\ next' = next
              /\ call' = call /\ applied' = applied
          BY <1>2, <3>6 DEF StartPending, Goto, dbvars
        <4>2. Running(s) /\ next[s] \in next[s]..Len(Source[s])
          <5>1. next[s] \in Nat /\ next[s] <= Len(Source[s])
            BY <1>2, <3>6 DEF StartPending
          <5>2. Running(s)
            BY <1>2, <4>1 DEF PositionInv
          <5>3. QED
            BY <5>1, <5>2, LenType
        <4>3. ledger[Cur(s).name] = NoRow
          BY <2>2, <3>6, <4>1, <4>2 DEF StartPending, KnownOf, Cur, AtPending
        <4>4. QED
          BY <2>2, <4>1, <4>2, <4>3 DEF KnownOf, Cur, AtPending
      <3>7. CASE FindToRevert(s)
        BY <1>2, <3>7, KnownFinds DEF FindToRevert, dbvars
      <3>8. CASE RecordsRow(s)
        BY <1>2, <3>8, KnownRecords DEF RecordsRow, InCritical, Critical, AtScript
      <3>9. CASE ErasesRow(s)
        BY <1>2, <3>9 DEF ErasesRow, InCritical, Critical, AtScript, KnownOf, AtPending
      <3>10. CASE Continues(s)
        BY <1>2, <2>2, <3>10 DEF Continues, KnownOf, Cur, AtPending
      <3>11. QED
        BY Zenon, <1>2, <2>1, Cases, <3>1, <3>2, <3>3, <3>4, <3>5, <3>6, <3>7, <3>8, <3>9, <3>10
    <2>4. \A t \in Session : KnownOf(t)'
      BY <1>2, <2>1, <2>3, KnownElsewhere
    <2>5. Known' <=> \A t \in Session : KnownOf(t)'
      BY Zenon DEF Known, KnownOf, SnapshotFresh, PassedInv, PendingInv, RunCompletes
    <2>6. QED
      BY <2>4, <2>5
  <1>3. QED
    BY <1>1, <1>2

THEOREM KnownInvariant == Spec => [](Base /\ Known)
  BY BaseInit, KnownInit, BaseStep, KnownStep, PTL DEF Spec

\* What run or revert read of the tracking table stays true of the migrations it
\* has still to look at, although it reads the table only once.
THEOREM SnapshotStaysFresh == Spec => []SnapshotFresh
  <1>1. Known => SnapshotFresh
    BY DEF Known
  <1>2. QED
    BY <1>1, KnownInvariant, PTL

\* A run that succeeds leaves every migration of its source recorded.
THEOREM RunLeavesAllRecorded == Spec => []RunCompletes
  <1>1. Known => RunCompletes
    BY DEF Known
  <1>2. QED
    BY <1>1, KnownInvariant, PTL

\* With fail_on_drift no migration is applied after a drifted one.
THEOREM DriftStopsRun == Spec => []NothingPastDrift
  <1>1. Known => NothingPastDrift
    BY DEF Known, PassedInv, NothingPastDrift, AtPending
  <1>2. QED
    BY <1>1, KnownInvariant, PTL

-----------------------------------------------------------------------------
(* The effects: which steps change them, and that they follow the rows.     *)

\* A migration run outside a transaction is not transactional.
LEMMA OutsideTx ==
  ASSUME Base, NEW s \in Session, pc[s] \in AtScript, ~InTx(s)
  PROVE  Cur(s).name \in Name \ Transactional
  BY CurType DEF Transactional, InTx

\* Only these steps change the ledger or an effect; each at a script.
LEMMA TableSteps ==
  ASSUME Base, Known, Next
  PROVE  \/ UNCHANGED <<ledger, effect>>
         \/ \E s \in Session : /\ pc[s] \in AtScript
                               /\ ExecScript(s) \/ RecordRow(s) \/ CommitTx(s) \/ ForgetRow(s)
  <1>1. PICK s \in Session : Moves(s)
    BY Kinds
  <1>2. CASE Leaves(s) \/ Ends(s) \/ Stays(s)
    BY <1>2 DEF Leaves, Ends, Stays
  <1>3. CASE GetApplied(s) \/ SkipApplied(s) \/ StartPending(s) \/ FindToRevert(s)
    BY <1>3 DEF GetApplied, SkipApplied, StartPending, FindToRevert, dbvars
  <1>4. CASE ExecScript(s) \/ RecordRow(s) \/ CommitTx(s) \/ ForgetRow(s)
    <2>1. pc[s] \in AtScript
      BY <1>4 DEF ExecScript, RecordRow, CommitTx, ForgetRow, Goto, AtScript
    <2>2. QED
      BY <1>4, <2>1
  <1>5. QED
    BY Zenon, <1>1, <1>2, <1>3, <1>4 DEF Moves

LEMMA ExactlyOnceStep ==
  ASSUME Base, Known, ExactlyOnce, Next
  PROVE  ExactlyOnce'
  <1> SUFFICES ASSUME NEW n \in Transactional, n \in Revertible \/ TRUE \notin ForceFlags
              PROVE  effect'[n] = IF ledger'[n] = NoRow THEN 0 ELSE 1
    BY DEF ExactlyOnce
  <1>1. effect[n] = (IF ledger[n] = NoRow THEN 0 ELSE 1) /\ n \in Name
    BY DEF ExactlyOnce, Transactional
  <1>2. CASE UNCHANGED <<ledger, effect>>
    BY <1>1, <1>2
  <1>3. ASSUME NEW s \in Session, pc[s] \in AtScript, ExecScript(s)
        PROVE  effect'[n] = effect[n] /\ ledger'[n] = ledger[n]
    BY <1>1, <1>3, OutsideTx DEF ExecScript, EffectAfter, Base, TypeOK
  <1>4. ASSUME NEW s \in Session, pc[s] \in AtScript, RecordRow(s)
        PROVE  effect'[n] = effect[n] /\ ledger'[n] = ledger[n]
    BY <1>4, <1>1, OutsideTx, RowChange DEF RecordRow
  <1>5. ASSUME NEW s \in Session, pc[s] \in AtScript, ForgetRow(s)
        PROVE  effect'[n] = effect[n] /\ ledger'[n] = ledger[n]
    <2>1. ~Cur(s).has_down /\ TRUE \in ForceFlags /\ Cur(s) \in Deployed
      BY <1>5, CurType DEF ForgetRow, Base, PositionInv
    <2>2. n # Cur(s).name
      BY <2>1 DEF Revertible
    <2>3. QED
      BY <1>1, <1>5, <2>2, RowChange DEF ForgetRow
  <1>6. ASSUME NEW s \in Session, pc[s] \in AtScript, CommitTx(s)
        PROVE  effect'[n] = IF ledger'[n] = NoRow THEN 0 ELSE 1
    <2>1. effect' = EffectAfter(s) /\ ledger' = LedgerAfter(s)
      BY <1>6 DEF CommitTx
    <2>2. Running(s) <=> ledger[Cur(s).name] = NoRow
      BY <1>6 DEF CommitTx, Known, PendingInv
    <2>3. CASE n = Cur(s).name
      <3>1. effect'[n] = IF Running(s) THEN effect[n] + 1 ELSE effect[n] - 1
        BY <1>1, <2>1, <2>3 DEF EffectAfter, Base, TypeOK
      <3>2. ledger'[n] = NoRow <=> ~Running(s)
        BY <1>6, <2>1, <2>3, RowChange, OwnText
      <3>3. QED
        BY <1>1, <2>2, <2>3, <3>1, <3>2
    <2>4. CASE n # Cur(s).name
      BY <1>1, <1>6, <2>1, <2>4, RowChange DEF EffectAfter, Base, TypeOK
    <2>5. QED
      BY <2>3, <2>4
  <1>7. QED
    BY <1>1, <1>2, <1>3, <1>4, <1>5, <1>6, TableSteps

\* Migrations that run inside transactions are applied exactly as often as their
\* rows say, whatever fails, dies or runs at the same time.
THEOREM AppliedExactlyOnce == Spec => []ExactlyOnce
  <1>1. Init => ExactlyOnce
    BY DEF Init, ExactlyOnce, Transactional
  <1>2. Base /\ Known /\ ExactlyOnce /\ [Next]_vars => ExactlyOnce'
    <2>1. CASE UNCHANGED vars
      BY <2>1 DEF vars, dbvars, ExactlyOnce
    <2>2. QED
      BY <2>1, ExactlyOnceStep
  <1>3. QED
    BY <1>1, <1>2, KnownInvariant, PTL DEF Spec

-----------------------------------------------------------------------------
(* The refinement of MigrationLedger.                                       *)

\* The row a run inserts is one the ledger allows: what precedes it is recorded.
LEMMA InsertableRow ==
  ASSUME Base, Known, NEW s \in Session, pc[s] \in {"record", "commit"}, Running(s)
  PROVE  /\ Ledger!Insertable(Cur(s)) /\ Cur(s) \in Ledger!Deployed
         /\ ledger[Cur(s).name] = NoRow
  <1>1. next[s] \in 1..Len(Source[s])
    BY CurType DEF AtScript
  <1>2. \A j \in 1..(next[s] - 1) : ledger[Source[s][j].name] # NoRow
    BY DEF Known, PassedInv, AtPending
  <1>3. Source[s] \in {Source[t] : t \in Session}
    OBVIOUS
  <1>4. ledger[Cur(s).name] = NoRow
    BY DEF Known, PendingInv
  <1>5. Ledger!Insertable(Cur(s))
    BY <1>1, <1>2, <1>3 DEF Ledger!Insertable, Cur
  <1>6. Cur(s) \in Ledger!Deployed
    BY <1>1, <1>3 DEF Ledger!Deployed, Cur
  <1>7. QED
    BY <1>4, <1>5, <1>6

LEMMA LedgerStep ==
  ASSUME Base, Known, [Next]_vars
  PROVE  [Ledger!Next]_(Ledger!vars)
  <1> USE DEF Ledger!Next, Ledger!vars
  <1>1. CASE UNCHANGED <<ledger, effect>>
    BY <1>1
  <1>2. ASSUME NEW s \in Session, pc[s] \in AtScript, ExecScript(s)
        PROVE  [Ledger!Next]_(Ledger!vars)
    <2>1. CASE InTx(s)
      BY <1>2, <2>1 DEF ExecScript
    <2>2. CASE ~InTx(s)
      <3>1. Cur(s).name \in Name /\ Cur(s).name \in Name \ Transactional
        BY <1>2, <2>2, OutsideTx
      <3>2. effect' = EffectAfter(s) /\ ledger' = ledger
        BY <1>2, <2>2 DEF ExecScript
      <3>3. Ledger!RunOnly(Cur(s).name, IF Running(s) THEN 1 ELSE -1)
        BY <3>1, <3>2 DEF Ledger!RunOnly, EffectAfter, Base, TypeOK
      <3>4. QED
        BY <3>1, <3>3
    <2>3. QED
      BY <2>1, <2>2
  <1>3. ASSUME NEW s \in Session, pc[s] \in AtScript, RecordRow(s)
        PROVE  [Ledger!Next]_(Ledger!vars)
    <2>1. CASE InTx(s)
      BY <1>3, <2>1 DEF RecordRow
    <2>2. CASE ~InTx(s)
      <3>1. Cur(s).name \in Name \ Transactional
        BY <1>3, <2>2, OutsideTx
      <3>2. ledger' = LedgerAfter(s) /\ effect' = effect /\ pc[s] = "record"
        BY <1>3, <2>2 DEF RecordRow
      <3>3. CASE Running(s)
        <4>1. Ledger!RecordOnly(Cur(s))
          BY <3>1, <3>2, <3>3, InsertableRow DEF Ledger!RecordOnly, LedgerAfter
        <4>2. QED
          BY <3>2, <3>3, <4>1, InsertableRow
      <3>4. CASE ~Running(s)
        <4>1. Ledger!EraseOnly(Cur(s).name)
          BY <3>1, <3>2, <3>4 DEF Ledger!EraseOnly, LedgerAfter
        <4>2. QED
          BY <3>1, <4>1
      <3>5. QED
        BY <3>3, <3>4
    <2>3. QED
      BY <2>1, <2>2
  <1>4. ASSUME NEW s \in Session, pc[s] \in AtScript, CommitTx(s)
        PROVE  [Ledger!Next]_(Ledger!vars)
    <2>1. ledger' = LedgerAfter(s) /\ effect' = EffectAfter(s) /\ pc[s] = "commit"
      BY <1>4 DEF CommitTx
    <2>2. CASE Running(s)
      <3>1. Ledger!Apply(Cur(s))
        BY <2>1, <2>2, InsertableRow DEF Ledger!Apply, LedgerAfter, EffectAfter
      <3>2. QED
        BY <2>1, <2>2, <3>1, InsertableRow
    <2>3. CASE ~Running(s)
      <3>1. Cur(s).name \in Name /\ ledger[Cur(s).name] # NoRow
        BY <1>4, <2>1, <2>3, CurType DEF Known, PendingInv
      <3>2. Ledger!Revert(Cur(s).name)
        BY <2>1, <2>3, <3>1 DEF Ledger!Revert, LedgerAfter, EffectAfter
      <3>3. QED
        BY <3>1, <3>2
    <2>4. QED
      BY <2>2, <2>3
  <1>5. ASSUME NEW s \in Session, pc[s] \in AtScript, ForgetRow(s)
        PROVE  [Ledger!Next]_(Ledger!vars)
    <2>1. /\ ledger' = LedgerAfter(s) /\ effect' = effect /\ ~Running(s)
          /\ ~Cur(s).has_down /\ TRUE \in ForceFlags
      BY <1>5 DEF ForgetRow, Base, PositionInv
    <2>2. Cur(s).name \in Name \ Revertible
      BY <1>5, <2>1, CurType DEF Revertible
    <2>3. Ledger!EraseOnly(Cur(s).name)
      BY <2>1, <2>2 DEF Ledger!EraseOnly, LedgerAfter
    <2>4. QED
      BY <2>2, <2>3
  <1>6. CASE UNCHANGED vars
    BY <1>6, <1>1 DEF vars, dbvars
  <1>7. QED
    BY <1>1, <1>2, <1>3, <1>4, <1>5, <1>6, TableSteps

\* The runner implements the ledger: rows appear in source order, each with the
\* effect of its script in the same transaction, but for the scripts that run
\* outside one and the rows a forced revert drops.
THEOREM RunnerImplementsLedger == Spec => ImplementsLedger
  <1>1. Init => Ledger!Init
    BY DEF Init, Ledger!Init
  <1>2. Base /\ Known /\ [Next]_vars => [Ledger!Next]_(Ledger!vars)
    BY LedgerStep
  <1>3. QED
    BY <1>1, <1>2, KnownInvariant, PTL DEF Spec, ImplementsLedger, Ledger!Spec

-----------------------------------------------------------------------------
(* A revert that runs a script has one to run.                              *)

DownInv ==
  \A s \in Session : pc[s] \in {"exec", "record", "commit"} /\ ~Running(s) => Cur(s).has_down

LEMMA DownInit == Init => DownInv
  BY DEF Init, DownInv

LEMMA DownStep == ASSUME Base, DownInv, Next PROVE DownInv'
  <1>1. PICK s \in Session : Elsewhere(s) /\ Moves(s)
    BY Kinds
  <1> DEFINE HasDown(t) ==
        pc[t] \in {"exec", "record", "commit"} /\ ~Running(t) => Cur(t).has_down
  <1>2. \A t \in Session : HasDown(t)
    BY DEF DownInv
  <1>3. ASSUME NEW t \in Session, t # s PROVE HasDown(t)'
    BY <1>1, <1>2, <1>3 DEF Elsewhere, Running, Cur
  <1>4. HasDown(s)'
    <2> USE <1>2 DEF Base, TypeOK, Running, Cur, AtScript, Outside
    <2>1. CASE Leaves(s) \/ Ends(s) \/ Stays(s)
      BY <2>1 DEF Leaves, Ends, Stays
    <2>2. CASE GetApplied(s)
      BY <2>2 DEF GetApplied, Goto
    <2>3. CASE SkipApplied(s)
      BY <2>3 DEF SkipApplied
    <2>4. CASE StartPending(s)
      BY <2>4 DEF StartPending, Goto, PositionInv
    <2>5. CASE FindToRevert(s)
      <3>1. PICK i \in 1..Len(Source[s]) :
              /\ next' = [next EXCEPT ![s] = i]
              /\ \/ Source[s][i].has_down
                 \/ pc' = [pc EXCEPT ![s] = "forget"]
        BY <2>5 DEF FindToRevert, Goto
      <3>2. next'[s] = i
        BY <3>1
      <3>3. QED
        BY <3>1, <3>2
    <2>6. CASE RecordsRow(s) \/ ErasesRow(s)
      BY <2>6 DEF RecordsRow, ErasesRow
    <2>7. CASE Continues(s)
      BY <2>7 DEF Continues
    <2>8. QED
      BY Zenon, <1>1, Cases, <2>1, <2>2, <2>3, <2>4, <2>5, <2>6, <2>7
  <1>5. QED
    BY <1>3, <1>4 DEF DownInv

-----------------------------------------------------------------------------
(* The migrations whose rows are always backed by an effect: nothing takes  *)
(* an effect away before the row is gone.                                   *)

Backed ==
  {n \in Name : n \in Transactional \/ \A m \in Deployed : m.name = n => ~m.has_down}

\* s has run the script of n outside a transaction and its row is not there yet.
AboutToRecord(s, n) ==
  pc[s] = "record" /\ Running(s) /\ ~InTx(s) /\ Cur(s).name = n

BackedInv ==
  \A n \in Backed :
    /\ effect[n] >= 0
    /\ ledger[n] # NoRow => effect[n] >= 1
    /\ \A s \in Session : AboutToRecord(s, n) => effect[n] >= 1

LEMMA BackedInit == Init => BackedInv
  BY DEF Init, BackedInv, Backed, AboutToRecord

\* What a down script undoes outside a transaction is not backed.
LEMMA DownOutsideTx ==
  ASSUME Base, DownInv, NEW s \in Session, pc[s] = "exec", ~Running(s), ~InTx(s)
  PROVE  Cur(s).name \notin Backed
  <1>1. Cur(s).has_down /\ Cur(s) \in Deployed
    BY CurType DEF DownInv, AtScript
  <1>2. Cur(s).name \notin Transactional
    BY OutsideTx DEF AtScript
  <1>3. QED
    BY <1>1, <1>2 DEF Backed

\* A step that is not at a script records nothing and starts to record nothing.
LEMMA AboutStep ==
  ASSUME Base, Next, NEW n \in Name, NEW t \in Session, AboutToRecord(t, n)'
  PROVE  \/ AboutToRecord(t, n)
         \/ ExecScript(t) /\ Running(t) /\ ~InTx(t) /\ Cur(t).name = n
  <1>1. PICK s \in Session : Elsewhere(s) /\ Moves(s)
    BY Kinds
  <1>2. CASE t # s
    BY <1>1, <1>2 DEF Elsewhere, AboutToRecord, Running, InTx, Cur
  <1>3. CASE t = s
    <2> USE DEF Base, TypeOK, AboutToRecord, Running, InTx, Cur
    <2>1. CASE Leaves(s) \/ Ends(s)
      BY <1>3, <2>1 DEF Leaves, Ends, Outside
    <2>2. CASE Stays(s)
      BY <1>3, <2>2 DEF Stays
    <2>3. CASE GetApplied(s) \/ SkipApplied(s) \/ StartPending(s) \/ FindToRevert(s)
      BY <1>3, <2>3 DEF GetApplied, SkipApplied, StartPending, FindToRevert, Goto
    <2>4. CASE ExecScript(s)
      BY <1>3, <2>4 DEF ExecScript, Goto
    <2>5. CASE RecordRow(s) \/ CommitTx(s) \/ ForgetRow(s)
      BY <1>3, <2>5 DEF RecordRow, CommitTx, ForgetRow, Proceed, Finish
    <2>6. QED
      BY Zenon, <1>1, <2>1, <2>2, <2>3, <2>4, <2>5 DEF Moves
  <1>4. QED
    BY <1>2, <1>3

LEMMA BackedStep ==
  ASSUME Base, Known, DownInv, BackedInv, Next
  PROVE  BackedInv'
  <1> SUFFICES ASSUME NEW n \in Backed
              PROVE  /\ effect'[n] >= 0
                     /\ ledger'[n] # NoRow => effect'[n] >= 1
                     /\ \A t \in Session : AboutToRecord(t, n)' => effect'[n] >= 1
    BY DEF BackedInv, Backed, Transactional, Deployed, UsesTx
  <1>1. /\ n \in Name /\ effect[n] \in Int /\ effect[n] >= 0
        /\ ledger[n] # NoRow => effect[n] >= 1
        /\ \A t \in Session : AboutToRecord(t, n) => effect[n] >= 1
    BY DEF BackedInv, Backed, Base, TypeOK
  <1>2. CASE UNCHANGED <<ledger, effect>>
    <2>1. ASSUME NEW t \in Session, ExecScript(t), Running(t), ~InTx(t), Cur(t).name = n
          PROVE  FALSE
      <3>1. effect' = EffectAfter(t)
        BY <2>1 DEF ExecScript
      <3>2. effect'[n] = effect[n] + 1
        BY <1>1, <2>1, <3>1 DEF EffectAfter, Base, TypeOK
      <3>3. QED
        BY <1>1, <1>2, <3>2
    <2>2. QED
      BY <1>1, <1>2, <2>1, AboutStep
  <1>3. ASSUME NEW s \in Session, pc[s] \in AtScript, ExecScript(s)
        PROVE  /\ effect'[n] >= 0
               /\ ledger'[n] # NoRow => effect'[n] >= 1
               /\ \A t \in Session : AboutToRecord(t, n)' => effect'[n] >= 1
    <2>1. pc[s] = "exec" /\ ledger' = ledger
      BY <1>3 DEF ExecScript, Goto
    <2>2. effect'[n] = effect[n] \/ (effect'[n] = effect[n] + 1)
      <3>1. CASE InTx(s)
        BY <1>3, <3>1 DEF ExecScript
      <3>2. CASE ~InTx(s)
        <4>1. effect' = EffectAfter(s)
          BY <1>3, <3>2 DEF ExecScript
        <4>2. Cur(s).name = n => Running(s)
          BY <2>1, <3>2, DownOutsideTx
        <4>3. QED
          BY <1>1, <4>1, <4>2 DEF EffectAfter, Base, TypeOK
      <3>3. QED
        BY <3>1, <3>2
    <2>3. ASSUME NEW t \in Session, ExecScript(t), Running(t), ~InTx(t), Cur(t).name = n
          PROVE  effect'[n] = effect[n] + 1
      <3>1. effect' = EffectAfter(t)
        BY <2>3 DEF ExecScript
      <3>2. QED
        BY <1>1, <2>3, <3>1 DEF EffectAfter, Base, TypeOK
    <2>4. QED
      BY <1>1, <2>1, <2>2, <2>3, AboutStep
  <1>4. ASSUME NEW s \in Session, pc[s] \in AtScript, RecordRow(s) \/ CommitTx(s) \/ ForgetRow(s)
        PROVE  /\ effect'[n] >= 0
               /\ ledger'[n] # NoRow => effect'[n] >= 1
               /\ \A t \in Session : AboutToRecord(t, n)' => effect'[n] >= 1
    <2>1. ASSUME NEW t \in Session, AboutToRecord(t, n)' PROVE FALSE
      <3>1. AboutToRecord(t, n) \/ ExecScript(t)
        BY <1>1, <2>1, AboutStep
      <3>2. InCritical(t) /\ InCritical(s)
        BY <1>4, <3>1 DEF AboutToRecord, ExecScript, Goto, InCritical, Critical, AtScript
      <3>3. t = s
        BY <3>2, Alone
      <3>4. QED
        BY <1>4, <2>1, <3>3
        DEF AboutToRecord, RecordRow, CommitTx, ForgetRow, Proceed, Finish, Base, TypeOK
    <2>2. CASE RecordRow(s)
      <3>1. effect' = effect
        BY <2>2 DEF RecordRow
      <3>2. CASE InTx(s) \/ Cur(s).name # n
        BY <1>1, <1>4, <2>1, <2>2, <3>1, <3>2, RowChange DEF RecordRow
      <3>3. CASE ~InTx(s) /\ Cur(s).name = n
        <4>1. ledger' = LedgerAfter(s) /\ pc[s] = "record"
          BY <2>2, <3>3 DEF RecordRow
        <4>2. Running(s) => effect[n] >= 1
          BY <1>1, <3>3, <4>1 DEF AboutToRecord
        <4>3. ~Running(s) => ledger'[n] = NoRow
          BY <1>4, <3>3, <4>1, RowChange
        <4>4. QED
          BY <1>1, <2>1, <3>1, <4>2, <4>3
      <3>4. QED
        BY <3>2, <3>3
    <2>3. CASE CommitTx(s)
      <3>1. effect' = EffectAfter(s) /\ ledger' = LedgerAfter(s) /\ pc[s] = "commit"
        BY <2>3 DEF CommitTx
      <3>2. CASE Cur(s).name # n
        BY <1>1, <1>4, <2>1, <3>1, <3>2, RowChange DEF EffectAfter, Base, TypeOK
      <3>3. CASE Cur(s).name = n /\ Running(s)
        BY <1>1, <2>1, <3>1, <3>3 DEF EffectAfter, Base, TypeOK
      <3>4. CASE Cur(s).name = n /\ ~Running(s)
        <4>1. ledger[n] # NoRow
          BY <3>1, <3>4 DEF Known, PendingInv
        <4>2. ledger'[n] = NoRow
          BY <1>4, <3>1, <3>4, RowChange
        <4>3. effect'[n] = effect[n] - 1
          BY <1>1, <3>1, <3>4 DEF EffectAfter, Base, TypeOK
        <4>4. QED
          BY <1>1, <2>1, <4>1, <4>2, <4>3
      <3>5. QED
        BY <3>2, <3>3, <3>4
    <2>4. CASE ForgetRow(s)
      <3>1. effect' = effect /\ ledger' = LedgerAfter(s) /\ ~Running(s)
        BY <2>4 DEF ForgetRow, Base, PositionInv
      <3>2. ledger'[n] # NoRow => ledger[n] # NoRow
        BY <1>1, <1>4, <3>1, RowChange
      <3>3. QED
        BY <1>1, <2>1, <3>1, <3>2
    <2>5. QED
      BY <1>4, <2>2, <2>3, <2>4
  <1>5. QED
    BY <1>2, <1>3, <1>4, TableSteps

\* A migration is listed as applied only once its script has run, although the
\* script and the row may be written in two steps, by a process that dies between
\* them.
THEOREM RecordedAfterRun == Spec => []RecordedHasRun
  <1>1. BackedInv => RecordedHasRun
    BY DEF BackedInv, Backed, RecordedHasRun
  <1>2. Base /\ Known /\ DownInv /\ BackedInv /\ [Next]_vars => DownInv' /\ BackedInv'
    <2>1. CASE UNCHANGED vars
      BY <2>1 DEF vars, dbvars, sessionvars, DownInv, BackedInv, Backed, Running, Cur, InTx,
                  AboutToRecord
    <2>2. QED
      BY <2>1, DownStep, BackedStep
  <1>3. QED
    BY <1>1, <1>2, DownInit, BackedInit, KnownInvariant, PTL DEF Spec

-----------------------------------------------------------------------------
(* The lock of a call that has returned.  Two things leave it behind: a     *)
(* dropped future, and an error in a transaction that a script opened       *)
(* itself.  Without them the holder is inside the lock and took it once.    *)

NoOwnTransaction == \A m \in Deployed : m.name \in OwnTransaction => UsesTx(m)

HeldInside ==
  /\ \A s \in Session : holder = s => InCritical(s)
  /\ depth \in {0, 1}
  /\ \A s \in Session : conn[s] \in {"clean", "open"}

LEMMA HeldInit == Init => HeldInside
  BY RowAssumption DEF Init, HeldInside

\* A session outside the lock returns, or waits on, without anything changing hands.
LEMMA HeldOutside ==
  ASSUME Base, HeldInside, NEW s \in Session, ~InCritical(s),
         \A t \in Session : t # s => pc'[t] = pc[t],
         UNCHANGED lockvars,
         \A t \in Session : conn'[t] \in {"clean", "open"}
  PROVE  HeldInside'
  BY DEF HeldInside, InCritical, lockvars

\* A session stays inside the lock.
LEMMA HeldStays ==
  ASSUME Base, HeldInside, NEW s \in Session, InCritical(s)',
         \A t \in Session : t # s => pc'[t] = pc[t],
         UNCHANGED lockvars,
         \A t \in Session : conn'[t] \in {"clean", "open"}
  PROVE  HeldInside'
  BY DEF HeldInside, InCritical, lockvars

LEMMA HeldStep ==
  ASSUME Base, HeldInside, Next, MaxCancels = 0, NoOwnTransaction
  PROVE  HeldInside'
  <1> USE DEF Base, TypeOK
  <1> DEFINE Lockless(s) ==
        \/ \E c \in Requests : Begin(s, c)
        \/ Prepare(s)
      Inside(s) ==
        \/ GetApplied(s) \/ Scan(s) \/ Check(s) \/ Change(s)
  <1>1. ASSUME NEW s \in Session, Lockless(s) PROVE HeldInside'
    <2>1. /\ pc[s] \in Outside /\ lockvars' = lockvars /\ conn' = conn
          /\ \A t \in Session : t # s => pc'[t] = pc[t]
      BY <1>1 DEF Prepare, Begin, EnsureTable, EnsureRefused, CreateTable, CreateConflicts,
                  PickLast, PickNone, Goto, Return, Outside, lockvars
    <2>2. QED
      BY <2>1, HeldOutside DEF InCritical, Outside, Critical, HeldInside
  <1>2. ASSUME NEW s \in Session, Inside(s) PROVE HeldInside'
    <2>1. /\ pc'[s] \in Critical /\ lockvars' = lockvars
          /\ \A t \in Session : t # s => pc'[t] = pc[t]
      <3>1. CASE GetApplied(s)
        BY <3>1 DEF GetApplied, Goto, Critical, lockvars
      <3>2. CASE Scan(s)
        BY <3>2 DEF Scan, SkipApplied, StopOnDrift, StartPending, AllApplied, Goto, Finish,
                    Critical, lockvars
      <3>3. CASE Check(s)
        BY <3>3 DEF Check, FindToRevert, RefuseRevert, Goto, Finish, Critical, lockvars
      <3>4. CASE ExecScript(s) \/ ExecFails(s) \/ \E t \in Session : DeadlockKillsScript(s, t)
        BY <3>4 DEF ExecScript, ExecFails, DeadlockKillsScript, Goto, Finish, Critical, lockvars
      <3>5. CASE RecordRow(s) \/ CommitTx(s) \/ RowFails(s) \/ ForgetRow(s)
        BY <3>5 DEF RecordRow, CommitTx, RowFails, ForgetRow, Proceed, Finish, Critical, lockvars
      <3>6. QED
        BY Zenon, <1>2, <3>1, <3>2, <3>3, <3>4, <3>5 DEF Change
    <2>2. \A t \in Session : conn'[t] \in {"clean", "open"}
      <3>1. CASE GetApplied(s) \/ Scan(s) \/ Check(s)
        BY <3>1 DEF GetApplied, Scan, Check, SkipApplied, StopOnDrift, StartPending, AllApplied,
                    FindToRevert, RefuseRevert, HeldInside
      <3>2. CASE ExecFails(s)
        <4>1. Cur(s) \in Deployed
          BY <3>2, CurType DEF ExecFails, AtScript
        <4>2. ~(~InTx(s) /\ Cur(s).name \in OwnTransaction)
          BY <4>1 DEF NoOwnTransaction, InTx
        <4>3. QED
          BY <3>2, <4>2 DEF ExecFails, HeldInside
      <3>3. CASE ExecScript(s) \/ \E t \in Session : DeadlockKillsScript(s, t)
        BY <3>3 DEF ExecScript, DeadlockKillsScript, HeldInside
      <3>4. CASE RecordRow(s) \/ CommitTx(s) \/ RowFails(s) \/ ForgetRow(s)
        BY <3>4 DEF RecordRow, CommitTx, RowFails, ForgetRow, HeldInside
      <3>5. QED
        BY Zenon, <1>2, <3>1, <3>2, <3>3, <3>4 DEF Change
    <2>3. QED
      BY <2>1, <2>2, HeldStays DEF InCritical
  <1>3. ASSUME NEW s \in Session, AcquireLock(s) PROVE HeldInside'
    <2>1. pc[s] = "acquire" /\ holder # s
      BY <1>3 DEF AcquireLock, Goto, HeldInside, InCritical, Critical
    <2>2. holder = Nobody /\ depth = 0
      BY <1>3, <2>1 DEF AcquireLock, Take, LockInv
    <2>3. /\ pc' = [pc EXCEPT ![s] = "read"] /\ holder' = s /\ depth' = 1 /\ conn' = conn
      BY <1>3, <2>2 DEF AcquireLock, Take, Goto
    <2>4. QED
      BY <2>3 DEF HeldInside, InCritical, Critical
  <1>4. ASSUME NEW s \in Session, ReleaseLock(s) PROVE HeldInside'
    <2>1. pc[s] = "release" /\ holder = s /\ depth = 1
      BY <1>4, HolderDepth DEF ReleaseLock, InCritical, Critical, HeldInside
    <2>2. holder' = Nobody /\ depth' = 0 /\ conn' = conn
      BY <1>4, <2>1 DEF ReleaseLock, Unlock
    <2>3. QED
      BY <2>2, RowAssumption DEF HeldInside
  <1>5. ASSUME NEW s \in Session, Crash(s) PROVE HeldInside'
    <2>1. /\ \A t \in Session : t # s => pc'[t] = pc[t]
          /\ \A t \in Session : conn'[t] \in {"clean", "open"}
      BY <1>5 DEF Crash, Return, HeldInside
    <2>2. CASE holder = s
      BY <1>5, <2>1, <2>2, RowAssumption DEF Crash, HeldInside
    <2>3. CASE holder # s
      BY <1>5, <2>1, <2>3 DEF Crash, HeldInside, InCritical, lockvars
    <2>4. QED
      BY <2>2, <2>3
  <1>6. ASSUME NEW s \in Session, NEW t \in Session, DeadlockKillsWaiter(s, t)
        PROVE  HeldInside'
    <2>1. /\ pc[t] \notin Critical /\ lockvars' = lockvars /\ conn' = conn
          /\ \A u \in Session : u # t => pc'[u] = pc[u]
      BY <1>6 DEF DeadlockKillsWaiter, Return, Critical, lockvars
    <2>2. QED
      BY <2>1, HeldOutside DEF InCritical, HeldInside
  <1>7. ASSUME NEW s \in Session
        PROVE  /\ ~ReleaseRefused(s) /\ ~Cancel(s) /\ ~OrphanGranted(s)
               /\ \A t \in Session : ~DeadlockKillsOrphan(s, t)
    BY DEF ReleaseRefused, Cancel, OrphanGranted, DeadlockKillsOrphan, HeldInside
  <1>8. QED
    BY Zenon, <1>1, <1>2, <1>3, <1>4, <1>5, <1>6, <1>7
    DEF Next, Work, Release, Disturb

\* No call that has returned keeps the advisory lock, whatever failed or died, as
\* long as no future is dropped and no script outside the runner's transaction
\* opens one of its own.
THEOREM LockFreed ==
  ASSUME MaxCancels = 0, NoOwnTransaction
  PROVE  Spec => []LockFreedOnReturn
  <1>1. HeldInside => LockFreedOnReturn
    BY DEF HeldInside, LockFreedOnReturn, InCritical, Critical
  <1>2. Base /\ HeldInside /\ [Next]_vars => HeldInside'
    <2>1. CASE UNCHANGED vars
      BY <2>1 DEF vars, lockvars, sessionvars, HeldInside, InCritical
    <2>2. QED
      BY <2>1, HeldStep
  <1>3. QED
    BY <1>1, <1>2, HeldInit, BaseInvariant, PTL DEF Spec
=============================================================================
