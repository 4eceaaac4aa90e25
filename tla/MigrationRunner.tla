-------------------------- MODULE MigrationRunner --------------------------
(***************************************************************************)
(* typedpg::migrate::{run, revert, status} and the commands of the CLI     *)
(* that call them, executed by several processes against one database.     *)
(*                                                                         *)
(* One action per statement the runner awaits: other sessions may step     *)
(* between two of them, the process may die there, and the caller may drop *)
(* the future there.  The code between two awaits belongs to the step it   *)
(* follows.  Each session owns one connection (one tokio_postgres::Client) *)
(* and reconnects after it dies.                                           *)
(*                                                                         *)
(* Definitions headed "Mutant:" are wrong versions of the definition that  *)
(* follows them; nothing uses them but the mutants of PROJECT.json.        *)
(***************************************************************************)
EXTENDS Integers, Sequences

CONSTANTS
  Session,          \* the processes that call the runner
  Name,             \* migration names (file stems), the key of the tracking table
  Sql,              \* texts of up scripts; md5 of a text identifies it
  NoSql,            \* SQL NULL in sql_source: a row older than that column
  NoRow,            \* ledger[n] = NoRow: the table has no row for n
  Nobody,           \* the advisory lock is free
  Source,           \* Source[s]: the migrations session s was shipped with, in order
  UseTransaction,   \* config.use_transaction
  FailOnDrift,      \* config.fail_on_drift
  OwnTransaction,   \* names whose script, run outside a transaction, opens one itself
  WaitsForSnapshots,\* names whose script is like CREATE INDEX CONCURRENTLY
  ForceFlags,       \* the values of revert's force flag that callers pass
  InitialRows,      \* contents of the tracking table before the first call
  MaxCalls,         \* bound: calls made by each session
  MaxCrashes,       \* bound: connections lost, in total
  MaxCancels        \* bound: futures dropped before they finish, in total

Migration == [name: Name, sql: Sql, has_down: BOOLEAN, no_transaction: BOOLEAN]

Rows == [Name -> Sql \cup {NoSql, NoRow}]

\* There is a name to call revert with.
ASSUME NameAssumption == Name # {}

ASSUME RowAssumption ==
  /\ {NoSql, NoRow} \cap Sql = {}
  /\ NoSql # NoRow
  /\ Nobody \notin Session

\* from_dir takes the names from the files of one directory: they are distinct.
ASSUME SourceAssumption ==
  /\ Source \in [Session -> Seq(Migration)]
  /\ \A s \in Session : \A i, j \in 1..Len(Source[s]) :
        Source[s][i].name = Source[s][j].name => i = j

ASSUME ConfigAssumption ==
  /\ UseTransaction \in BOOLEAN /\ FailOnDrift \in BOOLEAN
  /\ OwnTransaction \subseteq Name /\ WaitsForSnapshots \subseteq Name
  /\ ForceFlags \subseteq BOOLEAN
  /\ InitialRows \subseteq Rows
  /\ MaxCalls \in Nat /\ MaxCrashes \in Nat /\ MaxCancels \in Nat

VARIABLES
  \* the database
  table,     \* the tracking table exists
  ledger,    \* committed rows: name -> stored sql_source
  effect,    \* name -> up scripts committed, less the down scripts
  holder,    \* session holding the advisory lock, or Nobody
  depth,     \* times its holder has taken it: session locks are reentrant
  \* each session
  conn,      \* state of its connection
  pc,        \* the statement it is about to send
  call,      \* the call it is serving
  applied,   \* the map get_applied returned
  next,      \* position in its source
  result,    \* how its last call ended
  \* bounds
  calls, crashes, cancels

dbvars      == <<table, ledger, effect>>
lockvars    == <<holder, depth>>
sessionvars == <<conn, pc, call, applied, next, result>>
boundvars   == <<calls, crashes, cancels>>
vars        == <<dbvars, lockvars, sessionvars, boundvars>>

\* clean: no transaction; open: inside the runner's; aborted: inside one that a
\* script opened and an error aborted; busy: still executing a statement whose
\* future was dropped.
ConnState == {"clean", "open", "aborted", "busy"}

\* Positions outside the lock, and those between acquire_lock and release_lock.
Outside  == {"idle", "ensure", "create", "pick", "acquire"}
Critical == {"read", "scan", "find", "exec", "record", "commit", "forget", "release"}

Outcome == {"none", "ok", "sql", "drift", "not_applied", "not_found", "no_down",
            "nothing_to_revert", "conflict", "aborted", "deadlock", "unlock", "lost"}

\* revert_last is the revert that the CLI's `down` without a name goes on to make.
Calls == [op: {"run", "revert", "down", "revert_last"}, name: Name, force: BOOLEAN]

Names(s) == {Source[s][i].name : i \in 1..Len(Source[s])}

Cur(s) == Source[s][next[s]]

UsesTx(m) == UseTransaction /\ ~m.no_transaction

InTx(s) == UsesTx(Cur(s))

\* The stored hash is present and is not that of the current text.
Drifted(row, m) == row # NoRow /\ row # NoSql /\ row # m.sql

NoRows == [n \in Name |-> NoRow]

NoCall == [op |-> "run", name |-> CHOOSE n \in Name : TRUE, force |-> FALSE]

Init ==
  /\ ledger \in InitialRows
  /\ table \in {b \in BOOLEAN : ledger # NoRows => b}
  /\ effect = [n \in Name |-> IF ledger[n] = NoRow THEN 0 ELSE 1]
  /\ holder = Nobody /\ depth = 0
  /\ conn = [s \in Session |-> "clean"]
  /\ pc = [s \in Session |-> "idle"]
  /\ call = [s \in Session |-> NoCall]
  /\ applied = [s \in Session |-> NoRows]
  /\ next = [s \in Session |-> 1]
  /\ result = [s \in Session |-> "none"]
  /\ calls = [s \in Session |-> 0] /\ crashes = 0 /\ cancels = 0

-----------------------------------------------------------------------------
Goto(s, from, to) == pc[s] = from /\ pc' = [pc EXCEPT ![s] = to]

\* The function returns r: its locals are gone.
Return(s, r) ==
  /\ pc' = [pc EXCEPT ![s] = "idle"]
  /\ result' = [result EXCEPT ![s] = r]
  /\ call' = [call EXCEPT ![s] = NoCall]
  /\ applied' = [applied EXCEPT ![s] = NoRows]
  /\ next' = [next EXCEPT ![s] = 1]

\* Mutant: a `?` between acquire_lock and release_lock returns at once.
FinishWithoutRelease(s, r) ==
  /\ pc' = [pc EXCEPT ![s] = "idle"]
  /\ result' = [result EXCEPT ![s] = r]

\* run_inner or revert_inner is done with result r: the lock is released next.
Finish(s, r) ==
  /\ pc' = [pc EXCEPT ![s] = "release"]
  /\ result' = [result EXCEPT ![s] = r]

\* The caller invokes run, revert or the CLI's `down` without a name.
Begin(s, c) ==
  /\ Goto(s, "idle", "ensure")
  /\ calls[s] < MaxCalls
  /\ calls' = [calls EXCEPT ![s] = @ + 1]
  /\ call' = [call EXCEPT ![s] = c]
  /\ result' = [result EXCEPT ![s] = "none"]
  /\ UNCHANGED <<dbvars, lockvars, conn, applied, next, crashes, cancels>>

\* run and `down` take no name: theirs is NoCall's.
Requests ==
  {NoCall} \cup {c \in Calls :
    /\ c.op \in {"down", "revert"} /\ c.force \in ForceFlags
    /\ c.op = "down" => c.name = NoCall.name}

AfterEnsure(s) == IF call[s].op = "down" THEN "pick" ELSE "acquire"

\* ensure_table, before the lock.  CREATE TABLE IF NOT EXISTS first looks the
\* table up; when it is missing, the creation that follows is a step of its own.
EnsureTable(s) ==
  /\ conn[s] = "clean"
  /\ Goto(s, "ensure", IF table THEN AfterEnsure(s) ELSE "create")
  /\ UNCHANGED <<dbvars, lockvars, conn, call, applied, next, result, boundvars>>

\* The connection is still in the transaction a failed script left behind.
EnsureRefused(s) ==
  /\ pc[s] = "ensure" /\ conn[s] = "aborted"
  /\ Return(s, "aborted")
  /\ UNCHANGED <<dbvars, lockvars, conn, boundvars>>

CreateTable(s) ==
  /\ ~table /\ table' = TRUE
  /\ Goto(s, "create", AfterEnsure(s))
  /\ UNCHANGED <<ledger, effect, lockvars, conn, call, applied, next, result, boundvars>>

\* Another session created the table since the lookup: PostgreSQL reports a
\* unique violation in its catalog and ensure_table returns it.
CreateConflicts(s) ==
  /\ pc[s] = "create" /\ table
  /\ Return(s, "conflict")
  /\ UNCHANGED <<dbvars, lockvars, conn, boundvars>>

AppliedIn(s, rows) == {i \in 1..Len(Source[s]) : rows[Source[s][i].name] # NoRow}

\* `down` without a name asks status(), which takes no lock, for the last
\* applied migration of the source, then calls revert with its name.
PickLast(s) ==
  /\ Goto(s, "pick", "ensure")
  /\ \E i \in AppliedIn(s, ledger) :
       /\ \A j \in AppliedIn(s, ledger) : j <= i
       /\ call' = [call EXCEPT ![s].op = "revert_last", ![s].name = Source[s][i].name]
  /\ UNCHANGED <<dbvars, lockvars, conn, applied, next, result, boundvars>>

PickNone(s) ==
  /\ pc[s] = "pick" /\ AppliedIn(s, ledger) = {}
  /\ Return(s, "nothing_to_revert")
  /\ UNCHANGED <<dbvars, lockvars, conn, boundvars>>

\* Mutant: pg_try_advisory_lock, its answer ignored.
TryTake(s) ==
  IF holder \in {Nobody, s}
    THEN holder' = s /\ depth' = depth + 1
    ELSE UNCHANGED lockvars

\* Mutant: `down` takes the lock and so does the revert it calls; one releases it.
TakeTwice(s) ==
  /\ holder \in {Nobody, s}
  /\ holder' = s /\ depth' = depth + 2

Take(s) ==
  /\ holder \in {Nobody, s}
  /\ holder' = s /\ depth' = depth + 1

\* SELECT pg_advisory_lock
AcquireLock(s) ==
  /\ Goto(s, "acquire", "read")
  /\ Take(s)
  /\ UNCHANGED <<dbvars, conn, call, applied, next, result, boundvars>>

GetApplied(s) ==
  /\ Goto(s, "read", IF call[s].op = "run" THEN "scan" ELSE "find")
  /\ applied' = [applied EXCEPT ![s] = ledger]
  /\ UNCHANGED <<dbvars, lockvars, conn, call, next, result, boundvars>>

-----------------------------------------------------------------------------
(* run_inner: the loop over the source, with the map read under the lock.   *)

\* Mutant: an applied migration is skipped before its hash is compared.
SkipUnchecked(s) ==
  /\ pc[s] = "scan" /\ next[s] <= Len(Source[s])
  /\ applied[s][Cur(s).name] # NoRow
  /\ next' = [next EXCEPT ![s] = @ + 1]
  /\ UNCHANGED <<dbvars, lockvars, conn, pc, call, applied, result, boundvars>>

SkipApplied(s) ==
  /\ pc[s] = "scan" /\ next[s] <= Len(Source[s])
  /\ applied[s][Cur(s).name] # NoRow
  /\ ~(FailOnDrift /\ Drifted(applied[s][Cur(s).name], Cur(s)))
  /\ next' = [next EXCEPT ![s] = @ + 1]
  /\ UNCHANGED <<dbvars, lockvars, conn, pc, call, applied, result, boundvars>>

StopOnDrift(s) ==
  /\ pc[s] = "scan" /\ next[s] <= Len(Source[s])
  /\ FailOnDrift /\ Drifted(applied[s][Cur(s).name], Cur(s))
  /\ Finish(s, "drift")
  /\ UNCHANGED <<dbvars, lockvars, conn, call, applied, next, boundvars>>

\* Mutant: the pending migrations are taken in no particular order.
StartAnyPending(s) ==
  /\ \E i \in next[s]..Len(Source[s]) :
       applied[s][Source[s][i].name] = NoRow /\ next' = [next EXCEPT ![s] = i]
  /\ Goto(s, "scan", "exec")
  /\ UNCHANGED <<dbvars, lockvars, conn, call, applied, result, boundvars>>

StartPending(s) ==
  /\ next[s] <= Len(Source[s])
  /\ applied[s][Cur(s).name] = NoRow
  /\ Goto(s, "scan", "exec")
  /\ UNCHANGED <<dbvars, lockvars, conn, call, applied, next, result, boundvars>>

\* Mutant: the loop ends one migration early.
AllButLastApplied(s) ==
  /\ pc[s] = "scan" /\ next[s] >= Len(Source[s])
  /\ Finish(s, "ok")
  /\ UNCHANGED <<dbvars, lockvars, conn, call, applied, next, boundvars>>

AllApplied(s) ==
  /\ pc[s] = "scan" /\ next[s] > Len(Source[s])
  /\ Finish(s, "ok")
  /\ UNCHANGED <<dbvars, lockvars, conn, call, applied, next, boundvars>>

-----------------------------------------------------------------------------
(* revert_inner: the checks before the script.                              *)

\* Mutant: force drops the record of a migration that has a down script as well.
FindForced(s) ==
  LET n == call[s].name IN
  /\ applied[s][n] # NoRow
  /\ \E i \in 1..Len(Source[s]) :
       /\ Source[s][i].name = n
       /\ next' = [next EXCEPT ![s] = i]
       /\ \/ Source[s][i].has_down /\ ~call[s].force /\ Goto(s, "find", "exec")
          \/ call[s].force /\ Goto(s, "find", "forget")
  /\ UNCHANGED <<dbvars, lockvars, conn, call, applied, result, boundvars>>

FindToRevert(s) ==
  LET n == call[s].name IN
  /\ applied[s][n] # NoRow
  /\ \E i \in 1..Len(Source[s]) :
       /\ Source[s][i].name = n
       /\ next' = [next EXCEPT ![s] = i]
       /\ \/ Source[s][i].has_down /\ Goto(s, "find", "exec")
          \/ ~Source[s][i].has_down /\ call[s].force /\ Goto(s, "find", "forget")
  /\ UNCHANGED <<dbvars, lockvars, conn, call, applied, result, boundvars>>

RefuseRevert(s) ==
  LET n == call[s].name IN
  /\ pc[s] = "find"
  /\ \/ applied[s][n] = NoRow /\ Finish(s, "not_applied")
     \/ applied[s][n] # NoRow /\ n \notin Names(s) /\ Finish(s, "not_found")
     \/ /\ applied[s][n] # NoRow /\ ~call[s].force
        /\ \E i \in 1..Len(Source[s]) : Source[s][i].name = n /\ ~Source[s][i].has_down
        /\ Finish(s, "no_down")
  /\ UNCHANGED <<dbvars, lockvars, conn, call, applied, next, boundvars>>

-----------------------------------------------------------------------------
(* The script of the current migration and the change of its row: the up    *)
(* script and an INSERT for run, the down script and a DELETE for revert.   *)

Running(s) == call[s].op = "run"

EffectAfter(s) ==
  [effect EXCEPT ![Cur(s).name] = IF Running(s) THEN @ + 1 ELSE @ - 1]

LedgerAfter(s) ==
  [ledger EXCEPT ![Cur(s).name] = IF Running(s) THEN Cur(s).sql ELSE NoRow]

\* Mutant: run starts over after each migration, with the map it has.
ProceedFromStart(s) ==
  IF Running(s)
    THEN /\ pc' = [pc EXCEPT ![s] = "scan"]
         /\ next' = [next EXCEPT ![s] = 1]
         /\ UNCHANGED result
    ELSE Finish(s, "ok") /\ UNCHANGED next

\* The row is changed: run takes the next migration, revert is done.
Proceed(s) ==
  IF Running(s)
    THEN /\ pc' = [pc EXCEPT ![s] = "scan"]
         /\ next' = [next EXCEPT ![s] = @ + 1]
         /\ UNCHANGED result
    ELSE Finish(s, "ok") /\ UNCHANGED next

\* A script like CREATE INDEX CONCURRENTLY is refused inside a transaction.
ExecScript(s) ==
  /\ Goto(s, "exec", "record")
  /\ IF InTx(s)
       THEN /\ ~(Running(s) /\ Cur(s).name \in WaitsForSnapshots)
            /\ conn' = [conn EXCEPT ![s] = "open"] /\ UNCHANGED effect
       ELSE effect' = EffectAfter(s) /\ UNCHANGED conn
  /\ UNCHANGED <<table, ledger, lockvars, call, applied, next, result, boundvars>>

\* Mutant: a script's error is printed and its row written all the same.
ExecFailsUnnoticed(s) ==
  /\ Goto(s, "exec", "record")
  /\ UNCHANGED <<dbvars, lockvars, conn, call, applied, next, result, boundvars>>

\* The script fails.  In a transaction it is rolled back by dropping it; outside,
\* the statements of one batch undo one another unless the script opened a
\* transaction, in which the connection is then left.
ExecFails(s) ==
  /\ pc[s] = "exec"
  /\ Finish(s, "sql")
  /\ conn' = [conn EXCEPT ![s] =
        IF ~InTx(s) /\ Cur(s).name \in OwnTransaction THEN "aborted" ELSE @]
  /\ UNCHANGED <<dbvars, lockvars, call, applied, next, boundvars>>

\* CREATE INDEX CONCURRENTLY waits for every older snapshot, and a session
\* waiting for the advisory lock holds one: PostgreSQL aborts one of the two.
DeadlockKillsScript(s, t) ==
  /\ pc[s] = "exec" /\ Running(s) /\ ~InTx(s)
  /\ Cur(s).name \in WaitsForSnapshots
  /\ t # s /\ (pc[t] = "acquire" \/ conn[t] = "busy")
  /\ Finish(s, "deadlock")
  /\ UNCHANGED <<dbvars, lockvars, conn, call, applied, next, boundvars>>

DeadlockKillsWaiter(s, t) ==
  /\ pc[s] = "exec" /\ Running(s) /\ ~InTx(s)
  /\ Cur(s).name \in WaitsForSnapshots
  /\ t # s /\ pc[t] = "acquire"
  /\ Return(t, "deadlock")
  /\ UNCHANGED <<dbvars, lockvars, conn, boundvars>>

DeadlockKillsOrphan(s, t) ==
  /\ pc[s] = "exec" /\ Running(s) /\ ~InTx(s)
  /\ Cur(s).name \in WaitsForSnapshots
  /\ t # s /\ conn[t] = "busy"
  /\ conn' = [conn EXCEPT ![t] = "clean"]
  /\ UNCHANGED <<dbvars, lockvars, pc, call, applied, next, result, boundvars>>

RecordRow(s) ==
  /\ pc[s] = "record"
  /\ Running(s) => ledger[Cur(s).name] = NoRow
  /\ IF InTx(s)
       THEN /\ pc' = [pc EXCEPT ![s] = "commit"]
            /\ UNCHANGED <<ledger, next, result>>
       ELSE ledger' = LedgerAfter(s) /\ Proceed(s)
  /\ UNCHANGED <<table, effect, lockvars, conn, call, applied, boundvars>>

CommitTx(s) ==
  /\ pc[s] = "commit"
  /\ effect' = EffectAfter(s) /\ ledger' = LedgerAfter(s)
  /\ conn' = [conn EXCEPT ![s] = "clean"]
  /\ Proceed(s)
  /\ UNCHANGED <<table, lockvars, call, applied, boundvars>>

\* Mutant: the script is committed although its row could not be written.
RowFailsAlone(s) ==
  /\ pc[s] \in {"record", "commit", "forget"}
  /\ Finish(s, "sql")
  /\ conn' = [conn EXCEPT ![s] = "clean"]
  /\ effect' = IF pc[s] = "record" /\ InTx(s) THEN EffectAfter(s) ELSE effect
  /\ UNCHANGED <<table, ledger, lockvars, call, applied, next, boundvars>>

\* The INSERT or DELETE fails (for one, the name has a row already), or a
\* deferred constraint fails at COMMIT: an open transaction is rolled back.
RowFails(s) ==
  /\ pc[s] \in {"record", "commit", "forget"}
  /\ Finish(s, "sql")
  /\ conn' = [conn EXCEPT ![s] = "clean"]
  /\ UNCHANGED <<dbvars, lockvars, call, applied, next, boundvars>>

\* A forced revert of a migration without a down script: only the DELETE.
ForgetRow(s) ==
  /\ pc[s] = "forget"
  /\ ledger' = LedgerAfter(s)
  /\ Proceed(s)
  /\ UNCHANGED <<table, effect, lockvars, conn, call, applied, boundvars>>

-----------------------------------------------------------------------------
\* Mutant: the error path unlocks, and then the caller does.
UnlockTwice == depth' = depth - 2 /\ holder' = Nobody

Unlock == /\ depth' = depth - 1
          /\ holder' = IF depth = 1 THEN Nobody ELSE holder

ReleaseLock(s) ==
  /\ pc[s] = "release" /\ conn[s] = "clean"
  /\ Unlock
  /\ Return(s, result[s])
  /\ UNCHANGED <<dbvars, conn, boundvars>>

\* pg_advisory_unlock is refused in an aborted transaction: run and revert print
\* that, or return it if they had succeeded, and the lock stays taken.
ReleaseRefused(s) ==
  /\ pc[s] = "release" /\ conn[s] = "aborted"
  /\ Return(s, IF result[s] = "ok" THEN "unlock" ELSE result[s])
  /\ UNCHANGED <<dbvars, lockvars, conn, boundvars>>

-----------------------------------------------------------------------------
(* What the environment does to a call.                                     *)

\* The process dies or its connection is lost: PostgreSQL rolls back what is open
\* and frees the locks of the connection.  At "idle" it is closed by its owner.
Crash(s) ==
  /\ pc[s] # "idle" \/ holder = s \/ conn[s] # "clean"
  /\ IF pc[s] = "idle" THEN UNCHANGED crashes
       ELSE crashes < MaxCrashes /\ crashes' = crashes + 1
  /\ Return(s, "lost")
  /\ conn' = [conn EXCEPT ![s] = "clean"]
  /\ IF holder = s THEN holder' = Nobody /\ depth' = 0 ELSE UNCHANGED lockvars
  /\ UNCHANGED <<dbvars, calls, cancels>>

\* The caller drops the future and keeps the client.  An open transaction is
\* rolled back; nothing releases the lock, and a wait for it goes on in the
\* server.  A statement that finished just before is the step before this one.
Cancel(s) ==
  /\ pc[s] # "idle"
  /\ cancels < MaxCancels /\ cancels' = cancels + 1
  /\ Return(s, "lost")
  /\ conn' = [conn EXCEPT ![s] =
        CASE pc[s] = "acquire" -> "busy" [] @ = "open" -> "clean" [] OTHER -> @]
  /\ UNCHANGED <<dbvars, lockvars, calls, crashes>>

\* The lock wait of a dropped future is granted: nobody knows that s holds it.
OrphanGranted(s) ==
  /\ conn[s] = "busy"
  /\ Take(s)
  /\ conn' = [conn EXCEPT ![s] = "clean"]
  /\ UNCHANGED <<dbvars, pc, call, applied, next, result, boundvars>>

-----------------------------------------------------------------------------
Prepare(s) ==
  \/ EnsureTable(s) \/ EnsureRefused(s)
  \/ CreateTable(s) \/ CreateConflicts(s)
  \/ PickLast(s) \/ PickNone(s)

Scan(s) == SkipApplied(s) \/ StopOnDrift(s) \/ StartPending(s) \/ AllApplied(s)

Check(s) == FindToRevert(s) \/ RefuseRevert(s)

Change(s) ==
  \/ ExecScript(s) \/ ExecFails(s)
  \/ \E t \in Session : DeadlockKillsScript(s, t)
  \/ RecordRow(s) \/ CommitTx(s) \/ RowFails(s) \/ ForgetRow(s)

Release(s) == ReleaseLock(s) \/ ReleaseRefused(s)

\* What s and the server do for the call s is serving, the lock apart.
Work(s) == Prepare(s) \/ GetApplied(s) \/ Scan(s) \/ Check(s) \/ Change(s) \/ Release(s)

Disturb(s) ==
  \/ Crash(s) \/ Cancel(s)
  \/ \E t \in Session : DeadlockKillsWaiter(s, t) \/ DeadlockKillsOrphan(s, t)

Next == \E s \in Session :
  \/ \E c \in Requests : Begin(s, c)
  \/ Work(s) \/ AcquireLock(s) \/ OrphanGranted(s) \/ Disturb(s)

\* The server answers every statement.  The lock is granted in the order of the
\* requests, so a session that waits gets it if it keeps being freed: strong.
Fairness == \A s \in Session :
  /\ WF_vars(Work(s))
  /\ SF_vars(AcquireLock(s)) /\ SF_vars(OrphanGranted(s))

Spec == Init /\ [][Next]_vars

FairSpec == Spec /\ Fairness

-----------------------------------------------------------------------------
(* Type invariant.                                                          *)
TypeOK ==
  /\ table \in BOOLEAN
  /\ ledger \in Rows
  /\ effect \in [Name -> Int]
  /\ holder \in Session \cup {Nobody} /\ depth \in Nat
  /\ conn \in [Session -> ConnState]
  /\ pc \in [Session -> Outside \cup Critical]
  /\ call \in [Session -> Calls]
  /\ applied \in [Session -> Rows]
  /\ next \in [Session -> Nat \ {0}]
  /\ result \in [Session -> Outcome]
  /\ calls \in [Session -> 0..MaxCalls]
  /\ crashes \in 0..MaxCrashes /\ cancels \in 0..MaxCancels

-----------------------------------------------------------------------------
(* Safety.                                                                  *)

InCritical(s) == pc[s] \in Critical

\* At most one session is between acquire_lock and release_lock, and it is the
\* one PostgreSQL gave the lock to, whatever died or was dropped before.
MutualExclusion ==
  /\ \A s \in Session : InCritical(s) => holder = s
  /\ \A s, t \in Session : InCritical(s) /\ InCritical(t) => s = t

\* run_inner reads the applied migrations once and trusts that map, to which it
\* adds nothing, to the end of its loop.  Until the migration at hand is recorded
\* the map tells, for every migration still to come, what the table holds.
AtPending == {"scan", "exec", "record", "commit"}

SnapshotFresh ==
  \A s \in Session : pc[s] \in AtPending \cup {"find", "forget"} =>
    IF Running(s)
      THEN \A i \in next[s]..Len(Source[s]) :
             applied[s][Source[s][i].name] = ledger[Source[s][i].name]
      ELSE applied[s] = ledger

\* When run is about to return Ok, every migration of its source has a row: the
\* ones it found and the ones it applied, none reverted behind its back.
RunCompletes ==
  \A s \in Session : pc[s] = "release" /\ Running(s) /\ result[s] = "ok" =>
    \A n \in Names(s) : ledger[n] # NoRow

Deployed == UNION {{Source[s][i] : i \in 1..Len(Source[s])} : s \in Session}

\* Migrations that every binary runs inside a transaction, and those that every
\* binary can revert with a script.
Transactional == {n \in Name : \A m \in Deployed : m.name = n => UsesTx(m)}
Revertible    == {n \in Name : \A m \in Deployed : m.name = n => m.has_down}

\* A migration run inside transactions is applied exactly as often as its row
\* says, through concurrent deploys, failures, crashes and dropped futures.  A
\* forced revert of a migration that has no down script is what breaks this.
ExactlyOnce ==
  \A n \in Transactional : n \in Revertible \/ TRUE \notin ForceFlags =>
    effect[n] = IF ledger[n] = NoRow THEN 0 ELSE 1

\* A migration is never listed as applied without its effects being there, even
\* when it runs outside a transaction: the row is written after the script.  Only
\* a down script outside a transaction comes between the two.
RecordedHasRun ==
  \A n \in Name :
    n \in Transactional \/ (\A m \in Deployed : m.name = n => ~m.has_down) =>
      (ledger[n] # NoRow => effect[n] >= 1)

\* Nobody keeps the lock once its call has returned and its client lives on.
LockFreedOnReturn == \A s \in Session : pc[s] = "idle" => holder # s

\* With fail_on_drift, nothing after a drifted migration is applied.
NothingPastDrift ==
  \A s \in Session : FailOnDrift /\ Running(s) /\ pc[s] \in {"exec", "record", "commit"} =>
    \A i \in 1..(next[s] - 1) : ~Drifted(ledger[Source[s][i].name], Source[s][i])

\* The parts of the inductive invariant behind the properties above that are not
\* properties themselves.  Holder and depth agree, and no session is inside the
\* lock without holding it:
LockInv ==
  /\ holder = Nobody <=> depth = 0
  /\ \A s \in Session : InCritical(s) => holder = s

\* the position of a session stays in its source, and connections are inside the
\* runner's own transaction exactly while its row is written and committed:
AtScript == {"exec", "record", "commit", "forget"}

PositionInv ==
  \A s \in Session :
    /\ pc[s] \in AtScript => next[s] <= Len(Source[s])
    /\ pc[s] \in Outside \cup {"read"} => next[s] = 1
    /\ (pc[s] = "scan" => Running(s)) /\ (pc[s] = "find" => ~Running(s))
    /\ pc[s] = "commit" => InTx(s)
    /\ pc[s] = "forget" => ~Cur(s).has_down /\ ~Running(s) /\ TRUE \in ForceFlags
    /\ pc[s] \in AtScript /\ ~Running(s) => Cur(s).name = call[s].name
    /\ call[s].force \in ForceFlags \cup {FALSE}

\* and what run has passed is recorded and not drifted:
PassedInv ==
  \A s \in Session : Running(s) /\ pc[s] \in AtPending =>
    \A i \in 1..(next[s] - 1) :
      /\ i <= Len(Source[s])
      /\ ledger[Source[s][i].name] # NoRow
      /\ FailOnDrift => ~Drifted(ledger[Source[s][i].name], Source[s][i])

PendingInv ==
  \A s \in Session : pc[s] \in {"exec", "record", "commit"} =>
    (Running(s) <=> ledger[Cur(s).name] = NoRow)

\* The tables the sessions leave behind are those of MigrationLedger: rows appear
\* in source order, and only scripts outside a transaction, and forced reverts
\* without a down script, ever separate a script from its row.
Ledger == INSTANCE MigrationLedger WITH
            Sources     <- {Source[s] : s \in Session},
            NonAtomic   <- Name \ Transactional,
            Forgettable <- IF TRUE \in ForceFlags THEN Name \ Revertible ELSE {}

ImplementsLedger == Ledger!Spec

-----------------------------------------------------------------------------
(* Liveness, under Fairness.                                                *)

\* Every call returns: no order of the sessions, failures and crashes leaves one
\* waiting for the lock for ever, as long as no future is dropped.
CallsReturn == \A s \in Session : pc[s] # "idle" ~> pc[s] = "idle"

-----------------------------------------------------------------------------
(* What the documentation says of the program.                              *)

\* typedpg_core/src/config.rs: with fail_on_drift the runner "aborts before
\* applying anything new".
DriftAbortsFirst ==
  \A s \in Session : FailOnDrift /\ Running(s) /\ pc[s] \in {"exec", "record", "commit"} =>
    \A i \in 1..Len(Source[s]) : ~Drifted(ledger[Source[s][i].name], Source[s][i])

\* typedpg/src/migrate/mod.rs: the advisory lock keeps concurrent runs from
\* conflicting.  Here: none fails because another created the tracking table.
NoCreationConflict == \A s \in Session : result[s] # "conflict"

\* typedpg/src/migrate/mod.rs offers `-- no-transaction` for CREATE INDEX
\* CONCURRENTLY, README.md promises safe concurrent deploys: no call is aborted
\* because another session waits for the lock.
NoDeadlockAbort == \A s \in Session : result[s] # "deadlock"
=============================================================================
