---------------------------- MODULE SchemaBuild ----------------------------
(***************************************************************************)
(* How the sql! queries of a crate come to be checked against its          *)
(* migrations.  typedpg_core::build::track_migrations, run as the build    *)
(* script, folds the files into a fingerprint that Cargo recompiles the    *)
(* crate for; while the crate compiles, each sql! hashes the files of its  *)
(* database, looks that hash up in a cache of one slot, and on a miss reads *)
(* the files again and builds the catalog it is checked against.           *)
(*                                                                         *)
(* Files are read one at a time and the developer may add, change, put     *)
(* back or remove one between any two reads.  A hash identifies what it was *)
(* computed from.                                                          *)
(***************************************************************************)
EXTENDS Integers, FiniteSets

CONSTANTS
  File,      \* the migration files that may exist, in every directory
  Query,     \* the sql! calls of the crate
  Reads,     \* Reads[q]: the files of the database q names, extra_migrations included
  Tracked,   \* the files in the directories migration_dirs returns
  MaxText,   \* bound: the texts a file may have are 1..MaxText; 0 is no file
  None

Text == 0..MaxText
Contents(files) == [files -> Text]

ASSUME FileAssumption ==
  /\ Reads \in [Query -> SUBSET File] /\ Tracked \subseteq File
  /\ MaxText \in Nat
  /\ None \notin UNION {Contents(files) : files \in SUBSET File}

\* migration_dirs collects the directories of every database of the configuration,
\* the ones that resolve gives to the queries.
ASSUME TrackedAssumption == Tracked = UNION {Reads[q] : q \in Query}

VARIABLES
  text,         \* the files as they are
  touched,      \* a tracked file was saved since the build script last started
  dirty,        \* the crate's source was, since it last started compiling
  fingerprint,  \* what the build script last folded into TYPEDPG_MIGRATIONS
  built,        \* the fingerprint the crate was last compiled with
  pc,           \* what cargo is doing
  query,        \* the sql! being expanded
  seen,         \* the files read so far, and what they held
  key,          \* the hash of the files of query
  cache,        \* CACHED_PG_CATALOG
  used,         \* used[q]: the files behind the catalog q was checked against
  saved         \* history: saved[f], the texts saved since the crate started compiling

vars == <<text, touched, dirty, fingerprint, built, pc, query, seen, key, cache, used, saved>>

Slot == {None} \cup UNION {[key: Contents(Reads[q]), catalog: Contents(Reads[q])] : q \in Query}

Init ==
  /\ text \in Contents(File)
  /\ touched = TRUE /\ dirty = TRUE
  /\ fingerprint = None /\ built = None
  /\ pc = "idle" /\ query = None /\ seen = <<>> /\ key = None /\ cache = None
  /\ used = [q \in Query |-> None]
  /\ saved = [f \in File |-> {}]

-----------------------------------------------------------------------------
(* The developer.                                                           *)

\* Mutant: only the files there are when the script runs are watched.
SaveUnwatchedNew(f, t) ==
  /\ t # text[f]
  /\ text' = [text EXCEPT ![f] = t]
  /\ saved' = [saved EXCEPT ![f] = @ \cup {t}]
  /\ touched' = (touched \/ (f \in Tracked /\ text[f] # 0))
  /\ UNCHANGED <<dirty, fingerprint, built, pc, query, seen, key, cache, used>>

\* A file is added, modified, restored or removed.  rerun-if-changed names the
\* directories, so a new file counts, and one put back to an earlier text too.
Save(f, t) ==
  /\ t # text[f]
  /\ text' = [text EXCEPT ![f] = t]
  /\ saved' = [saved EXCEPT ![f] = @ \cup {t}]
  /\ touched' = (touched \/ f \in Tracked)
  /\ UNCHANGED <<dirty, fingerprint, built, pc, query, seen, key, cache, used>>

SaveSource ==
  /\ ~dirty /\ dirty' = TRUE
  /\ UNCHANGED <<text, touched, fingerprint, built, pc, query, seen, key, cache, used, saved>>

-----------------------------------------------------------------------------
(* Reading, one file at a time.                                             *)

Wanted == CASE pc = "script" -> Tracked
            [] pc \in {"hash", "collect"} -> Reads[query]
            [] OTHER -> {}

ReadFile(f) ==
  /\ f \in Wanted \ DOMAIN seen
  /\ seen' = [g \in DOMAIN seen \cup {f} |-> IF g = f THEN text[f] ELSE seen[g]]
  /\ UNCHANGED <<text, touched, dirty, fingerprint, built, pc, query, key, cache, used, saved>>

AllRead == DOMAIN seen = Wanted

-----------------------------------------------------------------------------
(* Cargo.                                                                   *)

\* What the script or the macro held in its locals is gone.
Forget == query' = None /\ seen' = <<>> /\ key' = None

StartScript ==
  /\ pc = "idle" /\ touched
  /\ pc' = "script" /\ touched' = FALSE
  /\ UNCHANGED <<text, dirty, fingerprint, built, query, seen, key, cache, used, saved>>

\* fingerprint_dirs
FinishScript ==
  /\ pc = "script" /\ AllRead
  /\ fingerprint' = seen
  /\ pc' = "scripted"
  /\ Forget
  /\ UNCHANGED <<text, touched, dirty, built, cache, used, saved>>

Stale == dirty \/ built # fingerprint

UpToDate ==
  /\ pc = "scripted" /\ ~Stale
  /\ pc' = "idle"
  /\ UNCHANGED <<text, touched, dirty, fingerprint, built, query, seen, key, cache, used, saved>>

\* The thread-local cache of a new compiler process is empty.
StartCompile ==
  /\ pc = "scripted" \/ (pc = "idle" /\ ~touched)
  /\ Stale
  /\ pc' = "compile" /\ dirty' = FALSE /\ built' = None
  /\ cache' = None
  /\ used' = [q \in Query |-> None]
  /\ saved' = [f \in File |-> {}]
  /\ UNCHANGED <<text, touched, fingerprint, query, seen, key>>

FinishCompile ==
  /\ pc = "compile" /\ \A q \in Query : used[q] # None
  /\ pc' = "idle" /\ built' = fingerprint
  /\ UNCHANGED <<text, touched, dirty, fingerprint, query, seen, key, cache, used, saved>>

\* The build is interrupted, or a script does not apply or a query does not type:
\* what was under way is not recorded as done.
Abort ==
  /\ pc # "idle" /\ pc' = "idle"
  /\ touched' = (touched \/ pc = "script")
  /\ Forget
  /\ UNCHANGED <<text, dirty, fingerprint, built, cache, used, saved>>

-----------------------------------------------------------------------------
(* The expansion of one sql!.                                               *)

Expand(q) ==
  /\ pc = "compile" /\ used[q] = None
  /\ pc' = "hash" /\ query' = q
  /\ UNCHANGED <<text, touched, dirty, fingerprint, built, seen, key, cache, used, saved>>

\* hash_migrations_dirs is done; get_or_build_pg_catalog looks at its slot.
\* Mutant: the slot is taken for the only database there is.
HitAny == cache # None

Hit == cache # None /\ cache.key = seen

Answer(catalog) ==
  /\ used' = [used EXCEPT ![query] = catalog]
  /\ pc' = "compile"
  /\ Forget

Lookup ==
  /\ pc = "hash" /\ AllRead
  /\ IF Hit
       THEN Answer(cache.catalog)
       ELSE pc' = "collect" /\ key' = seen /\ seen' = <<>> /\ UNCHANGED <<used, query>>
  /\ UNCHANGED <<text, touched, dirty, fingerprint, built, cache, saved>>

\* collect_migration_files is done; the catalog is stored under the earlier hash.
Build ==
  /\ pc = "collect" /\ AllRead
  /\ cache' = [key |-> key, catalog |-> seen]
  /\ Answer(seen)
  /\ UNCHANGED <<text, touched, dirty, fingerprint, built, saved>>

-----------------------------------------------------------------------------
Cargo == StartScript \/ FinishScript \/ UpToDate \/ StartCompile \/ FinishCompile \/ Abort

Next ==
  \/ \E f \in File, t \in Text : Save(f, t)
  \/ SaveSource
  \/ Cargo
  \/ \E f \in File : ReadFile(f)
  \/ \E q \in Query : Expand(q)
  \/ Lookup \/ Build

Spec == Init /\ [][Next]_vars

-----------------------------------------------------------------------------
TypeOK ==
  /\ text \in Contents(File)
  /\ touched \in BOOLEAN /\ dirty \in BOOLEAN
  /\ saved \in [File -> SUBSET Text]
  /\ fingerprint \in {None} \cup Contents(Tracked)
  /\ built \in {None} \cup Contents(Tracked)
  /\ pc \in {"idle", "script", "scripted", "compile", "hash", "collect"}
  /\ query \in Query \cup {None} /\ (pc \in {"hash", "collect"} => query \in Query)
  /\ seen \in UNION {Contents(files) : files \in SUBSET Wanted}
  /\ pc = "collect" => key \in Contents(Reads[query])
  /\ cache \in Slot
  /\ used \in [Query -> {None} \cup UNION {Contents(Reads[q]) : q \in Query}]

\* Nothing left for cargo to do.
Fresh == pc = "idle" /\ ~touched /\ ~Stale

\* When cargo finds nothing to do, every query was checked against its files as
\* they are: whatever was added, modified, restored or removed while the build script
\* or the macros were reading, whichever build was interrupted, whichever database
\* the cached catalog is of.  What a fingerprint cannot tell, and the only exception,
\* is a file that the macros may have seen with another text before it was put back,
\* after the crate had started compiling, to the text the fingerprint has of it.
FreshIsCurrent ==
  Fresh => \A q \in Query :
             /\ used[q] # None /\ DOMAIN used[q] = Reads[q]
             /\ \A f \in Reads[q] : used[q][f] = text[f] \/ built[f] \in saved[f]

\* What a query was checked against has every file as it is, unless that very file
\* was saved since the compiler started: although each expansion hashes its files and
\* reads them again, and the one slot may hold another database's catalog, or one
\* whose hash is older than the files it was built from.
ExpansionsAgree ==
  \A q \in Query : used[q] # None =>
    /\ DOMAIN used[q] = Reads[q]
    /\ \A f \in Reads[q] : used[q][f] = text[f] \/ saved[f] # {}
=============================================================================
