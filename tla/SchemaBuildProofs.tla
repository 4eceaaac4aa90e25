-------------------------- MODULE SchemaBuildProofs --------------------------
(***************************************************************************)
(* Proofs about SchemaBuild, for any files, queries and databases: what a  *)
(* finished build was checked against, and what the expansions of one      *)
(* compilation see.                                                        *)
(*                                                                         *)
(* The readers of the files never meet: the build script folds them into   *)
(* the fingerprint, then the macros hash and collect them, and a file may  *)
(* be saved, put back or removed between any two reads.  What a macro read  *)
(* is what the fingerprint has, unless the file now differs from the       *)
(* fingerprint or was put back to it since the compiler started            *)
(* (Reflected); when the fingerprint has the files as they are, only those *)
(* put back remain.                                                        *)
(***************************************************************************)
EXTENDS SchemaBuild, TLAPS

Compiling == pc \in {"compile", "hash", "collect"}

\* contents agree with the files as they are.
Accurate(contents) == \A f \in DOMAIN contents : contents[f] = text[f]

Partial(files) == UNION {Contents(some) : some \in SUBSET files}

LEMMA PartialType ==
  ASSUME NEW files, NEW contents
  PROVE  contents \in Partial(files) <=>
            \E some \in SUBSET files : contents \in [some -> Text]
  BY DEF Partial, Contents

\* Nothing read yet is a part of what there is to read.
LEMMA PartialEmpty == ASSUME NEW files PROVE <<>> \in Partial(files)
  <1>1. <<>> \in [{} -> Text]
    OBVIOUS
  <1>2. QED
    BY <1>1, PartialType

LEMMA PartialGrows ==
  ASSUME NEW files, NEW more, files \subseteq more
  PROVE  Partial(files) \subseteq Partial(more)
  BY DEF Partial

LEMMA NotContents ==
  ASSUME NEW files \in SUBSET File
  PROVE  None \notin Contents(files)
  BY FileAssumption

-----------------------------------------------------------------------------
(* Type correctness.                                                        *)

LEMMA TypeInit == Init => TypeOK
  <1> SUFFICES ASSUME Init PROVE TypeOK
    OBVIOUS
  <1>1. seen \in Partial(Wanted)
    BY PartialEmpty DEF Init
  <1>2. QED
    BY <1>1 DEF Init, TypeOK, Slot, Partial

\* What the cache holds has, for key and for catalog, the files of one query.
LEMMA SlotType ==
  ASSUME NEW slot \in Slot, slot # None
  PROVE  \E q \in Query : slot.key \in Contents(Reads[q]) /\ slot.catalog \in Contents(Reads[q])
  BY DEF Slot

LEMMA SeenAll ==
  ASSUME TypeOK, AllRead
  PROVE  seen \in Contents(Wanted)
  BY PartialType DEF TypeOK, AllRead, Contents, Partial

LEMMA AnswerType ==
  ASSUME TypeOK, query \in Query, NEW catalog \in Contents(Reads[query]), Answer(catalog),
         cache' \in Slot, UNCHANGED <<text, touched, dirty, fingerprint, built, saved>>
  PROVE  TypeOK'
  <1>1. used' \in [Query -> {None} \cup UNION {Contents(Reads[q]) : q \in Query}]
    BY DEF TypeOK, Answer
  <1>2. seen' \in Partial(Wanted')
    BY PartialEmpty DEF Answer, Forget
  <1>3. QED
    BY <1>1, <1>2 DEF TypeOK, Answer, Forget, Partial

LEMMA TypeStep == TypeOK /\ [Next]_vars => TypeOK'
  <1> SUFFICES ASSUME TypeOK, [Next]_vars PROVE TypeOK'
    OBVIOUS
  <1> USE FileAssumption DEF TypeOK
  <1> USE DEF Partial
  <1>1. ASSUME NEW f \in File, NEW t \in Text, Save(f, t) PROVE TypeOK'
    <2>1. saved' \in [File -> SUBSET Text]
      BY <1>1 DEF Save
    <2>2. QED
      BY <1>1, <2>1 DEF Save, Contents, Wanted
  <1>2. CASE SaveSource
    BY <1>2 DEF SaveSource, Wanted
  <1>3. CASE StartScript
    <2>1. Wanted = {} /\ seen \in Partial(Wanted) /\ seen' = seen
      BY <1>3 DEF StartScript, Wanted
    <2>2. seen' \in Partial(Wanted')
      BY <2>1, PartialGrows
    <2>3. QED
      BY <1>3, <2>2 DEF StartScript
  <1>4. CASE FinishScript
    <2>1. fingerprint' \in Contents(Tracked)
      BY <1>4, SeenAll DEF FinishScript, Wanted
    <2>2. seen' \in Partial(Wanted')
      BY <1>4, PartialEmpty DEF FinishScript, Forget
    <2>3. QED
      BY <1>4, <2>1, <2>2 DEF FinishScript, Forget
  <1>5. CASE UpToDate
    BY <1>5 DEF UpToDate, Wanted
  <1>6. CASE StartCompile
    BY <1>6 DEF StartCompile, Wanted, Slot
  <1>7. CASE FinishCompile
    BY <1>7 DEF FinishCompile, Wanted
  <1>8. CASE Abort
    <2>1. seen' \in Partial(Wanted')
      BY <1>8, PartialEmpty DEF Abort, Forget
    <2>2. QED
      BY <1>8, <2>1 DEF Abort, Forget
  <1>9. ASSUME NEW f \in File, ReadFile(f) PROVE TypeOK'
    <2>1. PICK some \in SUBSET Wanted : seen \in [some -> Text]
      BY DEF Contents
    <2>2. seen' \in [some \cup {f} -> Text]
      BY <1>9, <2>1 DEF ReadFile, Contents
    <2>3. some \cup {f} \in SUBSET Wanted /\ Wanted' = Wanted
      BY <1>9, <2>1 DEF ReadFile, Wanted
    <2>4. seen' \in UNION {Contents(files) : files \in SUBSET Wanted'}
      BY <2>2, <2>3 DEF Contents
    <2>5. QED
      BY <1>9, <2>4 DEF ReadFile
  <1>10. ASSUME NEW q \in Query, Expand(q) PROVE TypeOK'
    BY <1>10 DEF Expand, Wanted, Contents
  <1>11. CASE Lookup
    <2>1. query \in Query /\ seen \in Contents(Reads[query])
      BY <1>11, SeenAll DEF Lookup, Wanted
    <2>2. CASE Hit
      <3>1. cache.catalog \in Contents(Reads[query])
        <4>1. PICK q \in Query : cache.key \in Contents(Reads[q])
                                 /\ cache.catalog \in Contents(Reads[q])
          BY <2>2, SlotType DEF Hit
        <4>2. Reads[q] = Reads[query]
          BY <2>1, <2>2, <4>1 DEF Hit, Contents
        <4>3. QED
          BY <4>1, <4>2
      <3>2. QED
        BY <1>11, <2>1, <2>2, <3>1, AnswerType DEF Lookup
    <2>3. CASE ~Hit
      <3>1. seen' \in Partial(Wanted')
        BY <1>11, <2>3, PartialEmpty DEF Lookup
      <3>2. QED
        BY <1>11, <2>1, <2>3, <3>1 DEF Lookup
    <2>4. QED
      BY <2>2, <2>3
  <1>12. CASE Build
    <2>1. query \in Query /\ seen \in Contents(Reads[query]) /\ key \in Contents(Reads[query])
      BY <1>12, SeenAll DEF Build, Wanted
    <2>2. cache' \in Slot
      BY <1>12, <2>1 DEF Build, Slot
    <2>3. QED
      BY <1>12, <2>1, <2>2, AnswerType DEF Build
  <1>13. CASE UNCHANGED vars
    BY <1>13 DEF vars, Wanted
  <1>14. QED
    BY Zenon, <1>1, <1>2, <1>3, <1>4, <1>5, <1>6, <1>7, <1>8, <1>9, <1>10, <1>11, <1>12, <1>13
    DEF Next, Cargo

\* Every variable keeps its type: what is read, hashed and cached belongs to the
\* files of one database.
THEOREM TypeCorrect == Spec => []TypeOK
  BY TypeInit, TypeStep, PTL DEF Spec

-----------------------------------------------------------------------------
(* What the fingerprint knows of the files.                                 *)

\* A save that no build script is told of is of a file that nobody tracks.
ScriptInv ==
  /\ pc = "script" /\ ~touched => Accurate(seen)
  /\ pc # "script" /\ ~touched => fingerprint # None /\ Accurate(fingerprint)
  /\ pc = "scripted" \/ Compiling => fingerprint # None

LEMMA SeenType ==
  ASSUME TypeOK
  PROVE  /\ DOMAIN seen \subseteq Wanted
         /\ pc = "script" => DOMAIN seen \subseteq Tracked
         /\ pc \in {"hash", "collect"} => DOMAIN seen \subseteq Reads[query] /\ query \in Query
         /\ pc \notin {"script", "hash", "collect"} => DOMAIN seen = {}
  <1>1. PICK some \in SUBSET Wanted : seen \in [some -> Text]
    BY DEF TypeOK, Contents
  <1>2. DOMAIN seen \subseteq Wanted
    BY <1>1
  <1>3. pc \in {"hash", "collect"} => query \in Query
    BY DEF TypeOK
  <1>4. QED
    BY <1>2, <1>3 DEF Wanted

\* Each database is one of those whose directories the build script folds.
LEMMA ReadsTracked == ASSUME NEW q \in Query PROVE Reads[q] \subseteq Tracked /\ Reads[q] \subseteq File
  BY FileAssumption, TrackedAssumption

LEMMA FingerprintType ==
  ASSUME TypeOK, fingerprint # None
  PROVE  fingerprint \in [Tracked -> Text]
  BY DEF TypeOK, Contents

LEMMA ScriptStep ==
  ASSUME TypeOK, ScriptInv, [Next]_vars
  PROVE  ScriptInv'
  <1> USE DEF ScriptInv
  <1>1. ASSUME NEW f \in File, NEW t \in Text, Save(f, t) PROVE ScriptInv'
    <2>1. /\ pc' = pc /\ seen' = seen /\ fingerprint' = fingerprint
          /\ touched' = (touched \/ f \in Tracked)
          /\ \A g \in File : g # f => text'[g] = text[g]
      BY <1>1 DEF Save, TypeOK, Contents
    <2>2. CASE touched'
      BY <2>1, <2>2 DEF Compiling
    <2>3. CASE ~touched'
      <3>1. pc = "script" => \A g \in DOMAIN seen : seen[g] = text'[g]
        BY <2>1, <2>3, SeenType, FileAssumption DEF Accurate
      <3>2. pc # "script" => \A g \in DOMAIN fingerprint : fingerprint[g] = text'[g]
        BY <2>1, <2>3, FingerprintType, FileAssumption DEF Accurate
      <3>3. QED
        BY <2>1, <3>1, <3>2 DEF Compiling, Accurate
    <2>4. QED
      BY <2>2, <2>3
  <1>2. CASE SaveSource \/ UNCHANGED vars
    BY <1>2 DEF SaveSource, vars, Compiling, Accurate
  <1>3. CASE StartScript
    BY <1>3, SeenType DEF StartScript, Compiling, Accurate
  <1>4. CASE FinishScript
    <2>1. seen \in [Tracked -> Text] /\ fingerprint' = seen /\ fingerprint' # None
      BY <1>4, SeenAll, NotContents, FileAssumption DEF FinishScript, Wanted, Contents
    <2>2. QED
      BY <1>4, <2>1 DEF FinishScript, Compiling, Accurate
  <1>5. CASE UpToDate \/ FinishCompile
    BY <1>5 DEF UpToDate, FinishCompile, Compiling, Accurate
  <1>6. CASE StartCompile
    BY <1>6 DEF StartCompile, Compiling, Accurate
  <1>7. CASE Abort
    BY <1>7 DEF Abort, Compiling, Accurate
  <1>8. ASSUME NEW f \in File, ReadFile(f) PROVE ScriptInv'
    <2>1. /\ pc' = pc /\ text' = text /\ touched' = touched /\ fingerprint' = fingerprint
          /\ seen' = [g \in DOMAIN seen \cup {f} |-> IF g = f THEN text[f] ELSE seen[g]]
      BY <1>8 DEF ReadFile
    <2>2. QED
      BY <2>1 DEF Compiling, Accurate
  <1>9. ASSUME NEW q \in Query, Expand(q) PROVE ScriptInv'
    BY <1>9 DEF Expand, Compiling, Accurate
  <1>10. CASE Lookup \/ Build
    BY <1>10 DEF Lookup, Build, Answer, Compiling, Accurate
  <1>11. QED
    BY Zenon, <1>1, <1>2, <1>3, <1>4, <1>5, <1>6, <1>7, <1>8, <1>9, <1>10 DEF Next, Cargo

-----------------------------------------------------------------------------
(* What the queries were checked against.                                   *)

\* contents, read since the compiler started, against what print has of its files: a
\* file for which they differ is not what it was then, or was put back.
Reflected(print, contents) ==
  \A f \in DOMAIN contents :
    contents[f] = print[f] \/ text[f] # print[f] \/ print[f] \in saved[f]

\* contents has the files as they are, those apart that were saved meanwhile.
Unsaved(contents) == \A f \in DOMAIN contents : contents[f] = text[f] \/ saved[f] # {}

\* The crate is compiled for the last fingerprint, which nothing changes meanwhile.
BuildInv ==
  /\ Compiling =>
       /\ built = None
       /\ Reflected(fingerprint, seen)
       /\ cache # None => Reflected(fingerprint, cache.catalog)
       /\ \A q \in Query : used[q] # None => Reflected(fingerprint, used[q])
  /\ built # None => \A q \in Query : used[q] # None /\ Reflected(built, used[q])

\* What the compiler reads, keeps and hands out dates from after its start.
ReadInv ==
  /\ \A q \in Query : used[q] # None => used[q] \in Contents(Reads[q]) /\ Unsaved(used[q])
  /\ Compiling => Unsaved(seen) /\ (cache # None => Unsaved(cache.catalog))

LEMMA CatalogType ==
  ASSUME TypeOK, cache # None
  PROVE  DOMAIN cache.catalog \subseteq File
  <1>1. PICK q \in Query : cache.key \in Contents(Reads[q]) /\ cache.catalog \in Contents(Reads[q])
    BY SlotType DEF TypeOK
  <1>2. QED
    BY <1>1, ReadsTracked DEF Contents

LEMMA UsedType ==
  ASSUME NEW q \in Query, NEW contents \in Contents(Reads[q])
  PROVE  /\ contents # None /\ DOMAIN contents = Reads[q]
         /\ DOMAIN contents \subseteq File /\ DOMAIN contents \subseteq Tracked
  BY ReadsTracked, NotContents, FileAssumption DEF Contents

\* A hit gives the catalog of the same files as the hash it was looked up by.
LEMMA HitType ==
  ASSUME TypeOK, pc = "hash", AllRead, Hit
  PROVE  query \in Query /\ cache.catalog \in Contents(Reads[query]) /\ cache # None
  <1>1. query \in Query /\ seen \in Contents(Reads[query]) /\ cache # None
    BY SeenAll DEF Wanted, TypeOK, Hit
  <1>2. PICK q \in Query : cache.key \in Contents(Reads[q]) /\ cache.catalog \in Contents(Reads[q])
    BY <1>1, SlotType DEF TypeOK
  <1>3. Reads[q] = Reads[query]
    BY <1>1, <1>2 DEF Hit, Contents
  <1>4. QED
    BY <1>1, <1>2, <1>3

\* The current query is answered with a catalog read since the compiler started.
LEMMA AnswerInv ==
  ASSUME TypeOK, BuildInv, ReadInv, Compiling,
         query \in Query, NEW catalog \in Contents(Reads[query]), Answer(catalog),
         Reflected(fingerprint, catalog), Unsaved(catalog),
         cache' # None => \/ cache' = cache
                          \/ cache'.catalog = catalog,
         UNCHANGED <<text, fingerprint, built, saved>>
  PROVE  BuildInv' /\ ReadInv'
  <1>1. /\ pc' = "compile" /\ seen' = <<>> /\ built' = None
        /\ used' = [used EXCEPT ![query] = catalog]
    BY DEF Answer, Forget, BuildInv
  <1>2. ASSUME NEW q \in Query
        PROVE  used'[q] = IF q = query THEN catalog ELSE used[q]
    BY <1>1 DEF TypeOK
  <1>3. BuildInv'
    BY <1>1, <1>2 DEF BuildInv, Reflected, Compiling
  <1>4. ReadInv'
    BY <1>1, <1>2 DEF ReadInv, Unsaved, Compiling
  <1>5. QED
    BY <1>3, <1>4

\* A save keeps both: the file it is of now differs from the fingerprint or was put
\* back to it, and was saved.
LEMMA SaveKeeps ==
  ASSUME TypeOK, NEW f \in File, NEW t \in Text, Save(f, t),
         NEW contents, DOMAIN contents \subseteq File
  PROVE  /\ \A print : Reflected(print, contents) =>
              \A g \in DOMAIN contents :
                contents[g] = print[g] \/ text'[g] # print[g] \/ print[g] \in saved'[g]
         /\ Unsaved(contents) =>
              \A g \in DOMAIN contents : contents[g] = text'[g] \/ saved'[g] # {}
  <1>1. /\ \A g \in File : g # f => text'[g] = text[g] /\ saved'[g] = saved[g]
        /\ text'[f] = t /\ t \in saved'[f] /\ saved[f] \subseteq saved'[f]
    BY DEF Save, TypeOK, Contents
  <1>2. QED
    BY <1>1 DEF Reflected, Unsaved

LEMMA BuildStep ==
  ASSUME TypeOK, ScriptInv, BuildInv, ReadInv, [Next]_vars
  PROVE  BuildInv' /\ ReadInv'
  <1>1. ASSUME NEW f \in File, NEW t \in Text, Save(f, t) PROVE BuildInv' /\ ReadInv'
    <2>1. UNCHANGED <<pc, seen, fingerprint, built, cache, used>>
      BY <1>1 DEF Save
    <2>2. Compiling => DOMAIN seen \subseteq File
      BY SeenType, ReadsTracked DEF Compiling
    <2>3. cache # None => DOMAIN cache.catalog \subseteq File
      BY CatalogType
    <2>4. \A q \in Query : used[q] # None => DOMAIN used[q] \subseteq File
      BY UsedType DEF ReadInv
    <2>5. BuildInv'
      BY <1>1, <2>1, <2>2, <2>3, <2>4, SaveKeeps DEF BuildInv, Reflected, Compiling
    <2>6. ReadInv'
      BY <1>1, <2>1, <2>2, <2>3, <2>4, SaveKeeps DEF ReadInv, Unsaved, Compiling
    <2>7. QED
      BY <2>5, <2>6
  <1>2. CASE SaveSource \/ UpToDate \/ StartScript \/ UNCHANGED vars
    BY <1>2 DEF SaveSource, UpToDate, StartScript, vars, Compiling, BuildInv, ReadInv, Reflected,
                Unsaved
  <1>3. CASE FinishScript
    BY <1>3 DEF FinishScript, Compiling, BuildInv, ReadInv, Reflected, Unsaved
  <1>4. CASE StartCompile
    <2>1. /\ pc' = "compile" /\ built' = None /\ cache' = None /\ seen' = seen
          /\ \A q \in Query : used'[q] = None
      BY <1>4 DEF StartCompile
    <2>2. DOMAIN seen = {}
      BY <1>4, SeenType DEF StartCompile
    <2>3. QED
      BY <2>1, <2>2 DEF BuildInv, ReadInv, Reflected, Unsaved
  <1>5. CASE FinishCompile
    BY <1>5 DEF FinishCompile, Compiling, BuildInv, ReadInv, Reflected, Unsaved
  <1>6. CASE Abort
    BY <1>6 DEF Abort, Compiling, BuildInv, ReadInv, Reflected, Unsaved
  <1>7. ASSUME NEW f \in File, ReadFile(f) PROVE BuildInv' /\ ReadInv'
    <2>1. /\ UNCHANGED <<pc, text, fingerprint, built, cache, used, saved>>
          /\ seen' = [g \in DOMAIN seen \cup {f} |-> IF g = f THEN text[f] ELSE seen[g]]
      BY <1>7 DEF ReadFile
    <2>2. QED
      BY <2>1 DEF Compiling, BuildInv, ReadInv, Reflected, Unsaved
  <1>8. ASSUME NEW q \in Query, Expand(q) PROVE BuildInv' /\ ReadInv'
    BY <1>8 DEF Expand, Compiling, BuildInv, ReadInv, Reflected, Unsaved
  <1>9. CASE Lookup
    <2>1. CASE Hit
      <3>1. query \in Query /\ cache.catalog \in Contents(Reads[query]) /\ cache # None
        BY <1>9, <2>1, HitType DEF Lookup
      <3>2. Reflected(fingerprint, cache.catalog) /\ Unsaved(cache.catalog)
        BY <1>9, <3>1 DEF Lookup, Compiling, BuildInv, ReadInv
      <3>3. QED
        BY <1>9, <2>1, <3>1, <3>2, AnswerInv DEF Lookup, Compiling
    <2>2. CASE ~Hit
      BY <1>9, <2>2 DEF Lookup, Compiling, BuildInv, ReadInv, Reflected, Unsaved
    <2>3. QED
      BY <2>1, <2>2
  <1>10. CASE Build
    <2>1. query \in Query /\ seen \in Contents(Reads[query])
      BY <1>10, SeenAll DEF Build, Wanted, TypeOK
    <2>2. Reflected(fingerprint, seen) /\ Unsaved(seen) /\ cache'.catalog = seen
      BY <1>10 DEF Build, Compiling, BuildInv, ReadInv
    <2>3. QED
      BY <1>10, <2>1, <2>2, AnswerInv DEF Build, Compiling
  <1>11. QED
    BY Zenon, <1>1, <1>2, <1>3, <1>4, <1>5, <1>6, <1>7, <1>8, <1>9, <1>10 DEF Next, Cargo

-----------------------------------------------------------------------------
IInv == TypeOK /\ ScriptInv /\ BuildInv /\ ReadInv

LEMMA IInvInit == Init => IInv
  <1>1. Init => ScriptInv /\ BuildInv /\ ReadInv
    BY DEF Init, ScriptInv, BuildInv, ReadInv, Compiling
  <1>2. QED
    BY <1>1, TypeInit DEF IInv

LEMMA IInvStep == IInv /\ [Next]_vars => IInv'
  BY TypeStep, ScriptStep, BuildStep DEF IInv

THEOREM BuildInvariant == Spec => []IInv
  BY IInvInit, IInvStep, PTL DEF Spec

\* When cargo has nothing left to do, every query was checked against its files as
\* they are, but for those put back to what the fingerprint has of them after the crate
\* had started compiling.
THEOREM FreshBuildIsCurrent == Spec => []FreshIsCurrent
  <1>1. IInv => FreshIsCurrent
    <2> SUFFICES ASSUME IInv, Fresh, NEW q \in Query
                 PROVE  /\ used[q] # None /\ DOMAIN used[q] = Reads[q]
                        /\ \A f \in Reads[q] : used[q][f] = text[f] \/ built[f] \in saved[f]
      BY DEF FreshIsCurrent
    <2>1. fingerprint # None /\ Accurate(fingerprint) /\ built = fingerprint
      BY DEF Fresh, Stale, IInv, ScriptInv
    <2>2. used[q] # None /\ Reflected(built, used[q]) /\ used[q] \in Contents(Reads[q])
      BY <2>1 DEF IInv, BuildInv, ReadInv
    <2>3. DOMAIN used[q] = Reads[q] /\ Reads[q] \subseteq Tracked
      BY <2>2, UsedType
    <2>4. \A f \in Reads[q] : built[f] = text[f]
      BY <2>1, <2>3, FingerprintType DEF IInv, Accurate
    <2>5. QED
      BY <2>2, <2>3, <2>4 DEF Reflected
  <1>2. QED
    BY <1>1, BuildInvariant, PTL

\* What each query was checked against has every file as it is that was not saved
\* since the compiler started, although each expansion reads the files twice and the
\* databases take turns in one slot.
THEOREM ExpansionsSeeTheFiles == Spec => []ExpansionsAgree
  <1>1. IInv => ExpansionsAgree
    <2> SUFFICES ASSUME IInv, NEW q \in Query, used[q] # None
                 PROVE  /\ DOMAIN used[q] = Reads[q]
                        /\ \A f \in Reads[q] : used[q][f] = text[f] \/ saved[f] # {}
      BY DEF ExpansionsAgree
    <2>1. used[q] \in Contents(Reads[q]) /\ Unsaved(used[q])
      BY DEF IInv, ReadInv
    <2>2. QED
      BY <2>1, UsedType DEF Unsaved
  <1>2. QED
    BY <1>1, BuildInvariant, PTL
==============================================================================
