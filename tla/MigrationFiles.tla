--------------------------- MODULE MigrationFiles ---------------------------
(***************************************************************************)
(* A migrations directory and its three readers.  MigrationSource::from_dir *)
(* (at run time) and embed_migrations! with from_embedded (in the binary)  *)
(* give the order in which migrations are applied; the sql! macro's        *)
(* collect_migration_files gives the order in which the schema its queries *)
(* are checked against is built.  Each sorts by something else.            *)
(*                                                                         *)
(* A file stem is a sequence of character codes, of which only the order   *)
(* matters, and an up or down file is its stem and its kind.               *)
(***************************************************************************)
EXTENDS Integers, Sequences, FiniteSets, SequencesExt

CONSTANTS
  Stem,     \* the file stems that may occur
  MaxFiles  \* bound: files in the directory

\* Character codes in the order of ASCII: '-' < '.' < digits < '_' < letters.
Dash == 0
Dot == 1
Digit(d) == 2 + d
Underscore == 12
Letter(i) == 12 + i

ASSUME StemAssumption ==
  \A stem \in Stem : stem \in Seq(Nat) /\ stem # <<>>

File == [stem: Stem, kind: {"up", "down"}]

VARIABLE dir   \* the files in the directory

-----------------------------------------------------------------------------
(* Names.                                                                   *)

\* The order of str::cmp, which OsString and String share.
LexLess(s, t) ==
  \/ IsStrictPrefix(s, t)
  \/ \E i \in 1..Len(s) :
       /\ i <= Len(t) /\ s[i] < t[i]
       /\ SubSeq(s, 1, i - 1) = SubSeq(t, 1, i - 1)

\* The name of the up file; of what follows the stem only the dot is ever compared.
FileName(stem) == stem \o <<Dot, Letter(19)>>

\* parse_migration_name and validate_stem: digits, an underscore, a description.
UnderscoreAt(stem) == SelectInSeq(stem, LAMBDA c : c = Underscore)

Version(stem) == SubSeq(stem, 1, UnderscoreAt(stem) - 1)

WellNamed(stem) ==
  /\ UnderscoreAt(stem) \in 2..(Len(stem) - 1)
  /\ \A i \in 1..(UnderscoreAt(stem) - 1) : stem[i] \in Digit(0)..Digit(9)

Ups(files)   == {f.stem : f \in {g \in files : g.kind = "up"}}
Downs(files) == {f.stem : f \in {g \in files : g.kind = "down"}}

-----------------------------------------------------------------------------
(* Sorting.  An order is a set of pairs: the lesser stem, then the greater.  *)

\* Mutant: the newest version first.
DirLessReversed(s, t) ==
  \/ LexLess(Version(t), Version(s))
  \/ Version(s) = Version(t) /\ LexLess(FileName(s), FileName(t))

\* Sorted by file name, then, stably, by the text of the version.
DirLess(s, t) ==
  \/ LexLess(Version(s), Version(t))
  \/ Version(s) = Version(t) /\ LexLess(FileName(s), FileName(t))

\* The macro sorts by stem, then from_embedded, stably, by version.
EmbedLess(s, t) ==
  \/ LexLess(Version(s), Version(t))
  \/ Version(s) = Version(t) /\ LexLess(s, t)

DirOrder(stems)   == {p \in stems \X stems : DirLess(p[1], p[2])}
EmbedOrder(stems) == {p \in stems \X stems : EmbedLess(p[1], p[2])}
StemOrder(stems)  == {p \in stems \X stems : LexLess(p[1], p[2])}
FileOrder(stems)  == {p \in stems \X stems : LexLess(FileName(p[1]), FileName(p[2]))}

\* The stems that i of the others precede: one, if the order is total.
Ranked(stems, order, i) == {t \in stems : Cardinality({s \in stems : <<s, t>> \in order}) = i}

\* The stems in order.
Sorted(stems, order) ==
  [i \in 1..Cardinality(stems) |-> CHOOSE t \in Ranked(stems, order, i - 1) : TRUE]

-----------------------------------------------------------------------------
(* The readers.  Each returns the migrations in order; the first two refuse *)
(* a directory in which a name is not well formed.                          *)

Entry(files, stem) == [name |-> stem, down |-> stem \in Downs(files)]

Read(files, stems) == [i \in DOMAIN stems |-> Entry(files, stems[i])]

Refused == [ok |-> FALSE, migrations |-> <<>>]

\* Names are parsed before the migrations are sorted.
Source(files, order) ==
  IF \A stem \in Ups(files) : WellNamed(stem)
    THEN [ok |-> TRUE, migrations |-> Read(files, Sorted(Ups(files), order))]
    ELSE Refused

from_dir(files) == Source(files, DirOrder(Ups(files)))

\* Mutant: from_embedded trusts the order it is given.
UnsortedFromEmbedded(files) == Source(files, StemOrder(Ups(files)))

from_embedded(files) == Source(files, EmbedOrder(Ups(files)))

\* What the macro keeps of a file: its name, and its text, which is left out here.
Files(stems) == [i \in DOMAIN stems |-> [name |-> stems[i]]]

\* Mutant: the files keep the order in which the directory lists them.
CollectAsListed(files) == Files(SetToSeq(Ups(files)))

\* Sorted by file name; names are not checked and down files are not read.
collect_migration_files(files) == Files(Sorted(Ups(files), FileOrder(Ups(files))))

NamesOf(entries) == [i \in DOMAIN entries |-> entries[i].name]

-----------------------------------------------------------------------------
(* The developer changes the directory one file at a time.                  *)

Init == dir = {}

AddFile(f) ==
  /\ f \notin dir /\ Cardinality(dir) < MaxFiles
  /\ dir' = dir \cup {f}

RemoveFile(f) ==
  /\ f \in dir
  /\ dir' = dir \ {f}

Next == \E f \in File : AddFile(f) \/ RemoveFile(f)

Spec == Init /\ [][Next]_dir

-----------------------------------------------------------------------------
\* What the team numbers by: distinct versions, all of one width.
DistinctVersions(files) ==
  \A s, t \in Ups(files) : Version(s) = Version(t) => s = t

OneWidth(files) ==
  \A s, t \in Ups(files) : Len(Version(s)) = Len(Version(t))

Runtime == from_dir(dir)

\* A binary that embeds its migrations runs them in the same order, with the same
\* down scripts, as the tool that reads them from the directory, and is refused
\* the same directories.  Two migrations of one version may be exchanged.
EmbedAgrees ==
  DistinctVersions(dir) \/ ~Runtime.ok => from_embedded(dir) = Runtime

\* The sql! macro checks queries against the schema the migrations will produce:
\* it applies the same files in the same order, provided the versions have one
\* width and each is used once.
CompileOrderAgrees ==
  Runtime.ok /\ OneWidth(dir) /\ DistinctVersions(dir) =>
    NamesOf(collect_migration_files(dir)) = NamesOf(Runtime.migrations)

\* A migration added with a later version of the same width comes after all the
\* others, and they keep their order: what is deployed is never reordered.
AppendsLater ==
  [][\A f \in dir' \ dir :
       /\ f.kind = "up" /\ Runtime'.ok /\ OneWidth(dir')
       /\ \A s \in Ups(dir) : LexLess(Version(s), Version(f.stem))
       => /\ IsPrefix(NamesOf(Runtime.migrations), NamesOf(Runtime'.migrations))
          /\ IsPrefix(collect_migration_files(dir), collect_migration_files(dir'))]_dir

-----------------------------------------------------------------------------
(* What the documentation says.                                             *)

Number(version) ==
  LET value[i \in 0..Len(version)] ==
        IF i = 0 THEN 0 ELSE 10 * value[i - 1] + (version[i] - Digit(0))
  IN value[Len(version)]

\* typedpg/src/migrate/source.rs: "Migrations are sorted by numeric prefix".
SortedByNumber ==
  \A i, j \in DOMAIN Runtime.migrations : i < j =>
    Number(Version(Runtime.migrations[i].name)) <= Number(Version(Runtime.migrations[j].name))
=============================================================================
