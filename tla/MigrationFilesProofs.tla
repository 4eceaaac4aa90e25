------------------------ MODULE MigrationFilesProofs ------------------------
(***************************************************************************)
(* Proofs about MigrationFiles, for any set of stems and any number of     *)
(* files.  The readers sort by different keys.  That their orders agree is *)
(* a matter of comparing names: two names whose versions differ and have   *)
(* one width are told apart inside the version (FirstDifference).  Sorted  *)
(* puts a name behind as many names as precede it, so equal orders sort    *)
(* alike, and a greatest name leaves the places of the others as they are  *)
(* (SortedAppend).                                                         *)
(***************************************************************************)
EXTENDS MigrationFiles, FiniteSetTheorems, SequenceTheorems, TLAPS

\* What SubSeq(s, 1, k) is.
LEMMA FirstPart ==
  ASSUME NEW S, NEW s \in Seq(S), NEW k \in 0..Len(s)
  PROVE  /\ SubSeq(s, 1, k) \in Seq(S)
         /\ Len(SubSeq(s, 1, k)) = k
         /\ \A j \in 1..k : SubSeq(s, 1, k)[j] = s[j]
  <1>1. \A j \in 1..k : s[j] \in S
    OBVIOUS
  <1>2. QED
    BY <1>1, SubSeqProperties

\* Two sequences begin alike when they agree place by place.
LEMMA SameStart ==
  ASSUME NEW S, NEW s \in Seq(S), NEW t \in Seq(S),
         NEW k \in 0..Len(s), k <= Len(t)
  PROVE  SubSeq(s, 1, k) = SubSeq(t, 1, k) <=> \A j \in 1..k : s[j] = t[j]
  <1> DEFINE a == SubSeq(s, 1, k)
             b == SubSeq(t, 1, k)
  <1>1. /\ a \in Seq(S) /\ Len(a) = k
        /\ \A j \in 1..k : a[j] = s[j]
    BY FirstPart
  <1>2. /\ b \in Seq(S) /\ Len(b) = k
        /\ \A j \in 1..k : b[j] = t[j]
    BY FirstPart
  <1> HIDE DEF a, b
  <1>3. a = b <=> \A j \in 1..k : a[j] = b[j]
    BY <1>1, <1>2
  <1>4. (\A j \in 1..k : a[j] = b[j]) <=> (\A j \in 1..k : s[j] = t[j])
    BY <1>1, <1>2
  <1>5. QED
    BY <1>3, <1>4 DEF a, b

-----------------------------------------------------------------------------
(* The order of str::cmp.                                                   *)

\* s is a proper start of t, or less at the first difference.
LEMMA LexLessByPlace ==
  ASSUME NEW s \in Seq(Nat), NEW t \in Seq(Nat)
  PROVE  LexLess(s, t) <=>
           \/ Len(s) < Len(t) /\ \A j \in 1..Len(s) : s[j] = t[j]
           \/ \E i \in 1..Len(s) :
                i <= Len(t) /\ s[i] < t[i] /\ \A j \in 1..(i - 1) : s[j] = t[j]
  <1>1. IsStrictPrefix(s, t) <=>
          Len(s) < Len(t) /\ \A j \in 1..Len(s) : s[j] = t[j]
    <2>1. CASE Len(s) <= Len(t)
      <3>1. SubSeq(s, 1, Len(s)) = SubSeq(t, 1, Len(s)) <=>
              \A j \in 1..Len(s) : s[j] = t[j]
        BY <2>1, SameStart
      <3>2. (\A j \in 1..Len(s) : s[j] = t[j]) => (s # t <=> Len(s) < Len(t))
        BY SMTT(20), <2>1
      <3>3. QED
        BY <2>1, <3>1, <3>2 DEF IsStrictPrefix, IsPrefix
    <2>2. CASE ~(Len(s) <= Len(t))
      BY <2>2 DEF IsStrictPrefix, IsPrefix
    <2>3. QED
      BY <2>1, <2>2
  <1>2. ASSUME NEW i \in 1..Len(s), i <= Len(t)
        PROVE  SubSeq(s, 1, i - 1) = SubSeq(t, 1, i - 1) <=>
                 \A j \in 1..(i - 1) : s[j] = t[j]
    BY <1>2, SameStart
  <1>3. QED
    BY <1>1, <1>2 DEF LexLess

LEMMA LexIrreflexive ==
  ASSUME NEW s \in Seq(Nat)
  PROVE  ~LexLess(s, s)
  <1>1. \A i \in 1..Len(s) : ~(s[i] < s[i])
    OBVIOUS
  <1>2. QED
    BY <1>1, LexLessByPlace

LEMMA LexAsymmetric ==
  ASSUME NEW s \in Seq(Nat), NEW t \in Seq(Nat), LexLess(s, t)
  PROVE  ~LexLess(t, s)
  <1>1. /\ \A i \in 1..Len(s) : s[i] \in Nat
        /\ \A i \in 1..Len(t) : t[i] \in Nat
        /\ Len(s) \in Nat /\ Len(t) \in Nat
    OBVIOUS
  <1>2. CASE Len(s) < Len(t) /\ \A j \in 1..Len(s) : s[j] = t[j]
    <2>1. \A i \in 1..Len(t) : i <= Len(s) => ~(t[i] < s[i])
      BY <1>1, <1>2
    <2>2. QED
      BY <1>1, <1>2, <2>1, LexLessByPlace
  <1>3. ASSUME NEW i \in 1..Len(s), i <= Len(t), s[i] < t[i],
               \A j \in 1..(i - 1) : s[j] = t[j]
        PROVE  ~LexLess(t, s)
    <2>1. i \in 1..Len(t) /\ s[i] # t[i] /\ ~(t[i] < s[i])
      BY <1>1, <1>3
    <2>2. ~(Len(t) < Len(s) /\ \A j \in 1..Len(t) : t[j] = s[j])
      BY <2>1
    <2>3. ASSUME NEW k \in 1..Len(t), k <= Len(s), t[k] < s[k],
                 \A j \in 1..(k - 1) : t[j] = s[j]
          PROVE  FALSE
      <3>1. CASE k < i
        BY <1>1, <1>3, <2>3, <3>1
      <3>2. CASE k = i
        BY <2>1, <2>3, <3>2
      <3>3. CASE i < k
        BY <1>1, <2>1, <2>3, <3>3
      <3>4. QED
        BY <1>1, <3>1, <3>2, <3>3
    <2>4. QED
      BY <2>2, <2>3, LexLessByPlace
  <1>4. QED
    BY <1>2, <1>3, LexLessByPlace

-----------------------------------------------------------------------------
(* Names.                                                                   *)

\* A well formed name starts with its version.
LEMMA VersionType ==
  ASSUME NEW s \in Seq(Nat), WellNamed(s)
  PROVE  /\ Version(s) \in Seq(Nat)
         /\ Len(Version(s)) \in 1..Len(s)
         /\ \A j \in 1..Len(Version(s)) : Version(s)[j] = s[j]
  <1> DEFINE k == UnderscoreAt(s) - 1
  <1>1. k \in 1..Len(s)
    BY DEF WellNamed
  <1>2. Version(s) = SubSeq(s, 1, k)
    BY DEF Version
  <1> HIDE DEF k
  <1>3. QED
    BY <1>1, <1>2, FirstPart

LEMMA FileNameType ==
  ASSUME NEW s \in Seq(Nat)
  PROVE  /\ FileName(s) \in Seq(Nat)
         /\ Len(FileName(s)) = Len(s) + 2
         /\ \A j \in 1..Len(s) : FileName(s)[j] = s[j]
  BY DEF FileName, Dot, Letter

\* Names whose versions differ and have one width compare as the versions do,
\* whatever follows: an underscore, a description, an extension.
LEMMA FirstDifference ==
  ASSUME NEW s \in Seq(Nat), NEW t \in Seq(Nat), WellNamed(s), WellNamed(t),
         Len(Version(s)) = Len(Version(t)), Version(s) # Version(t)
  PROVE  LexLess(FileName(s), FileName(t)) <=> LexLess(Version(s), Version(t))
  <1> DEFINE v == Version(s)
             w == Version(t)
             f == FileName(s)
             g == FileName(t)
             n == Len(v)
  <1>1. /\ v \in Seq(Nat) /\ n \in 1..Len(s)
        /\ \A j \in 1..n : v[j] = s[j]
    BY VersionType
  <1>2. /\ w \in Seq(Nat) /\ Len(w) = n /\ n \in 1..Len(t)
        /\ \A j \in 1..n : w[j] = t[j]
    BY VersionType
  <1>3. /\ f \in Seq(Nat) /\ Len(f) = Len(s) + 2
        /\ \A j \in 1..Len(s) : f[j] = s[j]
    BY FileNameType
  <1>4. /\ g \in Seq(Nat) /\ Len(g) = Len(t) + 2
        /\ \A j \in 1..Len(t) : g[j] = t[j]
    BY FileNameType
  <1>5. v # w /\ n = Len(v)
    OBVIOUS
  <1> HIDE DEF v, w, f, g, n
  <1>6. /\ n \in Nat /\ n <= Len(f) /\ n <= Len(g)
        /\ Len(f) \in Nat /\ Len(g) \in Nat
    BY <1>1, <1>2, <1>3, <1>4
  <1>7. ASSUME NEW j \in 1..n
        PROVE  f[j] = v[j] /\ g[j] = w[j]
    <2>1. j \in 1..Len(s) /\ j \in 1..Len(t)
      BY <1>1, <1>2
    <2>2. f[j] = s[j] /\ v[j] = s[j]
      BY <1>1, <1>3, <2>1
    <2>3. g[j] = t[j] /\ w[j] = t[j]
      BY <1>2, <1>4, <2>1
    <2>4. QED
      BY <2>2, <2>3
  <1>8. ASSUME \A j \in 1..n : v[j] = w[j]
        PROVE  FALSE
    <2>1. v = w
      BY <1>1, <1>2, <1>5, <1>8, SeqEqual
    <2>2. QED
      BY <1>5, <2>1
  <1>9. ~ \A j \in 1..n : v[j] = w[j]
    BY <1>8
  <1>10. ASSUME LexLess(v, w)
         PROVE  LexLess(f, g)
    <2>1. PICK i \in 1..n : v[i] < w[i] /\ \A j \in 1..(i - 1) : v[j] = w[j]
      BY ZenonT(40), <1>1, <1>2, <1>5, <1>9, <1>10, LexLessByPlace
    <2>2. i \in 1..Len(f) /\ i <= Len(g)
      BY <1>6
    <2>3. f[i] < g[i] /\ \A j \in 1..(i - 1) : f[j] = g[j]
      BY <1>6, <1>7, <2>1
    <2>4. QED
      BY <1>3, <1>4, <2>2, <2>3, LexLessByPlace
  <1>11. ASSUME LexLess(f, g)
         PROVE  LexLess(v, w)
    <2>1. ~ \A j \in 1..n : f[j] = g[j]
      BY <1>7, <1>9
    <2>2. ~ \A j \in 1..Len(f) : f[j] = g[j]
      BY <1>6, <2>1
    <2>3. PICK i \in 1..Len(f) :
            i <= Len(g) /\ f[i] < g[i] /\ \A j \in 1..(i - 1) : f[j] = g[j]
      BY <1>3, <1>4, <1>11, <2>2, LexLessByPlace
    <2>4. i \in 1..n
      BY <1>6, <2>1, <2>3
    <2>5. v[i] < w[i] /\ \A j \in 1..(i - 1) : v[j] = w[j]
      BY <1>6, <1>7, <2>3, <2>4
    <2>6. i \in 1..Len(v) /\ i <= Len(w)
      BY <1>2, <1>5, <2>4
    <2>7. QED
      BY <1>1, <1>2, <2>5, <2>6, LexLessByPlace
  <1>12. QED
    BY <1>10, <1>11 DEF v, w, f, g

-----------------------------------------------------------------------------
(* The directory.                                                           *)

TypeOK == dir \subseteq File /\ IsFiniteSet(dir)

LEMMA Typing == Spec => []TypeOK
  <1>1. Init => TypeOK
    BY FS_EmptySet DEF Init, TypeOK
  <1>2. TypeOK /\ [Next]_dir => TypeOK'
    <2>1. ASSUME TypeOK, NEW f \in File, AddFile(f)
          PROVE  TypeOK'
      BY <2>1, FS_AddElement DEF TypeOK, AddFile
    <2>2. ASSUME TypeOK, NEW f \in File, RemoveFile(f)
          PROVE  TypeOK'
      BY <2>2, FS_RemoveElement DEF TypeOK, RemoveFile
    <2>3. ASSUME TypeOK, UNCHANGED dir
          PROVE  TypeOK'
      BY <2>3 DEF TypeOK
    <2>4. QED
      BY <2>1, <2>2, <2>3 DEF Next
  <1>3. QED
    BY <1>1, <1>2, PTL DEF Spec

LEMMA UpsType ==
  ASSUME NEW files, files \subseteq File
  PROVE  Ups(files) \subseteq Stem /\ Ups(files) \subseteq Seq(Nat)
  BY StemAssumption DEF Ups, File

LEMMA UpsFinite ==
  ASSUME NEW files, IsFiniteSet(files)
  PROVE  IsFiniteSet(Ups(files))
  <1> DEFINE ups == {g \in files : g.kind = "up"}
             stemOf == [g \in ups |-> g.stem]
  <1>1. IsFiniteSet(ups)
    BY FS_Subset
  <1>2. stemOf \in Surjection(ups, Ups(files))
    BY DEF Surjection, Ups
  <1>3. QED
    BY <1>1, <1>2, FS_Surjection

-----------------------------------------------------------------------------
(* Sorting.                                                                 *)

\* The order called longer puts last behind the stems and is otherwise order.
Extended(stems, last, order, longer) ==
  /\ last \notin stems /\ <<last, last>> \notin longer
  /\ \A s, t \in stems : <<s, t>> \in longer <=> <<s, t>> \in order
  /\ \A s \in stems : <<s, last>> \in longer /\ <<last, s>> \notin longer

\* A stem that all others precede leaves them where they are.
LEMMA SortedAppend ==
  ASSUME NEW stems, IsFiniteSet(stems), NEW last, NEW order, NEW longer,
         Extended(stems, last, order, longer)
  PROVE  /\ Cardinality(stems) \in Nat
         /\ Cardinality(stems \cup {last}) = Cardinality(stems) + 1
         /\ \A i \in 1..Cardinality(stems) :
              Sorted(stems \cup {last}, longer)[i] = Sorted(stems, order)[i]
  <1> DEFINE n == Cardinality(stems)
             all == stems \cup {last}
  <1>1. n \in Nat /\ Cardinality(all) = n + 1
    BY FS_CardinalityType, FS_AddElement DEF Extended
  <1>2. ASSUME NEW t \in stems
        PROVE  {s \in all : <<s, t>> \in longer} = {s \in stems : <<s, t>> \in order}
    BY DEF Extended
  <1>3. {s \in all : <<s, last>> \in longer} = stems
    BY DEF Extended
  <1>4. ASSUME NEW i \in 1..n
        PROVE  Ranked(all, longer, i - 1) = Ranked(stems, order, i - 1)
    <2>1. ASSUME NEW t \in all
          PROVE  t \in Ranked(all, longer, i - 1) <=> t \in Ranked(stems, order, i - 1)
      <3>1. CASE t \in stems
        BY <1>2, <3>1 DEF Ranked
      <3>2. CASE t = last
        <4>1. {s \in all : <<s, t>> \in longer} = stems
          BY <1>3, <3>2
        <4>2. t \notin Ranked(stems, order, i - 1)
          BY <3>2 DEF Ranked, Extended
        <4>3. Cardinality(stems) # i - 1
          BY <1>1
        <4>4. t \notin Ranked(all, longer, i - 1)
          BY <4>1, <4>3 DEF Ranked
        <4>5. QED
          BY <4>2, <4>4
      <3>3. QED
        BY <3>1, <3>2
    <2>2. Ranked(all, longer, i - 1) \subseteq all /\ Ranked(stems, order, i - 1) \subseteq all
      BY DEF Ranked
    <2>3. QED
      BY <2>1, <2>2
  <1>5. ASSUME NEW i \in 1..n
        PROVE  Sorted(all, longer)[i] = Sorted(stems, order)[i]
    <2>1. i \in 1..Cardinality(all)
      BY <1>1
    <2>2. QED
      BY <1>4, <2>1 DEF Sorted
  <1>6. QED
    BY <1>1, <1>5

\* What a reader makes of the sorted stems, a name for each.
LEMMA NamesOfRead ==
  ASSUME NEW files, NEW stems, NEW order, Cardinality(stems) \in Nat
  PROVE  /\ DOMAIN Sorted(stems, order) = 1..Cardinality(stems)
         /\ NamesOf(Read(files, Sorted(stems, order))) =
              [i \in 1..Cardinality(stems) |-> Sorted(stems, order)[i]]
         /\ NamesOf(Files(Sorted(stems, order))) =
              [i \in 1..Cardinality(stems) |-> Sorted(stems, order)[i]]
  <1>1. DOMAIN Sorted(stems, order) = 1..Cardinality(stems)
    BY DEF Sorted
  <1>2. QED
    BY <1>1 DEF NamesOf, Read, Files, Entry

-----------------------------------------------------------------------------
(* The orders agree.                                                        *)

LEMMA SameFileOrder ==
  ASSUME NEW s \in Seq(Nat), NEW t \in Seq(Nat), WellNamed(s), WellNamed(t),
         Len(Version(s)) = Len(Version(t)), Version(s) = Version(t) => s = t
  PROVE  DirLess(s, t) <=> LexLess(FileName(s), FileName(t))
  <1>1. CASE Version(s) = Version(t)
    BY <1>1, VersionType, LexIrreflexive DEF DirLess
  <1>2. CASE Version(s) # Version(t)
    BY <1>2, FirstDifference DEF DirLess
  <1>3. QED
    BY <1>1, <1>2

LEMMA SameEmbedOrder ==
  ASSUME NEW s \in Seq(Nat), NEW t \in Seq(Nat), Version(s) = Version(t) => s = t
  PROVE  DirLess(s, t) <=> EmbedLess(s, t)
  BY FileNameType, LexIrreflexive DEF DirLess, EmbedLess

\* A binary runs the migrations embedded in it in the order of the directory they
\* were embedded from, and both refuse the same directories, as long as no version
\* is used twice.
THEOREM EmbeddedLikeTheDirectory == Spec => []EmbedAgrees
  <1>1. ASSUME TypeOK
        PROVE  EmbedAgrees
    <2> DEFINE ups == Ups(dir)
    <2>1. CASE \A stem \in ups : WellNamed(stem)
      <3>1. ASSUME DistinctVersions(dir)
            PROVE  DirOrder(ups) = EmbedOrder(ups)
        <4>1. \A s, t \in ups : DirLess(s, t) <=> EmbedLess(s, t)
          BY <1>1, <3>1, UpsType, SameEmbedOrder DEF DistinctVersions, TypeOK
        <4>2. QED
          BY <4>1 DEF DirOrder, EmbedOrder
      <3>2. Runtime.ok
        BY <2>1 DEF Runtime, from_dir, Source
      <3>3. QED
        BY <3>1, <3>2 DEF EmbedAgrees, Runtime, from_dir, from_embedded
    <2>2. CASE ~ \A stem \in ups : WellNamed(stem)
      BY <2>2 DEF EmbedAgrees, Runtime, from_dir, from_embedded, Source
    <2>3. QED
      BY <2>1, <2>2
  <1>2. QED
    BY <1>1, Typing, PTL

\* The schema the sql! macro checks against applies the files the runner applies,
\* in the same order, for versions of one width each used once.
THEOREM CompiledInTheOrderRun == Spec => []CompileOrderAgrees
  <1>1. ASSUME TypeOK, Runtime.ok, OneWidth(dir), DistinctVersions(dir)
        PROVE  NamesOf(collect_migration_files(dir)) = NamesOf(Runtime.migrations)
    <2> DEFINE ups == Ups(dir)
    <2>1. \A stem \in ups : WellNamed(stem)
      BY <1>1 DEF Runtime, from_dir, Source, Refused
    <2>2. \A s, t \in ups : DirLess(s, t) <=> LexLess(FileName(s), FileName(t))
      BY <1>1, <2>1, UpsType, SameFileOrder DEF OneWidth, DistinctVersions, TypeOK
    <2>3. DirOrder(ups) = FileOrder(ups)
      BY <2>2 DEF DirOrder, FileOrder
    <2>4. Cardinality(ups) \in Nat
      BY <1>1, UpsFinite, FS_CardinalityType DEF TypeOK
    <2>5. Runtime.migrations = Read(dir, Sorted(ups, DirOrder(ups)))
      BY <2>1 DEF Runtime, from_dir, Source
    <2>6. QED
      BY <2>3, <2>4, <2>5, NamesOfRead DEF collect_migration_files
  <1>2. TypeOK => CompileOrderAgrees
    BY <1>1 DEF CompileOrderAgrees
  <1>3. QED
    BY <1>2, Typing, PTL

-----------------------------------------------------------------------------
(* Adding a migration.                                                      *)

LEMMA TableIsSeq ==
  ASSUME NEW n \in Nat, NEW S, NEW f \in [1..n -> S]
  PROVE  f \in Seq(S) /\ Len(f) = n
  OBVIOUS

\* A start of a sequence, place by place.
LEMMA PrefixByPlace ==
  ASSUME NEW n \in Nat, NEW S, NEW f \in [1..n -> S], NEW g \in [1..(n + 1) -> S],
         \A i \in 1..n : f[i] = g[i]
  PROVE  IsPrefix(f, g)
  <1>1. f \in Seq(S) /\ Len(f) = n
    BY TableIsSeq
  <1>2. g \in Seq(S) /\ Len(g) = n + 1
    <2> DEFINE m == n + 1
    <2>1. m \in Nat /\ g \in [1..m -> S]
      OBVIOUS
    <2> HIDE DEF m
    <2>2. g \in Seq(S) /\ Len(g) = m
      BY <2>1, TableIsSeq
    <2>3. QED
      BY <2>2 DEF m
  <1>3. n \in 0..Len(f) /\ n <= Len(g)
    BY <1>1, <1>2
  <1>4. SubSeq(f, 1, n) = SubSeq(g, 1, n)
    BY <1>1, <1>2, <1>3, SameStart
  <1>5. QED
    BY <1>1, <1>2, <1>3, <1>4 DEF IsPrefix

\* The new migration's name comes after the others in both orders.
LEMMA LaterIsLast ==
  ASSUME NEW s \in Seq(Nat), NEW t \in Seq(Nat), WellNamed(s), WellNamed(t),
         LexLess(Version(s), Version(t))
  PROVE  /\ DirLess(s, t) /\ ~DirLess(t, s) /\ ~DirLess(t, t)
         /\ Len(Version(s)) = Len(Version(t)) =>
              /\ LexLess(FileName(s), FileName(t))
              /\ ~LexLess(FileName(t), FileName(s))
              /\ ~LexLess(FileName(t), FileName(t))
  <1>1. /\ Version(s) \in Seq(Nat) /\ Version(t) \in Seq(Nat)
        /\ FileName(s) \in Seq(Nat) /\ FileName(t) \in Seq(Nat)
    BY VersionType, FileNameType
  <1>2. ~LexLess(Version(t), Version(s)) /\ ~LexLess(FileName(t), FileName(t))
    BY <1>1, LexAsymmetric, LexIrreflexive
  <1>3. Version(s) # Version(t) /\ ~LexLess(Version(t), Version(t))
    BY <1>1, LexIrreflexive
  <1>4. DirLess(s, t) /\ ~DirLess(t, s) /\ ~DirLess(t, t)
    BY <1>2, <1>3 DEF DirLess
  <1>5. ASSUME Len(Version(s)) = Len(Version(t))
        PROVE  LexLess(FileName(s), FileName(t)) /\ ~LexLess(FileName(t), FileName(s))
    BY <1>2, <1>3, <1>5, FirstDifference
  <1>6. QED
    BY <1>2, <1>4, <1>5

\* What is deployed is never reordered: a migration added with a later version of
\* the same width comes after the others, which keep their order, for the runner
\* and for the sql! macro.
THEOREM LaterMigrationsComeLast == Spec => AppendsLater
  <1>1. ASSUME TypeOK, TypeOK', [Next]_dir, NEW f \in dir' \ dir,
               f.kind = "up", Runtime'.ok, OneWidth(dir'),
               \A s \in Ups(dir) : LexLess(Version(s), Version(f.stem))
        PROVE  /\ IsPrefix(NamesOf(Runtime.migrations), NamesOf(Runtime'.migrations))
               /\ IsPrefix(collect_migration_files(dir), collect_migration_files(dir'))
    <2> DEFINE ups == Ups(dir)
               last == f.stem
               all == Ups(dir')
               n == Cardinality(ups)
    <2>1. f \in File /\ f \notin dir /\ dir' = dir \cup {f}
      BY <1>1 DEF Next, AddFile, RemoveFile
    <2>2. all = ups \cup {last}
      BY <1>1, <2>1 DEF Ups
    <2>3. last \notin ups
      <3>1. ASSUME NEW g \in dir, g.kind = "up", g.stem = last
            PROVE  FALSE
        BY <1>1, <2>1, <3>1 DEF TypeOK, File
      <3>2. QED
        BY <3>1 DEF Ups
    <2>4. \A stem \in all : WellNamed(stem) /\ stem \in Seq(Nat)
      <3>1. \A stem \in all : WellNamed(stem)
        BY <1>1 DEF Runtime, from_dir, Source, Refused
      <3>2. QED
        BY <1>1, <3>1, UpsType DEF TypeOK
    <2>5. \A s \in ups : Len(Version(s)) = Len(Version(last))
      BY <1>1, <2>2 DEF OneWidth
    <2>6. IsFiniteSet(ups)
      BY <1>1, UpsFinite DEF TypeOK
    <2>7. ASSUME NEW s \in ups
          PROVE  /\ DirLess(s, last) /\ ~DirLess(last, s)
                 /\ LexLess(FileName(s), FileName(last))
                 /\ ~LexLess(FileName(last), FileName(s))
      BY <1>1, <2>2, <2>4, <2>5, LaterIsLast
    <2>8. ~DirLess(last, last) /\ ~LexLess(FileName(last), FileName(last))
      BY <2>2, <2>4, VersionType, FileNameType, LexIrreflexive DEF DirLess
    <2>9. /\ n \in Nat /\ Cardinality(all) = n + 1
          /\ \A i \in 1..n : Sorted(all, DirOrder(all))[i] = Sorted(ups, DirOrder(ups))[i]
      <3>1. \A s, t \in ups : <<s, t>> \in DirOrder(all) <=> <<s, t>> \in DirOrder(ups)
        BY <2>2 DEF DirOrder
      <3>2. /\ \A s \in ups : <<s, last>> \in DirOrder(all) /\ <<last, s>> \notin DirOrder(all)
            /\ <<last, last>> \notin DirOrder(all)
        BY <2>2, <2>7, <2>8 DEF DirOrder
      <3> DEFINE order == DirOrder(ups)
                 longer == DirOrder(all)
      <3> HIDE DEF order, longer, ups, all, last, n
      <3>3. /\ n \in Nat /\ Cardinality(ups \cup {last}) = n + 1
            /\ \A i \in 1..n : Sorted(ups \cup {last}, longer)[i] = Sorted(ups, order)[i]
        <4>1. Extended(ups, last, order, longer)
          BY <2>3, <3>1, <3>2 DEF Extended, order, longer
        <4>2. /\ Cardinality(ups) \in Nat
              /\ Cardinality(ups \cup {last}) = Cardinality(ups) + 1
          BY <2>6, <4>1, SortedAppend
        <4>3. \A i \in 1..Cardinality(ups) :
                Sorted(ups \cup {last}, longer)[i] = Sorted(ups, order)[i]
          BY <2>6, <4>1, SortedAppend
        <4>4. QED
          BY <4>2, <4>3 DEF n
      <3>4. QED
        BY <2>2, <3>3 DEF order, longer
    <2>10. \A i \in 1..n : Sorted(all, FileOrder(all))[i] = Sorted(ups, FileOrder(ups))[i]
      <3>1. \A s, t \in ups : <<s, t>> \in FileOrder(all) <=> <<s, t>> \in FileOrder(ups)
        BY <2>2 DEF FileOrder
      <3>2. /\ \A s \in ups : <<s, last>> \in FileOrder(all) /\ <<last, s>> \notin FileOrder(all)
            /\ <<last, last>> \notin FileOrder(all)
        BY <2>2, <2>7, <2>8 DEF FileOrder
      <3> DEFINE order == FileOrder(ups)
                 longer == FileOrder(all)
      <3> HIDE DEF order, longer, ups, all, last, n
      <3>3. /\ n \in Nat /\ Cardinality(ups \cup {last}) = n + 1
            /\ \A i \in 1..n : Sorted(ups \cup {last}, longer)[i] = Sorted(ups, order)[i]
        <4>1. Extended(ups, last, order, longer)
          BY <2>3, <3>1, <3>2 DEF Extended, order, longer
        <4>2. /\ Cardinality(ups) \in Nat
              /\ Cardinality(ups \cup {last}) = Cardinality(ups) + 1
          BY <2>6, <4>1, SortedAppend
        <4>3. \A i \in 1..Cardinality(ups) :
                Sorted(ups \cup {last}, longer)[i] = Sorted(ups, order)[i]
          BY <2>6, <4>1, SortedAppend
        <4>4. QED
          BY <4>2, <4>3 DEF n
      <3>4. QED
        BY <2>2, <3>3 DEF order, longer
    <2>11. IsPrefix(NamesOf(Runtime.migrations), NamesOf(Runtime'.migrations))
      <3> DEFINE a == NamesOf(Runtime.migrations)
                 b == NamesOf(Runtime'.migrations)
      <3>1. Runtime.migrations = Read(dir, Sorted(ups, DirOrder(ups)))
        BY <2>2, <2>4 DEF Runtime, from_dir, Source
      <3>2. Runtime'.migrations = Read(dir', Sorted(all, DirOrder(all)))
        BY <2>4 DEF Runtime, from_dir, Source
      <3>3. /\ a = [i \in 1..n |-> Sorted(ups, DirOrder(ups))[i]]
            /\ b = [i \in 1..(n + 1) |-> Sorted(all, DirOrder(all))[i]]
        BY <2>9, <3>1, <3>2, NamesOfRead
      <3> HIDE DEF a, b, n, ups, all
      <3> DEFINE S == {b[i] : i \in 1..(n + 1)}
      <3>4. \A i \in 1..n : a[i] = b[i]
        BY <2>9, <3>3
      <3>5. IsPrefix(a, b)
        <4>1. \A i \in 1..(n + 1) : b[i] \in S
          OBVIOUS
        <4> HIDE DEF S
        <4>2. a \in [1..n -> S] /\ b \in [1..(n + 1) -> S]
          BY <2>9, <3>3, <3>4, <4>1
        <4>3. QED
          BY ZenonT(40), <2>9, <3>4, <4>2, PrefixByPlace
      <3>6. QED
        BY <3>5 DEF a, b
    <2>12. IsPrefix(collect_migration_files(dir), collect_migration_files(dir'))
      <3> DEFINE a == collect_migration_files(dir)
                 b == collect_migration_files(dir')
      <3>1. /\ a = [i \in 1..n |-> [name |-> Sorted(ups, FileOrder(ups))[i]]]
            /\ b = [i \in 1..(n + 1) |-> [name |-> Sorted(all, FileOrder(all))[i]]]
        <4>1. /\ DOMAIN Sorted(ups, FileOrder(ups)) = 1..n
              /\ DOMAIN Sorted(all, FileOrder(all)) = 1..(n + 1)
          BY <2>9 DEF Sorted
        <4>2. QED
          BY <4>1 DEF collect_migration_files, Files
      <3> HIDE DEF a, b, n, ups, all
      <3> DEFINE S == {b[i] : i \in 1..(n + 1)}
      <3>2. \A i \in 1..n : a[i] = b[i]
        BY <2>9, <2>10, <3>1
      <3>3. IsPrefix(a, b)
        <4>1. \A i \in 1..(n + 1) : b[i] \in S
          OBVIOUS
        <4> HIDE DEF S
        <4>2. b \in [1..(n + 1) -> S]
          BY <3>1, <4>1
        <4>3. a \in [1..n -> S]
          <5>1. \A i \in 1..n : a[i] \in S
            BY <2>9, <3>2, <4>1
          <5>2. QED
            BY <3>1, <5>1
        <4>4. QED
          BY ZenonT(40), <2>9, <3>2, <4>2, <4>3, PrefixByPlace
      <3>4. QED
        BY <3>3 DEF a, b
    <2>13. QED
      BY <2>11, <2>12
  <1>2. QED
    <2> DEFINE Later(f) ==
          /\ f.kind = "up" /\ Runtime'.ok /\ OneWidth(dir')
          /\ \A s \in Ups(dir) : LexLess(Version(s), Version(f.stem))
          => /\ IsPrefix(NamesOf(Runtime.migrations), NamesOf(Runtime'.migrations))
             /\ IsPrefix(collect_migration_files(dir), collect_migration_files(dir'))
    <2>1. TypeOK /\ TypeOK' /\ [Next]_dir => [\A f \in dir' \ dir : Later(f)]_dir
      BY <1>1
    <2>2. QED
      BY <2>1, Typing, PTL DEF Spec, AppendsLater
=============================================================================
