-------------------------- MODULE QueriesTheorems --------------------------
(***************************************************************************)
(* The invariant of the query analyzer, proved for all relations, GROUP BY *)
(* clauses and VALUES lists, and what follows: the reports hold.           *)
(***************************************************************************)
EXTENDS QueriesProofs

-----------------------------------------------------------------------------
(* The FROM items and their aliases.                                        *)

\* The aliases taken are the first ones.
AliasesTaken ==
    \E k \in 0..Len(Aliases) : TakenBy(items) \ {""} = {Aliases[i] : i \in 1..k}

HiddenTaken == \A k \in hidden : k[1] \in TakenBy(items) \cup {""}

LEMMA AliasList ==
    /\ Len(Aliases) \in Nat /\ DOMAIN Aliases = 1..Len(Aliases)
    /\ \A i \in DOMAIN Aliases : Aliases[i] \in Text /\ Aliases[i] # ""
    /\ \A i, j \in DOMAIN Aliases : Aliases[i] = Aliases[j] => i = j
<1> DEFINE A == STRING \ {""}
<1>1. Aliases \in Seq(A)
  BY AliasesAssumption
<1>2. A \subseteq Text /\ "" \notin A
  BY DEF Text
<1> HIDE DEF A
<1>3. /\ Len(Aliases) \in Nat /\ DOMAIN Aliases = 1..Len(Aliases)
      /\ \A i \in DOMAIN Aliases : Aliases[i] \in A
  BY <1>1
<1>4. \A i, j \in DOMAIN Aliases : Aliases[i] = Aliases[j] => i = j
  BY AliasesAssumption DEF IsInjective
<1>5. QED
  BY <1>2, <1>3, <1>4

LEMMA SeqTyped ==
    ASSUME NEW A, NEW s \in Seq(A)
    PROVE  Len(s) \in Nat /\ DOMAIN s = 1..Len(s) /\ \A i \in DOMAIN s : s[i] \in A
OBVIOUS

LEMMA FunctionSeq ==
    ASSUME NEW A, NEW n \in Nat, NEW f \in [1..n -> A]
    PROVE  f \in Seq(A) /\ DOMAIN f = 1..n /\ Len(f) = n
OBVIOUS

LEMMA SeqOfOthers ==
    ASSUME NEW A, NEW B, NEW s \in Seq(A), \A i \in DOMAIN s : s[i] \in B
    PROVE  s \in Seq(B)
<1>1. s \in [1..Len(s) -> B] /\ Len(s) \in Nat
  OBVIOUS
<1>2. QED
  BY <1>1

FirstOf(k) == {Aliases[i] : i \in 1..k}

LEMMA FirstAliases ==
    ASSUME NEW k \in 0..Len(Aliases)
    PROVE  Cardinality(FirstOf(k)) = k
<1> DEFINE S == FirstOf(k)
           f == [i \in 1..k |-> Aliases[i]]
<1>0. Len(Aliases) \in Nat /\ DOMAIN Aliases = 1..Len(Aliases)
  BY AliasList
<1>1. k \in Nat /\ 1..k \subseteq DOMAIN Aliases
  BY <1>0
<1>2. f \in [1..k -> S]
  BY DEF FirstOf
<1>3. \A i, j \in 1..k : f[i] = f[j] => i = j
  BY <1>1, AliasList
<1>4. \A s \in S : \E i \in 1..k : f[i] = s
  BY DEF FirstOf
<1> HIDE DEF f, S
<1>5. f \in Bijection(1..k, S)
  BY <1>2, <1>3, <1>4 DEF Bijection, Injection, Surjection, IsInjective
<1>6. ExistsBijection(1..k, S)
  BY <1>5 DEF ExistsBijection
<1>7. Cardinality(S) = k
  BY <1>1, <1>6, FS_CountingElements
<1>8. QED
  BY <1>7 DEF S

\* The next alias is not taken.
LEMMA NextFree ==
    ASSUME AliasesTaken
    PROVE  /\ Used \in 0..Len(Aliases) /\ Len(Aliases) \in Nat
           /\ TakenBy(items) \ {""} = FirstOf(Used)
           /\ Used < Len(Aliases) =>
                 /\ NextAlias \in Text /\ NextAlias # "" /\ NextAlias \notin TakenBy(items)
                 /\ (TakenBy(items) \cup {NextAlias}) \ {""} = FirstOf(Used + 1)
<1> DEFINE T == TakenBy(items)
<1>1. PICK k \in 0..Len(Aliases) : T \ {""} = FirstOf(k)
  BY DEF AliasesTaken, FirstOf
<1>2. Used = k
  <2>1. Used = Cardinality(T \ {""})
    BY Zenon DEF Used, TakenBy
  <2> HIDE DEF T
  <2>2. QED
    BY <1>1, <2>1, FirstAliases
<1> HIDE DEF T
<1>3. Len(Aliases) \in Nat /\ DOMAIN Aliases = 1..Len(Aliases)
  BY AliasList
<1>3a. k \in Nat
  OBVIOUS
<1>4. ASSUME k < Len(Aliases)
      PROVE  /\ Aliases[k + 1] \in Text /\ Aliases[k + 1] # "" /\ Aliases[k + 1] \notin T
             /\ (T \cup {Aliases[k + 1]}) \ {""} = FirstOf(k + 1)
  <2> DEFINE a == Aliases[k + 1]
  <2>1. k + 1 \in DOMAIN Aliases /\ \A i \in 1..k : i \in DOMAIN Aliases /\ i # k + 1
    BY <1>3, <1>3a, <1>4
  <2>2. a \in Text /\ a # ""
    BY <2>1, AliasList
  <2>3. \A i \in 1..k : Aliases[i] # a
    BY <2>1, AliasList
  <2>4. \A i : i \in 1..(k + 1) <=> i \in 1..k \/ i = k + 1
    BY <1>3a
  <2>5. FirstOf(k + 1) = FirstOf(k) \cup {a}
    BY <2>4 DEF FirstOf
  <2>6. a \notin FirstOf(k)
    BY <2>3 DEF FirstOf
  <2> HIDE DEF a
  <2>7. a \notin T /\ (T \cup {a}) \ {""} = FirstOf(k + 1)
    BY <1>1, <2>2, <2>5, <2>6
  <2>8. QED
    BY <2>2, <2>7 DEF a
<1>5. QED
  BY <1>1, <1>2, <1>3, <1>3a, <1>4 DEF NextAlias, T

LEMMA OneMore ==
    ASSUME NEW n \in Nat, NEW u \in 0..n, u < n
    PROVE  u + 1 \in 0..n
OBVIOUS

LEMMA AliasesKept ==
    ASSUME AliasesTaken, NEW extra,
           extra = {} \/ (extra = {NextAlias} /\ Used < Len(Aliases)),
           TakenBy(items') \ {""} = (TakenBy(items) \cup extra) \ {""}
    PROVE  AliasesTaken' /\ TakenBy(items) \subseteq TakenBy(items') \cup {""}
<1> DEFINE T == TakenBy(items)
           U == TakenBy(items')
<1>1. \E k \in 0..Len(Aliases) : (T \cup extra) \ {""} = FirstOf(k)
  <2>1. CASE extra = {}
    BY <2>1 DEF AliasesTaken, FirstOf
  <2>2. CASE extra = {NextAlias} /\ Used < Len(Aliases)
    <3>1. Used \in 0..Len(Aliases) /\ Len(Aliases) \in Nat /\ (T \cup {NextAlias}) \ {""} = FirstOf(Used + 1)
      BY <2>2, NextFree
    <3>2. Used + 1 \in 0..Len(Aliases)
      BY <2>2, <3>1, OneMore
    <3>3. QED
      BY <2>2, <3>1, <3>2
  <2>3. QED
    BY <2>1, <2>2
<1>2. AliasesTaken'
  BY <1>1 DEF AliasesTaken, FirstOf
<1> HIDE DEF T, U
<1>3. T \subseteq U \cup {""}
  BY DEF T, U
<1>4. QED
  BY <1>2, <1>3 DEF T, U

\* A sequence cut off, with one more at its end.
CutAnd(s, n, x) == Append(SubSeq(s, 1, n), x)

IsCut(c, s, n, x) ==
    /\ \A i : i \in DOMAIN c <=> i \in 1..n \/ i = n + 1
    /\ c[n + 1] = x /\ n + 1 \notin 1..n
    /\ \A i \in 1..n : c[i] = s[i]
    /\ \A i : i \in DOMAIN s <=> i \in 1..n \/ i \in (n + 1)..Len(s)
    /\ \A i \in 1..n : i \notin (n + 1)..Len(s)

LEMMA CutTyped ==
    ASSUME NEW S, NEW s \in Seq(S), NEW n \in Nat, n <= Len(s), NEW x \in S
    PROVE  CutAnd(s, n, x) \in Seq(S) /\ IsCut(CutAnd(s, n, x), s, n, x)
<1> DEFINE c == SubSeq(s, 1, n)
<1>1. Len(s) \in Nat /\ n \in Nat /\ n <= Len(s) /\ DOMAIN s = 1..Len(s)
  OBVIOUS
<1>2. \A i \in 1..n : s[i] \in S
  BY <1>1
<1>3. c \in Seq(S) /\ Len(c) = n /\ \A i \in 1..n : c[i] = s[i]
  <2>1. c = [i \in 1..n |-> s[i]]
    BY <1>1, SubSeqProperties
  <2>2. [i \in 1..n |-> s[i]] \in Seq(S)
    BY <1>1, <1>2, IsASeq
  <2>3. Len([i \in 1..n |-> s[i]]) = n
    BY <1>1
  <2>4. QED
    BY <2>1, <2>2, <2>3
<1> HIDE DEF c
<1>4. /\ Append(c, x) \in Seq(S) /\ DOMAIN Append(c, x) = 1..(n + 1)
      /\ Append(c, x)[n + 1] = x /\ \A i \in 1..n : Append(c, x)[i] = c[i]
  BY <1>1, <1>3
<1>5. /\ \A i : i \in 1..(n + 1) <=> i \in 1..n \/ i = n + 1
      /\ n + 1 \notin 1..n
      /\ \A i : i \in 1..Len(s) <=> i \in 1..n \/ i \in (n + 1)..Len(s)
      /\ \A i \in 1..n : i \notin (n + 1)..Len(s)
  BY <1>1
<1>6. QED
  BY <1>1, <1>3, <1>4, <1>5 DEF CutAnd, IsCut, c

AliasesOf(its, places) == UNION {collect_aliases(its[i]) : i \in places}

\* The items from n + 1 on are replaced by one, which may add some aliases.
LEMMA ItemsReplaced ==
    ASSUME NEW its, Separate(its), NEW n \in Nat, n <= Len(its), NEW x, ItemOk(x), NEW extra,
           collect_aliases(x) \ {""} = (AliasesOf(its, (n + 1)..Len(its)) \cup extra) \ {""},
           extra \cap TakenBy(its) \subseteq {""}
    PROVE  LET new == CutAnd(its, n, x)
           IN  /\ Separate(new)
               /\ \A i \in DOMAIN new : (i \in DOMAIN its /\ new[i] = its[i]) \/ new[i] = x
               /\ TakenBy(new) \ {""} = (TakenBy(its) \cup extra) \ {""}
               /\ \A i \in DOMAIN new : new[i] # x => i \in 1..n /\ new[i] = its[i]
<1> DEFINE new == CutAnd(its, n, x)
           late == (n + 1)..Len(its)
           early == 1..n
           m == n + 1
<1>1. its \in Seq(Item) /\ x \in Item
  BY DEF Separate, ItemOk
<1>2. /\ new \in Seq(Item)
      /\ \A i : i \in DOMAIN new <=> i \in early \/ i = m
      /\ new[m] = x /\ m \notin early
      /\ \A i \in early : new[i] = its[i]
      /\ \A i : i \in DOMAIN its <=> i \in early \/ i \in late
      /\ \A i \in early : i \notin late
  <2>1. n \in Nat /\ n <= Len(its)
    OBVIOUS
  <2>2. CutAnd(its, n, x) \in Seq(Item) /\ IsCut(CutAnd(its, n, x), its, n, x)
    BY <1>1, <2>1, CutTyped
  <2>3. QED
    BY <2>2 DEF new, late, early, m, IsCut
<1>2a. collect_aliases(x) \ {""} = (AliasesOf(its, late) \cup extra) \ {""}
  OBVIOUS
<1> HIDE DEF new, late, early, m
<1>3. /\ \A i \in DOMAIN its : ItemOk(its[i])
      /\ \A i, j \in DOMAIN its : i # j => Apart(its[i], its[j])
  BY DEF Separate
<1>4. \A i \in DOMAIN new : ItemOk(new[i])
  BY <1>2, <1>3
<1>5. ASSUME NEW i \in early, NEW a \in collect_aliases(its[i]), a \in collect_aliases(x), a # ""
      PROVE  FALSE
  <2>1. a \in AliasesOf(its, late) \/ a \in extra
    BY <1>2a, <1>5
  <2>2. CASE a \in extra
    BY <1>2, <1>5, <2>2 DEF TakenBy
  <2>3. ASSUME NEW j \in late, a \in collect_aliases(its[j]) PROVE FALSE
    <3>1. j \in DOMAIN its /\ i \in DOMAIN its /\ i # j
      BY <1>2
    <3>2. Apart(its[i], its[j])
      BY <1>3, <3>1
    <3>3. QED
      BY <1>5, <2>3, <3>2 DEF Apart
  <2>4. QED
    BY <2>1, <2>2, <2>3 DEF AliasesOf
<1>6. \A i \in early : Apart(its[i], x) /\ Apart(x, its[i])
  BY <1>5 DEF Apart
<1>7. \A i, j \in DOMAIN new : i # j => Apart(new[i], new[j])
  BY <1>2, <1>3, <1>6
<1>8. TakenBy(new) = AliasesOf(its, early) \cup collect_aliases(x)
  <2>1. ASSUME NEW a PROVE a \in TakenBy(new) <=> \E i \in DOMAIN new : a \in collect_aliases(new[i])
    BY DEF TakenBy
  <2>2. ASSUME NEW a PROVE a \in AliasesOf(its, early) <=> \E i \in early : a \in collect_aliases(its[i])
    BY DEF AliasesOf
  <2>3. ASSUME NEW a PROVE a \in TakenBy(new) <=> a \in AliasesOf(its, early) \cup collect_aliases(x)
    BY <1>2, <2>1, <2>2
  <2>4. QED
    BY <2>3
<1>9. TakenBy(its) = AliasesOf(its, early) \cup AliasesOf(its, late)
  <2>1. ASSUME NEW a PROVE a \in TakenBy(its) <=> \E i \in DOMAIN its : a \in collect_aliases(its[i])
    BY DEF TakenBy
  <2>2. ASSUME NEW a, NEW P PROVE a \in AliasesOf(its, P) <=> \E i \in P : a \in collect_aliases(its[i])
    BY DEF AliasesOf
  <2>3. ASSUME NEW a PROVE a \in TakenBy(its) <=> a \in AliasesOf(its, early) \cup AliasesOf(its, late)
    BY <1>2, <2>1, <2>2
  <2>4. QED
    BY <2>3
<1>10. TakenBy(new) \ {""} = (TakenBy(its) \cup extra) \ {""}
  BY <1>2a, <1>8, <1>9
<1>11. Separate(new)
  BY <1>2, <1>4, <1>7 DEF Separate
<1>12. /\ \A i \in DOMAIN new : (i \in DOMAIN its /\ new[i] = its[i]) \/ new[i] = x
       /\ \A i \in DOMAIN new : new[i] # x => i \in early /\ new[i] = its[i]
  BY <1>2
<1>13. QED
  BY <1>10, <1>11, <1>12 DEF new, early

-----------------------------------------------------------------------------
(* The inductive invariant.                                                 *)

ScopeOk == ItemsOk /\ AliasesTaken /\ HiddenTaken

\* As long as no report is known to be wrong, NOT NULL holds in every row.
NullsHold == gaps = {} => \A i \in DOMAIN items : NullsOk(items[i], marked)

StarGaps == {"using_chain", "same_name"}

StarsHold ==
    gaps \cap StarGaps = {} =>
        /\ \A i \in DOMAIN items : StarOk(items[i], hidden)
        /\ \A k \in hidden : k[1] # ""

\* The GROUP BY clause is one of those tried, and its columns resolve.
GroupOk ==
    group # <<>> =>
        /\ group \in Clauses /\ items # <<>>
        /\ \A e \in AllLeaves : \A j \in DOMAIN e.parts : resolve_column(From.sources, e.parts[j]) # {}

Reported == [name : Text, nullable : BOOLEAN]
Result == [cols : Seq(Reported), rows : SUBSET Values, one : BOOLEAN, cut : BOOLEAN]

ResultOk(q) ==
    /\ q \in Result /\ q.cols # <<>>
    /\ \A r \in q.rows : DOMAIN r = DOMAIN q.cols
    /\ q.one /\ ~q.cut => q.rows # {}

ResultsOk == results \in Seq(Result) /\ \A k \in DOMAIN results : ResultOk(results[k])

IInv == ScopeOk /\ NullsHold /\ StarsHold /\ GroupOk /\ ResultsOk /\ ResultsHold

LEMMA MoreHidden ==
    ASSUME NEW it, NEW H, StarOk(it, H), NEW J, \A k \in J : k[1] \notin collect_aliases(it)
    PROVE  StarOk(it, H \cup J)
<1>1. \A p \in Positions(it.sources) : Key(it.sources, p) \notin J
  <2>1. ASSUME NEW p \in Positions(it.sources) PROVE Key(it.sources, p)[1] \in collect_aliases(it)
    <3>1. PICK s \in DOMAIN it.sources : \E c \in DOMAIN it.sources[s].cols : p = <<s, c>>
      BY DEF Positions
    <3>2. p[1] = s
      BY <3>1
    <3>3. QED
      BY <3>1, <3>2 DEF Key, collect_aliases
  <2>2. QED
    BY <2>1
<1>2. QED
  BY <1>1 DEF StarOk, StarShown

LEMMA CutPlaces ==
    ASSUME NEW m \in Nat, NEW n \in Nat, n <= m
    PROVE  /\ \A i \in (n + 1)..m : i \in 1..m
           /\ \A i \in 1..n : i \in 1..m /\ i \notin (n + 1)..m
OBVIOUS

\* The first column of a name is there.
LEMMA MergedAwayTaken ==
    ASSUME NEW l, NEW r, ItemOk(l), ItemOk(r), NEW names
    PROVE  \A k \in MergedAway(l, r, names) : k[1] \in collect_aliases(l) \cup collect_aliases(r)
<1>1. ASSUME NEW it, NEW n, NEW p \in find_col(it.sources, n)
      PROVE  Key(it.sources, p)[1] \in collect_aliases(it)
  <2>1. p \in Positions(it.sources)
    BY <1>1 DEF find_col
  <2>2. PICK s \in DOMAIN it.sources : \E c \in DOMAIN it.sources[s].cols : p = <<s, c>>
    BY <2>1 DEF Positions
  <2>3. p[1] = s
    BY <2>2
  <2>4. QED
    BY <2>2, <2>3 DEF Key, collect_aliases
<1>2. ASSUME NEW it, NEW k, NEW n, k \in {Key(it.sources, p) : p \in find_col(it.sources, n)}
      PROVE  k[1] \in collect_aliases(it)
  BY <1>1, <1>2
<1>3. QED
  BY <1>2 DEF MergedAway

\* What becomes of the scope when the items from n + 1 on are replaced.
LEMMA ItemStep ==
    ASSUME ScopeOk, NullsHold, StarsHold,
           NEW n \in Nat, n <= Len(items), NEW x, ItemOk(x), NEW extra,
           extra = {} \/ (extra = {NextAlias} /\ Used < Len(Aliases)),
           collect_aliases(x) \ {""} = (AliasesOf(items, (n + 1)..Len(items)) \cup extra) \ {""},
           items' = CutAnd(items, n, x),
           NEW J, \A k \in J : k[1] \in AliasesOf(items, (n + 1)..Len(items)),
           hidden' = hidden \cup J, marked \subseteq marked', gaps \subseteq gaps',
           gaps' = {} => NullsOk(x, marked'),
           gaps' \cap StarGaps = {} => StarOk(x, hidden') /\ \A k \in J : k[1] # ""
    PROVE  ScopeOk' /\ NullsHold' /\ StarsHold'
<1> DEFINE late == (n + 1)..Len(items)
<1>1. Separate(items) /\ AliasesTaken /\ HiddenTaken
  BY DEF ScopeOk, ItemsOk
<1>2. Used < Len(Aliases) => NextAlias \notin TakenBy(items)
  BY <1>1, NextFree
<1>3. extra \cap TakenBy(items) \subseteq {""}
  BY <1>2
<1>4. /\ Separate(items')
      /\ \A i \in DOMAIN items' : (i \in DOMAIN items /\ items'[i] = items[i]) \/ items'[i] = x
      /\ TakenBy(items') \ {""} = (TakenBy(items) \cup extra) \ {""}
      /\ \A i \in DOMAIN items' : items'[i] # x => i \in 1..n /\ items'[i] = items[i]
  <2> DEFINE new == CutAnd(items, n, x)
  <2>1. /\ Separate(new)
        /\ \A i \in DOMAIN new : (i \in DOMAIN items /\ new[i] = items[i]) \/ new[i] = x
        /\ TakenBy(new) \ {""} = (TakenBy(items) \cup extra) \ {""}
        /\ \A i \in DOMAIN new : new[i] # x => i \in 1..n /\ new[i] = items[i]
    <3>1. /\ Separate(items) /\ n <= Len(items) /\ ItemOk(x) /\ n \in Nat
          /\ collect_aliases(x) \ {""} = (AliasesOf(items, (n + 1)..Len(items)) \cup extra) \ {""}
      BY <1>1
    <3>2. QED
      BY ONLY <1>3, <3>1, ItemsReplaced
  <2>2. items' = new
    OBVIOUS
  <2> HIDE DEF new
  <2>3. QED
    BY <2>1, <2>2
<1>5. AliasesTaken' /\ TakenBy(items) \subseteq TakenBy(items') \cup {""}
  BY <1>1, <1>4, AliasesKept
<1>6. /\ \A i \in late : i \in DOMAIN items
      /\ \A i \in 1..n : i \in DOMAIN items /\ i \notin late
  <2>1. Len(items) \in Nat /\ DOMAIN items = 1..Len(items)
    BY <1>1, ScopeSteps DEF ItemsOk
  <2>2. n \in Nat /\ n <= Len(items)
    OBVIOUS
  <2>3. QED
    BY <2>1, <2>2, CutPlaces
<1> HIDE DEF late
<1>7. \A k \in J : k[1] \in AliasesOf(items, late)
  BY DEF late
<1>8. HiddenTaken'
  <2>1. AliasesOf(items, late) \subseteq TakenBy(items)
    BY <1>6 DEF AliasesOf, TakenBy
  <2>2. \A k \in hidden' : k[1] \in TakenBy(items) \cup {""}
    BY <1>1, <1>7, <2>1 DEF HiddenTaken
  <2>3. QED
    BY <1>5, <2>2 DEF HiddenTaken
<1>9. ScopeOk'
  BY <1>4, <1>5, <1>8 DEF ScopeOk, ItemsOk
<1>10. NullsHold'
  <2>1. SUFFICES ASSUME gaps' = {}, NEW i \in DOMAIN items' PROVE NullsOk(items'[i], marked')
    BY DEF NullsHold
  <2>2. CASE items'[i] = x
    BY <2>1, <2>2
  <2>3. CASE i \in DOMAIN items /\ items'[i] = items[i]
    <3>1. NullsOk(items[i], marked)
      BY <2>1, <2>3 DEF NullsHold
    <3>2. QED
      BY <2>3, <3>1, MoreMarked
  <2>4. QED
    BY <1>4, <2>2, <2>3
<1>11. StarsHold'
  <2>1. SUFFICES ASSUME gaps' \cap StarGaps = {}
                 PROVE  /\ \A i \in DOMAIN items' : StarOk(items'[i], hidden')
                        /\ \A k \in hidden' : k[1] # ""
    BY DEF StarsHold
  <2>2. /\ \A i \in DOMAIN items : StarOk(items[i], hidden)
        /\ \A k \in hidden : k[1] # ""
    BY <2>1 DEF StarsHold
  <2>3. StarOk(x, hidden') /\ \A k \in J : k[1] # ""
    BY <2>1
  <2>4. ASSUME NEW i \in DOMAIN items', items'[i] # x PROVE StarOk(items'[i], hidden')
    <3>1. i \in 1..n /\ items'[i] = items[i] /\ i \in DOMAIN items /\ i \notin late
      BY <1>4, <1>6, <2>4
    <3>2. ASSUME NEW k \in J PROVE k[1] \notin collect_aliases(items[i])
      <4>1. PICK j \in late : k[1] \in collect_aliases(items[j])
        BY <1>7 DEF AliasesOf
      <4>2. j \in DOMAIN items /\ i # j
        BY <1>6, <3>1
      <4>3. Apart(items[i], items[j])
        BY <1>1, <3>1, <4>2 DEF Separate
      <4>4. QED
        BY <2>3, <4>1, <4>3 DEF Apart
    <3>3. StarOk(items[i], hidden \cup J)
      BY <2>2, <3>1, <3>2, MoreHidden
    <3>4. QED
      BY <3>1, <3>3
  <2>5. QED
    BY <2>2, <2>3, <2>4
<1>12. QED
  BY <1>9, <1>10, <1>11

-----------------------------------------------------------------------------
(* New FROM items.                                                          *)

\* Rows that fit a source and its key.
SourceFits(src, rows) ==
    /\ src \in Source /\ rows \subseteq Values
    /\ \A r \in rows : DOMAIN r = DOMAIN src.cols
    /\ src.key # {} =>
           /\ KeyNamed(src)
           /\ \A r \in rows : \A c \in KeyPlaces(src) : r[c] # Null
           /\ \A r, x \in rows : (\A c \in KeyPlaces(src) : x[c] = r[c]) => x = r

\* What PushOk needs to know of the number of aliases.
LEMMA RoomLeft ==
    ASSUME AliasesTaken, Room, Len(results) \in Nat
    PROVE  Used < Len(Aliases)
<1>1. Used \in 0..Len(Aliases) /\ Len(Aliases) \in Nat
  BY NextFree
<1>2. Used + Len(results) < Len(Aliases)
  BY DEF Room
<1>3. \A u, k, n \in Nat : u + k < n => u < n
  OBVIOUS
<1>4. QED
  BY <1>1, <1>2, <1>3

\* The next alias belongs to no merged column.
LEMMA NextUnhidden ==
    ASSUME AliasesTaken, HiddenTaken, Used < Len(Aliases)
    PROVE  \A k \in hidden : k[1] # NextAlias
BY NextFree DEF HiddenTaken

\* Every item is kept, and one more pushed.
LEMMA PushStep ==
    ASSUME ScopeOk, NullsHold, StarsHold, NEW x, ItemOk(x), Used < Len(Aliases),
           collect_aliases(x) = {NextAlias},
           items' = Append(items, x), UNCHANGED <<hidden, marked>>, gaps \subseteq gaps',
           gaps' = {} => NullsOk(x, marked),
           gaps' \cap StarGaps = {} => StarOk(x, hidden)
    PROVE  ScopeOk' /\ NullsHold' /\ StarsHold'
<1> DEFINE n == Len(items)
           extra == {NextAlias}
           J == {}
<1>1. n \in Nat /\ n <= Len(items) /\ items \in Seq(Item)
  BY ScopeSteps DEF ScopeOk, ItemsOk, Separate
<1>2. (n + 1)..Len(items) = {} /\ SubSeq(items, 1, n) = items
  <2>1. (n + 1)..n = {}
    BY <1>1
  <2>2. SubSeq(items, 1, Len(items)) = items
    BY <1>1, SubSeqFull
  <2>3. QED
    BY <2>1, <2>2
<1>3. items' = CutAnd(items, n, x)
  BY <1>2 DEF CutAnd
<1>4. AliasesOf(items, (n + 1)..Len(items)) = {}
  BY <1>2 DEF AliasesOf
<1>5. collect_aliases(x) \ {""} = (AliasesOf(items, (n + 1)..Len(items)) \cup extra) \ {""}
  BY <1>4
<1>6. /\ \A k \in J : k[1] \in AliasesOf(items, (n + 1)..Len(items))
      /\ hidden' = hidden \cup J /\ marked \subseteq marked' /\ marked' = marked /\ hidden' = hidden
      /\ \A k \in J : k[1] # ""
      /\ extra = {NextAlias} /\ Used < Len(Aliases)
  OBVIOUS
<1> HIDE DEF n, extra, J
<1>7. QED
  BY <1>1, <1>3, <1>5, <1>6, ItemStep

\* What Push adds, from the columns, the key and the rows of a relation.
Pushed(cols, key) == [alias |-> NextAlias, cols |-> cols, key |-> key]

LEMMA ResultsLen ==
    ASSUME ResultsOk
    PROVE  Len(results) \in Nat /\ DOMAIN results = 1..Len(results)
<1>1. results \in Seq(Result)
  BY DEF ResultsOk
<1>2. QED
  BY <1>1, SeqTyped

LEMMA PushOk ==
    ASSUME ScopeOk, NullsHold, StarsHold, ResultsOk,
           NEW cols, NEW key, NEW rows, Push(cols, key, rows),
           (NextAlias \in Text /\ NextAlias # "") => SourceFits(Pushed(cols, key), rows),
           UNCHANGED <<hidden, marked>>, gaps \subseteq gaps',
           gaps' = {} => \A r \in rows : \A c \in DOMAIN cols : cols[c].notnull => r[c] # Null,
           gaps' \cap StarGaps = {} => NamesApart(Pushed(cols, key))
    PROVE  ScopeOk' /\ NullsHold' /\ StarsHold'
<1> DEFINE src == Pushed(cols, key)
           x == Leaf(src, rows)
<1>1. Len(results) \in Nat
  BY ResultsLen
<1>2. Room /\ items' = Append(items, x)
  BY DEF Push, RoomForItem, Pushed
<1>3. AliasesTaken /\ HiddenTaken
  BY DEF ScopeOk
<1>4. Used < Len(Aliases)
  BY <1>1, <1>2, <1>3, RoomLeft
<1>5. NextAlias \in Text /\ NextAlias # ""
  BY <1>3, <1>4, NextFree
<1>6. SourceFits(src, rows)
  BY <1>5
<1>7. src.alias = NextAlias /\ src.cols = cols
  BY DEF Pushed
<1>8. gaps' \cap StarGaps = {} => NamesApart(src)
  OBVIOUS
<1> HIDE DEF src
<1>9. /\ ItemOk(x) /\ collect_aliases(x) = {src.alias}
      /\ \A M : (\A r \in rows : \A c \in DOMAIN src.cols :
                    src.cols[c].notnull /\ src.alias \notin M => r[c] # Null)
                => NullsOk(x, M)
      /\ \A H : NamesApart(src) /\ (\A k \in H : k[1] # src.alias) => StarOk(x, H)
  BY <1>6, LeafOk DEF SourceFits
<1> HIDE DEF x
<1>10. gaps' = {} => NullsOk(x, marked)
  BY <1>7, <1>9
<1>11. gaps' \cap StarGaps = {} => StarOk(x, hidden)
  BY <1>3, <1>4, <1>7, <1>8, <1>9, NextUnhidden
<1>12. QED
  BY <1>2, <1>4, <1>7, <1>9, <1>10, <1>11, PushStep

\* The rows of a relation obey its declarations.
LEMMA TableFits ==
    ASSUME NEW t \in Tables, NextAlias \in Text, NextAlias # ""
    PROVE  /\ SourceFits(Pushed(t.cols, t.key), t.rows)
           /\ NamesApart(Pushed(t.cols, t.key))
           /\ \A r \in t.rows : \A c \in DOMAIN t.cols : t.cols[c].notnull => r[c] # Null
<1> DEFINE cols == t.cols
           src == Pushed(t.cols, t.key)
           keys == {i \in DOMAIN t.cols : t.cols[i].name \in t.key}
           rows == t.rows
           C == [name : STRING, notnull : BOOLEAN]
<1>1. /\ cols \in Seq(C)
      /\ \A i, j \in DOMAIN cols : cols[i].name = cols[j].name => i = j
      /\ rows \subseteq [DOMAIN cols -> Nat]
      /\ \A r \in rows : \A i \in DOMAIN cols : cols[i].notnull => r[i] # Null
      /\ t.key = {cols[i].name : i \in keys}
      /\ \A i \in keys : cols[i].notnull
      /\ keys # {} => \A r, s \in rows : (\A i \in keys : r[i] = s[i]) => r = s
  BY TablesAssumption
<1>2. src.alias = NextAlias /\ src.cols = cols /\ src.key = t.key
      /\ src = [alias |-> NextAlias, cols |-> cols, key |-> t.key]
  BY DEF Pushed
<1>3. \A i \in keys : i \in DOMAIN cols /\ cols[i].name \in t.key
  OBVIOUS
<1>4. KeyPlaces(src) = keys
  BY <1>2 DEF KeyPlaces
<1>5. \A c \in C : c \in Column /\ c.name \in Text
  BY DEF Column, Text
<1> HIDE DEF C, src, keys, cols, rows
<1>6. Len(cols) \in Nat /\ DOMAIN cols = 1..Len(cols) /\ \A i \in DOMAIN cols : cols[i] \in C
  BY <1>1, SeqTyped
<1>7. cols \in Seq(Column)
  BY <1>1, <1>5, <1>6, SeqOfOthers
<1>8. src \in Source
  <2>1. t.key \subseteq Text
    <3>1. \A i \in keys : cols[i].name \in Text
      BY <1>3, <1>5, <1>6
    <3>2. QED
      BY <1>1, <3>1
  <2>2. QED
    BY <1>2, <1>7, <2>1 DEF Source
<1>9. rows \subseteq Values /\ \A r \in rows : DOMAIN r = DOMAIN src.cols
  <2>1. ASSUME NEW r \in rows PROVE r \in Seq(Nat) /\ DOMAIN r = DOMAIN cols
    <3>1. r \in [1..Len(cols) -> Nat]
      BY <1>1, <1>6
    <3>2. QED
      BY <1>6, <3>1, FunctionSeq
  <2>2. QED
    BY <1>2, <2>1 DEF Values
<1>10. NamesApart(src)
  BY <1>1, <1>2 DEF NamesApart
<1>10a. \A n \in t.key : \E i \in keys : cols[i].name = n
  BY <1>1
<1>11. src.key # {} => KeyNamed(src)
  <2>1. \A n \in src.key : \E c \in DOMAIN src.cols : src.cols[c].name = n
    BY <1>2, <1>3, <1>10a
  <2>2. QED
    BY <1>2, <1>10, <2>1 DEF KeyNamed
<1>12. /\ \A r \in rows : \A c \in KeyPlaces(src) : r[c] # Null
       /\ src.key # {} => \A r, x \in rows : (\A c \in KeyPlaces(src) : x[c] = r[c]) => x = r
  <2>1. src.key # {} => keys # {}
    BY <1>2, <1>10a
  <2>2. QED
    BY <1>1, <1>3, <1>4, <2>1
<1>13. SourceFits(src, rows)
  BY <1>8, <1>9, <1>11, <1>12 DEF SourceFits
<1>14. QED
  BY <1>1, <1>10, <1>13 DEF src, cols, rows

\* What a finished query says of itself.
Truthful(q) ==
    \A i \in DOMAIN q.cols : ~q.cols[i].nullable => \A r \in q.rows : r[i] # Null

ScopeStays == ScopeOk' /\ NullsHold' /\ StarsHold'

LEMMA TableStep ==
    ASSUME IInv, NEW t \in Tables, Push(t.cols, t.key, t.rows), UNCHANGED <<hidden, marked, gaps>>
    PROVE  ScopeStays
<1> DEFINE cols == t.cols
           key  == t.key
           rows == t.rows
<1>1. Push(cols, key, rows) /\ ScopeOk /\ NullsHold /\ StarsHold /\ ResultsOk
  BY DEF IInv
<1>2. NextAlias \in Text /\ NextAlias # ""
  <2>1. AliasesTaken /\ Used < Len(Aliases)
    BY <1>1, RoomLeft, ResultsLen DEF ScopeOk, Push, RoomForItem
  <2>2. QED
    BY <2>1, NextFree
<1>3. /\ SourceFits(Pushed(cols, key), rows)
      /\ \A r \in rows : \A c \in DOMAIN cols : cols[c].notnull => r[c] # Null
      /\ NamesApart(Pushed(cols, key))
  BY <1>2, TableFits
<1> HIDE DEF cols, key, rows
<1>4. QED
  BY <1>1, <1>3, PushOk DEF ScopeStays

\* A subquery shows what was reported of it.
VirtualCols(q) ==
    [i \in DOMAIN q.cols |-> [name |-> q.cols[i].name, notnull |-> ~q.cols[i].nullable]]

LEMMA SourceMade ==
    ASSUME NEW a \in Text, NEW c \in Seq(Column), NEW k \in SUBSET Text
    PROVE  LET s == [alias |-> a, cols |-> c, key |-> k]
           IN  s \in Source /\ s.alias = a /\ s.cols = c /\ s.key = k
BY DEF Source

LEMMA VirtualFits ==
    ASSUME NEW q, ResultOk(q), NextAlias \in Text, NextAlias # ""
    PROVE  /\ SourceFits(Pushed(VirtualCols(q), {}), q.rows)
           /\ Truthful(q) => \A r \in q.rows : \A c \in DOMAIN VirtualCols(q) :
                                VirtualCols(q)[c].notnull => r[c] # Null
           /\ IsInjective(ColumnNames(q)) => NamesApart(Pushed(VirtualCols(q), {}))
<1> DEFINE cols == VirtualCols(q)
           src == Pushed(cols, {})
<1>1. q \in Result /\ \A r \in q.rows : DOMAIN r = DOMAIN q.cols
  BY DEF ResultOk
<1>2. q.cols \in Seq(Reported) /\ q.rows \subseteq Values
  BY <1>1 DEF Result
<1>3. /\ Len(q.cols) \in Nat /\ DOMAIN q.cols = 1..Len(q.cols)
      /\ \A i \in DOMAIN q.cols : q.cols[i] \in Reported
  BY <1>2, SeqTyped
<1>4. /\ DOMAIN cols = DOMAIN q.cols
      /\ \A i \in DOMAIN q.cols : cols[i] = [name |-> q.cols[i].name, notnull |-> ~q.cols[i].nullable]
      /\ cols = [i \in DOMAIN q.cols |-> cols[i]]
  BY DEF VirtualCols
<1>5. src = [alias |-> NextAlias, cols |-> cols, key |-> {}]
  BY DEF Pushed
<1> HIDE DEF cols
<1>6. /\ \A i \in DOMAIN q.cols : cols[i] \in Column /\ cols[i].name = q.cols[i].name
      /\ \A i \in DOMAIN q.cols : cols[i].notnull = ~q.cols[i].nullable
  <2>1. ASSUME NEW i \in DOMAIN q.cols PROVE q.cols[i].name \in Text /\ q.cols[i].nullable \in BOOLEAN
    BY <1>3 DEF Reported
  <2>2. ASSUME NEW n \in Text, NEW b \in BOOLEAN
        PROVE  /\ [name |-> n, notnull |-> ~b] \in Column
               /\ [name |-> n, notnull |-> ~b].name = n /\ [name |-> n, notnull |-> ~b].notnull = ~b
    BY DEF Column
  <2>3. ASSUME NEW i \in DOMAIN q.cols
        PROVE  cols[i] \in Column /\ cols[i].name = q.cols[i].name /\ cols[i].notnull = ~q.cols[i].nullable
    <3> DEFINE n == q.cols[i].name
               b == q.cols[i].nullable
               c == [name |-> n, notnull |-> ~b]
    <3>1. n \in Text /\ b \in BOOLEAN /\ cols[i] = c
      BY <1>4, <2>1
    <3> HIDE DEF n, b
    <3>2. c \in Column /\ c.name = n /\ c.notnull = ~b
      BY ONLY <2>2, <3>1
    <3> HIDE DEF c
    <3>3. QED
      BY <3>1, <3>2 DEF n, b
  <2>4. QED
    BY <2>3
<1>7. cols \in Seq(Column)
  <2>1. cols \in [1..Len(q.cols) -> Column]
    BY <1>3, <1>4, <1>6
  <2>2. QED
    BY <1>3, <2>1, FunctionSeq
<1>8. src \in Source /\ src.cols = cols /\ src.key = {}
  <2>1. {} \in SUBSET Text
    OBVIOUS
  <2> DEFINE s == [alias |-> NextAlias, cols |-> cols, key |-> {}]
  <2>2. NextAlias \in Text
    OBVIOUS
  <2>3. s \in Source /\ s.alias = NextAlias /\ s.cols = cols /\ s.key = {}
    BY ONLY <1>7, <2>1, <2>2, SourceMade
  <2> HIDE DEF s
  <2>4. src = s
    BY <1>5 DEF s
  <2>5. QED
    BY <2>3, <2>4
<1> HIDE DEF src
<1>9. SourceFits(src, q.rows)
  BY <1>1, <1>2, <1>4, <1>8 DEF SourceFits
<1>10. Truthful(q) => \A r \in q.rows : \A c \in DOMAIN cols : cols[c].notnull => r[c] # Null
  BY <1>4, <1>6 DEF Truthful
<1>11. IsInjective(ColumnNames(q)) => NamesApart(src)
  <2>1. /\ DOMAIN ColumnNames(q) = DOMAIN q.cols
        /\ \A i \in DOMAIN q.cols : ColumnNames(q)[i] = cols[i].name
    BY <1>6 DEF ColumnNames
  <2>2. QED
    <3>1. SUFFICES ASSUME IsInjective(ColumnNames(q)),
                          NEW c \in DOMAIN src.cols, NEW d \in DOMAIN src.cols,
                          src.cols[c].name = src.cols[d].name
                   PROVE  c = d
      BY DEF NamesApart
    <3>2. ColumnNames(q)[c] = ColumnNames(q)[d] /\ c \in DOMAIN ColumnNames(q) /\ d \in DOMAIN ColumnNames(q)
      BY <1>4, <1>8, <2>1, <3>1
    <3>3. QED
      BY <3>1, <3>2 DEF IsInjective
<1>12. QED
  BY <1>9, <1>10, <1>11 DEF cols, src

LEMMA VirtualStep ==
    ASSUME IInv, NEW k \in DOMAIN results, add_virtual_table(k)
    PROVE  ScopeStays
<1> DEFINE q == results[k]
           cols == VirtualCols(q)
           key  == {}
           rows == q.rows
<1>1. /\ Push(cols, key, rows) /\ UNCHANGED <<hidden, marked>>
      /\ gaps' = gaps \cup (IF ~IsInjective(ColumnNames(q)) THEN {"same_name"} ELSE {})
  BY DEF add_virtual_table, VirtualCols
<1>2. ScopeOk /\ NullsHold /\ StarsHold /\ ResultsOk
  BY DEF IInv
<1>3. ResultOk(q)
  BY <1>2 DEF ResultsOk
<1>4. gaps = {} => Truthful(q)
  BY DEF IInv, ResultsHold, Truthful
<1>5. gaps \subseteq gaps' /\ (gaps' = {} => gaps = {})
      /\ (gaps' \cap StarGaps = {} => IsInjective(ColumnNames(q)))
  BY <1>1 DEF StarGaps
<1> HIDE DEF q
<1>6. /\ (NextAlias \in Text /\ NextAlias # "") => SourceFits(Pushed(cols, key), rows)
      /\ (NextAlias \in Text /\ NextAlias # "") =>
            (gaps' = {} => \A r \in rows : \A c \in DOMAIN cols : cols[c].notnull => r[c] # Null)
      /\ (NextAlias \in Text /\ NextAlias # "") =>
            (gaps' \cap StarGaps = {} => NamesApart(Pushed(cols, key)))
  BY <1>3, <1>4, <1>5, VirtualFits
<1> HIDE DEF cols, key, rows
<1>7. NextAlias \in Text /\ NextAlias # ""
  <2>1. AliasesTaken /\ Used < Len(Aliases)
    BY <1>1, <1>2, RoomLeft, ResultsLen DEF ScopeOk, Push, RoomForItem
  <2>2. QED
    BY <2>1, NextFree
<1>8. QED
  BY <1>1, <1>2, <1>5, <1>6, <1>7, PushOk DEF ScopeStays

\* unnest(a, b) has a row of two values for each place.
LEMMA UnnestStep ==
    ASSUME IInv, NEW m \in Nat, NEW n \in Nat, unnest_multi_arg(m, n)
    PROVE  ScopeStays
<1> DEFINE longer == IF m > n THEN m ELSE n
           cols == <<[name |-> "x", notnull |-> TRUE], [name |-> "y", notnull |-> TRUE]>>
           key  == {}
           row(i) == <<IF i <= m THEN i ELSE Null, IF i <= n THEN i ELSE Null>>
           rows == {row(i) : i \in 1..longer}
           src == Pushed(cols, key)
<1>1. /\ Push(cols, key, rows) /\ UNCHANGED <<hidden, marked>>
      /\ gaps' = gaps \cup (IF m # n THEN {"unnest_padded"} ELSE {})
  BY DEF unnest_multi_arg
<1>2. ScopeOk /\ NullsHold /\ StarsHold /\ ResultsOk
  BY DEF IInv
<1>3. gaps \subseteq gaps' /\ (gaps' = {} => m = n)
  BY <1>1
<1>4. NextAlias \in Text /\ NextAlias # ""
  <2> HIDE DEF cols, key, rows
  <2>1. AliasesTaken /\ Used < Len(Aliases)
    BY <1>1, <1>2, RoomLeft, ResultsLen DEF ScopeOk, Push, RoomForItem
  <2>2. QED
    BY <2>1, NextFree
<1>5. cols \in Seq(Column) /\ DOMAIN cols = 1..2 /\ cols[1].name = "x" /\ cols[2].name = "y"
  <2>1. [name |-> "x", notnull |-> TRUE] \in Column /\ [name |-> "y", notnull |-> TRUE] \in Column
    BY DEF Column, Text
  <2>2. QED
    BY <2>1
<1>6. longer \in Nat /\ \A i \in 1..longer : row(i) \in Seq(Nat) /\ DOMAIN row(i) = 1..2
  BY DEF Null
<1>7. m = n => \A i \in 1..longer : row(i)[1] # Null /\ row(i)[2] # Null
  BY DEF Null
<1> HIDE DEF cols, row, longer
<1>8. src \in Source /\ src.cols = cols /\ src.key = {}
  <2>1. key \in SUBSET Text /\ NextAlias \in Text
    BY <1>4
  <2>2. QED
    BY ONLY <1>5, <2>1, SourceMade DEF Pushed, src, key
<1>9. SourceFits(src, rows)
  BY <1>5, <1>6, <1>8 DEF SourceFits, Values
<1>10. gaps' = {} => \A r \in rows : \A c \in DOMAIN cols : cols[c].notnull => r[c] # Null
  BY <1>3, <1>5, <1>7
<1>11. NamesApart(src)
  BY <1>5, <1>8 DEF NamesApart
<1> HIDE DEF key, rows
<1>12. QED
  BY <1>1, <1>2, <1>3, <1>9, <1>10, <1>11, PushOk DEF ScopeStays, src

-----------------------------------------------------------------------------
(* Joins of the two last items.                                             *)

LEMMA OperandsOk ==
    ASSUME ItemsOk, Operands >= 2
    PROVE  LET n == Len(items) - 2
           IN  /\ n \in Nat /\ n <= Len(items) /\ (n + 1)..Len(items) = {n + 1, n + 2}
               /\ Operand(1) = items[n + 1] /\ Operand(2) = items[n + 2]
               /\ ItemOk(Operand(1)) /\ ItemOk(Operand(2)) /\ Apart(Operand(1), Operand(2))
               /\ n + 1 \in DOMAIN items /\ n + 2 \in DOMAIN items
<1> DEFINE N == Len(items)
<1>1. N \in Nat /\ DOMAIN items = 1..N
  BY ScopeSteps
<1>2. N >= 2
  BY <1>1 DEF Operands
<1>3. Operand(1) = items[N - 2 + 1] /\ Operand(2) = items[N - 2 + 2]
  BY DEF Operand
<1> HIDE DEF N
<1>4. /\ N - 2 \in Nat /\ N - 2 <= N /\ (N - 2 + 1)..N = {N - 2 + 1, N - 2 + 2}
      /\ N - 2 + 1 \in 1..N /\ N - 2 + 2 \in 1..N /\ N - 2 + 1 # N - 2 + 2
  BY <1>1, <1>2
<1>5. ItemOk(Operand(1)) /\ ItemOk(Operand(2)) /\ Apart(Operand(1), Operand(2))
  BY <1>1, <1>3, <1>4 DEF ItemsOk, Separate
<1>6. QED
  BY <1>1, <1>3, <1>4, <1>5 DEF N

\* What is to be shown of the join x of l and r, which hides J.
Joins(x, l, r, J) ==
    /\ ItemOk(x)
    /\ collect_aliases(x) \ {""} = (collect_aliases(l) \cup collect_aliases(r)) \ {""}
    /\ \A k \in J : k[1] \in collect_aliases(l) \cup collect_aliases(r)
    /\ hidden' = hidden \cup J /\ marked \subseteq marked' /\ gaps \subseteq gaps'
    /\ gaps' = {} /\ NullsOk(l, marked) /\ NullsOk(r, marked) => NullsOk(x, marked')
    /\ gaps' \cap StarGaps = {} => \A k \in J : k[1] # ""
    /\ /\ gaps' \cap StarGaps = {} /\ StarOk(l, hidden) /\ StarOk(r, hidden)
       /\ \A k \in hidden \cup J : k[1] # ""
       => StarOk(x, hidden')

LEMMA JoinStep ==
    ASSUME ScopeOk, NullsHold, StarsHold, Operands >= 2,
           NEW x, NEW J, Joins(x, Operand(1), Operand(2), J), ReplaceOperands(x)
    PROVE  ScopeStays
<1> DEFINE n == Len(items) - 2
           l == Operand(1)
           r == Operand(2)
           late == (n + 1)..Len(items)
           extra == {}
<1>1. /\ n \in Nat /\ n <= Len(items) /\ late = {n + 1, n + 2}
      /\ l = items[n + 1] /\ r = items[n + 2]
      /\ n + 1 \in DOMAIN items /\ n + 2 \in DOMAIN items
  BY OperandsOk DEF ScopeOk
<1>2. items' = CutAnd(items, n, x)
  BY DEF ReplaceOperands, CutAnd
<1>3. Joins(x, l, r, J)
  OBVIOUS
<1> HIDE DEF n, l, r, late, extra
<1>4. AliasesOf(items, late) = collect_aliases(l) \cup collect_aliases(r)
  BY <1>1 DEF AliasesOf
<1>5. gaps' = {} => NullsOk(x, marked')
  <2>1. SUFFICES ASSUME gaps' = {} PROVE NullsOk(x, marked')
    OBVIOUS
  <2>2. NullsOk(l, marked) /\ NullsOk(r, marked)
    BY <1>1, <1>3, <2>1 DEF NullsHold, Joins
  <2>3. QED
    BY <1>3, <2>1, <2>2 DEF Joins
<1>6. gaps' \cap StarGaps = {} => StarOk(x, hidden') /\ \A k \in J : k[1] # ""
  <2>1. SUFFICES ASSUME gaps' \cap StarGaps = {} PROVE StarOk(x, hidden') /\ \A k \in J : k[1] # ""
    OBVIOUS
  <2>2. gaps \cap StarGaps = {}
    BY <1>3, <2>1 DEF Joins
  <2>3. StarOk(l, hidden) /\ StarOk(r, hidden) /\ \A k \in hidden : k[1] # ""
    BY <1>1, <2>2 DEF StarsHold
  <2>4. \A k \in J : k[1] # ""
    BY <1>3, <2>1 DEF Joins
  <2>5. QED
    BY <1>3, <2>1, <2>3, <2>4 DEF Joins
<1>7. /\ ItemOk(x) /\ extra = {}
      /\ collect_aliases(x) \ {""} = (AliasesOf(items, late) \cup extra) \ {""}
      /\ \A k \in J : k[1] \in AliasesOf(items, late)
      /\ hidden' = hidden \cup J /\ marked \subseteq marked' /\ gaps \subseteq gaps'
  BY <1>3, <1>4 DEF Joins, extra
<1>8. /\ extra = {} \/ (extra = {NextAlias} /\ Used < Len(Aliases))
      /\ collect_aliases(x) \ {""} = (AliasesOf(items, (n + 1)..Len(items)) \cup extra) \ {""}
      /\ \A k \in J : k[1] \in AliasesOf(items, (n + 1)..Len(items))
  BY <1>7, Zenon DEF late
<1>9. ScopeOk /\ NullsHold /\ StarsHold
  OBVIOUS
<1>10. QED
  BY ONLY <1>1, <1>2, <1>5, <1>6, <1>7, <1>8, <1>9, ItemStep DEF ScopeStays

LEMMA JoinOnStep ==
    ASSUME IInv, NEW kind, JoinOn(kind)
    PROVE  ScopeStays
<1> DEFINE l == Operand(1)
           r == Operand(2)
           eq(z) == z[1][1][1] # Null /\ z[1][1][1] = z[2][1][1]
           matched == {z \in l.rows \X r.rows : eq(z)}
           pairs == JoinPairs(kind, l, r, LAMBDA x, y : x[1][1] # Null /\ x[1][1] = y[1][1])
           x == [Cross(l, r) EXCEPT !.rows = {z[1] \o z[2] : z \in pairs}]
           J == {}
<1>1. /\ Operands >= 2 /\ ReplaceOperands(x)
      /\ marked' = mark_all_nullable(kind, l, r) /\ hidden' = hidden /\ gaps' = gaps
  BY DEF JoinOn
<1>2. ScopeOk /\ NullsHold /\ StarsHold
  BY DEF IInv
<1>3. ItemOk(l) /\ ItemOk(r) /\ Apart(l, r)
  BY <1>1, <1>2, OperandsOk DEF ScopeOk
<1>4. pairs = matched
              \cup (IF kind \in {"left", "full"}
                    THEN {<<a, Pad(r)>> : a \in l.rows \ {z[1] : z \in matched}} ELSE {})
              \cup (IF kind \in {"right", "full"}
                    THEN {<<Pad(l), b>> : b \in r.rows \ {z[2] : z \in matched}} ELSE {})
  BY DEF JoinPairs
<1>5. matched \subseteq l.rows \X r.rows
  OBVIOUS
<1> HIDE DEF pairs, matched, l, r
<1>6. \A z \in pairs : IsPair(kind, l, r, matched, z)
  BY <1>4, <1>5, PairRows
<1>7. /\ ItemOk(x) /\ collect_aliases(x) = collect_aliases(l) \cup collect_aliases(r)
      /\ NullsOk(l, marked) /\ NullsOk(r, marked) => NullsOk(x, mark_all_nullable(kind, l, r))
      /\ \A H : StarOk(l, H) /\ StarOk(r, H) => StarOk(x, H)
  BY <1>3, <1>5, <1>6, JoinOnOk
<1> HIDE DEF x
<1>8. marked \subseteq marked'
  BY <1>1, MarksPadded
<1>9. Joins(x, l, r, J)
  BY <1>1, <1>7, <1>8 DEF Joins
<1>10. QED
  BY <1>1, <1>2, <1>9, JoinStep DEF l, r

LEMMA UsingStep ==
    ASSUME IInv, NEW kind \in Kinds, NEW names \in Seq(Text), JoinUsing(kind, names),
           LET l == Operand(1)
               r == Operand(2)
           IN  /\ StarOk(l, hidden) /\ StarOk(r, hidden)
               /\ \A k \in hidden \cup MergedAway(l, r, names) : k[1] # ""
               => \A i, j \in DOMAIN names : names[i] = names[j] => i = j
    PROVE  ScopeStays
<1> DEFINE l == Operand(1)
           r == Operand(2)
           J == MergedAway(l, r, names)
           x == merge_using_columns(kind, l, r, names)
           G == MergeGaps(kind, l, r, names)
<1>1. /\ Operands >= 2 /\ ReplaceOperands(x) /\ BothShow(l, r, names)
      /\ marked' = mark_all_nullable(kind, l, r) /\ hidden' = hidden \cup J /\ gaps' = gaps \cup G
  BY DEF JoinUsing, BothShow
<1>2. ScopeOk /\ NullsHold /\ StarsHold
  BY DEF IInv
<1>3. ItemOk(l) /\ ItemOk(r) /\ Apart(l, r)
  BY <1>1, <1>2, OperandsOk DEF ScopeOk
<1>4. /\ StarOk(l, hidden) /\ StarOk(r, hidden) /\ (\A k \in hidden \cup J : k[1] # "")
      => \A i, j \in DOMAIN names : names[i] = names[j] => i = j
  OBVIOUS
<1>5. ("using_chain" \notin G => \A k \in J : k[1] # "")
  BY DEF MergeGaps
<1>6. \A k \in J : k[1] \in collect_aliases(l) \cup collect_aliases(r)
  BY <1>3, MergedAwayTaken
<1> HIDE DEF l, r, J, G
<1>7. /\ ItemOk(x)
      /\ collect_aliases(x) = {""} \cup (collect_aliases(l) \cup collect_aliases(r))
      /\ NullsOk(l, marked) /\ NullsOk(r, marked) /\ "using_padded" \notin G
         => NullsOk(x, mark_all_nullable(kind, l, r))
      /\ \A H : /\ StarOk(l, H) /\ StarOk(r, H) /\ (\A k \in H \cup J : k[1] # "")
                /\ \A i, j \in DOMAIN names : names[i] = names[j] => i = j
                => StarOk(x, H \cup J)
  BY <1>1, <1>3, UsingOk DEF J, G
<1> HIDE DEF x
<1>8. marked \subseteq marked'
  BY <1>1, MarksPadded
<1>9. gaps' = {} => "using_padded" \notin G
  BY <1>1
<1>10. gaps' \cap StarGaps = {} => \A k \in J : k[1] # ""
  BY <1>1, <1>5 DEF StarGaps
<1>11. Joins(x, l, r, J)
  BY <1>1, <1>4, <1>6, <1>7, <1>8, <1>9, <1>10 DEF Joins
<1>12. QED
  BY <1>1, <1>2, <1>11, JoinStep DEF l, r

LEMMA ListedStep ==
    ASSUME IInv, NEW kind \in Kinds, NEW names \in {<<"x">>, <<"x", "y">>}, JoinUsing(kind, names)
    PROVE  ScopeStays
BY ListedNames, UsingStep

LEMMA NaturalStep ==
    ASSUME IInv, NEW kind \in Kinds, JoinNatural(kind)
    PROVE  ScopeStays
<1> DEFINE l == Operand(1)
           r == Operand(2)
           names == natural_names(l, r)
<1>1. Operands >= 2 /\ JoinUsing(kind, names)
  BY DEF JoinNatural
<1>2. BothShow(l, r, names)
  BY <1>1 DEF JoinUsing, BothShow
<1>3. ItemOk(l) /\ ItemOk(r)
  BY <1>1, OperandsOk DEF IInv, ScopeOk
<1> HIDE DEF l, r
<1>4. /\ names \in Seq(Text)
      /\ \A H : /\ StarOk(l, H) /\ StarOk(r, H) /\ BothShow(l, r, names)
                /\ \A k \in H \cup MergedAway(l, r, names) : k[1] # ""
                => \A i, j \in DOMAIN names : names[i] = names[j] => i = j
  BY <1>3, NaturalNames
<1> HIDE DEF names
<1>5. /\ StarOk(l, hidden) /\ StarOk(r, hidden)
      /\ \A k \in hidden \cup MergedAway(l, r, names) : k[1] # ""
      => \A i, j \in DOMAIN names : names[i] = names[j] => i = j
  BY <1>2, <1>4
<1>6. QED
  BY <1>1, <1>4, <1>5, UsingStep DEF l, r

LEMMA LateralStep ==
    ASSUME IInv, NEW kind, NEW p, JoinLateral(kind, p)
    PROVE  ScopeStays
<1> DEFINE l == Last(items)
           n == Len(items) - 1
           c == Col(l.sources, p)
           sub == LateralSub(l, p, NextAlias)
           x == LateralItem(l, p, NextAlias)
           late == (n + 1)..Len(items)
           extra == {NextAlias}
           J == {}
           G == IF l.sources[p[1]].alias \in marked /\ c.notnull THEN {"lateral_padded"} ELSE {}
<1>1. /\ Room /\ Operands >= 1 /\ p \in Positions(l.sources)
      /\ items' = Append(Front(items), x)
      /\ marked' = mark_all_nullable(kind, l, sub) /\ hidden' = hidden /\ gaps' = gaps \cup G
  BY DEF JoinLateral, RoomForItem, LateralItem, LateralSub
<1>2. ScopeOk /\ NullsHold /\ StarsHold /\ ResultsOk /\ ItemsOk /\ AliasesTaken /\ HiddenTaken
  BY DEF IInv, ScopeOk
<1>3. Used < Len(Aliases)
  BY <1>1, <1>2, RoomLeft, ResultsLen
<1>4. NextAlias \in Text /\ NextAlias # "" /\ NextAlias \notin TakenBy(items)
  BY <1>2, <1>3, NextFree
<1>5. /\ n \in Nat /\ n <= Len(items) /\ late = {n + 1} /\ n + 1 \in DOMAIN items
      /\ l = items[n + 1] /\ items' = CutAnd(items, n, x)
  <2>1. Len(items) \in Nat /\ DOMAIN items = 1..Len(items)
    BY <1>2, ScopeSteps
  <2>2. Len(items) >= 1
    BY <1>1, <2>1 DEF Operands
  <2>3. l = items[Len(items)] /\ Front(items) = SubSeq(items, 1, n)
    BY DEF Last, Front
  <2>4. n \in Nat /\ n <= Len(items) /\ late = {n + 1} /\ n + 1 = Len(items)
    BY <2>1, <2>2
  <2> HIDE DEF l, n, x, late
  <2>5. QED
    BY <1>1, <2>1, <2>2, <2>3, <2>4 DEF CutAnd
<1> HIDE DEF l, n, late
<1>6. ItemOk(l) /\ NextAlias \notin collect_aliases(l)
  BY <1>2, <1>4, <1>5 DEF ItemsOk, Separate, TakenBy
<1>7. /\ ItemOk(x) /\ collect_aliases(x) = collect_aliases(l) \cup {NextAlias}
      /\ NullsOk(l, marked) /\ ~(l.sources[p[1]].alias \in marked /\ c.notnull)
         => NullsOk(x, mark_all_nullable(kind, l, sub))
      /\ \A H : StarOk(l, H) /\ (\A k \in H : k[1] # NextAlias) => StarOk(x, H)
  <2>1. ItemOk(l) /\ p \in Positions(l.sources) /\ NextAlias \in Text /\ NextAlias # ""
        /\ NextAlias \notin collect_aliases(l)
    BY <1>1, <1>4, <1>6
  <2>2. QED
    BY ONLY <2>1, LateralOk
<1>8. marked \subseteq marked'
  BY <1>1, MarksPadded
<1>9. gaps \subseteq gaps' /\ (gaps' = {} => gaps = {} /\ ~(l.sources[p[1]].alias \in marked /\ c.notnull))
  BY <1>1
<1> HIDE DEF x, c, G, sub
<1>10. AliasesOf(items, late) = collect_aliases(l)
  BY <1>5 DEF AliasesOf
<1>11. gaps' = {} => NullsOk(x, marked')
  <2>1. SUFFICES ASSUME gaps' = {} PROVE NullsOk(x, marked')
    OBVIOUS
  <2>2. NullsOk(l, marked)
    BY <1>2, <1>5, <1>9, <2>1 DEF NullsHold
  <2>3. QED
    BY <1>1, <1>7, <1>9, <2>1, <2>2
<1>12. gaps' \cap StarGaps = {} => StarOk(x, hidden')
  <2>1. SUFFICES ASSUME gaps' \cap StarGaps = {} PROVE StarOk(x, hidden')
    OBVIOUS
  <2>2. gaps \cap StarGaps = {}
    BY <1>9, <2>1
  <2>3. StarOk(l, hidden)
    BY <1>2, <1>5, <2>2 DEF StarsHold
  <2>4. QED
    BY <1>1, <1>2, <1>3, <1>7, <2>3, NextUnhidden
<1>13. /\ extra = {} \/ (extra = {NextAlias} /\ Used < Len(Aliases))
       /\ collect_aliases(x) \ {""} = (AliasesOf(items, (n + 1)..Len(items)) \cup extra) \ {""}
       /\ \A k \in J : k[1] \in AliasesOf(items, (n + 1)..Len(items))
       /\ \A k \in J : k[1] # ""
       /\ hidden' = hidden \cup J
  BY <1>1, <1>3, <1>7, <1>10 DEF late
<1> HIDE DEF extra, J
<1>14. QED
  BY ONLY <1>2, <1>5, <1>7, <1>8, <1>9, <1>11, <1>12, <1>13, ItemStep DEF ScopeStays

\* What a step that leaves the results alone keeps of the rest.
LEMMA ResultsKept ==
    ASSUME ResultsOk, ResultsHold, UNCHANGED results, gaps \subseteq gaps'
    PROVE  ResultsOk' /\ ResultsHold'
<1>1. ResultsOk'
  BY DEF ResultsOk
<1>2. gaps' = {} => gaps = {}
  OBVIOUS
<1>3. ResultsHold'
  BY <1>2 DEF ResultsHold
<1>4. QED
  BY <1>1, <1>3

\* Every step on the FROM clause keeps the invariant.
LEMMA FromStepKeeps ==
    ASSUME IInv, FromStep, ~ \E c \in Clauses : GroupBy(c)
    PROVE  IInv'
<1>1. ResultsOk /\ ResultsHold /\ ScopeOk
  BY DEF IInv
<1>2. SUFFICES ScopeStays /\ group' = <<>> /\ results' = results /\ gaps \subseteq gaps'
  BY <1>1, ResultsKept DEF IInv, ScopeStays, GroupOk
<1>3. ASSUME NEW t \in Tables, add_table(t)
      PROVE  ScopeStays /\ group' = <<>> /\ results' = results /\ gaps \subseteq gaps'
  <2>1. Push(t.cols, t.key, t.rows) /\ UNCHANGED <<hidden, marked, gaps, group, results>>
    BY <1>3 DEF add_table
  <2>2. group = <<>>
    BY <2>1 DEF Push, RoomForItem
  <2>3. QED
    BY <2>1, <2>2, TableStep
<1>4. ASSUME NEW t \in Tables, add_dml_target(t)
      PROVE  ScopeStays /\ group' = <<>> /\ results' = results /\ gaps \subseteq gaps'
  <2>1. Push(t.cols, t.key, t.rows) /\ UNCHANGED <<hidden, marked, gaps, group, results>>
    BY <1>4 DEF add_dml_target
  <2>2. group = <<>>
    BY <2>1 DEF Push, RoomForItem
  <2>3. QED
    BY <2>1, <2>2, TableStep
<1>5. ASSUME NEW k \in DOMAIN results, add_virtual_table(k)
      PROVE  ScopeStays /\ group' = <<>> /\ results' = results /\ gaps \subseteq gaps'
  <2>1. group = <<>> /\ UNCHANGED <<group, results>> /\ gaps \subseteq gaps'
    BY <1>5 DEF add_virtual_table, Push, RoomForItem
  <2>2. QED
    BY <1>5, <2>1, VirtualStep
<1>6. ASSUME NEW n \in 1..2, unnest_multi_arg(2, n)
      PROVE  ScopeStays /\ group' = <<>> /\ results' = results /\ gaps \subseteq gaps'
  <2>1. group = <<>> /\ UNCHANGED <<group, results>> /\ gaps \subseteq gaps'
    BY <1>6 DEF unnest_multi_arg, Push, RoomForItem
  <2>2. 2 \in Nat /\ n \in Nat
    OBVIOUS
  <2>3. QED
    BY <1>6, <2>1, <2>2, UnnestStep
<1>7. ASSUME NEW kind \in Kinds, JoinOn(kind)
      PROVE  ScopeStays /\ group' = <<>> /\ results' = results /\ gaps \subseteq gaps'
  BY <1>7, JoinOnStep, Zenon DEF JoinOn
<1>8. ASSUME NEW kind \in Kinds, NEW names \in {<<"x">>, <<"x", "y">>}, JoinUsing(kind, names)
      PROVE  ScopeStays /\ group' = <<>> /\ results' = results /\ gaps \subseteq gaps'
  <2>1. group = <<>> /\ UNCHANGED <<group, results>> /\ gaps \subseteq gaps'
    BY <1>8 DEF JoinUsing
  <2>2. QED
    BY <1>8, <2>1, ListedStep
<1>9. ASSUME NEW kind \in Kinds, JoinNatural(kind)
      PROVE  ScopeStays /\ group' = <<>> /\ results' = results /\ gaps \subseteq gaps'
  <2>1. group = <<>> /\ UNCHANGED <<group, results>> /\ gaps \subseteq gaps'
    BY <1>9 DEF JoinNatural, JoinUsing
  <2>2. QED
    BY <1>9, <2>1, NaturalStep
<1>10. ASSUME NEW kind, NEW p, JoinLateral(kind, p)
       PROVE  ScopeStays /\ group' = <<>> /\ results' = results /\ gaps \subseteq gaps'
  <2>1. group = <<>> /\ UNCHANGED <<group, results>> /\ gaps \subseteq gaps'
    BY <1>10 DEF JoinLateral, RoomForItem
  <2>2. QED
    BY <1>10, <2>1, LateralStep
<1>11. QED
  BY <1>3, <1>4, <1>5, <1>6, <1>7, <1>8, <1>9, <1>10 DEF FromStep

-----------------------------------------------------------------------------
(* Finished queries.                                                        *)

\* Nothing is left of a finished query's scope.
LEMMA ResetOk ==
    ASSUME Reset
    PROVE  ScopeStays /\ GroupOk'
<1>1. items' = <<>> /\ hidden' = {} /\ group' = <<>>
  BY DEF Reset
<1>2. DOMAIN items' = {} /\ items' \in Seq(Item)
  BY <1>1
<1>3. TakenBy(items') = {}
  BY <1>2 DEF TakenBy
<1>4. ItemsOk'
  BY <1>2 DEF ItemsOk, Separate
<1>5. AliasesTaken'
  <2>1. 0 \in 0..Len(Aliases) /\ 1..0 = {}
    <3>1. Len(Aliases) \in Nat
      BY AliasList
    <3>2. QED
      BY <3>1
  <2>2. TakenBy(items') \ {""} = {Aliases[i] : i \in 1..0}
    BY <1>3, <2>1
  <2>3. QED
    BY <2>1, <2>2 DEF AliasesTaken
<1>6. HiddenTaken'
  BY <1>1 DEF HiddenTaken
<1>7. NullsHold' /\ StarsHold'
  BY <1>1, <1>2 DEF NullsHold, StarsHold
<1>8. GroupOk'
  BY <1>1 DEF GroupOk
<1>9. QED
  BY <1>4, <1>5, <1>6, <1>7, <1>8 DEF ScopeStays, ScopeOk

\* What becomes of the results when those from n + 1 on are replaced.
LEMMA ResultStepOk ==
    ASSUME ResultsOk, ResultsHold, NEW n \in Nat, n <= Len(results), NEW q, ResultOk(q),
           results' = CutAnd(results, n, q), gaps \subseteq gaps', gaps' = {} => Truthful(q)
    PROVE  ResultsOk' /\ ResultsHold'
<1> DEFINE new == CutAnd(results, n, q)
<1>1. results \in Seq(Result) /\ \A k \in DOMAIN results : ResultOk(results[k])
  BY DEF ResultsOk
<1>2. q \in Result
  BY DEF ResultOk
<1>3. new \in Seq(Result) /\ IsCut(new, results, n, q)
  BY <1>1, <1>2, CutTyped
<1>4. results' = new
  OBVIOUS
<1> HIDE DEF new
<1>5. \A k \in DOMAIN new : (k \in DOMAIN results /\ new[k] = results[k]) \/ new[k] = q
  BY <1>3 DEF IsCut
<1>6. ResultsOk'
  BY <1>1, <1>3, <1>4, <1>5 DEF ResultsOk
<1>7. ASSUME gaps' = {} PROVE \A k \in DOMAIN new : Truthful(new[k])
  <2>1. gaps = {} /\ Truthful(q)
    BY <1>7
  <2>2. \A k \in DOMAIN results : Truthful(results[k])
    BY <2>1 DEF ResultsHold, Truthful
  <2>3. QED
    BY <1>5, <2>1, <2>2
<1>8. ResultsHold'
  BY <1>4, <1>7 DEF ResultsHold, Truthful
<1>9. QED
  BY <1>6, <1>8

LEMMA KeepOk ==
    ASSUME ResultsOk, ResultsHold, NEW q, Keep(q), ResultOk(q), gaps \subseteq gaps',
           gaps' = {} => Truthful(q)
    PROVE  ResultsOk' /\ ResultsHold'
<1> DEFINE n == Len(results)
<1>1. results \in Seq(Result) /\ n \in Nat /\ n <= Len(results)
  BY ResultsLen DEF ResultsOk
<1>2. results' = CutAnd(results, n, q)
  <2>1. SubSeq(results, 1, Len(results)) = results
    BY <1>1, SubSeqFull
  <2>2. QED
    BY <2>1 DEF Keep, CutAnd
<1> HIDE DEF n
<1>3. QED
  BY <1>1, <1>2, ResultStepOk

LEMMA LastReplaced ==
    ASSUME ResultsOk, ResultsHold, results # <<>>, NEW q, results' = Append(Front(results), q),
           ResultOk(q), gaps \subseteq gaps', gaps' = {} => Truthful(q)
    PROVE  ResultsOk' /\ ResultsHold'
<1> DEFINE n == Len(results) - 1
<1>1. Len(results) \in Nat /\ Len(results) # 0
  BY ResultsLen, EmptySeq DEF ResultsOk
<1>2. n \in Nat /\ n <= Len(results)
  BY <1>1
<1>3. results' = CutAnd(results, n, q)
  BY DEF Front, CutAnd
<1> HIDE DEF n
<1>4. QED
  BY <1>2, <1>3, ResultStepOk

LEMMA LastOk ==
    ASSUME ResultsOk, ResultsHold, results # <<>>
    PROVE  ResultOk(Last(results)) /\ (gaps = {} => Truthful(Last(results)))
<1>1. Len(results) \in Nat /\ Len(results) # 0 /\ DOMAIN results = 1..Len(results)
  BY ResultsLen, EmptySeq DEF ResultsOk
<1>2. Len(results) \in DOMAIN results /\ Last(results) = results[Len(results)]
  BY <1>1 DEF Last
<1>3. QED
  BY <1>2 DEF ResultsOk, ResultsHold, Truthful

\* The step of a query whose scope is empty, before and after.
LEMMA NoScopeStep ==
    ASSUME ScopeOk, StarsHold, GroupOk, items = <<>>, gaps \subseteq gaps',
           UNCHANGED <<items, target, hidden, marked, group>>
    PROVE  ScopeStays /\ GroupOk'
<1>1. DOMAIN items' = {} /\ group' = <<>>
  BY DEF GroupOk
<1>2. ItemsOk' /\ AliasesTaken'
  BY DEF ScopeOk, ItemsOk, AliasesTaken
<1>3. HiddenTaken'
  BY DEF ScopeOk, HiddenTaken
<1>4. NullsHold'
  BY <1>1 DEF NullsHold
<1>5. StarsHold'
  <2>1. gaps' \cap StarGaps = {} => gaps \cap StarGaps = {}
    OBVIOUS
  <2>2. QED
    BY <1>1, <2>1 DEF StarsHold
<1>6. GroupOk'
  BY <1>1 DEF GroupOk
<1>7. QED
  BY <1>2, <1>3, <1>4, <1>5, <1>6 DEF ScopeStays, ScopeOk

\* VALUES.
LEMMA ValuesOk ==
    ASSUME NEW rows \in Constants
    PROVE  ResultOk(ValuesResult(rows)) /\ Truthful(ValuesResult(rows))
<1> DEFINE q == ValuesResult(rows)
           some == CHOOSE r \in rows : TRUE
           name == <<"x", "y">>
           null(i) == \E r \in rows : r[i] = Null
           cols == [i \in DOMAIN some |-> [name |-> name[i], nullable |-> null(i)]]
<1>1. q = [cols |-> cols, rows |-> rows, one |-> FALSE, cut |-> FALSE]
  BY DEF ValuesResult
<1>2. PICK n \in 1..2 : rows # {} /\ rows \subseteq [1..n -> Nat]
  BY ConstantsAssumption
<1>3. DOMAIN some = 1..n /\ n \in Nat
  BY <1>2
<1>4. \A i \in 1..n : name[i] \in Text
  <2>1. \A i \in 1..n : i = 1 \/ i = 2
    BY <1>2
  <2>2. "x" \in Text /\ "y" \in Text
    BY DEF Text
  <2>3. name[1] = "x" /\ name[2] = "y"
    OBVIOUS
  <2> HIDE DEF name
  <2>4. QED
    BY <2>1, <2>2, <2>3
<1> HIDE DEF q, some, name
<1>5. \A i \in 1..n : null(i) \in BOOLEAN
  OBVIOUS
<1> HIDE DEF null
<1>6. cols \in [1..n -> Reported] /\ \A i \in 1..n : cols[i].nullable = null(i)
  BY <1>3, <1>4, <1>5 DEF Reported
<1> HIDE DEF cols
<1>7. cols \in Seq(Reported) /\ DOMAIN cols = 1..n /\ Len(cols) = n
  BY <1>3, <1>6, FunctionSeq
<1>8. \A r \in rows : r \in Values /\ DOMAIN r = 1..n
  <2>1. ASSUME NEW r \in rows PROVE r \in Values /\ DOMAIN r = 1..n
    <3>1. r \in [1..n -> Nat]
      BY <1>2
    <3>2. QED
      BY <1>3, <3>1, FunctionSeq DEF Values
  <2>2. QED
    BY <2>1
<1>9. q \in Result /\ q.cols = cols /\ q.rows = rows /\ q.one = FALSE
  BY <1>1, <1>7, <1>8 DEF Result
<1>10. cols # <<>>
  BY <1>2, <1>7
<1>11. ResultOk(q)
  BY <1>7, <1>8, <1>9, <1>10 DEF ResultOk
<1>12. \A i \in 1..n : ~null(i) => \A r \in rows : r[i] # Null
  BY DEF null
<1>13. Truthful(q)
  BY <1>6, <1>7, <1>9, <1>12 DEF Truthful
<1>14. QED
  BY <1>11, <1>13 DEF q

LEMMA ValuesStep ==
    ASSUME IInv, NEW rows \in Constants, analyze_values_lists(rows)
    PROVE  IInv'
<1>1. Keep(ValuesResult(rows)) /\ Reset /\ gaps' = gaps
  BY DEF analyze_values_lists
<1>2. ResultsOk /\ ResultsHold
  BY DEF IInv
<1>3. ResultsOk' /\ ResultsHold'
  BY <1>1, <1>2, ValuesOk, KeepOk
<1>4. ScopeStays /\ GroupOk'
  BY <1>1, ResetOk
<1>5. QED
  BY <1>3, <1>4 DEF IInv, ScopeStays

\* Set operations.  Either arm's NULLs may be there.
SetRows(op, l, r) ==
    CASE op = "union"     -> l.rows \cup r.rows
      [] op = "intersect" -> l.rows \cap r.rows
      [] op = "except"    -> l.rows \ r.rows

LEMMA MergedColsTyped ==
    ASSUME NEW l, NEW r, l.cols \in Seq(Reported), r.cols \in Seq(Reported), Len(l.cols) = Len(r.cols)
    PROVE  /\ Merge(l, r) \in Seq(Reported) /\ DOMAIN Merge(l, r) = DOMAIN l.cols
           /\ DOMAIN l.cols = DOMAIN r.cols /\ Len(Merge(l, r)) = Len(l.cols)
           /\ \A i \in DOMAIN l.cols :
                 Merge(l, r)[i].nullable = (l.cols[i].nullable \/ r.cols[i].nullable)
<1> DEFINE n == Len(l.cols)
           null(i) == l.cols[i].nullable \/ r.cols[i].nullable
           cols == [i \in DOMAIN l.cols |-> [name |-> l.cols[i].name, nullable |-> null(i)]]
<1>1. /\ n \in Nat /\ DOMAIN l.cols = 1..n /\ DOMAIN r.cols = 1..n
      /\ \A i \in DOMAIN l.cols : l.cols[i] \in Reported
  BY SeqTyped
<1>2. Merge(l, r) = cols
  BY DEF Merge
<1>3. \A i \in 1..n : l.cols[i].name \in Text /\ null(i) \in BOOLEAN
  BY <1>1 DEF Reported
<1> HIDE DEF null, n
<1>4. cols \in [1..n -> Reported] /\ \A i \in 1..n : cols[i].nullable = null(i)
  BY <1>1, <1>3 DEF Reported
<1> HIDE DEF cols
<1>5. cols \in Seq(Reported) /\ DOMAIN cols = 1..n /\ Len(cols) = n
  BY <1>1, <1>4, FunctionSeq
<1>6. QED
  BY <1>1, <1>2, <1>4, <1>5 DEF null, n

LEMMA SetOperationOk ==
    ASSUME NEW op \in {"union", "intersect", "except"},
           NEW l, NEW r, ResultOk(l), ResultOk(r), Len(l.cols) = Len(r.cols),
           NEW q, q = [cols |-> Merge(l, r), rows |-> SetRows(op, l, r), one |-> FALSE, cut |-> FALSE]
    PROVE  ResultOk(q) /\ (Truthful(l) /\ Truthful(r) => Truthful(q))
<1> DEFINE cols == Merge(l, r)
           rows == SetRows(op, l, r)
<1>1. /\ l.cols \in Seq(Reported) /\ r.cols \in Seq(Reported) /\ l.cols # <<>>
      /\ l.rows \subseteq Values /\ r.rows \subseteq Values
      /\ \A x \in l.rows : DOMAIN x = DOMAIN l.cols
      /\ \A x \in r.rows : DOMAIN x = DOMAIN r.cols
  BY DEF ResultOk, Result
<1>2. /\ cols \in Seq(Reported) /\ DOMAIN cols = DOMAIN l.cols
      /\ DOMAIN l.cols = DOMAIN r.cols /\ Len(cols) = Len(l.cols)
      /\ \A i \in DOMAIN l.cols : cols[i].nullable = (l.cols[i].nullable \/ r.cols[i].nullable)
  BY <1>1, MergedColsTyped
<1>3. rows \subseteq l.rows \cup r.rows
  BY DEF SetRows
<1>4. q = [cols |-> cols, rows |-> rows, one |-> FALSE, cut |-> FALSE]
  OBVIOUS
<1> HIDE DEF cols, rows
<1>5. q \in Result /\ q.cols = cols /\ q.rows = rows /\ q.one = FALSE
  BY <1>1, <1>2, <1>3, <1>4 DEF Result
<1>6. cols # <<>>
  <2>1. Len(l.cols) # 0
    BY <1>1, EmptySeq
  <2>2. QED
    BY <1>2, <2>1
<1>7. ResultOk(q)
  BY <1>1, <1>2, <1>3, <1>5, <1>6 DEF ResultOk
<1>8. Truthful(l) /\ Truthful(r) => Truthful(q)
  BY <1>2, <1>3, <1>5 DEF Truthful
<1>9. QED
  BY <1>7, <1>8

LEMMA SetOperationStep ==
    ASSUME IInv, NEW op \in {"union", "intersect", "except"}, NEW rows \in Constants,
           NEW first \in BOOLEAN, analyze_set_operation(op, rows, first)
    PROVE  IInv'
<1> DEFINE last == Last(results)
           list == ValuesResult(rows)
           l == IF first THEN last ELSE list
           r == IF first THEN list ELSE last
           q == [cols |-> Merge(l, r), rows |-> SetRows(op, l, r), one |-> FALSE, cut |-> FALSE]
<1>1. /\ items = <<>> /\ results # <<>> /\ Len(l.cols) = Len(r.cols)
      /\ results' = Append(Front(results), q)
      /\ UNCHANGED <<items, target, hidden, marked, group, gaps>>
  BY DEF analyze_set_operation, SetRows
<1>2. ResultsOk /\ ResultsHold /\ ScopeOk /\ StarsHold /\ GroupOk
  BY DEF IInv
<1>3. ResultOk(last) /\ (gaps = {} => Truthful(last))
  BY <1>1, <1>2, LastOk
<1>4. ResultOk(list) /\ Truthful(list)
  BY ValuesOk
<1> HIDE DEF last, list
<1>5. ResultOk(l) /\ ResultOk(r) /\ (gaps = {} => Truthful(l) /\ Truthful(r))
  BY <1>3, <1>4
<1> HIDE DEF l, r
<1>6. ResultOk(q) /\ (Truthful(l) /\ Truthful(r) => Truthful(q))
  BY <1>1, <1>5, SetOperationOk
<1> HIDE DEF q
<1>7. ResultsOk' /\ ResultsHold'
  BY <1>1, <1>2, <1>5, <1>6, LastReplaced
<1>8. ScopeStays /\ GroupOk'
  BY <1>1, <1>2, NoScopeStep
<1>9. QED
  BY <1>7, <1>8 DEF IInv, ScopeStays

\* WITH RECURSIVE: what the arm makes of a row, and the rows turn by turn.
Turn(arm, n, row) == [i \in 1..n |-> IF arm[i] = 0 THEN Null ELSE row[arm[i]]]

Turns(rows, n, arm) ==
    LET turn(row) == [i \in 1..n |-> IF arm[i] = 0 THEN Null ELSE row[arm[i]]]
        step[k \in 0..(n * n)] == IF k = 0 THEN rows
                                  ELSE step[k - 1] \cup {turn(r) : r \in step[k - 1]}
    IN  step

IsTurns(f, rows, n, arm) ==
    f = [k \in 0..(n * n) |-> IF k = 0 THEN rows
                              ELSE f[k - 1] \cup {[i \in 1..n |-> IF arm[i] = 0 THEN Null ELSE r[arm[i]]]
                                                    : r \in f[k - 1]}]

\* What holds of the first rows and is kept by a turn holds of all rows.
LEMMA TurnsOk ==
    ASSUME NEW n \in Nat, NEW arm, NEW D, NEW rows, rows \subseteq D,
           \A r \in D : Turn(arm, n, r) \in D
    PROVE  Turns(rows, n, arm)[n * n] \subseteq D
<1> DEFINE N == n * n
           turned(S) == {Turn(arm, n, r) : r \in S}
<1>1. N \in Nat
  OBVIOUS
<1> HIDE DEF N
<1>2. \E f : IsTurns(f, rows, n, arm)
  <2> DEFINE S == SUBSET D
             G == [k \in 1..N |-> [x \in S |-> x \cup turned(x)]]
  <2>1. \A x \in S : x \cup turned(x) \in S
    OBVIOUS
  <2>2. Steps(G, N, S)
    BY <1>1, <2>1 DEF Steps
  <2>3. \A k \in 1..N, x \in S : G[k][x] = x \cup turned(x)
    OBVIOUS
  <2> HIDE DEF G
  <2>4. \E f : Takes(f, G, N, S, rows)
    <3>1. rows \in S
      OBVIOUS
    <3> HIDE DEF S
    <3>2. QED
      BY <1>1, <2>2, <3>1, StepByStep
  <2>5. PICK f \in [0..N -> S] : f[0] = rows /\ \A k \in 1..N : f[k] = G[k][f[k-1]]
    BY <2>4 DEF Takes
  <2> HIDE DEF S
  <2> DEFINE h == [k \in 0..N |-> IF k = 0 THEN rows ELSE f[k-1] \cup turned(f[k-1])]
  <2>6. ASSUME NEW k \in 0..N PROVE f[k] = h[k]
    <3>1. CASE k = 0
      BY <2>5, <3>1
    <3>2. CASE k # 0
      <4>1. k \in 1..N /\ k - 1 \in 0..N
        BY <1>1, <3>2
      <4>2. f[k-1] \in S
        BY <2>5, <4>1
      <4> HIDE DEF turned
      <4>3. QED
        BY <2>3, <2>5, <3>2, <4>1, <4>2
    <3>3. QED
      BY <3>1, <3>2
  <2>7. f = h
    <3>1. f = [k \in 0..N |-> f[k]] /\ DOMAIN h = 0..N /\ h = [k \in 0..N |-> h[k]]
      BY <2>5
    <3> HIDE DEF h
    <3>2. QED
      BY <2>6, <3>1
  <2>8. IsTurns(f, rows, n, arm)
    BY <2>7 DEF IsTurns, N, Turn
  <2>9. QED
    BY <2>8
<1>3. IsTurns(Turns(rows, n, arm), rows, n, arm)
  BY <1>2, Zenon DEF Turns, IsTurns
<1> DEFINE f == Turns(rows, n, arm)
           T == {k \in 0..N : f[k] \subseteq D}
<1>4. f = [k \in 0..N |-> IF k = 0 THEN rows ELSE f[k-1] \cup turned(f[k-1])]
  BY <1>3 DEF IsTurns, N, Turn
<1> HIDE DEF f, turned
<1>5. 0 \in 0..N /\ \A k \in 1..N : k \in 0..N /\ k # 0
  BY <1>1
<1>6. f[0] = rows /\ \A k \in 1..N : f[k] = f[k-1] \cup turned(f[k-1])
  BY <1>4, <1>5
<1>7. \A S : S \subseteq D => turned(S) \subseteq D
  BY DEF turned
<1>8. 0 \in T /\ \A k \in 1..N : k - 1 \in T => k \in T
  BY <1>5, <1>6, <1>7
<1> HIDE DEF T
<1>9. \A k \in 0..N : k \in T
  BY <1>1, <1>8, CountingUp
<1>10. N \in T
  BY <1>1, <1>9
<1>11. QED
  BY <1>10 DEF T, f, N

\* The arm's columns, with the columns of the query as they are known.
ArmCols(cols, n, arm) ==
    [i \in 1..n |-> [name |-> cols[i].name, nullable |-> arm[i] = 0 \/ cols[arm[i]].nullable]]

\* The columns after the arm was analyzed with cols.
AfterArm(cols, n, arm) == Merge([cols |-> cols], [cols |-> ArmCols(cols, n, arm)])

LEMMA AfterArmTyped ==
    ASSUME NEW cols \in Seq(Reported), NEW n, n = Len(cols), NEW arm, \A i \in 1..n : arm[i] \in 0..n
    PROVE  /\ AfterArm(cols, n, arm) \in Seq(Reported) /\ DOMAIN AfterArm(cols, n, arm) = 1..n
           /\ DOMAIN cols = 1..n /\ n \in Nat /\ Len(AfterArm(cols, n, arm)) = n
           /\ \A i \in 1..n : AfterArm(cols, n, arm)[i].nullable =
                                 (cols[i].nullable \/ (arm[i] = 0 \/ cols[arm[i]].nullable))
<1> DEFINE null(i) == arm[i] = 0 \/ cols[arm[i]].nullable
           a == [i \in 1..n |-> [name |-> cols[i].name, nullable |-> null(i)]]
           l == [cols |-> cols]
           r == [cols |-> a]
<1>1. n \in Nat /\ DOMAIN cols = 1..n /\ \A i \in 1..n : cols[i] \in Reported
  BY SeqTyped
<1>2. \A i \in 1..n : cols[i].name \in Text /\ null(i) \in BOOLEAN
  <2>1. ASSUME NEW i \in 1..n PROVE cols[i].name \in Text /\ null(i) \in BOOLEAN
    <3>1. cols[i].name \in Text /\ cols[i].nullable \in BOOLEAN
      BY <1>1 DEF Reported
    <3>2. CASE arm[i] = 0
      BY <3>1, <3>2
    <3>3. CASE arm[i] # 0
      <4>1. arm[i] \in 1..n
        BY <1>1, <3>3
      <4>2. cols[arm[i]].nullable \in BOOLEAN
        BY <1>1, <4>1 DEF Reported
      <4>3. QED
        BY <3>1, <3>3, <4>2
    <3>4. QED
      BY <3>2, <3>3
  <2>2. QED
    BY <2>1
<1>3. a = ArmCols(cols, n, arm)
  BY DEF ArmCols
<1> HIDE DEF null
<1>4. a \in [1..n -> Reported] /\ \A i \in 1..n : a[i].nullable = null(i)
  BY <1>2 DEF Reported
<1>5. l.cols = cols /\ r.cols = a
  OBVIOUS
<1> HIDE DEF a
<1>6. a \in Seq(Reported) /\ Len(a) = n
  BY <1>1, <1>4, FunctionSeq
<1> HIDE DEF l, r
<1>7. /\ Merge(l, r) \in Seq(Reported) /\ DOMAIN Merge(l, r) = DOMAIN l.cols
      /\ Len(Merge(l, r)) = Len(l.cols)
      /\ \A i \in DOMAIN l.cols :
            Merge(l, r)[i].nullable = (l.cols[i].nullable \/ r.cols[i].nullable)
  <2>1. l.cols \in Seq(Reported) /\ r.cols \in Seq(Reported) /\ Len(l.cols) = Len(r.cols)
    BY <1>5, <1>6
  <2>2. QED
    BY ONLY <2>1, MergedColsTyped
<1>8. Merge(l, r) = AfterArm(cols, n, arm)
  BY <1>3 DEF AfterArm, l, r
<1> DEFINE m == Merge(l, r)
<1> HIDE DEF m
<1>9. /\ m \in Seq(Reported) /\ DOMAIN m = 1..n /\ Len(m) = n
      /\ \A i \in 1..n : m[i].nullable = (cols[i].nullable \/ null(i))
  <2>1. /\ m \in Seq(Reported) /\ DOMAIN m = DOMAIN l.cols /\ Len(m) = Len(l.cols)
        /\ \A i \in DOMAIN l.cols : m[i].nullable = (l.cols[i].nullable \/ r.cols[i].nullable)
    BY <1>7 DEF m
  <2>2. QED
    BY <1>1, <1>4, <1>5, <2>1
<1>10. m = AfterArm(cols, n, arm)
  BY <1>8 DEF m
<1>11. QED
  BY <1>1, <1>9, <1>10 DEF null

Width(q) == Len(q.cols)

RecursiveResult(seed, n, arm) ==
    [cols |-> AfterArm(seed.cols, n, arm), rows |-> Turns(seed.rows, n, arm)[n * n],
     one |-> FALSE, cut |-> FALSE]

\* Analyzing the arm once more, with the columns the query has now, changes nothing.
ArmSettled(seed, n, arm) ==
    LET cols == AfterArm(seed.cols, n, arm) IN AfterArm(cols, n, arm) = cols

ArmFits(seed, n, arm) == n = Width(seed) /\ \A i \in 1..n : arm[i] \in 0..n

LEMMA RecursiveOk ==
    ASSUME NEW seed, ResultOk(seed), NEW n, NEW arm, ArmFits(seed, n, arm)
    PROVE  /\ ResultOk(RecursiveResult(seed, n, arm))
           /\ Truthful(seed) /\ ArmSettled(seed, n, arm) => Truthful(RecursiveResult(seed, n, arm))
<1> DEFINE cols == AfterArm(seed.cols, n, arm)
           q == RecursiveResult(seed, n, arm)
<1>0. n = Len(seed.cols) /\ \A i \in 1..n : arm[i] \in 0..n
  BY DEF ArmFits, Width
<1>0a. /\ q = [cols |-> cols, rows |-> Turns(seed.rows, n, arm)[n * n], one |-> FALSE, cut |-> FALSE]
       /\ ArmSettled(seed, n, arm) <=> AfterArm(cols, n, arm) = cols
  BY DEF RecursiveResult, ArmSettled
<1>0b. cols \in Seq(Reported) /\ DOMAIN cols = 1..n
      /\ DOMAIN seed.cols = 1..n /\ n \in Nat /\ Len(cols) = n
      /\ \A i \in 1..n : cols[i].nullable =
                            (seed.cols[i].nullable \/ (arm[i] = 0 \/ seed.cols[arm[i]].nullable))
  <2>1. seed.cols \in Seq(Reported)
    BY DEF ResultOk, Result
  <2>2. QED
    BY <1>0, <2>1, AfterArmTyped
<1> HIDE DEF cols, q
<1> DEFINE rows == Turns(seed.rows, n, arm)[n * n]
           Fit == {r \in Values : DOMAIN r = 1..n}
           Kept == {r \in Fit : \A i \in 1..n : ~cols[i].nullable => r[i] # Null}
<1>1. /\ seed.cols \in Seq(Reported) /\ seed.cols # <<>> /\ seed.rows \subseteq Values
      /\ \A r \in seed.rows : DOMAIN r = DOMAIN seed.cols
  BY DEF ResultOk, Result
<1>2. /\ cols \in Seq(Reported) /\ DOMAIN cols = 1..n
      /\ DOMAIN seed.cols = 1..n /\ n \in Nat /\ Len(cols) = n
      /\ \A i \in 1..n : cols[i].nullable =
                            (seed.cols[i].nullable \/ (arm[i] = 0 \/ seed.cols[arm[i]].nullable))
  BY <1>0b
<1>3. \A i \in 1..n : ~cols[i].nullable => ~seed.cols[i].nullable
  BY <1>2
<1>4. AfterArm(cols, n, arm) = cols =>
         \A i \in 1..n : ~cols[i].nullable => arm[i] # 0 /\ ~cols[arm[i]].nullable
  <2>1. SUFFICES ASSUME AfterArm(cols, n, arm) = cols, NEW i \in 1..n, ~cols[i].nullable
                 PROVE  arm[i] # 0 /\ ~cols[arm[i]].nullable
    OBVIOUS
  <2> DEFINE after == AfterArm(cols, n, arm)
  <2>2. \A k \in 1..n : after[k].nullable = (cols[k].nullable \/ (arm[k] = 0 \/ cols[arm[k]].nullable))
    BY <1>0, <1>2, AfterArmTyped
  <2>3. after = cols
    BY <2>1
  <2> HIDE DEF after
  <2>4. QED
    BY <2>1, <2>2, <2>3
<1>5. ASSUME NEW r \in Fit
      PROVE  /\ Turn(arm, n, r) \in Fit
             /\ \A i \in 1..n : arm[i] # 0 => arm[i] \in 1..n /\ Turn(arm, n, r)[i] = r[arm[i]]
  <2>1. \A i \in 1..n : r[i] \in Nat
    BY <1>2, SeqTyped DEF Values
  <2>2. \A i \in 1..n : arm[i] # 0 => arm[i] \in 1..n
    BY <1>0, <1>2
  <2>3. \A i \in 1..n : (IF arm[i] = 0 THEN Null ELSE r[arm[i]]) \in Nat
    BY <2>1, <2>2 DEF Null
  <2>4. Turn(arm, n, r) \in [1..n -> Nat]
    BY <2>3 DEF Turn
  <2>5. Turn(arm, n, r) \in Seq(Nat) /\ DOMAIN Turn(arm, n, r) = 1..n
    BY <1>2, <2>4, FunctionSeq
  <2>6. \A i \in 1..n : arm[i] # 0 => Turn(arm, n, r)[i] = r[arm[i]]
    BY DEF Turn
  <2>7. QED
    BY <2>2, <2>5, <2>6 DEF Values
<1>6. seed.rows \subseteq Fit
  BY <1>1, <1>2
<1> HIDE DEF Fit
<1>7. rows \subseteq Fit
  BY <1>2, <1>5, <1>6, TurnsOk
<1>8. ASSUME Truthful(seed), AfterArm(cols, n, arm) = cols PROVE rows \subseteq Kept
  <2>1. seed.rows \subseteq Kept
    BY <1>2, <1>3, <1>6, <1>8 DEF Truthful
  <2>2. ASSUME NEW r \in Kept PROVE Turn(arm, n, r) \in Kept
    <3>1. r \in Fit /\ \A i \in 1..n : ~cols[i].nullable => r[i] # Null
      OBVIOUS
    <3>2. ASSUME NEW i \in 1..n, ~cols[i].nullable PROVE Turn(arm, n, r)[i] # Null
      <4>1. arm[i] # 0 /\ ~cols[arm[i]].nullable
        BY <1>4, <1>8, <3>2
      <4>2. arm[i] \in 1..n /\ Turn(arm, n, r)[i] = r[arm[i]]
        BY <1>5, <3>1, <4>1
      <4>3. QED
        BY <3>1, <4>1, <4>2
    <3>3. QED
      BY <1>5, <3>1, <3>2
  <2> HIDE DEF Kept
  <2>3. QED
    BY <1>2, <2>1, <2>2, TurnsOk
<1>9. q = [cols |-> cols, rows |-> rows, one |-> FALSE, cut |-> FALSE]
  BY <1>0a
<1> HIDE DEF rows
<1>10. rows \subseteq Values /\ \A r \in rows : DOMAIN r = 1..n
  BY <1>7 DEF Fit
<1>11. q \in Result /\ q.cols = cols /\ q.rows = rows /\ q.one = FALSE
  BY <1>2, <1>9, <1>10 DEF Result
<1>12. cols # <<>>
  <2>1. Len(seed.cols) # 0
    BY <1>1, EmptySeq
  <2>2. QED
    BY <1>0, <1>2, <2>1
<1>13. ResultOk(q)
  BY <1>2, <1>10, <1>11, <1>12 DEF ResultOk
<1>14. rows \subseteq Kept => Truthful(q)
  BY <1>2, <1>11 DEF Truthful
<1>15. QED
  BY <1>0a, <1>8, <1>13, <1>14 DEF q

LEMMA RecursiveStep ==
    ASSUME IInv, NEW arm, analyze_recursive_cte(arm)
    PROVE  IInv'
<1> DEFINE seed == Last(results)
           n == Width(seed)
           q == RecursiveResult(seed, n, arm)
<1>1. /\ items = <<>> /\ results # <<>> /\ \A i \in 1..n : arm[i] \in 0..n
      /\ results' = Append(Front(results), q)
      /\ gaps' = gaps \cup (IF ~ArmSettled(seed, n, arm) THEN {"recursive_once"} ELSE {})
      /\ UNCHANGED <<items, target, hidden, marked, group>>
  BY Zenon DEF analyze_recursive_cte, RecursiveResult, ArmSettled, AfterArm, ArmCols, Turns, Width
<1>2. ResultsOk /\ ResultsHold /\ ScopeOk /\ StarsHold /\ GroupOk
  BY DEF IInv
<1>3. ResultOk(seed) /\ (gaps = {} => Truthful(seed))
  BY <1>1, <1>2, LastOk
<1>4. ArmFits(seed, n, arm)
  BY <1>1 DEF ArmFits
<1> HIDE DEF seed, n
<1>5. ResultOk(q) /\ (Truthful(seed) /\ ArmSettled(seed, n, arm) => Truthful(q))
  BY <1>3, <1>4, RecursiveOk
<1> HIDE DEF q
<1>6. gaps \subseteq gaps' /\ (gaps' = {} => gaps = {} /\ ArmSettled(seed, n, arm))
  BY <1>1
<1>7. ResultsOk' /\ ResultsHold'
  BY <1>1, <1>2, <1>3, <1>5, <1>6, LastReplaced
<1>8. ScopeStays /\ GroupOk'
  BY <1>1, <1>2, <1>6, NoScopeStep
<1>9. QED
  BY <1>7, <1>8 DEF IInv, ScopeStays

-----------------------------------------------------------------------------
(* Names and the columns they resolve to.                                   *)

LEMMA PositionsFinite ==
    ASSUME NEW sources \in Seq(Source)
    PROVE  IsFiniteSet(Positions(sources))
<1> DEFINE all == Ordered(sources)
           n == Len(all)
           f == [i \in 1..n |-> all[i]]
           P == Positions(sources)
<1>1. all \in Seq(Places) /\ Members(all) = P
  BY OrderedSorted
<1> HIDE DEF all, P
<1>2. n \in Nat /\ DOMAIN all = 1..n
  BY <1>1, SeqTyped
<1>3. IsFiniteSet(1..n)
  <2>1. 1 \in Int /\ n \in Int
    BY <1>2
  <2>2. QED
    BY <2>1, FS_Interval
<1>4. f \in [1..n -> P] /\ \A p \in P : \E i \in 1..n : f[i] = p
  BY <1>1, <1>2 DEF Members
<1> HIDE DEF f, n
<1>5. f \in Surjection(1..n, P)
  BY <1>4 DEF Surjection
<1>6. QED
  BY <1>3, <1>5, FS_Surjection DEF P

\* What a name can resolve to.
Visible(sources, name) ==
    {p \in Positions(sources) : Col(sources, p).name = name /\ Key(sources, p) \notin hidden}

FirstVisible(sources, name) ==
    {p \in Visible(sources, name) :
        ~ \E q \in Visible(sources, name) : q[1] = p[1] /\ Before(q, p)}

LEMMA ResolveColumn ==
    ASSUME NEW sources \in Seq(Source), NEW name
    PROVE  /\ resolve_column(sources, name) =
                IF Cardinality(FirstVisible(sources, name)) = 1 THEN FirstVisible(sources, name) ELSE {}
           /\ IsFiniteSet(FirstVisible(sources, name))
           /\ resolve_column(sources, name) \subseteq FirstVisible(sources, name)
           /\ \A p, q \in resolve_column(sources, name) : p = q
<1> DEFINE F == FirstVisible(sources, name)
           R == resolve_column(sources, name)
<1>1. R = IF Cardinality(F) = 1 THEN F ELSE {}
  BY DEF resolve_column, FirstVisible, Visible
<1>2. F \in SUBSET Positions(sources)
  BY DEF FirstVisible, Visible
<1>3. IsFiniteSet(F)
  BY <1>2, PositionsFinite, FS_Subset
<1> HIDE DEF F, R
<1>4. R # {} => \E x : R = {x}
  BY <1>1, <1>3, FS_Singleton
<1>5. QED
  BY <1>1, <1>3, <1>4 DEF F, R

\* A name resolves to one column of that name, which is not hidden.
LEMMA Resolved ==
    ASSUME NEW sources \in Seq(Source), NEW name, NEW p \in resolve_column(sources, name)
    PROVE  /\ p \in Positions(sources) /\ Col(sources, p).name = name /\ Key(sources, p) \notin hidden
           /\ resolve_column(sources, name) = {p}
           /\ \A q \in Positions(sources) :
                 /\ q[1] = p[1] /\ Col(sources, q).name = name /\ Key(sources, q) \notin hidden
                 => ~Before(q, p)
<1>1. p \in FirstVisible(sources, name) /\ \A q \in resolve_column(sources, name) : p = q
  BY ResolveColumn
<1>2. resolve_column(sources, name) = {p}
  BY <1>1
<1>3. QED
  BY <1>1, <1>2 DEF FirstVisible, Visible

-----------------------------------------------------------------------------
(* Grouping sets.                                                           *)

PlainFragments(x) ==
    CASE x.kind = "leaf"   -> {{x}}
      [] x.kind = "rollup" -> {{x.parts[i] : i \in 1..n} : n \in 0..Len(x.parts)}
      [] x.kind = "cube"   -> {{x.parts[i] : i \in s} : s \in SUBSET (1..Len(x.parts))}

PlainLeaves(x) == IF IsLeaf(x) THEN {x} ELSE ToSet(x.parts)

\* The fragments of an element are sets of its leaves, and make up all of them.
Covers(F, L) ==
    /\ F # {} /\ \A x \in F : x \subseteq L
    /\ \A e \in L : \E x \in F : e \in x

LEMMA PlainCovers ==
    ASSUME NEW x, GroupingLeaf(x) \/ GroupingSeries(x)
    PROVE  /\ Covers(PlainFragments(x), PlainLeaves(x))
           /\ \A e \in PlainLeaves(x) : GroupingLeaf(e)
<1>1. CASE GroupingLeaf(x)
  <2>1. x.kind = "leaf"
    BY <1>1 DEF GroupingLeaf
  <2>2. PlainFragments(x) = {{x}} /\ PlainLeaves(x) = {x}
    BY <2>1 DEF PlainFragments, PlainLeaves, IsLeaf
  <2>3. QED
    BY <1>1, <2>2 DEF Covers
<1>2. CASE GroupingSeries(x)
  <2> DEFINE s == x.parts
             n == Len(s)
             S == ToSet(s)
  <2>1. x.kind \in {"rollup", "cube"} /\ s \in Seq(S) /\ \A e \in S : GroupingLeaf(e)
    BY <1>2 DEF GroupingSeries
  <2>2. PlainLeaves(x) = S
    BY <2>1 DEF PlainLeaves, IsLeaf
  <2>3. S = {s[i] : i \in DOMAIN s}
    BY DEF ToSet
  <2> HIDE DEF S, s
  <2>4. n \in Nat /\ DOMAIN s = 1..n
    BY <2>1, SeqTyped
  <2>5. S = {s[i] : i \in 1..n}
    BY <2>3, <2>4
  <2> HIDE DEF n
  <2>6. CASE x.kind = "rollup"
    <3> DEFINE F == {{s[i] : i \in 1..k} : k \in 0..n}
    <3>1. PlainFragments(x) = F
      BY <2>6 DEF PlainFragments, s, n
    <3>2. n \in 0..n
      BY <2>4
    <3>3. S \in F
      BY <2>5, <3>2
    <3>4. \A k \in 0..n : 1..k \subseteq 1..n
      BY <2>4
    <3>5. \A f \in F : f \subseteq S
      BY <2>5, <3>4
    <3> HIDE DEF F
    <3>6. Covers(F, S)
      BY <3>3, <3>5 DEF Covers
    <3>7. QED
      BY <2>1, <2>2, <3>1, <3>6
  <2>7. CASE x.kind = "cube"
    <3> DEFINE F == {{s[i] : i \in k} : k \in SUBSET (1..n)}
    <3>1. PlainFragments(x) = F
      BY <2>7 DEF PlainFragments, s, n
    <3>2. 1..n \in SUBSET (1..n)
      OBVIOUS
    <3>3. S \in F
      BY <2>5, <3>2
    <3>5. \A f \in F : f \subseteq S
      BY <2>5
    <3> HIDE DEF F
    <3>6. Covers(F, S)
      BY <3>3, <3>5 DEF Covers
    <3>7. QED
      BY <2>1, <2>2, <3>1, <3>6
  <2>8. QED
    BY <2>1, <2>6, <2>7
<1>3. QED
  BY <1>1, <1>2

LEMMA FragmentsCover ==
    ASSUME NEW e, GroupingLeaf(e) \/ GroupingSeries(e) \/ GroupingList(e)
    PROVE  /\ Covers(Fragments(e), Leaves(e))
           /\ \A x \in Leaves(e) : GroupingLeaf(x)
           /\ IsLeaf(e) => Fragments(e) = {{e}} /\ Leaves(e) = {e}
<1>1. CASE GroupingLeaf(e) \/ GroupingSeries(e)
  <2>1. e.kind # "sets"
    BY <1>1 DEF GroupingLeaf, GroupingSeries
  <2>2. Fragments(e) = PlainFragments(e)
    BY <2>1 DEF Fragments, PlainFragments
  <2>3. Leaves(e) = PlainLeaves(e)
    <3>1. CASE GroupingLeaf(e)
      BY <3>1 DEF GroupingLeaf, Leaves, PlainLeaves, IsLeaf
    <3>2. CASE GroupingSeries(e)
      <4> DEFINE s == e.parts
      <4>1. ~IsLeaf(e) /\ \A i \in DOMAIN s : IsLeaf(s[i])
        BY <3>2 DEF GroupingSeries, GroupingLeaf, IsLeaf, ToSet
      <4>2. Leaves(e) = UNION {IF IsLeaf(s[i]) THEN {s[i]} ELSE ToSet(s[i].parts) : i \in DOMAIN s}
        BY <4>1 DEF Leaves
      <4> HIDE DEF s
      <4>3. UNION {IF IsLeaf(s[i]) THEN {s[i]} ELSE ToSet(s[i].parts) : i \in DOMAIN s} = {s[i] : i \in DOMAIN s}
        BY <4>1
      <4>4. PlainLeaves(e) = {s[i] : i \in DOMAIN s}
        BY <4>1 DEF PlainLeaves, ToSet, s
      <4>5. QED
        BY <4>2, <4>3, <4>4
    <3>3. QED
      BY <1>1, <3>1, <3>2
  <2>4. IsLeaf(e) => PlainFragments(e) = {{e}} /\ PlainLeaves(e) = {e}
    BY DEF IsLeaf, PlainFragments, PlainLeaves
  <2>5. QED
    BY <1>1, <2>2, <2>3, <2>4, PlainCovers
<1>2. CASE GroupingList(e)
  <2> DEFINE s == e.parts
             D == DOMAIN s
  <2>1. /\ e.kind = "sets" /\ s \in Seq(ToSet(s)) /\ s # <<>>
        /\ \A i \in D : GroupingLeaf(s[i]) \/ GroupingSeries(s[i])
    BY <1>2 DEF GroupingList, ToSet
  <2>2. ~IsLeaf(e)
    BY <2>1 DEF IsLeaf
  <2>3. Fragments(e) = UNION {PlainFragments(s[i]) : i \in D}
    BY <2>1 DEF Fragments, PlainFragments
  <2>4. Leaves(e) = UNION {PlainLeaves(s[i]) : i \in D}
    BY <2>2 DEF Leaves, PlainLeaves
  <2>5. D # {}
    <3>1. Len(s) \in Nat /\ Len(s) # 0 /\ D = 1..Len(s)
      BY <2>1, EmptySeq, SeqTyped
    <3>2. 1 \in 1..Len(s)
      BY <3>1
    <3>3. QED
      BY <3>1, <3>2
  <2>6. \A i \in D : Covers(PlainFragments(s[i]), PlainLeaves(s[i])) /\ \A x \in PlainLeaves(s[i]) : GroupingLeaf(x)
    BY <2>1, PlainCovers
  <2> HIDE DEF s, D
  <2>7. Covers(Fragments(e), Leaves(e))
    <3>1. Fragments(e) # {}
      BY <2>3, <2>5, <2>6 DEF Covers
    <3>2. \A x \in Fragments(e) : x \subseteq Leaves(e)
      BY <2>3, <2>4, <2>6 DEF Covers
    <3>3. \A l \in Leaves(e) : \E x \in Fragments(e) : l \in x
      BY <2>3, <2>4, <2>6 DEF Covers
    <3>4. QED
      BY <3>1, <3>2, <3>3 DEF Covers
  <2>8. QED
    BY <2>2, <2>4, <2>6, <2>7
<1>3. QED
  BY <1>1, <1>2

Picks(fs) == {d \in [DOMAIN fs -> UNION ToSet(fs)] : \A i \in DOMAIN fs : d[i] \in fs[i]}

Joint(c) == UNION {c[i] : i \in DOMAIN c}

LEMMA ProductOk ==
    ASSUME NEW fs, NEW Ls, \A i \in DOMAIN fs : Covers(fs[i], Ls[i])
    PROVE  /\ \A L \in Product(fs) : L \subseteq UNION {Ls[i] : i \in DOMAIN fs}
           /\ \A i \in DOMAIN fs : \A e \in Ls[i] : \E L \in Product(fs) : e \in L
           /\ Product(fs) # {}
<1> DEFINE D == DOMAIN fs
           U == UNION ToSet(fs)
           C == Picks(fs)
<1>1. Product(fs) = {Joint(c) : c \in C}
  BY DEF Product, Picks, Joint
<1>2. \A d : d \in C <=> d \in [D -> U] /\ \A i \in D : d[i] \in fs[i]
  BY DEF Picks
<1>3. \A i \in D : fs[i] \subseteq U
  BY DEF ToSet
<1> HIDE DEF C, U
<1>4. \A i \in D : fs[i] # {}
  BY DEF Covers
<1> DEFINE any == [j \in D |-> CHOOSE x \in fs[j] : TRUE]
<1>5. any \in C
  <2>1. \A j \in D : any[j] \in fs[j]
    BY <1>4
  <2>2. any \in [D -> U]
    BY <1>3, <2>1
  <2> HIDE DEF any
  <2>3. QED
    BY <1>2, <2>1, <2>2
<1>6. ASSUME NEW i \in D, NEW e \in Ls[i] PROVE \E c \in C : e \in Joint(c)
  <2>1. PICK x \in fs[i] : e \in x
    BY DEF Covers
  <2> DEFINE d == [j \in D |-> IF j = i THEN x ELSE any[j]]
  <2>2. any \in [D -> U] /\ \A j \in D : any[j] \in fs[j]
    BY <1>2, <1>5
  <2> HIDE DEF any
  <2>3. \A j \in D : d[j] \in fs[j] /\ d[j] \in U
    BY <1>3, <2>1, <2>2
  <2>4. d \in [D -> U] /\ d[i] = x /\ DOMAIN d = D
    BY <2>3
  <2> HIDE DEF d
  <2>5. d \in C
    BY <1>2, <2>3, <2>4
  <2>6. e \in Joint(d)
    BY <2>1, <2>4 DEF Joint
  <2>7. QED
    BY <2>5, <2>6
<1>7. ASSUME NEW c \in C PROVE Joint(c) \subseteq UNION {Ls[i] : i \in D}
  <2>1. DOMAIN c = D /\ \A i \in D : c[i] \in fs[i]
    BY <1>2
  <2>2. \A i \in D : c[i] \subseteq Ls[i]
    BY <2>1 DEF Covers
  <2>3. QED
    BY <2>1, <2>2 DEF Joint
<1>8. QED
  BY <1>1, <1>5, <1>6, <1>7

\* What a GROUP BY clause groups by.
LEMMA LeafSetsOk ==
    ASSUME group \in Clauses
    PROVE  /\ \A e \in AllLeaves : e.kind = "leaf" /\ e.parts \in Seq(STRING) /\ e.parts # <<>>
           /\ \A L \in LeafSets : L \subseteq AllLeaves
           /\ \A e \in AllLeaves : \E L \in LeafSets : e \in L
           /\ LeafSets # {}
           /\ ~Expanded => \A L \in LeafSets : L = AllLeaves
           /\ group # <<>> /\ ~Expanded => AllLeaves # {}
<1> DEFINE D == DOMAIN group
           fs == [i \in D |-> Fragments(group[i])]
           Ls == [i \in D |-> Leaves(group[i])]
<1>1. group \in Seq(ToSet(group)) /\ \A i \in D : group[i] \in ToSet(group)
  BY ClausesAssumption DEF ToSet
<1>2. \A i \in D : GroupingLeaf(group[i]) \/ GroupingSeries(group[i]) \/ GroupingList(group[i])
  BY <1>1, ClausesAssumption
<1>3. \A i \in D : /\ Covers(Fragments(group[i]), Leaves(group[i]))
                   /\ \A x \in Leaves(group[i]) : GroupingLeaf(x)
                   /\ IsLeaf(group[i]) => Fragments(group[i]) = {{group[i]}} /\ Leaves(group[i]) = {group[i]}
  BY <1>2, FragmentsCover
<1>4. DOMAIN fs = D /\ DOMAIN Ls = D /\ \A i \in D : fs[i] = Fragments(group[i]) /\ Ls[i] = Leaves(group[i])
  OBVIOUS
<1>5. LeafSets = Product(fs) /\ AllLeaves = UNION {Leaves(group[i]) : i \in D}
  BY DEF LeafSets, AllLeaves
<1> HIDE DEF fs, Ls, D
<1>6. AllLeaves = UNION {Ls[i] : i \in D}
  BY <1>4, <1>5
<1>7. /\ \A L \in Product(fs) : L \subseteq UNION {Ls[i] : i \in DOMAIN fs}
      /\ \A i \in DOMAIN fs : \A e \in Ls[i] : \E L \in Product(fs) : e \in L
      /\ Product(fs) # {}
  <2>1. \A i \in DOMAIN fs : Covers(fs[i], Ls[i])
    BY <1>3, <1>4
  <2>2. QED
    BY ONLY <2>1, ProductOk
<1>8. \A e \in AllLeaves : GroupingLeaf(e)
  BY <1>3, <1>5
<1>9. ASSUME ~Expanded, NEW L \in LeafSets PROVE L = AllLeaves
  <2>1. PICK c \in Picks(fs) : L = Joint(c)
    BY <1>5 DEF Product, Picks, Joint
  <2>2. DOMAIN c = D /\ \A i \in D : c[i] \in fs[i]
    BY <1>4, <2>1 DEF Picks
  <2>3. \A i \in D : IsLeaf(group[i])
    BY <1>9 DEF Expanded, D
  <2>4. ASSUME NEW i \in D PROVE c[i] = Ls[i]
    <3>1. Fragments(group[i]) = {{group[i]}} /\ Leaves(group[i]) = {group[i]}
      BY <1>3, <2>3
    <3>2. c[i] \in Fragments(group[i]) /\ Ls[i] = Leaves(group[i])
      BY <1>4, <2>2
    <3>3. QED
      BY <3>1, <3>2
  <2>5. QED
    BY <1>6, <2>1, <2>2, <2>4 DEF Joint
<1>10. ASSUME group # <<>>, ~Expanded PROVE AllLeaves # {}
  <2>1. Len(group) \in Nat /\ Len(group) # 0 /\ DOMAIN group = 1..Len(group)
    BY <1>1, <1>10, SeqTyped, EmptySeq
  <2>2. 1 \in D
    BY <2>1 DEF D
  <2>3. Leaves(group[1]) = {group[1]}
    BY <1>3, <1>10, <2>2 DEF Expanded, D
  <2>4. QED
    BY <1>5, <2>2, <2>3
<1>11. QED
  BY <1>5, <1>6, <1>7, <1>4, <1>8, <1>9, <1>10 DEF GroupingLeaf

LEMMA NoGroup ==
    ASSUME group = <<>>
    PROVE  LeafSets = {{}} /\ AllLeaves = {} /\ ~Expanded
<1>1. DOMAIN group = {}
  OBVIOUS
<1> DEFINE fs == [i \in DOMAIN group |-> Fragments(group[i])]
<1>2. LeafSets = Product(fs) /\ DOMAIN fs = {}
  BY <1>1 DEF LeafSets
<1> HIDE DEF fs
<1>3. \A c \in Picks(fs) : Joint(c) = {}
  BY <1>2 DEF Picks, Joint
<1>4. Product(fs) # {}
  BY <1>2, ProductOk
<1>5. Product(fs) = {Joint(c) : c \in Picks(fs)}
  BY DEF Product, Picks, Joint
<1>6. Product(fs) = {{}}
  BY <1>3, <1>4, <1>5
<1>7. QED
  BY <1>1, <1>2, <1>6 DEF AllLeaves, Expanded

-----------------------------------------------------------------------------
(* What the analyzer and PostgreSQL make of the leaves.                     *)

LeavesResolve(sources) ==
    \A e \in AllLeaves : \A j \in DOMAIN e.parts : resolve_column(sources, e.parts[j]) # {}

LEMMA LeafColumnsThere ==
    ASSUME group \in Clauses, NEW sources, LeavesResolve(sources), NEW e \in AllLeaves
    PROVE  LeafColumns(sources, e) # {}
<1> DEFINE parts == e.parts
<1>1. parts \in Seq(STRING) /\ parts # <<>>
  BY LeafSetsOk
<1>2. Len(parts) \in Nat /\ Len(parts) # 0 /\ DOMAIN parts = 1..Len(parts)
  BY <1>1, SeqTyped, EmptySeq
<1> HIDE DEF parts
<1>3. 1 \in DOMAIN parts
  BY <1>2
<1>4. resolve_column(sources, parts[1]) # {}
  BY <1>3 DEF LeavesResolve, parts
<1>5. resolve_column(sources, parts[1]) \subseteq LeafColumns(sources, e)
  BY <1>3 DEF LeafColumns, parts
<1>6. QED
  BY <1>4, <1>5

\* A leaf the check does not skip is one column, for both.
IsColumn(sources, e, p) ==
    /\ p \in resolve_column(sources, e.parts[1])
    /\ LeafColumns(sources, e) = {p} /\ singleton_set(sources, e) = {Key(sources, p)}

LEMMA LeafIsColumn ==
    ASSUME group \in Clauses, NEW sources \in Seq(Source), ~check_skipped(sources), NEW e \in AllLeaves
    PROVE  \E p \in Positions(sources) : IsColumn(sources, e, p)
<1> DEFINE parts == e.parts
           R == resolve_column(sources, parts[1])
<1>1. parts \in Seq(STRING)
  BY LeafSetsOk
<1>2. singleton_set(sources, e) # {}
  BY DEF check_skipped
<1>3. Len(parts) = 1 /\ singleton_set(sources, e) = {Key(sources, p) : p \in R}
  BY <1>2 DEF singleton_set
<1>4. DOMAIN parts = {1}
  <2>1. DOMAIN parts = 1..1
    BY <1>1, <1>3, SeqTyped
  <2>2. QED
    BY <2>1
<1>5. LeafColumns(sources, e) = R
  BY <1>4 DEF LeafColumns
<1> HIDE DEF R
<1>6. PICK p \in R : TRUE
  BY <1>2, <1>3
<1>7. R = {p} /\ p \in Positions(sources)
  BY <1>6, Resolved DEF R
<1>8. QED
  BY <1>3, <1>5, <1>7 DEF IsColumn, R

\* Resolved columns with the same key are the same.
LEMMA SamePlace ==
    ASSUME NEW sources \in Seq(Source), NEW m, NEW n,
           NEW p \in resolve_column(sources, m), NEW q \in resolve_column(sources, n),
           Key(sources, p) = Key(sources, q)
    PROVE  p = q
<1>1. Col(sources, p).name = m /\ Col(sources, q).name = n
  BY Resolved
<1>2. m = n
  BY <1>1 DEF Key
<1>3. QED
  BY <1>2, ResolveColumn

LEMMA LeavesApart ==
    ASSUME NEW sources \in Seq(Source), NEW e, NEW f, NEW p, NEW q,
           IsColumn(sources, e, p), IsColumn(sources, f, q), Key(sources, p) = Key(sources, q)
    PROVE  p = q
BY SamePlace DEF IsColumn

SetOf(sources, L) == UNION {LeafColumns(sources, e) : e \in L}
KeysOf(sources, L) == UNION {singleton_set(sources, e) : e \in L}

LEMMA SetsFromLeaves ==
    ASSUME NEW sources
    PROVE  /\ GroupingSets(sources) = {SetOf(sources, L) : L \in LeafSets}
           /\ analyzed_sets(sources) = {KeysOf(sources, L) : L \in LeafSets}
           /\ grouped_cols(sources) = KeysOf(sources, AllLeaves)
BY DEF GroupingSets, analyzed_sets, grouped_cols, SetOf, KeysOf

\* The empty grouping set is one the analyzer sees.
LEMMA EmptySetSeen ==
    ASSUME group \in Clauses, group # <<>>, NEW sources, LeavesResolve(sources),
           {} \in GroupingSets(sources)
    PROVE  has_empty_grouping_set(sources)
<1>1. PICK L \in LeafSets : SetOf(sources, L) = {}
  BY SetsFromLeaves
<1>2. L \subseteq AllLeaves
  BY LeafSetsOk
<1>3. L = {}
  BY <1>1, <1>2, LeafColumnsThere DEF SetOf
<1>4. Expanded
  BY <1>3, LeafSetsOk
<1>5. KeysOf(sources, L) = {}
  BY <1>3 DEF KeysOf
<1>6. QED
  BY <1>4, <1>5, SetsFromLeaves DEF has_empty_grouping_set

\* A grouped column that is not omitted is in every grouping set.
LEMMA NotOmitted ==
    ASSUME group \in Clauses, NEW sources \in Seq(Source), Expanded, ~check_skipped(sources),
           NEW p, Key(sources, p) \in grouped_cols(sources),
           Key(sources, p) \notin grouping_omitted(sources), NEW L \in LeafSets
    PROVE  \E e \in L : Key(sources, p) \in singleton_set(sources, e)
<1> DEFINE k == Key(sources, p)
           sets == analyzed_sets(sources)
<1>1. PICK e \in AllLeaves : k \in singleton_set(sources, e)
  BY SetsFromLeaves DEF KeysOf
<1>2. PICK M \in LeafSets : e \in M
  BY LeafSetsOk
<1>3. k \in KeysOf(sources, M)
  BY <1>1, <1>2 DEF KeysOf
<1>4. KeysOf(sources, M) \in sets /\ KeysOf(sources, L) \in sets
  BY SetsFromLeaves
<1>5. k \in UNION sets
  BY <1>3, <1>4
<1>6. k \notin {x \in UNION sets : \E s \in sets : x \notin s}
  BY DEF grouping_omitted
<1>7. k \in KeysOf(sources, L)
  BY <1>4, <1>5, <1>6
<1>8. QED
  BY <1>7 DEF KeysOf

LEMMA SetNotEmpty ==
    ASSUME group \in Clauses, NEW sources \in Seq(Source), Expanded, ~check_skipped(sources),
           NEW p, Key(sources, p) \in grouped_cols(sources),
           Key(sources, p) \notin grouping_omitted(sources), NEW s \in GroupingSets(sources)
    PROVE  s # {}
<1>1. PICK L \in LeafSets : s = SetOf(sources, L)
  BY SetsFromLeaves
<1>2. PICK e \in L : Key(sources, p) \in singleton_set(sources, e)
  BY NotOmitted
<1>3. e \in AllLeaves
  BY <1>1, LeafSetsOk
<1>4. PICK q \in Positions(sources) : IsColumn(sources, e, q)
  BY <1>3, LeafIsColumn
<1>5. q \in SetOf(sources, L)
  BY <1>4 DEF IsColumn, SetOf
<1>6. QED
  BY <1>1, <1>5

LEMMA InEverySet ==
    ASSUME group \in Clauses, NEW sources \in Seq(Source), Expanded, ~check_skipped(sources),
           NEW p \in UNION GroupingSets(sources),
           Key(sources, p) \notin grouping_omitted(sources), NEW s \in GroupingSets(sources)
    PROVE  p \in s
<1>1. PICK M \in LeafSets : p \in SetOf(sources, M)
  BY SetsFromLeaves
<1>2. PICK e \in M : p \in LeafColumns(sources, e)
  BY <1>1 DEF SetOf
<1>3. e \in AllLeaves
  BY <1>1, LeafSetsOk
<1>4. IsColumn(sources, e, p)
  BY <1>2, <1>3, LeafIsColumn DEF IsColumn
<1>5. Key(sources, p) \in grouped_cols(sources)
  BY <1>3, <1>4, SetsFromLeaves DEF IsColumn, KeysOf
<1>6. PICK L \in LeafSets : s = SetOf(sources, L)
  BY SetsFromLeaves
<1>7. PICK f \in L : Key(sources, p) \in singleton_set(sources, f)
  BY <1>5, NotOmitted
<1>8. f \in AllLeaves
  BY <1>6, LeafSetsOk
<1>9. PICK q \in Positions(sources) : IsColumn(sources, f, q)
  BY <1>8, LeafIsColumn
<1>10. Key(sources, p) = Key(sources, q)
  BY <1>7, <1>9 DEF IsColumn
<1>11. p = q
  BY <1>4, <1>9, <1>10, LeavesApart
<1>12. QED
  BY <1>6, <1>9, <1>11 DEF IsColumn, SetOf

\* Without ROLLUP, CUBE or GROUPING SETS there is one grouping set.
LEMMA OneSet ==
    ASSUME group \in Clauses, NEW sources, ~Expanded, NEW s \in GroupingSets(sources)
    PROVE  s = UNION GroupingSets(sources)
<1>1. \A L \in LeafSets : L = AllLeaves
  BY LeafSetsOk
<1>2. \A t \in GroupingSets(sources) : t = SetOf(sources, AllLeaves)
  BY <1>1, SetsFromLeaves
<1>3. QED
  BY <1>2

-----------------------------------------------------------------------------
(* The FROM clause as a whole.                                              *)

ScopeFacts(f) ==
    /\ ItemOk(f) /\ f.sources \in Seq(Source)
    /\ gaps = {} => NullsOk(f, marked)
    /\ gaps \cap StarGaps = {} => StarOk(f, hidden) /\ \A k \in hidden : k[1] # ""
    /\ group # <<>> => group \in Clauses /\ LeavesResolve(f.sources)

LEMMA FromFacts ==
    ASSUME IInv
    PROVE  ScopeFacts(From)
<1>1. ItemsOk /\ NullsHold /\ StarsHold /\ GroupOk
  BY DEF IInv, ScopeOk
<1>2. /\ ItemOk(From)
      /\ \A M : (\A i \in DOMAIN items : NullsOk(items[i], M)) => NullsOk(From, M)
      /\ \A H : (\A i \in DOMAIN items : StarOk(items[i], H)) => StarOk(From, H)
  BY <1>1, FromOk
<1>3. From.sources \in Seq(Source)
  BY <1>2 DEF ItemOk, Item
<1>4. gaps = {} => NullsOk(From, marked)
  BY <1>1, <1>2 DEF NullsHold
<1>5. gaps \cap StarGaps = {} => StarOk(From, hidden) /\ \A k \in hidden : k[1] # ""
  BY <1>1, <1>2 DEF StarsHold
<1>6. group # <<>> => group \in Clauses /\ LeavesResolve(From.sources)
  BY <1>1 DEF GroupOk, LeavesResolve
<1>7. QED
  BY <1>2, <1>3, <1>4, <1>5, <1>6 DEF ScopeFacts

-----------------------------------------------------------------------------
(* Expressions and the groups they are evaluated in.                        *)

OfOne == {"column", "max", "max_filter", "case", "case_else", "lag"}
OfTwo == {"coalesce", "strict", "lag_default"}

\* What an expression is made of.
ReadsOne(sources, e) ==
    /\ e.op \in OfOne /\ e.args[1] \in Reachable(sources) /\ ToSet(e.args) = {e.args[1]}

ReadsTwo(sources, e) ==
    /\ e.op \in OfTwo /\ e.args[1] \in Reachable(sources) /\ e.args[2] \in Reachable(sources)
    /\ ToSet(e.args) = {e.args[1], e.args[2]}

ReadsNone(e) == e.op = "count" /\ ToSet(e.args) = {}

ReadsResult(e) == e.op \in Sublinks /\ e.args[1] \in DOMAIN results

LEMMA ExpressionShapes ==
    ASSUME NEW sources, NEW e \in Expressions(sources)
    PROVE  ReadsOne(sources, e) \/ ReadsTwo(sources, e) \/ ReadsNone(e) \/ ReadsResult(e)
<1> DEFINE ps == Reachable(sources)
<1>1. \/ e \in [op : OfOne, args : {<<p>> : p \in ps}]
      \/ e \in [op : OfTwo, args : {a \in ps \X ps : a[1][1] < a[2][1]}]
      \/ e \in [op : {"count"}, args : {<<>>}]
      \/ e \in [op : {"scalar", "exists"}, args : {<<k>> : k \in DOMAIN results}]
  BY DEF Expressions, OfOne, OfTwo
<1> HIDE DEF ps
<1>2. CASE e \in [op : OfOne, args : {<<p>> : p \in ps}]
  <2>1. PICK p \in ps : e.args = <<p>>
    BY <1>2
  <2>2. e.args[1] = p /\ ToSet(e.args) = {p}
    BY <2>1 DEF ToSet
  <2>3. QED
    BY <1>2, <2>2 DEF ReadsOne, ps
<1>3. CASE e \in [op : OfTwo, args : {a \in ps \X ps : a[1][1] < a[2][1]}]
  <2>1. e.op \in OfTwo /\ e.args \in ps \X ps
    BY <1>3
  <2>2. PICK p \in ps, q \in ps : e.args = <<p, q>>
    BY <2>1
  <2>3. DOMAIN <<p, q>> = {1, 2}
    OBVIOUS
  <2>4. e.args[1] = p /\ e.args[2] = q /\ ToSet(e.args) = {p, q}
    BY <2>2, <2>3 DEF ToSet
  <2>5. QED
    BY <2>1, <2>4 DEF ReadsTwo, ps
<1>4. CASE e \in [op : {"count"}, args : {<<>>}]
  BY <1>4 DEF ReadsNone, ToSet
<1>5. CASE e \in [op : {"scalar", "exists"}, args : {<<k>> : k \in DOMAIN results}]
  BY <1>5 DEF ReadsResult, Sublinks
<1>6. QED
  BY <1>1, <1>2, <1>3, <1>4, <1>5

\* A group: some rows, one at least of every set that is not empty, and these
\* have the same values where the set has them.
GroupFits(f, e, g) ==
    /\ g.rows \subseteq f.rows
    /\ group = <<>> /\ e.op \notin Aggregates => g.set = {} /\ \E r \in f.rows : g.rows = {r}
    /\ group = <<>> /\ e.op \in Aggregates => g.set = {} /\ g.rows = f.rows
    /\ group # <<>> =>
          /\ g.set \in GroupingSets(f.sources)
          /\ g.set # {} => g.rows # {}
          /\ \A p \in g.set : \A x, y \in g.rows : At(x, p) = At(y, p)

LEMMA GroupsFit ==
    ASSUME NEW f, NEW e, NEW g \in Groups(f, e)
    PROVE  GroupFits(f, e, g)
<1>1. CASE group = <<>> /\ e.op \in Aggregates
  <2>1. g = [set |-> {}, rows |-> f.rows]
    BY <1>1 DEF Groups
  <2>2. QED
    BY <1>1, <2>1 DEF GroupFits
<1>2. CASE group = <<>> /\ e.op \notin Aggregates
  <2>1. PICK r \in f.rows : g = [set |-> {}, rows |-> {r}]
    BY <1>2 DEF Groups
  <2>2. QED
    BY <1>2, <2>1 DEF GroupFits
<1>3. CASE group # <<>>
  <2>1. PICK s \in GroupingSets(f.sources) :
          g \in IF s = {} THEN {[set |-> s, rows |-> f.rows]}
                ELSE {[set |-> s, rows |-> {x \in f.rows : \A p \in s : At(x, p) = At(r, p)}] :
                        r \in f.rows}
    BY <1>3 DEF Groups
  <2>2. CASE s = {}
    <3>1. g = [set |-> s, rows |-> f.rows]
      BY <2>1, <2>2
    <3>2. QED
      BY <1>3, <2>2, <3>1 DEF GroupFits
  <2>3. CASE s # {}
    <3>1. PICK r \in f.rows :
            g = [set |-> s, rows |-> {x \in f.rows : \A p \in s : At(x, p) = At(r, p)}]
      BY <2>1, <2>3
    <3>2. r \in g.rows /\ g.set = s /\ \A x \in g.rows : x \in f.rows /\ \A p \in s : At(x, p) = At(r, p)
      BY <3>1
    <3>3. \A p \in s : \A x, y \in g.rows : At(x, p) = At(y, p)
      BY <3>2
    <3>4. QED
      BY <1>3, <3>2, <3>3 DEF GroupFits
  <2>4. QED
    BY <2>2, <2>3
<1>4. QED
  BY <1>1, <1>2, <1>3

LEMMA ReachableThere ==
    ASSUME NEW sources, NEW p \in Reachable(sources)
    PROVE  p \in Positions(sources)
BY DEF Reachable

\* Outside the shapes known to be wrong, every leaf is a column, the columns of
\* an expression are grouped, and so are the arguments of a window call.
LEMMA NoExprGap ==
    ASSUME NEW f, NEW e, ExprGaps(f, e) = {}
    PROVE  /\ group # <<>> /\ Expanded =>
                 /\ ~check_skipped(f.sources)
                 /\ \A p \in Columns(e) : Key(f.sources, p) \in grouped_cols(f.sources)
           /\ group # <<>> /\ e.op \in Windows /\ ~check_skipped(f.sources) =>
                 Ungrouped(f.sources, e) = {}
           /\ e.op = "scalar" => ~results[e.args[1]].cut
BY DEF ExprGaps

LEMMA ValuesThere ==
    ASSUME NEW f, NEW g, NEW p
    PROVE  /\ p \notin (UNION GroupingSets(f.sources)) \ g.set /\ g.rows # {}
              => ValuesOf(f, g, p) = {At(r, p) : r \in g.rows}
           /\ p \in (UNION GroupingSets(f.sources)) \ g.set \/ g.rows = {}
              => ValuesOf(f, g, p) = {Null}
BY DEF ValuesOf

LEMMA NoGroupingSet ==
    ASSUME group = <<>>, NEW sources
    PROVE  UNION GroupingSets(sources) = {}
<1>1. LeafSets = {{}}
  BY NoGroup
<1>2. GroupingSets(sources) = {SetOf(sources, L) : L \in LeafSets}
  BY SetsFromLeaves
<1>3. SetOf(sources, {}) = {}
  BY DEF SetOf
<1>4. QED
  BY <1>1, <1>2, <1>3

\* The rows of a group are there, and the column is not left out of it.
LEMMA ColumnInGroup ==
    ASSUME NEW f, ScopeFacts(f), NEW e, NEW g, GroupFits(f, e, g), ExprGaps(f, e) = {},
           e.op \notin Aggregates, NEW p \in Columns(e), ~is_nullable(f.sources, p)
    PROVE  p \notin (UNION GroupingSets(f.sources)) \ g.set /\ g.rows # {}
<1> DEFINE sources == f.sources
<1>0. sources \in Seq(Source)
  BY DEF ScopeFacts
<1> HIDE DEF sources
<1>1. CASE group = <<>>
  <2>1. UNION GroupingSets(sources) = {}
    BY <1>1, NoGroupingSet
  <2>2. g.rows # {}
    BY <1>1 DEF GroupFits
  <2>3. QED
    BY <2>1, <2>2 DEF sources
<1>2. CASE group # <<>>
  <2>1. /\ g.set \in GroupingSets(sources) /\ (g.set # {} => g.rows # {})
        /\ group \in Clauses /\ LeavesResolve(sources)
    BY <1>2 DEF GroupFits, ScopeFacts, sources
  <2>2. CASE ~Expanded
    <3>1. g.set = UNION GroupingSets(sources)
      BY <2>1, <2>2, OneSet
    <3>2. g.set # {}
      <4>1. g.set = {} => has_empty_grouping_set(sources)
        BY <1>2, <2>1, EmptySetSeen
      <4>2. QED
        BY <2>2, <4>1 DEF has_empty_grouping_set
    <3>3. QED
      BY <2>1, <3>1, <3>2 DEF sources
  <2>3. CASE Expanded
    <3>1. ~check_skipped(sources) /\ Key(sources, p) \in grouped_cols(sources)
      BY <1>2, <2>3, NoExprGap DEF sources
    <3>2. Key(sources, p) \notin grouping_omitted(sources)
      BY DEF is_nullable, sources
    <3>3. g.set # {}
      BY <1>0, <2>1, <2>3, <3>1, <3>2, SetNotEmpty
    <3>4. p \in UNION GroupingSets(sources) => p \in g.set
      BY <1>0, <2>1, <2>3, <3>1, <3>2, InEverySet
    <3>5. QED
      BY <2>1, <3>3, <3>4 DEF sources
  <2>4. QED
    BY <2>2, <2>3
<1>3. QED
  BY <1>1, <1>2

\* A column the analyzer takes for NOT NULL is not NULL in any row.
LEMMA RowsNotNull ==
    ASSUME NEW f, ScopeFacts(f), gaps = {}, NEW p \in Positions(f.sources), ~is_nullable(f.sources, p),
           NEW r \in f.rows
    PROVE  At(r, p) # Null
<1>1. NullsOk(f, marked)
  BY DEF ScopeFacts
<1>2. Col(f.sources, p).notnull /\ f.sources[p[1]].alias \notin marked
  BY DEF is_nullable
<1>3. QED
  BY <1>1, <1>2 DEF NullsOk

LEMMA SettledNotNull ==
    ASSUME NEW f, ScopeFacts(f), gaps = {}, NEW e, NEW g, GroupFits(f, e, g), ExprGaps(f, e) = {},
           e.op \notin Aggregates, NEW p \in Columns(e), p \in Positions(f.sources),
           ~is_nullable(f.sources, p)
    PROVE  Null \notin ValuesOf(f, g, p)
<1>1. p \notin (UNION GroupingSets(f.sources)) \ g.set /\ g.rows # {}
  BY ColumnInGroup
<1>2. ValuesOf(f, g, p) = {At(r, p) : r \in g.rows}
  BY <1>1, ValuesThere
<1>3. \A r \in g.rows : r \in f.rows
  BY DEF GroupFits
<1>4. \A r \in f.rows : At(r, p) # Null
  BY RowsNotNull
<1>5. QED
  BY <1>2, <1>3, <1>4

\* A maximum reported NOT NULL is taken over some rows.
LEMMA MaxNotNull ==
    ASSUME NEW f, ScopeFacts(f), gaps = {}, NEW e, NEW g, GroupFits(f, e, g), e.op = "max",
           NEW p \in Positions(f.sources), p = e.args[1], ~is_nullable(f.sources, p),
           group # <<>>, ~has_empty_grouping_set(f.sources)
    PROVE  Null \notin Eval(f, g, e)
<1> DEFINE all == {At(r, p) : r \in g.rows} \ {Null}
<1>1. /\ g.set \in GroupingSets(f.sources) /\ (g.set # {} => g.rows # {})
      /\ group \in Clauses /\ LeavesResolve(f.sources) /\ \A r \in g.rows : r \in f.rows
  BY DEF GroupFits, ScopeFacts
<1>2. g.set # {}
  BY <1>1, EmptySetSeen
<1>3. \A r \in f.rows : At(r, p) # Null
  BY RowsNotNull
<1>4. PICK r \in g.rows : At(r, p) # Null
  BY <1>1, <1>2, <1>3
<1>5. Eval(f, g, e) = IF all = {} THEN {Null} ELSE all
  BY DEF Eval
<1>6. all # {}
  BY <1>4
<1>7. QED
  BY <1>5, <1>6

\* What the analyzer reports, by the kind of expression.
LEMMA NullableOf ==
    ASSUME NEW sources, NEW e
    PROVE  /\ e.op = "column" => (Nullable(sources, e) <=> is_nullable(sources, e.args[1]))
           /\ e.op = "case_else" => (Nullable(sources, e) <=> any_nullable(sources, e))
           /\ e.op = "coalesce" => (Nullable(sources, e) <=> infer_coalesce(sources, e))
           /\ e.op \in {"strict", "lag_default"} => (Nullable(sources, e) <=> any_nullable(sources, e))
           /\ e.op = "max" => (Nullable(sources, e) <=>
                   group = <<>> \/ has_empty_grouping_set(sources) \/ any_nullable(sources, e))
           /\ e.op \in {"max_filter", "lag", "case"} => Nullable(sources, e)
           /\ e.op = "count" => (Nullable(sources, e) <=> FALSE)
           /\ e.op = "exists" => (Nullable(sources, e) <=> FALSE)
           /\ e.op = "scalar" => (Nullable(sources, e) <=>
                   ~results[e.args[1]].one \/ results[e.args[1]].cols[1].nullable)
<1>1. CASE e.op \in {"column", "case_else", "coalesce", "case"}
  BY <1>1 DEF Nullable, Sublinks, infer_case, infer_coalesce, any_nullable
<1>2. CASE e.op \in {"strict", "lag_default", "max", "max_filter", "lag", "count"}
  BY <1>2 DEF Nullable, Sublinks, resolve_func_nullability
<1>3. CASE e.op \in {"exists", "scalar"}
  BY <1>3 DEF Nullable, Sublinks, infer_sublink
<1>4. QED
  BY <1>1, <1>2, <1>3

\* What it evaluates to.
LEMMA EvalOf ==
    ASSUME NEW f, NEW g, NEW e
    PROVE  /\ e.op = "column" => Eval(f, g, e) = ValuesOf(f, g, e.args[1])
           /\ e.op = "case_else" => Eval(f, g, e) = ValuesOf(f, g, e.args[1]) \cup {1}
           /\ e.op = "lag_default" => Eval(f, g, e) = ValuesOf(f, g, e.args[1]) \cup ValuesOf(f, g, e.args[2])
           /\ e.op = "strict" => Eval(f, g, e) =
                 IF Null \in ValuesOf(f, g, e.args[1]) \cup ValuesOf(f, g, e.args[2]) THEN {Null}
                 ELSE ValuesOf(f, g, e.args[1])
           /\ e.op = "coalesce" => Eval(f, g, e) =
                 (ValuesOf(f, g, e.args[1]) \ {Null})
                 \cup (IF Null \in ValuesOf(f, g, e.args[1]) THEN ValuesOf(f, g, e.args[2]) ELSE {})
           /\ e.op \in {"case", "lag"} => Eval(f, g, e) = ValuesOf(f, g, e.args[1]) \cup {Null}
           /\ e.op \in {"count", "exists"} => Eval(f, g, e) = {1}
           /\ e.op = "scalar" => Eval(f, g, e) =
                 IF results[e.args[1]].rows = {} THEN {Null} ELSE {r[1] : r \in results[e.args[1]].rows}
           /\ e.op = "max_filter" => Eval(f, g, e) = {Null} \cup {At(r, e.args[1]) : r \in g.rows}
<1>1. CASE e.op \in {"column", "case_else", "lag_default", "strict"}
  BY <1>1 DEF Eval
<1>2. CASE e.op \in {"coalesce", "case", "lag", "count"}
  BY <1>2 DEF Eval
<1>3. CASE e.op \in {"exists", "scalar", "max_filter"}
  BY <1>3 DEF Eval
<1>4. QED
  BY <1>1, <1>2, <1>3

LEMMA FirstColumn ==
    ASSUME NEW q, ResultOk(q)
    PROVE  1 \in DOMAIN q.cols /\ q.cols[1] \in Reported /\ \A r \in q.rows : r[1] \in Nat
<1>1. q.cols \in Seq(Reported) /\ q.cols # <<>> /\ q.rows \subseteq Seq(Nat)
  BY DEF ResultOk, Result, Values
<1>2. Len(q.cols) \in Nat /\ Len(q.cols) # 0 /\ DOMAIN q.cols = 1..Len(q.cols)
  BY <1>1, SeqTyped, EmptySeq
<1>3. 1 \in DOMAIN q.cols
  BY <1>2
<1>4. \A r \in q.rows : r \in Seq(Nat) /\ 1 \in DOMAIN r
  BY <1>1, <1>3 DEF ResultOk
<1>5. QED
  BY <1>1, <1>3, <1>4, SeqTyped

LEMMA ReportHolds ==
    ASSUME NEW f, ScopeFacts(f), ResultsOk, ResultsHold, gaps = {},
           NEW e \in Expressions(f.sources), ~Nullable(f.sources, e), ExprGaps(f, e) = {},
           NEW g, GroupFits(f, e, g)
    PROVE  Null \notin Eval(f, g, e)
<1> DEFINE sources == f.sources
           a == e.args[1]
           b == e.args[2]
<1>0. 1 # Null
  BY DEF Null
<1>1. ReadsOne(sources, e) \/ ReadsTwo(sources, e) \/ ReadsNone(e) \/ ReadsResult(e)
  BY ExpressionShapes
<1>2. CASE ReadsOne(sources, e)
  <2>1. e.op \in OfOne /\ a \in Positions(sources) /\ ToSet(e.args) = {a}
    BY <1>2, ReachableThere DEF ReadsOne
  <2>2. any_nullable(sources, e) <=> is_nullable(sources, a)
    BY <2>1 DEF any_nullable
  <2>3. e.op \in {"column", "case_else", "max"}
    BY <2>1, NullableOf DEF OfOne
  <2>4. ~is_nullable(sources, a)
    BY <2>2, <2>3, NullableOf
  <2>5. CASE e.op = "max"
    <3>1. group # <<>> /\ ~has_empty_grouping_set(sources)
      BY <2>5, NullableOf
    <3>2. QED
      BY <2>1, <2>4, <2>5, <3>1, MaxNotNull
  <2>6. CASE e.op \in {"column", "case_else"}
    <3>1. e.op \notin Aggregates /\ Columns(e) = {a}
      BY <2>1, <2>6 DEF Aggregates, Columns, Sublinks
    <3>2. Null \notin ValuesOf(f, g, a)
      BY <2>1, <2>4, <3>1, SettledNotNull
    <3>3. QED
      BY <1>0, <2>6, <3>2, EvalOf
  <2>7. QED
    BY <2>3, <2>5, <2>6
<1>3. CASE ReadsTwo(sources, e)
  <2>1. e.op \in OfTwo /\ a \in Positions(sources) /\ b \in Positions(sources) /\ ToSet(e.args) = {a, b}
    BY <1>3, ReachableThere DEF ReadsTwo
  <2>2. e.op \notin Aggregates /\ a \in Columns(e) /\ b \in Columns(e)
    BY <2>1 DEF Aggregates, Columns, Sublinks, OfTwo
  <2>3. /\ ~is_nullable(sources, a) => Null \notin ValuesOf(f, g, a)
        /\ ~is_nullable(sources, b) => Null \notin ValuesOf(f, g, b)
    BY <2>1, <2>2, SettledNotNull
  <2>4. CASE e.op = "coalesce"
    <3>1. ~is_nullable(sources, a) \/ ~is_nullable(sources, b)
      BY <2>1, <2>4, NullableOf DEF infer_coalesce
    <3>2. QED
      BY <2>3, <2>4, <3>1, EvalOf
  <2>5. CASE e.op \in {"strict", "lag_default"}
    <3>1. ~is_nullable(sources, a) /\ ~is_nullable(sources, b)
      BY <2>1, <2>5, NullableOf DEF any_nullable
    <3>2. QED
      BY <2>3, <2>5, <3>1, EvalOf
  <2>6. QED
    BY <2>1, <2>4, <2>5 DEF OfTwo
<1>4. CASE ReadsNone(e)
  BY <1>0, <1>4, EvalOf DEF ReadsNone
<1>5. CASE ReadsResult(e)
  <2>1. e.op \in {"scalar", "exists"} /\ a \in DOMAIN results
    BY <1>5 DEF ReadsResult, Sublinks
  <2>2. CASE e.op = "scalar"
    <3> DEFINE q == results[a]
    <3>1. q.one /\ ~q.cols[1].nullable /\ ~q.cut
      BY <2>2, NullableOf, NoExprGap
    <3>2. ResultOk(q)
      BY <2>1 DEF ResultsOk
    <3>3. q.rows # {} /\ 1 \in DOMAIN q.cols
      BY <3>1, <3>2, FirstColumn DEF ResultOk
    <3>4. \A r \in q.rows : r[1] # Null
      BY <2>1, <3>1, <3>3 DEF ResultsHold
    <3>5. Eval(f, g, e) = {r[1] : r \in q.rows}
      BY <2>2, <3>3, EvalOf
    <3>6. QED
      BY <3>4, <3>5
  <2>3. CASE e.op = "exists"
    BY <1>0, <2>3, EvalOf
  <2>4. QED
    BY <2>1, <2>2, <2>3
<1>6. QED
  BY <1>1, <1>2, <1>3, <1>4, <1>5

\* What the analyzer reports NOT NULL never is NULL.
LEMMA ReportsFollow == IInv => ReportsHold
<1> SUFFICES ASSUME IInv, gaps = {}, NEW e \in Expressions(From.sources),
                    ~Nullable(From.sources, e), check_grouping(From.sources, e),
                    ExprGaps(From, e) = {}, NEW g \in Groups(From, e)
             PROVE  Null \notin Eval(From, g, e)
  BY DEF ReportsHold
<1>1. ScopeFacts(From) /\ ResultsOk /\ ResultsHold
  BY FromFacts DEF IInv
<1>2. GroupFits(From, e, g)
  BY GroupsFit
<1>3. QED
  BY <1>1, <1>2, ReportHolds

-----------------------------------------------------------------------------
(* Grouped columns are settled.                                             *)

\* A column a reference can reach, of the same alias and name as one that
\* resolves, is that one.
LEMMA SameColumn ==
    ASSUME NEW f, ScopeFacts(f), NEW p \in Reachable(f.sources), NEW name,
           NEW q \in resolve_column(f.sources, name), Key(f.sources, p) = Key(f.sources, q)
    PROVE  p = q
<1> DEFINE sources == f.sources
           n == Col(sources, p).name
           src == sources[p[1]]
<1>0. sources \in Seq(Source) /\ AliasesApart(f)
  BY DEF ScopeFacts, ItemOk
<1>1. p \in Positions(sources) /\ q \in Positions(sources)
  BY <1>0, Resolved, ReachableThere
<1>2. src.alias = sources[q[1]].alias /\ n = Col(sources, q).name
  BY DEF Key
<1>3. CASE resolve_column(sources, n) = {p}
  BY <1>0, <1>3, SamePlace
<1>4. CASE src.alias # "" /\ find_col(<<src>>, n) = {<<1, p[2]>>}
  <2>1. p[1] \in DOMAIN sources /\ q[1] \in DOMAIN sources /\ p[2] \in DOMAIN src.cols
        /\ p = <<p[1], p[2]>> /\ q = <<q[1], q[2]>> /\ q[2] \in DOMAIN sources[q[1]].cols
        /\ p \in Places /\ q \in Places /\ src \in Source
    BY <1>0, <1>1, PositionsTyped
  <2>2. p[1] = q[1]
    BY <1>0, <1>2, <1>4, <2>1 DEF AliasesApart
  <2>3. Col(sources, q).name = name /\ Key(sources, p) \notin hidden
    BY <1>0, Resolved
  <2>4. ~Before(p, q)
    BY <1>0, <1>1, <1>2, <2>2, <2>3, Resolved
  <2>5. q[2] = p[2]
    <3> DEFINE one == <<src>>
               x == <<1, q[2]>>
    <3>1. one \in Seq(Source) /\ DOMAIN one = {1} /\ one[1] = src
      BY <2>1
    <3>2. x \in Positions(one) /\ Col(one, x).name = n
      BY <1>2, <2>1, <2>2, <3>1, PositionsTyped DEF Col
    <3>3. find_col(one, n) = {y \in {z \in Positions(one) : Col(one, z).name = n} :
                \A w \in {z \in Positions(one) : Col(one, z).name = n} \ {y} : Before(y, w)}
      BY DEF find_col
    <3>4. <<1, p[2]>> \in find_col(one, n)
      BY <1>4
    <3>5. x = <<1, p[2]>> \/ Before(<<1, p[2]>>, x)
      BY <3>2, <3>3, <3>4
    <3>6. ~(p[2] < q[2])
      BY <2>2, <2>4 DEF Before
    <3>7. QED
      BY <3>5, <3>6 DEF Before
  <2>6. QED
    BY <2>1, <2>2, <2>5
<1>5. QED
  BY <1>3, <1>4 DEF Reachable

\* A grouped column is one PostgreSQL groups by.
LEMMA GroupedIsSet ==
    ASSUME NEW f, ScopeFacts(f), group # <<>>, ~check_skipped(f.sources),
           NEW k \in grouped_cols(f.sources)
    PROVE  \E name : \E q \in resolve_column(f.sources, name) :
              k = Key(f.sources, q) /\ q \in UNION GroupingSets(f.sources)
<1> DEFINE sources == f.sources
<1>0. sources \in Seq(Source) /\ group \in Clauses
  BY DEF ScopeFacts
<1> HIDE DEF sources
<1>1. PICK e \in AllLeaves : k \in singleton_set(sources, e)
  BY SetsFromLeaves DEF KeysOf, sources
<1>2. PICK q \in Positions(sources) : IsColumn(sources, e, q)
  <2>1. ~check_skipped(sources)
    BY DEF sources
  <2>2. QED
    BY <1>0, <1>1, <2>1, LeafIsColumn
<1>3. PICK L \in LeafSets : e \in L
  BY <1>0, LeafSetsOk
<1>4. q \in SetOf(sources, L)
  BY <1>2, <1>3 DEF IsColumn, SetOf
<1>5. q \in UNION GroupingSets(sources)
  BY <1>4, SetsFromLeaves
<1>6. k = Key(sources, q) /\ q \in resolve_column(sources, e.parts[1])
  BY <1>1, <1>2 DEF IsColumn
<1>7. QED
  BY <1>5, <1>6 DEF sources

\* The rows of a group agree on the columns of its set.
LEMMA GroupAgrees ==
    ASSUME NEW f, NEW e, NEW g, GroupFits(f, e, g), group # <<>>, NEW p \in g.set
    PROVE  g.rows # {} /\ \A x, y \in g.rows : At(x, p) = At(y, p)
BY DEF GroupFits

\* One grouping set, and in it the primary key of an alias: its columns are
\* settled.
LEMMA KeySettles ==
    ASSUME NEW f, ScopeFacts(f), group # <<>>, ~Expanded, ~check_skipped(f.sources),
           NEW e, NEW g, GroupFits(f, e, g), NEW p \in Positions(f.sources),
           f.sources[p[1]].alias \in fully_grouped(f.sources)
    PROVE  g.rows # {} /\ \A x, y \in g.rows : At(x, p) = At(y, p)
<1> DEFINE sources == f.sources
           src == sources[p[1]]
<1>0. /\ sources \in Seq(Source) /\ AliasesApart(f) /\ KeysNamed(f) /\ KeysSettle(f)
      /\ group \in Clauses
  BY DEF ScopeFacts, ItemOk
<1>1. PICK s \in DOMAIN sources :
        /\ src.alias = sources[s].alias /\ sources[s].key # {}
        /\ \A n \in sources[s].key : <<sources[s].alias, n>> \in grouped_cols(sources)
  BY DEF fully_grouped
<1>2. p[1] \in DOMAIN sources
  BY <1>0, PositionsTyped
<1>3. KeyNamed(sources[s])
  BY <1>0, <1>1 DEF KeysNamed
<1>4. s = p[1]
  BY <1>0, <1>1, <1>2, <1>3 DEF AliasesApart, KeyNamed
<1>5. g.set \in GroupingSets(sources) /\ g.set = UNION GroupingSets(sources)
  BY <1>0, OneSet DEF GroupFits
<1>6. ASSUME NEW c \in KeyPlaces(src) PROVE <<s, c>> \in g.set
  <2>1. c \in DOMAIN src.cols /\ src.cols[c].name \in src.key
    BY <1>6 DEF KeyPlaces
  <2>2. <<src.alias, src.cols[c].name>> \in grouped_cols(sources)
    BY <1>1, <1>4, <2>1
  <2>10. PICK name : \E q \in resolve_column(sources, name) :
           /\ <<src.alias, src.cols[c].name>> = Key(sources, q)
           /\ q \in UNION GroupingSets(sources)
    BY <2>2, GroupedIsSet
  <2>3. PICK q \in resolve_column(sources, name) :
          /\ <<src.alias, src.cols[c].name>> = Key(sources, q)
          /\ q \in UNION GroupingSets(sources)
    BY <2>10
  <2>4. q \in Positions(sources)
    BY <1>0, Resolved
  <2>5. q[1] \in DOMAIN sources /\ q[2] \in DOMAIN sources[q[1]].cols /\ q = <<q[1], q[2]>>
    BY <1>0, <2>4, PositionsTyped
  <2>6. src.alias = sources[q[1]].alias /\ src.cols[c].name = sources[q[1]].cols[q[2]].name
    BY <2>3 DEF Key, Col
  <2>7. q[1] = s
    BY <1>0, <1>2, <1>3, <1>4, <2>5, <2>6 DEF AliasesApart, KeyNamed
  <2>8. q[2] = c
    <3>1. NamesApart(src)
      BY <1>3, <1>4 DEF KeyNamed
    <3>2. q[2] \in DOMAIN src.cols /\ src.cols[c].name = src.cols[q[2]].name
      BY <1>4, <2>5, <2>6, <2>7
    <3>3. QED
      BY <2>1, <3>1, <3>2 DEF NamesApart
  <2>9. QED
    BY <1>5, <2>3, <2>5, <2>7, <2>8
<1>7. PICK k \in KeyPlaces(src) : TRUE
  <2>1. PICK n \in src.key : TRUE
    BY <1>1, <1>4
  <2>2. \E d \in DOMAIN src.cols : src.cols[d].name = n
    BY <1>3, <1>4 DEF KeyNamed
  <2>3. QED
    BY <2>1, <2>2 DEF KeyPlaces
<1>8. g.rows # {}
  BY <1>6, <1>7, GroupAgrees
<1>9. ASSUME NEW x \in g.rows, NEW y \in g.rows PROVE At(x, p) = At(y, p)
  <2>1. x \in f.rows /\ y \in f.rows
    BY DEF GroupFits
  <2>2. \A c \in KeyPlaces(src) : At(x, <<s, c>>) = At(y, <<s, c>>)
    BY <1>6, GroupAgrees
  <2>3. \A c \in KeyPlaces(src) : x[s][c] = y[s][c]
    BY <2>2 DEF At
  <2>4. x[s] = y[s]
    BY <1>0, <1>1, <1>4, <2>1, <2>3 DEF KeysSettle
  <2>5. QED
    BY <1>4, <2>4 DEF At
<1>10. QED
  BY <1>8, <1>9

\* A column the grouping check accepts has one value in every group.
LEMMA SettledOne ==
    ASSUME NEW f, ScopeFacts(f), group # <<>>, ~check_skipped(f.sources),
           NEW e \in Expressions(f.sources), e.op \notin Aggregates, ExprGaps(f, e) = {},
           check_grouping(f.sources, e), NEW g, GroupFits(f, e, g), NEW p \in Columns(e)
    PROVE  Cardinality(ValuesOf(f, g, p)) = 1
<1> DEFINE sources == f.sources
<1>0. sources \in Seq(Source) /\ group \in Clauses
  BY DEF ScopeFacts
<1>1. p \in Reachable(sources)
  <2>1. ReadsOne(sources, e) \/ ReadsTwo(sources, e) \/ ReadsNone(e) \/ ReadsResult(e)
    BY ExpressionShapes
  <2>2. QED
    BY <2>1 DEF ReadsOne, ReadsTwo, ReadsNone, ReadsResult, Columns, OfOne, OfTwo, Sublinks
<1>2. p \in Positions(sources)
  BY <1>1, ReachableThere
<1>3. Ungrouped(sources, e) = {}
  <2>1. CASE e.op \in Windows
    BY <2>1, NoExprGap
  <2>2. CASE e.op \notin Windows
    BY <2>2 DEF check_grouping, find_ungrouped, is_aggregate_or_window
  <2>3. QED
    BY <2>1, <2>2
<1>4. SUFFICES \E v : ValuesOf(f, g, p) = {v}
  BY FS_Singleton
<1>5. CASE p \in (UNION GroupingSets(sources)) \ g.set \/ g.rows = {}
  BY <1>5, ValuesThere
<1>6. CASE p \notin (UNION GroupingSets(sources)) \ g.set /\ g.rows # {}
  <2>1. \A x, y \in g.rows : At(x, p) = At(y, p)
    <3>1. CASE Key(sources, p) \in grouped_cols(sources)
      <4>5. PICK name : \E q \in resolve_column(sources, name) :
              Key(sources, p) = Key(sources, q) /\ q \in UNION GroupingSets(sources)
        BY <3>1, GroupedIsSet
      <4>1. PICK q \in resolve_column(sources, name) :
              Key(sources, p) = Key(sources, q) /\ q \in UNION GroupingSets(sources)
        BY <4>5
      <4>2. p = q
        BY <1>1, <4>1, SameColumn
      <4>3. p \in g.set
        BY <1>6, <4>1, <4>2
      <4>4. QED
        BY <4>3, GroupAgrees
    <3>2. CASE Key(sources, p) \notin grouped_cols(sources)
      <4>1. ~Expanded
        BY <3>2, NoExprGap
      <4>2. sources[p[1]].alias \in fully_grouped(sources)
        BY <1>3, <3>2 DEF Ungrouped
      <4>3. QED
        BY <1>2, <4>1, <4>2, KeySettles
    <3>3. QED
      BY <3>1, <3>2
  <2>2. ValuesOf(f, g, p) = {At(r, p) : r \in g.rows}
    BY <1>6, ValuesThere
  <2> DEFINE rows == g.rows
  <2>3. rows # {} /\ \A x, y \in rows : At(x, p) = At(y, p)
    BY <1>6, <2>1
  <2>4. ValuesOf(f, g, p) = {At(r, p) : r \in rows}
    BY <2>2
  <2> HIDE DEF rows
  <2>5. PICK x \in rows : TRUE
    BY <2>3
  <2>6. {At(r, p) : r \in rows} = {At(x, p)}
    BY <2>3, <2>5
  <2>7. QED
    BY <2>4, <2>6
<1>7. QED
  BY <1>5, <1>6

LEMMA GroupsFollow == IInv => GroupsSettled
<1> SUFFICES ASSUME IInv, group # <<>>, NEW e \in Expressions(From.sources),
                    e.op \notin Aggregates, ExprGaps(From, e) = {},
                    ~check_skipped(From.sources), check_grouping(From.sources, e),
                    NEW g \in Groups(From, e), NEW p \in Columns(e)
             PROVE  Cardinality(ValuesOf(From, g, p)) = 1
  BY DEF GroupsSettled
<1>1. ScopeFacts(From)
  BY FromFacts
<1>2. GroupFits(From, e, g)
  BY GroupsFit
<1>3. QED
  BY <1>1, <1>2, SettledOne

-----------------------------------------------------------------------------
(* `*' and the names that resolve.                                          *)

ShownPlaces(f) == [i \in DOMAIN f.out |-> f.out[i].at]

LEMMA OutTyped ==
    ASSUME NEW f, ItemOk(f)
    PROVE  /\ Len(f.out) \in Nat /\ DOMAIN f.out = 1..Len(f.out)
           /\ \A i \in DOMAIN f.out : f.out[i].at \in Places /\ f.out[i].at \in Positions(f.sources)
                                      /\ f.out[i].name = Col(f.sources, f.out[i].at).name
           /\ f.sources \in Seq(Source)
<1>1. f.out \in Seq(Shows) /\ f.sources \in Seq(Source) /\ OutNamed(f)
  BY DEF ItemOk, Item
<1>2. \A x \in Shows : x.at \in Places
  BY DEF Shows
<1>3. QED
  BY <1>1, <1>2, SeqTyped DEF OutNamed

\* The columns PostgreSQL shows, in their order, are those not merged away.
LEMMA StarIsShown ==
    ASSUME NEW f, ItemOk(f), StarOk(f, hidden)
    PROVE  star_columns(f.sources) = ShownPlaces(f)
<1> DEFINE sources == f.sources
           all == Ordered(sources)
           kept == {i \in DOMAIN all : Key(sources, all[i]) \notin hidden}
           t == ShownPlaces(f)
           n == Len(f.out)
           star == Keeping(all, kept)
<1>1. /\ n \in Nat /\ DOMAIN f.out = 1..n /\ sources \in Seq(Source)
      /\ \A i \in DOMAIN f.out : f.out[i].at \in Places /\ f.out[i].at \in Positions(sources)
  BY OutTyped
<1>2. all \in Seq(Places) /\ Members(all) = Positions(sources) /\ Increasing(all, PlaceOrder)
  BY <1>1, OrderedSorted
<1>3. t \in Seq(Places) /\ DOMAIN t = 1..n /\ \A i \in 1..n : t[i] = f.out[i].at
  <2>1. t \in [1..n -> Places]
    BY <1>1 DEF ShownPlaces
  <2>2. \A i \in 1..n : t[i] = f.out[i].at
    BY <1>1 DEF ShownPlaces
  <2> HIDE DEF t, n
  <2>3. QED
    BY <1>1, <2>1, <2>2, FunctionSeq
<1>4. star_columns(sources) = star
  BY DEF star_columns
<1> HIDE DEF all, t, n
<1>5. /\ star \in Seq(Places) /\ Members(star) = {all[i] : i \in DOMAIN all \cap kept}
      /\ Increasing(star, PlaceOrder)
  <2> HIDE DEF kept
  <2>1. QED
    BY <1>2, KeepingSorted
<1> HIDE DEF star
<1>6. Members(star) = {p \in Positions(sources) : Key(sources, p) \notin hidden}
  <2>1. \A p : p \in Positions(sources) <=> \E i \in DOMAIN all : all[i] = p
    BY <1>2 DEF Members
  <2>2. QED
    BY <1>5, <2>1
<1>7. Increasing(t, PlaceOrder)
  <2>1. \A i, j \in 1..n : i < j => Before(t[i], t[j])
    <3>1. \A i, j \in DOMAIN f.out : i < j => Before(f.out[i].at, f.out[j].at)
      BY DEF StarOk, StarShown
    <3>2. QED
      BY <1>1, <1>3, <3>1
  <2>2. \A i \in 1..n : t[i] \in Places
    BY <1>1, <1>3
  <2>3. \A i, j \in 1..n : i < j => <<t[i], t[j]>> \in PlaceOrder
    BY <2>1, <2>2, PlaceOrderStrict
  <2>4. QED
    BY <1>3, <2>3 DEF Increasing
<1>8. Members(t) = Members(star)
  <2>1. \A p \in Positions(sources) : Key(sources, p) \notin hidden <=> \E i \in 1..n : t[i] = p
    BY <1>1, <1>3 DEF StarOk, StarShown
  <2>2. \A i \in 1..n : t[i] \in Positions(sources)
    BY <1>1, <1>3
  <2>3. Members(t) = {t[i] : i \in 1..n}
    BY <1>3 DEF Members
  <2>4. QED
    BY <1>6, <2>1, <2>2, <2>3
<1>9. \A a, b \in Places : <<a, b>> \in PlaceOrder => <<b, a>> \notin PlaceOrder
  BY PlaceOrderStrict
<1>10. star = t
  BY <1>3, <1>5, <1>7, <1>8, <1>9, SameSorted
<1>11. QED
  BY <1>4, <1>10 DEF t

\* A name resolves exactly when PostgreSQL shows it once.
LEMMA NameIsShown ==
    ASSUME NEW f, ItemOk(f), StarOk(f, hidden), NEW name,
           NEW shown, shown = {i \in DOMAIN f.out : f.out[i].name = name}
    PROVE  resolve_column(f.sources, name) =
              IF Cardinality(shown) = 1 THEN {f.out[i].at : i \in shown} ELSE {}
<1> DEFINE sources == f.sources
           V == Visible(sources, name)
           F == FirstVisible(sources, name)
           at(i) == f.out[i].at
<1>1. /\ Len(f.out) \in Nat /\ DOMAIN f.out = 1..Len(f.out) /\ sources \in Seq(Source)
      /\ \A i \in DOMAIN f.out : at(i) \in Places /\ at(i) \in Positions(sources)
                                 /\ f.out[i].name = Col(sources, at(i)).name
  BY OutTyped
<1>2. /\ \A i, j \in DOMAIN f.out : i < j => Before(at(i), at(j))
      /\ \A p \in Positions(sources) : Key(sources, p) \notin hidden <=> \E i \in DOMAIN f.out : at(i) = p
      /\ \A s \in DOMAIN sources : NamesApart(sources[s])
  BY DEF StarOk, StarShown
<1>3. V = {at(i) : i \in shown}
  <2>1. \A i \in shown : at(i) \in V
    BY <1>1, <1>2 DEF Visible
  <2>2. ASSUME NEW p \in V PROVE \E i \in shown : at(i) = p
    <3>1. p \in Positions(sources) /\ Col(sources, p).name = name /\ Key(sources, p) \notin hidden
      BY DEF Visible
    <3>2. PICK i \in DOMAIN f.out : at(i) = p
      BY <1>2, <3>1
    <3>3. QED
      BY <1>1, <3>1, <3>2
  <2> HIDE DEF V
  <2>3. QED
    BY <2>1, <2>2
<1>4. F = V
  <2>1. ASSUME NEW p \in V, NEW q \in V, q[1] = p[1] PROVE ~Before(q, p)
    <3>1. p \in Positions(sources) /\ q \in Positions(sources)
          /\ Col(sources, p).name = name /\ Col(sources, q).name = name
      BY DEF Visible
    <3>2. /\ p[1] \in DOMAIN sources /\ p[2] \in DOMAIN sources[p[1]].cols
          /\ q[2] \in DOMAIN sources[p[1]].cols /\ p \in Places /\ q \in Places
          /\ p = <<p[1], p[2]>> /\ q = <<q[1], q[2]>>
      BY <1>1, <2>1, <3>1, PositionsTyped
    <3>3. p[2] = q[2]
      BY <1>2, <2>1, <3>1, <3>2 DEF NamesApart, Col
    <3>4. p = q
      BY <2>1, <3>2, <3>3
    <3>5. QED
      BY <3>2, <3>4, PlaceOrderStrict
  <2>2. F = {p \in V : ~ \E q \in V : q[1] = p[1] /\ Before(q, p)}
    BY DEF FirstVisible
  <2> HIDE DEF V, F
  <2>3. QED
    BY <2>1, <2>2
<1>5. resolve_column(sources, name) = (IF Cardinality(F) = 1 THEN F ELSE {}) /\ IsFiniteSet(F)
  BY <1>1, ResolveColumn
<1>6. \A i, j \in shown : at(i) = at(j) => i = j
  <2>1. \A i, j \in DOMAIN f.out : i < j => at(i) # at(j)
    BY <1>1, <1>2, PlaceOrderStrict
  <2>2. \A i, j \in DOMAIN f.out : i = j \/ i < j \/ j < i
    BY <1>1
  <2>3. QED
    BY <2>1, <2>2
<1>7. IsFiniteSet(shown)
  <2>1. 1 \in Int /\ Len(f.out) \in Int
    BY <1>1
  <2>2. IsFiniteSet(DOMAIN f.out)
    BY <1>1, <2>1, FS_Interval
  <2>3. shown \subseteq DOMAIN f.out
    OBVIOUS
  <2>4. QED
    BY <2>2, <2>3, FS_Subset
<1> HIDE DEF V, F, at
<1>8. Cardinality(shown) = 1 <=> Cardinality(F) = 1
  <2>1. Cardinality(shown) = 1 <=> \E i : shown = {i}
    BY <1>7, FS_Singleton
  <2>2. Cardinality(F) = 1 <=> \E p : F = {p}
    BY <1>5, FS_Singleton
  <2>3. ASSUME NEW i, shown = {i} PROVE F = {at(i)}
    BY <1>3, <1>4, <2>3
  <2>4. ASSUME NEW p, F = {p} PROVE \E i : shown = {i}
    <3>1. PICK i \in shown : at(i) = p
      BY <1>3, <1>4, <2>4
    <3>2. \A j \in shown : at(j) = p
      BY <1>3, <1>4, <2>4
    <3>4. \A j \in shown : j = i
      BY <1>6, <3>1, <3>2
    <3>3. QED
      BY <3>1, <3>4
  <2>5. QED
    BY <2>1, <2>2, <2>3, <2>4
<1>9. QED
  BY <1>3, <1>4, <1>5, <1>8 DEF at

LEMMA StarFollows == IInv => StarAgrees
<1> SUFFICES ASSUME IInv, gaps \cap {"using_chain", "same_name"} = {} PROVE
        \A f \in {From} :
            /\ star_columns(f.sources) = [i \in DOMAIN f.out |-> f.out[i].at]
            /\ \A n \in {f.out[i].name : i \in DOMAIN f.out} :
                  LET shown == {i \in DOMAIN f.out : f.out[i].name = n}
                  IN  resolve_column(f.sources, n) =
                        IF Cardinality(shown) = 1 THEN {f.out[i].at : i \in shown} ELSE {}
  BY DEF StarAgrees
<1> TAKE f \in {From}
<1>1. ItemOk(f) /\ StarOk(f, hidden)
  <2>1. gaps \cap StarGaps = {}
    BY DEF StarGaps
  <2>2. QED
    BY <2>1, FromFacts DEF ScopeFacts
<1>2. star_columns(f.sources) = [i \in DOMAIN f.out |-> f.out[i].at]
  BY <1>1, StarIsShown DEF ShownPlaces
<1>3. ASSUME NEW n \in {f.out[i].name : i \in DOMAIN f.out} PROVE
        LET shown == {i \in DOMAIN f.out : f.out[i].name = n}
        IN  resolve_column(f.sources, n) =
              IF Cardinality(shown) = 1 THEN {f.out[i].at : i \in shown} ELSE {}
  BY <1>1, NameIsShown
<1>4. QED
  BY <1>2, <1>3

-----------------------------------------------------------------------------
(* The last steps: GROUP BY and what is selected.                           *)

LEMMA GroupByStep ==
    ASSUME IInv, NEW c \in Clauses, GroupBy(c)
    PROVE  IInv'
<1>1. /\ items # <<>> /\ group' = c
      /\ \A i \in DOMAIN c : \A e \in Leaves(c[i]) : \A j \in DOMAIN e.parts :
            resolve_column(From.sources, e.parts[j]) # {}
      /\ UNCHANGED <<items, target, hidden, marked, results, gaps>>
  BY DEF GroupBy
<1>2. ScopeOk'
  BY <1>1 DEF IInv, ScopeOk, ItemsOk, AliasesTaken, HiddenTaken
<1>3. NullsHold' /\ StarsHold'
  BY <1>1 DEF IInv, NullsHold, StarsHold
<1>4. ResultsOk' /\ ResultsHold'
  BY <1>1 DEF IInv, ResultsOk, ResultsHold
<1>5. AllLeaves' = UNION {Leaves(c[i]) : i \in DOMAIN c}
  BY <1>1 DEF AllLeaves
<1>6. From' = From
  BY <1>1 DEF From
<1>7. \A n : resolve_column(From.sources, n)' = resolve_column(From.sources, n)
  BY <1>1, <1>6 DEF resolve_column
<1>8. GroupOk'
  <2>1. \A e \in AllLeaves' : \A j \in DOMAIN e.parts : resolve_column(From.sources, e.parts[j])' # {}
    BY <1>1, <1>5, <1>7
  <2>2. QED
    BY <1>1, <2>1 DEF GroupOk
<1>9. QED
  BY <1>2, <1>3, <1>4, <1>8 DEF IInv

\* A finished query leaves an empty scope.
LEMMA Finished ==
    ASSUME IInv, Reset, NEW q, Keep(q), ResultOk(q), gaps \subseteq gaps', gaps' = {} => Truthful(q)
    PROVE  IInv'
<1>1. ScopeStays /\ GroupOk'
  BY ResetOk
<1>2. ResultsOk /\ ResultsHold
  BY DEF IInv
<1>3. ResultsOk' /\ ResultsHold'
  BY <1>2, KeepOk
<1>4. QED
  BY <1>1, <1>3 DEF IInv, ScopeStays

StarCols(f, star) ==
    [i \in DOMAIN star |->
        [name |-> Col(f.sources, star[i]).name, nullable |-> is_nullable(f.sources, star[i])]]

StarRow(r, star) == [i \in DOMAIN star |-> At(r, star[i])]

StarResult(f, star) ==
    [cols |-> StarCols(f, star), rows |-> {StarRow(r, star) : r \in f.rows}, one |-> FALSE, cut |-> FALSE]

LEMMA StarPlaces ==
    ASSUME NEW sources \in Seq(Source)
    PROVE  /\ Len(star_columns(sources)) \in Nat
           /\ DOMAIN star_columns(sources) = 1..Len(star_columns(sources))
           /\ \A i \in DOMAIN star_columns(sources) : star_columns(sources)[i] \in Positions(sources)
           /\ star_columns(sources) # <<>> => Len(star_columns(sources)) # 0
<1> DEFINE all == Ordered(sources)
           kept == {i \in DOMAIN all : Key(sources, all[i]) \notin hidden}
           star == Keeping(all, kept)
<1>1. all \in Seq(Places) /\ Members(all) = Positions(sources) /\ Increasing(all, PlaceOrder)
  BY OrderedSorted
<1>2. star_columns(sources) = star
  BY DEF star_columns
<1> HIDE DEF all, kept
<1>3. star \in Seq(Places) /\ Members(star) = {all[i] : i \in DOMAIN all \cap kept}
  BY <1>1, KeepingSorted
<1> HIDE DEF star
<1>4. \A i \in DOMAIN star : star[i] \in Positions(sources)
  BY <1>1, <1>3 DEF Members
<1>5. Len(star) \in Nat /\ DOMAIN star = 1..Len(star) /\ (star # <<>> => Len(star) # 0)
  BY <1>3, SeqTyped, EmptySeq
<1>6. QED
  BY <1>2, <1>4, <1>5

LEMMA NullableTyped ==
    ASSUME NEW sources, NEW p
    PROVE  is_nullable(sources, p) \in BOOLEAN
BY DEF is_nullable

LEMMA ReportedTyped ==
    ASSUME NEW n \in Text, NEW b \in BOOLEAN
    PROVE  [name |-> n, nullable |-> b] \in Reported
BY DEF Reported

LEMMA ResultMade ==
    ASSUME NEW cols, cols \in Seq(Reported), NEW rows \in SUBSET Values,
           NEW one \in BOOLEAN, NEW cut \in BOOLEAN
    PROVE  [cols |-> cols, rows |-> rows, one |-> one, cut |-> cut] \in Result
BY DEF Result

LEMMA StarResultOk ==
    ASSUME NEW f, ScopeFacts(f), NEW star, star # <<>>, star = star_columns(f.sources)
    PROVE  ResultOk(StarResult(f, star)) /\ (gaps = {} => Truthful(StarResult(f, star)))
<1> DEFINE cols == StarCols(f, star)
           rows == {StarRow(r, star) : r \in f.rows}
           n == Len(star)
           q == StarResult(f, star)
<1>1. f.sources \in Seq(Source) /\ f \in Item /\ Fits(f)
  BY DEF ScopeFacts, ItemOk
<1>2. /\ n \in Nat /\ n # 0 /\ DOMAIN star = 1..n
      /\ \A i \in 1..n : star[i] \in Positions(f.sources)
  BY <1>1, StarPlaces
<1> HIDE DEF n
<1>3. /\ DOMAIN cols = 1..n
      /\ \A i \in 1..n : /\ cols[i] = [name |-> Col(f.sources, star[i]).name,
                                       nullable |-> is_nullable(f.sources, star[i])]
                         /\ cols[i].nullable <=> is_nullable(f.sources, star[i])
  BY <1>2 DEF StarCols
<1>4. \A i \in 1..n : cols[i] \in Reported
  <2>1. ASSUME NEW i \in 1..n PROVE cols[i] \in Reported
    <3>1. Col(f.sources, star[i]).name \in Text
      BY <1>1, <1>2, PositionsTyped
    <3>2. [name |-> Col(f.sources, star[i]).name, nullable |-> is_nullable(f.sources, star[i])] \in Reported
      BY <3>1, NullableTyped, ReportedTyped
    <3>3. QED
      BY <1>3, <3>2
  <2>2. QED
    BY <2>1
<1>5. ASSUME NEW r \in f.rows
      PROVE  /\ StarRow(r, star) \in Values /\ DOMAIN StarRow(r, star) = 1..n
             /\ \A i \in 1..n : StarRow(r, star)[i] = At(r, star[i])
  <2>1. \A i \in 1..n : At(r, star[i]) \in Nat
    BY <1>1, <1>2, AtTyped
  <2>2. StarRow(r, star) \in [1..n -> Nat] /\ \A i \in 1..n : StarRow(r, star)[i] = At(r, star[i])
    BY <1>2, <2>1 DEF StarRow
  <2>3. QED
    BY <1>2, <2>2, FunctionSeq DEF Values
<1>6. rows \subseteq Values /\ \A r \in rows : DOMAIN r = 1..n
  BY <1>5
<1>7. cols \in Seq(Reported) /\ Len(cols) = n
  <2>1. cols \in [1..n -> Reported]
    BY <1>3, <1>4 DEF StarCols
  <2> HIDE DEF cols
  <2>2. QED
    BY <1>2, <2>1, FunctionSeq
<1>8. cols # <<>>
  BY <1>2, <1>3, <1>7
<1>9. q = [cols |-> cols, rows |-> rows, one |-> FALSE, cut |-> FALSE]
  BY DEF StarResult
<1> HIDE DEF cols, rows
<1>10. q \in Result
  <2>1. [cols |-> cols, rows |-> rows, one |-> FALSE, cut |-> FALSE] \in Result
    BY <1>6, <1>7, ResultMade
  <2>2. QED
    BY <1>9, <2>1
<1>11. q.cols = cols /\ q.rows = rows /\ q.one = FALSE
  BY <1>9
<1> HIDE DEF q
<1>12. ResultOk(q)
  BY <1>3, <1>6, <1>8, <1>10, <1>11 DEF ResultOk
<1>13. ASSUME gaps = {} PROVE Truthful(q)
  <2>1. ASSUME NEW i \in 1..n, ~cols[i].nullable, NEW x \in rows PROVE x[i] # Null
    <3>1. PICK r \in f.rows : x = StarRow(r, star)
      BY DEF rows
    <3>2. ~is_nullable(f.sources, star[i])
      BY <1>3, <2>1
    <3>3. At(r, star[i]) # Null
      BY <1>2, <1>13, <3>2, RowsNotNull
    <3>4. QED
      BY <1>5, <3>1, <3>3
  <2>2. QED
    BY <1>3, <1>11, <2>1 DEF Truthful
<1>14. QED
  BY <1>12, <1>13 DEF q

LEMMA StarStep ==
    ASSUME IInv, SelectStar
    PROVE  IInv'
<1> DEFINE star == star_columns(From.sources)
           q == StarResult(From, star)
<1>1. star # <<>> /\ Keep(q) /\ Reset /\ gaps' = gaps
  BY DEF SelectStar, StarResult, StarCols, StarRow
<1>2. ScopeFacts(From)
  BY FromFacts
<1>3. ResultOk(q) /\ (gaps = {} => Truthful(q))
  BY <1>1, <1>2, StarResultOk
<1> HIDE DEF q
<1>4. gaps \subseteq gaps' /\ (gaps' = {} => Truthful(q))
  BY <1>1, <1>3
<1>5. QED
  BY <1>1, <1>3, <1>4, Finished

LEMMA ValuesTyped ==
    ASSUME NEW f, ScopeFacts(f), NEW g, \A r \in g.rows : r \in f.rows, NEW p \in Positions(f.sources)
    PROVE  ValuesOf(f, g, p) \subseteq Nat /\ {At(r, p) : r \in g.rows} \subseteq Nat
<1>1. f \in Item /\ Fits(f)
  BY DEF ScopeFacts, ItemOk
<1>2. \A r \in g.rows : At(r, p) \in Nat
  BY <1>1, AtTyped
<1>3. Null \in Nat
  BY DEF Null
<1>4. QED
  BY <1>2, <1>3 DEF ValuesOf

LEMMA EvalTyped ==
    ASSUME NEW f, ScopeFacts(f), ResultsOk, NEW e \in Expressions(f.sources), NEW g, GroupFits(f, e, g)
    PROVE  Eval(f, g, e) \subseteq Nat
<1> DEFINE sources == f.sources
           a == e.args[1]
           b == e.args[2]
<1>0. Null \in Nat /\ 1 \in Nat /\ \A r \in g.rows : r \in f.rows
  BY DEF Null, GroupFits
<1>1. ReadsOne(sources, e) \/ ReadsTwo(sources, e) \/ ReadsNone(e) \/ ReadsResult(e)
  BY ExpressionShapes
<1>2. CASE ReadsOne(sources, e)
  <2>1. e.op \in OfOne /\ a \in Positions(sources)
    BY <1>2, ReachableThere DEF ReadsOne
  <2>2. ValuesOf(f, g, a) \subseteq Nat /\ {At(r, a) : r \in g.rows} \subseteq Nat
    BY <1>0, <2>1, ValuesTyped
  <2>3. CASE e.op = "max"
    BY <1>0, <2>2, <2>3 DEF Eval
  <2>4. CASE e.op # "max"
    BY <1>0, <2>1, <2>2, <2>4, EvalOf DEF OfOne
  <2>5. QED
    BY <2>3, <2>4
<1>3. CASE ReadsTwo(sources, e)
  <2>1. e.op \in OfTwo /\ a \in Positions(sources) /\ b \in Positions(sources)
    BY <1>3, ReachableThere DEF ReadsTwo
  <2>2. ValuesOf(f, g, a) \subseteq Nat /\ ValuesOf(f, g, b) \subseteq Nat
    BY <1>0, <2>1, ValuesTyped
  <2> DEFINE v == ValuesOf(f, g, a)
             w == ValuesOf(f, g, b)
             E == Eval(f, g, e)
  <2>3. \/ E = v \cup w
        \/ E = IF Null \in v \cup w THEN {Null} ELSE v
        \/ E = (v \ {Null}) \cup (IF Null \in v THEN w ELSE {})
    BY <2>1, EvalOf DEF OfTwo
  <2> HIDE DEF v, w, E
  <2>4. v \subseteq Nat /\ w \subseteq Nat
    BY <2>2 DEF v, w
  <2>5. E \subseteq Nat
    BY <1>0, <2>3, <2>4
  <2>6. QED
    BY <2>5 DEF E
<1>4. CASE ReadsNone(e)
  BY <1>0, <1>4, EvalOf DEF ReadsNone
<1>5. CASE ReadsResult(e)
  <2>1. e.op \in {"scalar", "exists"} /\ a \in DOMAIN results
    BY <1>5 DEF ReadsResult, Sublinks
  <2>2. ResultOk(results[a])
    BY <2>1 DEF ResultsOk
  <2>3. \A r \in results[a].rows : r[1] \in Nat
    BY <2>2, FirstColumn
  <2>4. QED
    BY <1>0, <2>1, <2>3, EvalOf
<1>6. QED
  BY <1>1, <1>2, <1>3, <1>4, <1>5

LEMMA AnswerTyped ==
    ASSUME NEW sources, NEW e \in Expressions(sources), ResultsOk
    PROVE  Nullable(sources, e) \in BOOLEAN
<1>1. ReadsOne(sources, e) \/ ReadsTwo(sources, e) \/ ReadsNone(e) \/ ReadsResult(e)
  BY ExpressionShapes
<1>2. e.op \in OfOne \cup OfTwo \cup {"count"} \cup Sublinks
  BY <1>1 DEF ReadsOne, ReadsTwo, ReadsNone, ReadsResult
<1>3. CASE e.op \in Sublinks
  <2>1. Nullable(sources, e) = infer_sublink(e)
    BY <1>3 DEF Nullable, Sublinks
  <2>2. infer_sublink(e) \in BOOLEAN
    BY DEF infer_sublink
  <2>3. QED
    BY <2>1, <2>2
<1>4. CASE e.op \in {"case", "case_else"}
  BY <1>4 DEF Nullable, Sublinks, infer_case
<1>5. CASE e.op = "coalesce"
  BY <1>5 DEF Nullable, Sublinks, infer_coalesce
<1>6. CASE e.op = "column"
  BY <1>6, NullableTyped DEF Nullable, Sublinks
<1>7. CASE e.op \in {"max", "max_filter", "lag", "strict", "lag_default", "count"}
  BY <1>7 DEF Nullable, Sublinks, resolve_func_nullability
<1>8. QED
  BY <1>2, <1>3, <1>4, <1>5, <1>6, <1>7 DEF OfOne, OfTwo

\* Without GROUP BY an aggregate has one row.
LEMMA AggregateRow ==
    ASSUME NEW f, NEW e, e.op \in Aggregates, group = <<>>
    PROVE  \E g \in Groups(f, e) : Eval(f, g, e) # {}
<1> DEFINE g == [set |-> {}, rows |-> f.rows]
<1>1. g \in Groups(f, e)
  BY DEF Groups
<1> HIDE DEF g
<1>2. Eval(f, g, e) # {}
  <2>1. CASE e.op = "max"
    <3> DEFINE all == {At(r, e.args[1]) : r \in g.rows} \ {Null}
    <3>1. Eval(f, g, e) = IF all = {} THEN {Null} ELSE all
      BY <2>1 DEF Eval
    <3> HIDE DEF all
    <3>2. QED
      BY <3>1
  <2>2. CASE e.op \in {"max_filter", "count"}
    BY <2>2, EvalOf
  <2>3. QED
    BY <2>1, <2>2 DEF Aggregates
<1>3. QED
  BY <1>1, <1>2

Answers(f, e) == UNION {Eval(f, g, e) : g \in Groups(f, e)}

ExprRows(f, e, cut) == IF cut THEN {} ELSE {<<v>> : v \in Answers(f, e)}

ExprResult(f, e, cut) ==
    [cols |-> <<[name |-> "x", nullable |-> Nullable(f.sources, e)]>>,
     rows |-> ExprRows(f, e, cut),
     one |-> group = <<>> /\ e.op \in Aggregates, cut |-> cut]

LEMMA OneColumn ==
    ASSUME NEW col \in Reported
    PROVE  <<col>> \in Seq(Reported) /\ <<col>> # <<>> /\ DOMAIN <<col>> = {1} /\ <<col>>[1] = col
OBVIOUS

LEMMA ExprResultOk ==
    ASSUME NEW f, ScopeFacts(f), ResultsOk, ResultsHold, NEW e \in Expressions(f.sources), NEW cut \in BOOLEAN
    PROVE  /\ ResultOk(ExprResult(f, e, cut))
           /\ gaps = {} /\ ExprGaps(f, e) = {} => Truthful(ExprResult(f, e, cut))
<1> DEFINE null == Nullable(f.sources, e)
           col == [name |-> "x", nullable |-> null]
           cols == <<col>>
           rows == ExprRows(f, e, cut)
           one == group = <<>> /\ e.op \in Aggregates
           q == ExprResult(f, e, cut)
<1>1. null \in BOOLEAN
  BY AnswerTyped
<1>2. col \in Reported /\ (col.nullable <=> null)
  <2> HIDE DEF null
  <2>1. "x" \in Text
    BY DEF Text
  <2>2. QED
    BY <1>1, <2>1, ReportedTyped
<1>3. q = [cols |-> cols, rows |-> rows, one |-> one, cut |-> cut]
  BY DEF ExprResult
<1> HIDE DEF null, col
<1>4. cols \in Seq(Reported) /\ cols # <<>> /\ DOMAIN cols = {1} /\ cols[1] = col
  BY <1>2, OneColumn
<1> HIDE DEF cols
<1>5. \A g \in Groups(f, e) : Eval(f, g, e) \subseteq Nat
  BY GroupsFit, EvalTyped
<1>6. \A x \in rows : x \in Values /\ DOMAIN x = {1} /\ x[1] \in Answers(f, e)
  <2>1. Answers(f, e) \subseteq Nat
    BY <1>5 DEF Answers
  <2>2. \A v \in Nat : <<v>> \in Values /\ DOMAIN <<v>> = {1} /\ <<v>>[1] = v
    BY DEF Values
  <2>3. \A x \in rows : \E v \in Answers(f, e) : x = <<v>>
    BY DEF ExprRows
  <2>4. QED
    BY <2>1, <2>2, <2>3
<1>7. one /\ ~cut => rows # {}
  <2>1. ASSUME one, ~cut PROVE rows # {}
    <3>1. PICK g \in Groups(f, e) : Eval(f, g, e) # {}
      BY <2>1, AggregateRow
    <3>2. PICK v \in Eval(f, g, e) : TRUE
      BY <3>1
    <3>3. v \in Answers(f, e)
      BY <3>2 DEF Answers
    <3>4. <<v>> \in rows
      BY <2>1, <3>3 DEF ExprRows
    <3>5. QED
      BY <3>4
  <2>2. QED
    BY <2>1
<1>8. one \in BOOLEAN
  OBVIOUS
<1> HIDE DEF rows, one
<1>9. q \in Result
  <2>1. rows \in SUBSET Values
    BY <1>6
  <2>2. [cols |-> cols, rows |-> rows, one |-> one, cut |-> cut] \in Result
    BY <1>4, <1>8, <2>1, ResultMade
  <2>3. QED
    BY <1>3, <2>2
<1>10. q.cols = cols /\ q.rows = rows /\ (q.one <=> one) /\ (q.cut <=> cut)
  BY <1>3
<1> HIDE DEF q
<1>11. ResultOk(q)
  BY <1>4, <1>6, <1>7, <1>9, <1>10 DEF ResultOk
<1>12. ASSUME gaps = {}, ExprGaps(f, e) = {} PROVE Truthful(q)
  <2>1. ASSUME ~null, NEW x \in rows PROVE x[1] # Null
    <3>1. PICK g \in Groups(f, e) : x[1] \in Eval(f, g, e)
      BY <1>6 DEF Answers
    <3>2. GroupFits(f, e, g)
      BY GroupsFit
    <3>3. Null \notin Eval(f, g, e)
      BY <1>12, <2>1, <3>2, ReportHolds DEF null
    <3>4. QED
      BY <3>1, <3>3
  <2>2. QED
    BY <1>2, <1>4, <1>10, <2>1 DEF Truthful
<1>13. QED
  BY <1>11, <1>12 DEF q

LEMMA ExprStep ==
    ASSUME IInv, NEW e \in Expressions(From.sources), NEW cut \in BOOLEAN, SelectExpr(e, cut)
    PROVE  IInv'
<1> DEFINE q == ExprResult(From, e, cut)
<1>1. Keep(q) /\ Reset /\ gaps' = gaps \cup ExprGaps(From, e)
  BY DEF SelectExpr, ExprResult, ExprRows, Answers
<1>2. ScopeFacts(From) /\ ResultsOk /\ ResultsHold
  BY FromFacts DEF IInv
<1>3. ResultOk(q) /\ (gaps = {} /\ ExprGaps(From, e) = {} => Truthful(q))
  BY <1>2, ExprResultOk
<1> HIDE DEF q
<1>4. gaps \subseteq gaps' /\ (gaps' = {} => Truthful(q))
  BY <1>1, <1>3
<1>5. QED
  BY <1>1, <1>3, <1>4, Finished

-----------------------------------------------------------------------------
(* The invariant, and what the analyzer promises.                           *)

LEMMA InitHolds == Init => IInv
<1> SUFFICES ASSUME Init PROVE IInv
  OBVIOUS
<1>1. items = <<>> /\ hidden = {} /\ group = <<>> /\ results = <<>>
  BY DEF Init
<1>2. DOMAIN items = {} /\ items \in Seq(Item) /\ DOMAIN results = {} /\ results \in Seq(Result)
  BY <1>1
<1>3. TakenBy(items) = {}
  BY <1>2 DEF TakenBy
<1>4. ItemsOk
  BY <1>2 DEF ItemsOk, Separate
<1>5. AliasesTaken
  <2>1. 0 \in 0..Len(Aliases) /\ 1..0 = {}
    <3>1. Len(Aliases) \in Nat
      BY AliasList
    <3>2. QED
      BY <3>1
  <2>2. TakenBy(items) \ {""} = {Aliases[i] : i \in 1..0}
    BY <1>3, <2>1
  <2>3. QED
    BY <2>1, <2>2 DEF AliasesTaken
<1>6. HiddenTaken /\ NullsHold /\ StarsHold /\ GroupOk
  BY <1>1, <1>2 DEF HiddenTaken, NullsHold, StarsHold, GroupOk
<1>7. ResultsOk /\ ResultsHold
  BY <1>2 DEF ResultsOk, ResultsHold
<1>8. QED
  BY <1>4, <1>5, <1>6, <1>7 DEF IInv, ScopeOk

LEMMA StutterKeeps ==
    ASSUME IInv, UNCHANGED vars
    PROVE  IInv'
<1>1. UNCHANGED <<items, target, hidden, marked, group, results, gaps>>
  BY DEF vars
<1>2. ScopeOk'
  BY <1>1 DEF IInv, ScopeOk, ItemsOk, AliasesTaken, HiddenTaken
<1>3. NullsHold' /\ StarsHold' /\ ResultsOk' /\ ResultsHold'
  BY <1>1 DEF IInv, NullsHold, StarsHold, ResultsOk, ResultsHold
<1>4. GroupOk'
  <2>1. From' = From /\ AllLeaves' = AllLeaves
    BY <1>1 DEF From, AllLeaves
  <2>2. \A n : resolve_column(From.sources, n)' = resolve_column(From.sources, n)
    BY <1>1, <2>1 DEF resolve_column
  <2>3. QED
    BY <1>1, <2>1, <2>2 DEF IInv, GroupOk
<1>5. QED
  BY <1>2, <1>3, <1>4 DEF IInv

LEMMA NextKeeps ==
    ASSUME IInv, Next
    PROVE  IInv'
<1>1. CASE FromStep
  <2>1. CASE \E c \in Clauses : GroupBy(c)
    BY <2>1, GroupByStep
  <2>2. CASE ~ \E c \in Clauses : GroupBy(c)
    BY <1>1, <2>2, FromStepKeeps
  <2>3. QED
    BY <2>1, <2>2
<1>2. CASE SelectStep
  BY <1>2, StarStep, ExprStep DEF SelectStep
<1>3. CASE ResultStep
  <2>1. ASSUME NEW rows \in Constants, analyze_values_lists(rows) PROVE IInv'
    BY <2>1, ValuesStep
  <2>2. ASSUME NEW op \in {"union", "intersect", "except"}, NEW rows \in Constants, NEW first \in BOOLEAN,
               analyze_set_operation(op, rows, first)
        PROVE  IInv'
    BY <2>2, SetOperationStep
  <2>3. ASSUME NEW arm, analyze_recursive_cte(arm) PROVE IInv'
    BY <2>3, RecursiveStep
  <2>4. QED
    BY <1>3, <2>1, <2>2, <2>3 DEF ResultStep
<1>4. QED
  BY <1>1, <1>2, <1>3 DEF Next

\* The invariant: what the analyzer keeps of a FROM clause and of finished
\* queries describes the rows that PostgreSQL produces for them.
THEOREM Described == Spec => []IInv
<1>1. Init => IInv
  BY InitHolds
<1>2. IInv /\ [Next]_vars => IInv'
  BY NextKeeps, StutterKeeps
<1>3. QED
  BY <1>1, <1>2, PTL DEF Spec

\* What the analyzer reports NOT NULL is never NULL, for every expression over
\* every FROM clause that joins can build, with or without GROUP BY, outside
\* the shapes recorded in `gaps' (NullabilityContext, infer_nullable).
THEOREM ReportsTrue == Spec => []ReportsHold
<1>1. Spec => []IInv
  BY Described
<1>2. IInv => ReportsHold
  BY ReportsFollow
<1>3. QED
  BY <1>1, <1>2, PTL

\* The columns reported for a finished query hold for all its rows, however
\* subqueries, set operations, VALUES and recursion are nested (analyze_cte,
\* analyze_set_operation).
THEOREM ResultsTrue == Spec => []ResultsHold
<1>1. Spec => []IInv
  BY Described
<1>2. IInv => ResultsHold
  BY DEF IInv
<1>3. QED
  BY <1>1, <1>2, PTL

\* A column that the grouping check accepts outside aggregates has one value in
\* every group, by being grouped or by the primary-key rule, in the shapes that are
\* no gap: ungrouped arguments of a window call are one (check_grouping).
THEOREM GroupsTrue == Spec => []GroupsSettled
<1>1. Spec => []IInv
  BY Described
<1>2. IInv => GroupsSettled
  BY GroupsFollow
<1>3. QED
  BY <1>1, <1>2, PTL

\* `*' expands to the columns PostgreSQL shows, in its order, and a name
\* resolves exactly when PostgreSQL shows it once (merge_using_columns,
\* Scope::star_columns, Scope::resolve_column).
THEOREM StarsTrue == Spec => []StarAgrees
<1>1. Spec => []IInv
  BY Described
<1>2. IInv => StarAgrees
  BY StarFollows
<1>3. QED
  BY <1>1, <1>2, PTL
=============================================================================
