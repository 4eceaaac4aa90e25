------------------------------ MODULE Queries ------------------------------
(***************************************************************************)
(* The query analyzer's account of one statement after another: the scope  *)
(* its FROM clause builds, the outer joins that mark aliases as nullable,  *)
(* the merging of USING and NATURAL columns, the expansion of GROUP BY,    *)
(* and the NOT NULL it reports for every expression over them.  Beside     *)
(* what the analyzer knows, every FROM item carries the rows PostgreSQL    *)
(* produces for it, so that a report can be compared with what is there.   *)
(*                                                                         *)
(* A statement is built in the order its syntax tree is walked: operands   *)
(* of a join are pushed on `items', a join replaces the two last ones by   *)
(* one, and a finished query is a result that later queries read as a      *)
(* subquery, a common table expression, an arm of a set operation or a     *)
(* sublink.                                                                *)
(***************************************************************************)
EXTENDS Naturals, Sequences, FiniteSets, SequencesExt, Functions

CONSTANTS Tables,      \* relations: [cols, key, rows], cols a sequence of columns
          Aliases,     \* the aliases of FROM items, in the order they are used;
                       \* bound: FROM items and finished queries together
          Clauses,     \* the GROUP BY clauses tried: sequences of elements
          Constants,   \* the VALUES lists tried: sets of rows
          MaxResults   \* bound: finished queries kept

Null == 0

\* Column names of a relation differ, and its rows obey its declarations.
ASSUME TablesAssumption ==
    \A t \in Tables :
        LET places == DOMAIN t.cols
            keys   == {i \in places : t.cols[i].name \in t.key}
        IN  /\ t.cols \in Seq([name : STRING, notnull : BOOLEAN])
            /\ \A i, j \in places : t.cols[i].name = t.cols[j].name => i = j
            /\ t.rows \subseteq [places -> Nat]
            /\ \A r \in t.rows : \A i \in places : t.cols[i].notnull => r[i] # Null
            /\ t.key = {t.cols[i].name : i \in keys}
            /\ \A i \in keys : t.cols[i].notnull
            /\ keys # {} => \A r, s \in t.rows : (\A i \in keys : r[i] = s[i]) => r = s

ASSUME AliasesAssumption == Aliases \in Seq(STRING \ {""}) /\ IsInjective(Aliases)

\* GROUP BY: an element is a leaf, a sequence of column names (one, or a
\* parenthesised list), or [kind, parts] with leaves, and for GROUPING SETS
\* also ROLLUP and CUBE, as parts.  GROUP BY () is a ROLLUP of nothing.
GroupingLeaf(e) == e.kind = "leaf" /\ e.parts \in Seq(STRING) \ {<<>>}

GroupingSeries(e) ==
    /\ e.kind \in {"rollup", "cube"} /\ e.parts \in Seq(ToSet(e.parts))
    /\ \A x \in ToSet(e.parts) : GroupingLeaf(x)

GroupingList(e) ==
    /\ e.kind = "sets" /\ e.parts \in Seq(ToSet(e.parts)) \ {<<>>}
    /\ \A x \in ToSet(e.parts) : GroupingLeaf(x) \/ GroupingSeries(x)

ASSUME ClausesAssumption ==
    \A c \in Clauses :
        /\ c \in Seq(ToSet(c))
        /\ \A e \in ToSet(c) : GroupingLeaf(e) \/ GroupingSeries(e) \/ GroupingList(e)

ASSUME ConstantsAssumption ==
    \A rows \in Constants : rows # {} /\ \E n \in 1..2 : rows \subseteq [1..n -> Nat]

VARIABLES
    items,    \* FROM items: [sources, rows, out]; the last are join operands
    target,   \* whether the first item is the target of UPDATE or DELETE
    hidden,   \* Scope.join_hidden: <<alias, column>> merged away
    marked,   \* NullabilityContext.nullable_aliases
    group,    \* the GROUP BY clause, a sequence of elements, <<>> if none
    results,  \* finished queries: [cols, rows, one, cut]
    gaps      \* shapes met for which a report is known to be wrong

vars == <<items, target, hidden, marked, group, results, gaps>>

Kinds == {"inner", "left", "right", "full"}

-----------------------------------------------------------------------------
(* The scope.  A column is at <<source, index>>; a row has one sequence of *)
(* values per source, so a position also finds the value.  `out' lists the *)
(* columns PostgreSQL shows of an item, with their positions.              *)

Shift(out, k) ==
    [i \in DOMAIN out |-> [out[i] EXCEPT !.at = <<@[1] + k, @[2]>>]]

Leaf(src, rows) ==
    [sources |-> <<src>>,
     rows    |-> {<<r>> : r \in rows},
     out     |-> [i \in DOMAIN src.cols |-> [name |-> src.cols[i].name, at |-> <<1, i>>]]]

Cross(l, r) ==
    [sources |-> l.sources \o r.sources,
     rows    |-> {z[1] \o z[2] : z \in l.rows \X r.rows},
     out     |-> l.out \o Shift(r.out, Len(l.sources))]

\* The whole FROM clause: the scope is the list of all sources, in order.
From ==
    LET upto[n \in 0..Len(items)] ==
            IF n = 0 THEN [sources |-> <<>>, rows |-> {<<>>}, out |-> <<>>]
            ELSE Cross(upto[n - 1], items[n])
    IN  upto[Len(items)]

\* What stands in a sequence at some of its places.
Keeping(s, places) == FlattenSeq([i \in DOMAIN s |-> IF i \in places THEN <<s[i]>> ELSE <<>>])

\* All columns in order, source by source.
Ordered(sources) ==
    FlattenSeq([s \in DOMAIN sources |-> [c \in DOMAIN sources[s].cols |-> <<s, c>>]])

Positions(sources) ==
    UNION {{<<s, c>> : c \in DOMAIN sources[s].cols} : s \in DOMAIN sources}

Col(sources, p) == sources[p[1]].cols[p[2]]
Key(sources, p) == <<sources[p[1]].alias, Col(sources, p).name>>
At(row, p)      == row[p[1]][p[2]]

Before(p, q) == p[1] < q[1] \/ (p[1] = q[1] /\ p[2] < q[2])

star_columns(sources) ==
    LET all == Ordered(sources)
    IN  Keeping(all, {i \in DOMAIN all : Key(sources, all[i]) \notin hidden})

\* The first column of that name in a span of sources: {} or one position.
find_col(sources, name) ==
    LET here == {p \in Positions(sources) : Col(sources, p).name = name}
    IN  {p \in here : \A q \in here \ {p} : Before(p, q)}

\* Unqualified resolution: one match per source, ambiguous if two sources
\* match; {} if it fails, else one position.
resolve_column(sources, name) ==
    LET seen == {p \in Positions(sources) : /\ Col(sources, p).name = name
                                            /\ Key(sources, p) \notin hidden}
        matches == {p \in seen : ~ \E q \in seen : q[1] = p[1] /\ Before(q, p)}
    IN  IF Cardinality(matches) = 1 THEN matches ELSE {}

\* Every column a reference of this query can reach: qualified, the first of
\* that name in the source; the merged columns only unqualified.
Reachable(sources) ==
    {p \in Positions(sources) :
        \/ sources[p[1]].alias # "" /\ find_col(<<sources[p[1]]>>, Col(sources, p).name) = {<<1, p[2]>>}
        \/ resolve_column(sources, Col(sources, p).name) = {p}}

-----------------------------------------------------------------------------
(* Joins.                                                                  *)

collect_aliases(item) == {item.sources[s].alias : s \in DOMAIN item.sources}

\* Mutant: the preserved side is marked.
mark_all_nullable_swapped(kind, l, r) ==
    marked \cup (IF kind \in {"left", "full"} THEN collect_aliases(l) ELSE {})
           \cup (IF kind \in {"right", "full"} THEN collect_aliases(r) ELSE {})

mark_all_nullable(kind, l, r) ==
    marked \cup (IF kind \in {"left", "full"} THEN collect_aliases(r) ELSE {})
           \cup (IF kind \in {"right", "full"} THEN collect_aliases(l) ELSE {})

Pad(item) ==
    [s \in DOMAIN item.sources |-> [c \in DOMAIN item.sources[s].cols |-> Null]]

\* The rows of a join as pairs, for a condition on pairs of rows.
JoinPairs(kind, l, r, On(_, _)) ==
    LET matched == {z \in l.rows \X r.rows : On(z[1], z[2])}
    IN  matched
        \cup (IF kind \in {"left", "full"}
              THEN {<<x, Pad(r)>> : x \in l.rows \ {z[1] : z \in matched}} ELSE {})
        \cup (IF kind \in {"right", "full"}
              THEN {<<Pad(l), y>> : y \in r.rows \ {z[2] : z \in matched}} ELSE {})

\* The NOT NULL of a merged column, from what the two sides declare.
merged_not_null(kind, l, r) ==
    CASE kind = "right" -> r
      [] kind = "full"  -> l \/ r
      [] OTHER          -> l

MergedValue(kind, x, y) ==
    CASE kind = "right"             -> y
      [] kind = "full" /\ x = Null  -> y
      [] OTHER                      -> x

\* The position of a column PostgreSQL shows of an item, by its name.
Shown(item, name) ==
    item.out[CHOOSE i \in DOMAIN item.out : item.out[i].name = name].at

ShownOnce(item, name) ==
    Cardinality({i \in DOMAIN item.out : item.out[i].name = name}) = 1

\* l JOIN r USING (names): a source without alias goes in front of both sides.
merge_using_columns(kind, l, r, names) ==
    LET lc(n)  == Col(l.sources, CHOOSE p \in find_col(l.sources, n) : TRUE)
        rc(n)  == Col(r.sources, CHOOSE p \in find_col(r.sources, n) : TRUE)
        both   == Cross(l, r)
        equal(x, y) == \A i \in DOMAIN names :
                          /\ At(x, Shown(l, names[i])) # Null
                          /\ At(x, Shown(l, names[i])) = At(y, Shown(r, names[i]))
        merged == [i \in DOMAIN names |->
                     [name |-> names[i],
                      notnull |-> merged_not_null(kind, lc(names[i]).notnull,
                                                        rc(names[i]).notnull)]]
        value(z) == [i \in DOMAIN names |->
                       MergedValue(kind, At(z[1], Shown(l, names[i])),
                                         At(z[2], Shown(r, names[i])))]
    IN  [sources |-> <<[alias |-> "", cols |-> merged, key |-> {}]>> \o both.sources,
         rows    |-> {<<value(z)>> \o z[1] \o z[2] : z \in JoinPairs(kind, l, r, equal)},
         out     |-> [i \in DOMAIN names |-> [name |-> names[i], at |-> <<1, i>>]]
                     \o Shift(Keeping(both.out, {i \in DOMAIN both.out :
                                                   both.out[i].name \notin ToSet(names)}), 1)]

\* Mutant: only the left column is hidden.
MergedAway_left(l, r, names) ==
    UNION {{Key(l.sources, p) : p \in find_col(l.sources, n)} : n \in ToSet(names)}

MergedAway(l, r, names) ==
    LET of(i) == UNION {{Key(i.sources, p) : p \in find_col(i.sources, n)} : n \in ToSet(names)}
    IN  of(l) \cup of(r)

\* The names NATURAL merges: the left columns that the right side has too.
natural_names(l, r) ==
    LET all    == Ordered(l.sources)
        name(i) == Col(l.sources, all[i]).name
    IN  Keeping([i \in DOMAIN all |-> name(i)],
                {i \in DOMAIN all : find_col(r.sources, name(i)) # {}})

\* Where the merged column's NOT NULL is not the merged value's: it is read
\* from the sides as declared, not as the joins below them padded them, and
\* FULL takes either side's.  A chain merges what a USING below it merged.
MergeGaps(kind, l, r, names) ==
    LET declared(i, n) == \A p \in find_col(i.sources, n) : Col(i.sources, p).notnull
        padded(i, n)   == \E p \in find_col(i.sources, n) : i.sources[p[1]].alias \in marked
        mayBeNull(i, n) == padded(i, n) \/ ~declared(i, n)
    IN  (IF \E n \in ToSet(names) :
              /\ merged_not_null(kind, declared(l, n), declared(r, n))
              /\ \/ kind \in {"left", "full"}  /\ mayBeNull(l, n)
                 \/ kind \in {"right", "full"} /\ mayBeNull(r, n)
         THEN {"using_padded"} ELSE {})
        \cup (IF \E k \in MergedAway(l, r, names) : k[1] = "" THEN {"using_chain"} ELSE {})

-----------------------------------------------------------------------------
(* GROUP BY.                                                               *)

IsLeaf(e) == e.kind = "leaf"

\* What the analyzer makes of a leaf: the column, if it is a single one.  A
\* list in parentheses is a row expression, which names no column.
singleton_set(sources, e) ==
    IF Len(e.parts) = 1
    THEN {Key(sources, p) : p \in resolve_column(sources, e.parts[1])}
    ELSE {}

\* What PostgreSQL makes of it: every column of the list.
LeafColumns(sources, e) ==
    UNION {resolve_column(sources, e.parts[i]) : i \in DOMAIN e.parts}

\* The expressions an element groups by.
Leaves(e) ==
    IF IsLeaf(e) THEN {e}
    ELSE UNION {IF IsLeaf(e.parts[i]) THEN {e.parts[i]} ELSE ToSet(e.parts[i].parts) :
                  i \in DOMAIN e.parts}

\* The sets of leaves one element stands for.
Fragments(e) ==
    LET some(parts, places) == {parts[i] : i \in places}
        plain(x) ==
          CASE x.kind = "leaf"   -> {{x}}
            [] x.kind = "rollup" -> {some(x.parts, 1..n) : n \in 0..Len(x.parts)}
            [] x.kind = "cube"   -> {some(x.parts, s) : s \in SUBSET (1..Len(x.parts))}
    IN  IF e.kind = "sets" THEN UNION {plain(e.parts[i]) : i \in DOMAIN e.parts}
        ELSE plain(e)

\* One fragment of each element, in all ways.
Product(fs) ==
    {UNION {c[i] : i \in DOMAIN c} :
        c \in {d \in [DOMAIN fs -> UNION ToSet(fs)] : \A i \in DOMAIN fs : d[i] \in fs[i]}}

\* The grouping sets, as sets of leaves.
LeafSets == Product([i \in DOMAIN group |-> Fragments(group[i])])

Expanded == \E i \in DOMAIN group : ~IsLeaf(group[i])

\* Columns some set has and another lacks, as the analyzer sees them.
analyzed_sets(sources) ==
    {UNION {singleton_set(sources, e) : e \in set} : set \in LeafSets}

grouping_omitted(sources) ==
    IF Expanded THEN LET sets == analyzed_sets(sources)
                     IN  {k \in UNION sets : \E s \in sets : k \notin s}
    ELSE {}

has_empty_grouping_set(sources) == Expanded /\ {} \in analyzed_sets(sources)

\* The grouping sets PostgreSQL evaluates, as sets of positions.
GroupingSets(sources) ==
    {UNION {LeafColumns(sources, e) : e \in set} : set \in LeafSets}

AllLeaves == UNION {Leaves(group[i]) : i \in DOMAIN group}

\* The columns grouped in any set; the check is skipped if a leaf is not a
\* plain column.
grouped_cols(sources) == UNION {singleton_set(sources, e) : e \in AllLeaves}
check_skipped(sources) == \E e \in AllLeaves : singleton_set(sources, e) = {}

\* Mutant: a table without a primary key counts as settled.
fully_grouped_keyless(sources) ==
    {sources[s].alias : s \in {t \in DOMAIN sources :
        \A n \in sources[t].key : <<sources[t].alias, n>> \in grouped_cols(sources)}}

\* Aliases whose whole primary key is grouped: all their columns are settled.
fully_grouped(sources) ==
    {sources[s].alias : s \in {t \in DOMAIN sources :
        /\ sources[t].key # {}
        /\ \A n \in sources[t].key : <<sources[t].alias, n>> \in grouped_cols(sources)}}

is_nullable(sources, p) ==
    \/ sources[p[1]].alias \in marked
    \/ Key(sources, p) \in grouping_omitted(sources)
    \/ ~Col(sources, p).notnull

-----------------------------------------------------------------------------
(* Expressions.  An expression is [op, args], args a sequence of           *)
(* positions, and for a sublink the finished query it contains.            *)

Expressions(sources) ==
    LET ps == Reachable(sources)
    IN  [op : {"column", "max", "max_filter", "case", "case_else", "lag"},
         args : {<<p>> : p \in ps}]
        \cup [op : {"coalesce", "strict", "lag_default"},
              args : {a \in ps \X ps : a[1][1] < a[2][1]}]
        \cup [op : {"count"}, args : {<<>>}]
        \cup [op : {"scalar", "exists"}, args : {<<k>> : k \in DOMAIN results}]

Aggregates == {"max", "max_filter", "count"}
Windows    == {"lag", "lag_default"}
Sublinks   == {"scalar", "exists"}
Columns(e) == IF e.op \in Sublinks THEN {} ELSE ToSet(e.args)

is_aggregate_or_window(e) == e.op \in Aggregates \cup Windows

\* The columns that are neither grouped nor settled by a primary key.
Ungrouped(sources, e) ==
    {p \in Columns(e) : /\ Key(sources, p) \notin grouped_cols(sources)
                        /\ sources[p[1]].alias \notin fully_grouped(sources)}

\* find_ungrouped does not look into a call it takes for an aggregate or window.
find_ungrouped(sources, e) ==
    IF is_aggregate_or_window(e) THEN {} ELSE Ungrouped(sources, e)

check_grouping(sources, e) ==
    group = <<>> \/ check_skipped(sources) \/ find_ungrouped(sources, e) = {}

any_nullable(sources, e) == \E p \in ToSet(e.args) : is_nullable(sources, p)

\* Functions: value windows, aggregates, strict functions.
resolve_func_nullability(sources, e) ==
    \/ e.op \in {"lag", "max_filter"}
    \/ e.op = "max" /\ (group = <<>> \/ has_empty_grouping_set(sources))
    \/ e.op # "count" /\ any_nullable(sources, e)

infer_coalesce(sources, e) == \A p \in ToSet(e.args) : is_nullable(sources, p)

\* Without ELSE a CASE may be NULL; the ELSE here is a constant.
infer_case(sources, e) == e.op = "case" \/ any_nullable(sources, e)

\* A scalar sublink is as nullable as its column if it has exactly one row.
infer_sublink(e) ==
    LET q == results[e.args[1]] IN e.op = "scalar" /\ (~q.one \/ q.cols[1].nullable)

\* What the analyzer reports: may the expression be NULL?
Nullable(sources, e) ==
    CASE e.op \in Sublinks            -> infer_sublink(e)
      [] e.op \in {"case", "case_else"} -> infer_case(sources, e)
      [] e.op = "coalesce"            -> infer_coalesce(sources, e)
      [] e.op = "column"              -> is_nullable(sources, e.args[1])
      [] OTHER                        -> resolve_func_nullability(sources, e)

\* The groups PostgreSQL forms: [set, rows].  Without GROUP BY every row
\* stands alone, or all are one group if the expression is an aggregate.
Groups(f, e) ==
    IF group = <<>>
    THEN IF e.op \in Aggregates THEN {[set |-> {}, rows |-> f.rows]}
         ELSE {[set |-> {}, rows |-> {r}] : r \in f.rows}
    ELSE UNION {IF s = {} THEN {[set |-> s, rows |-> f.rows]}
                ELSE {[set |-> s, rows |-> {x \in f.rows : \A p \in s : At(x, p) = At(r, p)}] :
                        r \in f.rows} :
                  s \in GroupingSets(f.sources)}

\* The values a column has in a group: one, unless nothing settles it.
ValuesOf(f, g, p) ==
    IF p \in (UNION GroupingSets(f.sources)) \ g.set THEN {Null}
    ELSE IF g.rows = {} THEN {Null} ELSE {At(r, p) : r \in g.rows}

\* The values an expression has in a group.
Eval(f, g, e) ==
    LET v(i) == ValuesOf(f, g, e.args[i])
    IN  CASE e.op = "column"    -> v(1)
          [] e.op = "max"       -> LET all == {At(r, e.args[1]) : r \in g.rows} \ {Null}
                                   IN  IF all = {} THEN {Null} ELSE all
          [] e.op = "max_filter" -> {Null} \cup {At(r, e.args[1]) : r \in g.rows}
          [] e.op = "count"     -> {1}
          [] e.op = "lag"       -> v(1) \cup {Null}
          [] e.op = "lag_default" -> v(1) \cup v(2)
          [] e.op = "case"      -> v(1) \cup {Null}
          [] e.op = "case_else" -> v(1) \cup {1}
          [] e.op = "strict"    -> IF Null \in v(1) \cup v(2) THEN {Null} ELSE v(1)
          [] e.op = "coalesce"  -> (v(1) \ {Null}) \cup (IF Null \in v(1) THEN v(2) ELSE {})
          [] e.op = "scalar"    -> LET q == results[e.args[1]].rows
                                   IN  IF q = {} THEN {Null} ELSE {r[1] : r \in q}
          [] e.op = "exists"    -> {1}

\* Shapes in which grouping sets or a cut sublink make a report wrong, or which
\* PostgreSQL refuses: to it only the argument of an aggregate need not be grouped.
ExprGaps(f, e) ==
    (IF group # <<>> /\ Expanded /\ check_skipped(f.sources) THEN {"grouping_row"} ELSE {})
    \cup (IF group # <<>> /\ Expanded /\ \E p \in Columns(e) :
                 Key(f.sources, p) \notin grouped_cols(f.sources)
          THEN {"grouping_key"} ELSE {})
    \cup (IF /\ group # <<>> /\ e.op \in Windows
             /\ ~check_skipped(f.sources) /\ Ungrouped(f.sources, e) # {}
          THEN {"grouping_window"} ELSE {})
    \cup (IF e.op = "scalar" /\ results[e.args[1]].cut THEN {"sublink_cut"} ELSE {})

-----------------------------------------------------------------------------
(* Actions: FROM items.                                                    *)

Used == Cardinality((UNION {collect_aliases(items[i]) : i \in DOMAIN items}) \ {""})

NextAlias == Aliases[Used + 1]

\* Bound: every finished query takes the room of a FROM item, and grouping
\* and finishing one leave some.
Room == Used + Len(results) < Len(Aliases)

RoomForItem == group = <<>> /\ Room

Push(cols, key, rows) ==
    /\ RoomForItem
    /\ items' = Append(items, Leaf([alias |-> NextAlias, cols |-> cols, key |-> key], rows))

add_table(t) ==
    /\ Push(t.cols, t.key, t.rows)
    /\ UNCHANGED <<target, hidden, marked, group, results, gaps>>

\* UPDATE and DELETE: the target comes first, then the FROM or USING list.
add_dml_target(t) ==
    /\ items = <<>>
    /\ Push(t.cols, t.key, t.rows)
    /\ target' = TRUE
    /\ UNCHANGED <<hidden, marked, group, results, gaps>>

ColumnNames(r) == [i \in DOMAIN r.cols |-> r.cols[i].name]

\* A subquery or common table expression: its columns as they were reported.
add_virtual_table(k) ==
    /\ Push([i \in DOMAIN results[k].cols |->
               [name |-> results[k].cols[i].name, notnull |-> ~results[k].cols[i].nullable]],
            {}, results[k].rows)
    /\ gaps' = gaps \cup (IF ~IsInjective(ColumnNames(results[k])) THEN {"same_name"} ELSE {})
    /\ UNCHANGED <<target, hidden, marked, group, results>>

\* unnest(a, b): rows side by side, the shorter array padded with NULL.
unnest_multi_arg(m, n) ==
    /\ LET longer == IF m > n THEN m ELSE n
       IN  Push(<<[name |-> "x", notnull |-> TRUE], [name |-> "y", notnull |-> TRUE]>>, {},
                {<<IF i <= m THEN i ELSE Null, IF i <= n THEN i ELSE Null>> : i \in 1..longer})
    /\ gaps' = gaps \cup (IF m # n THEN {"unnest_padded"} ELSE {})
    /\ UNCHANGED <<target, hidden, marked, group, results>>

Operands == Len(items) - (IF target THEN 1 ELSE 0)

Operand(i) == items[Len(items) - 2 + i]

ReplaceOperands(item) == items' = Append(SubSeq(items, 1, Len(items) - 2), item)

\* l JOIN r ON condition, where the condition equates the first columns.
JoinOn(kind) ==
    /\ group = <<>> /\ Operands >= 2
    /\ ReplaceOperands([Cross(Operand(1), Operand(2)) EXCEPT !.rows =
           {z[1] \o z[2] : z \in JoinPairs(kind, Operand(1), Operand(2), 
                         LAMBDA x, y : x[1][1] # Null /\ x[1][1] = y[1][1])}])
    /\ marked' = mark_all_nullable(kind, Operand(1), Operand(2))
    /\ UNCHANGED <<target, hidden, group, results, gaps>>

\* l JOIN r USING (names), for names PostgreSQL finds once on either side.
JoinUsing(kind, names) ==
    /\ group = <<>> /\ Operands >= 2 /\ names # <<>>
    /\ \A i \in DOMAIN names : ShownOnce(Operand(1), names[i]) /\ ShownOnce(Operand(2), names[i])
    /\ ReplaceOperands(merge_using_columns(kind, Operand(1), Operand(2), names))
    /\ hidden' = hidden \cup MergedAway(Operand(1), Operand(2), names)
    /\ marked' = mark_all_nullable(kind, Operand(1), Operand(2))
    /\ gaps'   = gaps \cup MergeGaps(kind, Operand(1), Operand(2), names)
    /\ UNCHANGED <<target, group, results>>

JoinNatural(kind) ==
    /\ Operands >= 2
    /\ JoinUsing(kind, natural_names(Operand(1), Operand(2)))

\* l JOIN LATERAL (SELECT l.c) ON TRUE: the subquery sees the columns to its
\* left, but starts from a nullability context of its own.
JoinLateral(kind, p) ==
    /\ RoomForItem /\ Operands >= 1
    /\ LET l == Last(items)
       IN  /\ p \in Positions(l.sources)
           /\ l.sources[p[1]].alias # ""
           /\ LET c == Col(l.sources, p)
                  sub == Leaf([alias |-> NextAlias, cols |-> <<c>>, key |-> {}], {})
              IN  /\ items' = Append(Front(items),
                                [Cross(l, sub) EXCEPT !.rows = {x \o <<<<At(x, p)>>>> : x \in l.rows}])
                  /\ marked' = mark_all_nullable(kind, l, sub)
                  /\ gaps' = gaps \cup (IF l.sources[p[1]].alias \in marked /\ c.notnull
                                        THEN {"lateral_padded"} ELSE {})
    /\ UNCHANGED <<target, hidden, group, results>>

-----------------------------------------------------------------------------
(* Actions: the rest of a query, and what becomes of its result.           *)

GroupBy(clause) ==
    /\ group = <<>> /\ items # <<>> /\ ~target /\ Room
    /\ \A i \in DOMAIN clause : \A e \in Leaves(clause[i]) : \A j \in DOMAIN e.parts :
         resolve_column(From.sources, e.parts[j]) # {}
    /\ group' = clause
    /\ UNCHANGED <<items, target, hidden, marked, results, gaps>>

Reset == items' = <<>> /\ target' = FALSE /\ hidden' = {} /\ marked' = {} /\ group' = <<>>

CanKeep == Len(results) < MaxResults /\ Room

Keep(r) == CanKeep /\ results' = Append(results, r)

\* SELECT *
SelectStar ==
    /\ items # <<>> /\ group = <<>>
    /\ \E f \in {From} : LET star == star_columns(f.sources) IN
         /\ star # <<>>
         /\ Keep([cols |-> [i \in DOMAIN star |->
                              [name |-> Col(f.sources, star[i]).name,
                               nullable |-> is_nullable(f.sources, star[i])]],
                  rows |-> {[i \in DOMAIN star |-> At(r, star[i])] : r \in f.rows},
                  one  |-> FALSE, cut |-> FALSE])
    /\ Reset
    /\ UNCHANGED gaps

\* SELECT e AS x, possibly cut to no row by HAVING or LIMIT.
SelectExpr(e, cut) ==
    /\ items # <<>> /\ (target => e.op \notin Aggregates /\ ~cut)
    /\ \E f \in {From} :
         /\ e \in Expressions(f.sources)
         /\ check_grouping(f.sources, e)
         /\ Keep([cols |-> <<[name |-> "x", nullable |-> Nullable(f.sources, e)]>>,
                  rows |-> IF cut THEN {}
                           ELSE {<<v>> : v \in UNION {Eval(f, g, e) : g \in Groups(f, e)}},
                  one  |-> group = <<>> /\ e.op \in Aggregates,
                  cut  |-> cut])
         /\ gaps' = gaps \cup ExprGaps(f, e)
    /\ Reset

\* VALUES: a column may be NULL if one of its cells may.
ValuesResult(rows) ==
    [cols |-> [i \in DOMAIN (CHOOSE r \in rows : TRUE) |->
                 [name |-> <<"x", "y">>[i], nullable |-> \E r \in rows : r[i] = Null]],
     rows |-> rows, one |-> FALSE, cut |-> FALSE]

analyze_values_lists(rows) ==
    /\ items = <<>>
    /\ Keep(ValuesResult(rows))
    /\ Reset /\ UNCHANGED gaps

\* Mutant: the right arm is not asked.
Merge_left(l, r) == l.cols

Merge(l, r) ==
    [i \in DOMAIN l.cols |-> [name |-> l.cols[i].name,
                              nullable |-> l.cols[i].nullable \/ r.cols[i].nullable]]

\* The last query and a VALUES list, either arm first.
analyze_set_operation(op, rows, first) ==
    /\ items = <<>> /\ results # <<>>
    /\ LET q == Last(results)
           list == ValuesResult(rows)
           l == IF first THEN q ELSE list
           r == IF first THEN list ELSE q
       IN  /\ Len(l.cols) = Len(r.cols)
           /\ results' = Append(Front(results),
                [cols |-> Merge(l, r),
                 rows |-> CASE op = "union"     -> l.rows \cup r.rows
                            [] op = "intersect" -> l.rows \cap r.rows
                            [] op = "except"    -> l.rows \ r.rows,
                 one |-> FALSE, cut |-> FALSE])
    /\ UNCHANGED <<items, target, hidden, marked, group, gaps>>

\* WITH RECURSIVE q AS (seed UNION SELECT arm FROM q), where each column of
\* the arm is a column of q or, for 0, NULL.  The arm is analyzed once, with
\* the columns as the seed reports them.
analyze_recursive_cte(arm) ==
    /\ items = <<>> /\ results # <<>>
    /\ LET seed == Last(results)
           n    == Len(seed.cols)
           turn(row) == [i \in 1..n |-> IF arm[i] = 0 THEN Null ELSE row[arm[i]]]
           step[k \in 0..(n * n)] == IF k = 0 THEN seed.rows
                              ELSE step[k - 1] \cup {turn(r) : r \in step[k - 1]}
           rec(cols) == [i \in 1..n |-> [name |-> cols[i].name,
                           nullable |-> arm[i] = 0 \/ cols[arm[i]].nullable]]
           cols == Merge([cols |-> seed.cols], [cols |-> rec(seed.cols)])
       IN  /\ DOMAIN arm = 1..n /\ \A i \in 1..n : arm[i] \in 0..n
           /\ results' = Append(Front(results),
                [cols |-> cols, rows |-> step[n * n], one |-> FALSE, cut |-> FALSE])
           /\ gaps' = gaps \cup (IF Merge([cols |-> cols], [cols |-> rec(cols)]) # cols
                                 THEN {"recursive_once"} ELSE {})
    /\ UNCHANGED <<items, target, hidden, marked, group>>

-----------------------------------------------------------------------------

Init ==
    /\ items = <<>> /\ target = FALSE /\ hidden = {} /\ marked = {}
    /\ group = <<>> /\ results = <<>> /\ gaps = {}

FromStep ==
    \/ \E t \in Tables : add_table(t) \/ add_dml_target(t)
    \/ \E k \in DOMAIN results : add_virtual_table(k)
    \/ \E n \in 1..2 : unnest_multi_arg(2, n)
    \/ \E kind \in Kinds : JoinOn(kind)
    \/ \E kind \in Kinds, names \in {<<"x">>, <<"x", "y">>} : JoinUsing(kind, names)
    \/ \E kind \in Kinds : JoinNatural(kind)
    \/ \E kind \in {"inner", "left"}, p \in Positions(From.sources) : JoinLateral(kind, p)
    \/ \E c \in Clauses : GroupBy(c)

SelectStep ==
    /\ items # <<>> /\ CanKeep
    /\ \/ SelectStar
       \/ \E e \in Expressions(From.sources), cut \in BOOLEAN : SelectExpr(e, cut)

ResultStep ==
    \/ \E rows \in Constants : analyze_values_lists(rows)
    \/ \E op \in {"union", "intersect", "except"}, rows \in Constants, first \in BOOLEAN :
         analyze_set_operation(op, rows, first)
    \/ \E arm \in [1..2 -> 0..2] \cup [1..1 -> 0..1] : analyze_recursive_cte(arm)

Next == FromStep \/ SelectStep \/ ResultStep

Spec == Init /\ [][Next]_vars

-----------------------------------------------------------------------------
(* Properties.                                                             *)

\* What the analyzer reports NOT NULL never is NULL: every expression it
\* accepts over the FROM clause and GROUP BY built so far, outside the
\* shapes collected in `gaps' (analyze_select_with_ctes_and_outer).
ReportsHold ==
    gaps = {} =>
        \A f \in {From} : \A e \in Expressions(f.sources) :
            /\ ~Nullable(f.sources, e)
            /\ check_grouping(f.sources, e)
            /\ ExprGaps(f, e) = {}
            => \A g \in Groups(f, e) : Null \notin Eval(f, g, e)

\* The columns reported for a finished query hold for its rows, through
\* subqueries, set operations, VALUES and recursion (analyze_cte,
\* analyze_set_operation).
ResultsHold ==
    gaps = {} =>
        \A k \in DOMAIN results : \A i \in DOMAIN results[k].cols :
            ~results[k].cols[i].nullable => \A r \in results[k].rows : r[i] # Null

\* `*' expands to the columns PostgreSQL shows, in its order, and a name
\* resolves exactly when PostgreSQL shows it once, to the same column
\* (merge_using_columns, Scope::star_columns, Scope::resolve_column).
StarAgrees ==
    gaps \cap {"using_chain", "same_name"} = {} =>
        \A f \in {From} :
            /\ star_columns(f.sources) = [i \in DOMAIN f.out |-> f.out[i].at]
            /\ \A n \in {f.out[i].name : i \in DOMAIN f.out} :
                  LET shown == {i \in DOMAIN f.out : f.out[i].name = n}
                  IN  resolve_column(f.sources, n) =
                        IF Cardinality(shown) = 1 THEN {f.out[i].at : i \in shown} ELSE {}

\* A column the grouping check accepts outside aggregates has one value in every
\* group, by being grouped or by the primary-key rule, in the shapes that are no
\* gap: ungrouped arguments of a window call are one (check_grouping).
GroupsSettled ==
    group # <<>> =>
        \A f \in {From} : \A e \in Expressions(f.sources) :
            /\ e.op \notin Aggregates /\ ExprGaps(f, e) = {}
            /\ ~check_skipped(f.sources) /\ check_grouping(f.sources, e)
            => \A g \in Groups(f, e) : \A p \in Columns(e) :
                  Cardinality(ValuesOf(f, g, p)) = 1

\* The comment on merge_using_columns: the merged column takes the place of
\* the columns it merges, so a merged name shown once can be used.
MergedNamesResolve ==
    \A f \in {From} : \A i \in DOMAIN f.out :
        /\ f.sources[f.out[i].at[1]].alias = ""
        /\ \A j \in DOMAIN f.out : f.out[j].name = f.out[i].name => j = i
        => resolve_column(f.sources, f.out[i].name) = {f.out[i].at}
=============================================================================
