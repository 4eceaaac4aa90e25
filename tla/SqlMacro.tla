------------------------------ MODULE SqlMacro ------------------------------
(***************************************************************************)
(* One use of sql!, from the template to the statement that reaches the    *)
(* server: expand (src/typedpg_macros/src/query_macro.rs), analyze         *)
(* (pg_catalog/mod.rs, resolve/mod.rs, param_collector.rs) and generate    *)
(* (codegen.rs), and then the code that was generated, when it is called.  *)
(*                                                                         *)
(* What the analyzer finds in a statement is the subject of Queries and    *)
(* Overloads.  Here every sequence of tokens is a statement, every         *)
(* placeholder of it is used in some way (Sites), and the type its uses    *)
(* ask for, and that of the one column it returns, is ptype.               *)
(***************************************************************************)
EXTENDS SqlLexer, RustTypes

CONSTANTS Fragments,     \* what a template is written with, a sequence of characters each
          Quoting,       \* those of them that long templates are made of
          MaxFragments,  \* the length of a template of any fragments
          MaxQuoting,    \* the length of a template of Quoting
          MaxStudied,    \* up to this length, and this many, every use of parameters is studied
          Carriers,      \* the fragments with which types other than text are studied
          Bases,         \* the types that others are built from
          MaxDepth,      \* how often a type is wrapped
          MaxItems,      \* the items of a spread
          MaxRows,       \* the rows of a result
          Gaps           \* the patterns of GapNames that are allowed to happen

ASSUME SqlMacroAssumption == Quoting \cup Carriers \subseteq Fragments

VARIABLES template,  \* the fragments of the string literal
          ptype,     \* the type of parameters and of the column
          config,    \* the names that [types] maps
          query,     \* what expand made of the template: <<>> or one record
          sent       \* what a call of it did: <<>> or one record

vars == <<template, ptype, config, query, sent>>

Text   == FlattenSeq(template)
Gap(g) == g \in Gaps
Plain  == ptype = Basic("text") /\ config = {}

\* Placeholders are written with one digit.
MaxPlaceholders == 9

-----------------------------------------------------------------------------
(* Spreads. *)

\* The row of n placeholders that starts with number p, and size such rows.
Placeholders(p, n) ==
    <<"(">> \o FlattenSeq([c \in 1 .. n |->
                 (IF c > 1 THEN <<",">> ELSE <<>>) \o <<"$", ToString(p + c - 1)>>]) \o <<")">>
Rows(p, n, size) ==
    FlattenSeq([r \in 1 .. size |-> (IF r > 1 THEN <<",">> ELSE <<>>) \o Placeholders(p + (r - 1) * n, n)])

\* sql with sizes[k] rows in the place of spread k, numbered from first on.
\* counts is the number of fields of each spread.
Spliced(sql, first, spreads, counts, sizes) ==
    LET number[k \in 1 .. Len(spreads) + 1] ==
            IF k = 1 THEN first ELSE number[k - 1] + counts[k - 1] * sizes[k - 1]
        from(k) == IF k = 1 THEN 1 ELSE spreads[k - 1].offset + 1
    IN  FlattenSeq([k \in DOMAIN spreads |->
            SubSeq(sql, from(k), spreads[k].offset) \o Rows(number[k], counts[k], sizes[k])])
        \o SubSeq(sql, from(Len(spreads) + 1), Len(sql))

Ones(spreads) == [k \in DOMAIN spreads |-> 1]

\* The statement that is analyzed: every spread has one row.
build_spread_sample_sql(l) ==
    Spliced(l.sql, Len(l.params) + 1, l.spreads,
            [k \in DOMAIN l.spreads |-> Len(l.spreads[k].fields[1])], Ones(l.spreads))

-----------------------------------------------------------------------------
(* ParamCollector.  A use of a placeholder is a NOT NULL place (a column,  *)
(* an operand), a nullable column, IS NULL, a field of ROW(...), or a      *)
(* place that asks for no type.                                            *)

Sites == {"notnull", "nullable", "isnull", "row", "bare"}

Collector(annotations) ==
    [seen |-> {}, typed |-> {}, required |-> {}, locked |-> {},
     explicit |-> {n \in DOMAIN annotations : annotations[n] # <<>>},
     nullable |-> {n \in DOMAIN annotations : annotations[n] = <<TRUE>>}]

infer_nullable(pc, n) == IF n \in pc.explicit THEN pc ELSE [pc EXCEPT !.nullable = @ \cup {n}]
record(pc, n)         == [pc EXCEPT !.typed = @ \cup {n}]

\* mark_indeterminate_locked: unless the parameter has a type already.
lock(pc, n) == IF n \in pc.typed THEN pc ELSE [pc EXCEPT !.locked = @ \cup {n}]

Use(collector, n, site) ==
    LET pc == [collector EXCEPT !.seen = @ \cup {n}]
    IN  CASE site = "notnull"  -> record(pc, n)
          [] site = "nullable" -> infer_nullable(record(pc, n), n)
          [] site = "isnull"   -> lock(pc, n)
          [] site = "row"      -> [pc EXCEPT !.required = @ \cup {n}]
          [] site = "bare"     -> pc

\* The numbers of the placeholders of a statement, in order.
Occurrences(sql) ==
    LET found == SelectSeq(Tokens(sql), LAMBDA t : t[1] = "placeholder")
    IN  [k \in DOMAIN found |-> found[k][2]]

Collected(numbers, sites, annotations) ==
    FoldLeft(LAMBDA pc, k : Use(pc, numbers[k], sites[k]), Collector(annotations),
             [k \in DOMAIN numbers |-> k])

\* into_sorted: whether it fails.
Determined(pc) ==
    /\ pc.locked = {} /\ pc.required \subseteq pc.typed
    /\ pc.seen = 1 .. Cardinality(pc.seen)

-----------------------------------------------------------------------------
(* expand. *)

\* The annotations of the parameters and of the spreads' fields, in order.
AnnotationsOr(l, unmarked) ==
    [k \in DOMAIN l.params |-> l.params[k].nullable]
    \o FlattenSeq([k \in DOMAIN l.spreads |->
           [j \in DOMAIN l.spreads[k].fields[1] |->
                IF l.spreads[k].fields[1][j].nullable THEN <<TRUE>> ELSE unmarked]])
Annotations_decided(l) == AnnotationsOr(l, <<FALSE>>)
Annotations(l)         == AnnotationsOr(l, <<>>)

\* What analysis says of parameter n; an annotation has the last word.
Info(pc, annotation, n) ==
    [type     |-> IF n \in pc.typed THEN ptype ELSE Basic("text"),
     nullable |-> IF annotation = <<>> THEN n \in pc.nullable ELSE annotation = <<TRUE>>]

\* fuse: the parameters of the template take the first of the inferred ones,
\* and the fields of its spreads the next.
fuse(l, pc) ==
    LET first[k \in 1 .. Len(l.spreads) + 1] ==
            IF k = 1 THEN Len(l.params) ELSE first[k - 1] + Len(l.spreads[k - 1].fields[1])
        info(n) == Info(pc, Annotations(l)[n], n)
    IN  [sql     |-> l.sql,
         params  |-> [k \in DOMAIN l.params |->
                         [name |-> l.params[k].name, sql_offsets |-> l.params[k].sql_offsets] @@ info(k)],
         spreads |-> [k \in DOMAIN l.spreads |->
                         [name   |-> l.spreads[k].name, offset |-> l.spreads[k].offset,
                          fields |-> [j \in DOMAIN l.spreads[k].fields[1] |->
                              [name |-> l.spreads[k].fields[1][j].name] @@ info(first[k] + j)]]]]

Unrepeated(fields) == \A j, k \in DOMAIN fields : j # k => fields[j].name # fields[k].name

AllParams(q) == q.params \o FlattenSeq([k \in DOMAIN q.spreads |-> q.spreads[k].fields])

\* cast_params: after each placeholder, a cast to the type that was inferred.
RECURSIVE CastText(_)
CastText(ty) == IF ty.kind = "array" THEN CastText(ty.element) \o <<"[", "]">> ELSE <<":", ":", "T">>
cast_params(q) ==
    LET casts(i) == FlattenSeq([k \in DOMAIN q.params |->
                        IF i \in {q.params[k].sql_offsets[j] : j \in DOMAIN q.params[k].sql_offsets}
                        THEN CastText(CastType(q.params[k].type)) ELSE <<>>])
    IN  FlattenSeq([i \in DOMAIN q.sql |-> <<q.sql[i]>> \o casts(i)])

-----------------------------------------------------------------------------
(* The patterns that the properties below are stated without: each is a    *)
(* place where one of them does fail.                                      *)

GapNames == {"operator_eaten", "dollar_in_name", "wide", "native", "loose_braces",
             "subscript", "comment", "semicolon", "one_empty", "late_annotation", "mixed_use",
             "spread_cast", "enum_array", "domain_array", "record_oid", "record_domain",
             "json_array", "builtin_text", "user_range", "mapped_array"}

Named(tokens, name) == {k \in DOMAIN tokens : tokens[k][1] = "named" /\ tokens[k][2] = name}
Marks(tokens, name) == {tokens[k][3] : k \in Named(tokens, name)} \ {""}

LexicalGaps(text, tokens, spreads) ==
    /\ Gap("operator_eaten") \/ ~\E i \in 2 .. Len(text) - 1 :
           text[i - 1] \in IdentChar /\ text[i] \in {"?", "!"} /\ text[i + 1] \in Operator
    /\ Gap("dollar_in_name") \/ ~\E k \in DOMAIN tokens :
           tokens[k][1] = "word" /\ \E j \in DOMAIN tokens[k][2] : tokens[k][2][j] = "$"
    /\ Gap("wide") \/ ~\E i \in 2 .. Len(text) :
           \/ text[i - 1] \in Wide /\ text[i] \in {"E", "$"}
           \/ text[i - 1] = "$" /\ text[i] \in Wide
    /\ Gap("native") \/ ~\E k \in DOMAIN tokens : tokens[k][1] = "placeholder"
    /\ Gap("loose_braces") \/ Len(spreads) = Len(SelectSeq(tokens, LAMBDA t : t[1] = "spread"))
    /\ Gap("subscript") \/ ~\E k \in 2 .. Len(tokens) :
           tokens[k - 1][1] = "named" /\ tokens[k] = <<"self", "[">>
    /\ Gap("late_annotation") \/ \A k \in DOMAIN tokens :
           tokens[k][1] = "named" => \A j \in Named(tokens, tokens[k][2]) : tokens[j][3] = tokens[k][3]

\* The types that a type is, wraps or holds, their names, and those that are
\* fields of records; the elements of the arrays in a set of types.
RECURSIVE Within(_)
Within(ty) ==
    {ty} \cup CASE ty.kind = "domain" -> Within(ty.base)
                [] ty.kind = "array"  -> Within(ty.element)
                [] ty.kind = "range"  -> Within(ty.subtype)
                [] IsRecord(ty)       -> UNION {Within(ty.fields[k].type) : k \in DOMAIN ty.fields}
                [] OTHER              -> {}
NamesIn(ty)     == {t.name : t \in {u \in Within(ty) : u.kind \notin {"array", "record"}}}
Fields(ty)      == UNION {{r.fields[k].type : k \in DOMAIN r.fields} : r \in Registered(ty)}
Elements(types) == {Innermost(t).element : t \in {u \in types : Innermost(u).kind = "array"}}
Mappings(ty)    == config \cap NamesIn(ty)

TypeGaps(ty) ==
    /\ Gap("builtin_text") \/ "inet" \notin NamesIn(ty) \ config
    /\ Gap("user_range") \/ \A t \in Within(ty) : t.kind = "range" => t \in BuiltinType \/ t.name \in config
    /\ Gap("domain_array") \/ \A e \in Elements({ty}) : e.kind # "domain"
    /\ Gap("record_oid") \/ \A f \in Fields(ty) :
           \/ f \in BuiltinType
           \/ Innermost(f).kind # "array" /\ (Innermost(f).kind = "range" => OverridePath(f, config) # {})
    /\ Gap("record_domain") \/ \A f \in Fields(ty) :
           f.kind = "domain" /\ Innermost(f) = Basic("jsonb") => OverridePath(f, config) # {}
    /\ Gap("json_array") \/ Basic("json") \notin {Innermost(e) : e \in Elements(Fields(ty))}
    /\ Gap("mapped_array") \/ \A t \in Fields(ty) \cup {ty} : t.kind = "domain" =>
           \A e \in Elements({t}) : ~IsRecord(Innermost(e)) \/ Mappings(t) = {}

ParamGaps(q, numbers, sites) ==
    /\ Gap("enum_array") \/ \A k \in DOMAIN q.params :
           "enum" \notin {Innermost(e).kind : e \in Elements({q.params[k].type})}
    /\ Gap("mixed_use") \/ \A j, k \in DOMAIN numbers :
           numbers[j] = numbers[k] /\ sites[j] = "nullable" => sites[k] # "notnull"
    /\ Gap("spread_cast") \/ q.spreads = <<>> \/ \A k \in DOMAIN AllParams(q) :
           LET ty == AllParams(q)[k].type
           IN  {"domain", "enum"} \cap {t.kind : t \in {ty} \cup Elements({ty})} = {}

-----------------------------------------------------------------------------
(* Writing the program. *)

Init ==
    /\ template = <<>> /\ ptype = Basic("text") /\ config = {}
    /\ query = <<>> /\ sent = <<>>

RECURSIVE Depth(_)
Depth(ty) ==
    CASE ty.kind = "domain"                -> 1 + Depth(ty.base)
      [] ty.kind = "array"                 -> 1 + Depth(ty.element)
      [] ty.kind = "range"                 -> 1 + Depth(ty.subtype)
      [] IsRecord(ty)                      -> 1 + Depth(ty.fields[1].type)
      [] OTHER                             -> 0

\* The names a user gives: one for each depth.
NameAt(letter, ty) == letter \o ToString(Depth(ty))

Start(base) ==
    /\ template = <<>> /\ Plain
    /\ ptype' = base
    /\ UNCHANGED <<template, config, query, sent>>

\* The catalog has the type, over ptype: an array of arrays is no type.
Wrap(ty) ==
    /\ template = <<>> /\ config = {} /\ Depth(ptype) < MaxDepth
    /\ ty.kind = "array" => ptype.kind # "array"
    /\ ty.kind = "range" => ptype.kind = "basic"
    /\ ptype' = ty
    /\ UNCHANGED <<template, config, query, sent>>

\* [types] maps a name that ptype is, wraps or holds.
MapType(name) ==
    /\ template = <<>> /\ name \notin config
    /\ config' = config \cup {name}
    /\ UNCHANGED <<template, ptype, query, sent>>

Write(fragment) ==
    LET written == Append(template, fragment)
    IN  /\ query = <<>>
        /\ IF ~Plain THEN Len(written) = 1 /\ fragment \in Carriers
           ELSE \/ Len(written) <= MaxFragments
                \/ Len(written) <= MaxQuoting /\ \A k \in DOMAIN written : written[k] \in Quoting
        /\ template' = written
        /\ UNCHANGED <<ptype, config, query, sent>>

\* The programmer turns to another query.
Rewrite ==
    /\ template' = <<>> /\ ptype' = Basic("text") /\ config' = {}
    /\ query' = <<>> /\ sent' = <<>>

-----------------------------------------------------------------------------
(* Compiling it. *)

Studied == Plain /\ Len(template) <= MaxStudied

\* How the placeholders are used: in all ways, where that is studied.
SiteChoices(n) == IF Studied /\ n <= MaxStudied THEN [1 .. n -> Sites] ELSE [1 .. n -> {"notnull"}]

\* What PostgreSQL's parser takes: any tokens, but for an empty statement
\* and a parameter that a second one or a string follows.
Semicolon == <<"self", ";">>
IsString(token) == token[1] = "quoted" /\ token[2][1] # "\""
Parses(tokens) ==
    /\ Scans(tokens) /\ \E k \in DOMAIN tokens : tokens[k] # Semicolon
    /\ \A k \in 2 .. Len(tokens) : tokens[k - 1][1] = "placeholder" =>
           tokens[k][1] # "placeholder" /\ ~IsString(tokens[k])

\* The statement that is analyzed, when there is one.
Reads(l)   == ~LexFails(l) /\ \A k \in DOMAIN l.spreads : l.spreads[k].fields # <<>>
analyzed(l) == IF l.spreads = <<>> THEN l.sql ELSE build_spread_sample_sql(l)

\* Every type has a mapping, and those of parameters one that can be bound.
Mappable(q) ==
    /\ Generates(ptype, config)
    /\ \A k \in DOMAIN AllParams(q) :
          LET ty == AllParams(q)[k].type IN Generates(ty, config) /\ Binds(ty, config)

\* The parameters that were collected are those of the template, and each
\* has a type.
Fuse(q, l, pc, tokens, numbers, sites, subquery) ==
    /\ Determined(pc) /\ Cardinality(pc.seen) = Len(Annotations(l))
    /\ \A k \in DOMAIN q.spreads : Unrepeated(q.spreads[k].fields)
    /\ Mappable(q) /\ ParamGaps(q, numbers, sites)
    /\ query' = <<q @@ [subquery |-> subquery, comment |-> l.state.kind = "line",
                        ended |-> Last(tokens) = Semicolon,
                        numbers |-> numbers, sites |-> sites]>>

\* Every placeholder is used in some way.
Analyze(l, tokens, numbers, subquery) ==
    /\ LexicalGaps(Text, tokens, l.spreads)
    /\ \E sites \in SiteChoices(Len(numbers)) :
          LET pc == Collected(numbers, sites, Annotations(l))
          IN  Fuse(fuse(l, pc), l, pc, tokens, numbers, sites, subquery)

\* The analyzer takes a statement when PostgreSQL's parser does.
Parse(l, subquery) ==
    /\ Reads(l) /\ Parses(Tokens(analyzed(l)))
    /\ Analyze(l, TemplateTokens(Text), Occurrences(analyzed(l)), subquery)

\* subquery is what can_run_as_subquery says of the statement.
Expand(subquery) ==
    /\ query = <<>> /\ template # <<>>
    /\ TypeGaps(ptype)
    /\ Parse(Lex(Text), subquery)
    /\ UNCHANGED <<template, ptype, config, sent>>

-----------------------------------------------------------------------------
(* Running it. *)

Before == <<"T", "(">>
After  == <<")", "T">>

\* wrap_with_limit: SELECT * FROM (sql) AS ... LIMIT 2, wording left out.
wrap_with_limit_1(sql) == [sql |-> Before \o sql \o After, limit |-> 1]
wrap_with_limit(sql)   == [sql |-> Before \o sql \o After, limit |-> 2]

Whole(sql) == [sql |-> sql, limit |-> MaxRows]

Modes     == {"all", "one", "optional", "execute"}
Wraps(mode) == mode \in {"one", "optional"}

\* generate_regular: the statement of a call.
Regular(q, mode) ==
    IF Wraps(mode) /\ q.subquery THEN wrap_with_limit(cast_params(q)) ELSE Whole(cast_params(q))

\* generate_spread: the pieces of sql around the rows of the spreads.
Counts(q)       == [k \in DOMAIN q.spreads |-> Len(q.spreads[k].fields)]
Sizes(q, items) == [k \in DOMAIN q.spreads |-> items[q.spreads[k].name]]
build_spread_sql_from_1(q, items) == Spliced(q.sql, 1, q.spreads, Counts(q), Sizes(q, items))
build_spread_sql(q, items) == Spliced(q.sql, Len(q.params) + 1, q.spreads, Counts(q), Sizes(q, items))

any_empty(q, items) == \E k \in DOMAIN q.spreads : items[q.spreads[k].name] = 0

\* What is bound: the parameters, then the fields of every item of every
\* spread, each with the type the server gives to its placeholder.
Bound(value, p, server) ==
    [value |-> value, rust |-> BoundType(p.type, config, server = "used"),
     type |-> IF server = "cast" THEN CastType(p.type) ELSE p.type]

Params(q, items) ==
    LET server  == IF q.spreads = <<>> THEN "cast" ELSE "used"
        item(k, r) == [j \in DOMAIN q.spreads[k].fields |->
                          Bound(<<"item", q.spreads[k].name, r, q.spreads[k].fields[j].name>>,
                                q.spreads[k].fields[j], server)]
    IN  [k \in DOMAIN q.params |-> Bound(<<"argument", q.params[k].name>>, q.params[k], server)]
        \o FlattenSeq([k \in DOMAIN q.spreads |->
               FlattenSeq([r \in 1 .. items[q.spreads[k].name] |-> item(k, r)])])

\* What a method makes of n rows.
Outcome(mode, n) ==
    CASE mode \in {"all", "execute"}     -> <<"ok", n>>
      [] mode = "one" /\ n = 0           -> <<"NoRows">>
      [] mode = "optional" /\ n = 0      -> <<"ok", 0>>
      [] Wraps(mode) /\ n = 1            -> <<"ok", 1>>
      [] Wraps(mode) /\ n > 1            -> <<"TooManyRows">>

\* A call of one of the methods (fetch_value calls fetch_one and fetch_optional,
\* and those that end in _as are like those that do not): rows is how many
\* the statement, as it was written, yields.
Call(mode, items, rows) ==
    LET q         == query[1]
        statement == IF q.spreads = <<>> THEN Regular(q, mode) ELSE Whole(build_spread_sql(q, items))
        returned  == IF rows < statement.limit THEN rows ELSE statement.limit
        params    == Params(q, items)
    IN  /\ Len(params) <= MaxPlaceholders
        /\ Gap("comment") \/ ~(q.comment /\ Wraps(mode))
        /\ Gap("semicolon") \/ ~(q.ended /\ Wraps(mode))
        /\ Gap("one_empty") \/ ~any_empty(q, items) \/ \A k \in DOMAIN q.spreads : items[q.spreads[k].name] = 0
        /\ any_empty(q, items) => rows = 0
        /\ sent' = <<[mode |-> mode, items |-> items, rows |-> rows] @@
                     IF any_empty(q, items)
                     THEN [statement |-> <<>>, params |-> <<>>, outcome |-> Outcome(mode, 0)]
                     ELSE [statement |-> <<statement.sql>>, params |-> params, outcome |-> Outcome(mode, returned)]>>
        /\ UNCHANGED <<template, ptype, config, query>>

-----------------------------------------------------------------------------

SpreadNames == {query[1].spreads[k].name : k \in DOMAIN query[1].spreads}

Declare ==
    \/ \E base \in Bases : Start(base)
    \/ Wrap(Array(ptype))
    \/ Wrap(Domain(NameAt("d", ptype), ptype))
    \/ \E null \in BOOLEAN : Wrap(Composite(NameAt("c", ptype), <<Field(ptype, null)>>))
    \/ Wrap(Record(<<Field(ptype, FALSE)>>))
    \/ Wrap(RangeOf(NameAt("r", ptype), ptype))
    \/ \E name \in NamesIn(ptype) : MapType(name)

Compile == \E subquery \in IF Studied THEN BOOLEAN ELSE {TRUE} : Expand(subquery)

\* Past what is studied, one fetch that is wrapped and one that is not, with
\* a row where a call asks for any.
Run ==
    /\ query # <<>> /\ sent = <<>>
    /\ \E mode \in IF Studied THEN Modes ELSE {"all", "one"}, items \in [SpreadNames -> 0 .. MaxItems] :
       \E rows \in IF Studied /\ Len(template) = 1 THEN 0 .. MaxRows
                   ELSE {IF any_empty(query[1], items) THEN 0 ELSE 1} :
          Call(mode, items, rows)

Next == Declare \/ (\E f \in Fragments : Write(f)) \/ Rewrite \/ Compile \/ Run

Spec == Init /\ [][Next]_vars

-----------------------------------------------------------------------------
(* Properties. *)

\* What a template says: its tokens, with the arguments in the place of the
\* parameters and a row for each item in the place of a spread.
Value(v) == <<"value", v>>
Comma == <<"self", ",">>
Item(name, r, fields) ==
    <<<<"self", "(">>>>
    \o FlattenSeq([j \in DOMAIN fields |->
           (IF j > 1 THEN <<Comma>> ELSE <<>>) \o <<Value(<<"item", name, r, fields[j].name>>)>>])
    \o <<<<"self", ")">>>>
Said(token, items) ==
    CASE token[1] = "named"  -> <<Value(<<"argument", token[2]>>)>>
      [] token[1] = "spread" -> FlattenSeq([r \in 1 .. items[token[2]] |->
                                    (IF r > 1 THEN <<Comma>> ELSE <<>>) \o Item(token[2], r, token[3])])
      [] OTHER               -> <<token>>
Meaning(text, items) ==
    LET tokens == TemplateTokens(text)
    IN  FlattenSeq([k \in DOMAIN tokens |-> Said(tokens[k], items)])

\* What a statement says, with values in the place of the placeholders, and
\* casts left out: a type takes every [] and [n] that follows it.
RECURSIVE AfterType(_), Uncast(_)
AfterType(tokens) ==
    CASE Len(tokens) > 1 /\ tokens[1] = <<"self", "[">> /\ tokens[2] = <<"self", "]">> ->
           AfterType(SubSeq(tokens, 3, Len(tokens)))
      [] Len(tokens) > 2 /\ tokens[1] = <<"self", "[">> /\ tokens[2][1] = "number" ->
           AfterType(SubSeq(tokens, 4, Len(tokens)))
      [] OTHER -> tokens
Uncast(tokens) ==
    CASE tokens = <<>> -> <<>>
      [] tokens # <<>> /\ Head(tokens)[1] = "cast" -> Uncast(AfterType(SubSeq(tokens, 3, Len(tokens))))
      [] OTHER -> <<Head(tokens)>> \o Uncast(Tail(tokens))
Executed(sql, params) ==
    LET tokens == Uncast(Tokens(sql))
    IN  [k \in DOMAIN tokens |->
            IF tokens[k][1] # "placeholder" THEN tokens[k]
            ELSE IF tokens[k][2] \in DOMAIN params THEN Value(params[tokens[k][2]].value) ELSE Bad]

\* A semicolon ends a statement: within the wrap there is none.
Unended(tokens) == IF Last(tokens) = Semicolon THEN Front(tokens) ELSE tokens

Expected(text, items, wrapped) ==
    IF wrapped THEN Tokens(Before) \o Unended(Meaning(text, items)) \o Tokens(After) ELSE Meaning(text, items)

(***************************************************************************)
(* The statement that reaches the server is the template, token for token, *)
(* with the arguments and the items in the places of its parameters and    *)
(* spreads: what lex, ParamCollector and the two generators make of        *)
(* offsets and numbers changes nothing that a string, a comment, a         *)
(* dollar quote or an identifier holds, and nothing is left out.  Only a   *)
(* call without items sends nothing.                                       *)
(***************************************************************************)
SentMeansTemplate ==
    sent # <<>> =>
        LET s == sent[1]  q == query[1]
        IN  /\ Scans(TemplateTokens(Text))
            /\ s.statement # <<>> =>
                  Executed(s.statement[1], s.params) =
                  Expected(Text, s.items, q.spreads = <<>> /\ Wraps(s.mode) /\ q.subquery)
            /\ s.statement = <<>> => \A name \in DOMAIN s.items : s.items[name] = 0

(***************************************************************************)
(* A parameter is an Option exactly when it is marked ?, or is unmarked    *)
(* and some use of it takes NULL and none refuses it, wherever its uses    *)
(* and marks stand: an inferred nullability never overrides a mark.        *)
(***************************************************************************)
Uses(q, n) == {q.sites[k] : k \in {j \in DOMAIN q.numbers : q.numbers[j] = n}}
TakesNull(q, n, marks) ==
    IF marks # {} THEN marks = {"?"} ELSE "nullable" \in Uses(q, n) /\ "notnull" \notin Uses(q, n)
AnnotationsKept ==
    query # <<>> =>
        LET q      == query[1]
            tokens == TemplateTokens(Text)
            spread == SelectSeq(tokens, LAMBDA t : t[1] = "spread")
            fields == FlattenSeq([k \in DOMAIN spread |-> spread[k][3]])
        IN  /\ Len(fields) = Len(AllParams(q)) - Len(q.params)
            /\ \A n \in DOMAIN AllParams(q) :
               AllParams(q)[n].nullable <=>
               TakesNull(q, n, IF n <= Len(q.params) THEN Marks(tokens, q.params[n].name)
                               ELSE IF fields[n - Len(q.params)].nullable THEN {"?"} ELSE {})

(***************************************************************************)
(* Every value that the generated code binds is one that tokio_postgres    *)
(* encodes for the type the server gives to its placeholder, and every     *)
(* column is decoded into what its field declares, through domains,        *)
(* arrays, records and the names that [types] maps.                        *)
(***************************************************************************)
ValuesTravel ==
    /\ query # <<>> => Decodes(ptype, config)
    /\ sent # <<>> => \A k \in DOMAIN sent[1].params : Accepts(sent[1].params[k].rust, sent[1].params[k].type)

(***************************************************************************)
(* A call tells how many rows there are as its method promises: fetch_one  *)
(* is given one row or says that there are none or too many, though the    *)
(* server is only asked for two, and though a call without items asks it   *)
(* nothing.                                                                *)
(***************************************************************************)
RowsReported ==
    sent # <<>> =>
        LET s == sent[1]
        IN  s.outcome = IF s.mode \in {"all", "execute"} \/ s.rows = 1 \/ <<s.mode, s.rows>> = <<"optional", 0>>
                        THEN <<"ok", s.rows>>
                        ELSE IF s.rows = 0 THEN <<"NoRows">> ELSE <<"TooManyRows">>
=============================================================================
