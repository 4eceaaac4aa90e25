---------------------------- MODULE TypeObjects ----------------------------
(***************************************************************************)
(* The types of the in-memory pg_catalog (src/ddl/types.rs), the objects   *)
(* that come with a type or name one (its array, the row type of a         *)
(* relation, columns, domains, ranges, casts, views) and the extensions    *)
(* (src/ddl/extensions).  One action is one statement of the migrations.   *)
(*                                                                         *)
(* As in Catalog, the script is one that PostgreSQL accepts: a guard       *)
(* marked PG is a refusal of PostgreSQL alone.  The other guards are       *)
(* refusals of the handler.  Gaps are the statements that the code is      *)
(* known to mistrack.                                                      *)
(*                                                                         *)
(* A schema is its name, and the columns of a relation are the set of      *)
(* their types: names of columns, keys and indexes are Catalog's.  OIDs    *)
(* are counted for types, relations, casts, operators and extensions.      *)
(***************************************************************************)
EXTENDS Integers, FiniteSets, Functions, SequencesExt, TLC

CONSTANTS Schema,      \* names of schemas
          Public,      \* the schema of the seed
          Home,        \* the schemas in which a script declares types and relations
          UserName,    \* names that a script gives, each a sequence
          MemberName,  \* names that the scripts of extensions give
          Label,       \* labels of enums
          Unit,        \* f32 steps between 1.0 and 2.0
          Registry,    \* extension -> sequence of [version, from, script]
          MaxOid,      \* bound on the OIDs a history allocates
          Gaps         \* patterns of statements that the code mistracks

GapNames ==
    {"array_name",      \* the name _x of an array is taken: PostgreSQL picks another
     "same_name",       \* RENAME or SET SCHEMA of a sequence named as a type
     "rename_value",    \* ALTER TYPE ... RENAME VALUE
     "crowded",         \* ADD VALUE between two labels with no f32 between them
     "composite_row",   \* DROP, RENAME or SET SCHEMA of a composite type
     "type_users",      \* DROP TYPE CASCADE, a domain or range over the type
     "view_columns",    \* DROP TYPE CASCADE, a view with a column of the type
     "row_type_users",  \* DROP of a relation CASCADE whose row type is used
     "schema_types",    \* DROP SCHEMA CASCADE, a type in it used from outside
     "extension_users", \* DROP EXTENSION CASCADE, its types used
     "extension_parts"} \* an extension that creates operators or views

\* A statement in the script of an extension.
Statement == [op: {"type", "cast", "operator", "view"}, name: MemberName]

array_name(name) == <<"_">> \o name

ASSUME TypeObjectsAssumption ==
    /\ Public \in Schema /\ Home \subseteq Schema
    /\ Unit \in Nat \ {0} /\ MaxOid \in Nat /\ 3 <= MaxOid
    /\ Gaps \subseteq GapNames
    /\ \A name \in UserName \cup MemberName : array_name(name) # name
    /\ \A e \in DOMAIN Registry :
          Registry[e] \in Seq([version: STRING \ {""}, from: STRING, script: Seq(Statement)])

VARIABLES cat,      \* the catalog
          labels,   \* history: the labels of each enum as PostgreSQL orders them
          made      \* history: the OIDs that the scripts of each extension allocated

vars == <<cat, labels, made>>

-----------------------------------------------------------------------------
(* Rows, names and who uses a type. *)

Gap(g)        == g \in Gaps
With(f, k, v) == [x \in DOMAIN f \cup {k} |-> IF x = k THEN v ELSE f[x]]
Without(f, S) == [x \in DOMAIN f \ S |-> f[x]]

None      == 0
Int4      == 1        \* a type of the seed, its array, and the pseudo-type record
Int4Array == 2
Record    == 3

TypeRow(ns, name, typtype) ==
    [typname |-> name, typnamespace |-> ns, typtype |-> typtype, typrelid |-> None,
     typelem |-> None, typarray |-> None, typbasetype |-> None]

Relations(c, kinds) == {r \in DOMAIN c.pg_class : c.pg_class[r].relkind \in kinds}
Columns(c, r)       == IF r \in DOMAIN c.pg_attribute THEN c.pg_attribute[r] ELSE {}
TypeFree(c, ns, name)  == <<ns, name>> \notin DOMAIN c.type_by_qname
ClassFree(c, ns, name) == <<ns, name>> \notin DOMAIN c.class_by_qname

TypeName(c, t)     == <<c.pg_type[t].typnamespace, c.pg_type[t].typname>>
RelationName(c, r) == <<c.pg_class[r].relnamespace, c.pg_class[r].relname>>

array_type_of(c, t) == IF t \in DOMAIN c.pg_type THEN c.pg_type[t].typarray ELSE None

\* A type and its array: what goes when the type goes.
Both(c, t) == {t, array_type_of(c, t)} \ {None}

OfKind(c, typtypes) == {t \in DOMAIN c.pg_type : c.pg_type[t].typtype \in typtypes}

\* The types that a script writes by their own name.
Named(c) ==
    {t \in DOMAIN c.pg_type : /\ c.pg_type[t].typelem = None
                              /\ c.pg_type[t].typtype # "pseudo"}

\* The types that a script declares and may alter: not rows, not arrays, not members.
Owned(c) == {d.objid : d \in {e \in c.pg_depend : e.deptype = "extension"}}
Declared(c) ==
    {t \in Named(c) \ {Int4} :
        c.pg_type[t].typrelid # None => c.pg_class[c.pg_type[t].typrelid].relkind = "composite"}

Over(c, S) ==
    {d \in DOMAIN c.pg_type \ S : c.pg_type[d].typbasetype \in S}
        \cup {g \in DOMAIN c.pg_range \ S : c.pg_range[g] \in S}
Holders(c, S) == {r \in DOMAIN c.pg_class : Columns(c, r) \cap S # {}}

find_views_depending_on_type(c, S) ==
    {d.objid : d \in {e \in c.pg_depend : e.deptype = "type" /\ e.refobjid \in S}}
find_dependent_views(c, S) ==
    {d.objid : d \in {e \in c.pg_depend : e.deptype = "class" /\ e.refobjid \in S}}

RowTypes(c, gone) == UNION {Both(c, c.pg_class[r].reltype) : r \in gone}

\* Nothing but the relations that go names one of the types that go.
Unused(c, types, gone) ==
    /\ Holders(c, types) \subseteq gone
    /\ find_views_depending_on_type(c, types) \subseteq gone
    /\ Over(c, types) = {}

-----------------------------------------------------------------------------
(* The helpers of pg_catalog/mod.rs that keep rows and names together. *)

alloc_oid(c, n) == [c EXCEPT !.next_oid = @ + n]

insert_pg_type(c, oid, row) ==
    [c EXCEPT !.type_by_qname = With(@, <<row.typnamespace, row.typname>>, oid),
              !.pg_type = With(@, oid, row)]

\* Mutant: the labels and the subtype stay.
remove_row_alone(c, S) ==
    [c EXCEPT !.type_by_qname = Without(@, {TypeName(c, t) : t \in S \cap DOMAIN c.pg_type}),
              !.pg_type = Without(@, S)]

\* remove_pg_type of each OID of S that has a row.
remove_pg_type(c, S) ==
    [c EXCEPT !.type_by_qname = Without(@, {TypeName(c, t) : t \in S \cap DOMAIN c.pg_type}),
              !.pg_type = Without(@, S),
              !.pg_enum = Without(@, S),
              !.pg_range = Without(@, S)]

rename_pg_type(c, oid, name, ns) ==
    [c EXCEPT !.type_by_qname = With(Without(@, {TypeName(c, oid)}), <<ns, name>>, oid),
              !.pg_type[oid].typname = name,
              !.pg_type[oid].typnamespace = ns]

rename_pg_class(c, oid, name, ns) ==
    [c EXCEPT !.class_by_qname = With(Without(@, {RelationName(c, oid)}), <<ns, name>>, oid),
              !.pg_class[oid].relname = name,
              !.pg_class[oid].relnamespace = ns]

insert_pg_cast(c, oid, source, target) ==
    [c EXCEPT !.cast_by_pair = With(@, <<source, target>>, oid),
              !.pg_cast = With(@, oid, <<source, target>>)]

remove_pg_cast(c, S) ==
    [c EXCEPT !.cast_by_pair = Without(@, {c.pg_cast[k] : k \in S \cap DOMAIN c.pg_cast}),
              !.pg_cast = Without(@, S)]

remove_dependencies(c, S) ==
    [c EXCEPT !.pg_depend = {d \in @ : d.objid \notin S /\ d.refobjid \notin S}]

\* The label goes behind those whose order is not above its own.
insert_pg_enum(rows, row) ==
    InsertAt(rows, 1 + Cardinality({i \in DOMAIN rows : rows[i].order <= row.order}), row)

-----------------------------------------------------------------------------
(* A type, its array and its relation. *)

register_array_type(c, ns, name, element) ==
    LET array == c.next_oid
        d     == insert_pg_type(c, array, [TypeRow(ns, array_name(name), "base") EXCEPT !.typelem = element])
    IN  alloc_oid([d EXCEPT !.pg_type[element].typarray = array], 1)

\* The row of a type under a new OID, and its array.
define(c, row) ==
    register_array_type(alloc_oid(insert_pg_type(c, c.next_oid, row), 1),
                        row.typnamespace, row.typname, c.next_oid)

\* A relation, its row type and the array of it.
install_relation(c, ns, name, kind, columns) ==
    LET rel == c.next_oid
        d   == [c EXCEPT !.class_by_qname = With(@, <<ns, name>>, rel),
                         !.pg_class = With(@, rel, [relname |-> name, relnamespace |-> ns,
                                                    relkind |-> kind, reltype |-> rel + 1]),
                         !.pg_attribute = With(@, rel, columns)]
    IN  define(alloc_oid(d, 1), [TypeRow(ns, name, "composite") EXCEPT !.typrelid = rel])

\* A composite type converts to record: the type is the second OID of its relation.
register_composite_to_record_cast(c, composite) ==
    alloc_oid(insert_pg_cast(c, c.next_oid, composite, Record), 1)

\* Mutant: the array is left to its old name.
rename_the_type_alone(c, t, ns, old, name, newns) == rename_pg_type(c, t, name, newns)

\* ALTER finds the array by the name _old in the old schema.
rename_type_and_array(c, t, ns, old, name, newns) ==
    LET d     == rename_pg_type(c, t, name, newns)
        array == <<ns, array_name(old)>>
    IN  IF array \in DOMAIN d.type_by_qname
        THEN rename_pg_type(d, d.type_by_qname[array], array_name(name), newns)
        ELSE d

drop_relations(c, S) ==
    LET d == [c EXCEPT !.class_by_qname = Without(@, {RelationName(c, r) : r \in S}),
                       !.pg_class = Without(@, S),
                       !.pg_attribute = Without(@, S),
                       !.pg_rewrite = Without(@, S)]
    IN  remove_pg_type(remove_dependencies(d, S), RowTypes(c, S))

\* The views of S, the views that read them, and so on up: the least such set.
transitive_views(c, S) ==
    LET all == S \cup DOMAIN c.pg_class
    IN  {v \in all : \A T \in SUBSET all : S \subseteq T /\ find_dependent_views(c, T) \subseteq T => v \in T}

drop_views(c, S) == drop_relations(c, transitive_views(c, S))

-----------------------------------------------------------------------------
(* Statements that declare. *)

SeedType ==
    [t \in {Int4, Int4Array, Record} |->
        CASE t = Int4      -> [TypeRow("pg_catalog", <<"int4">>, "base") EXCEPT !.typarray = Int4Array]
          [] t = Int4Array -> [TypeRow("pg_catalog", array_name(<<"int4">>), "base") EXCEPT !.typelem = Int4]
          [] t = Record    -> TypeRow("pg_catalog", <<"record">>, "pseudo")]

Seed ==
    [pg_namespace   |-> Schema \cup {"pg_catalog"},
     pg_type        |-> SeedType,
     type_by_qname  |-> [q \in {<<SeedType[t].typnamespace, SeedType[t].typname>> : t \in DOMAIN SeedType} |->
                            CHOOSE t \in DOMAIN SeedType : q = <<SeedType[t].typnamespace, SeedType[t].typname>>],
     pg_enum        |-> <<>>,
     pg_range       |-> <<>>,
     pg_class       |-> <<>>,
     class_by_qname |-> <<>>,
     pg_attribute   |-> <<>>,
     pg_rewrite     |-> <<>>,
     pg_cast        |-> <<>>,
     cast_by_pair   |-> <<>>,
     pg_operator    |-> {},
     pg_depend      |-> {},
     pg_extension   |-> <<>>,
     next_oid       |-> 4]

Init ==
    /\ cat = Seed
    /\ labels = <<>>
    /\ made = [e \in DOMAIN Registry |-> {}]

HaveOids(n) == cat.next_oid + n - 1 <= MaxOid

\* A type name free for the type, and the one its array takes.
NewTypeName(ns, name) ==
    /\ ns \in cat.pg_namespace                                    \* PG
    /\ TypeFree(cat, ns, name)
    /\ Gap("array_name") \/ TypeFree(cat, ns, array_name(name))

CreateDomain(ns, name, base) ==
    /\ HaveOids(2)
    /\ NewTypeName(ns, name)
    /\ cat' = define(cat, [TypeRow(ns, name, "domain") EXCEPT !.typbasetype = base])
    /\ UNCHANGED <<labels, made>>

CreateEnum(ns, name, list) ==
    /\ HaveOids(2)
    /\ NewTypeName(ns, name)
    /\ cat' = [define(cat, TypeRow(ns, name, "enum")) EXCEPT
                  !.pg_enum = With(@, cat.next_oid,
                                   [i \in DOMAIN list |-> [label |-> list[i], order |-> i * Unit]])]
    /\ labels' = With(labels, cat.next_oid, list)
    /\ UNCHANGED made

\* The name of a composite type is not that of a relation either.
CreateComposite(ns, name, fields) ==
    /\ HaveOids(4)
    /\ NewTypeName(ns, name)
    /\ ClassFree(cat, ns, name)                                   \* PG
    /\ cat' = register_composite_to_record_cast(install_relation(cat, ns, name, "composite", fields),
                                                cat.next_oid + 1)
    /\ UNCHANGED <<labels, made>>

CreateRange(ns, name, subtype) ==
    /\ HaveOids(2)
    /\ NewTypeName(ns, name)
    /\ cat' = [define(cat, TypeRow(ns, name, "range")) EXCEPT !.pg_range = With(@, cat.next_oid, subtype)]
    /\ UNCHANGED <<labels, made>>

\* CREATE TYPE x, a shell, and CREATE TYPE x (...): the second finds the first.
define_type(c, ns, name) ==
    IF TypeFree(c, ns, name) THEN define(c, TypeRow(ns, name, "base")) ELSE c

DefineType(ns, name) ==
    /\ HaveOids(2)
    /\ ns \in cat.pg_namespace                                    \* PG
    /\ TypeFree(cat, ns, name) => Gap("array_name") \/ TypeFree(cat, ns, array_name(name))
    /\ ~ TypeFree(cat, ns, name) => cat.type_by_qname[<<ns, name>>] \in OfKind(cat, {"base"})   \* PG
    /\ cat' = define_type(cat, ns, name)
    /\ UNCHANGED <<labels, made>>

\* WITHOUT FUNCTION is refused of a domain and of an enum.
CreateCast(source, target, binary) ==
    /\ HaveOids(1)
    /\ binary => {source, target} \cap OfKind(cat, {"domain", "enum"}) = {}
    /\ <<source, target>> \notin DOMAIN cat.cast_by_pair          \* PG
    /\ cat' = alloc_oid(insert_pg_cast(cat, cat.next_oid, source, target), 1)
    /\ UNCHANGED <<labels, made>>

CreateTable(ns, name, columns) ==
    /\ HaveOids(4)
    /\ ns \in cat.pg_namespace                                    \* PG
    /\ TypeFree(cat, ns, name)                                    \* PG
    /\ ClassFree(cat, ns, name)
    /\ Gap("array_name") \/ TypeFree(cat, ns, array_name(name))
    /\ cat' = register_composite_to_record_cast(install_relation(cat, ns, name, "table", columns),
                                                cat.next_oid + 1)
    /\ UNCHANGED <<labels, made>>

\* A sequence has no row type.
CreateSequence(ns, name) ==
    /\ HaveOids(1)
    /\ ns \in cat.pg_namespace                                    \* PG
    /\ ClassFree(cat, ns, name)
    /\ cat' = alloc_oid([cat EXCEPT
                  !.class_by_qname = With(@, <<ns, name>>, cat.next_oid),
                  !.pg_class = With(@, cat.next_oid, [relname |-> name, relnamespace |-> ns,
                                                      relkind |-> "sequence", reltype |-> None])], 1)
    /\ UNCHANGED <<labels, made>>

\* A view that selects the columns of a relation and casts to a type in its WHERE.
create_view(c, ns, name, reads, casts) ==
    LET rel     == c.next_oid
        columns == UNION {Columns(c, r) : r \in reads}
    IN  [install_relation(c, ns, name, "view", columns) EXCEPT
            !.pg_rewrite = With(@, rel, [reads |-> reads, columns |-> columns, casts |-> casts]),
            !.pg_depend = @ \cup [objid : {rel}, refobjid : reads, deptype : {"class"}]
                            \cup [objid : {rel}, refobjid : casts, deptype : {"type"}]]

CreateView(ns, name, reads, casts) ==
    /\ HaveOids(3)
    /\ ns \in cat.pg_namespace                                    \* PG
    /\ TypeFree(cat, ns, name) /\ ClassFree(cat, ns, name)        \* PG
    /\ Gap("array_name") \/ TypeFree(cat, ns, array_name(name))
    /\ cat' = create_view(cat, ns, name, reads, casts)
    /\ UNCHANGED <<labels, made>>

-----------------------------------------------------------------------------
(* ALTER TYPE on an enum. *)

Highest(rows) == Max({0} \cup {rows[i].order : i \in DOMAIN rows})

\* Halfway between two orders, rounded to even when f32 has nothing between.
midpoint(a, b) ==
    LET mid == (a + b) \div 2 IN IF (a + b) % 2 = 0 \/ mid % 2 = 0 THEN mid ELSE mid + 1

\* The orders above, or below, that of a neighbour.
Beyond(rows, order, after) ==
    {o \in {rows[i].order : i \in DOMAIN rows} : IF after THEN o > order ELSE o < order}

Nearest(S, after) == IF after THEN Min(S) ELSE Max(S)

\* Mutant: one past the neighbour, whatever comes next.
one_past(rows, order, after) == IF after THEN order + Unit ELSE order - Unit

beside(rows, order, after) ==
    LET beyond == Beyond(rows, order, after)
    IN  IF beyond = {}
        THEN IF after THEN order + Unit ELSE order - Unit
        ELSE midpoint(order, Nearest(beyond, after))

Position(list, label) == CHOOSE i \in DOMAIN list : list[i] = label

\* ADD VALUE [IF NOT EXISTS] label [AFTER | BEFORE neighbour]; RENAME VALUE arrives
\* with its neighbour empty and is read as an ADD VALUE.
Places(list) == {[at |-> "end"]} \cup [at : {"after", "before"}, of : Range(list)]
                                 \cup [at : {"rename"}, of : Range(list)]

added(rows, label, place) ==
    LET near  == rows[Position([i \in DOMAIN rows |-> rows[i].label], place.of)].order
        order == IF place.at \in {"end", "rename"}
                 THEN Highest(rows) + Unit
                 ELSE beside(rows, near, place.at = "after")
    IN  insert_pg_enum(rows, [label |-> label, order |-> order])

\* The labels that PostgreSQL has after the statement.
Ordered(list, label, place) ==
    CASE place.at = "end"    -> Append(list, label)
      [] place.at = "after"  -> InsertAt(list, Position(list, place.of) + 1, label)
      [] place.at = "before" -> InsertAt(list, Position(list, place.of), label)
      [] place.at = "rename" -> [list EXCEPT ![Position(list, place.of)] = label]

Crowded(rows, place) ==
    /\ place.at \in {"after", "before"}
    /\ LET near   == rows[Position([i \in DOMAIN rows |-> rows[i].label], place.of)].order
           beyond == Beyond(rows, near, place.at = "after")
       IN  beyond # {} /\ (near + Nearest(beyond, place.at = "after")) % 2 = 1

AlterEnum(t, label, place, if_not_exists) ==
    /\ Gap("rename_value") \/ place.at # "rename"
    /\ Gap("crowded") \/ ~ Crowded(cat.pg_enum[t], place)
    /\ label \in Range(labels[t]) => if_not_exists
    /\ IF \E i \in DOMAIN cat.pg_enum[t] : cat.pg_enum[t][i].label = label
       THEN UNCHANGED <<cat, labels>>
       ELSE /\ cat' = [cat EXCEPT !.pg_enum[t] = added(@, label, place)]
            /\ labels' = [labels EXCEPT ![t] = Ordered(@, label, place)]
    /\ UNCHANGED made

-----------------------------------------------------------------------------
(* Statements that rename or move. *)

\* A composite type's relation keeps the old name.
MayAlter(t) == t \in Declared(cat) /\ (Gap("composite_row") \/ cat.pg_type[t].typrelid = None)

\* PG refuses a name that is taken; the array takes _name.
MoveType(t, ns, name) ==
    LET row == cat.pg_type[t] IN
    /\ MayAlter(t)
    /\ TypeFree(cat, ns, name)                                    \* PG
    /\ Gap("array_name") \/ TypeFree(cat, ns, array_name(name))
    /\ cat' = rename_type_and_array(cat, t, row.typnamespace, row.typname, name, ns)
    /\ UNCHANGED <<labels, made>>

RenameType(t, name) == MoveType(t, cat.pg_type[t].typnamespace, name)

SetTypeSchema(t, ns) ==
    /\ ns \in cat.pg_namespace                                    \* PG
    /\ MoveType(t, ns, cat.pg_type[t].typname)

\* Mutant: the row type is looked up in the schema of the seed.
alter_relation_in_public(c, r, ns, name) ==
    LET row == c.pg_class[r]
        d   == rename_pg_class(c, r, name, ns)
        key == <<Public, row.relname>>
    IN  IF key \in DOMAIN d.type_by_qname
        THEN rename_type_and_array(d, d.type_by_qname[key], Public, row.relname, name, ns)
        ELSE d

\* The row type is found by the name of the relation.
alter_relation(c, r, ns, name) ==
    LET row == c.pg_class[r]
        d   == rename_pg_class(c, r, name, ns)
        key == RelationName(c, r)
    IN  IF key \in DOMAIN d.type_by_qname
        THEN rename_type_and_array(d, d.type_by_qname[key], row.relnamespace, row.relname, name, ns)
        ELSE d

MoveRelation(r, ns, name) ==
    LET row == cat.pg_class[r] IN
    /\ ClassFree(cat, ns, name)                                   \* PG
    /\ row.reltype # None =>
          /\ TypeFree(cat, ns, name)                              \* PG
          /\ Gap("array_name") \/ TypeFree(cat, ns, array_name(name))
    /\ Gap("same_name") \/ row.reltype # None \/ TypeFree(cat, row.relnamespace, row.relname)
    /\ cat' = alter_relation(cat, r, ns, name)
    /\ UNCHANGED <<labels, made>>

\* Of a table, a view or a sequence.
RenameRelation(r, name) == MoveRelation(r, cat.pg_class[r].relnamespace, name)

SetRelationSchema(r, ns) ==
    /\ ns \in cat.pg_namespace                                    \* PG
    /\ MoveRelation(r, ns, cat.pg_class[r].relname)

-----------------------------------------------------------------------------
(* Statements that drop. *)

\* The columns of the type go from their relations.
drop_columns(c, S) == [c EXCEPT !.pg_attribute = [r \in DOMAIN @ |-> @[r] \ S]]

\* Mutant: the columns of the array are not looked for.
drop_type_leaving_array_columns(c, t) ==
    LET S == Both(c, t)
        d == drop_views(drop_columns(c, {t}), find_views_depending_on_type(c, {t}))
    IN  remove_dependencies(remove_pg_type(d, S), S)

drop_type(c, t) ==
    LET S == Both(c, t)
        d == drop_views(drop_columns(c, S), find_views_depending_on_type(c, {t}))
    IN  remove_dependencies(remove_pg_type(d, S), S)

DropType(t, cascade) ==
    LET S     == Both(cat, t)
        views == transitive_views(cat, find_views_depending_on_type(cat, {t}))
    IN
    /\ t \in Declared(cat) \ Owned(cat)                           \* PG
    /\ ~ cascade => Holders(cat, S) \cup find_views_depending_on_type(cat, {t}) = {}
    /\ Over(cat, S) # {} => cascade /\ Gap("type_users")
    /\ Gap("composite_row") \/ cat.pg_type[t].typrelid = None
    /\ Gap("view_columns") \/ Holders(cat, S) \cap Relations(cat, {"view"}) = {}
    /\ Gap("row_type_users") \/ Unused(cat, RowTypes(cat, views), views)
    /\ cat' = drop_type(cat, t)
    /\ labels' = Without(labels, S)
    /\ UNCHANGED made

\* DROP TABLE, VIEW or SEQUENCE.
DropRelation(r, cascade) ==
    LET gone == transitive_views(cat, {r}) IN
    /\ cat.pg_class[r].relkind # "composite"                      \* PG
    /\ ~ cascade => gone = {r}
    /\ Unused(cat, RowTypes(cat, gone), gone) \/ (cascade /\ Gap("row_type_users"))
    /\ cat' = drop_views(cat, {r})
    /\ UNCHANGED <<labels, made>>

CreateSchema(s) ==
    /\ s \notin cat.pg_namespace
    /\ cat' = [cat EXCEPT !.pg_namespace = @ \cup {s}]
    /\ UNCHANGED <<labels, made>>

DropSchema(s, cascade) ==
    LET types == {t \in DOMAIN cat.pg_type : cat.pg_type[t].typnamespace = s}
        gone  == {r \in DOMAIN cat.pg_class : cat.pg_class[r].relnamespace = s}
        views == transitive_views(cat, gone)
    IN
    /\ s \in (cat.pg_namespace \cap Schema) \ {Public}
    /\ ~ cascade => types = {} /\ gone = {}
    /\ \A e \in DOMAIN cat.pg_extension : cat.pg_extension[e].schema # s    \* PG
    /\ types \cap Owned(cat) = {}                                 \* PG
    /\ Unused(cat, types \cup RowTypes(cat, views), views) \/ (cascade /\ Gap("schema_types"))
    /\ cat' = LET d == remove_pg_type(drop_relations(cat, views), types)
              IN  [remove_dependencies(d, types) EXCEPT !.pg_namespace = @ \ {s}]
    /\ labels' = Without(labels, types)
    /\ UNCHANGED made

-----------------------------------------------------------------------------
(* Extensions.  A version is a base install (from = "") or an upgrade. *)

\* The first version of the registry that upgrades the current one is taken.
Upgrades(e, version) == {i \in DOMAIN Registry[e] : Registry[e][i].from = version}

Taken(e, version) == Registry[e][Min(Upgrades(e, version))]

\* The versions walked from one towards the target, and their scripts in a row.
Walk(e, from, target) ==
    LET Step(w) == IF w.at = target \/ Upgrades(e, w.at) = {} THEN w
                   ELSE [at |-> Taken(e, w.at).version, script |-> w.script \o Taken(e, w.at).script]
        walk[n \in 0..Len(Registry[e])] ==
            IF n = 0 THEN [at |-> from, script |-> <<>>] ELSE Step(walk[n-1])
    IN  walk[Len(Registry[e])]

\* The script runs with the schema of the extension first in the search path.
run_statement(c, stmt, ns) ==
    CASE stmt.op = "type"     -> define_type(c, ns, stmt.name)
      [] stmt.op = "cast"     -> IF TypeFree(c, ns, stmt.name) THEN c
                                 ELSE alloc_oid(insert_pg_cast(c, c.next_oid,
                                          c.type_by_qname[<<ns, stmt.name>>], Int4), 1)
      [] stmt.op = "operator" -> alloc_oid([c EXCEPT !.pg_operator = @ \cup {c.next_oid}], 1)
      [] stmt.op = "view"     -> create_view(c, ns, stmt.name, {}, {})

\* The catalog before the first statement, and after each.
Course(c, script, ns) ==
    LET course[n \in 0..Len(script)] == IF n = 0 THEN c ELSE run_statement(course[n-1], script[n], ns)
    IN  course

apply_with_schema(c, script, ns) == Course(c, script, ns)[Len(script)]

\* Mutant: only the types are tagged.
record_types_alone(before, c, ext) ==
    LET new == DOMAIN c.pg_type \ DOMAIN before.pg_type
    IN  [c EXCEPT !.pg_depend = @ \cup [objid : new, refobjid : {ext}, deptype : {"extension"}]]

\* A row of pg_depend for each type and cast that was not there before.
record_extension_membership(before, c, ext) ==
    LET new == (DOMAIN c.pg_type \ DOMAIN before.pg_type) \cup (DOMAIN c.pg_cast \ DOMAIN before.pg_cast)
    IN  [c EXCEPT !.pg_depend = @ \cup [objid : new, refobjid : {ext}, deptype : {"extension"}]]

\* PG: the names that a statement creates are free, but that of a shell, and
\* those it uses are there.
Accepted(c, stmt, ns) ==
    /\ stmt.op \in {"type", "view"} /\ TypeFree(c, ns, stmt.name) =>
          /\ ClassFree(c, ns, stmt.name)
          /\ Gap("array_name") \/ TypeFree(c, ns, array_name(stmt.name))
    /\ stmt.op = "type" /\ ~ TypeFree(c, ns, stmt.name) =>
          c.type_by_qname[<<ns, stmt.name>>] \in OfKind(c, {"base"})
    /\ stmt.op = "view" => TypeFree(c, ns, stmt.name)
    /\ stmt.op = "cast" =>
          /\ ~ TypeFree(c, ns, stmt.name)
          /\ <<c.type_by_qname[<<ns, stmt.name>>], Int4>> \notin DOMAIN c.cast_by_pair
    /\ Gap("extension_parts") \/ stmt.op \in {"type", "cast"}

Runs(c, script, ns) ==
    \A i \in DOMAIN script : Accepted(Course(c, script, ns)[i-1], script[i], ns)

Allocated(before, after) == before.next_oid..(after.next_oid - 1)

CreateExtension(e, target, ns) ==
    LET walk == Walk(e, "", target)
        ext  == cat.next_oid
        d    == alloc_oid([cat EXCEPT !.pg_extension =
                    With(@, e, [oid |-> ext, schema |-> ns, version |-> target])], 1)
    IN
    /\ e \notin DOMAIN cat.pg_extension
    /\ walk.at = target
    /\ ns \in cat.pg_namespace                                    \* PG
    /\ Runs(d, walk.script, ns)
    /\ cat' = record_extension_membership(d, apply_with_schema(d, walk.script, ns), ext)
    /\ cat'.next_oid - 1 <= MaxOid
    /\ made' = [made EXCEPT ![e] = Allocated(d, cat')]
    /\ UNCHANGED labels

AlterExtension(e, target) ==
    LET row  == cat.pg_extension[e]
        walk == Walk(e, row.version, target)
    IN
    /\ row.version # target /\ walk.at = target
    /\ Runs(cat, walk.script, row.schema)
    /\ cat' = [record_extension_membership(cat, apply_with_schema(cat, walk.script, row.schema), row.oid)
                   EXCEPT !.pg_extension[e].version = target]
    /\ cat'.next_oid - 1 <= MaxOid
    /\ made' = [made EXCEPT ![e] = @ \cup Allocated(cat, cat')]
    /\ UNCHANGED labels

extension_objects(c, ext) ==
    {d.objid : d \in {x \in c.pg_depend : x.deptype = "extension" /\ x.refobjid = ext}}

\* CASCADE is not read.
DropExtension(e, cascade) ==
    LET ext   == cat.pg_extension[e].oid
        owned == extension_objects(cat, ext)
    IN
    /\ Unused(cat, owned, {}) \/ (cascade /\ Gap("extension_users"))
    /\ cat' = LET d == remove_pg_cast(remove_pg_type(cat, owned), owned)
              IN  [remove_dependencies(d, owned \cup {ext}) EXCEPT !.pg_extension = Without(@, {e})]
    /\ UNCHANGED <<labels, made>>

-----------------------------------------------------------------------------

\* What a statement may name the type of: a type or its array.
Usable(c) == Named(c) \cup {t \in DOMAIN c.pg_type : c.pg_type[t].typelem # None /\ t # Int4Array}

Subsets1(S) == {{}} \cup {{x} : x \in S}

Create(ns, name) ==
    \/ \E base \in Usable(cat) : CreateDomain(ns, name, base)
    \/ \E list \in {<<>>} \cup {<<l>> : l \in Label} : CreateEnum(ns, name, list)
    \/ \E fields \in Subsets1(Usable(cat)) : CreateComposite(ns, name, fields)
    \/ \E subtype \in Named(cat) : CreateRange(ns, name, subtype)
    \/ DefineType(ns, name)
    \/ \E columns \in Subsets1(Usable(cat)) : CreateTable(ns, name, columns)
    \/ CreateSequence(ns, name)
    \/ \E reads \in Subsets1(Relations(cat, {"table", "view"})), casts \in Subsets1(Named(cat)) :
          CreateView(ns, name, reads, casts)

Next ==
    \/ \E ns \in Home, name \in UserName : Create(ns, name)
    \/ \E source \in Declared(cat), binary \in BOOLEAN : CreateCast(source, Int4, binary)
    \/ \E t \in DOMAIN cat.pg_enum, label \in Label, if_not_exists \in BOOLEAN :
          \E place \in Places(labels[t]) : AlterEnum(t, label, place, if_not_exists)
    \/ \E t \in Declared(cat) : \/ \E name \in UserName : RenameType(t, name)
                               \/ \E ns \in Schema : SetTypeSchema(t, ns)
    \/ \E r \in Relations(cat, {"table", "view", "sequence"}) :
          \/ \E name \in UserName : RenameRelation(r, name)
          \/ \E ns \in Schema : SetRelationSchema(r, ns)
    \/ \E t \in Declared(cat), cascade \in BOOLEAN : DropType(t, cascade)
    \/ \E r \in DOMAIN cat.pg_class, cascade \in BOOLEAN : DropRelation(r, cascade)
    \/ \E s \in Schema : CreateSchema(s)
    \/ \E s \in Schema, cascade \in BOOLEAN : DropSchema(s, cascade)
    \/ \E e \in DOMAIN Registry, ns \in Schema :
          \E i \in DOMAIN Registry[e] : CreateExtension(e, Registry[e][i].version, ns)
    \/ \E e \in DOMAIN cat.pg_extension :
          \E i \in DOMAIN Registry[e] : AlterExtension(e, Registry[e][i].version)
    \/ \E e \in DOMAIN cat.pg_extension, cascade \in BOOLEAN : DropExtension(e, cascade)

Spec == Init /\ [][Next]_vars

-----------------------------------------------------------------------------
(* Properties. *)

Oid == 1..MaxOid

\* Rows are keyed by OIDs that were allocated, and a row has one kind.
TypeOK ==
    /\ cat.next_oid \in 4..(MaxOid + 1)
    /\ UNION {DOMAIN cat.pg_type, DOMAIN cat.pg_class, DOMAIN cat.pg_cast} \subseteq 1..(cat.next_oid - 1)
    /\ DOMAIN cat.pg_type \cap DOMAIN cat.pg_class = {}
    /\ DOMAIN cat.pg_enum = OfKind(cat, {"enum"})
    /\ DOMAIN cat.pg_range = OfKind(cat, {"range"})
    /\ DOMAIN cat.pg_rewrite = Relations(cat, {"view"})
    /\ DOMAIN cat.pg_extension \subseteq DOMAIN Registry
    /\ cat.pg_namespace \subseteq Schema \cup {"pg_catalog"}

\* The index by name finds each type and nothing else; a type and its array
\* point at each other and bear the names x and _x in one schema; a relation
\* and its row type point at each other and bear one name.  RENAME and SET
\* SCHEMA find the array and the row type by name, so that a name that got
\* out of step makes the next ALTER move a type that is not concerned.
TypesTied ==
    /\ \A q \in DOMAIN cat.type_by_qname :
          cat.type_by_qname[q] \in DOMAIN cat.pg_type /\ TypeName(cat, cat.type_by_qname[q]) = q
    /\ \A t \in DOMAIN cat.pg_type :
          TypeName(cat, t) \in DOMAIN cat.type_by_qname /\ cat.type_by_qname[TypeName(cat, t)] = t
    /\ \A t \in DOMAIN cat.pg_type :
          LET row == cat.pg_type[t] IN
          /\ row.typarray # None =>
                /\ row.typarray \in DOMAIN cat.pg_type
                /\ cat.pg_type[row.typarray].typelem = t
                /\ cat.pg_type[row.typarray].typname = array_name(row.typname)
                /\ cat.pg_type[row.typarray].typnamespace = row.typnamespace
          /\ row.typelem # None => row.typelem \in DOMAIN cat.pg_type /\ array_type_of(cat, row.typelem) = t
          /\ row.typrelid # None =>
                /\ row.typrelid \in DOMAIN cat.pg_class
                /\ cat.pg_class[row.typrelid].reltype = t
                /\ RelationName(cat, row.typrelid) = TypeName(cat, t)
    /\ \A r \in DOMAIN cat.pg_class : cat.pg_class[r].reltype \in DOMAIN cat.pg_type \cup {None}

\* What names a type names one that is there: the columns of a relation, the
\* base of a domain and of a range, the columns a view selects, the relations
\* it reads and the types it casts to.  DROP TYPE, DROP SCHEMA and DROP
\* EXTENSION must find all of them.
TypesResolve ==
    LET there == DOMAIN cat.pg_type IN
    /\ \A r \in DOMAIN cat.pg_attribute : cat.pg_attribute[r] \subseteq there
    /\ \A t \in there : cat.pg_type[t].typbasetype \in there \cup {None}
    /\ Range(cat.pg_range) \subseteq there
    /\ \A v \in DOMAIN cat.pg_rewrite :
          LET rule == cat.pg_rewrite[v] IN
          /\ rule.casts \subseteq there
          /\ rule.reads \subseteq DOMAIN cat.pg_class
          /\ rule.columns \subseteq UNION {Columns(cat, r) : r \in rule.reads}

\* A statement renames or moves at most one type and its array, and with a
\* relation only the row type of that relation: ALTER finds the type by the
\* name of the relation, and a type may bear the name of a sequence.
RenamesItsOwn ==
    [][LET types     == {t \in DOMAIN cat.pg_type \cap DOMAIN cat'.pg_type :
                            TypeName(cat, t) # TypeName(cat, t)'}
           relations == {r \in DOMAIN cat.pg_class \cap DOMAIN cat'.pg_class :
                            RelationName(cat, r) # RelationName(cat, r)'}
       IN  /\ \A r \in relations : types = Both(cat, cat.pg_class[r].reltype)
           /\ Cardinality(types) <= 2]_vars

\* The labels of an enum stand in the order of PostgreSQL, whatever the
\* sequence of ADD VALUE with AFTER, BEFORE and IF NOT EXISTS: the midpoints
\* of f32 and the stable sort of insert_pg_enum place each one.
LabelsAgree ==
    \A t \in DOMAIN cat.pg_enum :
        [i \in DOMAIN cat.pg_enum[t] |-> cat.pg_enum[t][i].label] = labels[t]

\* What the scripts of an extension made is tagged as its own while it is
\* installed, at any version it was upgraded to, and is gone when it is not.
ExtensionsWhole ==
    LET there == DOMAIN cat.pg_type \cup DOMAIN cat.pg_cast \cup DOMAIN cat.pg_class \cup cat.pg_operator
    IN  \A e \in DOMAIN Registry :
            IF e \in DOMAIN cat.pg_extension
            THEN /\ extension_objects(cat, cat.pg_extension[e].oid) = made[e]
                 /\ made[e] \subseteq there
            ELSE made[e] \cap there = {}
=============================================================================
