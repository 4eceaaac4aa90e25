------------------------------ MODULE Catalog ------------------------------
(***************************************************************************)
(* The in-memory pg_catalog of typedpg_analyzer (src/pg_catalog/mod.rs)    *)
(* and the DDL handlers that change it (src/ddl): schemas, tables, views,  *)
(* keys, foreign keys and indexes.  The interpreter runs the statements of *)
(* the migrations one after the other; one action is one statement.        *)
(*                                                                         *)
(* The environment is a script that PostgreSQL accepts: what PostgreSQL    *)
(* alone refuses (a name taken, a second primary key) is a guard marked    *)
(* PG.  What the handler refuses is a guard without that mark.             *)
(*                                                                         *)
(* A handler helper takes a catalog and gives the catalog it leaves.       *)
(* OIDs are counted for schemas and relations alone.                       *)
(* Types, functions, operators, inheritance, CHECK, NOT NULL and the       *)
(* search path are left out: statements name a schema.                     *)
(***************************************************************************)
EXTENDS Integers, FiniteSets, FiniteSetsExt, Functions

CONSTANTS Schema,      \* names of schemas
          Public,      \* the schema of the seed
          Name,        \* names that a script gives to relations and constraints
          Column,      \* names of columns
          MaxOid,      \* bound on the OIDs a history allocates
          MaxAttnum,   \* bound on the columns of a relation
          MaxConstraints, \* bound on the rows of pg_constraint
          MaxSources,  \* bound on the relations a view reads and on the columns it names
          Gaps         \* patterns of statements that the code is known to mistrack

GapNames ==
    {"generated_name",  \* the name generated for a key is taken: PostgreSQL picks another
     "if_not_exists",   \* CREATE ... IF NOT EXISTS ... AS over an existing relation
     "star",            \* a column that a view reads through * is dropped
     "replace",         \* OR REPLACE of a view that other views read
     "schema",          \* DROP SCHEMA CASCADE, a foreign key pointing into it
     "moved_keys",      \* SET SCHEMA of a relation with indexes
     "key_cascade",     \* DROP of a key with CASCADE, a foreign key depending on it
     "shared_name",     \* DROP INDEX of a name that another table's key bears
     "self_fk"}         \* DROP COLUMN of one that a key of the same table points at

ASSUME CatalogAssumption ==
    /\ Public \in Schema
    /\ MaxOid \in Nat \ {0} /\ MaxAttnum \in Nat /\ MaxSources \in Nat /\ MaxConstraints \in Nat
    /\ Gaps \subseteq GapNames

VARIABLE cat    \* the catalog: one field for each table and each index by name

-----------------------------------------------------------------------------
(* Functions, names and rows. *)

With(f, k, v)  == [x \in DOMAIN f \cup {k} |-> IF x = k THEN v ELSE f[x]]
Without(f, S)  == [x \in DOMAIN f \ S |-> f[x]]

Key            == {"p", "u"}               \* PRIMARY KEY, UNIQUE
Queried        == {"view", "matview"}      \* kinds that have a rule
Holder         == {"table", "matview"}     \* kinds whose indexes go with them
Readable       == {"table", "view", "matview"}

\* A name given by the script, and the names format!() builds from others.
Given(n)                     == <<n>>
Generated(rel, cols, suffix) == <<rel, cols, suffix>>

Suffix(contype) == CASE contype = "p" -> "pkey" [] contype = "u" -> "key" [] OTHER -> "fkey"

\* The generated name of a primary key does not mention its columns.
constraint_name(rel, cols, contype) ==
    Generated(rel, IF contype = "p" THEN {} ELSE cols, Suffix(contype))

Gap(g) == g \in Gaps

Attnums(c, r) == IF r \in DOMAIN c.pg_attribute THEN DOMAIN c.pg_attribute[r] ELSE {}
Columns(c, r, key) == {c.pg_attribute[r][a] : a \in key}
Kind(c, r) == c.pg_class[r].relkind
Qname(c, r) == <<c.pg_class[r].relnamespace, c.pg_class[r].relname>>
Constraints(c, r) == {k \in c.pg_constraint : k.conrelid = r}
Fks(c) == {k \in c.pg_constraint : k.contype = "f"}
FksOn(c, r) == {k \in Fks(c) : k.confrelid = r}
IndexesOn(c, r) == {i \in DOMAIN c.pg_index : c.pg_index[i].indrelid = r}

\* The relations a statement can name: it finds them by the index.
Named(c, kinds) == {r \in Range(c.class_by_qname) : Kind(c, r) \in kinds}
NameFree(c, ns, name) == <<ns, name>> \notin DOMAIN c.class_by_qname
ConnameFree(c, r, name) == \A k \in Constraints(c, r) : k.conname # name

-----------------------------------------------------------------------------
(* The helpers of pg_catalog/mod.rs, "These keep the rows + name indexes in  *)
(* sync".                                                                    *)

insert_pg_namespace(c, oid, name) ==
    [c EXCEPT !.namespace_by_name = With(@, name, oid),
              !.pg_namespace = With(@, oid, name)]

remove_pg_namespace(c, oid) ==
    [c EXCEPT !.namespace_by_name = Without(@, {c.pg_namespace[oid]}),
              !.pg_namespace = Without(@, {oid})]

rename_pg_namespace(c, oid, name) ==
    [c EXCEPT !.namespace_by_name = With(Without(@, {c.pg_namespace[oid]}), name, oid),
              !.pg_namespace[oid] = name]

insert_pg_class(c, oid, row) ==
    [c EXCEPT !.class_by_qname = With(@, <<row.relnamespace, row.relname>>, oid),
              !.pg_class = With(@, oid, row)]

\* Mutant: the name keeps pointing at the row that is gone.
remove_pg_class_keeping_names(c, S) ==
    [c EXCEPT !.pg_class = Without(@, S),
              !.pg_attribute = Without(@, S)]

\* remove_pg_class, of each OID of S that has a row.
remove_pg_class(c, S) ==
    [c EXCEPT !.class_by_qname = Without(@, {Qname(c, r) : r \in S \cap DOMAIN c.pg_class}),
              !.pg_class = Without(@, S),
              !.pg_attribute = Without(@, S)]

rename_pg_class(c, oid, name, ns) ==
    [c EXCEPT !.class_by_qname = With(Without(@, {Qname(c, oid)}), <<ns, name>>, oid),
              !.pg_class[oid].relname = name,
              !.pg_class[oid].relnamespace = ns]

remove_dependencies(c, S) ==
    [c EXCEPT !.pg_depend = {d \in @ : d.objid \notin S /\ d.refobjid \notin S}]

alloc_oid(c, n) == [c EXCEPT !.next_oid = @ + n]

\* A statement that names a schema that does not exist creates it.
ensure_namespace(c, s) ==
    IF s \in DOMAIN c.namespace_by_name
    THEN c
    ELSE alloc_oid(insert_pg_namespace(c, c.next_oid, s), 1)

-----------------------------------------------------------------------------
(* The handlers. *)

IsView(c, v) == v \in DOMAIN c.pg_class /\ Kind(c, v) \in Queried

find_dependent_views(c, r) ==
    {d.objid : d \in {e \in c.pg_depend : e.refobjid = r /\ IsView(c, e.objid)}}

\* Mutant: every view of the table depends on the column.
views_of_table(c, r, a) == find_dependent_views(c, r)

find_views_depending_on_column(c, r, a) ==
    {d.objid : d \in {e \in c.pg_depend :
                         e.refobjid = r /\ e.refobjsubid = a /\ IsView(c, e.objid)}}

\* Mutant: the views of a dropped view stay.
views_listed(c, S) == S

\* No view outside T depends on a relation of T.
Closed(c, T) == \A r \in T : find_dependent_views(c, r) \subseteq T

\* What drop_views pops off its stack: S and the views that depend on it, transitively,
\* that is, the least closed set around S.
transitive_views(c, S) ==
    LET all == S \cup DOMAIN c.pg_class
    IN  {v \in all : \A T \in SUBSET all : S \subseteq T /\ Closed(c, T) => v \in T}

\* drop_relation_by_oid, of each OID of S: the order does not matter.
drop_relation_by_oid(c, S) ==
    LET gone  == S \cap DOMAIN c.pg_class
        kept  == {r \in gone : Kind(c, r) \in Holder}
        index == {i \in DOMAIN c.pg_index : c.pg_index[i].indrelid \in kept}
    IN  [remove_dependencies(remove_pg_class(c, gone \cup index), gone \cup index) EXCEPT
            !.pg_constraint = {k \in @ : k.conrelid \notin gone},
            !.pg_rewrite = Without(@, gone),
            !.pg_index = Without(@, index)]

drop_views(c, S) == drop_relation_by_oid(c, transitive_views(c, S))

\* Mutant: the pg_index rows stay.
drop_index_class_only(c, S) == remove_dependencies(remove_pg_class(c, S), S)

\* The class and pg_index rows of the indexes of S, and nothing else of theirs.
drop_index_rows(c, S) ==
    [remove_dependencies(remove_pg_class(c, S), S) EXCEPT !.pg_index = Without(@, S)]

insert_index(c, ns, name, row) ==
    alloc_oid([insert_pg_class(c, c.next_oid,
                  [relname |-> name, relnamespace |-> ns, relkind |-> "index"])
                  EXCEPT !.pg_index = With(@, c.next_oid, row)], 1)

emit_constraint_with_backing_index(c, con) ==
    LET inserted == [c EXCEPT !.pg_constraint = @ \cup {con}]
    IN  IF con.contype \in Key
        THEN insert_index(inserted, c.pg_class[con.conrelid].relnamespace, con.conname,
                          [indrelid |-> con.conrelid, indkey |-> con.conkey,
                           indisunique |-> TRUE, indisprimary |-> con.contype = "p"])
        ELSE inserted

KeyRow(c, r, key, contype) ==
    [conname |-> constraint_name(c.pg_class[r].relname, Columns(c, r, key), contype),
     conrelid |-> r, contype |-> contype, conkey |-> key, confrelid |-> 0, confkey |-> {}]

FkRow(c, r, key, target, confkey) ==
    [KeyRow(c, r, key, "f") EXCEPT !.confrelid = target, !.confkey = confkey]

\* Mutant: columns that a key merely contains pass for a key.
resolve_fk_target_in_key(c, target, confkey) ==
    \E x \in Constraints(c, target) : x.contype \in Key /\ confkey \subseteq x.conkey

\* The referenced columns are those of a PRIMARY KEY or UNIQUE constraint.
resolve_fk_target(c, target, confkey) ==
    \E x \in Constraints(c, target) : x.contype \in Key /\ x.conkey = confkey

\* One row per relation and one per column that the query names; * names none.
record_view_dependencies(v, query) ==
    {[objid |-> v, refobjid |-> r, refobjsubid |-> 0] : r \in query.rels}
    \cup IF query.star THEN {}
         ELSE {[objid |-> v, refobjid |-> col[1], refobjsubid |-> col[2]] : col \in Range(query.cols)}

\* Mutant: no column of the query has a name.
Unnamed(c, col) == "?column?"

\* A query reads the relations rels; cols is its target list, of columns <<r, a>>,
\* expanded as of now if it is a *.
OutputName(c, col) == c.pg_attribute[col[1]][col[2]]

install_relation(c, ns, name, kind, query) ==
    LET v == c.next_oid
    IN  alloc_oid([insert_pg_class(c, v, [relname |-> name, relnamespace |-> ns, relkind |-> kind])
            EXCEPT !.pg_attribute = With(@, v, [i \in DOMAIN query.cols |-> OutputName(c, query.cols[i])]),
                   !.pg_rewrite   = IF kind \in Queried
                                    THEN With(@, v, [rels |-> query.rels, cols |-> Range(query.cols)])
                                    ELSE @,
                   !.pg_depend    = @ \cup record_view_dependencies(v, query)], 1)

-----------------------------------------------------------------------------
(* Statements on schemas. *)

Init == cat = [next_oid          |-> 2,
               pg_namespace      |-> [ns \in {1} |-> Public],
               namespace_by_name |-> [s \in {Public} |-> 1],
               pg_class          |-> <<>>,
               class_by_qname    |-> <<>>,
               pg_attribute      |-> <<>>,
               pg_constraint     |-> {},
               pg_index          |-> <<>>,
               pg_depend         |-> {},
               pg_rewrite        |-> <<>>]

\* The statement leaves catalog c, within the bounds of the instance.
Leaves(c) == \E left \in {c} : /\ left.next_oid <= MaxOid + 1
                               /\ Cardinality(left.pg_constraint) <= MaxConstraints
                               /\ cat' = left

CreateSchema(s) == Leaves(ensure_namespace(cat, s))

RenameSchema(s, new) ==
    /\ new \notin DOMAIN cat.namespace_by_name                              \* PG
    /\ Leaves(rename_pg_namespace(cat, cat.namespace_by_name[s], new))

\* The views that read a relation of the schema go too; foreign keys do not.
DropSchema(s, cascade) ==
    LET ns     == cat.namespace_by_name[s]
        inside == {r \in DOMAIN cat.pg_class : cat.pg_class[r].relnamespace = ns}
        gone   == transitive_views(cat, inside)
    IN  /\ inside = {} \/ cascade
        /\ Gap("schema") \/ \A k \in Fks(cat) : k.confrelid \in gone => k.conrelid \in gone
        /\ Leaves(remove_pg_namespace(drop_views(cat, inside), ns))

-----------------------------------------------------------------------------
(* CREATE TABLE, and ALTER TABLE on columns. *)

\* A reference of the table to its own key is refused: emit_constraints looks
\* for the referenced key before it inserts those of the table.
CreateTable(s, n, cols, pk, fk, target) ==
    LET c     == ensure_namespace(cat, s)
        ns    == c.namespace_by_name[s]
        r     == c.next_oid
        built == alloc_oid([insert_pg_class(c, r,
                     [relname |-> Given(n), relnamespace |-> ns, relkind |-> "table"])
                     EXCEPT !.pg_attribute = With(@, r, cols)], 1)
        key(names) == {a \in Attnums(built, r) : built.pg_attribute[r][a] \in names}
        keyed == IF pk = {} THEN built
                 ELSE emit_constraint_with_backing_index(built, KeyRow(built, r, key(pk), "p"))
    IN  /\ NameFree(c, ns, Given(n))
        /\ pk = {} \/ Gap("generated_name") \/ NameFree(c, ns, constraint_name(Given(n), pk, "p"))
        /\ \/ fk = {} /\ Leaves(keyed)
           \/ /\ fk # {}
              /\ target \in Named(built, {"table"})
              /\ \E confkey \in SUBSET Attnums(built, target) :
                    /\ Cardinality(confkey) = Cardinality(fk)
                    /\ resolve_fk_target(built, target, confkey)
                    /\ Leaves(emit_constraint_with_backing_index(keyed,
                                  FkRow(keyed, r, key(fk), target, confkey)))

\* One past the largest: the number of a dropped last column is used again.
next_attnum(r) == Max(Attnums(cat, r) \cup {0}) + 1

AddColumn(r, col) ==
    /\ col \notin Range(cat.pg_attribute[r])
    /\ next_attnum(r) \in 1..MaxAttnum
    /\ Leaves([cat EXCEPT !.pg_attribute[r] = With(@, next_attnum(r), col)])

\* A view reads column a of r and pg_depend does not say so.
ReadByStar(c, r, a) ==
    \E v \in DOMAIN c.pg_rewrite : /\ <<r, a>> \in c.pg_rewrite[v].cols
                                   /\ v \notin find_views_depending_on_column(c, r, a)

\* Constraints and indexes on the column go with it; the foreign keys of other
\* tables (blockers) and the views only under CASCADE.
drop_column(c, r, a) ==
    LET views    == find_views_depending_on_column(c, r, a)
        local    == {k \in Constraints(c, r) : a \in k.conkey}
        blockers == {k \in FksOn(c, r) : a \in k.confkey /\ k.conrelid # r}
        indexes  == {i \in IndexesOn(c, r) : a \in c.pg_index[i].indkey}
        freed    == [drop_index_rows(c, indexes) EXCEPT !.pg_constraint = @ \ (local \cup blockers)]
    IN  [drop_views(freed, views) EXCEPT !.pg_attribute[r] = Without(@, {a})]

DropColumn(r, a, cascade) ==
    /\ \/ cascade
       \/ /\ find_views_depending_on_column(cat, r, a) = {}
          /\ \A k \in FksOn(cat, r) : a \notin k.confkey \/ k.conrelid = r
    /\ Gap("star") \/ ~ReadByStar(cat, r, a)
    /\ Gap("self_fk") \/ \A k \in FksOn(cat, r) \cap Constraints(cat, r) :
                             a \in k.confkey => a \in k.conkey
    /\ Leaves(drop_column(cat, r, a))

RenameColumn(r, a, new) ==
    /\ new \notin Range(cat.pg_attribute[r])                                \* PG
    /\ Leaves([cat EXCEPT !.pg_attribute[r][a] = new])

-----------------------------------------------------------------------------
(* Constraints and indexes. *)

AddKey(r, key, contype) ==
    LET con == KeyRow(cat, r, key, contype)
    IN  /\ contype = "p" => \A k \in Constraints(cat, r) : k.contype # "p"  \* PG
        /\ \/ Gap("generated_name")
           \/ /\ NameFree(cat, cat.pg_class[r].relnamespace, con.conname)
              /\ ConnameFree(cat, r, con.conname)
        /\ Leaves(emit_constraint_with_backing_index(cat, con))

AddForeignKey(r, key, target, confkey) ==
    LET con == FkRow(cat, r, key, target, confkey)
    IN  /\ Cardinality(key) = Cardinality(confkey)
        /\ resolve_fk_target(cat, target, confkey)
        /\ Gap("generated_name") \/ ConnameFree(cat, r, con.conname)
        /\ Leaves(emit_constraint_with_backing_index(cat, con))

\* The index of a key is the one that bears its name in the schema of the table.
backing_index(c, con) ==
    {i \in DOMAIN c.pg_index : /\ con.contype \in Key
                               /\ i \in DOMAIN c.pg_class
                               /\ Qname(c, i) = <<c.pg_class[con.conrelid].relnamespace, con.conname>>}

Dependents(con) == {k \in FksOn(cat, con.conrelid) : con.contype \in Key /\ k.confkey = con.conkey}

DropConstraint(con, cascade) ==
    /\ Dependents(con) = {} \/ (cascade /\ Gap("key_cascade"))
    /\ Leaves([drop_index_rows(cat, backing_index(cat, con)) EXCEPT !.pg_constraint = @ \ {con}])

\* Mutant: the index keeps the old name.
rename_constraint_only(c, con, name) ==
    [c EXCEPT !.pg_constraint = (@ \ {con}) \cup {[con EXCEPT !.conname = name]}]

rename_constraint(c, con, name) ==
    LET renamed == [c EXCEPT !.pg_constraint = (@ \ {con}) \cup {[con EXCEPT !.conname = name]}]
    IN  IF backing_index(c, con) = {} THEN renamed
        ELSE rename_pg_class(renamed, CHOOSE i \in backing_index(c, con) : TRUE,
                             name, c.pg_class[con.conrelid].relnamespace)

RenameConstraint(con, n) ==
    /\ ConnameFree(cat, con.conrelid, Given(n))                             \* PG
    /\ con.contype \in Key
          => NameFree(cat, cat.pg_class[con.conrelid].relnamespace, Given(n))  \* PG
    /\ Leaves(rename_constraint(cat, con, Given(n)))

\* A unique index without a predicate counts as a constraint of its name.
CreateIndex(r, key, unique, n) ==
    LET ns  == cat.pg_class[r].relnamespace
        idx == insert_index(cat, ns, Given(n), [indrelid |-> r, indkey |-> key,
                   indisunique |-> unique, indisprimary |-> FALSE])
        con == [KeyRow(cat, r, key, "u") EXCEPT !.conname = Given(n)]
    IN  /\ NameFree(cat, ns, Given(n))
        /\ unique => Gap("shared_name") \/ ConnameFree(cat, r, Given(n))
        /\ Leaves(IF unique THEN [idx EXCEPT !.pg_constraint = @ \cup {con}] ELSE idx)

\* Unique constraints of the index's name go, whatever their table.  PostgreSQL
\* also refuses the index of a UNIQUE constraint: these scripts are more.
DropIndex(i) ==
    LET same == {k \in cat.pg_constraint : k.contype = "u" /\ k.conname = cat.pg_class[i].relname}
    IN  /\ ~cat.pg_index[i].indisprimary                                    \* PG
        /\ \A k \in same : i \in backing_index(cat, k) => Dependents(k) = {}  \* PG
        /\ Gap("shared_name") \/ \A k \in same : i \in backing_index(cat, k)
        /\ Leaves([drop_index_rows(cat, {i}) EXCEPT !.pg_constraint = @ \ same])

-----------------------------------------------------------------------------
(* Views, and statements on any relation. *)

Lists(S, n) == {f \in UNION {[1..k -> S] : k \in 0..n} : IsInjective(f)}

ReadColumns(c, rels) == UNION {{r} \X Attnums(c, r) : r \in rels}

\* The list that * stands for, the only one: relation by relation, each in the order
\* of attnum.
Star(c, rels) ==
    LET columns == ReadColumns(c, rels)
        Before(x, y) == x[1] < y[1] \/ (x[1] = y[1] /\ x[2] < y[2])
    IN  {list \in [1..Cardinality(columns) -> columns] :
            \A i, j \in DOMAIN list : i < j => Before(list[i], list[j])}

\* The queries a view can have: PostgreSQL refuses two columns of one name.
Queries(c) ==
    LET sources == {R \in SUBSET Named(c, Readable) : Cardinality(R) \in 1..MaxSources}
        stars   == UNION {{[rels |-> R, cols |-> l, star |-> TRUE] : l \in Star(c, R)} : R \in sources}
        lists   == UNION {{[rels |-> R, cols |-> l, star |-> FALSE] :
                              l \in Lists(ReadColumns(c, R), MaxSources)} : R \in sources}
    IN  {q \in stars \cup lists : IsInjective([i \in DOMAIN q.cols |-> OutputName(c, q.cols[i])])}

CreateView(s, n, q) ==
    LET c  == ensure_namespace(cat, s)
        ns == c.namespace_by_name[s]
    IN  /\ NameFree(c, ns, Given(n))                                        \* PG
        /\ Leaves(install_relation(c, ns, Given(n), "view", q))

\* The old view is dropped and a new one installed under another OID.
ReplaceView(v, q) ==
    LET row == cat.pg_class[v]
        new == install_relation(drop_relation_by_oid(cat, {v}),
                                row.relnamespace, row.relname, "view", q)
    IN  /\ v \notin q.rels                                                  \* PG
        /\ \A a \in Attnums(cat, v) : /\ a \in Attnums(new, cat.next_oid)   \* PG
                                      /\ new.pg_attribute[cat.next_oid][a] = cat.pg_attribute[v][a]
        /\ Gap("replace") \/ find_dependent_views(cat, v) = {}
        /\ Leaves(new)

CreateTableAs(s, n, kind, q) ==
    LET c  == ensure_namespace(cat, s)
        ns == c.namespace_by_name[s]
    IN  /\ Gap("if_not_exists") \/ NameFree(c, ns, Given(n))                \* PG
        /\ Leaves(install_relation(c, ns, Given(n), kind, q))

\* DROP TABLE, DROP VIEW, DROP MATERIALIZED VIEW.
DropRelation(r, cascade) ==
    LET views == find_dependent_views(cat, r)
        freed == [drop_views(cat, views) EXCEPT !.pg_constraint = @ \ FksOn(cat, r)]
    IN  /\ cascade \/ (views = {} /\ FksOn(cat, r) = {})
        /\ Leaves(drop_relation_by_oid(freed, {r}))

RenameRelation(r, n) ==
    /\ NameFree(cat, cat.pg_class[r].relnamespace, Given(n))                \* PG
    /\ Leaves(rename_pg_class(cat, r, Given(n), cat.pg_class[r].relnamespace))

SetSchema(r, s) ==
    LET c  == ensure_namespace(cat, s)
        ns == c.namespace_by_name[s]
    IN  /\ NameFree(c, ns, cat.pg_class[r].relname)                         \* PG
        /\ Gap("moved_keys") \/ IndexesOn(cat, r) = {}
        /\ Leaves(rename_pg_class(c, r, cat.pg_class[r].relname, ns))

-----------------------------------------------------------------------------
Tables == Named(cat, {"table"})

\* A bound that Leaves repeats: these statements allocate an OID.
OidsLeft == cat.next_oid <= MaxOid

SchemaStatement ==
    \/ \E s \in Schema : CreateSchema(s)
    \/ \E s \in DOMAIN cat.namespace_by_name :
          \/ \E new \in Schema : RenameSchema(s, new)
          \/ \E cascade \in BOOLEAN : DropSchema(s, cascade)

\* A foreign key of one column on a table that there is, or on the new one.
Targets(fk) == IF fk = {} THEN {cat.next_oid} ELSE Tables \cup {cat.next_oid, cat.next_oid + 1}

TableStatement ==
    \/ /\ OidsLeft
       /\ \E s \in Schema, n \in Name : \E cols \in Lists(Column, MaxAttnum) :
             \E pk \in SUBSET Range(cols), fk \in {{}} \cup {{col} : col \in Range(cols)} :
                \E target \in Targets(fk) : CreateTable(s, n, cols, pk, fk, target)
    \/ \E r \in Tables :
          \/ \E col \in Column : AddColumn(r, col)
          \/ \E a \in Attnums(cat, r), cascade \in BOOLEAN : DropColumn(r, a, cascade)
    \/ \E r \in Named(cat, Readable) : \E a \in Attnums(cat, r), new \in Column :
          RenameColumn(r, a, new)

ConstraintStatement ==
    \/ /\ OidsLeft
       /\ \/ \E r \in Tables : \E key \in (SUBSET Attnums(cat, r)) \ {{}}, contype \in Key :
                AddKey(r, key, contype)
          \/ \E r \in Named(cat, Holder) : \E key \in (SUBSET Attnums(cat, r)) \ {{}} :
                \E unique \in BOOLEAN, n \in Name : CreateIndex(r, key, unique, n)
    \/ \E r, target \in Tables :
          \E key \in (SUBSET Attnums(cat, r)) \ {{}}, confkey \in SUBSET Attnums(cat, target) :
             AddForeignKey(r, key, target, confkey)
    \/ \E con \in cat.pg_constraint :
          \/ \E cascade \in BOOLEAN : DropConstraint(con, cascade)
          \/ \E n \in Name : RenameConstraint(con, n)
    \/ \E i \in Named(cat, {"index"}) : DropIndex(i)

RelationStatement ==
    \/ /\ OidsLeft
       /\ \E q \in Queries(cat) :
             \/ \E s \in Schema, n \in Name :
                   \/ CreateView(s, n, q)
                   \/ \E kind \in {"table", "matview"} : CreateTableAs(s, n, kind, q)
             \/ \E v \in Named(cat, {"view"}) : ReplaceView(v, q)
    \/ \E r \in Named(cat, Readable) :
          \/ \E cascade \in BOOLEAN : DropRelation(r, cascade)
          \/ \E n \in Name : RenameRelation(r, n)
          \/ \E s \in Schema : SetSchema(r, s)

Next == SchemaStatement \/ TableStatement \/ ConstraintStatement \/ RelationStatement

Spec == Init /\ [][Next]_cat

-----------------------------------------------------------------------------
(* Properties. *)

Oid == 1..MaxOid

\* The fields of the catalog have the shape of the rows in pg_catalog/rows.rs.
TypeOK ==
    /\ cat.next_oid \in 1..(MaxOid + 1)
    /\ DOMAIN cat.pg_namespace \subseteq Oid /\ Range(cat.pg_namespace) \subseteq Schema
    /\ DOMAIN cat.namespace_by_name \subseteq Schema /\ Range(cat.namespace_by_name) \subseteq Oid
    /\ DOMAIN cat.pg_class \subseteq Oid
    /\ \A r \in DOMAIN cat.pg_class :
          cat.pg_class[r].relnamespace \in Oid /\ Kind(cat, r) \in Readable \cup {"index"}
    /\ \A r \in DOMAIN cat.pg_attribute :
          Attnums(cat, r) \subseteq Nat \ {0} /\ Range(cat.pg_attribute[r]) \subseteq Column
    /\ \A i \in DOMAIN cat.pg_index : cat.pg_index[i].indkey \subseteq Nat \ {0}
    /\ \A k \in cat.pg_constraint : k.contype \in Key \cup {"f"}

\* A name finds the row that bears it, and every row is found by its name,
\* after any sequence of creations, renames, moves and drops.
NamesInSync ==
    /\ \A r \in DOMAIN cat.pg_class : /\ Qname(cat, r) \in DOMAIN cat.class_by_qname
                                      /\ cat.class_by_qname[Qname(cat, r)] = r
    /\ Range(cat.class_by_qname) \subseteq DOMAIN cat.pg_class
    /\ \A q \in DOMAIN cat.class_by_qname : Qname(cat, cat.class_by_qname[q]) = q
    /\ \A ns \in DOMAIN cat.pg_namespace : cat.namespace_by_name[cat.pg_namespace[ns]] = ns
    /\ \A r \in DOMAIN cat.pg_class : cat.pg_class[r].relnamespace \in DOMAIN cat.pg_namespace

\* Whatever was dropped, no constraint and no index mentions a table or a
\* column that is gone, and every index has both its rows.
RowsResolve ==
    /\ \A k \in cat.pg_constraint :
          /\ k.conkey \subseteq Attnums(cat, k.conrelid) /\ k.conrelid \in DOMAIN cat.pg_class
          /\ k.contype = "f" => /\ k.confrelid \in DOMAIN cat.pg_class
                                /\ k.confkey \subseteq Attnums(cat, k.confrelid)
    /\ \A i \in DOMAIN cat.pg_index :
          /\ cat.pg_index[i].indrelid \in DOMAIN cat.pg_class
          /\ cat.pg_index[i].indkey \subseteq Attnums(cat, cat.pg_index[i].indrelid)
    /\ DOMAIN cat.pg_index = {r \in DOMAIN cat.pg_class : Kind(cat, r) = "index"}

\* A view outlives neither a relation nor a column that it reads: whoever drops
\* one is stopped, or takes the view along.
ViewsIntact ==
    \A v \in DOMAIN cat.pg_rewrite :
       /\ v \in DOMAIN cat.pg_class
       /\ cat.pg_rewrite[v].rels \subseteq DOMAIN cat.pg_class
       /\ \A col \in cat.pg_rewrite[v].cols : col[2] \in Attnums(cat, col[1])

\* Every PRIMARY KEY and UNIQUE constraint has exactly one index, of its name,
\* on its table and its columns, so that DROP CONSTRAINT and RENAME CONSTRAINT
\* find it.
KeysIndexed ==
    \A k \in {x \in cat.pg_constraint : x.contype \in Key} :
       \E i \in backing_index(cat, k) :
          /\ cat.pg_index[i].indrelid = k.conrelid
          /\ cat.pg_index[i].indkey = k.conkey
          /\ cat.pg_index[i].indisunique

\* What a foreign key references stays a key of its table.
FksCovered ==
    \A k \in Fks(cat) : \E x \in Constraints(cat, k.confrelid) :
       x.contype \in Key /\ x.conkey = k.confkey

\* Something v reads is gone from c.
Bereaved(v, c) == \/ \E r \in cat.pg_rewrite[v].rels : r \notin DOMAIN c.pg_class
                  \/ \E col \in cat.pg_rewrite[v].cols : col[2] \notin Attnums(c, col[1])

\* CASCADE takes only what depends.  A view that a statement drops lost something
\* it read, or its schema; or the statement named the view, and then whatever else
\* went is an index or lost something it read, and the other relations keep their columns.
CascadeOnlyDependents ==
    [][\A v \in DOMAIN cat.pg_rewrite \ DOMAIN cat'.pg_rewrite :
          \/ Bereaved(v, cat')
          \/ cat.pg_class[v].relnamespace \notin DOMAIN cat'.pg_namespace
          \/ /\ \A x \in (DOMAIN cat.pg_class \ DOMAIN cat'.pg_class) \ {v} :
                   Kind(cat, x) = "index" \/ (x \in DOMAIN cat.pg_rewrite /\ Bereaved(x, cat'))
             /\ \A r \in DOMAIN cat.pg_attribute \cap DOMAIN cat'.pg_attribute :
                   cat.pg_attribute[r] = cat'.pg_attribute[r]]_cat

=============================================================================
