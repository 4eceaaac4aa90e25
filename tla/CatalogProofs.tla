---------------------------- MODULE CatalogProofs ----------------------------
(***************************************************************************)
(* What the changes of Catalog preserve, for catalogs as values: c before, *)
(* d after.  A statement is one or several of a few kinds of change (a new *)
(* relation, a new index, a removal, a renaming), and the invariant has    *)
(* four layers, each kept by every kind of change under conditions of its  *)
(* own:                                                                    *)
(*   Base         OIDs are fresh, names and rows are paired, rows are of   *)
(*                the right kind;                                          *)
(*   TablesWhole  constraints and indexes mention what exists, every key   *)
(*                has its index, every foreign key its key;                *)
(*   ViewsWhole   a rule reads what exists, and pg_depend has the entry;   *)
(*   Deps         what pg_depend says of a view, its rule says too.        *)
(* An effect lemma unfolds a helper of the code into a kind of change, and *)
(* the lemmas after it say what the change keeps.  One lemma per statement *)
(* puts them together, and then come the theorems: the invariants that are *)
(* checked, and the action property about CASCADE.                         *)
(*                                                                         *)
(* Gaps lists the patterns that the code is known to mistrack.  Each       *)
(* theorem says which of them it excludes: what tables promise survives    *)
(* the gaps of views, what views promise those of tables, and the name     *)
(* indexes both.                                                           *)
(***************************************************************************)
EXTENDS Catalog, TLAPS

-----------------------------------------------------------------------------
(* Catalogs as values. *)

Fields == {"next_oid", "pg_namespace", "namespace_by_name", "pg_class", "class_by_qname",
           "pg_attribute", "pg_constraint", "pg_index", "pg_depend", "pg_rewrite"}

IsCatalog(c) == DOMAIN c = Fields

\* g is f without the keys of S; g is f with k bound to v.
Less(f, S, g)    == DOMAIN g = DOMAIN f \ S /\ \A x \in DOMAIN g : g[x] = f[x]
More(f, k, v, g) == /\ DOMAIN g = DOMAIN f \cup {k} /\ g[k] = v
                    /\ \A x \in DOMAIN f \ {k} : g[x] = f[x]

SameNamespaces(c, d) == d.pg_namespace = c.pg_namespace /\ d.namespace_by_name = c.namespace_by_name
SameClasses(c, d)    == d.pg_class = c.pg_class /\ d.class_by_qname = c.class_by_qname
SameRest(c, d)       == /\ d.pg_attribute = c.pg_attribute /\ d.pg_constraint = c.pg_constraint
                        /\ d.pg_index = c.pg_index /\ d.pg_depend = c.pg_depend
                        /\ d.pg_rewrite = c.pg_rewrite

-----------------------------------------------------------------------------
(* The part of the invariant that names and kinds rest on. *)

\* An OID that will be allocated belongs to nothing yet.
Fresh(c) ==
    /\ c.next_oid \in Nat \ {0}
    /\ \A r \in DOMAIN c.pg_namespace \cup DOMAIN c.pg_class \cup DOMAIN c.pg_attribute
                \cup DOMAIN c.pg_index \cup DOMAIN c.pg_rewrite :
          r \in Nat \ {0} /\ r < c.next_oid

NamespacesPaired(c) ==
    /\ \A ns \in DOMAIN c.pg_namespace :
          /\ c.pg_namespace[ns] \in DOMAIN c.namespace_by_name \cap Schema
          /\ c.namespace_by_name[c.pg_namespace[ns]] = ns
    /\ \A s \in DOMAIN c.namespace_by_name :
          /\ c.namespace_by_name[s] \in DOMAIN c.pg_namespace
          /\ c.pg_namespace[c.namespace_by_name[s]] = s

ClassesPaired(c) ==
    /\ \A r \in DOMAIN c.pg_class : /\ Qname(c, r) \in DOMAIN c.class_by_qname
                                    /\ c.class_by_qname[Qname(c, r)] = r
    /\ \A q \in DOMAIN c.class_by_qname : /\ c.class_by_qname[q] \in DOMAIN c.pg_class
                                          /\ Qname(c, c.class_by_qname[q]) = q

IsClassRow(c, row) ==
    /\ DOMAIN row = {"relname", "relnamespace", "relkind"}
    /\ row.relnamespace \in DOMAIN c.pg_namespace
    /\ row.relkind \in Readable \cup {"index"}

ClassRows(c) == \A r \in DOMAIN c.pg_class : IsClassRow(c, c.pg_class[r])

IsConstraint(c, k) ==
    /\ DOMAIN k = {"conname", "conrelid", "contype", "conkey", "confrelid", "confkey"}
    /\ k.contype \in Key \cup {"f"}
    /\ k.conrelid \in DOMAIN c.pg_class /\ Kind(c, k.conrelid) \in Holder

ConstraintRows(c) == \A k \in c.pg_constraint : IsConstraint(c, k)

\* Index rows and rules belong to indexes and views.
OwnKinds(c) ==
    /\ DOMAIN c.pg_index \cap DOMAIN c.pg_rewrite = {}
    /\ \A i \in DOMAIN c.pg_index \cap DOMAIN c.pg_class : Kind(c, i) = "index"
    /\ \A i \in DOMAIN c.pg_class : Kind(c, i) = "index" => i \in DOMAIN c.pg_index

IsAttributes(attrs) == DOMAIN attrs \subseteq Nat \ {0} /\ Range(attrs) \subseteq Column

ColumnTypes(c) ==
    /\ \A r \in DOMAIN c.pg_attribute : IsAttributes(c.pg_attribute[r])
    /\ \A i \in DOMAIN c.pg_index : c.pg_index[i].indkey \subseteq Nat \ {0}

Base(c) == /\ IsCatalog(c) /\ Fresh(c) /\ NamespacesPaired(c) /\ ClassesPaired(c)
           /\ ClassRows(c) /\ ConstraintRows(c) /\ OwnKinds(c) /\ ColumnTypes(c)

-----------------------------------------------------------------------------
(* Kinds of changes. *)

\* A class row of a new OID.
NewClass(c, row, d) ==
    /\ IsCatalog(d) /\ SameNamespaces(c, d) /\ d.next_oid = c.next_oid + 1
    /\ More(c.pg_class, c.next_oid, row, d.pg_class)
    /\ More(c.class_by_qname, <<row.relnamespace, row.relname>>, c.next_oid, d.class_by_qname)

\* A table or view, its columns, and its rule if it has one.
NewRelation(c, row, attrs, rule, deps, d) ==
    /\ NewClass(c, row, d)
    /\ More(c.pg_attribute, c.next_oid, attrs, d.pg_attribute)
    /\ d.pg_constraint = c.pg_constraint /\ d.pg_index = c.pg_index
    /\ d.pg_depend = c.pg_depend \cup deps
    /\ IF row.relkind \in Queried THEN More(c.pg_rewrite, c.next_oid, rule, d.pg_rewrite)
                                  ELSE d.pg_rewrite = c.pg_rewrite

\* An index, with the constraints K that it stands for.
NewIndex(c, row, index, K, d) ==
    /\ NewClass(c, row, d)
    /\ More(c.pg_index, c.next_oid, index, d.pg_index)
    /\ d.pg_constraint = c.pg_constraint \cup K
    /\ d.pg_attribute = c.pg_attribute /\ d.pg_depend = c.pg_depend /\ d.pg_rewrite = c.pg_rewrite

\* The class rows of G, the index rows of X and the constraints K are gone.
Removal(c, G, X, K, d) ==
    /\ IsCatalog(d) /\ SameNamespaces(c, d) /\ d.next_oid = c.next_oid
    /\ Less(c.pg_class, G, d.pg_class)
    /\ Less(c.class_by_qname, {Qname(c, r) : r \in G \cap DOMAIN c.pg_class}, d.class_by_qname)
    /\ Less(c.pg_attribute, G, d.pg_attribute)
    /\ Less(c.pg_rewrite, G, d.pg_rewrite)
    /\ Less(c.pg_index, X, d.pg_index)
    /\ d.pg_constraint = c.pg_constraint \ K
    /\ d.pg_depend = {e \in c.pg_depend : e.objid \notin G /\ e.refobjid \notin G}

\* Relation r is called name, in the schema ns.
Renaming(c, r, name, ns, d) ==
    /\ IsCatalog(d) /\ SameNamespaces(c, d) /\ d.next_oid = c.next_oid
    /\ DOMAIN d.pg_class = DOMAIN c.pg_class
    /\ \A x \in DOMAIN c.pg_class \ {r} : d.pg_class[x] = c.pg_class[x]
    /\ d.pg_class[r] = [c.pg_class[r] EXCEPT !.relname = name, !.relnamespace = ns]
    /\ \E short : /\ Less(c.class_by_qname, {Qname(c, r)}, short)
                  /\ More(short, <<ns, name>>, r, d.class_by_qname)

-----------------------------------------------------------------------------
LEMMA WithMore ==
    ASSUME NEW f, NEW k, NEW v
    PROVE  More(f, k, v, With(f, k, v))
BY DEF With, More

LEMMA WithoutLess ==
    ASSUME NEW f, NEW S
    PROVE  Less(f, S, Without(f, S))
BY DEF Without, Less

-----------------------------------------------------------------------------
(* What the helpers do, as changes. *)

LEMMA InstallRelationEffect ==
    ASSUME NEW c, IsCatalog(c), NEW ns, NEW name, NEW kind, NEW query,
           NEW d, d = install_relation(c, ns, name, kind, query)
    PROVE  NewRelation(c, [relname |-> name, relnamespace |-> ns, relkind |-> kind],
               [i \in DOMAIN query.cols |-> OutputName(c, query.cols[i])],
               [rels |-> query.rels, cols |-> Range(query.cols)],
               record_view_dependencies(c.next_oid, query), d)
BY DEF IsCatalog, Fields, install_relation, insert_pg_class, alloc_oid, SameNamespaces, With,
       More, NewClass, NewRelation

\* CREATE TABLE, up to its keys.
Built(c, name, ns, cols) ==
    alloc_oid([insert_pg_class(c, c.next_oid,
                  [relname |-> name, relnamespace |-> ns, relkind |-> "table"])
                  EXCEPT !.pg_attribute = With(@, c.next_oid, cols)], 1)

LEMMA BuiltEffect ==
    ASSUME NEW c, IsCatalog(c), NEW ns, NEW name, NEW cols,
           NEW d, d = Built(c, name, ns, cols)
    PROVE  NewRelation(c, [relname |-> name, relnamespace |-> ns, relkind |-> "table"],
               cols, {}, {}, d)
BY DEF IsCatalog, Fields, Built, insert_pg_class, alloc_oid, SameNamespaces, With,
       More, NewClass, NewRelation, Queried

LEMMA InsertIndexEffect ==
    ASSUME NEW c, IsCatalog(c), NEW ns, NEW name, NEW row,
           NEW d, d = insert_index(c, ns, name, row)
    PROVE  NewIndex(c, [relname |-> name, relnamespace |-> ns, relkind |-> "index"], row, {}, d)
BY DEF IsCatalog, Fields, insert_index, insert_pg_class, alloc_oid, SameNamespaces, With,
       More, NewClass, NewIndex

LEMMA UniqueIndexEffect ==
    ASSUME NEW c, IsCatalog(c), NEW ns, NEW name, NEW row, NEW con,
           NEW d, d = [insert_index(c, ns, name, row) EXCEPT !.pg_constraint = @ \cup {con}]
    PROVE  NewIndex(c, [relname |-> name, relnamespace |-> ns, relkind |-> "index"], row, {con}, d)
BY DEF IsCatalog, Fields, insert_index, insert_pg_class, alloc_oid, SameNamespaces, With,
       More, NewClass, NewIndex

LEMMA EmitKeyEffect ==
    ASSUME NEW c, IsCatalog(c), NEW con, con.contype \in Key,
           NEW d, d = emit_constraint_with_backing_index(c, con)
    PROVE  NewIndex(c, [relname |-> con.conname,
                        relnamespace |-> c.pg_class[con.conrelid].relnamespace,
                        relkind |-> "index"],
               [indrelid |-> con.conrelid, indkey |-> con.conkey,
                indisunique |-> TRUE, indisprimary |-> con.contype = "p"], {con}, d)
<1> DEFINE i == [c EXCEPT !.pg_constraint = @ \cup {con}]
           row == [indrelid |-> con.conrelid, indkey |-> con.conkey,
                   indisunique |-> TRUE, indisprimary |-> con.contype = "p"]
           ns == c.pg_class[con.conrelid].relnamespace
<1>1. d = insert_index(i, ns, con.conname, row)
  BY DEF emit_constraint_with_backing_index, IsCatalog, Fields
<1>2. /\ IsCatalog(i) /\ SameNamespaces(c, i) /\ SameClasses(c, i) /\ i.next_oid = c.next_oid
      /\ i.pg_constraint = c.pg_constraint \cup {con}
      /\ i.pg_attribute = c.pg_attribute /\ i.pg_index = c.pg_index
      /\ i.pg_depend = c.pg_depend /\ i.pg_rewrite = c.pg_rewrite
  BY DEF IsCatalog, Fields, SameNamespaces, SameClasses
<1> HIDE DEF i, row, ns
<1>3. NewIndex(i, [relname |-> con.conname, relnamespace |-> ns, relkind |-> "index"], row, {}, d)
  BY <1>1, <1>2, InsertIndexEffect
<1>4. NewIndex(c, [relname |-> con.conname, relnamespace |-> ns, relkind |-> "index"], row, {con}, d)
  BY <1>2, <1>3 DEF NewIndex, NewClass, SameNamespaces, SameClasses
<1>5. QED
  BY <1>4 DEF row, ns

LEMMA EmitForeignKeyEffect ==
    ASSUME NEW c, IsCatalog(c), NEW con, con.contype = "f",
           NEW d, d = emit_constraint_with_backing_index(c, con)
    PROVE  /\ IsCatalog(d) /\ SameNamespaces(c, d) /\ SameClasses(c, d) /\ d.next_oid = c.next_oid
           /\ d.pg_constraint = c.pg_constraint \cup {con}
           /\ d.pg_attribute = c.pg_attribute /\ d.pg_index = c.pg_index
           /\ d.pg_depend = c.pg_depend /\ d.pg_rewrite = c.pg_rewrite
BY DEF IsCatalog, Fields, emit_constraint_with_backing_index, Key, SameNamespaces, SameClasses

LEMMA DropIndexRowsEffect ==
    ASSUME NEW c, IsCatalog(c), NEW S, S \cap DOMAIN c.pg_rewrite = {}, NEW K,
           NEW d, d = [drop_index_rows(c, S) EXCEPT !.pg_constraint = @ \ K]
    PROVE  Removal(c, S, S, K, d)
BY DEF IsCatalog, Fields, drop_index_rows, remove_pg_class, remove_dependencies, SameNamespaces,
       Without, Less, Removal

LEMMA DropConstraintsEffect ==
    ASSUME NEW c, IsCatalog(c), NEW K,
           NEW d, d = [c EXCEPT !.pg_constraint = @ \ K]
    PROVE  Removal(c, {}, {}, K, d)
BY DEF IsCatalog, Fields, SameNamespaces, Less, Removal

\* The indexes that go with the relations of S.
IndexesOf(c, S) ==
    {i \in DOMAIN c.pg_index :
        c.pg_index[i].indrelid \in {r \in S \cap DOMAIN c.pg_class : Kind(c, r) \in Holder}}

LEMMA DropRelationEffect ==
    ASSUME NEW c, IsCatalog(c), OwnKinds(c), NEW S,
           NEW d, d = drop_relation_by_oid(c, S),
           NEW gone, gone = S \cap DOMAIN c.pg_class,
           NEW index, index = IndexesOf(c, S)
    PROVE  Removal(c, gone \cup index, index, {k \in c.pg_constraint : k.conrelid \in gone}, d)
<1>1. index \cap DOMAIN c.pg_rewrite = {} /\ index \subseteq DOMAIN c.pg_index
  BY DEF OwnKinds, IndexesOf
<1> DEFINE G  == gone \cup index
           d1 == remove_pg_class(c, G)
           d2 == remove_dependencies(d1, G)
           d3 == [d2 EXCEPT !.pg_constraint = {k \in @ : k.conrelid \notin gone},
                            !.pg_rewrite = Without(@, gone),
                            !.pg_index = Without(@, index)]
<1>a. d = d3
  BY DEF drop_relation_by_oid, IndexesOf
<1> HIDE DEF G
<1>b. /\ IsCatalog(d1) /\ SameNamespaces(c, d1) /\ d1.next_oid = c.next_oid
      /\ d1.class_by_qname = Without(c.class_by_qname, {Qname(c, r) : r \in G \cap DOMAIN c.pg_class})
      /\ d1.pg_class = Without(c.pg_class, G)
      /\ d1.pg_attribute = Without(c.pg_attribute, G)
      /\ d1.pg_constraint = c.pg_constraint /\ d1.pg_index = c.pg_index
      /\ d1.pg_depend = c.pg_depend /\ d1.pg_rewrite = c.pg_rewrite
  BY DEF IsCatalog, Fields, remove_pg_class, SameNamespaces
<1> HIDE DEF d1
<1>c. /\ IsCatalog(d2) /\ SameNamespaces(d1, d2) /\ d2.next_oid = d1.next_oid /\ SameClasses(d1, d2)
      /\ d2.pg_attribute = d1.pg_attribute /\ d2.pg_constraint = d1.pg_constraint
      /\ d2.pg_index = d1.pg_index /\ d2.pg_rewrite = d1.pg_rewrite
      /\ d2.pg_depend = {e \in d1.pg_depend : e.objid \notin G /\ e.refobjid \notin G}
  BY <1>b DEF IsCatalog, Fields, remove_dependencies, SameNamespaces, SameClasses
<1> HIDE DEF d2
<1>d. /\ IsCatalog(d3) /\ SameNamespaces(d2, d3) /\ d3.next_oid = d2.next_oid /\ SameClasses(d2, d3)
      /\ d3.pg_attribute = d2.pg_attribute /\ d3.pg_depend = d2.pg_depend
      /\ d3.pg_constraint = {k \in d2.pg_constraint : k.conrelid \notin gone}
      /\ d3.pg_rewrite = Without(d2.pg_rewrite, gone)
      /\ d3.pg_index = Without(d2.pg_index, index)
  BY <1>c DEF IsCatalog, Fields, SameNamespaces, SameClasses
<1> HIDE DEF d3
<1>2. /\ IsCatalog(d) /\ SameNamespaces(c, d) /\ d.next_oid = c.next_oid
      /\ d.class_by_qname = Without(c.class_by_qname, {Qname(c, r) : r \in G \cap DOMAIN c.pg_class})
      /\ d.pg_class = Without(c.pg_class, G)
      /\ d.pg_attribute = Without(c.pg_attribute, G)
      /\ d.pg_constraint = {k \in c.pg_constraint : k.conrelid \notin gone}
      /\ d.pg_index = Without(c.pg_index, index)
      /\ d.pg_depend = {e \in c.pg_depend : e.objid \notin G /\ e.refobjid \notin G}
      /\ d.pg_rewrite = Without(c.pg_rewrite, gone)
  BY <1>a, <1>b, <1>c, <1>d DEF SameNamespaces, SameClasses
<1>3. Less(c.pg_rewrite, G, d.pg_rewrite)
  BY <1>1, <1>2 DEF Without, Less, G
<1>4. d.pg_constraint = c.pg_constraint \ {k \in c.pg_constraint : k.conrelid \in gone}
  BY <1>2
<1>5. Removal(c, G, index, {k \in c.pg_constraint : k.conrelid \in gone}, d)
  BY <1>2, <1>3, <1>4, WithoutLess DEF Removal
<1>6. QED
  BY <1>5 DEF G

LEMMA RenameClassEffect ==
    ASSUME NEW c, IsCatalog(c), NEW r \in DOMAIN c.pg_class, IsClassRow(c, c.pg_class[r]),
           NEW name, NEW ns, NEW d, d = rename_pg_class(c, r, name, ns)
    PROVE  Renaming(c, r, name, ns, d) /\ SameRest(c, d)
<1>1. d.class_by_qname = With(Without(c.class_by_qname, {Qname(c, r)}), <<ns, name>>, r)
  BY DEF IsCatalog, Fields, rename_pg_class
<1>2. /\ IsCatalog(d) /\ SameNamespaces(c, d) /\ SameRest(c, d) /\ d.next_oid = c.next_oid
      /\ d.pg_class = [[c.pg_class EXCEPT ![r].relname = name] EXCEPT ![r].relnamespace = ns]
  BY DEF IsCatalog, Fields, rename_pg_class, SameNamespaces, SameRest
<1>3. /\ DOMAIN d.pg_class = DOMAIN c.pg_class
      /\ \A x \in DOMAIN c.pg_class \ {r} : d.pg_class[x] = c.pg_class[x]
      /\ d.pg_class[r] = [c.pg_class[r] EXCEPT !.relname = name, !.relnamespace = ns]
  BY <1>2 DEF IsClassRow
<1>4. QED
  BY <1>1, <1>2, <1>3, WithoutLess, WithMore DEF Renaming

-----------------------------------------------------------------------------
(* Every change keeps Base. *)

LEMMA NewClassBase ==
    ASSUME NEW c, Base(c), NEW row, NEW d, NewClass(c, row, d), IsClassRow(c, row),
           NameFree(c, row.relnamespace, row.relname)
    PROVE  /\ ClassesPaired(d) /\ ClassRows(d) /\ NamespacesPaired(d)
           /\ c.next_oid \notin DOMAIN c.pg_class
           /\ \A r \in DOMAIN c.pg_class : r \in DOMAIN d.pg_class /\ d.pg_class[r] = c.pg_class[r]
           /\ DOMAIN d.pg_class = DOMAIN c.pg_class \cup {c.next_oid}
           /\ d.pg_class[c.next_oid] = row
<1>1. c.next_oid \notin DOMAIN c.pg_class
  BY DEF Base, Fresh
<1>2. /\ \A r \in DOMAIN c.pg_class : r \in DOMAIN d.pg_class /\ d.pg_class[r] = c.pg_class[r]
      /\ DOMAIN d.pg_class = DOMAIN c.pg_class \cup {c.next_oid}
      /\ d.pg_class[c.next_oid] = row
  BY <1>1 DEF NewClass, More
<1>3. NamespacesPaired(d)
  BY DEF Base, NamespacesPaired, NewClass, SameNamespaces
<1>4. ClassRows(d)
  BY <1>2 DEF Base, ClassRows, IsClassRow, NewClass, SameNamespaces
<1> DEFINE q0 == <<row.relnamespace, row.relname>>
<1>5. /\ DOMAIN d.class_by_qname = DOMAIN c.class_by_qname \cup {q0}
      /\ d.class_by_qname[q0] = c.next_oid
      /\ \A q \in DOMAIN c.class_by_qname : d.class_by_qname[q] = c.class_by_qname[q]
      /\ q0 \notin DOMAIN c.class_by_qname
  BY DEF NewClass, More, NameFree
<1>6. \A r \in DOMAIN d.pg_class : Qname(d, r) = IF r = c.next_oid THEN q0 ELSE Qname(c, r)
  BY <1>1, <1>2 DEF Qname
<1>7. ClassesPaired(d)
  <2> HIDE DEF q0
  <2>1. ASSUME NEW r \in DOMAIN d.pg_class
        PROVE  Qname(d, r) \in DOMAIN d.class_by_qname /\ d.class_by_qname[Qname(d, r)] = r
    BY <1>1, <1>2, <1>5, <1>6 DEF Base, ClassesPaired
  <2>2. ASSUME NEW q \in DOMAIN d.class_by_qname
        PROVE  d.class_by_qname[q] \in DOMAIN d.pg_class /\ Qname(d, d.class_by_qname[q]) = q
    BY <1>1, <1>2, <1>5, <1>6 DEF Base, ClassesPaired
  <2>3. QED
    BY <2>1, <2>2 DEF ClassesPaired
<1>8. QED
  BY <1>1, <1>2, <1>3, <1>4, <1>7

LEMMA NewRelationBase ==
    ASSUME NEW c, Base(c), NEW row, NEW attrs, NEW rule, NEW deps,
           NEW d, NewRelation(c, row, attrs, rule, deps, d),
           IsClassRow(c, row), NameFree(c, row.relnamespace, row.relname),
           row.relkind \in Readable, IsAttributes(attrs)
    PROVE  Base(d)
<1>1. NewClass(c, row, d)
  BY DEF NewRelation
<1>2. /\ ClassesPaired(d) /\ ClassRows(d) /\ NamespacesPaired(d)
      /\ c.next_oid \notin DOMAIN c.pg_class
      /\ \A r \in DOMAIN c.pg_class : r \in DOMAIN d.pg_class /\ d.pg_class[r] = c.pg_class[r]
      /\ DOMAIN d.pg_class = DOMAIN c.pg_class \cup {c.next_oid}
      /\ d.pg_class[c.next_oid] = row
  BY <1>1, NewClassBase
<1>3. /\ c.next_oid \in Nat \ {0} /\ d.next_oid = c.next_oid + 1 /\ IsCatalog(d)
      /\ d.pg_namespace = c.pg_namespace /\ d.pg_index = c.pg_index
      /\ d.pg_constraint = c.pg_constraint
      /\ DOMAIN d.pg_attribute = DOMAIN c.pg_attribute \cup {c.next_oid}
      /\ DOMAIN d.pg_rewrite \subseteq DOMAIN c.pg_rewrite \cup {c.next_oid}
      /\ c.next_oid \notin DOMAIN c.pg_index
  BY <1>1 DEF NewRelation, NewClass, SameNamespaces, More, Base, Fresh
<1>4. Fresh(d)
  BY <1>2, <1>3 DEF Base, Fresh
<1>5. ConstraintRows(d)
  BY <1>2, <1>3 DEF Base, ConstraintRows, IsConstraint, Kind
<1>6. OwnKinds(d)
  BY <1>2, <1>3 DEF Base, OwnKinds, Kind, Readable
<1>7. ColumnTypes(d)
  BY <1>3 DEF Base, ColumnTypes, NewRelation, More
<1>8. QED
  BY <1>2, <1>3, <1>4, <1>5, <1>6, <1>7 DEF Base

LEMMA NewIndexBase ==
    ASSUME NEW c, Base(c), NEW row, NEW index, NEW K, NEW d, NewIndex(c, row, index, K, d),
           IsClassRow(c, row), NameFree(c, row.relnamespace, row.relname),
           row.relkind = "index", index.indkey \subseteq Nat \ {0},
           \A k \in K : IsConstraint(c, k)
    PROVE  Base(d)
<1>1. NewClass(c, row, d)
  BY DEF NewIndex
<1>2. /\ ClassesPaired(d) /\ ClassRows(d) /\ NamespacesPaired(d)
      /\ c.next_oid \notin DOMAIN c.pg_class
      /\ \A r \in DOMAIN c.pg_class : r \in DOMAIN d.pg_class /\ d.pg_class[r] = c.pg_class[r]
      /\ DOMAIN d.pg_class = DOMAIN c.pg_class \cup {c.next_oid}
      /\ d.pg_class[c.next_oid] = row
  BY <1>1, NewClassBase
<1>3. /\ c.next_oid \in Nat \ {0} /\ d.next_oid = c.next_oid + 1 /\ IsCatalog(d)
      /\ d.pg_namespace = c.pg_namespace
      /\ d.pg_constraint = c.pg_constraint \cup K
      /\ d.pg_attribute = c.pg_attribute /\ d.pg_rewrite = c.pg_rewrite
      /\ DOMAIN d.pg_index = DOMAIN c.pg_index \cup {c.next_oid}
      /\ c.next_oid \notin DOMAIN c.pg_rewrite
  BY <1>1 DEF NewIndex, NewClass, SameNamespaces, More, Base, Fresh
<1>4. Fresh(d)
  BY <1>2, <1>3 DEF Base, Fresh
<1>5. ConstraintRows(d)
  BY <1>2, <1>3 DEF Base, ConstraintRows, IsConstraint, Kind
<1>6. OwnKinds(d)
  BY <1>2, <1>3 DEF Base, OwnKinds, Kind
<1>7. ColumnTypes(d)
  BY <1>3 DEF Base, ColumnTypes, NewIndex, More
<1>8. QED
  BY <1>2, <1>3, <1>4, <1>5, <1>6, <1>7 DEF Base

LEMMA RemovalBase ==
    ASSUME NEW c, Base(c), NEW G, NEW X \in SUBSET G, NEW K, NEW d, Removal(c, G, X, K, d),
           \A k \in c.pg_constraint : k.conrelid \in G => k \in K
    PROVE  Base(d)
<1>1. /\ IsCatalog(d) /\ d.next_oid = c.next_oid /\ d.pg_namespace = c.pg_namespace
      /\ d.namespace_by_name = c.namespace_by_name
      /\ DOMAIN d.pg_class = DOMAIN c.pg_class \ G
      /\ \A r \in DOMAIN d.pg_class : d.pg_class[r] = c.pg_class[r]
      /\ DOMAIN d.pg_attribute \subseteq DOMAIN c.pg_attribute
      /\ DOMAIN d.pg_index = DOMAIN c.pg_index \ X
      /\ DOMAIN d.pg_rewrite \subseteq DOMAIN c.pg_rewrite
      /\ d.pg_constraint = c.pg_constraint \ K
      /\ \A r \in DOMAIN d.pg_attribute : d.pg_attribute[r] = c.pg_attribute[r]
      /\ \A i \in DOMAIN d.pg_index : d.pg_index[i] = c.pg_index[i]
  BY DEF Removal, Less, SameNamespaces
<1>2. Fresh(d)
  BY <1>1 DEF Base, Fresh
<1>3. NamespacesPaired(d)
  BY <1>1 DEF Base, NamespacesPaired
<1>4. ClassRows(d)
  BY <1>1 DEF Base, ClassRows, IsClassRow
<1>5. ConstraintRows(d)
  BY <1>1 DEF Base, ConstraintRows, IsConstraint, Kind
<1>6. OwnKinds(d)
  BY <1>1 DEF Base, OwnKinds, Kind
<1>7. ColumnTypes(d)
  BY <1>1 DEF Base, ColumnTypes
<1>8. ClassesPaired(d)
  <2> DEFINE names == {Qname(c, r) : r \in G \cap DOMAIN c.pg_class}
  <2>1. /\ DOMAIN d.class_by_qname = DOMAIN c.class_by_qname \ names
        /\ \A q \in DOMAIN d.class_by_qname : d.class_by_qname[q] = c.class_by_qname[q]
    BY DEF Removal, Less
  <2>2. \A r \in DOMAIN d.pg_class : Qname(d, r) = Qname(c, r)
    BY <1>1 DEF Qname
  <2>3. \A r \in DOMAIN d.pg_class : Qname(c, r) \notin names
    BY <1>1 DEF Base, ClassesPaired
  <2>4. \A q \in DOMAIN d.class_by_qname : c.class_by_qname[q] \notin G
    BY <2>1 DEF Base, ClassesPaired
  <2> HIDE DEF names
  <2>5. QED
    BY <1>1, <2>1, <2>2, <2>3, <2>4 DEF Base, ClassesPaired
<1>9. QED
  BY <1>1, <1>2, <1>3, <1>4, <1>5, <1>6, <1>7, <1>8 DEF Base

LEMMA RenamingBase ==
    ASSUME NEW c, Base(c), NEW r \in DOMAIN c.pg_class, NEW name, NEW ns \in DOMAIN c.pg_namespace,
           NEW d, Renaming(c, r, name, ns, d), SameRest(c, d),
           NameFree(c, ns, name)
    PROVE  Base(d)
<1>1. /\ IsCatalog(d) /\ d.next_oid = c.next_oid /\ d.pg_namespace = c.pg_namespace
      /\ d.namespace_by_name = c.namespace_by_name
      /\ DOMAIN d.pg_class = DOMAIN c.pg_class
      /\ \A x \in DOMAIN c.pg_class \ {r} : d.pg_class[x] = c.pg_class[x]
      /\ d.pg_attribute = c.pg_attribute /\ d.pg_index = c.pg_index
      /\ d.pg_rewrite = c.pg_rewrite /\ d.pg_constraint = c.pg_constraint
  BY DEF Renaming, SameRest, SameNamespaces
<1>2. /\ DOMAIN d.pg_class[r] = {"relname", "relnamespace", "relkind"}
      /\ d.pg_class[r].relname = name /\ d.pg_class[r].relnamespace = ns
      /\ d.pg_class[r].relkind = c.pg_class[r].relkind
  BY DEF Renaming, Base, ClassRows, IsClassRow
<1>3. ClassRows(d)
  <2>1. IsClassRow(d, d.pg_class[r])
    BY <1>1, <1>2 DEF IsClassRow, Base, ClassRows
  <2>2. ASSUME NEW x \in DOMAIN d.pg_class, x # r PROVE IsClassRow(d, d.pg_class[x])
    BY <1>1, <2>2 DEF IsClassRow, Base, ClassRows
  <2>3. QED
    BY <2>1, <2>2 DEF ClassRows
<1>4. \A x \in DOMAIN c.pg_class : Kind(d, x) = Kind(c, x)
  BY <1>1, <1>2 DEF Kind
<1>5. /\ Fresh(d) /\ NamespacesPaired(d) /\ ColumnTypes(d)
  BY <1>1 DEF Base, Fresh, NamespacesPaired, ColumnTypes
<1>6. ConstraintRows(d) /\ OwnKinds(d)
  BY <1>1, <1>4 DEF Base, ConstraintRows, IsConstraint, OwnKinds
<1>7. ClassesPaired(d)
  <2> DEFINE q0 == <<ns, name>>
  <2>1. PICK short : Less(c.class_by_qname, {Qname(c, r)}, short) /\ More(short, q0, r, d.class_by_qname)
    BY DEF Renaming
  <2>2. /\ DOMAIN d.class_by_qname = (DOMAIN c.class_by_qname \ {Qname(c, r)}) \cup {q0}
        /\ d.class_by_qname[q0] = r /\ q0 \notin DOMAIN c.class_by_qname
        /\ \A q \in DOMAIN c.class_by_qname \ {Qname(c, r)} : d.class_by_qname[q] = c.class_by_qname[q]
    BY <2>1 DEF Less, More, NameFree
  <2>3. \A x \in DOMAIN c.pg_class : Qname(d, x) = IF x = r THEN q0 ELSE Qname(c, x)
    BY <1>1, <1>2 DEF Qname
  <2> HIDE DEF q0
  <2>4. ASSUME NEW x \in DOMAIN d.pg_class
        PROVE  Qname(d, x) \in DOMAIN d.class_by_qname /\ d.class_by_qname[Qname(d, x)] = x
    BY <1>1, <2>2, <2>3 DEF Base, ClassesPaired
  <2>5. ASSUME NEW q \in DOMAIN d.class_by_qname
        PROVE  d.class_by_qname[q] \in DOMAIN d.pg_class /\ Qname(d, d.class_by_qname[q]) = q
    BY <1>1, <2>2, <2>3 DEF Base, ClassesPaired
  <2>6. QED
    BY <2>4, <2>5 DEF ClassesPaired
<1>8. QED
  BY <1>1, <1>3, <1>5, <1>6, <1>7 DEF Base

LEMMA KeptBase ==
    ASSUME NEW c, Base(c), NEW d, IsCatalog(d), SameNamespaces(c, d), SameClasses(c, d),
           d.next_oid = c.next_oid, d.pg_index = c.pg_index, d.pg_rewrite = c.pg_rewrite,
           DOMAIN d.pg_attribute = DOMAIN c.pg_attribute,
           \A r \in DOMAIN d.pg_attribute : IsAttributes(d.pg_attribute[r]),
           \A k \in d.pg_constraint : IsConstraint(c, k)
    PROVE  Base(d)
<1>1. Fresh(d) /\ NamespacesPaired(d) /\ OwnKinds(d) /\ ColumnTypes(d)
  BY DEF Base, Fresh, NamespacesPaired, OwnKinds, ColumnTypes, SameNamespaces, SameClasses, Kind
<1>2. ClassesPaired(d) /\ ClassRows(d) /\ ConstraintRows(d)
  BY DEF Base, ClassesPaired, ClassRows, ConstraintRows, IsClassRow, IsConstraint, Kind, Qname,
     SameNamespaces, SameClasses
<1>3. QED
  BY <1>1, <1>2 DEF Base

\* Rows are where they were, and no schema of theirs has gone.
LEMMA NamespacesBase ==
    ASSUME NEW c, Base(c), NEW d, IsCatalog(d), SameClasses(c, d), SameRest(c, d),
           d.next_oid \in Nat, d.next_oid >= c.next_oid, NamespacesPaired(d),
           \A ns \in DOMAIN d.pg_namespace : ns \in Nat \ {0} /\ ns < d.next_oid,
           \A r \in DOMAIN c.pg_class : c.pg_class[r].relnamespace \in DOMAIN d.pg_namespace
    PROVE  Base(d)
<1>1. ClassesPaired(d) /\ ClassRows(d) /\ ConstraintRows(d) /\ OwnKinds(d) /\ ColumnTypes(d)
  BY DEF Base, ClassesPaired, ClassRows, IsClassRow, ConstraintRows, IsConstraint, OwnKinds,
     ColumnTypes, SameClasses, SameRest, Kind, Qname
<1>2. Fresh(d)
  BY DEF Base, Fresh, SameClasses, SameRest
<1>3. QED
  BY <1>1, <1>2 DEF Base

LEMMA EnsureNamespace ==
    ASSUME NEW c, Base(c), NEW s \in Schema, NEW d, d = ensure_namespace(c, s)
    PROVE  /\ Base(d) /\ SameClasses(c, d) /\ SameRest(c, d)
           /\ s \in DOMAIN d.namespace_by_name
           /\ d.namespace_by_name[s] \in DOMAIN d.pg_namespace
           /\ d.next_oid >= c.next_oid
           /\ DOMAIN c.pg_namespace \subseteq DOMAIN d.pg_namespace
<1>1. CASE s \in DOMAIN c.namespace_by_name
  BY <1>1 DEF ensure_namespace, Base, NamespacesPaired, SameClasses, SameRest, Fresh
<1>2. CASE s \notin DOMAIN c.namespace_by_name
  <2>1. /\ IsCatalog(d) /\ SameClasses(c, d) /\ SameRest(c, d) /\ d.next_oid = c.next_oid + 1
        /\ d.namespace_by_name = With(c.namespace_by_name, s, c.next_oid)
        /\ d.pg_namespace = With(c.pg_namespace, c.next_oid, s)
    BY <1>2 DEF Base, IsCatalog, Fields, ensure_namespace, insert_pg_namespace, alloc_oid,
       SameClasses, SameRest
  <2>2. /\ More(c.namespace_by_name, s, c.next_oid, d.namespace_by_name)
        /\ More(c.pg_namespace, c.next_oid, s, d.pg_namespace)
    BY <2>1, WithMore
  <2>3. c.next_oid \notin DOMAIN c.pg_namespace /\ c.next_oid \in Nat \ {0}
    BY DEF Base, Fresh
  <2>4. NamespacesPaired(d)
    BY <1>2, <2>2, <2>3 DEF Base, NamespacesPaired, More
  <2>5. \A ns \in DOMAIN d.pg_namespace : ns \in Nat \ {0} /\ ns < d.next_oid
    BY <2>1, <2>2, <2>3 DEF Base, Fresh, More
  <2>6. \A r \in DOMAIN c.pg_class : c.pg_class[r].relnamespace \in DOMAIN d.pg_namespace
    BY <2>2 DEF Base, ClassRows, IsClassRow, More
  <2>7. Base(d)
    BY <2>1, <2>3, <2>4, <2>5, <2>6, NamespacesBase
  <2>8. QED
    BY <2>1, <2>2, <2>3, <2>7 DEF More
<1>3. QED
  BY <1>1, <1>2

LEMMA RenameNamespace ==
    ASSUME NEW c, Base(c), NEW ns \in DOMAIN c.pg_namespace, NEW name \in Schema,
           name \notin DOMAIN c.namespace_by_name, NEW d, d = rename_pg_namespace(c, ns, name)
    PROVE  Base(d) /\ SameClasses(c, d) /\ SameRest(c, d)
<1> DEFINE old == c.pg_namespace[ns]
           short == Without(c.namespace_by_name, {old})
<1>1. /\ IsCatalog(d) /\ SameClasses(c, d) /\ SameRest(c, d) /\ d.next_oid = c.next_oid
      /\ d.namespace_by_name = With(short, name, ns)
      /\ d.pg_namespace = [c.pg_namespace EXCEPT ![ns] = name]
  BY DEF Base, IsCatalog, Fields, rename_pg_namespace, SameClasses, SameRest
<1>2. /\ DOMAIN d.pg_namespace = DOMAIN c.pg_namespace
      /\ d.pg_namespace[ns] = name
      /\ \A x \in DOMAIN c.pg_namespace \ {ns} : d.pg_namespace[x] = c.pg_namespace[x]
  BY <1>1
<1>3. /\ DOMAIN d.namespace_by_name = (DOMAIN c.namespace_by_name \ {old}) \cup {name}
      /\ d.namespace_by_name[name] = ns
      /\ \A s \in DOMAIN c.namespace_by_name \ {old} : d.namespace_by_name[s] = c.namespace_by_name[s]
  BY <1>1 DEF With, Without
<1>4. NamespacesPaired(d)
  BY <1>2, <1>3 DEF Base, NamespacesPaired
<1>5. Base(d)
  <2>1. c.next_oid \in Nat /\ \A x \in DOMAIN d.pg_namespace : x \in Nat \ {0} /\ x < d.next_oid
    BY <1>1, <1>2 DEF Base, Fresh
  <2>2. \A r \in DOMAIN c.pg_class : c.pg_class[r].relnamespace \in DOMAIN d.pg_namespace
    BY <1>2 DEF Base, ClassRows, IsClassRow
  <2>3. QED
    BY <1>1, <1>4, <2>1, <2>2, NamespacesBase
<1>6. QED
  BY <1>1, <1>5

LEMMA RemoveNamespace ==
    ASSUME NEW c, Base(c), NEW ns \in DOMAIN c.pg_namespace,
           \A r \in DOMAIN c.pg_class : c.pg_class[r].relnamespace # ns,
           NEW d, d = remove_pg_namespace(c, ns)
    PROVE  /\ Base(d) /\ SameClasses(c, d) /\ SameRest(c, d)
           /\ DOMAIN d.pg_namespace = DOMAIN c.pg_namespace \ {ns}
<1> DEFINE old == c.pg_namespace[ns]
<1>1. /\ IsCatalog(d) /\ SameClasses(c, d) /\ SameRest(c, d) /\ d.next_oid = c.next_oid
      /\ d.namespace_by_name = Without(c.namespace_by_name, {old})
      /\ d.pg_namespace = Without(c.pg_namespace, {ns})
  BY DEF Base, IsCatalog, Fields, remove_pg_namespace, SameClasses, SameRest
<1>2. /\ Less(c.namespace_by_name, {old}, d.namespace_by_name)
      /\ Less(c.pg_namespace, {ns}, d.pg_namespace)
  BY <1>1, WithoutLess
<1>3. NamespacesPaired(d)
  BY <1>2 DEF Base, NamespacesPaired, Less
<1>4. Base(d)
  <2>1. c.next_oid \in Nat /\ \A x \in DOMAIN d.pg_namespace : x \in Nat \ {0} /\ x < d.next_oid
    BY <1>1, <1>2 DEF Base, Fresh, Less
  <2>2. \A r \in DOMAIN c.pg_class : c.pg_class[r].relnamespace \in DOMAIN d.pg_namespace
    BY <1>2 DEF Base, ClassRows, IsClassRow, Less
  <2>3. d.next_oid \in Nat /\ d.next_oid >= c.next_oid
    BY <1>1, <2>1
  <2>4. QED
    BY <1>1, <1>3, <2>1, <2>2, <2>3, NamespacesBase
<1>5. QED
  BY <1>1, <1>2, <1>4 DEF Less

-----------------------------------------------------------------------------
(* The part of the invariant about tables: columns, constraints, indexes. *)

ConstraintsResolve(c) ==
    \A k \in c.pg_constraint :
       /\ k.conkey \subseteq Attnums(c, k.conrelid)
       /\ k.contype = "f" => /\ k.confrelid \in DOMAIN c.pg_class /\ Kind(c, k.confrelid) = "table"
                             /\ k.confkey \subseteq Attnums(c, k.confrelid)

\* Row index of an index on a table or materialized view of the schema ns.
IsIndex(c, index, ns) ==
    /\ index.indrelid \in DOMAIN c.pg_class
    /\ Kind(c, index.indrelid) \in Holder
    /\ c.pg_class[index.indrelid].relnamespace = ns
    /\ index.indkey \subseteq Attnums(c, index.indrelid)

IndexesResolve(c) ==
    /\ DOMAIN c.pg_index = {r \in DOMAIN c.pg_class : Kind(c, r) = "index"}
    /\ \A i \in DOMAIN c.pg_index : IsIndex(c, c.pg_index[i], c.pg_class[i].relnamespace)

\* i is the index of the key k.
Backs(c, i, k) ==
    /\ i \in DOMAIN c.pg_index /\ i \in DOMAIN c.pg_class
    /\ Qname(c, i) = <<c.pg_class[k.conrelid].relnamespace, k.conname>>
    /\ c.pg_index[i].indrelid = k.conrelid
    /\ c.pg_index[i].indkey = k.conkey
    /\ c.pg_index[i].indisunique
    /\ c.pg_index[i].indisprimary = (k.contype = "p")

KeysBacked(c) == \A k \in c.pg_constraint : k.contype \in Key => \E i \in DOMAIN c.pg_index : Backs(c, i, k)

\* The keys of a table have names of their own.
KeyNamesDiffer(c) ==
    \A k, l \in c.pg_constraint :
       k.contype \in Key /\ l.contype \in Key /\ k.conrelid = l.conrelid /\ k.conname = l.conname
          => k = l

\* The foreign key k references a key of its table.
Covered(c, k) == \E x \in c.pg_constraint : /\ x.contype \in Key
                                            /\ x.conrelid = k.confrelid /\ x.conkey = k.confkey

FksReferToKeys(c) == \A k \in c.pg_constraint : k.contype = "f" => Covered(c, k)

TablesWhole(c) == /\ ConstraintsResolve(c) /\ IndexesResolve(c) /\ KeysBacked(c)
             /\ KeyNamesDiffer(c) /\ FksReferToKeys(c)

-----------------------------------------------------------------------------
(* Every change keeps TablesWhole. *)

LEMMA OwnAttributes ==
    ASSUME NEW c, NEW d, NEW r, r \in DOMAIN c.pg_attribute <=> r \in DOMAIN d.pg_attribute,
           r \in DOMAIN d.pg_attribute => d.pg_attribute[r] = c.pg_attribute[r]
    PROVE  Attnums(d, r) = Attnums(c, r)
BY DEF Attnums

LEMMA SameRowsTables ==
    ASSUME NEW c, TablesWhole(c), NEW d, SameClasses(c, d), SameRest(c, d)
    PROVE  TablesWhole(d)
BY DEF TablesWhole, ConstraintsResolve, IndexesResolve, IsIndex, KeysBacked, Backs, KeyNamesDiffer,
   FksReferToKeys, Covered, SameClasses, SameRest, Attnums, Kind, Qname

LEMMA NewRelationTables ==
    ASSUME NEW c, Base(c), TablesWhole(c), NEW row, NEW attrs, NEW rule, NEW deps,
           NEW d, NewRelation(c, row, attrs, rule, deps, d), row.relkind \in Readable
    PROVE  TablesWhole(d)
<1>1. c.next_oid \notin DOMAIN c.pg_class
  BY DEF Base, Fresh
<1>2. /\ DOMAIN d.pg_class = DOMAIN c.pg_class \cup {c.next_oid}
      /\ d.pg_class[c.next_oid] = row
      /\ \A r \in DOMAIN c.pg_class : d.pg_class[r] = c.pg_class[r]
      /\ d.pg_constraint = c.pg_constraint /\ d.pg_index = c.pg_index
  BY <1>1 DEF NewRelation, NewClass, More
<1>3. \A r \in DOMAIN c.pg_class : Attnums(d, r) = Attnums(c, r)
  BY <1>1 DEF Attnums, NewRelation, More
<1>4. /\ \A r \in DOMAIN c.pg_class : Kind(d, r) = Kind(c, r) /\ Qname(d, r) = Qname(c, r)
      /\ Kind(d, c.next_oid) = row.relkind
  BY <1>2 DEF Kind, Qname
<1>5. \A k \in c.pg_constraint : k.conrelid \in DOMAIN c.pg_class
  BY DEF Base, ConstraintRows, IsConstraint
<1>6. ConstraintsResolve(d)
  BY <1>2, <1>3, <1>4, <1>5 DEF TablesWhole, ConstraintsResolve
<1>7. IndexesResolve(d)
  BY <1>1, <1>2, <1>3, <1>4 DEF TablesWhole, IndexesResolve, IsIndex, Readable
<1>8. KeysBacked(d)
  BY <1>2, <1>4, <1>5 DEF TablesWhole, KeysBacked, Backs
<1>9. KeyNamesDiffer(d) /\ FksReferToKeys(d)
  BY <1>2 DEF TablesWhole, KeyNamesDiffer, FksReferToKeys, Covered
<1>10. QED
  BY <1>6, <1>7, <1>8, <1>9 DEF TablesWhole

\* The constraint that an index stands for.
IsKeyOf(con, row, index) ==
    /\ con.contype \in Key
    /\ con.conname = row.relname /\ con.conrelid = index.indrelid /\ con.conkey = index.indkey
    /\ index.indisunique /\ index.indisprimary = (con.contype = "p")

LEMMA NewIndexTables ==
    ASSUME NEW c, Base(c), TablesWhole(c), NEW row, NEW index, NEW K, NEW d,
           NewIndex(c, row, index, K, d),
           IsClassRow(c, row), row.relkind = "index", IsIndex(c, index, row.relnamespace),
           NameFree(c, row.relnamespace, row.relname),
           \A k \in K : IsKeyOf(k, row, index), \A k, l \in K : k = l
    PROVE  TablesWhole(d)
<1>1. c.next_oid \notin DOMAIN c.pg_class /\ c.next_oid \notin DOMAIN c.pg_index
  BY DEF Base, Fresh
<1>2. /\ DOMAIN d.pg_class = DOMAIN c.pg_class \cup {c.next_oid}
      /\ d.pg_class[c.next_oid] = row
      /\ \A r \in DOMAIN c.pg_class : d.pg_class[r] = c.pg_class[r]
      /\ DOMAIN d.pg_index = DOMAIN c.pg_index \cup {c.next_oid}
      /\ d.pg_index[c.next_oid] = index
      /\ \A i \in DOMAIN c.pg_index : d.pg_index[i] = c.pg_index[i]
      /\ d.pg_constraint = c.pg_constraint \cup K
  BY <1>1 DEF NewIndex, NewClass, More
<1>3. \A r : Attnums(d, r) = Attnums(c, r)
  BY DEF Attnums, NewIndex
<1>4. /\ \A r \in DOMAIN c.pg_class : Kind(d, r) = Kind(c, r) /\ Qname(d, r) = Qname(c, r)
      /\ Kind(d, c.next_oid) = "index"
      /\ Qname(d, c.next_oid) = <<row.relnamespace, row.relname>>
  BY <1>2 DEF Kind, Qname
<1>5. \A k \in d.pg_constraint : k.conrelid \in DOMAIN c.pg_class
  BY <1>2 DEF Base, ConstraintRows, IsConstraint, IsKeyOf, IsIndex
<1>6. ConstraintsResolve(d)
  BY <1>2, <1>3, <1>4 DEF TablesWhole, ConstraintsResolve, IsKeyOf, IsIndex, Key
<1>7. IndexesResolve(d)
  BY <1>1, <1>2, <1>3, <1>4 DEF TablesWhole, IndexesResolve, IsIndex
<1>8. KeysBacked(d)
  <2>1. ASSUME NEW k \in c.pg_constraint, k.contype \in Key
        PROVE  \E i \in DOMAIN d.pg_index : Backs(d, i, k)
    BY <1>2, <1>4, <1>5, <2>1 DEF TablesWhole, KeysBacked, Backs
  <2>2. ASSUME NEW k \in K PROVE Backs(d, c.next_oid, k)
    BY <1>2, <1>4, <1>5 DEF Backs, IsKeyOf, IsIndex
  <2>3. QED
    BY <1>2, <2>1, <2>2 DEF KeysBacked
<1>9. ASSUME NEW k \in c.pg_constraint, k.contype \in Key, k.conrelid = index.indrelid
      PROVE  k.conname # row.relname
  <2>1. PICK i \in DOMAIN c.pg_index : Backs(c, i, k)
    BY <1>9 DEF TablesWhole, KeysBacked
  <2>2. Qname(c, i) \in DOMAIN c.class_by_qname
    BY <2>1 DEF Backs, Base, ClassesPaired
  <2>3. QED
    BY <1>9, <2>1, <2>2 DEF Backs, NameFree, IsIndex
<1>10. KeyNamesDiffer(d)
  BY <1>2, <1>9 DEF TablesWhole, KeyNamesDiffer, IsKeyOf
<1>11. FksReferToKeys(d)
  BY <1>2 DEF TablesWhole, FksReferToKeys, Covered, IsKeyOf, Key
<1>12. QED
  BY <1>6, <1>7, <1>8, <1>10, <1>11 DEF TablesWhole

\* What a removal must take along for the tables that stay to be whole.
TakesAlong(c, G, X, K) ==
    /\ X = G \cap DOMAIN c.pg_index
    /\ \A i \in DOMAIN c.pg_index : c.pg_index[i].indrelid \in G => i \in G
    /\ \A k \in c.pg_constraint : k.conrelid \in G => k \in K
    /\ \A k \in c.pg_constraint : k.contype = "f" /\ k.confrelid \in G => k \in K
    /\ \A k \in c.pg_constraint : \A i \in G : k.contype \in Key /\ Backs(c, i, k) => k \in K
    /\ \A k \in c.pg_constraint : \A x \in c.pg_constraint \cap K :
          k.contype = "f" /\ x.contype \in Key /\ x.conrelid = k.confrelid /\ x.conkey = k.confkey
             => k \in K

LEMMA RemovalTables ==
    ASSUME NEW c, Base(c), TablesWhole(c), NEW G, NEW X, NEW K, NEW d, Removal(c, G, X, K, d),
           TakesAlong(c, G, X, K)
    PROVE  TablesWhole(d)
<1>1. /\ DOMAIN d.pg_class = DOMAIN c.pg_class \ G
      /\ \A r \in DOMAIN d.pg_class : d.pg_class[r] = c.pg_class[r]
      /\ DOMAIN d.pg_index = DOMAIN c.pg_index \ G
      /\ \A i \in DOMAIN d.pg_index : d.pg_index[i] = c.pg_index[i]
      /\ d.pg_constraint = c.pg_constraint \ K
  BY DEF Removal, Less, TakesAlong
<1>2. \A r : r \notin G => Attnums(d, r) = Attnums(c, r)
  BY DEF Attnums, Removal, Less
<1>3. \A r \in DOMAIN d.pg_class : Kind(d, r) = Kind(c, r) /\ Qname(d, r) = Qname(c, r)
  BY <1>1 DEF Kind, Qname
<1>4. \A k \in d.pg_constraint : k.conrelid \in DOMAIN d.pg_class
  BY <1>1 DEF Base, ConstraintRows, IsConstraint, TakesAlong
<1>5. ConstraintsResolve(d)
  BY <1>1, <1>2, <1>3 DEF TablesWhole, ConstraintsResolve, TakesAlong
<1>6. IndexesResolve(d)
  BY <1>1, <1>2, <1>3 DEF TablesWhole, IndexesResolve, IsIndex, TakesAlong
<1>7. KeysBacked(d)
  <2>1. SUFFICES ASSUME NEW k \in d.pg_constraint, k.contype \in Key
                 PROVE  \E i \in DOMAIN d.pg_index : Backs(d, i, k)
    BY DEF KeysBacked
  <2>2. PICK i \in DOMAIN c.pg_index : Backs(c, i, k)
    BY <1>1, <2>1 DEF TablesWhole, KeysBacked
  <2>3. i \notin G
    BY <1>1, <2>1, <2>2 DEF TakesAlong
  <2>4. QED
    BY <1>1, <1>3, <1>4, <2>2, <2>3 DEF Backs
<1>8. KeyNamesDiffer(d)
  BY <1>1 DEF TablesWhole, KeyNamesDiffer
<1>9. FksReferToKeys(d)
  BY <1>1 DEF TablesWhole, FksReferToKeys, Covered, TakesAlong
<1>10. QED
  BY <1>5, <1>6, <1>7, <1>8, <1>9 DEF TablesWhole

LEMMA RenamingTables ==
    ASSUME NEW c, Base(c), TablesWhole(c), NEW r \in DOMAIN c.pg_class, NEW name, NEW ns,
           NEW d, Renaming(c, r, name, ns, d), SameRest(c, d), Kind(c, r) # "index",
           ns = c.pg_class[r].relnamespace \/ IndexesOn(c, r) = {}
    PROVE  TablesWhole(d)
<1>1. /\ DOMAIN d.pg_class = DOMAIN c.pg_class
      /\ \A x \in DOMAIN c.pg_class \ {r} : d.pg_class[x] = c.pg_class[x]
      /\ d.pg_attribute = c.pg_attribute /\ d.pg_index = c.pg_index
      /\ d.pg_constraint = c.pg_constraint
  BY DEF Renaming, SameRest
<1>2. d.pg_class[r].relnamespace = ns /\ d.pg_class[r].relkind = c.pg_class[r].relkind
  BY DEF Renaming, Base, ClassRows, IsClassRow
<1>3. /\ \A x : Attnums(d, x) = Attnums(c, x)
      /\ \A x \in DOMAIN c.pg_class : Kind(d, x) = Kind(c, x)
      /\ \A x \in DOMAIN c.pg_class \ {r} : Qname(d, x) = Qname(c, x)
  BY <1>1, <1>2 DEF Attnums, Kind, Qname
<1>4. ConstraintsResolve(d)
  BY <1>1, <1>3 DEF TablesWhole, ConstraintsResolve
<1>5. \A i \in DOMAIN c.pg_index : i \in DOMAIN c.pg_class /\ i # r
  BY DEF TablesWhole, IndexesResolve
<1>6. IndexesResolve(d)
  BY <1>1, <1>2, <1>3, <1>5 DEF TablesWhole, IndexesResolve, IsIndex, IndexesOn
<1>7. KeysBacked(d)
  <2>1. SUFFICES ASSUME NEW k \in c.pg_constraint, k.contype \in Key
                 PROVE  \E i \in DOMAIN d.pg_index : Backs(d, i, k)
    BY <1>1 DEF KeysBacked
  <2>2. PICK i \in DOMAIN c.pg_index : Backs(c, i, k)
    BY <2>1 DEF TablesWhole, KeysBacked
  <2>3. d.pg_class[k.conrelid].relnamespace = c.pg_class[k.conrelid].relnamespace
    BY <1>1, <1>2, <2>2 DEF Backs, IndexesOn, Base, ConstraintRows, IsConstraint
  <2>4. QED
    BY <1>1, <1>3, <1>5, <2>2, <2>3 DEF Backs
<1>8. KeyNamesDiffer(d) /\ FksReferToKeys(d)
  BY <1>1 DEF TablesWhole, KeyNamesDiffer, FksReferToKeys, Covered
<1>9. QED
  BY <1>4, <1>6, <1>7, <1>8 DEF TablesWhole

\* Columns come or go, or a foreign key is added.
LEMMA KeptTables ==
    ASSUME NEW c, Base(c), TablesWhole(c), NEW d, SameClasses(c, d), d.pg_index = c.pg_index,
           NEW K, d.pg_constraint = c.pg_constraint \cup K, \A k \in K : k.contype = "f" /\ Covered(c, k),
           ConstraintsResolve(d),
           \A i \in DOMAIN c.pg_index : c.pg_index[i].indkey \subseteq Attnums(d, c.pg_index[i].indrelid)
    PROVE  TablesWhole(d)
<1>1. IndexesResolve(d)
  BY DEF TablesWhole, IndexesResolve, IsIndex, SameClasses, Kind
<1>2. KeysBacked(d)
  BY DEF TablesWhole, KeysBacked, Backs, SameClasses, Qname, Key
<1>3. KeyNamesDiffer(d)
  BY DEF TablesWhole, KeyNamesDiffer, Key
<1>4. FksReferToKeys(d)
  BY DEF TablesWhole, FksReferToKeys, Covered
<1>5. QED
  BY <1>1, <1>2, <1>3, <1>4 DEF TablesWhole

LEMMA RenameConstraintFacts ==
    ASSUME NEW c, Base(c), NEW con \in c.pg_constraint, NEW name,
           con.contype \in Key => NameFree(c, c.pg_class[con.conrelid].relnamespace, name),
           NEW d, d = rename_constraint(c, con, name)
    PROVE  /\ Base(d)
           /\ TablesWhole(c) => TablesWhole(d)
           /\ d.pg_depend = c.pg_depend /\ d.pg_rewrite = c.pg_rewrite
           /\ d.pg_attribute = c.pg_attribute
           /\ DOMAIN d.pg_class = DOMAIN c.pg_class /\ SameNamespaces(c, d)
           /\ \A r \in DOMAIN c.pg_class : Kind(d, r) = Kind(c, r)
<1> DEFINE new == [con EXCEPT !.conname = name]
           m   == [c EXCEPT !.pg_constraint = (@ \ {con}) \cup {new}]
           t   == con.conrelid
           ns  == c.pg_class[t].relnamespace
           i   == CHOOSE x \in backing_index(c, con) : TRUE
<1>1. /\ DOMAIN new = DOMAIN con /\ new.conname = name /\ new.contype = con.contype
      /\ new.conrelid = con.conrelid /\ new.conkey = con.conkey
      /\ new.confrelid = con.confrelid /\ new.confkey = con.confkey
  BY DEF Base, ConstraintRows, IsConstraint
<1>2. /\ IsCatalog(m) /\ SameNamespaces(c, m) /\ SameClasses(c, m) /\ m.next_oid = c.next_oid
      /\ m.pg_constraint = (c.pg_constraint \ {con}) \cup {new}
      /\ m.pg_attribute = c.pg_attribute /\ m.pg_index = c.pg_index
      /\ m.pg_depend = c.pg_depend /\ m.pg_rewrite = c.pg_rewrite
  BY DEF Base, IsCatalog, Fields, SameNamespaces, SameClasses
<1>3. t \in DOMAIN c.pg_class /\ ns \in DOMAIN c.pg_namespace
  BY DEF Base, ConstraintRows, IsConstraint, ClassRows, IsClassRow
<1>4. Base(m)
  <2>1. \A k \in m.pg_constraint : IsConstraint(c, k)
    BY <1>1, <1>2 DEF Base, ConstraintRows, IsConstraint
  <2>2. \A r \in DOMAIN m.pg_attribute : IsAttributes(m.pg_attribute[r])
    BY <1>2 DEF Base, ColumnTypes
  <2> HIDE DEF m
  <2>3. QED
    BY <1>2, <2>1, <2>2, KeptBase
<1>5. d = IF backing_index(c, con) = {} THEN m ELSE rename_pg_class(m, i, name, ns)
  BY DEF rename_constraint
<1> HIDE DEF new, m
<1>6. CASE backing_index(c, con) = {}
  <2>1. d = m
    BY <1>5, <1>6
  <2>2. ASSUME TablesWhole(c) PROVE TablesWhole(m)
    <3>1. con.contype \notin Key
      BY <1>6, <2>2 DEF TablesWhole, KeysBacked, Backs, backing_index
    <3>2. ConstraintsResolve(m)
      BY <1>1, <1>2, <2>2 DEF TablesWhole, ConstraintsResolve, SameClasses, Attnums, Kind
    <3>3. IndexesResolve(m)
      BY <1>2, <2>2 DEF TablesWhole, IndexesResolve, IsIndex, SameClasses, Attnums, Kind
    <3>4. KeysBacked(m)
      BY <1>1, <1>2, <2>2, <3>1 DEF TablesWhole, KeysBacked, Backs, SameClasses, Qname
    <3>5. KeyNamesDiffer(m)
      BY <1>1, <1>2, <2>2, <3>1 DEF TablesWhole, KeyNamesDiffer
    <3>6. FksReferToKeys(m)
      BY <1>1, <1>2, <2>2, <3>1 DEF TablesWhole, FksReferToKeys, Covered
    <3>7. QED
      BY <3>2, <3>3, <3>4, <3>5, <3>6 DEF TablesWhole
  <2>3. QED
    BY <1>2, <1>4, <2>1, <2>2 DEF SameClasses, Kind
<1>7. CASE backing_index(c, con) # {}
  <2>1. /\ d = rename_pg_class(m, i, name, ns)
        /\ i \in backing_index(c, con)
    BY <1>5, <1>7
  <2>2. /\ con.contype \in Key /\ i \in DOMAIN c.pg_index /\ i \in DOMAIN c.pg_class
        /\ Qname(c, i) = <<ns, con.conname>>
    BY <2>1 DEF backing_index
  <2> HIDE DEF i, ns
  <2>3. IsClassRow(m, m.pg_class[i]) /\ i \in DOMAIN m.pg_class
    BY <1>2, <1>4, <2>2 DEF Base, ClassRows, SameClasses
  <2>4. Renaming(m, i, name, ns, d) /\ SameRest(m, d)
    BY <1>2, <2>1, <2>3, RenameClassEffect
  <2>5. NameFree(m, ns, name) /\ ns \in DOMAIN m.pg_namespace
    BY <1>2, <1>3, <2>2 DEF NameFree, SameClasses, SameNamespaces, ns
  <2>6. Base(d)
    BY <1>4, <2>3, <2>4, <2>5, RenamingBase
  <2>7. /\ DOMAIN d.pg_class = DOMAIN c.pg_class
        /\ \A x \in DOMAIN c.pg_class \ {i} : d.pg_class[x] = c.pg_class[x]
        /\ d.pg_attribute = c.pg_attribute /\ d.pg_index = c.pg_index
        /\ d.pg_depend = c.pg_depend /\ d.pg_rewrite = c.pg_rewrite
        /\ d.pg_constraint = (c.pg_constraint \ {con}) \cup {new}
        /\ SameNamespaces(c, d)
    BY <1>2, <2>4 DEF Renaming, SameRest, SameClasses, SameNamespaces
  <2>8. /\ d.pg_class[i].relnamespace = ns /\ d.pg_class[i].relname = name
        /\ d.pg_class[i].relkind = c.pg_class[i].relkind
    BY <1>2, <2>3, <2>4 DEF Renaming, IsClassRow, SameClasses
  <2>9. /\ \A r : Attnums(d, r) = Attnums(c, r)
        /\ \A r \in DOMAIN c.pg_class : Kind(d, r) = Kind(c, r)
        /\ \A r \in DOMAIN c.pg_class \ {i} : Qname(d, r) = Qname(c, r)
        /\ Qname(d, i) = <<ns, name>>
    BY <2>7, <2>8 DEF Attnums, Kind, Qname
  <2>10. ASSUME TablesWhole(c) PROVE TablesWhole(d)
    <3>1. /\ i \notin {k.conrelid : k \in c.pg_constraint}
          /\ \A k \in c.pg_constraint : k.conrelid \in DOMAIN c.pg_class
      BY <2>2 DEF Base, OwnKinds, ConstraintRows, IsConstraint, Holder
    <3>2. Backs(c, i, con)
      <4>1. PICK x \in DOMAIN c.pg_index : Backs(c, x, con)
        BY <2>2, <2>10 DEF TablesWhole, KeysBacked
      <4>2. x = i
        BY <2>2, <4>1 DEF Backs, Base, ClassesPaired, ns
      <4>3. QED
        BY <4>1, <4>2
    <3>3. ConstraintsResolve(d)
      BY <1>1, <2>7, <2>9, <2>10 DEF TablesWhole, ConstraintsResolve
    <3>4. IndexesResolve(d)
      <4>1. c.pg_class[i].relnamespace = ns
        BY <2>2 DEF Qname
      <4>2. \A x \in DOMAIN c.pg_class : d.pg_class[x].relnamespace = c.pg_class[x].relnamespace
        BY <2>7, <2>8, <4>1
      <4>3. QED
        BY <2>7, <2>9, <2>10, <4>2 DEF TablesWhole, IndexesResolve, IsIndex
    <3>5. KeysBacked(d)
      <4>1. Backs(d, i, new)
        BY <1>1, <2>2, <2>7, <2>9, <3>1, <3>2 DEF Backs, ns
      <4>2. ASSUME NEW k \in c.pg_constraint, k # con, k.contype \in Key
            PROVE  \E x \in DOMAIN d.pg_index : Backs(d, x, k)
        <5>1. PICK x \in DOMAIN c.pg_index : Backs(c, x, k)
          BY <2>10, <4>2 DEF TablesWhole, KeysBacked
        <5>2. x # i
          BY <2>2, <2>10, <3>2, <4>2, <5>1 DEF TablesWhole, KeyNamesDiffer, Backs
        <5>3. Backs(d, x, k)
          BY <2>7, <2>9, <3>1, <5>1, <5>2 DEF Backs
        <5>4. QED
          BY <2>7, <5>3
      <4>3. QED
        BY <2>2, <2>7, <4>1, <4>2 DEF KeysBacked
    <3>6. KeyNamesDiffer(d)
      <4>1. ASSUME NEW k \in c.pg_constraint, k.contype \in Key, k.conrelid = con.conrelid
            PROVE  k.conname # name
        <5>1. PICK x \in DOMAIN c.pg_index : Backs(c, x, k)
          BY <2>10, <4>1 DEF TablesWhole, KeysBacked
        <5>2. <<ns, k.conname>> \in DOMAIN c.class_by_qname
          BY <4>1, <5>1 DEF Backs, Base, ClassesPaired, ns
        <5>3. QED
          BY <1>2, <2>5, <5>2 DEF NameFree, SameClasses
      <4>2. QED
        BY <1>1, <2>7, <2>10, <4>1 DEF TablesWhole, KeyNamesDiffer
    <3>7. FksReferToKeys(d)
      BY <1>1, <2>2, <2>7, <2>10 DEF TablesWhole, FksReferToKeys, Covered, Key
    <3>8. QED
      BY <3>3, <3>4, <3>5, <3>6, <3>7 DEF TablesWhole
  <2>11. QED
    BY <2>6, <2>7, <2>9, <2>10
<1>8. QED
  BY <1>6, <1>7

-----------------------------------------------------------------------------
(* The part of the invariant about views. *)

\* The rule of v reads columns that exist, of relations of which pg_depend says that v reads them.
IsRule(c, rule, v) ==
    /\ \A r \in rule.rels : /\ r \in DOMAIN c.pg_class /\ Kind(c, r) \in Readable
                            /\ \E e \in c.pg_depend : e.objid = v /\ e.refobjid = r
    /\ \A col \in rule.cols : /\ col = <<col[1], col[2]>>
                             /\ col[1] \in rule.rels /\ col[2] \in Attnums(c, col[1])

ViewsWhole(c) == \A v \in DOMAIN c.pg_rewrite : IsView(c, v) /\ IsRule(c, c.pg_rewrite[v], v)

\* Nothing is dropped that a view reads.
LEMMA KeptViews ==
    ASSUME NEW c, ViewsWhole(c), NEW d, d.pg_rewrite = c.pg_rewrite, d.pg_depend = c.pg_depend,
           \A r \in DOMAIN c.pg_class : r \in DOMAIN d.pg_class /\ Kind(d, r) = Kind(c, r),
           \A v \in DOMAIN c.pg_rewrite : \A col \in c.pg_rewrite[v].cols :
              col[2] \in Attnums(c, col[1]) => col[2] \in Attnums(d, col[1])
    PROVE  ViewsWhole(d)
BY DEF ViewsWhole, IsView, IsRule

LEMMA NewRelationViews ==
    ASSUME NEW c, Base(c), ViewsWhole(c), NEW row, NEW attrs, NEW rule, NEW deps,
           NEW d, NewRelation(c, row, attrs, rule, deps, d),
           row.relkind \in Queried =>
              /\ \A r \in rule.rels : /\ r \in DOMAIN c.pg_class /\ Kind(c, r) \in Readable
                                      /\ \E e \in deps : e.objid = c.next_oid /\ e.refobjid = r
              /\ \A col \in rule.cols : /\ col = <<col[1], col[2]>>
                                       /\ col[1] \in rule.rels /\ col[2] \in Attnums(c, col[1])
    PROVE  ViewsWhole(d)
<1>1. c.next_oid \notin DOMAIN c.pg_class
  BY DEF Base, Fresh
<1>2. /\ \A r \in DOMAIN c.pg_class : r \in DOMAIN d.pg_class /\ Kind(d, r) = Kind(c, r)
      /\ c.next_oid \in DOMAIN d.pg_class /\ Kind(d, c.next_oid) = row.relkind
      /\ d.pg_depend = c.pg_depend \cup deps
  BY <1>1 DEF NewRelation, NewClass, More, Kind
<1>3. \A r \in DOMAIN c.pg_class : Attnums(d, r) = Attnums(c, r)
  BY <1>1 DEF NewRelation, More, Attnums
<1>4. ASSUME NEW v \in DOMAIN c.pg_rewrite
      PROVE  IsView(d, v) /\ IsRule(d, c.pg_rewrite[v], v)
  BY <1>2, <1>3 DEF ViewsWhole, IsView, IsRule
<1>5. CASE row.relkind \in Queried
  <2>1. IsView(d, c.next_oid) /\ IsRule(d, rule, c.next_oid)
    BY <1>2, <1>3, <1>5 DEF IsView, IsRule
  <2>2. /\ DOMAIN d.pg_rewrite = DOMAIN c.pg_rewrite \cup {c.next_oid}
        /\ d.pg_rewrite[c.next_oid] = rule
        /\ \A v \in DOMAIN c.pg_rewrite \ {c.next_oid} : d.pg_rewrite[v] = c.pg_rewrite[v]
    BY <1>5 DEF NewRelation, More
  <2>3. QED
    BY <1>4, <2>1, <2>2 DEF ViewsWhole
<1>6. CASE row.relkind \notin Queried
  BY <1>4, <1>6 DEF ViewsWhole, NewRelation
<1>7. QED
  BY <1>5, <1>6

LEMMA RemovalViews ==
    ASSUME NEW c, Base(c), ViewsWhole(c), NEW G, NEW X, NEW K, NEW d, Removal(c, G, X, K, d),
           \A v \in DOMAIN c.pg_rewrite : \A r \in c.pg_rewrite[v].rels : r \in G => v \in G
    PROVE  ViewsWhole(d)
<1>1. /\ DOMAIN d.pg_class = DOMAIN c.pg_class \ G
      /\ \A r \in DOMAIN d.pg_class : d.pg_class[r] = c.pg_class[r]
      /\ DOMAIN d.pg_rewrite = DOMAIN c.pg_rewrite \ G
      /\ \A v \in DOMAIN d.pg_rewrite : d.pg_rewrite[v] = c.pg_rewrite[v]
      /\ d.pg_depend = {e \in c.pg_depend : e.objid \notin G /\ e.refobjid \notin G}
  BY DEF Removal, Less
<1>2. \A r : r \notin G => Attnums(d, r) = Attnums(c, r)
  BY DEF Attnums, Removal, Less
<1>3. \A r \in DOMAIN d.pg_class : Kind(d, r) = Kind(c, r)
  BY <1>1 DEF Kind
<1>4. ASSUME NEW v \in DOMAIN d.pg_rewrite
      PROVE  IsView(d, v) /\ IsRule(d, d.pg_rewrite[v], v)
  <2>1. /\ v \in DOMAIN c.pg_rewrite /\ v \notin G /\ d.pg_rewrite[v] = c.pg_rewrite[v]
        /\ IsView(c, v) /\ IsRule(c, c.pg_rewrite[v], v)
        /\ \A r \in c.pg_rewrite[v].rels : r \notin G
    BY <1>1 DEF ViewsWhole
  <2>2. IsView(d, v)
    BY <1>1, <1>3, <2>1 DEF IsView
  <2>3. IsRule(d, c.pg_rewrite[v], v)
    BY <1>1, <1>2, <1>3, <2>1 DEF IsRule
  <2>4. QED
    BY <2>1, <2>2, <2>3
<1>5. QED
  BY <1>4 DEF ViewsWhole

-----------------------------------------------------------------------------
(* The part of the invariant about pg_depend: every view has its rule, and an *)
(* entry belongs to a relation that exists and, if that is a view, names what *)
(* its rule reads.                                                            *)

Reads(rule, e) == /\ e.refobjid \in rule.rels
                  /\ e.refobjsubid = 0 \/ <<e.refobjid, e.refobjsubid>> \in rule.cols

Deps(c) ==
    /\ \A v \in DOMAIN c.pg_class : Kind(c, v) \in Queried => v \in DOMAIN c.pg_rewrite
    /\ \A e \in c.pg_depend : e.objid \in DOMAIN c.pg_class
    /\ \A e \in c.pg_depend : e.objid \in DOMAIN c.pg_rewrite => Reads(c.pg_rewrite[e.objid], e)

LEMMA KeptDeps ==
    ASSUME NEW c, Deps(c), NEW d, d.pg_rewrite = c.pg_rewrite, d.pg_depend = c.pg_depend,
           \A r \in DOMAIN c.pg_class : r \in DOMAIN d.pg_class,
           \A r \in DOMAIN d.pg_class : Kind(d, r) \in Queried =>
              r \in DOMAIN c.pg_class /\ Kind(c, r) \in Queried
    PROVE  Deps(d)
BY DEF Deps

LEMMA NewRelationDeps ==
    ASSUME NEW c, Base(c), Deps(c), NEW row, NEW attrs, NEW rule, NEW deps,
           NEW d, NewRelation(c, row, attrs, rule, deps, d),
           \A e \in deps : /\ e.objid = c.next_oid
                           /\ row.relkind \in Queried => Reads(rule, e)
    PROVE  Deps(d)
<1>1. /\ c.next_oid \notin DOMAIN c.pg_class /\ c.next_oid \notin DOMAIN c.pg_rewrite
      /\ \A e \in c.pg_depend : e.objid # c.next_oid
  BY DEF Base, Fresh, Deps
<1>2. /\ \A r \in DOMAIN c.pg_class : r \in DOMAIN d.pg_class /\ Kind(d, r) = Kind(c, r)
      /\ DOMAIN d.pg_class = DOMAIN c.pg_class \cup {c.next_oid} /\ Kind(d, c.next_oid) = row.relkind
      /\ d.pg_depend = c.pg_depend \cup deps
  BY <1>1 DEF NewRelation, NewClass, More, Kind
<1>3. CASE row.relkind \in Queried
  <2>1. /\ DOMAIN d.pg_rewrite = DOMAIN c.pg_rewrite \cup {c.next_oid}
        /\ d.pg_rewrite[c.next_oid] = rule
        /\ \A v \in DOMAIN c.pg_rewrite : d.pg_rewrite[v] = c.pg_rewrite[v]
    BY <1>1, <1>3 DEF NewRelation, More
  <2>2. \A e \in d.pg_depend : e.objid \in DOMAIN d.pg_rewrite => Reads(d.pg_rewrite[e.objid], e)
    BY <1>1, <1>2, <1>3, <2>1 DEF Deps
  <2>3. QED
    BY <1>2, <2>1, <2>2 DEF Deps
<1>4. CASE row.relkind \notin Queried
  <2>1. d.pg_rewrite = c.pg_rewrite
    BY <1>4 DEF NewRelation
  <2>2. QED
    BY <1>1, <1>2, <1>4, <2>1 DEF Deps
<1>5. QED
  BY <1>3, <1>4

LEMMA RemovalDeps ==
    ASSUME NEW c, Deps(c), NEW G, NEW X, NEW K, NEW d, Removal(c, G, X, K, d)
    PROVE  Deps(d)
<1>1. /\ DOMAIN d.pg_class = DOMAIN c.pg_class \ G
      /\ \A r \in DOMAIN d.pg_class : Kind(d, r) = Kind(c, r)
      /\ DOMAIN d.pg_rewrite = DOMAIN c.pg_rewrite \ G
      /\ \A v \in DOMAIN d.pg_rewrite : d.pg_rewrite[v] = c.pg_rewrite[v]
      /\ \A e \in d.pg_depend : e \in c.pg_depend /\ e.objid \notin G
  BY DEF Removal, Less, Kind
<1>2. QED
  BY <1>1 DEF Deps

-----------------------------------------------------------------------------
(* Dropping relations. *)

\* The closure that drop_views works through.
LEMMA TransitiveViews ==
    ASSUME NEW c, NEW S, NEW T, T = transitive_views(c, S)
    PROVE  /\ S \subseteq T
           /\ \A v \in T \ S : IsView(c, v)
           /\ Closed(c, T)
           /\ \A v \in T \ S : \E r \in T : v \in find_dependent_views(c, r)
<1> DEFINE all == S \cup DOMAIN c.pg_class
<1>1. T = {v \in all : \A U \in SUBSET all : S \subseteq U /\ Closed(c, U) => v \in U}
  BY DEF transitive_views
<1>2. \A r : \A v \in find_dependent_views(c, r) : IsView(c, v) /\ v \in all
  BY DEF find_dependent_views, IsView
<1> HIDE DEF all
<1>3. S \subseteq T
  BY <1>1 DEF all
<1>4. \A v \in T \ S : IsView(c, v)
  <2> DEFINE U == S \cup {v \in all : IsView(c, v)}
  <2>1. U \in SUBSET all /\ S \subseteq U
    BY DEF all
  <2>2. Closed(c, U)
    BY <1>2 DEF Closed
  <2>3. T \subseteq U
    BY <1>1, <2>1, <2>2
  <2>4. QED
    BY <2>3
<1>5. Closed(c, T)
  <2>1. ASSUME NEW r \in T, NEW v \in find_dependent_views(c, r) PROVE v \in T
    <3>1. ASSUME NEW U \in SUBSET all, S \subseteq U, Closed(c, U) PROVE v \in U
      BY <1>1, <2>1, <3>1 DEF Closed
    <3>2. QED
      BY <1>1, <1>2, <3>1
  <2>2. QED
    BY <2>1 DEF Closed
<1>6. ASSUME NEW v \in T \ S, \A r \in T : v \notin find_dependent_views(c, r)
      PROVE  FALSE
  <2> DEFINE U == T \ {v}
  <2>1. U \in SUBSET all /\ S \subseteq U
    BY <1>1, <1>3
  <2>2. Closed(c, U)
    BY <1>5, <1>6 DEF Closed
  <2>3. v \in U
    BY <1>1, <2>1, <2>2
  <2>4. QED
    BY <2>3
<1>7. QED
  BY <1>3, <1>4, <1>5, <1>6

\* drop_relation_by_oid of a set of relations that nothing outside it needs.
LEMMA DropRelations ==
    ASSUME NEW c, Base(c), NEW S, NEW d, d = drop_relation_by_oid(c, S)
    PROVE  /\ Base(d)
           /\ /\ TablesWhole(c)
              /\ \A i \in S \cap DOMAIN c.pg_index : c.pg_index[i].indrelid \in S
              /\ \A k \in c.pg_constraint : k.contype = "f" /\ k.confrelid \in S => k.conrelid \in S
              => TablesWhole(d)
           /\ /\ ViewsWhole(c)
              /\ \A v \in DOMAIN c.pg_rewrite : \A r \in c.pg_rewrite[v].rels : r \in S => v \in S
              => ViewsWhole(d)
           /\ Deps(c) => Deps(d)
<1> DEFINE gone  == S \cap DOMAIN c.pg_class
           index == IndexesOf(c, S)
           K     == {k \in c.pg_constraint : k.conrelid \in gone}
<1>1. Removal(c, gone \cup index, index, K, d)
  BY DropRelationEffect DEF Base
<1>2. index \subseteq DOMAIN c.pg_index /\ \A i \in index \cap DOMAIN c.pg_class : Kind(c, i) = "index"
  BY DEF IndexesOf, Base, OwnKinds
<1>3. \A k \in c.pg_constraint : k.conrelid \in gone \cup index => k \in K
  BY <1>2 DEF Base, ConstraintRows, IsConstraint, Holder
<1>4. Base(d)
  BY <1>1, <1>3, RemovalBase
<1>5. ASSUME TablesWhole(c),
             \A i \in S \cap DOMAIN c.pg_index : c.pg_index[i].indrelid \in S,
             \A k \in c.pg_constraint : k.contype = "f" /\ k.confrelid \in S => k.conrelid \in S
      PROVE  TablesWhole(d)
  <2>1. \A i \in DOMAIN c.pg_index : /\ c.pg_index[i].indrelid \in DOMAIN c.pg_class
                                     /\ Kind(c, c.pg_index[i].indrelid) \in Holder
                                     /\ i \in index <=> c.pg_index[i].indrelid \in S
    BY <1>5 DEF TablesWhole, IndexesResolve, IsIndex, IndexesOf
  <2>2. gone \cap DOMAIN c.pg_index \subseteq index
    BY <1>5, <2>1
  <2>3. \A r : r \in DOMAIN c.pg_class /\ Kind(c, r) \in Holder => r \notin index
    BY <1>2 DEF Holder
  <2>4. \A k \in c.pg_constraint : /\ k.conrelid \in DOMAIN c.pg_class
                                   /\ k.contype = "f" => /\ k.confrelid \in DOMAIN c.pg_class
                                                         /\ k.confrelid \notin index
    BY <1>2, <1>5 DEF Base, ConstraintRows, IsConstraint, TablesWhole, ConstraintsResolve
  <2>5. TakesAlong(c, gone \cup index, index, K)
    <3>1. index = (gone \cup index) \cap DOMAIN c.pg_index
      BY <1>2, <2>2
    <3>2. \A i \in DOMAIN c.pg_index : c.pg_index[i].indrelid \in gone \cup index => i \in gone \cup index
      BY <2>1, <2>3
    <3>3. \A k \in c.pg_constraint : k.contype = "f" /\ k.confrelid \in gone \cup index => k \in K
      BY <1>5, <2>4
    <3>4. \A k \in c.pg_constraint : \A i \in gone \cup index : k.contype \in Key /\ Backs(c, i, k) => k \in K
      BY <2>1, <2>2 DEF Backs
    <3>5. \A x \in c.pg_constraint \cap K : x.conrelid \in gone
      OBVIOUS
    <3> HIDE DEF gone, index, K
    <3>6. \A k \in c.pg_constraint : \A x \in c.pg_constraint \cap K :
             k.contype = "f" /\ x.contype \in Key /\ x.conrelid = k.confrelid /\ x.conkey = k.confkey
                => k \in K
      BY <3>3, <3>5
    <3>7. QED
      BY <1>3, <3>1, <3>2, <3>3, <3>4, <3>6 DEF TakesAlong
  <2> HIDE DEF gone, index, K
  <2>6. QED
    BY <1>1, <1>5, <2>5, RemovalTables
<1>6. ASSUME ViewsWhole(c),
             \A v \in DOMAIN c.pg_rewrite : \A r \in c.pg_rewrite[v].rels : r \in S => v \in S
      PROVE  ViewsWhole(d)
  <2>1. \A v \in DOMAIN c.pg_rewrite : \A r \in c.pg_rewrite[v].rels :
           r \in gone \cup index => v \in gone \cup index
    BY <1>2, <1>6 DEF ViewsWhole, IsView, IsRule, Readable
  <2> HIDE DEF gone, index, K
  <2>2. QED
    BY <1>1, <1>6, <2>1, RemovalViews
<1>7. Deps(c) => Deps(d)
  BY <1>1, RemovalDeps
<1>8. QED
  BY <1>4, <1>5, <1>6, <1>7

\* What a drop leaves as it was.
LEMMA DropRelationsKeep ==
    ASSUME NEW c, Base(c), NEW S, NEW d, d = drop_relation_by_oid(c, S)
    PROVE  /\ SameNamespaces(c, d) /\ d.next_oid = c.next_oid
           /\ DOMAIN d.pg_class \subseteq DOMAIN c.pg_class \ S
           /\ \A r \in DOMAIN d.pg_class : d.pg_class[r] = c.pg_class[r]
           /\ \A r \in DOMAIN c.pg_class \ S : Kind(c, r) # "index" =>
                 /\ r \in DOMAIN d.pg_class /\ Kind(d, r) = Kind(c, r)
                 /\ Attnums(d, r) = Attnums(c, r)
                 /\ r \in DOMAIN c.pg_attribute => r \in DOMAIN d.pg_attribute
           /\ DOMAIN d.pg_attribute \subseteq DOMAIN c.pg_attribute
           /\ \A r \in DOMAIN d.pg_attribute : d.pg_attribute[r] = c.pg_attribute[r]
           /\ d.pg_constraint = {k \in c.pg_constraint : k.conrelid \notin S}
           /\ DOMAIN d.pg_index \subseteq DOMAIN c.pg_index
           /\ \A i \in DOMAIN d.pg_index : d.pg_index[i] = c.pg_index[i]
           /\ DOMAIN d.pg_rewrite \subseteq DOMAIN c.pg_rewrite
           /\ \A v \in DOMAIN d.pg_rewrite : d.pg_rewrite[v] = c.pg_rewrite[v]
           /\ \A v \in DOMAIN c.pg_rewrite : v \in DOMAIN d.pg_rewrite \/ v \in S
           /\ d.pg_depend \subseteq c.pg_depend
           /\ \A r \in DOMAIN c.pg_class \ DOMAIN d.pg_class : r \in S \/ Kind(c, r) = "index"
<1> DEFINE gone  == S \cap DOMAIN c.pg_class
           index == IndexesOf(c, S)
           K     == {k \in c.pg_constraint : k.conrelid \in gone}
<1>1. Removal(c, gone \cup index, index, K, d)
  BY DropRelationEffect DEF Base
<1>2. /\ index \subseteq DOMAIN c.pg_index /\ index \cap DOMAIN c.pg_rewrite = {}
      /\ \A i \in index \cap DOMAIN c.pg_class : Kind(c, i) = "index"
  BY DEF IndexesOf, Base, OwnKinds
<1>3. /\ DOMAIN d.pg_class = DOMAIN c.pg_class \ (gone \cup index)
      /\ \A r \in DOMAIN d.pg_class : d.pg_class[r] = c.pg_class[r]
      /\ DOMAIN d.pg_attribute = DOMAIN c.pg_attribute \ (gone \cup index)
      /\ \A r \in DOMAIN d.pg_attribute : d.pg_attribute[r] = c.pg_attribute[r]
      /\ DOMAIN d.pg_index = DOMAIN c.pg_index \ index
      /\ \A i \in DOMAIN d.pg_index : d.pg_index[i] = c.pg_index[i]
      /\ DOMAIN d.pg_rewrite = DOMAIN c.pg_rewrite \ (gone \cup index)
      /\ \A v \in DOMAIN d.pg_rewrite : d.pg_rewrite[v] = c.pg_rewrite[v]
      /\ SameNamespaces(c, d) /\ d.next_oid = c.next_oid
      /\ d.pg_constraint = c.pg_constraint \ K
      /\ d.pg_depend \subseteq c.pg_depend
  BY <1>1 DEF Removal, Less
<1>4. d.pg_constraint = {k \in c.pg_constraint : k.conrelid \notin S}
  BY <1>3 DEF Base, ConstraintRows, IsConstraint
<1>5. ASSUME NEW r \in DOMAIN c.pg_class \ S, Kind(c, r) # "index"
      PROVE  /\ r \in DOMAIN d.pg_class /\ Kind(d, r) = Kind(c, r)
             /\ Attnums(d, r) = Attnums(c, r)
             /\ r \in DOMAIN c.pg_attribute => r \in DOMAIN d.pg_attribute
  BY <1>2, <1>3, <1>5 DEF Kind, Attnums
<1> HIDE DEF index
<1>6. QED
  BY <1>2, <1>3, <1>4, <1>5

\* A set that is closed takes every view that reads one of its relations.
LEMMA ClosedTakesReaders ==
    ASSUME NEW c, ViewsWhole(c), NEW T, Closed(c, T), NEW v \in DOMAIN c.pg_rewrite,
           NEW r \in c.pg_rewrite[v].rels, r \in T
    PROVE  v \in T
<1>1. PICK e \in c.pg_depend : e.objid = v /\ e.refobjid = r
  BY DEF ViewsWhole, IsRule
<1>2. v \in find_dependent_views(c, r)
  BY <1>1 DEF find_dependent_views, ViewsWhole
<1>3. QED
  BY <1>2 DEF Closed

LEMMA NamedFacts ==
    ASSUME NEW c, Base(c), NEW kinds, NEW r \in Named(c, kinds)
    PROVE  /\ r \in DOMAIN c.pg_class /\ Kind(c, r) \in kinds
           /\ IsClassRow(c, c.pg_class[r])
BY DEF Named, Range, Base, ClassesPaired, ClassRows

\* The query q reads columns that exist, of relations that a query may name.
IsQuery(c, q) ==
    /\ \A r \in q.rels : r \in DOMAIN c.pg_class /\ Kind(c, r) \in Readable
    /\ DOMAIN q.cols \subseteq Nat \ {0}
    /\ \A i \in DOMAIN q.cols : /\ q.cols[i] = <<q.cols[i][1], q.cols[i][2]>>
                                /\ q.cols[i][1] \in q.rels
                                /\ q.cols[i][2] \in Attnums(c, q.cols[i][1])
                                /\ OutputName(c, q.cols[i]) \in Column

LEMMA QueryFacts ==
    ASSUME NEW c, Base(c), NEW q \in Queries(c)
    PROVE  IsQuery(c, q)
<1> DEFINE IsList(R, l) == \E D \in SUBSET (Nat \ {0}) : l \in [D -> ReadColumns(c, R)]
<1>1. ASSUME NEW R, NEW l \in Star(c, R) PROVE IsList(R, l)
  <2>1. l \in [1..Cardinality(ReadColumns(c, R)) -> ReadColumns(c, R)]
    BY <1>1 DEF Star
  <2>2. 1..Cardinality(ReadColumns(c, R)) \in SUBSET (Nat \ {0})
    OBVIOUS
  <2>3. QED
    BY <2>1, <2>2
<1>2. ASSUME NEW R, NEW n, NEW l \in Lists(ReadColumns(c, R), n) PROVE IsList(R, l)
  <2>1. PICK k \in 0..n : l \in [1..k -> ReadColumns(c, R)]
    BY <1>2 DEF Lists
  <2>2. 1..k \in SUBSET (Nat \ {0})
    OBVIOUS
  <2>3. QED
    BY <2>1, <2>2
<1> HIDE DEF IsList
<1>3. PICK R \in SUBSET Named(c, Readable) : q.rels = R /\ IsList(R, q.cols)
  <2> DEFINE sources == {R \in SUBSET Named(c, Readable) : Cardinality(R) \in 1..MaxSources}
  <2>1. \/ \E R \in sources : \E l \in Star(c, R) : q = [rels |-> R, cols |-> l, star |-> TRUE]
        \/ \E R \in sources : \E l \in Lists(ReadColumns(c, R), MaxSources) :
              q = [rels |-> R, cols |-> l, star |-> FALSE]
    BY DEF Queries
  <2>2. QED
    BY <1>1, <1>2, <2>1
<1>4. PICK D \in SUBSET (Nat \ {0}) : q.cols \in [D -> ReadColumns(c, R)]
  BY <1>3 DEF IsList
<1>5. ASSUME NEW i \in DOMAIN q.cols
      PROVE  /\ q.cols[i] = <<q.cols[i][1], q.cols[i][2]>>
             /\ q.cols[i][1] \in R /\ q.cols[i][2] \in Attnums(c, q.cols[i][1])
             /\ OutputName(c, q.cols[i]) \in Column
  <2>1. q.cols[i] \in ReadColumns(c, R)
    BY <1>4
  <2>2. PICK r \in R : q.cols[i] \in {r} \X Attnums(c, r)
    BY <2>1 DEF ReadColumns
  <2>3. /\ q.cols[i] = <<q.cols[i][1], q.cols[i][2]>>
        /\ q.cols[i][1] = r /\ q.cols[i][2] \in Attnums(c, r)
    BY <2>2
  <2>4. c.pg_attribute[r][q.cols[i][2]] \in Column
    BY <2>3 DEF Attnums, Base, ColumnTypes, IsAttributes, Range
  <2>5. QED
    BY <2>3, <2>4 DEF OutputName
<1>6. QED
  BY <1>3, <1>4, <1>5, NamedFacts DEF IsQuery

-----------------------------------------------------------------------------
(* The inductive invariant.  Which layers of it hold depends on the patterns *)
(* that a script may use.                                                    *)

NamesKnown  == Gaps \cap {"generated_name", "if_not_exists"} = {}
TablesKnown == Gaps \cap {"schema", "moved_keys", "key_cascade", "shared_name", "self_fk"} = {}
ViewsKnown  == Gaps \cap {"star", "replace"} = {}

Inv(c) == /\ Base(c)
          /\ TablesKnown => TablesWhole(c)
          /\ ViewsKnown => ViewsWhole(c)
          /\ Deps(c)

IInv == Inv(cat) /\ cat.next_oid <= MaxOid + 1

LEMMA LeavesFacts ==
    ASSUME NEW c, Leaves(c)
    PROVE  cat' = c /\ cat'.next_oid <= MaxOid + 1
BY DEF Leaves

-----------------------------------------------------------------------------
(* Statements on schemas. *)

LEMMA SchemasInv ==
    ASSUME NEW c, Inv(c), NEW d, Base(d), SameClasses(c, d), SameRest(c, d)
    PROVE  Inv(d)
<1>1. TablesKnown => TablesWhole(d)
  BY SameRowsTables DEF Inv
<1>2. ASSUME ViewsKnown PROVE ViewsWhole(d)
  <2>1. \A r \in DOMAIN c.pg_class : r \in DOMAIN d.pg_class /\ Kind(d, r) = Kind(c, r)
    BY DEF SameClasses, Kind
  <2>2. \A r : Attnums(d, r) = Attnums(c, r)
    BY DEF SameRest, Attnums
  <2>3. QED
    BY <1>2, <2>1, <2>2, KeptViews DEF Inv, SameRest
<1>3. Deps(d)
  BY KeptDeps DEF Inv, SameClasses, SameRest, Kind
<1>4. QED
  BY <1>1, <1>2, <1>3 DEF Inv

LEMMA EnsureInv ==
    ASSUME NEW c, Inv(c), NEW s \in Schema, NEW d, d = ensure_namespace(c, s)
    PROVE  /\ Inv(d) /\ SameClasses(c, d) /\ SameRest(c, d)
           /\ s \in DOMAIN d.namespace_by_name
           /\ d.namespace_by_name[s] \in DOMAIN d.pg_namespace
BY EnsureNamespace, SchemasInv DEF Inv

LEMMA CreateSchemaInv ==
    ASSUME IInv, NEW s \in Schema, CreateSchema(s)
    PROVE  Inv(cat')
BY EnsureInv, LeavesFacts DEF IInv, CreateSchema

LEMMA RenameSchemaInv ==
    ASSUME IInv, NEW s \in DOMAIN cat.namespace_by_name, NEW new \in Schema, RenameSchema(s, new)
    PROVE  Inv(cat')
<1>1. cat' = rename_pg_namespace(cat, cat.namespace_by_name[s], new)
  BY LeavesFacts DEF RenameSchema
<1>2. cat.namespace_by_name[s] \in DOMAIN cat.pg_namespace
  BY DEF IInv, Inv, Base, NamespacesPaired
<1>3. new \notin DOMAIN cat.namespace_by_name
  BY DEF RenameSchema
<1>4. Base(cat') /\ SameClasses(cat, cat') /\ SameRest(cat, cat')
  BY <1>1, <1>2, <1>3, RenameNamespace DEF IInv, Inv
<1>5. QED
  BY <1>4, SchemasInv DEF IInv

LEMMA DropSchemaInv ==
    ASSUME IInv, NEW s \in DOMAIN cat.namespace_by_name, NEW cascade, DropSchema(s, cascade)
    PROVE  Inv(cat')
<1> DEFINE ns     == cat.namespace_by_name[s]
           inside == {r \in DOMAIN cat.pg_class : cat.pg_class[r].relnamespace = ns}
           T      == transitive_views(cat, inside)
           d      == drop_relation_by_oid(cat, T)
<1>1. cat' = remove_pg_namespace(d, ns)
  BY LeavesFacts DEF DropSchema, drop_views
<1>2. Inv(cat) /\ Base(cat)
  BY DEF IInv, Inv
<1>3. /\ inside \subseteq T /\ Closed(cat, T)
      /\ \A v \in T \ inside : IsView(cat, v)
  BY TransitiveViews
<1>4. TablesKnown => \A k \in cat.pg_constraint : k.contype = "f" /\ k.confrelid \in T => k.conrelid \in T
  BY DEF DropSchema, Gap, TablesKnown, Fks
<1> HIDE DEF T, d
<1>5. Base(d)
  BY <1>2, DropRelations DEF d
<1>6. ASSUME TablesKnown PROVE TablesWhole(d)
  <2>1. \A i \in T \cap DOMAIN cat.pg_index : cat.pg_index[i].indrelid \in T
    BY <1>2, <1>3, <1>6 DEF Inv, TablesWhole, IndexesResolve, IsIndex, IsView, Queried
  <2>2. QED
    BY <1>2, <1>4, <1>6, <2>1, DropRelations DEF d, Inv
<1>7. ASSUME ViewsKnown PROVE ViewsWhole(d)
  <2>1. \A v \in DOMAIN cat.pg_rewrite : \A r \in cat.pg_rewrite[v].rels : r \in T => v \in T
    BY <1>2, <1>3, <1>7, ClosedTakesReaders DEF Inv
  <2>2. QED
    BY <1>2, <1>7, <2>1, DropRelations DEF d, Inv
<1>8. /\ ns \in DOMAIN d.pg_namespace
      /\ \A r \in DOMAIN d.pg_class : d.pg_class[r].relnamespace # ns
  <2>1. /\ d.pg_namespace = cat.pg_namespace
        /\ DOMAIN d.pg_class \subseteq DOMAIN cat.pg_class \ T
        /\ \A r \in DOMAIN d.pg_class : d.pg_class[r] = cat.pg_class[r]
    BY <1>2, DropRelationsKeep DEF d, SameNamespaces
  <2>2. ns \in DOMAIN cat.pg_namespace
    BY <1>2 DEF Base, NamespacesPaired
  <2>3. QED
    BY <1>3, <2>1, <2>2
<1>9. Base(cat') /\ SameClasses(d, cat') /\ SameRest(d, cat')
  BY <1>1, <1>5, <1>8, RemoveNamespace
<1>10. Deps(d)
  BY <1>2, DropRelations DEF d, Inv
<1>11. QED
  BY <1>5, <1>6, <1>7, <1>9, <1>10, SchemasInv DEF Inv

-----------------------------------------------------------------------------
(* Statements on constraints and indexes. *)

LEMMA KeyRowFacts ==
    ASSUME NEW c, NEW r, NEW key, NEW contype
    PROVE  LET con == KeyRow(c, r, key, contype)
           IN  /\ DOMAIN con = {"conname", "conrelid", "contype", "conkey", "confrelid", "confkey"}
               /\ con.conname = constraint_name(c.pg_class[r].relname, Columns(c, r, key), contype)
               /\ con.conrelid = r /\ con.contype = contype /\ con.conkey = key
               /\ con.confrelid = 0 /\ con.confkey = {}
BY DEF KeyRow

LEMMA FkRowFacts ==
    ASSUME NEW c, NEW r, NEW key, NEW target, NEW confkey
    PROVE  LET con == FkRow(c, r, key, target, confkey)
           IN  /\ DOMAIN con = {"conname", "conrelid", "contype", "conkey", "confrelid", "confkey"}
               /\ con.conrelid = r /\ con.contype = "f" /\ con.conkey = key
               /\ con.confrelid = target /\ con.confkey = confkey
BY DEF FkRow, KeyRow

\* An index, alone or with its constraint.
LEMMA NewIndexInv ==
    ASSUME NEW c, Inv(c), NEW row, NEW index, NEW K, NEW d, NewIndex(c, row, index, K, d),
           IsClassRow(c, row), row.relkind = "index", IsIndex(c, index, row.relnamespace),
           NameFree(c, row.relnamespace, row.relname),
           \A k \in K : IsConstraint(c, k) /\ IsKeyOf(k, row, index),
           \A k, l \in K : k = l
    PROVE  Inv(d)
<1>1. Base(c)
  BY DEF Inv
<1>2. index.indkey \subseteq Nat \ {0}
  BY <1>1 DEF IsIndex, Attnums, Base, ColumnTypes, IsAttributes
<1>3. Base(d)
  BY <1>1, <1>2, NewIndexBase
<1>4. ASSUME TablesKnown PROVE TablesWhole(d)
  BY <1>1, <1>4, NewIndexTables DEF Inv
<1>5. ASSUME ViewsKnown PROVE ViewsWhole(d)
  <2>1. \A r \in DOMAIN c.pg_class : r \in DOMAIN d.pg_class /\ Kind(d, r) = Kind(c, r)
    BY <1>1 DEF NewIndex, NewClass, More, Kind, Base, Fresh
  <2>2. \A r : Attnums(d, r) = Attnums(c, r)
    BY DEF NewIndex, Attnums
  <2>3. QED
    BY <1>5, <2>1, <2>2, KeptViews DEF Inv, NewIndex
<1>6. Deps(d)
  <2>1. /\ DOMAIN d.pg_class = DOMAIN c.pg_class \cup {c.next_oid} /\ Kind(d, c.next_oid) = "index"
        /\ \A r \in DOMAIN c.pg_class : Kind(d, r) = Kind(c, r)
    BY <1>1 DEF NewIndex, NewClass, More, Kind, Base, Fresh
  <2>2. QED
    BY <2>1, KeptDeps DEF Inv, NewIndex, Queried
<1>7. QED
  BY <1>3, <1>4, <1>5, <1>6 DEF Inv

LEMMA EmitKeyInv ==
    ASSUME NEW c, Inv(c), NEW r \in DOMAIN c.pg_class, Kind(c, r) = "table",
           NEW key \in SUBSET Attnums(c, r), NEW contype \in Key,
           NEW con, con = KeyRow(c, r, key, contype),
           NameFree(c, c.pg_class[r].relnamespace, con.conname),
           NEW d, d = emit_constraint_with_backing_index(c, con)
    PROVE  /\ Inv(d)
           /\ \A x \in DOMAIN c.pg_class : x \in DOMAIN d.pg_class /\ Kind(d, x) = Kind(c, x)
           /\ \A x : Attnums(d, x) = Attnums(c, x)
           /\ d.pg_constraint = c.pg_constraint \cup {con}
<1> DEFINE ns    == c.pg_class[r].relnamespace
           row   == [relname |-> con.conname, relnamespace |-> ns, relkind |-> "index"]
           index == [indrelid |-> r, indkey |-> key, indisunique |-> TRUE,
                     indisprimary |-> contype = "p"]
<1>1. Base(c) /\ IsCatalog(c)
  BY DEF Inv, Base
<1>2. /\ DOMAIN con = {"conname", "conrelid", "contype", "conkey", "confrelid", "confkey"}
      /\ con.conrelid = r /\ con.contype = contype /\ con.conkey = key
  BY KeyRowFacts
<1>3. NewIndex(c, row, index, {con}, d)
  BY <1>1, <1>2, EmitKeyEffect
<1>4. IsClassRow(c, row) /\ row.relkind = "index" /\ IsIndex(c, index, row.relnamespace)
  BY <1>1 DEF IsClassRow, IsIndex, Base, ClassRows, Holder
<1>5. IsConstraint(c, con) /\ IsKeyOf(con, row, index)
  BY <1>2 DEF IsConstraint, IsKeyOf, Holder
<1>6. NameFree(c, row.relnamespace, row.relname)
  OBVIOUS
<1> HIDE DEF row, index
<1>7. \A x \in DOMAIN c.pg_class : x \in DOMAIN d.pg_class /\ Kind(d, x) = Kind(c, x)
  BY <1>1, <1>3 DEF NewIndex, NewClass, More, Kind, Base, Fresh
<1>8. (\A x : Attnums(d, x) = Attnums(c, x)) /\ d.pg_constraint = c.pg_constraint \cup {con}
  BY <1>3 DEF NewIndex, Attnums
<1>9. QED
  BY <1>3, <1>4, <1>5, <1>6, <1>7, <1>8, NewIndexInv

LEMMA EmitForeignKeyInv ==
    ASSUME NEW c, Inv(c), NEW r \in DOMAIN c.pg_class, Kind(c, r) = "table",
           NEW key \in SUBSET Attnums(c, r),
           NEW target \in DOMAIN c.pg_class, Kind(c, target) = "table",
           NEW confkey \in SUBSET Attnums(c, target),
           resolve_fk_target(c, target, confkey),
           NEW con, con = FkRow(c, r, key, target, confkey),
           NEW d, d = emit_constraint_with_backing_index(c, con)
    PROVE  Inv(d)
<1>1. Base(c) /\ IsCatalog(c)
  BY DEF Inv, Base
<1>2. /\ DOMAIN con = {"conname", "conrelid", "contype", "conkey", "confrelid", "confkey"}
      /\ con.conrelid = r /\ con.contype = "f" /\ con.conkey = key
      /\ con.confrelid = target /\ con.confkey = confkey
  BY FkRowFacts
<1>3. /\ IsCatalog(d) /\ SameNamespaces(c, d) /\ SameClasses(c, d) /\ d.next_oid = c.next_oid
      /\ d.pg_constraint = c.pg_constraint \cup {con}
      /\ d.pg_attribute = c.pg_attribute /\ d.pg_index = c.pg_index
      /\ d.pg_depend = c.pg_depend /\ d.pg_rewrite = c.pg_rewrite
  BY <1>1, <1>2, EmitForeignKeyEffect
<1>4. /\ \A x : Attnums(d, x) = Attnums(c, x)
      /\ \A x : Kind(d, x) = Kind(c, x)
  BY <1>3 DEF Attnums, Kind, SameClasses
<1>5. Base(d)
  <2>1. IsConstraint(c, con)
    BY <1>2 DEF IsConstraint, Holder
  <2>2. \A k \in d.pg_constraint : IsConstraint(c, k)
    BY <1>1, <1>3, <2>1 DEF Base, ConstraintRows
  <2>3. \A x \in DOMAIN d.pg_attribute : IsAttributes(d.pg_attribute[x])
    BY <1>1, <1>3 DEF Base, ColumnTypes
  <2>4. QED
    BY <1>1, <1>3, <2>2, <2>3, KeptBase
<1>6. ASSUME TablesKnown PROVE TablesWhole(d)
  <2>1. TablesWhole(c)
    BY <1>6 DEF Inv
  <2>2. Covered(c, con)
    BY <1>2 DEF resolve_fk_target, Constraints, Covered
  <2>3. ConstraintsResolve(d)
    BY <1>2, <1>3, <1>4, <2>1 DEF TablesWhole, ConstraintsResolve, SameClasses
  <2>4. \A i \in DOMAIN c.pg_index : c.pg_index[i].indkey \subseteq Attnums(d, c.pg_index[i].indrelid)
    BY <1>4, <2>1 DEF TablesWhole, IndexesResolve, IsIndex
  <2> DEFINE K == {con}
  <2>5. d.pg_constraint = c.pg_constraint \cup K /\ \A k \in K : k.contype = "f" /\ Covered(c, k)
    BY <1>2, <1>3, <2>2
  <2> HIDE DEF K
  <2>6. QED
    BY <1>1, <1>3, <2>1, <2>3, <2>4, <2>5, KeptTables
<1>7. ASSUME ViewsKnown PROVE ViewsWhole(d)
  <2>1. \A x \in DOMAIN c.pg_class : x \in DOMAIN d.pg_class /\ Kind(d, x) = Kind(c, x)
    BY <1>3, <1>4 DEF SameClasses
  <2>2. QED
    BY <1>3, <1>4, <1>7, <2>1, KeptViews DEF Inv
<1>8. Deps(d)
  BY <1>3, <1>4, KeptDeps DEF Inv, SameClasses
<1>9. QED
  BY <1>5, <1>6, <1>7, <1>8 DEF Inv

LEMMA AddKeyInv ==
    ASSUME NamesKnown, IInv, NEW r \in Named(cat, {"table"}),
           NEW key \in SUBSET Attnums(cat, r), NEW contype \in Key, AddKey(r, key, contype)
    PROVE  Inv(cat')
<1> DEFINE con == KeyRow(cat, r, key, contype)
<1>1. Inv(cat) /\ r \in DOMAIN cat.pg_class /\ Kind(cat, r) = "table"
  BY NamedFacts DEF IInv, Inv
<1>2. NameFree(cat, cat.pg_class[r].relnamespace, con.conname)
  BY DEF AddKey, Gap, NamesKnown
<1>3. cat' = emit_constraint_with_backing_index(cat, con)
  BY LeavesFacts DEF AddKey
<1>4. QED
  BY <1>1, <1>2, <1>3, EmitKeyInv

LEMMA AddForeignKeyInv ==
    ASSUME IInv, NEW r \in Named(cat, {"table"}), NEW target \in Named(cat, {"table"}),
           NEW key \in SUBSET Attnums(cat, r), NEW confkey \in SUBSET Attnums(cat, target),
           AddForeignKey(r, key, target, confkey)
    PROVE  Inv(cat')
<1> DEFINE con == FkRow(cat, r, key, target, confkey)
<1>1. /\ Inv(cat) /\ r \in DOMAIN cat.pg_class /\ Kind(cat, r) = "table"
      /\ target \in DOMAIN cat.pg_class /\ Kind(cat, target) = "table"
  BY NamedFacts DEF IInv, Inv
<1>2. cat' = emit_constraint_with_backing_index(cat, con) /\ resolve_fk_target(cat, target, confkey)
  BY LeavesFacts DEF AddForeignKey
<1>3. QED
  BY <1>1, <1>2, EmitForeignKeyInv

\* The index of a key that the code finds by name is the one that backs it.
LEMMA BackingIndex ==
    ASSUME NEW c, Base(c), TablesWhole(c), NEW k \in c.pg_constraint, NEW i \in DOMAIN c.pg_index
    PROVE  i \in backing_index(c, k) <=> k.contype \in Key /\ Backs(c, i, k)
<1>1. ASSUME i \in backing_index(c, k) PROVE Backs(c, i, k) /\ k.contype \in Key
  <2>1. /\ k.contype \in Key /\ i \in DOMAIN c.pg_class
        /\ Qname(c, i) = <<c.pg_class[k.conrelid].relnamespace, k.conname>>
    BY <1>1 DEF backing_index
  <2>2. PICK x \in DOMAIN c.pg_index : Backs(c, x, k)
    BY <2>1 DEF TablesWhole, KeysBacked
  <2>3. x = i
    BY <2>1, <2>2 DEF Backs, Base, ClassesPaired
  <2>4. QED
    BY <2>1, <2>2, <2>3
<1>2. ASSUME k.contype \in Key, Backs(c, i, k) PROVE i \in backing_index(c, k)
  BY <1>2 DEF backing_index, Backs
<1>3. QED
  BY <1>1, <1>2

\* Index rows and constraints go, and no table or view does.
DropKeys(c, I, K) == [drop_index_rows(c, I) EXCEPT !.pg_constraint = @ \ K]

LEMMA DropKeysInv ==
    ASSUME NEW c, Inv(c), NEW I \in SUBSET DOMAIN c.pg_index, NEW K,
           NEW d, d = DropKeys(c, I, K),
           TablesKnown =>
              /\ \A k \in c.pg_constraint : \A i \in I :
                    k.contype \in Key /\ Backs(c, i, k) => k \in K
              /\ \A k \in c.pg_constraint : \A x \in c.pg_constraint \cap K :
                    k.contype = "f" /\ x.contype \in Key /\ x.conrelid = k.confrelid /\ x.conkey = k.confkey
                       => k \in K
    PROVE  /\ Inv(d) /\ SameNamespaces(c, d) /\ Removal(c, I, I, K, d)
           /\ \A r \in DOMAIN c.pg_class : Kind(c, r) # "index" =>
                 /\ r \in DOMAIN d.pg_class /\ Kind(d, r) = Kind(c, r) /\ Attnums(d, r) = Attnums(c, r)
                 /\ r \in DOMAIN c.pg_attribute => r \in DOMAIN d.pg_attribute
<1>1. /\ Base(c) /\ IsCatalog(c) /\ I \cap DOMAIN c.pg_rewrite = {}
      /\ \A i \in I \cap DOMAIN c.pg_class : Kind(c, i) = "index"
  BY DEF Inv, Base, OwnKinds
<1>2. Removal(c, I, I, K, d)
  BY <1>1, DropIndexRowsEffect DEF DropKeys
<1>3. \A k \in c.pg_constraint : /\ k.conrelid \notin I /\ k.conrelid \in DOMAIN c.pg_class
  BY <1>1 DEF Base, ConstraintRows, IsConstraint, Holder
<1>4. Base(d)
  BY <1>1, <1>2, <1>3, RemovalBase
<1>5. ASSUME TablesKnown PROVE TablesWhole(d)
  <2>1. TakesAlong(c, I, I, K)
    <3>1. \A i \in DOMAIN c.pg_index : c.pg_index[i].indrelid \notin I
      BY <1>1, <1>5 DEF Inv, TablesWhole, IndexesResolve, IsIndex, Holder
    <3>2. \A k \in c.pg_constraint : k.contype = "f" => k.confrelid \notin I
      BY <1>1, <1>5 DEF Inv, TablesWhole, ConstraintsResolve
    <3>3. QED
      BY <1>3, <1>5, <3>1, <3>2 DEF TakesAlong
  <2>2. QED
    BY <1>1, <1>2, <1>5, <2>1, RemovalTables DEF Inv
<1>6. ASSUME ViewsKnown PROVE ViewsWhole(d)
  <2>1. \A v \in DOMAIN c.pg_rewrite : \A r \in c.pg_rewrite[v].rels : r \notin I
    BY <1>1, <1>6 DEF Inv, ViewsWhole, IsRule, Readable
  <2>2. QED
    BY <1>1, <1>2, <1>6, <2>1, RemovalViews DEF Inv
<1>7. \A r \in DOMAIN c.pg_class : Kind(c, r) # "index" =>
         /\ r \in DOMAIN d.pg_class /\ Kind(d, r) = Kind(c, r) /\ Attnums(d, r) = Attnums(c, r)
         /\ r \in DOMAIN c.pg_attribute => r \in DOMAIN d.pg_attribute
  BY <1>1, <1>2 DEF Removal, Less, Kind, Attnums
<1>8. Deps(d)
  BY <1>2, RemovalDeps DEF Inv
<1>9. QED
  BY <1>2, <1>4, <1>5, <1>6, <1>7, <1>8 DEF Inv, Removal

LEMMA DropConstraintInv ==
    ASSUME IInv, NEW con \in cat.pg_constraint, NEW cascade, DropConstraint(con, cascade)
    PROVE  Inv(cat')
<1> DEFINE I == backing_index(cat, con)
           K == {con}
<1>1. cat' = DropKeys(cat, I, K)
  BY LeavesFacts DEF DropConstraint, DropKeys
<1>2. I \in SUBSET DOMAIN cat.pg_index /\ Inv(cat)
  BY DEF backing_index, IInv
<1>3. ASSUME TablesKnown
      PROVE  /\ \A k \in cat.pg_constraint : \A i \in I :
                   k.contype \in Key /\ Backs(cat, i, k) => k \in K
             /\ \A k \in cat.pg_constraint : \A x \in cat.pg_constraint \cap K :
                   k.contype = "f" /\ x.contype \in Key /\ x.conrelid = k.confrelid /\ x.conkey = k.confkey
                      => k \in K
  <2>1. Base(cat) /\ TablesWhole(cat)
    BY <1>2, <1>3 DEF Inv
  <2>2. ASSUME NEW k \in cat.pg_constraint, NEW i \in I, k.contype \in Key, Backs(cat, i, k)
        PROVE  k = con
    <3>1. Backs(cat, i, con) /\ con.contype \in Key
      BY <2>1, BackingIndex DEF backing_index
    <3>2. k.conrelid = con.conrelid /\ k.conname = con.conname
      BY <2>2, <3>1 DEF Backs
    <3>3. QED
      BY <2>1, <2>2, <3>1, <3>2 DEF TablesWhole, KeyNamesDiffer
  <2>3. Dependents(con) = {}
    BY <1>3 DEF DropConstraint, Gap, TablesKnown
  <2>4. ASSUME NEW k \in cat.pg_constraint, k.contype = "f", con.contype \in Key,
               con.conrelid = k.confrelid, con.conkey = k.confkey
        PROVE  FALSE
    <3>1. k \in FksOn(cat, con.conrelid)
      BY <2>4 DEF FksOn, Fks
    <3>2. QED
      BY <2>3, <2>4, <3>1 DEF Dependents
  <2>5. \A k \in cat.pg_constraint : \A i \in I : k.contype \in Key /\ Backs(cat, i, k) => k \in K
    BY <2>2
  <2>6. QED
    BY <2>4, <2>5
<1> HIDE DEF I, K
<1>4. QED
  BY <1>1, <1>2, <1>3, DropKeysInv

LEMMA RenameConstraintInv ==
    ASSUME IInv, NEW con \in cat.pg_constraint, NEW n, RenameConstraint(con, n)
    PROVE  Inv(cat')
<1>1. /\ cat' = rename_constraint(cat, con, Given(n))
      /\ con.contype \in Key => NameFree(cat, cat.pg_class[con.conrelid].relnamespace, Given(n))
  BY LeavesFacts DEF RenameConstraint
<1>2. Inv(cat) /\ Base(cat)
  BY DEF IInv, Inv
<1>3. /\ Base(cat')
      /\ TablesWhole(cat) => TablesWhole(cat')
      /\ cat'.pg_depend = cat.pg_depend /\ cat'.pg_rewrite = cat.pg_rewrite
      /\ cat'.pg_attribute = cat.pg_attribute
      /\ DOMAIN cat'.pg_class = DOMAIN cat.pg_class
      /\ \A r \in DOMAIN cat.pg_class : Kind(cat', r) = Kind(cat, r)
  BY <1>1, <1>2, RenameConstraintFacts
<1>4. \A r : Attnums(cat', r) = Attnums(cat, r)
  BY <1>3 DEF Attnums
<1>5. ViewsKnown => ViewsWhole(cat')
  BY <1>2, <1>3, <1>4, KeptViews DEF Inv
<1>6. Deps(cat')
  BY <1>2, <1>3, KeptDeps DEF Inv
<1>7. QED
  BY <1>2, <1>3, <1>5, <1>6 DEF Inv

LEMMA CreateIndexInv ==
    ASSUME IInv, NEW r \in Named(cat, Holder), NEW key \in SUBSET Attnums(cat, r),
           NEW unique \in BOOLEAN, NEW n, CreateIndex(r, key, unique, n)
    PROVE  Inv(cat')
<1> DEFINE ns    == cat.pg_class[r].relnamespace
           index == [indrelid |-> r, indkey |-> key, indisunique |-> unique, indisprimary |-> FALSE]
           idx   == insert_index(cat, ns, Given(n), index)
           con   == [KeyRow(cat, r, key, "u") EXCEPT !.conname = Given(n)]
           row   == [relname |-> Given(n), relnamespace |-> ns, relkind |-> "index"]
<1>1. /\ Inv(cat) /\ Base(cat) /\ IsCatalog(cat) /\ r \in DOMAIN cat.pg_class
      /\ Kind(cat, r) \in Holder
  BY NamedFacts DEF IInv, Inv, Base
<1>2. NameFree(cat, ns, Given(n))
  BY DEF CreateIndex
<1>3. cat' = IF unique THEN [idx EXCEPT !.pg_constraint = @ \cup {con}] ELSE idx
  BY LeavesFacts DEF CreateIndex
<1>4. /\ DOMAIN con = {"conname", "conrelid", "contype", "conkey", "confrelid", "confkey"}
      /\ con.conname = Given(n) /\ con.conrelid = r /\ con.contype = "u" /\ con.conkey = key
  BY DEF KeyRow
<1>5. IsClassRow(cat, row) /\ row.relkind = "index" /\ IsIndex(cat, index, row.relnamespace)
  BY <1>1 DEF IsClassRow, IsIndex, Base, ClassRows
<1>6. NameFree(cat, row.relnamespace, row.relname)
  BY <1>2
<1>7. CASE unique
  <2>1. NewIndex(cat, row, index, {con}, cat')
    BY <1>1, <1>3, <1>7, UniqueIndexEffect
  <2>2. IsConstraint(cat, con) /\ IsKeyOf(con, row, index)
    BY <1>1, <1>4, <1>7 DEF IsConstraint, IsKeyOf, Key
  <2> HIDE DEF row, index, con
  <2>3. QED
    BY <1>1, <1>5, <1>6, <2>1, <2>2, NewIndexInv
<1>8. CASE ~unique
  <2>1. NewIndex(cat, row, index, {}, cat')
    BY <1>1, <1>3, <1>8, InsertIndexEffect
  <2> HIDE DEF row, index
  <2>2. QED
    BY <1>1, <1>5, <1>6, <2>1, NewIndexInv
<1>9. QED
  BY <1>7, <1>8

LEMMA DropIndexInv ==
    ASSUME IInv, NEW i \in Named(cat, {"index"}), DropIndex(i)
    PROVE  Inv(cat')
<1> DEFINE same == {k \in cat.pg_constraint : k.contype = "u" /\ k.conname = cat.pg_class[i].relname}
<1>1. cat' = [drop_index_rows(cat, {i}) EXCEPT !.pg_constraint = @ \ same]
  BY LeavesFacts DEF DropIndex
<1>2. Inv(cat) /\ Base(cat) /\ i \in DOMAIN cat.pg_class /\ Kind(cat, i) = "index"
  BY NamedFacts DEF IInv, Inv
<1> DEFINE I == {i}
<1>3. I \in SUBSET DOMAIN cat.pg_index
  BY <1>2 DEF Base, OwnKinds
<1>4. ASSUME TablesKnown
      PROVE  /\ \A k \in cat.pg_constraint : \A x \in I :
                   k.contype \in Key /\ Backs(cat, x, k) => k \in same
             /\ \A k \in cat.pg_constraint : \A x \in cat.pg_constraint \cap same :
                   k.contype = "f" /\ x.contype \in Key /\ x.conrelid = k.confrelid /\ x.conkey = k.confkey
                      => k \in same
  <2>1. TablesWhole(cat) /\ Base(cat)
    BY <1>2, <1>4 DEF Inv
  <2>2. \A k \in same : i \in backing_index(cat, k) /\ Dependents(k) = {}
    BY <1>4 DEF DropIndex, Gap, TablesKnown
  <2>3. ASSUME NEW k \in cat.pg_constraint, k.contype \in Key, Backs(cat, i, k)
        PROVE  k \in same
    <3>1. k.contype # "p"
      BY <2>3 DEF DropIndex, Backs
    <3>2. k.conname = cat.pg_class[i].relname
      BY <2>3 DEF Backs, Qname
    <3>3. QED
      BY <2>3, <3>1, <3>2 DEF Key
  <2>4. ASSUME NEW k \in cat.pg_constraint, NEW x \in same, k.contype = "f",
               x.conrelid = k.confrelid, x.conkey = k.confkey
        PROVE  FALSE
    <3>1. k \in Dependents(x)
      BY <2>4 DEF Dependents, FksOn, Fks, Key
    <3>2. QED
      BY <2>2, <2>4, <3>1
  <2> HIDE DEF same
  <2>5. \A k \in cat.pg_constraint : \A x \in I : k.contype \in Key /\ Backs(cat, x, k) => k \in same
    BY <2>3
  <2>6. QED
    BY <2>4, <2>5
<1> HIDE DEF same, I
<1>5. cat' = DropKeys(cat, I, same)
  BY <1>1 DEF I, same, DropKeys
<1>6. QED
  BY <1>2, <1>3, <1>4, <1>5, DropKeysInv

-----------------------------------------------------------------------------
(* Statements that make relations. *)

LEMMA NewRelationInv ==
    ASSUME NEW c, Inv(c), NEW row, NEW attrs, NEW rule, NEW deps,
           NEW d, NewRelation(c, row, attrs, rule, deps, d),
           IsClassRow(c, row), NameFree(c, row.relnamespace, row.relname),
           row.relkind \in Readable, IsAttributes(attrs),
           row.relkind \in Queried =>
              /\ \A r \in rule.rels : /\ r \in DOMAIN c.pg_class /\ Kind(c, r) \in Readable
                                      /\ \E e \in deps : e.objid = c.next_oid /\ e.refobjid = r
              /\ \A col \in rule.cols : /\ col = <<col[1], col[2]>>
                                       /\ col[1] \in rule.rels /\ col[2] \in Attnums(c, col[1]),
           \A e \in deps : /\ e.objid = c.next_oid
                           /\ row.relkind \in Queried => Reads(rule, e)
    PROVE  Inv(d)
<1>1. Base(c)
  BY DEF Inv
<1>2. Base(d)
  BY <1>1, NewRelationBase
<1>3. TablesKnown => TablesWhole(d)
  BY <1>1, NewRelationTables DEF Inv
<1>4. ViewsKnown => ViewsWhole(d)
  BY <1>1, NewRelationViews DEF Inv
<1>5. Deps(d)
  BY <1>1, NewRelationDeps DEF Inv
<1>6. QED
  BY <1>2, <1>3, <1>4, <1>5 DEF Inv

LEMMA InstallRelationInv ==
    ASSUME NEW c, Inv(c), NEW ns \in DOMAIN c.pg_namespace, NEW name, NameFree(c, ns, name),
           NEW kind \in Readable, NEW q, IsQuery(c, q),
           NEW d, d = install_relation(c, ns, name, kind, q)
    PROVE  Inv(d)
<1> DEFINE row   == [relname |-> name, relnamespace |-> ns, relkind |-> kind]
           attrs == [i \in DOMAIN q.cols |-> OutputName(c, q.cols[i])]
           rule  == [rels |-> q.rels, cols |-> Range(q.cols)]
           deps  == record_view_dependencies(c.next_oid, q)
<1>1. NewRelation(c, row, attrs, rule, deps, d)
  BY InstallRelationEffect DEF Inv, Base
<1>2. IsClassRow(c, row) /\ NameFree(c, row.relnamespace, row.relname) /\ row.relkind \in Readable
  BY DEF IsClassRow
<1>3. IsAttributes(attrs)
  BY DEF IsQuery, IsAttributes, Range
<1>4. \A r \in rule.rels : /\ r \in DOMAIN c.pg_class /\ Kind(c, r) \in Readable
                           /\ \E e \in deps : e.objid = c.next_oid /\ e.refobjid = r
  <2>1. ASSUME NEW r \in q.rels
        PROVE  \E e \in deps : e.objid = c.next_oid /\ e.refobjid = r
    <3> DEFINE e == [objid |-> c.next_oid, refobjid |-> r, refobjsubid |-> 0]
    <3>1. e \in deps
      BY DEF record_view_dependencies
    <3>2. e.objid = c.next_oid /\ e.refobjid = r
      OBVIOUS
    <3>3. QED
      BY <3>1, <3>2
  <2>2. QED
    BY <2>1 DEF IsQuery
<1>5. \A col \in rule.cols : /\ col = <<col[1], col[2]>>
                             /\ col[1] \in rule.rels /\ col[2] \in Attnums(c, col[1])
  BY DEF IsQuery, Range
<1>6. \A e \in deps : e.objid = c.next_oid /\ Reads(rule, e)
  <2>1. ASSUME NEW r \in q.rels, NEW e, e = [objid |-> c.next_oid, refobjid |-> r, refobjsubid |-> 0]
        PROVE  e.objid = c.next_oid /\ Reads(rule, e)
    BY <2>1 DEF Reads
  <2>2. ASSUME NEW col \in Range(q.cols),
               NEW e, e = [objid |-> c.next_oid, refobjid |-> col[1], refobjsubid |-> col[2]]
        PROVE  e.objid = c.next_oid /\ Reads(rule, e)
    BY <2>2, <1>5 DEF Reads
  <2>3. QED
    BY <2>1, <2>2 DEF record_view_dependencies
<1> HIDE DEF row, attrs, rule, deps
<1>7. QED
  BY <1>1, <1>2, <1>3, <1>4, <1>5, <1>6, NewRelationInv

\* A query reads the same after a schema was created.
LEMMA QueryAfterEnsure ==
    ASSUME NEW c, NEW q, IsQuery(c, q), NEW d, SameClasses(c, d), SameRest(c, d)
    PROVE  IsQuery(d, q)
BY DEF IsQuery, SameClasses, SameRest, Kind, Attnums, OutputName

LEMMA CreateViewInv ==
    ASSUME IInv, NEW s \in Schema, NEW n, NEW q \in Queries(cat), CreateView(s, n, q)
    PROVE  Inv(cat')
<1> DEFINE c  == ensure_namespace(cat, s)
           ns == c.namespace_by_name[s]
<1>1. /\ Inv(c) /\ SameClasses(cat, c) /\ SameRest(cat, c) /\ ns \in DOMAIN c.pg_namespace
  BY EnsureInv DEF IInv
<1>2. IsQuery(c, q)
  BY <1>1, QueryFacts, QueryAfterEnsure DEF IInv, Inv
<1>3. NameFree(c, ns, Given(n)) /\ cat' = install_relation(c, ns, Given(n), "view", q)
  BY LeavesFacts DEF CreateView
<1>4. QED
  BY <1>1, <1>2, <1>3, InstallRelationInv DEF Readable

LEMMA CreateTableAsInv ==
    ASSUME NamesKnown, IInv, NEW s \in Schema, NEW n, NEW kind \in {"table", "matview"},
           NEW q \in Queries(cat), CreateTableAs(s, n, kind, q)
    PROVE  Inv(cat')
<1> DEFINE c  == ensure_namespace(cat, s)
           ns == c.namespace_by_name[s]
<1>1. /\ Inv(c) /\ SameClasses(cat, c) /\ SameRest(cat, c) /\ ns \in DOMAIN c.pg_namespace
  BY EnsureInv DEF IInv
<1>2. IsQuery(c, q)
  BY <1>1, QueryFacts, QueryAfterEnsure DEF IInv, Inv
<1>3. NameFree(c, ns, Given(n)) /\ cat' = install_relation(c, ns, Given(n), kind, q)
  BY LeavesFacts DEF CreateTableAs, Gap, NamesKnown
<1>4. QED
  BY <1>1, <1>2, <1>3, InstallRelationInv DEF Readable

LEMMA ReplaceViewInv ==
    ASSUME IInv, NEW v \in Named(cat, {"view"}), NEW q \in Queries(cat), ReplaceView(v, q)
    PROVE  Inv(cat')
<1> DEFINE c   == drop_relation_by_oid(cat, {v})
           row == cat.pg_class[v]
<1>1. /\ Inv(cat) /\ Base(cat) /\ v \in DOMAIN cat.pg_class /\ Kind(cat, v) = "view"
      /\ IsClassRow(cat, row)
  BY NamedFacts DEF IInv, Inv
<1>2. /\ v \notin q.rels
      /\ ViewsKnown => find_dependent_views(cat, v) = {}
      /\ cat' = install_relation(c, row.relnamespace, row.relname, "view", q)
  BY LeavesFacts DEF ReplaceView, Gap, ViewsKnown
<1>3. Base(c)
  BY <1>1, DropRelations
<1>4. ASSUME TablesKnown PROVE TablesWhole(c)
  <2>1. \A i \in {v} \cap DOMAIN cat.pg_index : cat.pg_index[i].indrelid \in {v}
    BY <1>1 DEF Base, OwnKinds
  <2>2. \A k \in cat.pg_constraint : k.contype = "f" /\ k.confrelid \in {v} => k.conrelid \in {v}
    BY <1>1, <1>4 DEF Inv, TablesWhole, ConstraintsResolve
  <2>3. QED
    BY <1>1, <1>4, <2>1, <2>2, DropRelations DEF Inv
<1>5. ASSUME ViewsKnown PROVE ViewsWhole(c)
  <2>1. Closed(cat, {v})
    BY <1>2, <1>5 DEF Closed
  <2>2. \A w \in DOMAIN cat.pg_rewrite : \A r \in cat.pg_rewrite[w].rels : r \in {v} => w \in {v}
    BY <1>1, <1>5, <2>1, ClosedTakesReaders DEF Inv
  <2>3. QED
    BY <1>1, <1>5, <2>2, DropRelations DEF Inv
<1>6. /\ c.pg_namespace = cat.pg_namespace
      /\ DOMAIN c.pg_class \subseteq DOMAIN cat.pg_class \ {v}
      /\ \A r \in DOMAIN c.pg_class : c.pg_class[r] = cat.pg_class[r]
      /\ \A r \in DOMAIN cat.pg_class \ {v} : Kind(cat, r) # "index" =>
            /\ r \in DOMAIN c.pg_class /\ Kind(c, r) = Kind(cat, r)
            /\ Attnums(c, r) = Attnums(cat, r)
      /\ \A r \in DOMAIN c.pg_attribute : c.pg_attribute[r] = cat.pg_attribute[r]
  BY <1>1, DropRelationsKeep DEF SameNamespaces
<1> HIDE DEF c
<1>7. IsQuery(c, q)
  <2>1. IsQuery(cat, q)
    BY <1>1, QueryFacts
  <2>2. \A r \in q.rels : /\ r \in DOMAIN c.pg_class /\ Kind(c, r) \in Readable
                          /\ Attnums(c, r) = Attnums(cat, r)
    BY <1>2, <1>6, <2>1 DEF IsQuery, Readable
  <2>3. ASSUME NEW i \in DOMAIN q.cols PROVE OutputName(c, q.cols[i]) = OutputName(cat, q.cols[i])
    <3>1. q.cols[i][1] \in DOMAIN c.pg_attribute
      BY <2>1, <2>2 DEF IsQuery, Attnums
    <3>2. QED
      BY <1>6, <3>1 DEF OutputName
  <2>4. QED
    BY <2>1, <2>2, <2>3 DEF IsQuery
<1>8. NameFree(c, row.relnamespace, row.relname)
  <2>1. SUFFICES ASSUME <<row.relnamespace, row.relname>> \in DOMAIN c.class_by_qname
                 PROVE  FALSE
    BY DEF NameFree
  <2>2. PICK r \in DOMAIN c.pg_class : Qname(c, r) = <<row.relnamespace, row.relname>>
    BY <1>3, <2>1 DEF Base, ClassesPaired
  <2>3. r # v /\ r \in DOMAIN cat.pg_class /\ Qname(cat, r) = Qname(cat, v)
    BY <1>6, <2>2 DEF Qname
  <2>4. QED
    BY <1>1, <2>3 DEF Base, ClassesPaired
<1>9. row.relnamespace \in DOMAIN c.pg_namespace
  BY <1>1, <1>6 DEF IsClassRow
<1>10. Inv(c)
  BY <1>1, <1>3, <1>4, <1>5, DropRelations DEF Inv, c
<1>11. QED
  BY <1>2, <1>7, <1>8, <1>9, <1>10, InstallRelationInv DEF c, Readable

\* CREATE TABLE once the columns are there: the columns of r by these names, the
\* table with its primary key, and the statement put together.
KeyOf(c, r, names) == {a \in Attnums(c, r) : c.pg_attribute[r][a] \in names}

Keyed(c, r, pk) ==
    IF pk = {} THEN c
    ELSE emit_constraint_with_backing_index(c, KeyRow(c, r, KeyOf(c, r, pk), "p"))

TableMade(c, ns, n, cols, pk, fk, target) ==
    LET built == Built(c, Given(n), ns, cols)
        keyed == Keyed(built, c.next_oid, pk)
    IN  /\ NameFree(c, ns, Given(n))
        /\ pk = {} \/ Gap("generated_name") \/ NameFree(c, ns, constraint_name(Given(n), pk, "p"))
        /\ \/ fk = {} /\ Leaves(keyed)
           \/ /\ fk # {}
              /\ target \in Named(built, {"table"})
              /\ \E confkey \in SUBSET Attnums(built, target) :
                    /\ Cardinality(confkey) = Cardinality(fk)
                    /\ resolve_fk_target(built, target, confkey)
                    /\ Leaves(emit_constraint_with_backing_index(keyed,
                                  FkRow(keyed, c.next_oid, KeyOf(built, c.next_oid, fk), target, confkey)))

LEMMA CreateTableSteps ==
    ASSUME NEW s, NEW n, NEW cols, NEW pk, NEW fk, NEW target, CreateTable(s, n, cols, pk, fk, target)
    PROVE  LET c == ensure_namespace(cat, s)
           IN  TableMade(c, c.namespace_by_name[s], n, cols, pk, fk, target)
BY Zenon DEF CreateTable, TableMade, Built, Keyed, KeyOf

\* The name of the primary key is free.
LEMMA KeyedInv ==
    ASSUME NEW c, Inv(c), NEW r \in DOMAIN c.pg_class, Kind(c, r) = "table", NEW pk,
           pk # {} => NameFree(c, c.pg_class[r].relnamespace,
                               constraint_name(c.pg_class[r].relname, pk, "p")),
           NEW d, d = Keyed(c, r, pk)
    PROVE  /\ Inv(d)
           /\ \A x \in DOMAIN c.pg_class : x \in DOMAIN d.pg_class /\ Kind(d, x) = Kind(c, x)
           /\ \A x : Attnums(d, x) = Attnums(c, x)
           /\ c.pg_constraint \subseteq d.pg_constraint
<1>1. CASE pk = {}
  BY <1>1 DEF Keyed
<1>2. CASE pk # {}
  <2> DEFINE key     == KeyOf(c, r, pk)
             contype == "p"
             con     == KeyRow(c, r, key, contype)
  <2>1. key \in SUBSET Attnums(c, r) /\ contype \in Key
    BY DEF KeyOf, Key
  <2>2. con.conname = constraint_name(c.pg_class[r].relname, pk, "p")
    BY KeyRowFacts DEF constraint_name
  <2>3. con = KeyRow(c, r, key, contype) /\ d = emit_constraint_with_backing_index(c, con)
    BY <1>2 DEF Keyed
  <2> HIDE DEF key, contype, con
  <2>4. NameFree(c, c.pg_class[r].relnamespace, con.conname)
    BY <1>2, <2>2
  <2>5. /\ Inv(d)
        /\ \A x \in DOMAIN c.pg_class : x \in DOMAIN d.pg_class /\ Kind(d, x) = Kind(c, x)
        /\ \A x : Attnums(d, x) = Attnums(c, x)
        /\ d.pg_constraint = c.pg_constraint \cup {con}
    BY SMTT(30), <2>1, <2>3, <2>4, EmitKeyInv
  <2>6. QED
    BY <2>5
<1>3. QED
  BY <1>1, <1>2

LEMMA TableMadeInv ==
    ASSUME NamesKnown, NEW c, Inv(c), NEW ns \in DOMAIN c.pg_namespace, NEW n,
           NEW cols \in Lists(Column, MaxAttnum), NEW pk, NEW fk, NEW target,
           TableMade(c, ns, n, cols, pk, fk, target)
    PROVE  Inv(cat')
<1> DEFINE built == Built(c, Given(n), ns, cols)
           r     == c.next_oid
           keyed == Keyed(built, r, pk)
           key   == KeyOf(built, r, fk)
           row   == [relname |-> Given(n), relnamespace |-> ns, relkind |-> "table"]
<1>1. Base(c) /\ IsCatalog(c)
  BY DEF Inv, Base
<1>2. /\ NameFree(c, ns, Given(n))
      /\ pk # {} => NameFree(c, ns, constraint_name(Given(n), pk, "p"))
  BY DEF TableMade, Gap, NamesKnown
<1>3. \/ Leaves(keyed)
      \/ /\ target \in Named(built, {"table"})
         /\ \E confkey \in SUBSET Attnums(built, target) :
               /\ resolve_fk_target(built, target, confkey)
               /\ Leaves(emit_constraint_with_backing_index(keyed, FkRow(keyed, r, key, target, confkey)))
  BY Zenon DEF TableMade
<1>4. NewRelation(c, row, cols, {}, {}, built)
  BY <1>1, BuiltEffect
<1> HIDE DEF built
<1>5. Inv(built)
  <2>1. IsClassRow(c, row) /\ NameFree(c, row.relnamespace, row.relname)
    BY <1>1, <1>2 DEF IsClassRow, Readable
  <2>2. IsAttributes(cols)
    <3>1. PICK k \in 0..MaxAttnum : cols \in [1..k -> Column]
      BY DEF Lists
    <3>2. QED
      BY <3>1 DEF IsAttributes, Range
  <2>3. row.relkind = "table"
    OBVIOUS
  <2> HIDE DEF row
  <2>4. QED
    BY <1>1, <1>4, <2>1, <2>2, <2>3, NewRelationInv DEF Readable, Queried
<1>6. /\ r \in DOMAIN built.pg_class /\ Kind(built, r) = "table"
      /\ built.pg_class[r].relname = Given(n) /\ built.pg_class[r].relnamespace = ns
      /\ DOMAIN built.class_by_qname = DOMAIN c.class_by_qname \cup {<<ns, Given(n)>>}
  BY <1>4 DEF NewRelation, NewClass, More, Kind
<1>7. pk # {} => NameFree(built, ns, constraint_name(Given(n), pk, "p"))
  <2>1. constraint_name(Given(n), pk, "p") # Given(n)
    BY DEF constraint_name, Generated, Given
  <2>2. QED
    BY <1>2, <1>6, <2>1 DEF NameFree
<1> HIDE DEF r, row
<1>8. /\ Inv(keyed)
      /\ \A x \in DOMAIN built.pg_class : x \in DOMAIN keyed.pg_class /\ Kind(keyed, x) = Kind(built, x)
      /\ \A x : Attnums(keyed, x) = Attnums(built, x)
      /\ built.pg_constraint \subseteq keyed.pg_constraint
  BY <1>5, <1>6, <1>7, KeyedInv
<1>9. key \in SUBSET Attnums(keyed, r)
  BY <1>8 DEF KeyOf
<1> HIDE DEF keyed, key
<1>10. ASSUME target \in Named(built, {"table"}),
              NEW confkey \in SUBSET Attnums(built, target),
              resolve_fk_target(built, target, confkey),
              Leaves(emit_constraint_with_backing_index(keyed, FkRow(keyed, r, key, target, confkey)))
       PROVE  Inv(cat')
  <2>1. target \in DOMAIN built.pg_class /\ Kind(built, target) = "table"
    BY <1>5, <1>10, NamedFacts DEF Inv
  <2>2. cat' = emit_constraint_with_backing_index(keyed, FkRow(keyed, r, key, target, confkey))
    BY <1>10, LeavesFacts
  <2>3. resolve_fk_target(keyed, target, confkey)
    BY <1>8, <1>10 DEF resolve_fk_target, Constraints
  <2>4. QED
    BY <1>6, <1>8, <1>9, <1>10, <2>1, <2>2, <2>3, EmitForeignKeyInv
<1>11. QED
  BY <1>3, <1>8, <1>10, LeavesFacts

LEMMA CreateTableInv ==
    ASSUME NamesKnown, IInv, NEW s \in Schema, NEW n, NEW cols \in Lists(Column, MaxAttnum),
           NEW pk, NEW fk, NEW target, CreateTable(s, n, cols, pk, fk, target)
    PROVE  Inv(cat')
BY CreateTableSteps, EnsureInv, TableMadeInv DEF IInv

-----------------------------------------------------------------------------
(* Statements on columns. *)

\* The columns of r are now attrs.
SetColumns(c, r, attrs, d) ==
    /\ IsCatalog(d) /\ SameNamespaces(c, d) /\ SameClasses(c, d) /\ d.next_oid = c.next_oid
    /\ d.pg_constraint = c.pg_constraint /\ d.pg_index = c.pg_index
    /\ d.pg_depend = c.pg_depend /\ d.pg_rewrite = c.pg_rewrite
    /\ DOMAIN d.pg_attribute = DOMAIN c.pg_attribute
    /\ \A x \in DOMAIN c.pg_attribute : d.pg_attribute[x] = IF x = r THEN attrs ELSE c.pg_attribute[x]

LEMMA SetColumnsEffect ==
    ASSUME NEW c, IsCatalog(c), NEW r, NEW attrs,
           NEW d, d = [c EXCEPT !.pg_attribute[r] = attrs]
    PROVE  SetColumns(c, r, attrs, d)
BY DEF IsCatalog, Fields, SetColumns, SameNamespaces, SameClasses

\* Of the columns of r, those that something refers to stay.
LEMMA SetColumnsInv ==
    ASSUME NEW c, Inv(c), NEW r, NEW attrs, NEW d, SetColumns(c, r, attrs, d),
           r \in DOMAIN c.pg_attribute => IsAttributes(attrs),
           NEW lost, Attnums(c, r) \ lost \subseteq Attnums(d, r),
           TablesKnown =>
              /\ \A k \in c.pg_constraint : k.conrelid = r => k.conkey \cap lost = {}
              /\ \A k \in c.pg_constraint :
                    k.contype = "f" /\ k.confrelid = r => k.confkey \cap lost = {}
              /\ \A i \in DOMAIN c.pg_index :
                    c.pg_index[i].indrelid = r => c.pg_index[i].indkey \cap lost = {},
           ViewsKnown =>
              \A v \in DOMAIN c.pg_rewrite : \A col \in c.pg_rewrite[v].cols :
                 col[1] = r => col[2] \notin lost
    PROVE  Inv(d)
<1>1. Base(d)
  <2>1. \A x \in DOMAIN d.pg_attribute : IsAttributes(d.pg_attribute[x])
    BY DEF SetColumns, Inv, Base, ColumnTypes
  <2>2. \A k \in d.pg_constraint : IsConstraint(c, k)
    BY DEF SetColumns, Inv, Base, ConstraintRows
  <2>3. QED
    BY <2>1, <2>2, KeptBase DEF SetColumns, Inv
<1>2. /\ \A x : x # r => Attnums(d, x) = Attnums(c, x)
      /\ \A x : Kind(d, x) = Kind(c, x)
  BY DEF SetColumns, Attnums, Kind, SameClasses
<1>3. ASSUME NEW x, NEW a \in Attnums(c, x), x = r => a \notin lost
      PROVE  a \in Attnums(d, x)
  BY <1>2, <1>3
<1>4. ASSUME TablesKnown PROVE TablesWhole(d)
  <2>1. TablesWhole(c)
    BY <1>4 DEF Inv
  <2>2. \A k \in c.pg_constraint :
           /\ k.conkey \subseteq Attnums(d, k.conrelid)
           /\ k.contype = "f" => k.confkey \subseteq Attnums(d, k.confrelid)
    BY <1>3, <1>4, <2>1 DEF TablesWhole, ConstraintsResolve
  <2>3. \A i \in DOMAIN c.pg_index : c.pg_index[i].indkey \subseteq Attnums(d, c.pg_index[i].indrelid)
    BY <1>3, <1>4, <2>1 DEF TablesWhole, IndexesResolve, IsIndex
  <2>4. ConstraintsResolve(d)
    BY <1>2, <2>1, <2>2 DEF TablesWhole, ConstraintsResolve, SetColumns, SameClasses
  <2> DEFINE K == {}
  <2>5. d.pg_constraint = c.pg_constraint \cup K /\ \A k \in K : k.contype = "f" /\ Covered(c, k)
    BY DEF SetColumns
  <2> HIDE DEF K
  <2>6. QED
    BY <2>1, <2>3, <2>4, <2>5, KeptTables DEF SetColumns, Inv
<1>5. ASSUME ViewsKnown PROVE ViewsWhole(d)
  <2>1. \A x \in DOMAIN c.pg_class : x \in DOMAIN d.pg_class /\ Kind(d, x) = Kind(c, x)
    BY <1>2 DEF SetColumns, SameClasses
  <2>2. \A v \in DOMAIN c.pg_rewrite : \A col \in c.pg_rewrite[v].cols :
           col[2] \in Attnums(c, col[1]) => col[2] \in Attnums(d, col[1])
    BY <1>3, <1>5
  <2>3. QED
    BY <1>5, <2>1, <2>2, KeptViews DEF Inv, SetColumns
<1>6. Deps(d)
  BY <1>2, KeptDeps DEF Inv, SetColumns, SameClasses
<1>7. QED
  BY <1>1, <1>4, <1>5, <1>6 DEF Inv

LEMMA AddColumnInv ==
    ASSUME IInv, NEW r \in Named(cat, {"table"}), NEW col \in Column, AddColumn(r, col)
    PROVE  Inv(cat')
<1> DEFINE attrs == With(cat.pg_attribute[r], next_attnum(r), col)
<1>1. Inv(cat) /\ Base(cat) /\ IsCatalog(cat)
  BY DEF IInv, Inv, Base
<1>2. cat' = [cat EXCEPT !.pg_attribute[r] = attrs] /\ next_attnum(r) \in 1..MaxAttnum
  BY LeavesFacts DEF AddColumn
<1>3. r \in DOMAIN cat.pg_attribute => IsAttributes(attrs)
  <2>1. SUFFICES ASSUME IsAttributes(cat.pg_attribute[r]) PROVE IsAttributes(attrs)
    BY <1>1 DEF Base, ColumnTypes
  <2>2. More(cat.pg_attribute[r], next_attnum(r), col, attrs)
    BY WithMore
  <2>3. next_attnum(r) \in Nat \ {0}
    BY <1>2, CatalogAssumption DEF CatalogAssumption
  <2> HIDE DEF attrs
  <2>4. QED
    BY <2>1, <2>2, <2>3 DEF IsAttributes, More, Range
<1>4. DOMAIN cat.pg_attribute[r] \subseteq DOMAIN attrs
  BY DEF With
<1> DEFINE lost == {}
<1> HIDE DEF attrs
<1>5. SetColumns(cat, r, attrs, cat')
  BY <1>1, <1>2, SetColumnsEffect
<1>6. Attnums(cat, r) \ lost \subseteq Attnums(cat', r)
  BY <1>4, <1>5 DEF SetColumns, Attnums
<1>7. (\A S : S \cap lost = {}) /\ (\A x : x \notin lost)
  OBVIOUS
<1> HIDE DEF lost
<1>8. QED
  BY <1>1, <1>3, <1>5, <1>6, <1>7, SetColumnsInv

LEMMA RenameColumnInv ==
    ASSUME IInv, NEW r, NEW a \in Attnums(cat, r), NEW new \in Column, RenameColumn(r, a, new)
    PROVE  Inv(cat')
<1> DEFINE attrs == [cat.pg_attribute[r] EXCEPT ![a] = new]
           lost  == {}
<1>1. Inv(cat) /\ Base(cat) /\ IsCatalog(cat)
  BY DEF IInv, Inv, Base
<1>2. cat' = [cat EXCEPT !.pg_attribute[r] = attrs]
  BY LeavesFacts DEF RenameColumn
<1>3. r \in DOMAIN cat.pg_attribute => IsAttributes(attrs)
  BY <1>1 DEF Base, ColumnTypes, IsAttributes, Range
<1>4. DOMAIN attrs = DOMAIN cat.pg_attribute[r]
  OBVIOUS
<1> HIDE DEF attrs
<1>5. SetColumns(cat, r, attrs, cat')
  BY <1>1, <1>2, SetColumnsEffect
<1>6. Attnums(cat, r) \ lost \subseteq Attnums(cat', r)
  BY <1>4, <1>5 DEF SetColumns, Attnums
<1>7. (\A S : S \cap lost = {}) /\ (\A x : x \notin lost)
  OBVIOUS
<1> HIDE DEF lost
<1>8. QED
  BY <1>1, <1>3, <1>5, <1>6, <1>7, SetColumnsInv

\* ViewsWhole go, with the views that read them; tables and keys stay.
LEMMA DropViewsInv ==
    ASSUME NEW c, Inv(c), NEW V, \A v \in V : IsView(c, v),
           NEW T, T = transitive_views(c, V), NEW d, d = drop_relation_by_oid(c, T)
    PROVE  /\ Inv(d) /\ V \subseteq T
           /\ \A v \in T : IsView(c, v)
<1>1. Base(c)
  BY DEF Inv
<1>2. V \subseteq T /\ Closed(c, T) /\ \A v \in T : IsView(c, v)
  BY TransitiveViews
<1>3. Base(d)
  BY <1>1, DropRelations
<1>4. ASSUME TablesKnown PROVE TablesWhole(d)
  <2>1. \A i \in T \cap DOMAIN c.pg_index : c.pg_index[i].indrelid \in T
    BY <1>1, <1>2 DEF IsView, Queried, Base, OwnKinds
  <2>2. \A k \in c.pg_constraint : k.contype = "f" /\ k.confrelid \in T => k.conrelid \in T
    BY <1>2, <1>4 DEF IsView, Queried, Inv, TablesWhole, ConstraintsResolve
  <2>3. QED
    BY <1>1, <1>4, <2>1, <2>2, DropRelations DEF Inv
<1>5. ASSUME ViewsKnown PROVE ViewsWhole(d)
  <2>1. \A v \in DOMAIN c.pg_rewrite : \A r \in c.pg_rewrite[v].rels : r \in T => v \in T
    BY <1>2, <1>5, ClosedTakesReaders DEF Inv
  <2>2. QED
    BY <1>1, <1>5, <2>1, DropRelations DEF Inv
<1>6. Deps(d)
  BY <1>1, DropRelations DEF Inv
<1>7. QED
  BY <1>2, <1>3, <1>4, <1>5, <1>6 DEF Inv

LEMMA DropRelationInv ==
    ASSUME IInv, NEW r \in Named(cat, Readable), NEW cascade, DropRelation(r, cascade)
    PROVE  Inv(cat')
<1> DEFINE views == find_dependent_views(cat, r)
           T     == transitive_views(cat, views)
           c     == drop_relation_by_oid(cat, T)
           K     == FksOn(cat, r)
           freed == [c EXCEPT !.pg_constraint = @ \ K]
<1>1. /\ Inv(cat) /\ Base(cat) /\ r \in DOMAIN cat.pg_class /\ Kind(cat, r) \in Readable
  BY NamedFacts DEF IInv, Inv
<1>2. cat' = drop_relation_by_oid(freed, {r})
  BY LeavesFacts DEF DropRelation, drop_views
<1>3. \A v \in views : IsView(cat, v)
  BY DEF find_dependent_views
<1> HIDE DEF views
<1>4. Inv(c) /\ views \subseteq T
  BY <1>1, <1>3, DropViewsInv
<1>5. /\ DOMAIN c.pg_class \subseteq DOMAIN cat.pg_class \ T
      /\ DOMAIN c.pg_index \subseteq DOMAIN cat.pg_index
      /\ DOMAIN c.pg_rewrite \subseteq DOMAIN cat.pg_rewrite
      /\ \A v \in DOMAIN c.pg_rewrite : c.pg_rewrite[v] = cat.pg_rewrite[v]
      /\ c.pg_constraint \subseteq cat.pg_constraint
  BY <1>1, DropRelationsKeep
<1>6. \A k \in K : k.contype = "f"
  BY DEF FksOn, Fks
<1> HIDE DEF T, c
<1>7. /\ \A k \in cat.pg_constraint : k.contype = "f" /\ k.confrelid = r => k \in K
  BY DEF FksOn, Fks
<1> HIDE DEF K
<1>8. Removal(c, {}, {}, K, freed)
  BY <1>4, DropConstraintsEffect DEF Inv, Base
<1>9. /\ DOMAIN freed.pg_rewrite = DOMAIN c.pg_rewrite
      /\ \A v \in DOMAIN c.pg_rewrite : freed.pg_rewrite[v] = c.pg_rewrite[v]
      /\ DOMAIN freed.pg_index = DOMAIN c.pg_index
      /\ freed.pg_constraint = c.pg_constraint \ K
  BY <1>8 DEF Removal, Less
<1> HIDE DEF freed
<1>10. Base(freed)
  <2>1. Base(c) /\ {} \in SUBSET {} /\ \A k \in c.pg_constraint : k.conrelid \in {} => k \in K
    BY <1>4 DEF Inv
  <2>2. QED
    BY <1>8, <2>1, RemovalBase
<1>11. ASSUME TablesKnown PROVE TablesWhole(freed)
  <2>1. TakesAlong(c, {}, {}, K)
    BY <1>6 DEF TakesAlong, Key
  <2>2. QED
    BY <1>4, <1>8, <1>11, <2>1, RemovalTables DEF Inv
<1>12. ASSUME ViewsKnown PROVE ViewsWhole(freed)
  <2>1. \A v \in DOMAIN c.pg_rewrite : \A x \in c.pg_rewrite[v].rels : x \in {} => v \in {}
    OBVIOUS
  <2>2. QED
    BY <1>4, <1>8, <1>12, <2>1, RemovalViews DEF Inv
<1>13. Base(cat')
  BY <1>2, <1>10, DropRelations
<1>14. ASSUME TablesKnown PROVE TablesWhole(cat')
  <2>1. r \notin DOMAIN freed.pg_index
    BY <1>1, <1>5, <1>9 DEF Readable, Base, OwnKinds
  <2>2. \A k \in freed.pg_constraint : k.contype = "f" => k.confrelid # r
    BY <1>5, <1>7, <1>9
  <2>3. QED
    BY <1>2, <1>10, <1>11, <1>14, <2>1, <2>2, DropRelations
<1>15. ASSUME ViewsKnown PROVE ViewsWhole(cat')
  <2>1. ASSUME NEW v \in DOMAIN freed.pg_rewrite, r \in freed.pg_rewrite[v].rels
        PROVE  FALSE
    <3>1. v \in DOMAIN cat.pg_rewrite /\ r \in cat.pg_rewrite[v].rels
      BY <1>5, <1>9, <2>1
    <3>2. v \in views
      BY <1>1, <1>15, <3>1 DEF views, find_dependent_views, Inv, ViewsWhole, IsRule
    <3>3. v \in DOMAIN c.pg_class
      BY <1>4, <1>9, <1>15, <2>1 DEF Inv, ViewsWhole, IsView
    <3>4. QED
      BY <1>4, <1>5, <3>2, <3>3
  <2>2. QED
    BY <1>2, <1>10, <1>12, <1>15, <2>1, DropRelations
<1>16. Deps(cat')
  <2>1. Deps(freed)
    BY <1>4, <1>8, RemovalDeps DEF Inv
  <2>2. QED
    BY <1>2, <1>10, <2>1, DropRelations
<1>17. QED
  BY <1>13, <1>14, <1>15, <1>16 DEF Inv

LEMMA RenamingInv ==
    ASSUME NEW c, Inv(c), NEW r \in DOMAIN c.pg_class, Kind(c, r) \in Readable,
           NEW name, NEW ns \in DOMAIN c.pg_namespace, NameFree(c, ns, name),
           TablesKnown => ns = c.pg_class[r].relnamespace \/ IndexesOn(c, r) = {},
           NEW d, d = rename_pg_class(c, r, name, ns)
    PROVE  Inv(d)
<1>1. Base(c) /\ IsCatalog(c) /\ IsClassRow(c, c.pg_class[r])
  BY DEF Inv, Base, ClassRows
<1>2. Renaming(c, r, name, ns, d) /\ SameRest(c, d)
  BY <1>1, RenameClassEffect
<1>3. Base(d)
  BY <1>1, <1>2, RenamingBase
<1>4. ASSUME TablesKnown PROVE TablesWhole(d)
  BY <1>1, <1>2, <1>4, RenamingTables DEF Inv, Readable
<1>5. ASSUME ViewsKnown PROVE ViewsWhole(d)
  <2>1. \A x \in DOMAIN c.pg_class : x \in DOMAIN d.pg_class /\ Kind(d, x) = Kind(c, x)
    BY <1>1, <1>2 DEF Renaming, Kind, IsClassRow
  <2>2. \A x : Attnums(d, x) = Attnums(c, x)
    BY <1>2 DEF SameRest, Attnums
  <2>3. QED
    BY <1>2, <1>5, <2>1, <2>2, KeptViews DEF Inv, SameRest
<1>6. Deps(d)
  <2>1. \A x \in DOMAIN c.pg_class : Kind(d, x) = Kind(c, x)
    BY <1>1, <1>2 DEF Renaming, Kind, IsClassRow
  <2>2. QED
    BY <1>2, <2>1, KeptDeps DEF Inv, Renaming, SameRest
<1>7. QED
  BY <1>3, <1>4, <1>5, <1>6 DEF Inv

LEMMA RenameRelationInv ==
    ASSUME IInv, NEW r \in Named(cat, Readable), NEW n, RenameRelation(r, n)
    PROVE  Inv(cat')
<1>1. /\ Inv(cat) /\ r \in DOMAIN cat.pg_class /\ Kind(cat, r) \in Readable
      /\ cat.pg_class[r].relnamespace \in DOMAIN cat.pg_namespace
  BY NamedFacts DEF IInv, Inv, IsClassRow
<1>2. /\ NameFree(cat, cat.pg_class[r].relnamespace, Given(n))
      /\ cat' = rename_pg_class(cat, r, Given(n), cat.pg_class[r].relnamespace)
  BY LeavesFacts DEF RenameRelation
<1>3. QED
  BY <1>1, <1>2, RenamingInv

LEMMA SetSchemaInv ==
    ASSUME IInv, NEW r \in Named(cat, Readable), NEW s \in Schema, SetSchema(r, s)
    PROVE  Inv(cat')
<1> DEFINE c    == ensure_namespace(cat, s)
           ns   == c.namespace_by_name[s]
           name == cat.pg_class[r].relname
<1>1. /\ Inv(c) /\ SameClasses(cat, c) /\ SameRest(cat, c) /\ ns \in DOMAIN c.pg_namespace
  BY EnsureInv DEF IInv
<1>2. r \in DOMAIN cat.pg_class /\ Kind(cat, r) \in Readable
  BY NamedFacts DEF IInv, Inv
<1>3. r \in DOMAIN c.pg_class /\ Kind(c, r) \in Readable
  BY <1>1, <1>2 DEF SameClasses, Kind
<1>4. /\ NameFree(c, ns, name) /\ cat' = rename_pg_class(c, r, name, ns)
      /\ TablesKnown => IndexesOn(cat, r) = {}
  BY LeavesFacts DEF SetSchema, Gap, TablesKnown
<1>5. IndexesOn(c, r) = IndexesOn(cat, r)
  BY <1>1 DEF SameRest, IndexesOn
<1>6. QED
  BY <1>1, <1>3, <1>4, <1>5, RenamingInv

LEMMA DropColumnInv ==
    ASSUME IInv, NEW r \in Named(cat, {"table"}), NEW a \in Attnums(cat, r), NEW cascade,
           DropColumn(r, a, cascade)
    PROVE  Inv(cat')
<1> DEFINE views    == find_views_depending_on_column(cat, r, a)
           local    == {k \in Constraints(cat, r) : a \in k.conkey}
           blockers == {k \in FksOn(cat, r) : a \in k.confkey /\ k.conrelid # r}
           K        == local \cup blockers
           indexes  == {i \in IndexesOn(cat, r) : a \in cat.pg_index[i].indkey}
           freed    == DropKeys(cat, indexes, K)
           T        == transitive_views(freed, views)
           c        == drop_relation_by_oid(freed, T)
           attrs    == Without(c.pg_attribute[r], {a})
           lost     == {a}
<1>1. Inv(cat) /\ Base(cat)
  BY DEF IInv, Inv
<1>2. /\ cat' = [c EXCEPT !.pg_attribute[r] = attrs]
      /\ ViewsKnown => ~ReadByStar(cat, r, a)
      /\ TablesKnown => \A k \in FksOn(cat, r) \cap Constraints(cat, r) : a \in k.confkey => a \in k.conkey
  BY LeavesFacts DEF DropColumn, drop_column, drop_views, DropKeys, Gap, ViewsKnown, TablesKnown
<1>3. /\ indexes \in SUBSET DOMAIN cat.pg_index
      /\ \A i \in DOMAIN cat.pg_index :
            cat.pg_index[i].indrelid = r /\ a \in cat.pg_index[i].indkey => i \in indexes
  BY DEF IndexesOn
<1>4. /\ \A k \in cat.pg_constraint : k.conrelid = r /\ a \in k.conkey => k \in K
      /\ TablesKnown => \A k \in cat.pg_constraint :
                           k.contype = "f" /\ k.confrelid = r /\ a \in k.confkey => k \in K
      /\ \A k \in K : k.contype \in Key => k.conrelid = r /\ a \in k.conkey
  BY <1>2 DEF Constraints, FksOn, Fks, Key
<1>5. \A v \in views : IsView(cat, v)
  BY DEF find_views_depending_on_column
<1>6. ViewsKnown => \A v \in DOMAIN cat.pg_rewrite : <<r, a>> \in cat.pg_rewrite[v].cols => v \in views
  BY <1>2 DEF ReadByStar
<1> HIDE DEF views, indexes, K
<1>7. /\ Inv(freed) /\ Removal(cat, indexes, indexes, K, freed)
      /\ \A x \in DOMAIN cat.pg_class : Kind(cat, x) # "index" =>
            x \in DOMAIN freed.pg_class /\ Kind(freed, x) = Kind(cat, x)
  <2>1. ASSUME TablesKnown
        PROVE  /\ \A k \in cat.pg_constraint : \A i \in indexes :
                     k.contype \in Key /\ Backs(cat, i, k) => k \in K
               /\ \A k \in cat.pg_constraint : \A x \in cat.pg_constraint \cap K :
                     k.contype = "f" /\ x.contype \in Key /\ x.conrelid = k.confrelid /\ x.conkey = k.confkey
                        => k \in K
    <3>1. \A i \in indexes : cat.pg_index[i].indrelid = r /\ a \in cat.pg_index[i].indkey
      BY DEF indexes, IndexesOn
    <3>2. \A k \in cat.pg_constraint : \A i \in indexes : k.contype \in Key /\ Backs(cat, i, k) => k \in K
      BY <1>4, <3>1 DEF Backs
    <3>3. \A k \in cat.pg_constraint : \A x \in cat.pg_constraint \cap K :
             k.contype = "f" /\ x.contype \in Key /\ x.conrelid = k.confrelid /\ x.conkey = k.confkey
                => k \in K
      BY <1>4, <2>1
    <3>4. QED
      BY <3>2, <3>3
  <2> HIDE DEF freed
  <2>2. freed = DropKeys(cat, indexes, K)
    BY DEF freed
  <2>3. indexes \in SUBSET DOMAIN cat.pg_index
    BY <1>3
  <2>4. Inv(freed)
    BY <1>1, <2>1, <2>2, <2>3, DropKeysInv
  <2>5. Removal(cat, indexes, indexes, K, freed)
    BY <1>1, <2>1, <2>2, <2>3, DropKeysInv
  <2>6. \A x \in DOMAIN cat.pg_class : Kind(cat, x) # "index" =>
           x \in DOMAIN freed.pg_class /\ Kind(freed, x) = Kind(cat, x)
    BY <1>1, <2>1, <2>2, <2>3, DropKeysInv
  <2>7. QED
    BY <2>4, <2>5, <2>6
<1> HIDE DEF freed
<1>8. \A v \in views : IsView(freed, v)
  BY <1>5, <1>7 DEF IsView, Queried
<1>9. Inv(c) /\ views \subseteq T
  BY <1>7, <1>8, DropViewsInv
<1>10. /\ c.pg_constraint \subseteq freed.pg_constraint
       /\ DOMAIN c.pg_index \subseteq DOMAIN freed.pg_index
       /\ \A i \in DOMAIN c.pg_index : c.pg_index[i] = freed.pg_index[i]
       /\ DOMAIN c.pg_rewrite \subseteq DOMAIN freed.pg_rewrite
       /\ \A v \in DOMAIN c.pg_rewrite : c.pg_rewrite[v] = freed.pg_rewrite[v]
       /\ DOMAIN c.pg_class \cap T = {}
  BY <1>7, DropRelationsKeep DEF Inv
<1>11. /\ c.pg_constraint \subseteq cat.pg_constraint \ K
       /\ \A i \in DOMAIN c.pg_index : /\ i \in DOMAIN cat.pg_index \ indexes
                                       /\ c.pg_index[i] = cat.pg_index[i]
       /\ \A v \in DOMAIN c.pg_rewrite : /\ v \in DOMAIN cat.pg_rewrite
                                         /\ c.pg_rewrite[v] = cat.pg_rewrite[v]
  BY <1>7, <1>10 DEF Removal, Less
<1> HIDE DEF T, c
<1>12. r \in DOMAIN c.pg_attribute => IsAttributes(attrs)
  BY <1>9 DEF Inv, Base, ColumnTypes, IsAttributes, Range, Without
<1>13. DOMAIN attrs = DOMAIN c.pg_attribute[r] \ {a}
  BY DEF Without
<1> HIDE DEF attrs
<1>14. SetColumns(c, r, attrs, cat')
  BY <1>2, <1>9, SetColumnsEffect DEF Inv, Base
<1>15. Attnums(c, r) \ lost \subseteq Attnums(cat', r)
  BY <1>13, <1>14 DEF SetColumns, Attnums
<1>16. TablesKnown =>
          /\ \A k \in c.pg_constraint : k.conrelid = r => k.conkey \cap lost = {}
          /\ \A k \in c.pg_constraint : k.contype = "f" /\ k.confrelid = r => k.confkey \cap lost = {}
          /\ \A i \in DOMAIN c.pg_index :
                c.pg_index[i].indrelid = r => c.pg_index[i].indkey \cap lost = {}
  BY <1>3, <1>4, <1>11
<1>17. ASSUME ViewsKnown, NEW v \in DOMAIN c.pg_rewrite, NEW col \in c.pg_rewrite[v].cols, col[1] = r
       PROVE  col[2] \notin lost
  <2>1. v \notin views
    BY <1>9, <1>10, <1>17 DEF Inv, ViewsWhole, IsView
  <2>2. <<r, a>> \notin cat.pg_rewrite[v].cols
    BY <1>6, <1>11, <1>17, <2>1
  <2>3. col = <<r, col[2]>>
    BY <1>9, <1>17 DEF Inv, ViewsWhole, IsRule
  <2>4. QED
    BY <1>11, <1>17, <2>2, <2>3
<1> HIDE DEF lost
<1>18. QED
  BY <1>9, <1>12, <1>14, <1>15, <1>16, <1>17, SetColumnsInv

-----------------------------------------------------------------------------
(* The invariant holds of the seed and every statement keeps it. *)

LEMMA InitIInv == Init => IInv
<1>1. SUFFICES ASSUME Init PROVE IInv
  OBVIOUS
<1> DEFINE ns == [x \in {1} |-> Public]
           by == [x \in {Public} |-> 1]
<1>2. /\ DOMAIN cat = Fields /\ cat.next_oid = 2
      /\ cat.pg_namespace = ns /\ cat.namespace_by_name = by
      /\ DOMAIN cat.pg_class = {} /\ DOMAIN cat.class_by_qname = {}
      /\ DOMAIN cat.pg_attribute = {} /\ DOMAIN cat.pg_index = {} /\ DOMAIN cat.pg_rewrite = {}
      /\ cat.pg_constraint = {} /\ cat.pg_depend = {}
  BY <1>1 DEF Init, Fields
<1>3. /\ DOMAIN cat.pg_namespace = {1} /\ cat.pg_namespace[1] = Public
      /\ DOMAIN cat.namespace_by_name = {Public} /\ cat.namespace_by_name[Public] = 1
  BY <1>2
<1> HIDE DEF ns, by
<1>4. Fresh(cat) /\ IsCatalog(cat)
  BY <1>2, <1>3 DEF Fresh, IsCatalog
<1>5. NamespacesPaired(cat)
  BY <1>2, <1>3, CatalogAssumption DEF NamespacesPaired, CatalogAssumption
<1>6. Base(cat)
  BY <1>2, <1>3, <1>4, <1>5 DEF Base, ClassesPaired, ClassRows, ConstraintRows, OwnKinds, ColumnTypes
<1>7. TablesWhole(cat)
  BY <1>2, <1>3 DEF TablesWhole, ConstraintsResolve, IndexesResolve, KeysBacked, KeyNamesDiffer, FksReferToKeys
<1>8. ViewsWhole(cat)
  BY <1>2, <1>3 DEF ViewsWhole
<1>9. cat.next_oid <= MaxOid + 1
  BY <1>2, <1>3, CatalogAssumption DEF CatalogAssumption
<1>10. Deps(cat)
  BY <1>2 DEF Deps
<1>11. QED
  BY <1>6, <1>7, <1>8, <1>9, <1>10 DEF IInv, Inv

LEMMA NextInv ==
    ASSUME NamesKnown, IInv, Next
    PROVE  Inv(cat')
<1>1. CASE SchemaStatement
  BY <1>1, CreateSchemaInv, RenameSchemaInv, DropSchemaInv DEF SchemaStatement
<1>2. CASE TableStatement
  <2>1. ASSUME NEW s \in Schema, NEW n \in Name, NEW cols \in Lists(Column, MaxAttnum), NEW pk, NEW fk,
               NEW target, CreateTable(s, n, cols, pk, fk, target)
        PROVE  Inv(cat')
    BY <2>1, CreateTableInv
  <2>2. ASSUME NEW r \in Named(cat, {"table"}),
               \/ \E col \in Column : AddColumn(r, col)
               \/ \E a \in Attnums(cat, r), cascade \in BOOLEAN : DropColumn(r, a, cascade)
        PROVE  Inv(cat')
    BY <2>2, AddColumnInv, DropColumnInv
  <2>3. ASSUME NEW r \in Named(cat, Readable), NEW a \in Attnums(cat, r), NEW new \in Column,
               RenameColumn(r, a, new)
        PROVE  Inv(cat')
    BY <2>3, RenameColumnInv
  <2>4. QED
    BY <1>2, <2>1, <2>2, <2>3 DEF TableStatement, Tables
<1>3. CASE ConstraintStatement
  <2>1. ASSUME NEW r \in Named(cat, {"table"}), NEW key \in SUBSET Attnums(cat, r), NEW contype \in Key,
               AddKey(r, key, contype)
        PROVE  Inv(cat')
    BY <2>1, AddKeyInv
  <2>2. ASSUME NEW r \in Named(cat, Holder), NEW key \in SUBSET Attnums(cat, r), NEW unique \in BOOLEAN,
               NEW n \in Name, CreateIndex(r, key, unique, n)
        PROVE  Inv(cat')
    BY <2>2, CreateIndexInv
  <2>3. ASSUME NEW r \in Named(cat, {"table"}), NEW target \in Named(cat, {"table"}),
               NEW key \in SUBSET Attnums(cat, r), NEW confkey \in SUBSET Attnums(cat, target),
               AddForeignKey(r, key, target, confkey)
        PROVE  Inv(cat')
    BY <2>3, AddForeignKeyInv
  <2>4. ASSUME NEW con \in cat.pg_constraint,
               \/ \E cascade \in BOOLEAN : DropConstraint(con, cascade)
               \/ \E n \in Name : RenameConstraint(con, n)
        PROVE  Inv(cat')
    BY <2>4, DropConstraintInv, RenameConstraintInv
  <2>5. ASSUME NEW i \in Named(cat, {"index"}), DropIndex(i) PROVE Inv(cat')
    BY <2>5, DropIndexInv
  <2>6. QED
    BY <1>3, <2>1, <2>2, <2>3, <2>4, <2>5 DEF ConstraintStatement, Tables
<1>4. CASE RelationStatement
  BY <1>4, CreateViewInv, CreateTableAsInv, ReplaceViewInv, DropRelationInv, RenameRelationInv,
     SetSchemaInv DEF RelationStatement
<1>5. QED
  BY <1>1, <1>2, <1>3, <1>4 DEF Next

LEMMA NextLeaves ==
    ASSUME Next
    PROVE  \E c : Leaves(c)
<1>1. CASE SchemaStatement
  BY <1>1 DEF SchemaStatement, CreateSchema, RenameSchema, DropSchema
<1>2. CASE TableStatement
  <2>1. ASSUME NEW s, NEW n, NEW cols, NEW pk, NEW fk, NEW target, CreateTable(s, n, cols, pk, fk, target)
        PROVE  \E c : Leaves(c)
    BY <2>1, CreateTableSteps DEF TableMade
  <2>2. QED
    BY <1>2, <2>1 DEF TableStatement, AddColumn, DropColumn, RenameColumn
<1>3. CASE ConstraintStatement
  BY <1>3 DEF ConstraintStatement, AddKey, AddForeignKey, DropConstraint, RenameConstraint,
     CreateIndex, DropIndex
<1>4. CASE RelationStatement
  BY <1>4 DEF RelationStatement, CreateView, CreateTableAs, ReplaceView, DropRelation,
     RenameRelation, SetSchema
<1>5. QED
  BY <1>1, <1>2, <1>3, <1>4 DEF Next

LEMMA IInvStep ==
    ASSUME NamesKnown, IInv, [Next]_cat
    PROVE  IInv'
<1>1. CASE Next
  <2>1. Inv(cat')
    BY <1>1, NextInv
  <2>2. cat'.next_oid <= MaxOid + 1
    BY <1>1, NextLeaves, LeavesFacts
  <2>3. QED
    BY <2>1, <2>2 DEF IInv
<1>2. CASE UNCHANGED cat
  BY <1>2 DEF IInv
<1>3. QED
  BY <1>1, <1>2

LEMMA IInvHolds == NamesKnown /\ Spec => []IInv
<1>1. SUFFICES ASSUME NamesKnown PROVE Spec => []IInv
  OBVIOUS
<1>2. Init => IInv
  BY InitIInv
<1>3. IInv /\ [Next]_cat => IInv'
  BY <1>1, IInvStep
<1>4. QED
  BY <1>2, <1>3, PTL DEF Spec

-----------------------------------------------------------------------------
(* Theorems. *)

\* The rows of the catalog keep the shape of the rows in pg_catalog/rows.rs,
\* whatever the statements, as long as generated names are free.
THEOREM TypeCorrect == NamesKnown /\ Spec => []TypeOK
<1>1. IInv => TypeOK
  <2>1. SUFFICES ASSUME IInv PROVE TypeOK
    OBVIOUS
  <2>2. /\ Fresh(cat) /\ NamespacesPaired(cat) /\ ClassRows(cat) /\ ConstraintRows(cat)
        /\ ColumnTypes(cat) /\ cat.next_oid <= MaxOid + 1 /\ MaxOid \in Nat
    BY <2>1, CatalogAssumption DEF IInv, Inv, Base, CatalogAssumption
  <2>3. \A x \in DOMAIN cat.pg_namespace \cup DOMAIN cat.pg_class : x \in Oid
    BY <2>2 DEF Fresh, Oid
  <2>4. cat.next_oid \in 1..(MaxOid + 1)
    BY <2>2 DEF Fresh
  <2>5. /\ DOMAIN cat.pg_namespace \subseteq Oid /\ Range(cat.pg_namespace) \subseteq Schema
        /\ DOMAIN cat.namespace_by_name \subseteq Schema /\ Range(cat.namespace_by_name) \subseteq Oid
    BY <2>2, <2>3 DEF NamespacesPaired, Range
  <2>6. /\ DOMAIN cat.pg_class \subseteq Oid
        /\ \A r \in DOMAIN cat.pg_class :
              cat.pg_class[r].relnamespace \in Oid /\ Kind(cat, r) \in Readable \cup {"index"}
    BY <2>2, <2>3 DEF ClassRows, IsClassRow, Kind
  <2>7. \A r \in DOMAIN cat.pg_attribute :
           Attnums(cat, r) \subseteq Nat \ {0} /\ Range(cat.pg_attribute[r]) \subseteq Column
    BY <2>2 DEF ColumnTypes, IsAttributes, Attnums
  <2>8. QED
    BY <2>2, <2>4, <2>5, <2>6, <2>7 DEF TypeOK, ColumnTypes, ConstraintRows, IsConstraint
<1>2. QED
  BY <1>1, IInvHolds, PTL

\* The name indexes and the rows of pg_class and pg_namespace never part: each
\* rename, move, drop and re-creation updates both sides.
THEOREM NamesStayInSync == NamesKnown /\ Spec => []NamesInSync
<1>1. IInv => NamesInSync
  BY DEF IInv, Inv, Base, NamespacesPaired, ClassesPaired, ClassRows, IsClassRow, NamesInSync, Range
<1>2. QED
  BY <1>1, IInvHolds, PTL

\* No constraint and no index outlives the table or a column that it mentions,
\* and pg_index has a row for each index and for nothing else.
THEOREM RowsStayResolved == NamesKnown /\ TablesKnown /\ Spec => []RowsResolve
<1>1. SUFFICES ASSUME NamesKnown, TablesKnown PROVE Spec => []RowsResolve
  OBVIOUS
<1>2. IInv => RowsResolve
  <2>1. SUFFICES ASSUME IInv PROVE RowsResolve
    OBVIOUS
  <2>2. ConstraintRows(cat) /\ ConstraintsResolve(cat) /\ IndexesResolve(cat)
    BY <1>1, <2>1 DEF IInv, Inv, Base, TablesWhole
  <2>3. \A k \in cat.pg_constraint :
           /\ k.conkey \subseteq Attnums(cat, k.conrelid) /\ k.conrelid \in DOMAIN cat.pg_class
           /\ k.contype = "f" => /\ k.confrelid \in DOMAIN cat.pg_class
                                 /\ k.confkey \subseteq Attnums(cat, k.confrelid)
    BY <2>2 DEF ConstraintRows, IsConstraint, ConstraintsResolve
  <2>4. QED
    BY <2>2, <2>3 DEF IndexesResolve, IsIndex, RowsResolve
<1>3. QED
  BY <1>1, <1>2, IInvHolds, PTL

\* The index that DROP CONSTRAINT and RENAME CONSTRAINT find by the name of a key
\* is the index of that key.
THEOREM KeysStayIndexed == NamesKnown /\ TablesKnown /\ Spec => []KeysIndexed
<1>1. SUFFICES ASSUME NamesKnown, TablesKnown PROVE Spec => []KeysIndexed
  OBVIOUS
<1>2. IInv => KeysIndexed
  <2>1. SUFFICES ASSUME IInv, NEW k \in cat.pg_constraint, k.contype \in Key
                 PROVE  \E i \in backing_index(cat, k) : /\ cat.pg_index[i].indrelid = k.conrelid
                                                         /\ cat.pg_index[i].indkey = k.conkey
                                                         /\ cat.pg_index[i].indisunique
    BY DEF KeysIndexed
  <2>2. PICK i \in DOMAIN cat.pg_index : Backs(cat, i, k)
    BY <1>1, <2>1 DEF IInv, Inv, TablesWhole, KeysBacked
  <2>3. i \in backing_index(cat, k)
    BY <2>1, <2>2 DEF backing_index, Backs
  <2>4. QED
    BY <2>2, <2>3 DEF Backs
<1>3. QED
  BY <1>1, <1>2, IInvHolds, PTL

\* No statement takes away the key that a foreign key references and leaves the
\* foreign key.
THEOREM FksStayCovered == NamesKnown /\ TablesKnown /\ Spec => []FksCovered
<1>1. SUFFICES ASSUME NamesKnown, TablesKnown PROVE Spec => []FksCovered
  OBVIOUS
<1>2. IInv => FksCovered
  BY <1>1 DEF IInv, Inv, TablesWhole, FksReferToKeys, Covered, FksCovered, Fks, Constraints
<1>3. QED
  BY <1>1, <1>2, IInvHolds, PTL

\* A view never outlives a relation or a column that it reads, along any chain of
\* views and through any CASCADE.
THEOREM ViewsStayIntact == NamesKnown /\ ViewsKnown /\ Spec => []ViewsIntact
<1>1. SUFFICES ASSUME NamesKnown, ViewsKnown PROVE Spec => []ViewsIntact
  OBVIOUS
<1>2. IInv => ViewsIntact
  BY <1>1 DEF IInv, Inv, ViewsWhole, IsView, IsRule, ViewsIntact
<1>3. QED
  BY <1>1, <1>2, IInvHolds, PTL

-----------------------------------------------------------------------------
(* What a statement takes: most drop no view at all, and for the four that do, *)
(* pg_depend tells the truth about what a view reads (Deps) and the closure of *)
(* drop_views holds nothing that was not reached (TransitiveViews).            *)

CascadeStep ==
    \A v \in DOMAIN cat.pg_rewrite \ DOMAIN cat'.pg_rewrite :
       \/ Bereaved(v, cat')
       \/ cat.pg_class[v].relnamespace \notin DOMAIN cat'.pg_namespace
       \/ /\ \A x \in (DOMAIN cat.pg_class \ DOMAIN cat'.pg_class) \ {v} :
                Kind(cat, x) = "index" \/ (x \in DOMAIN cat.pg_rewrite /\ Bereaved(x, cat'))
          /\ \A r \in DOMAIN cat.pg_attribute \cap DOMAIN cat'.pg_attribute :
                cat.pg_attribute[r] = cat'.pg_attribute[r]

LEMMA NoViewDropped ==
    ASSUME DOMAIN cat.pg_rewrite \subseteq DOMAIN cat'.pg_rewrite
    PROVE  CascadeStep
BY DEF CascadeStep

LEMMA DependentReads ==
    ASSUME NEW c, Deps(c), NEW r, NEW v \in find_dependent_views(c, r)
    PROVE  v \in DOMAIN c.pg_rewrite /\ r \in c.pg_rewrite[v].rels
BY DEF Deps, Reads, find_dependent_views, IsView

LEMMA DropSchemaCascade ==
    ASSUME IInv, NEW s, NEW cascade, DropSchema(s, cascade)
    PROVE  CascadeStep
<1> DEFINE ns     == cat.namespace_by_name[s]
           inside == {r \in DOMAIN cat.pg_class : cat.pg_class[r].relnamespace = ns}
           T      == transitive_views(cat, inside)
           d      == drop_relation_by_oid(cat, T)
<1>1. cat' = remove_pg_namespace(d, ns)
  BY LeavesFacts DEF DropSchema, drop_views
<1>2. Base(cat) /\ Deps(cat)
  BY DEF IInv, Inv
<1>3. \A v \in T \ inside : \E r \in T : v \in find_dependent_views(cat, r)
  BY TransitiveViews
<1> HIDE DEF T
<1>4. /\ IsCatalog(d) /\ DOMAIN d.pg_class \subseteq DOMAIN cat.pg_class \ T
      /\ \A v \in DOMAIN cat.pg_rewrite : v \in DOMAIN d.pg_rewrite \/ v \in T
  BY <1>2, DropRelations, DropRelationsKeep DEF Base
<1> HIDE DEF d
<1>5. /\ cat'.pg_class = d.pg_class /\ cat'.pg_rewrite = d.pg_rewrite
      /\ DOMAIN cat'.pg_namespace = DOMAIN d.pg_namespace \ {ns}
  BY <1>1, <1>4 DEF remove_pg_namespace, IsCatalog, Fields, Without
<1>6. SUFFICES ASSUME NEW v \in DOMAIN cat.pg_rewrite \ DOMAIN cat'.pg_rewrite
               PROVE  \/ Bereaved(v, cat')
                      \/ cat.pg_class[v].relnamespace \notin DOMAIN cat'.pg_namespace
  BY DEF CascadeStep
<1>7. v \in T
  BY <1>4, <1>5, <1>6
<1>8. CASE v \in inside
  BY <1>5, <1>8
<1>9. CASE v \notin inside
  <2>1. PICK r \in T : v \in find_dependent_views(cat, r)
    BY <1>3, <1>7, <1>9
  <2>2. r \in cat.pg_rewrite[v].rels
    BY <1>2, <2>1, DependentReads
  <2>3. QED
    BY <1>4, <1>5, <2>1, <2>2 DEF Bereaved
<1>10. QED
  BY <1>8, <1>9

LEMMA ReplaceViewCascade ==
    ASSUME IInv, NEW v \in Named(cat, {"view"}), NEW q, ReplaceView(v, q)
    PROVE  CascadeStep
<1> DEFINE c   == drop_relation_by_oid(cat, {v})
           row == cat.pg_class[v]
           new == [relname |-> row.relname, relnamespace |-> row.relnamespace, relkind |-> "view"]
<1>1. Base(cat) /\ v \in DOMAIN cat.pg_class
  BY NamedFacts DEF IInv, Inv
<1>2. cat' = install_relation(c, row.relnamespace, row.relname, "view", q)
  BY LeavesFacts DEF ReplaceView
<1>3. Base(c)
  BY <1>1, DropRelations
<1>4. /\ c.next_oid = cat.next_oid
      /\ \A r \in DOMAIN c.pg_attribute : c.pg_attribute[r] = cat.pg_attribute[r]
      /\ \A x \in DOMAIN cat.pg_rewrite : x \in DOMAIN c.pg_rewrite \/ x = v
      /\ \A r \in DOMAIN cat.pg_class \ DOMAIN c.pg_class : r = v \/ Kind(cat, r) = "index"
  BY <1>1, DropRelationsKeep
<1> HIDE DEF c, row
<1>5. \E attrs, rule, deps : NewRelation(c, new, attrs, rule, deps, cat')
  BY <1>2, <1>3, InstallRelationEffect DEF Base
<1>6. /\ DOMAIN cat'.pg_class = DOMAIN c.pg_class \cup {c.next_oid}
      /\ DOMAIN c.pg_rewrite \subseteq DOMAIN cat'.pg_rewrite
      /\ DOMAIN cat'.pg_attribute = DOMAIN c.pg_attribute \cup {c.next_oid}
      /\ \A r \in DOMAIN c.pg_attribute \ {c.next_oid} : cat'.pg_attribute[r] = c.pg_attribute[r]
  BY <1>5 DEF NewRelation, NewClass, More, Queried
<1>7. cat.next_oid \notin DOMAIN cat.pg_attribute
  BY <1>1 DEF Base, Fresh
<1>8. QED
  BY <1>4, <1>6, <1>7 DEF CascadeStep

LEMMA DropRelationCascade ==
    ASSUME IInv, NEW r \in Named(cat, Readable), NEW cascade, DropRelation(r, cascade)
    PROVE  CascadeStep
<1> DEFINE views == find_dependent_views(cat, r)
           T     == transitive_views(cat, views)
           c     == drop_relation_by_oid(cat, T)
           K     == FksOn(cat, r)
           freed == [c EXCEPT !.pg_constraint = @ \ K]
<1>1. Base(cat) /\ Deps(cat) /\ r \in DOMAIN cat.pg_class
  BY NamedFacts DEF IInv, Inv
<1>2. cat' = drop_relation_by_oid(freed, {r})
  BY LeavesFacts DEF DropRelation, drop_views
<1>3. \A v \in T \ views : \E x \in T : v \in find_dependent_views(cat, x)
  BY TransitiveViews
<1>4. /\ \A v \in T \ views : IsView(cat, v)
      /\ \A v \in views : IsView(cat, v)
  BY TransitiveViews DEF find_dependent_views
<1> HIDE DEF T, views, K
<1>5. /\ Base(c) /\ DOMAIN c.pg_class \subseteq DOMAIN cat.pg_class \ T
      /\ \A x \in DOMAIN c.pg_class : c.pg_class[x] = cat.pg_class[x]
      /\ \A x \in DOMAIN cat.pg_rewrite : x \in DOMAIN c.pg_rewrite \/ x \in T
      /\ \A x \in DOMAIN cat.pg_class \ DOMAIN c.pg_class : x \in T \/ Kind(cat, x) = "index"
      /\ \A x \in DOMAIN c.pg_attribute : c.pg_attribute[x] = cat.pg_attribute[x]
  BY <1>1, DropRelations, DropRelationsKeep
<1> HIDE DEF c
<1>6. Removal(c, {}, {}, K, freed)
  BY <1>5, DropConstraintsEffect DEF Base
<1>7. /\ Base(freed)
      /\ DOMAIN freed.pg_class = DOMAIN c.pg_class
      /\ \A x \in DOMAIN c.pg_class : freed.pg_class[x] = c.pg_class[x]
      /\ DOMAIN freed.pg_rewrite = DOMAIN c.pg_rewrite
      /\ \A x \in DOMAIN freed.pg_attribute : x \in DOMAIN c.pg_attribute /\ freed.pg_attribute[x] = c.pg_attribute[x]
  <2>1. {} \in SUBSET {} /\ \A k \in c.pg_constraint : k.conrelid \in {} => k \in K
    OBVIOUS
  <2>2. Base(freed)
    BY <1>5, <1>6, <2>1, RemovalBase
  <2>3. QED
    BY <1>6, <2>2 DEF Removal, Less
<1> HIDE DEF freed
<1>8. /\ DOMAIN cat'.pg_class \subseteq DOMAIN freed.pg_class \ {r}
      /\ \A x \in DOMAIN freed.pg_rewrite : x \in DOMAIN cat'.pg_rewrite \/ x = r
      /\ \A x \in DOMAIN freed.pg_class \ DOMAIN cat'.pg_class : x = r \/ Kind(freed, x) = "index"
      /\ \A x \in DOMAIN cat'.pg_attribute : x \in DOMAIN freed.pg_attribute
                                             /\ cat'.pg_attribute[x] = freed.pg_attribute[x]
  BY <1>2, <1>7, DropRelationsKeep
<1>9. ASSUME NEW v \in T PROVE v \in DOMAIN cat.pg_rewrite /\ Bereaved(v, cat')
  <2>1. PICK x \in T \cup {r} : v \in find_dependent_views(cat, x)
    BY <1>3, <1>9 DEF views
  <2>2. v \in DOMAIN cat.pg_rewrite /\ x \in cat.pg_rewrite[v].rels
    BY <1>1, <2>1, DependentReads
  <2>3. x \notin DOMAIN cat'.pg_class
    BY <1>5, <1>7, <1>8
  <2>4. QED
    BY <2>2, <2>3 DEF Bereaved
<1>10. \A x \in DOMAIN cat.pg_class \ DOMAIN cat'.pg_class : x = r \/ x \in T \/ Kind(cat, x) = "index"
  BY <1>5, <1>7, <1>8 DEF Kind
<1>11. \A x \in DOMAIN cat'.pg_attribute : cat'.pg_attribute[x] = cat.pg_attribute[x]
  BY <1>5, <1>7, <1>8
<1>12. \A v \in DOMAIN cat.pg_rewrite \ DOMAIN cat'.pg_rewrite : v \in T \/ v = r
  BY <1>5, <1>7, <1>8
<1>13. QED
  BY <1>9, <1>10, <1>11, <1>12 DEF CascadeStep

LEMMA DropColumnCascade ==
    ASSUME IInv, NEW r, NEW a \in Attnums(cat, r), NEW cascade, DropColumn(r, a, cascade)
    PROVE  CascadeStep
<1> DEFINE views    == find_views_depending_on_column(cat, r, a)
           local    == {k \in Constraints(cat, r) : a \in k.conkey}
           blockers == {k \in FksOn(cat, r) : a \in k.confkey /\ k.conrelid # r}
           K        == local \cup blockers
           indexes  == {i \in IndexesOn(cat, r) : a \in cat.pg_index[i].indkey}
           freed    == DropKeys(cat, indexes, K)
           T        == transitive_views(freed, views)
           c        == drop_relation_by_oid(freed, T)
           attrs    == Without(c.pg_attribute[r], {a})
<1>1. Base(cat) /\ Deps(cat)
  BY DEF IInv, Inv
<1>2. cat' = [c EXCEPT !.pg_attribute[r] = attrs]
  BY LeavesFacts DEF DropColumn, drop_column, drop_views, DropKeys
<1>3. indexes \subseteq DOMAIN cat.pg_index /\ indexes \cap DOMAIN cat.pg_rewrite = {}
  BY <1>1 DEF IndexesOn, Base, OwnKinds
<1>4. \A v \in views : \E e \in cat.pg_depend : e.objid = v /\ e.refobjid = r /\ e.refobjsubid = a
  BY DEF find_views_depending_on_column
<1> HIDE DEF views, K, indexes
<1>5. Removal(cat, indexes, indexes, K, freed)
  BY <1>1, <1>3, DropIndexRowsEffect DEF Base, DropKeys
<1>6. Base(freed)
  <2>1. \A k \in cat.pg_constraint : k.conrelid \notin indexes
    BY <1>1, <1>3 DEF Base, ConstraintRows, IsConstraint, OwnKinds, Holder
  <2>2. QED
    BY <1>1, <1>5, <2>1, RemovalBase
<1> HIDE DEF freed
<1>7. \A v \in T \ views : \E x \in T : v \in find_dependent_views(freed, x)
  BY TransitiveViews
<1>8. \A x : find_dependent_views(freed, x) \subseteq find_dependent_views(cat, x)
  <2>1. freed.pg_depend \subseteq cat.pg_depend /\ \A v : IsView(freed, v) => IsView(cat, v)
    BY <1>5 DEF Removal, Less, IsView, Kind
  <2>2. QED
    BY <2>1 DEF find_dependent_views
<1> HIDE DEF T
<1>9. /\ IsCatalog(c) /\ DOMAIN c.pg_class \cap T = {}
      /\ \A x \in DOMAIN freed.pg_rewrite : x \in DOMAIN c.pg_rewrite \/ x \in T
  BY <1>6, DropRelations, DropRelationsKeep DEF Base
<1> HIDE DEF c
<1>10. attrs = Without(c.pg_attribute[r], {a})
  OBVIOUS
<1> HIDE DEF attrs
<1>11. SetColumns(c, r, attrs, cat')
  BY <1>2, <1>9, SetColumnsEffect
<1>12. /\ cat'.pg_class = c.pg_class /\ cat'.pg_rewrite = c.pg_rewrite
       /\ a \notin Attnums(cat', r)
  BY <1>10, <1>11 DEF SetColumns, SameClasses, Attnums, Without
<1>13. SUFFICES ASSUME NEW v \in DOMAIN cat.pg_rewrite \ DOMAIN cat'.pg_rewrite
                PROVE  Bereaved(v, cat')
  BY DEF CascadeStep
<1>14. v \in T
  BY <1>3, <1>5, <1>9, <1>12, <1>13 DEF Removal, Less
<1>15. CASE v \in views
  <2>1. PICK e \in cat.pg_depend : e.objid = v /\ e.refobjid = r /\ e.refobjsubid = a
    BY <1>4, <1>15
  <2>2. a # 0
    BY <1>1 DEF Base, ColumnTypes, IsAttributes, Attnums
  <2>3. <<r, a>> \in cat.pg_rewrite[v].cols
    BY <1>1, <1>13, <2>1, <2>2 DEF Deps, Reads
  <2>4. QED
    BY <1>12, <2>3 DEF Bereaved
<1>16. CASE v \notin views
  <2>1. PICK x \in T : v \in find_dependent_views(cat, x)
    BY <1>7, <1>8, <1>14, <1>16
  <2>2. x \in cat.pg_rewrite[v].rels
    BY <1>1, <2>1, DependentReads
  <2>3. QED
    BY <1>9, <1>12, <2>1, <2>2 DEF Bereaved
<1>17. QED
  BY <1>15, <1>16

\* No rule goes from c to d.
KeepsRules(c, d) == IsCatalog(d) /\ DOMAIN c.pg_rewrite \subseteq DOMAIN d.pg_rewrite

LEMMA EnsureKeepsRules ==
    ASSUME NEW c, IsCatalog(c), NEW s, NEW d, d = ensure_namespace(c, s)
    PROVE  KeepsRules(c, d)
BY DEF ensure_namespace, insert_pg_namespace, alloc_oid, IsCatalog, Fields, KeepsRules

LEMMA EmitKeepsRules ==
    ASSUME NEW c, IsCatalog(c), NEW con, con.contype \in Key \cup {"f"},
           NEW d, d = emit_constraint_with_backing_index(c, con)
    PROVE  KeepsRules(c, d)
<1>1. CASE con.contype \in Key
  <2>1. \E row, index : NewIndex(c, row, index, {con}, d)
    BY <1>1, EmitKeyEffect
  <2>2. QED
    BY <2>1 DEF NewIndex, NewClass, KeepsRules
<1>2. CASE con.contype = "f"
  BY <1>2, EmitForeignKeyEffect DEF KeepsRules
<1>3. QED
  BY <1>1, <1>2

LEMMA InstallKeepsRules ==
    ASSUME NEW c, IsCatalog(c), NEW ns, NEW name, NEW kind, NEW q,
           NEW d, d = install_relation(c, ns, name, kind, q)
    PROVE  KeepsRules(c, d)
<1>1. \E row, attrs, rule, deps : NewRelation(c, row, attrs, rule, deps, d)
  BY InstallRelationEffect
<1>2. QED
  BY <1>1 DEF NewRelation, NewClass, More, KeepsRules

LEMMA DropKeysKeepsRules ==
    ASSUME NEW c, Base(c), NEW I \in SUBSET DOMAIN c.pg_index, NEW K, NEW d, d = DropKeys(c, I, K)
    PROVE  KeepsRules(c, d)
<1>1. I \cap DOMAIN c.pg_rewrite = {} /\ IsCatalog(c)
  BY DEF Base, OwnKinds
<1>2. Removal(c, I, I, K, d)
  BY <1>1, DropIndexRowsEffect DEF DropKeys
<1>3. QED
  BY <1>1, <1>2 DEF Removal, Less, KeepsRules

LEMMA CreateTableKeepsRules ==
    ASSUME IInv, NEW s, NEW n, NEW cols, NEW pk, NEW fk, NEW target,
           CreateTable(s, n, cols, pk, fk, target)
    PROVE  CascadeStep
<1> DEFINE c     == ensure_namespace(cat, s)
           ns    == c.namespace_by_name[s]
           built == Built(c, Given(n), ns, cols)
           r     == c.next_oid
           keyed == Keyed(built, r, pk)
           key   == KeyOf(built, r, fk)
<1>1. IsCatalog(cat)
  BY DEF IInv, Inv, Base
<1>2. KeepsRules(cat, c)
  BY <1>1, EnsureKeepsRules
<1>3. TableMade(c, ns, n, cols, pk, fk, target)
  BY CreateTableSteps
<1> HIDE DEF c, ns
<1>4. \/ Leaves(keyed)
      \/ \E confkey : Leaves(emit_constraint_with_backing_index(keyed, FkRow(keyed, r, key, target, confkey)))
  BY <1>3 DEF TableMade
<1>5. KeepsRules(c, built)
  <2>1. \E row, rule, deps : NewRelation(c, row, cols, rule, deps, built)
    BY <1>2, BuiltEffect DEF KeepsRules
  <2>2. QED
    BY <2>1 DEF KeepsRules, NewRelation, NewClass, More
<1> HIDE DEF built, r, key
<1>6. KeepsRules(built, keyed)
  <2>1. CASE pk = {}
    BY <1>5, <2>1 DEF Keyed, KeepsRules
  <2>2. CASE pk # {}
    <3> DEFINE con == KeyRow(built, r, KeyOf(built, r, pk), "p")
    <3>1. con.contype \in Key
      BY KeyRowFacts DEF Key
    <3>2. keyed = emit_constraint_with_backing_index(built, con)
      BY <2>2 DEF Keyed
    <3> HIDE DEF con
    <3>3. QED
      BY <1>5, <3>1, <3>2, EmitKeepsRules DEF KeepsRules
  <2>3. QED
    BY <2>1, <2>2
<1> HIDE DEF keyed
<1>7. ASSUME NEW confkey, NEW d,
             d = emit_constraint_with_backing_index(keyed, FkRow(keyed, r, key, target, confkey))
      PROVE  KeepsRules(keyed, d)
  <2> DEFINE con == FkRow(keyed, r, key, target, confkey)
  <2>1. con.contype = "f"
    BY FkRowFacts
  <2>2. d = emit_constraint_with_backing_index(keyed, con)
    BY <1>7
  <2> HIDE DEF con
  <2>3. QED
    BY <1>6, <2>1, <2>2, EmitKeepsRules DEF KeepsRules
<1>8. KeepsRules(keyed, cat') \/ cat' = keyed
  BY <1>4, <1>7, LeavesFacts
<1>9. QED
  BY <1>2, <1>5, <1>6, <1>8, NoViewDropped DEF KeepsRules

LEMMA SchemaCascade ==
    ASSUME IInv, SchemaStatement
    PROVE  CascadeStep
<1>1. IsCatalog(cat)
  BY DEF IInv, Inv, Base
<1>2. ASSUME NEW s \in Schema, CreateSchema(s) PROVE CascadeStep
  BY <1>1, <1>2, LeavesFacts, EnsureKeepsRules, NoViewDropped DEF CreateSchema, KeepsRules
<1>3. ASSUME NEW s, NEW new, RenameSchema(s, new) PROVE CascadeStep
  <2>1. cat' = rename_pg_namespace(cat, cat.namespace_by_name[s], new)
    BY <1>3, LeavesFacts DEF RenameSchema
  <2>2. cat'.pg_rewrite = cat.pg_rewrite
    BY <1>1, <2>1 DEF rename_pg_namespace, IsCatalog, Fields
  <2>3. QED
    BY <2>2, NoViewDropped
<1>4. QED
  BY <1>2, <1>3, DropSchemaCascade DEF SchemaStatement

LEMMA TableCascade ==
    ASSUME IInv, TableStatement
    PROVE  CascadeStep
<1>1. IsCatalog(cat)
  BY DEF IInv, Inv, Base
<1>2. ASSUME NEW r, NEW attrs, cat' = [cat EXCEPT !.pg_attribute[r] = attrs] PROVE CascadeStep
  BY <1>1, <1>2, SetColumnsEffect, NoViewDropped DEF SetColumns
<1>3. ASSUME NEW r, NEW col, AddColumn(r, col) PROVE CascadeStep
  BY <1>2, <1>3, LeavesFacts DEF AddColumn
<1>4. ASSUME NEW r, NEW a, NEW new, RenameColumn(r, a, new) PROVE CascadeStep
  <2>1. cat' = [cat EXCEPT !.pg_attribute[r] = [cat.pg_attribute[r] EXCEPT ![a] = new]]
    BY <1>4, LeavesFacts DEF RenameColumn
  <2>2. QED
    BY <1>2, <2>1
<1>5. ASSUME NEW s, NEW n, NEW cols, NEW pk, NEW fk, NEW target, CreateTable(s, n, cols, pk, fk, target)
      PROVE  CascadeStep
  BY <1>5, CreateTableKeepsRules
<1>6. QED
  BY <1>3, <1>4, <1>5, DropColumnCascade DEF TableStatement

LEMMA ConstraintCascade ==
    ASSUME IInv, ConstraintStatement
    PROVE  CascadeStep
<1>1. Base(cat) /\ IsCatalog(cat)
  BY DEF IInv, Inv, Base
<1>2. ASSUME NEW con, con.contype \in Key \cup {"f"}, cat' = emit_constraint_with_backing_index(cat, con)
      PROVE  CascadeStep
  BY <1>1, <1>2, EmitKeepsRules, NoViewDropped DEF KeepsRules
<1>3. ASSUME NEW r, NEW key, NEW contype \in Key, AddKey(r, key, contype) PROVE CascadeStep
  <2> DEFINE con == KeyRow(cat, r, key, contype)
  <2>1. con.contype = contype /\ cat' = emit_constraint_with_backing_index(cat, con)
    BY <1>3, KeyRowFacts, LeavesFacts DEF AddKey
  <2> HIDE DEF con
  <2>2. QED
    BY <1>2, <2>1
<1>4. ASSUME NEW r, NEW key, NEW target, NEW confkey, AddForeignKey(r, key, target, confkey)
      PROVE  CascadeStep
  <2> DEFINE con == FkRow(cat, r, key, target, confkey)
  <2>1. con.contype = "f" /\ cat' = emit_constraint_with_backing_index(cat, con)
    BY <1>4, FkRowFacts, LeavesFacts DEF AddForeignKey
  <2> HIDE DEF con
  <2>2. QED
    BY <1>2, <2>1
<1>5. ASSUME NEW r, NEW key, NEW unique \in BOOLEAN, NEW n, CreateIndex(r, key, unique, n)
      PROVE  CascadeStep
  <2> DEFINE ns    == cat.pg_class[r].relnamespace
             index == [indrelid |-> r, indkey |-> key, indisunique |-> unique, indisprimary |-> FALSE]
             idx   == insert_index(cat, ns, Given(n), index)
             con   == [KeyRow(cat, r, key, "u") EXCEPT !.conname = Given(n)]
  <2>1. cat' = IF unique THEN [idx EXCEPT !.pg_constraint = @ \cup {con}] ELSE idx
    BY <1>5, LeavesFacts DEF CreateIndex
  <2> HIDE DEF con, index, ns
  <2>2. cat'.pg_rewrite = cat.pg_rewrite
    <3>1. CASE unique
      <4>1. \E row : NewIndex(cat, row, index, {con}, cat')
        BY <1>1, <2>1, <3>1, UniqueIndexEffect
      <4>2. QED
        BY <4>1 DEF NewIndex
    <3>2. CASE ~unique
      <4>1. \E row : NewIndex(cat, row, index, {}, cat')
        BY <1>1, <2>1, <3>2, InsertIndexEffect
      <4>2. QED
        BY <4>1 DEF NewIndex
    <3>3. QED
      BY <3>1, <3>2
  <2>3. QED
    BY <2>2, NoViewDropped
<1>6. ASSUME NEW I \in SUBSET DOMAIN cat.pg_index, NEW K, cat' = DropKeys(cat, I, K)
      PROVE  CascadeStep
  BY <1>1, <1>6, DropKeysKeepsRules, NoViewDropped DEF KeepsRules
<1>7. ASSUME NEW con \in cat.pg_constraint, NEW cascade, DropConstraint(con, cascade)
      PROVE  CascadeStep
  <2>1. cat' = DropKeys(cat, backing_index(cat, con), {con})
    BY <1>7, LeavesFacts DEF DropConstraint, DropKeys
  <2>2. backing_index(cat, con) \in SUBSET DOMAIN cat.pg_index
    BY DEF backing_index
  <2>3. QED
    BY <1>6, <2>1, <2>2
<1>8. ASSUME NEW con \in cat.pg_constraint, NEW n, RenameConstraint(con, n) PROVE CascadeStep
  BY <1>1, <1>8, LeavesFacts, RenameConstraintFacts, NoViewDropped DEF RenameConstraint
<1>9. ASSUME NEW i \in Named(cat, {"index"}), DropIndex(i) PROVE CascadeStep
  <2> DEFINE K == {k \in cat.pg_constraint : k.contype = "u" /\ k.conname = cat.pg_class[i].relname}
  <2>1. cat' = DropKeys(cat, {i}, K)
    BY <1>9, LeavesFacts DEF DropIndex, DropKeys
  <2>2. {i} \in SUBSET DOMAIN cat.pg_index
    BY <1>1, NamedFacts DEF Base, OwnKinds
  <2>3. QED
    BY <1>6, <2>1, <2>2
<1>10. QED
  BY <1>3, <1>4, <1>5, <1>7, <1>8, <1>9 DEF ConstraintStatement

LEMMA RelationCascade ==
    ASSUME IInv, RelationStatement
    PROVE  CascadeStep
<1>1. Base(cat) /\ IsCatalog(cat)
  BY DEF IInv, Inv, Base
<1>2. ASSUME NEW s, NEW name, NEW kind, NEW q,
             LET c == ensure_namespace(cat, s)
             IN  cat' = install_relation(c, c.namespace_by_name[s], name, kind, q)
      PROVE  CascadeStep
  <2> DEFINE c  == ensure_namespace(cat, s)
             ns == c.namespace_by_name[s]
  <2>1. KeepsRules(cat, c)
    BY <1>1, EnsureKeepsRules
  <2>2. cat' = install_relation(c, ns, name, kind, q)
    BY <1>2
  <2> HIDE DEF c, ns
  <2>3. KeepsRules(c, cat')
    BY <2>1, <2>2, InstallKeepsRules DEF KeepsRules
  <2>4. QED
    BY <2>1, <2>3, NoViewDropped DEF KeepsRules
<1>3. ASSUME NEW s, NEW n, NEW q, CreateView(s, n, q) PROVE CascadeStep
  BY <1>2, <1>3, LeavesFacts DEF CreateView
<1>4. ASSUME NEW s, NEW n, NEW kind, NEW q, CreateTableAs(s, n, kind, q) PROVE CascadeStep
  BY <1>2, <1>4, LeavesFacts DEF CreateTableAs
<1>5. ASSUME NEW c, KeepsRules(cat, c), NEW r, NEW name, NEW ns, cat' = rename_pg_class(c, r, name, ns)
      PROVE  CascadeStep
  <2>1. cat'.pg_rewrite = c.pg_rewrite
    BY <1>5 DEF rename_pg_class, KeepsRules, IsCatalog, Fields
  <2>2. QED
    BY <1>5, <2>1, NoViewDropped DEF KeepsRules
<1>6. ASSUME NEW r, NEW n, RenameRelation(r, n) PROVE CascadeStep
  <2>1. KeepsRules(cat, cat)
    BY <1>1 DEF KeepsRules
  <2>2. QED
    BY <1>5, <1>6, <2>1, LeavesFacts DEF RenameRelation
<1>7. ASSUME NEW r, NEW s, SetSchema(r, s) PROVE CascadeStep
  BY <1>1, <1>5, <1>7, EnsureKeepsRules, LeavesFacts DEF SetSchema
<1>8. QED
  BY <1>3, <1>4, <1>6, <1>7, ReplaceViewCascade, DropRelationCascade DEF RelationStatement

\* A statement drops a view only if the view lost a relation or a column that it
\* read, or its schema, or the statement named it; and a dropped view that was
\* named takes its readers and indexes, nothing else.
THEOREM CascadesTakeDependents == NamesKnown /\ Spec => CascadeOnlyDependents
<1>1. SUFFICES ASSUME NamesKnown PROVE Spec => CascadeOnlyDependents
  OBVIOUS
<1>2. IInv /\ [Next]_cat => [CascadeStep]_cat
  BY SchemaCascade, TableCascade, ConstraintCascade, RelationCascade DEF Next
<1>3. QED
  BY <1>1, <1>2, IInvHolds, PTL DEF Spec, CascadeOnlyDependents, CascadeStep
=============================================================================
