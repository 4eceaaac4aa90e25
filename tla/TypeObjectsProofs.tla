------------------------- MODULE TypeObjectsProofs -------------------------
(***************************************************************************)
(* What the helpers of TypeObjects do to the ties between rows: the index  *)
(* by name, a type and its array, a relation and its row type, and the     *)
(* types that extensions own.                                              *)
(*                                                                         *)
(* Base gathers the ties.  Each section takes one helper (define, a        *)
(* rename, a drop, a script, the tags of an extension), says in a named    *)
(* operator which rows of its result are new, renamed or gone, and proves  *)
(* that such a result keeps Base.  A helper that recurses, or a closure,   *)
(* is reached by a fixed point or by the least counterexample.             *)
(* TypeObjectsTheorems builds the statements and the theorems on this.     *)
(***************************************************************************)
EXTENDS TypeObjects, WellFoundedInduction, TLAPS

-----------------------------------------------------------------------------
(* Catalogs as values: c before, d after.                                   *)

Fields == {"pg_namespace", "pg_type", "type_by_qname", "pg_enum", "pg_range", "pg_class",
           "class_by_qname", "pg_attribute", "pg_rewrite", "pg_cast", "cast_by_pair",
           "pg_operator", "pg_depend", "pg_extension", "next_oid"}

IsCatalog(c) == DOMAIN c = Fields

IsTypeRow(row) ==
    DOMAIN row = {"typname", "typnamespace", "typtype", "typrelid", "typelem", "typarray", "typbasetype"}

IsClassRow(row) == DOMAIN row = {"relname", "relnamespace", "relkind", "reltype"}

IsExtensionRow(row) == DOMAIN row = {"oid", "schema", "version"}

\* g is f without the keys of S.
Less(f, S, g) == DOMAIN g = DOMAIN f \ S /\ \A x \in DOMAIN g : g[x] = f[x]

-----------------------------------------------------------------------------
(* The ties between types, their names, arrays and relations.               *)

\* The index by name finds each type, and nothing else.
NamesTied(c) ==
    /\ \A q \in DOMAIN c.type_by_qname :
          c.type_by_qname[q] \in DOMAIN c.pg_type /\ TypeName(c, c.type_by_qname[q]) = q
    /\ \A t \in DOMAIN c.pg_type :
          TypeName(c, t) \in DOMAIN c.type_by_qname /\ c.type_by_qname[TypeName(c, t)] = t

\* t has the array a.
HasArray(c, t, a) ==
    /\ a \in DOMAIN c.pg_type
    /\ c.pg_type[a].typelem = t
    /\ c.pg_type[a].typname = array_name(c.pg_type[t].typname)
    /\ c.pg_type[a].typnamespace = c.pg_type[t].typnamespace

\* Only arrays and pseudo-types have no array.
ArraysTied(c) ==
    \A t \in DOMAIN c.pg_type :
       LET row == c.pg_type[t] IN
       /\ row.typarray # None => HasArray(c, t, row.typarray)
       /\ row.typelem # None => /\ row.typelem \in DOMAIN c.pg_type
                                /\ c.pg_type[row.typelem].typarray = t
                                /\ row.typarray = None /\ row.typrelid = None
       /\ row.typelem = None /\ row.typtype # "pseudo" =>
             row.typarray # None /\ array_name(row.typname) # row.typname

RowTypesTied(c) ==
    /\ \A t \in DOMAIN c.pg_type :
          LET r == c.pg_type[t].typrelid IN
          r # None => /\ r \in DOMAIN c.pg_class
                      /\ c.pg_class[r].reltype = t
                      /\ RelationName(c, r) = TypeName(c, t)
                      /\ c.pg_type[t].typtype = "composite"
    /\ \A r \in DOMAIN c.pg_class :
          LET t == c.pg_class[r].reltype IN
          t # None => t \in DOMAIN c.pg_type /\ c.pg_type[t].typrelid = r

Rows(c) ==
    /\ \A t \in DOMAIN c.pg_type : IsTypeRow(c.pg_type[t]) /\ t # None
    /\ \A r \in DOMAIN c.pg_class : IsClassRow(c.pg_class[r]) /\ r # None

Ties(c) == Rows(c) /\ NamesTied(c) /\ ArraysTied(c) /\ RowTypesTied(c)

SameTypes(c, d)   == d.pg_type = c.pg_type /\ d.type_by_qname = c.type_by_qname
SameClasses(c, d) == d.pg_class = c.pg_class /\ d.class_by_qname = c.class_by_qname

LEMMA SameTies ==
    ASSUME NEW c, Ties(c), NEW d, SameTypes(c, d), SameClasses(c, d)
    PROVE  Ties(d)
<1>1. /\ d.pg_type = c.pg_type /\ d.type_by_qname = c.type_by_qname
      /\ d.pg_class = c.pg_class
  BY DEF SameTypes, SameClasses
<1>2. Rows(d)
  BY <1>1 DEF Ties, Rows
<1>3. NamesTied(d)
  BY <1>1 DEF Ties, NamesTied, TypeName
<1>4. ArraysTied(d)
  BY <1>1 DEF Ties, ArraysTied, HasArray
<1>5. RowTypesTied(d)
  BY <1>1 DEF Ties, RowTypesTied, TypeName, RelationName
<1>6. QED
  BY <1>2, <1>3, <1>4, <1>5 DEF Ties

-----------------------------------------------------------------------------
(* A type is defined: t, its array a, and the relation r it is the row of.  *)

Defined(c, t, a, row, d) ==
    /\ DOMAIN d.pg_type = DOMAIN c.pg_type \cup {t, a}
    /\ \A x \in DOMAIN c.pg_type : d.pg_type[x] = c.pg_type[x]
    /\ d.pg_type[t] = [row EXCEPT !.typarray = a]
    /\ d.pg_type[a] = [TypeRow(row.typnamespace, array_name(row.typname), "base") EXCEPT !.typelem = t]
    /\ DOMAIN d.type_by_qname = DOMAIN c.type_by_qname
          \cup {<<row.typnamespace, row.typname>>, <<row.typnamespace, array_name(row.typname)>>}
    /\ d.type_by_qname[<<row.typnamespace, row.typname>>] = t
    /\ d.type_by_qname[<<row.typnamespace, array_name(row.typname)>>] = a
    /\ \A q \in DOMAIN c.type_by_qname :
          q \notin {<<row.typnamespace, row.typname>>, <<row.typnamespace, array_name(row.typname)>>}
              => d.type_by_qname[q] = c.type_by_qname[q]

\* The relation of the row type is new, or there is none.
Backed(c, t, row, d) ==
    IF row.typrelid = None THEN SameClasses(c, d)
    ELSE /\ row.typrelid \notin DOMAIN c.pg_class
         /\ DOMAIN d.pg_class = DOMAIN c.pg_class \cup {row.typrelid}
         /\ \A x \in DOMAIN c.pg_class : d.pg_class[x] = c.pg_class[x]
         /\ IsClassRow(d.pg_class[row.typrelid])
         /\ d.pg_class[row.typrelid].reltype = t
         /\ RelationName(d, row.typrelid) = <<row.typnamespace, row.typname>>

LEMMA DefinedTies ==
    ASSUME NEW c, Ties(c), NEW t, NEW a, NEW row, NEW d, Defined(c, t, a, row, d), Backed(c, t, row, d),
           IsTypeRow(row), row.typelem = None, t # None, a # None, t # a,
           row.typrelid # None => row.typtype = "composite",
           t \notin DOMAIN c.pg_type, a \notin DOMAIN c.pg_type,
           array_name(row.typname) # row.typname,
           TypeFree(c, row.typnamespace, row.typname),
           TypeFree(c, row.typnamespace, array_name(row.typname))
    PROVE  Ties(d)
<1> DEFINE ns == row.typnamespace
           q1 == <<ns, row.typname>>
           q2 == <<ns, array_name(row.typname)>>
<1>1. /\ DOMAIN d.pg_type = DOMAIN c.pg_type \cup {t, a}
      /\ \A x \in DOMAIN c.pg_type : d.pg_type[x] = c.pg_type[x]
  BY DEF Defined
<1>2. /\ IsTypeRow(d.pg_type[t])
      /\ d.pg_type[t].typname = row.typname /\ d.pg_type[t].typnamespace = ns
      /\ d.pg_type[t].typrelid = row.typrelid /\ d.pg_type[t].typelem = None
      /\ d.pg_type[t].typarray = a /\ d.pg_type[t].typtype = row.typtype
  BY DEF Defined, IsTypeRow
<1>3. /\ IsTypeRow(d.pg_type[a])
      /\ d.pg_type[a].typname = array_name(row.typname) /\ d.pg_type[a].typnamespace = ns
      /\ d.pg_type[a].typrelid = None /\ d.pg_type[a].typelem = t
      /\ d.pg_type[a].typarray = None
  BY DEF Defined, IsTypeRow, TypeRow
<1>4. /\ TypeName(d, t) = q1 /\ TypeName(d, a) = q2 /\ q1 # q2
      /\ \A x \in DOMAIN c.pg_type : TypeName(d, x) = TypeName(c, x)
  BY <1>1, <1>2, <1>3 DEF TypeName
<1>5. /\ DOMAIN d.type_by_qname = DOMAIN c.type_by_qname \cup {q1, q2}
      /\ d.type_by_qname[q1] = t /\ d.type_by_qname[q2] = a
      /\ \A q \in DOMAIN c.type_by_qname : d.type_by_qname[q] = c.type_by_qname[q]
      /\ q1 \notin DOMAIN c.type_by_qname /\ q2 \notin DOMAIN c.type_by_qname
  BY DEF Defined, TypeFree
<1>6. /\ \A x \in DOMAIN c.pg_class :
            x \in DOMAIN d.pg_class /\ d.pg_class[x] = c.pg_class[x] /\ RelationName(d, x) = RelationName(c, x)
      /\ \A x \in DOMAIN d.pg_class : x \in DOMAIN c.pg_class \/ x = row.typrelid
      /\ row.typrelid # None =>
            /\ row.typrelid \in DOMAIN d.pg_class /\ row.typrelid \notin DOMAIN c.pg_class
            /\ IsClassRow(d.pg_class[row.typrelid])
            /\ d.pg_class[row.typrelid].reltype = t
            /\ RelationName(d, row.typrelid) = q1
      /\ row.typrelid = None => DOMAIN d.pg_class = DOMAIN c.pg_class
  BY DEF Backed, SameClasses, RelationName
<1> HIDE DEF ns, q1, q2
<1>7. NamesTied(d)
  <2>1. ASSUME NEW q \in DOMAIN d.type_by_qname
        PROVE  d.type_by_qname[q] \in DOMAIN d.pg_type /\ TypeName(d, d.type_by_qname[q]) = q
    BY <1>1, <1>4, <1>5 DEF Ties, NamesTied
  <2>2. ASSUME NEW x \in DOMAIN d.pg_type
        PROVE  TypeName(d, x) \in DOMAIN d.type_by_qname /\ d.type_by_qname[TypeName(d, x)] = x
    BY <1>1, <1>4, <1>5 DEF Ties, NamesTied
  <2>3. QED
    BY <2>1, <2>2 DEF NamesTied
<1>8. ArraysTied(d)
  BY <1>1, <1>2, <1>3 DEF Ties, ArraysTied, HasArray
<1>9. RowTypesTied(d)
  <2>1. ASSUME NEW x \in DOMAIN d.pg_type, d.pg_type[x].typrelid # None
        PROVE  LET r == d.pg_type[x].typrelid
               IN  /\ r \in DOMAIN d.pg_class /\ d.pg_class[r].reltype = x
                   /\ RelationName(d, r) = TypeName(d, x) /\ d.pg_type[x].typtype = "composite"
    <3>1. CASE x \in DOMAIN c.pg_type
      BY <1>1, <1>4, <1>6, <2>1, <3>1 DEF Ties, RowTypesTied
    <3>2. CASE x \in {t, a}
      BY <1>2, <1>3, <1>4, <1>6, <2>1, <3>2
    <3>3. QED
      BY <1>1, <3>1, <3>2
  <2>2. ASSUME NEW r \in DOMAIN d.pg_class, d.pg_class[r].reltype # None
        PROVE  /\ d.pg_class[r].reltype \in DOMAIN d.pg_type
               /\ d.pg_type[d.pg_class[r].reltype].typrelid = r
    <3>1. CASE r \in DOMAIN c.pg_class
      BY <1>1, <1>6, <2>2, <3>1 DEF Ties, RowTypesTied
    <3>2. CASE r \notin DOMAIN c.pg_class
      BY <1>1, <1>2, <1>6, <3>2
    <3>3. QED
      BY <3>1, <3>2
  <2>3. QED
    BY <2>1, <2>2 DEF RowTypesTied
<1>10. Rows(d)
  BY <1>1, <1>2, <1>3, <1>6 DEF Ties, Rows
<1>11. QED
  BY <1>7, <1>8, <1>9, <1>10 DEF Ties

-----------------------------------------------------------------------------
(* What the helpers of the catalog do.                                      *)

\* Only types, names of types and the counter of OIDs differ.
SameButTypes(c, d) ==
    /\ IsCatalog(d)
    /\ SameClasses(c, d)
    /\ d.pg_namespace = c.pg_namespace /\ d.pg_enum = c.pg_enum /\ d.pg_range = c.pg_range
    /\ d.pg_attribute = c.pg_attribute /\ d.pg_rewrite = c.pg_rewrite
    /\ d.pg_cast = c.pg_cast /\ d.cast_by_pair = c.cast_by_pair /\ d.pg_operator = c.pg_operator
    /\ d.pg_depend = c.pg_depend /\ d.pg_extension = c.pg_extension

LEMMA DefineDefines ==
    ASSUME NEW c, IsCatalog(c), c.next_oid \in Nat, NEW row, IsTypeRow(row),
           c.next_oid \notin DOMAIN c.pg_type, c.next_oid + 1 \notin DOMAIN c.pg_type,
           array_name(row.typname) # row.typname
    PROVE  /\ Defined(c, c.next_oid, c.next_oid + 1, row, define(c, row))
           /\ SameButTypes(c, define(c, row))
           /\ define(c, row).next_oid = c.next_oid + 2
<1> DEFINE t  == c.next_oid
           a  == t + 1
           ns == row.typnamespace
           q1 == <<ns, row.typname>>
           q2 == <<ns, array_name(row.typname)>>
           r2 == [TypeRow(ns, array_name(row.typname), "base") EXCEPT !.typelem = t]
           c1 == insert_pg_type(c, t, row)
           c2 == alloc_oid(c1, 1)
           c3 == insert_pg_type(c2, a, r2)
           c4 == [c3 EXCEPT !.pg_type[t].typarray = a]
           d  == alloc_oid(c4, 1)
<1>1. IsTypeRow(r2) /\ r2.typnamespace = ns /\ r2.typname = array_name(row.typname)
  BY DEF IsTypeRow, TypeRow
<1>2. q1 # q2
  OBVIOUS
<1>3. /\ SameButTypes(c, c1) /\ c1.next_oid = t
      /\ c1.pg_type = With(c.pg_type, t, row) /\ c1.type_by_qname = With(c.type_by_qname, q1, t)
  BY DEF insert_pg_type, IsCatalog, Fields, SameButTypes, SameClasses
<1>4. /\ SameButTypes(c, c2) /\ c2.next_oid = a
      /\ c2.pg_type = c1.pg_type /\ c2.type_by_qname = c1.type_by_qname
  BY <1>3 DEF alloc_oid, IsCatalog, Fields, SameButTypes, SameClasses
<1>5. /\ SameButTypes(c, c3) /\ c3.next_oid = a
      /\ c3.pg_type = With(c2.pg_type, a, r2) /\ c3.type_by_qname = With(c2.type_by_qname, q2, a)
  BY <1>1, <1>4 DEF insert_pg_type, IsCatalog, Fields, SameButTypes, SameClasses
<1>6. /\ SameButTypes(c, c4) /\ c4.next_oid = a
      /\ c4.pg_type = [c3.pg_type EXCEPT ![t].typarray = a] /\ c4.type_by_qname = c3.type_by_qname
  BY <1>5 DEF IsCatalog, Fields, SameButTypes, SameClasses
<1>7. /\ SameButTypes(c, d) /\ d.next_oid = a + 1
      /\ d.pg_type = c4.pg_type /\ d.type_by_qname = c4.type_by_qname
  BY <1>6 DEF alloc_oid, IsCatalog, Fields, SameButTypes, SameClasses
<1>8. define(c, row) = d
  BY <1>4 DEF define, register_array_type
<1> HIDE DEF c1, c2, c3, c4, d, r2
<1>9. Defined(c, t, a, row, d)
  <2>1. /\ DOMAIN d.pg_type = DOMAIN c.pg_type \cup {t, a}
        /\ \A x \in DOMAIN c.pg_type : d.pg_type[x] = c.pg_type[x]
        /\ d.pg_type[t] = [row EXCEPT !.typarray = a]
        /\ d.pg_type[a] = r2
    <3> DEFINE f1 == With(c.pg_type, t, row)
               f2 == With(f1, a, r2)
    <3>1. /\ DOMAIN f1 = DOMAIN c.pg_type \cup {t} /\ f1[t] = row
          /\ \A x \in DOMAIN c.pg_type : f1[x] = c.pg_type[x]
      BY DEF With
    <3> HIDE DEF f1
    <3>2. /\ DOMAIN f2 = DOMAIN f1 \cup {a} /\ f2[a] = r2 /\ f2[t] = row /\ t # a
          /\ \A x \in DOMAIN c.pg_type : f2[x] = c.pg_type[x]
      BY <3>1 DEF With
    <3> HIDE DEF f2
    <3>3. d.pg_type = [f2 EXCEPT ![t].typarray = a]
      BY <1>3, <1>4, <1>5, <1>6, <1>7 DEF f1, f2
    <3>4. QED
      BY <3>1, <3>2, <3>3
  <2>2. /\ DOMAIN d.type_by_qname = DOMAIN c.type_by_qname \cup {q1, q2}
        /\ d.type_by_qname[q1] = t /\ d.type_by_qname[q2] = a
        /\ \A q \in DOMAIN c.type_by_qname : q \notin {q1, q2} => d.type_by_qname[q] = c.type_by_qname[q]
    <3> HIDE DEF q1, q2
    <3>1. d.type_by_qname = With(With(c.type_by_qname, q1, t), q2, a)
      BY <1>3, <1>4, <1>5, <1>6, <1>7
    <3>2. QED
      BY <1>2, <3>1 DEF With
  <2>3. QED
    BY <2>1, <2>2 DEF Defined, r2
<1>10. QED
  BY <1>7, <1>8, <1>9

\* A new type and its array keep the ties when their names are free.
LEMMA DefineTies ==
    ASSUME NEW c, IsCatalog(c), Ties(c), c.next_oid \in Nat \ {0}, NEW row, IsTypeRow(row),
           c.next_oid \notin DOMAIN c.pg_type, c.next_oid + 1 \notin DOMAIN c.pg_type,
           array_name(row.typname) # row.typname,
           row.typelem = None, row.typrelid = None,
           TypeFree(c, row.typnamespace, row.typname),
           TypeFree(c, row.typnamespace, array_name(row.typname))
    PROVE  Ties(define(c, row))
<1> DEFINE t == c.next_oid
           a == t + 1
           d == define(c, row)
<1>1. /\ Defined(c, t, a, row, d) /\ SameButTypes(c, d)
  BY DefineDefines
<1>2. t # None /\ a # None /\ t # a
  BY DEF None
<1>3. Backed(c, t, row, d)
  BY <1>1 DEF Backed, SameButTypes
<1> HIDE DEF d, a, t
<1>4. t \notin DOMAIN c.pg_type /\ a \notin DOMAIN c.pg_type
  BY DEF t, a
<1>5. Ties(d)
  BY <1>1, <1>2, <1>3, <1>4, DefinedTies
<1>6. QED
  BY <1>5 DEF d

\* The class row and the columns of a new relation.
ClassAdded(c, ns, name, kind, columns, d) ==
    /\ IsCatalog(d)
    /\ SameTypes(c, d)
    /\ d.class_by_qname = With(c.class_by_qname, <<ns, name>>, c.next_oid)
    /\ d.pg_class = With(c.pg_class, c.next_oid, [relname |-> name, relnamespace |-> ns,
                                                   relkind |-> kind, reltype |-> c.next_oid + 1])
    /\ d.pg_attribute = With(c.pg_attribute, c.next_oid, columns)
    /\ d.pg_namespace = c.pg_namespace /\ d.pg_enum = c.pg_enum /\ d.pg_range = c.pg_range
    /\ d.pg_rewrite = c.pg_rewrite
    /\ d.pg_cast = c.pg_cast /\ d.cast_by_pair = c.cast_by_pair /\ d.pg_operator = c.pg_operator
    /\ d.pg_depend = c.pg_depend /\ d.pg_extension = c.pg_extension
    /\ d.next_oid = c.next_oid + 1

\* A relation is installed: its row, its columns, its row type and the array.
RowOf(ns, name, rel) == [TypeRow(ns, name, "composite") EXCEPT !.typrelid = rel]

LEMMA InstallInstalls ==
    ASSUME NEW c, IsCatalog(c), c.next_oid \in Nat, NEW ns, NEW name, NEW kind, NEW columns
    PROVE  \E b : /\ ClassAdded(c, ns, name, kind, columns, b)
                  /\ install_relation(c, ns, name, kind, columns) = define(b, RowOf(ns, name, c.next_oid))
<1> DEFINE rel == c.next_oid
           b1  == [c EXCEPT !.class_by_qname = With(@, <<ns, name>>, rel),
                            !.pg_class = With(@, rel, [relname |-> name, relnamespace |-> ns,
                                                       relkind |-> kind, reltype |-> rel + 1]),
                            !.pg_attribute = With(@, rel, columns)]
           b   == alloc_oid(b1, 1)
<1>1. install_relation(c, ns, name, kind, columns) = define(b, RowOf(ns, name, rel))
  BY DEF install_relation, RowOf
<1>2. ClassAdded(c, ns, name, kind, columns, b)
  BY DEF ClassAdded, IsCatalog, Fields, SameTypes, alloc_oid
<1>3. QED
  BY <1>1, <1>2

LEMMA RowOfIsTypeRow ==
    ASSUME NEW ns, NEW name, NEW rel
    PROVE  LET row == RowOf(ns, name, rel)
           IN  /\ IsTypeRow(row) /\ row.typname = name /\ row.typnamespace = ns
               /\ row.typtype = "composite" /\ row.typrelid = rel
               /\ row.typelem = None /\ row.typarray = None /\ row.typbasetype = None
BY DEF RowOf, TypeRow, IsTypeRow

\* A relation under free names keeps the ties.
LEMMA InstallTies ==
    ASSUME NEW c, IsCatalog(c), Ties(c), c.next_oid \in Nat \ {0},
           NEW ns, NEW name, NEW kind, NEW columns,
           c.next_oid \notin DOMAIN c.pg_class,
           c.next_oid + 1 \notin DOMAIN c.pg_type, c.next_oid + 2 \notin DOMAIN c.pg_type,
           array_name(name) # name,
           TypeFree(c, ns, name), TypeFree(c, ns, array_name(name))
    PROVE  Ties(install_relation(c, ns, name, kind, columns))
<1> DEFINE r   == c.next_oid
           t   == r + 1
           a   == t + 1
           row == RowOf(ns, name, r)
           d   == install_relation(c, ns, name, kind, columns)
<1>1. PICK b : ClassAdded(c, ns, name, kind, columns, b) /\ d = define(b, row)
  BY InstallInstalls
<1>2. /\ IsTypeRow(row) /\ row.typname = name /\ row.typnamespace = ns
      /\ row.typrelid = r /\ row.typelem = None /\ row.typtype = "composite"
  BY RowOfIsTypeRow
<1>3. IsCatalog(b) /\ SameTypes(c, b) /\ b.next_oid = t
  BY <1>1 DEF ClassAdded
<1> HIDE DEF d, row
<1>4. Defined(b, t, a, row, d) /\ SameButTypes(b, d)
  BY <1>1, <1>2, <1>3, DefineDefines DEF SameTypes
<1>5. Defined(c, t, a, row, d)
  BY <1>3, <1>4 DEF Defined, SameTypes
<1>6. d.pg_class = With(c.pg_class, r, [relname |-> name, relnamespace |-> ns,
                                        relkind |-> kind, reltype |-> t])
  BY <1>1, <1>4 DEF ClassAdded, SameButTypes, SameClasses
<1>7. r # None /\ t # None /\ a # None /\ t # a
  BY DEF None
<1>8. Backed(c, t, row, d)
  BY <1>2, <1>6, <1>7 DEF Backed, With, IsClassRow, RelationName
<1> HIDE DEF r, t, a
<1>9. t \notin DOMAIN c.pg_type /\ a \notin DOMAIN c.pg_type
  BY DEF r, t, a
<1>10. Ties(d)
  BY <1>2, <1>5, <1>7, <1>8, <1>9, DefinedTies
<1>11. QED
  BY <1>10 DEF d

-----------------------------------------------------------------------------
(* OIDs, and the rows of pg_depend.                                         *)

\* Every row has an OID that was allocated, and no OID has two rows.
Fresh(c) ==
    /\ c.next_oid \in Nat /\ 4 <= c.next_oid
    /\ \A x \in DOMAIN c.pg_type \cup DOMAIN c.pg_class \cup DOMAIN c.pg_cast :
          x \in 1..(c.next_oid - 1)
    /\ DOMAIN c.pg_type \cap DOMAIN c.pg_class = {}
    /\ DOMAIN c.pg_cast \cap (DOMAIN c.pg_type \cup DOMAIN c.pg_class) = {}
    /\ \A e \in DOMAIN c.pg_extension :
          LET x == c.pg_extension[e].oid IN
          /\ IsExtensionRow(c.pg_extension[e])
          /\ x \in 1..(c.next_oid - 1)
          /\ x \notin DOMAIN c.pg_type \cup DOMAIN c.pg_class \cup DOMAIN c.pg_cast

Tagged(c) == {d \in c.pg_depend : d.deptype = "extension"}

\* A type of an extension is not a row type, and comes with its array.
Member(c, t, own) ==
    /\ t \in 1..(c.next_oid - 1) /\ t \notin DOMAIN c.pg_class
    /\ t \in DOMAIN c.pg_type =>
          LET row == c.pg_type[t] IN
          /\ row.typrelid = None
          /\ row.typarray # None => row.typarray \in own
          /\ row.typelem # None => row.typelem \in own

MembersWhole(c) == \A d \in Tagged(c) : Member(c, d.objid, extension_objects(c, d.refobjid))

\* Only views depend on types and relations.
ViewRows(c) == \A d \in c.pg_depend : d.deptype \in {"type", "class"} => d.objid \in DOMAIN c.pg_class

LEMMA MemberOf ==
    ASSUME NEW c, MembersWhole(c), NEW x, NEW t \in extension_objects(c, x)
    PROVE  Member(c, t, extension_objects(c, x))
BY DEF MembersWhole, Tagged, extension_objects

\* d has the types and tags of c, and new types and relations have new OIDs.
Grown(c, d) ==
    /\ d.next_oid \in Nat /\ c.next_oid <= d.next_oid
    /\ \A t \in DOMAIN c.pg_type :
          /\ t \in DOMAIN d.pg_type
          /\ d.pg_type[t].typrelid = c.pg_type[t].typrelid
          /\ d.pg_type[t].typarray = c.pg_type[t].typarray
          /\ d.pg_type[t].typelem = c.pg_type[t].typelem
    /\ \A t \in DOMAIN d.pg_type : t \in DOMAIN c.pg_type \/ c.next_oid <= t
    /\ \A r \in DOMAIN d.pg_class : r \in DOMAIN c.pg_class \/ c.next_oid <= r
    /\ Tagged(d) = Tagged(c)

LEMMA MembersGrown ==
    ASSUME NEW c, Fresh(c), MembersWhole(c), NEW d, Grown(c, d)
    PROVE  MembersWhole(d)
<1>1. \A x : extension_objects(d, x) = extension_objects(c, x)
  <2>1. ASSUME NEW x PROVE extension_objects(d, x) = extension_objects(c, x)
    <3>1. \A y : y \in extension_objects(d, x) <=> \E g \in Tagged(d) : g.refobjid = x /\ g.objid = y
      BY DEF extension_objects, Tagged
    <3>2. \A y : y \in extension_objects(c, x) <=> \E g \in Tagged(c) : g.refobjid = x /\ g.objid = y
      BY DEF extension_objects, Tagged
    <3>3. QED
      BY <3>1, <3>2 DEF Grown
  <2>2. QED
    BY <2>1
<1>2. ASSUME NEW g \in Tagged(d)
      PROVE  Member(d, g.objid, extension_objects(d, g.refobjid))
  <2>1. Member(c, g.objid, extension_objects(d, g.refobjid))
    BY <1>1, <1>2 DEF MembersWhole, Grown
  <2>2. QED
    BY <2>1 DEF Member, Grown, Fresh
<1>3. QED
  BY <1>2 DEF MembersWhole

-----------------------------------------------------------------------------
(* The part of the invariant that every statement keeps by itself.          *)

Base(c) == IsCatalog(c) /\ Ties(c) /\ Fresh(c) /\ MembersWhole(c) /\ ViewRows(c)

\* The type and the array of a declaration, and nothing else.
TypeAdded(c, row, d) ==
    /\ Defined(c, c.next_oid, c.next_oid + 1, row, d)
    /\ SameButTypes(c, d)
    /\ d.next_oid = c.next_oid + 2

\* A relation with its row type and the array of it, and nothing else.
Installed(c, ns, name, kind, columns, d) ==
    /\ IsCatalog(d)
    /\ Defined(c, c.next_oid + 1, c.next_oid + 2, RowOf(ns, name, c.next_oid), d)
    /\ d.pg_class = With(c.pg_class, c.next_oid, [relname |-> name, relnamespace |-> ns,
                                                   relkind |-> kind, reltype |-> c.next_oid + 1])
    /\ d.pg_attribute = With(c.pg_attribute, c.next_oid, columns)
    /\ d.pg_namespace = c.pg_namespace /\ d.pg_enum = c.pg_enum /\ d.pg_range = c.pg_range
    /\ d.pg_rewrite = c.pg_rewrite
    /\ d.pg_cast = c.pg_cast /\ d.cast_by_pair = c.cast_by_pair /\ d.pg_operator = c.pg_operator
    /\ d.pg_depend = c.pg_depend /\ d.pg_extension = c.pg_extension
    /\ d.next_oid = c.next_oid + 3

LEMMA DefineBase ==
    ASSUME NEW c, Base(c), NEW row, IsTypeRow(row),
           row.typelem = None, row.typrelid = None,
           array_name(row.typname) # row.typname,
           TypeFree(c, row.typnamespace, row.typname),
           TypeFree(c, row.typnamespace, array_name(row.typname))
    PROVE  Base(define(c, row)) /\ TypeAdded(c, row, define(c, row))
<1> DEFINE d == define(c, row)
           t == c.next_oid
           a == t + 1
<1>1. /\ IsCatalog(c) /\ Ties(c) /\ t \in Nat \ {0}
      /\ t \notin DOMAIN c.pg_type /\ t + 1 \notin DOMAIN c.pg_type
  BY DEF Base, Fresh
<1>2. Ties(d)
  BY <1>1, DefineTies
<1>3. TypeAdded(c, row, d)
  BY <1>1, DefineDefines DEF TypeAdded
<1> HIDE DEF d
<1>4. /\ DOMAIN d.pg_type = DOMAIN c.pg_type \cup {t, a}
      /\ \A x \in DOMAIN c.pg_type : d.pg_type[x] = c.pg_type[x]
      /\ d.next_oid = t + 2
      /\ d.pg_class = c.pg_class /\ d.pg_cast = c.pg_cast
      /\ d.pg_depend = c.pg_depend /\ d.pg_extension = c.pg_extension
  BY <1>3 DEF TypeAdded, Defined, SameButTypes, SameClasses
<1>5. Fresh(d)
  BY <1>4 DEF Base, Fresh
<1>6. MembersWhole(d)
  <2>1. Grown(c, d)
    BY <1>1, <1>4 DEF Grown, Tagged
  <2>2. QED
    BY <2>1, MembersGrown DEF Base
<1>7. ViewRows(d)
  BY <1>4 DEF Base, ViewRows
<1>8. QED
  BY <1>2, <1>3, <1>5, <1>6, <1>7 DEF Base, TypeAdded, SameButTypes, d

LEMMA InstallBase ==
    ASSUME NEW c, Base(c), NEW ns, NEW name, NEW kind, NEW columns,
           array_name(name) # name,
           TypeFree(c, ns, name), TypeFree(c, ns, array_name(name))
    PROVE  LET d == install_relation(c, ns, name, kind, columns)
           IN  Base(d) /\ Installed(c, ns, name, kind, columns, d)
<1> DEFINE d   == install_relation(c, ns, name, kind, columns)
           r   == c.next_oid
           t   == r + 1
           a   == t + 1
           row == RowOf(ns, name, r)
<1>1. /\ IsCatalog(c) /\ Ties(c) /\ r \in Nat \ {0}
      /\ r \notin DOMAIN c.pg_class /\ t \notin DOMAIN c.pg_type /\ a \notin DOMAIN c.pg_type
      /\ t = c.next_oid + 1 /\ a = c.next_oid + 2
  BY DEF Base, Fresh
<1>2. Ties(d)
  BY <1>1, InstallTies
<1>3. PICK b : ClassAdded(c, ns, name, kind, columns, b) /\ d = define(b, row)
  BY <1>1, InstallInstalls
<1>4. IsTypeRow(row) /\ row.typname = name /\ row.typnamespace = ns
  BY RowOfIsTypeRow
<1>5. IsCatalog(b) /\ SameTypes(c, b) /\ b.next_oid = t
  BY <1>3 DEF ClassAdded
<1> HIDE DEF d, row
<1>6. Defined(b, t, a, row, d) /\ SameButTypes(b, d) /\ d.next_oid = c.next_oid + 3
  BY <1>1, <1>3, <1>4, <1>5, DefineDefines DEF SameTypes
<1>7. Defined(c, t, a, row, d)
  BY <1>5, <1>6 DEF Defined, SameTypes
<1>8. Installed(c, ns, name, kind, columns, d)
  BY <1>1, <1>3, <1>6, <1>7 DEF Installed, ClassAdded, SameButTypes, SameClasses, row
<1>9. /\ DOMAIN d.pg_type = DOMAIN c.pg_type \cup {t, a}
      /\ \A x \in DOMAIN c.pg_type : d.pg_type[x] = c.pg_type[x]
      /\ d.next_oid = c.next_oid + 3
      /\ DOMAIN d.pg_class = DOMAIN c.pg_class \cup {r} /\ d.pg_cast = c.pg_cast
      /\ d.pg_depend = c.pg_depend /\ d.pg_extension = c.pg_extension
  BY <1>7, <1>8 DEF Defined, Installed, With
<1>10. Fresh(d)
  BY <1>9 DEF Base, Fresh
<1>11. MembersWhole(d)
  <2>1. Grown(c, d)
    BY <1>1, <1>9 DEF Grown, Tagged
  <2>2. QED
    BY <2>1, MembersGrown DEF Base
<1>12. ViewRows(d)
  BY <1>9 DEF Base, ViewRows
<1>13. QED
  BY <1>2, <1>8, <1>10, <1>11, <1>12 DEF Base, Installed, d

\* Statements that leave types and relations alone.
\* The rows and tags are those of c, and what is new has a new OID.
Aside(c, d) ==
    /\ IsCatalog(d)
    /\ SameTypes(c, d) /\ SameClasses(c, d) /\ d.pg_depend = c.pg_depend
    /\ d.next_oid \in Nat /\ c.next_oid <= d.next_oid
    /\ \A x \in DOMAIN d.pg_cast : x \in DOMAIN c.pg_cast \/ x \in c.next_oid..(d.next_oid - 1)
    /\ \A e \in DOMAIN d.pg_extension :
       /\ IsExtensionRow(d.pg_extension[e])
       /\ \/ e \in DOMAIN c.pg_extension /\ d.pg_extension[e].oid = c.pg_extension[e].oid
          \/ d.pg_extension[e].oid \in c.next_oid..(d.next_oid - 1) \ DOMAIN d.pg_cast

LEMMA AsideBase ==
    ASSUME NEW c, Base(c), NEW d, Aside(c, d)
    PROVE  Base(d)
<1>1. Ties(d)
  BY SameTies DEF Base, Aside
<1>2. Fresh(d)
  BY DEF Base, Aside, Fresh, SameTypes, SameClasses
<1>3. MembersWhole(d)
  <2>1. Grown(c, d)
    BY DEF Base, Fresh, Aside, SameTypes, SameClasses, Grown, Tagged
  <2>2. QED
    BY <2>1, MembersGrown DEF Base
<1>4. ViewRows(d)
  BY DEF Base, Aside, ViewRows, SameClasses
<1>5. QED
  BY <1>1, <1>2, <1>3, <1>4 DEF Base, Aside

-----------------------------------------------------------------------------
(* A type and its array are renamed, and the relation of a row type.        *)

Renamed(c, t, a, name, ns, d) ==
    /\ DOMAIN d.pg_type = DOMAIN c.pg_type
    /\ \A x \in DOMAIN c.pg_type \ {t, a} : d.pg_type[x] = c.pg_type[x]
    /\ d.pg_type[t] = [c.pg_type[t] EXCEPT !.typname = name, !.typnamespace = ns]
    /\ d.pg_type[a] = [c.pg_type[a] EXCEPT !.typname = array_name(name), !.typnamespace = ns]
    /\ DOMAIN d.type_by_qname = (DOMAIN c.type_by_qname \ {TypeName(c, t), TypeName(c, a)})
                                    \cup {<<ns, name>>, <<ns, array_name(name)>>}
    /\ d.type_by_qname[<<ns, name>>] = t
    /\ d.type_by_qname[<<ns, array_name(name)>>] = a
    /\ \A q \in DOMAIN c.type_by_qname \ {TypeName(c, t), TypeName(c, a)} :
          d.type_by_qname[q] = c.type_by_qname[q]

ClassRenamed(c, r, name, ns, d) ==
    /\ DOMAIN d.pg_class = DOMAIN c.pg_class
    /\ \A x \in DOMAIN c.pg_class \ {r} : d.pg_class[x] = c.pg_class[x]
    /\ d.pg_class[r] = [c.pg_class[r] EXCEPT !.relname = name, !.relnamespace = ns]

\* The classes and names of c, and r under another name.
RelationFollows(c, r, name, ns, d) ==
    IF r = None THEN d.pg_class = c.pg_class ELSE ClassRenamed(c, r, name, ns, d)

LEMMA RenamedTies ==
    ASSUME NEW c, Ties(c), NEW t \in DOMAIN c.pg_type, NEW a, a = c.pg_type[t].typarray, a # None,
           NEW name, NEW ns, NEW d, Renamed(c, t, a, name, ns, d),
           RelationFollows(c, c.pg_type[t].typrelid, name, ns, d),
           array_name(name) # name, TypeFree(c, ns, name), TypeFree(c, ns, array_name(name))
    PROVE  Ties(d)
<1> DEFINE q1 == <<ns, name>>
           q2 == <<ns, array_name(name)>>
           k  == c.pg_type[t].typrelid
<1>1. /\ a \in DOMAIN c.pg_type /\ c.pg_type[a].typelem = t /\ c.pg_type[a].typrelid = None
      /\ c.pg_type[a].typarray = None /\ c.pg_type[t].typelem = None /\ a # t
      /\ IsTypeRow(c.pg_type[t]) /\ IsTypeRow(c.pg_type[a])
  BY DEF Ties, ArraysTied, HasArray, Rows
<1>2. /\ IsTypeRow(d.pg_type[t])
      /\ d.pg_type[t].typname = name /\ d.pg_type[t].typnamespace = ns
      /\ d.pg_type[t].typrelid = k /\ d.pg_type[t].typelem = None
      /\ d.pg_type[t].typarray = a /\ d.pg_type[t].typtype = c.pg_type[t].typtype
  BY <1>1 DEF Renamed, IsTypeRow
<1>3. /\ IsTypeRow(d.pg_type[a])
      /\ d.pg_type[a].typname = array_name(name) /\ d.pg_type[a].typnamespace = ns
      /\ d.pg_type[a].typrelid = None /\ d.pg_type[a].typelem = t
      /\ d.pg_type[a].typarray = None /\ d.pg_type[a].typtype = c.pg_type[a].typtype
  BY <1>1 DEF Renamed, IsTypeRow
<1>4. /\ DOMAIN d.pg_type = DOMAIN c.pg_type
      /\ \A x \in DOMAIN c.pg_type : x \notin {t, a} =>
            d.pg_type[x] = c.pg_type[x] /\ TypeName(d, x) = TypeName(c, x)
      /\ TypeName(d, t) = q1 /\ TypeName(d, a) = q2 /\ q1 # q2
  BY <1>2, <1>3 DEF Renamed, TypeName
<1>5. /\ DOMAIN d.type_by_qname = (DOMAIN c.type_by_qname \ {TypeName(c, t), TypeName(c, a)}) \cup {q1, q2}
      /\ d.type_by_qname[q1] = t /\ d.type_by_qname[q2] = a
      /\ \A q \in DOMAIN c.type_by_qname \ {TypeName(c, t), TypeName(c, a)} :
            d.type_by_qname[q] = c.type_by_qname[q]
      /\ q1 \notin DOMAIN c.type_by_qname /\ q2 \notin DOMAIN c.type_by_qname
  BY DEF Renamed, TypeFree
<1>6. /\ DOMAIN d.pg_class = DOMAIN c.pg_class
      /\ \A x \in DOMAIN c.pg_class : /\ IsClassRow(d.pg_class[x])
                                      /\ d.pg_class[x].reltype = c.pg_class[x].reltype
                                      /\ x # k => RelationName(d, x) = RelationName(c, x)
      /\ k # None => RelationName(d, k) = q1 /\ k \in DOMAIN c.pg_class /\ c.pg_class[k].reltype = t
  <2>1. k # None => k \in DOMAIN c.pg_class /\ c.pg_class[k].reltype = t
    BY DEF Ties, RowTypesTied
  <2>2. CASE k = None
    BY <2>2 DEF RelationFollows, Ties, Rows, RelationName
  <2>3. CASE k # None
    <3>1. ClassRenamed(c, k, name, ns, d)
      BY <2>3 DEF RelationFollows
    <3>2. \A x \in DOMAIN c.pg_class : IsClassRow(c.pg_class[x])
      BY DEF Ties, Rows
    <3>3. /\ IsClassRow(d.pg_class[k]) /\ d.pg_class[k].reltype = c.pg_class[k].reltype
          /\ RelationName(d, k) = q1
      BY <2>1, <2>3, <3>1, <3>2 DEF ClassRenamed, RelationName, IsClassRow
    <3>4. ASSUME NEW x \in DOMAIN c.pg_class, x # k
          PROVE  d.pg_class[x] = c.pg_class[x]
      BY <3>1, <3>4 DEF ClassRenamed
    <3>5. QED
      BY <2>1, <2>3, <3>1, <3>2, <3>3, <3>4 DEF ClassRenamed, RelationName
  <2>4. QED
    BY <2>2, <2>3
<1> HIDE DEF q1, q2
<1>7. NamesTied(d)
  <2>1. ASSUME NEW q \in DOMAIN d.type_by_qname
        PROVE  d.type_by_qname[q] \in DOMAIN d.pg_type /\ TypeName(d, d.type_by_qname[q]) = q
    BY <1>1, <1>4, <1>5 DEF Ties, NamesTied
  <2>2. ASSUME NEW x \in DOMAIN d.pg_type
        PROVE  TypeName(d, x) \in DOMAIN d.type_by_qname /\ d.type_by_qname[TypeName(d, x)] = x
    BY <1>1, <1>4, <1>5 DEF Ties, NamesTied
  <2>3. QED
    BY <2>1, <2>2 DEF NamesTied
<1>8. ArraysTied(d)
  <2>1. ASSUME NEW x \in DOMAIN c.pg_type, x \notin {t, a}
        PROVE  LET row == c.pg_type[x] IN
               /\ row.typarray \notin {t, a} /\ row.typelem \notin {t, a}
    BY <1>1, <2>1 DEF Ties, ArraysTied, HasArray, Rows
  <2>2. ASSUME NEW x \in DOMAIN d.pg_type
        PROVE  LET row == d.pg_type[x] IN
               /\ row.typarray # None => HasArray(d, x, row.typarray)
               /\ row.typelem # None => /\ row.typelem \in DOMAIN d.pg_type
                                        /\ d.pg_type[row.typelem].typarray = x
                                        /\ row.typarray = None /\ row.typrelid = None
               /\ row.typelem = None /\ row.typtype # "pseudo" =>
                     row.typarray # None /\ array_name(row.typname) # row.typname
    <3>1. CASE x = t
      BY <1>1, <1>2, <1>3, <1>4, <3>1 DEF HasArray
    <3>2. CASE x = a
      BY <1>1, <1>2, <1>3, <1>4, <3>2 DEF Ties, Rows
    <3>3. CASE x \notin {t, a}
      BY <1>4, <2>1, <3>3 DEF Ties, ArraysTied, HasArray
    <3>4. QED
      BY <3>1, <3>2, <3>3
  <2>3. QED
    BY <2>2 DEF ArraysTied
<1>9. RowTypesTied(d)
  <2>1. ASSUME NEW x \in DOMAIN d.pg_type, d.pg_type[x].typrelid # None
        PROVE  LET r == d.pg_type[x].typrelid
               IN  /\ r \in DOMAIN d.pg_class /\ d.pg_class[r].reltype = x
                   /\ RelationName(d, r) = TypeName(d, x) /\ d.pg_type[x].typtype = "composite"
    <3>1. CASE x = t
      BY <1>2, <1>4, <1>6, <2>1, <3>1 DEF Ties, RowTypesTied
    <3>2. CASE x # t
      <4>1. x # a /\ d.pg_type[x] = c.pg_type[x] /\ TypeName(d, x) = TypeName(c, x)
        BY <1>3, <1>4, <2>1, <3>2
      <4>2. c.pg_type[x].typrelid # k
        BY <1>4, <1>6, <2>1, <3>2, <4>1 DEF Ties, RowTypesTied
      <4>3. QED
        BY <1>4, <1>6, <2>1, <4>1, <4>2 DEF Ties, RowTypesTied
    <3>3. QED
      BY <3>1, <3>2
  <2>2. ASSUME NEW r \in DOMAIN d.pg_class, d.pg_class[r].reltype # None
        PROVE  /\ d.pg_class[r].reltype \in DOMAIN d.pg_type
               /\ d.pg_type[d.pg_class[r].reltype].typrelid = r
    <3> DEFINE u == c.pg_class[r].reltype
    <3>1. r \in DOMAIN c.pg_class /\ d.pg_class[r].reltype = u /\ u # None
      BY <1>6, <2>2
    <3>2. u \in DOMAIN c.pg_type /\ c.pg_type[u].typrelid = r
      BY <3>1 DEF Ties, RowTypesTied
    <3> HIDE DEF u
    <3>3. d.pg_type[u].typrelid = c.pg_type[u].typrelid
      <4>1. CASE u = t
        BY <1>2, <4>1
      <4>2. CASE u = a
        BY <1>1, <1>3, <4>2
      <4>3. CASE u \notin {t, a}
        BY <1>4, <3>2, <4>3
      <4>4. QED
        BY <4>1, <4>2, <4>3
    <3>4. QED
      BY <1>4, <3>1, <3>2, <3>3
  <2>3. QED
    BY <2>1, <2>2 DEF RowTypesTied
<1>10. Rows(d)
  BY <1>2, <1>3, <1>4, <1>6 DEF Ties, Rows
<1>11. QED
  BY <1>7, <1>8, <1>9, <1>10 DEF Ties

\* rename_pg_type: the row and the names.
LEMMA RenameOne ==
    ASSUME NEW c, IsCatalog(c), NEW t \in DOMAIN c.pg_type, NEW name, NEW ns
    PROVE  LET d == rename_pg_type(c, t, name, ns)
           IN  /\ SameButTypes(c, d) /\ d.next_oid = c.next_oid
               /\ d.pg_type = [[c.pg_type EXCEPT ![t].typname = name] EXCEPT ![t].typnamespace = ns]
               /\ d.type_by_qname = With(Without(c.type_by_qname, {TypeName(c, t)}), <<ns, name>>, t)
BY DEF rename_pg_type, IsCatalog, Fields, SameButTypes, SameClasses

LEMMA RenameFinds ==
    ASSUME NEW c, IsCatalog(c), NamesTied(c), NEW t \in DOMAIN c.pg_type, NEW a, HasArray(c, t, a), a # t,
           IsTypeRow(c.pg_type[t]), IsTypeRow(c.pg_type[a]),
           NEW name, NEW ns, array_name(name) # name,
           TypeFree(c, ns, name), TypeFree(c, ns, array_name(name)),
           NEW d, d = rename_type_and_array(c, t, c.pg_type[t].typnamespace, c.pg_type[t].typname, name, ns)
    PROVE  /\ Renamed(c, t, a, name, ns, d)
           /\ SameButTypes(c, d) /\ d.next_oid = c.next_oid
<1> DEFINE q1 == <<ns, name>>
           q2 == <<ns, array_name(name)>>
           o1 == TypeName(c, t)
           o2 == TypeName(c, a)
           d1 == rename_pg_type(c, t, name, ns)
           d2 == rename_pg_type(d1, a, array_name(name), ns)
<1>1. /\ o2 = <<c.pg_type[t].typnamespace, array_name(c.pg_type[t].typname)>>
      /\ a \in DOMAIN c.pg_type
      /\ o1 \in DOMAIN c.type_by_qname /\ c.type_by_qname[o1] = t
      /\ o2 \in DOMAIN c.type_by_qname /\ c.type_by_qname[o2] = a
      /\ q1 \notin DOMAIN c.type_by_qname /\ q2 \notin DOMAIN c.type_by_qname /\ q1 # q2
  BY DEF HasArray, NamesTied, TypeName, TypeFree
<1>2. /\ SameButTypes(c, d1) /\ d1.next_oid = c.next_oid
      /\ d1.pg_type = [[c.pg_type EXCEPT ![t].typname = name] EXCEPT ![t].typnamespace = ns]
      /\ d1.type_by_qname = With(Without(c.type_by_qname, {o1}), q1, t)
  BY RenameOne
<1>3. o1 # o2 /\ o2 \in DOMAIN d1.type_by_qname /\ d1.type_by_qname[o2] = a
  BY <1>1, <1>2 DEF With, Without
<1>4. d = d2
  BY <1>1, <1>3 DEF rename_type_and_array
<1>5. a \in DOMAIN d1.pg_type /\ TypeName(d1, a) = o2 /\ IsCatalog(d1)
  BY <1>1, <1>2 DEF TypeName, SameButTypes
<1> HIDE DEF d1
<1>6. /\ SameButTypes(d1, d2) /\ d2.next_oid = d1.next_oid
      /\ d2.pg_type = [[d1.pg_type EXCEPT ![a].typname = array_name(name)] EXCEPT ![a].typnamespace = ns]
      /\ d2.type_by_qname = With(Without(d1.type_by_qname, {o2}), q2, a)
  BY <1>5, RenameOne
<1> HIDE DEF d2
<1>7. /\ DOMAIN d.pg_type = DOMAIN c.pg_type
      /\ \A x \in DOMAIN c.pg_type \ {t, a} : d.pg_type[x] = c.pg_type[x]
      /\ d.pg_type[t] = [c.pg_type[t] EXCEPT !.typname = name, !.typnamespace = ns]
      /\ d.pg_type[a] = [c.pg_type[a] EXCEPT !.typname = array_name(name), !.typnamespace = ns]
  BY <1>1, <1>2, <1>4, <1>6 DEF IsTypeRow
<1>8. /\ DOMAIN d.type_by_qname = (DOMAIN c.type_by_qname \ {o1, o2}) \cup {q1, q2}
      /\ d.type_by_qname[q1] = t /\ d.type_by_qname[q2] = a
      /\ \A q \in DOMAIN c.type_by_qname \ {o1, o2} : d.type_by_qname[q] = c.type_by_qname[q]
  <2> HIDE DEF q1, q2, o1, o2
  <2>1. d.type_by_qname = With(Without(With(Without(c.type_by_qname, {o1}), q1, t), {o2}), q2, a)
    BY <1>2, <1>4, <1>6
  <2>2. q1 # o2 /\ q2 # o1 /\ q2 # o2 /\ q1 # o1
    BY <1>1
  <2> DEFINE f == With(Without(c.type_by_qname, {o1}), q1, t)
  <2>3. /\ DOMAIN f = (DOMAIN c.type_by_qname \ {o1}) \cup {q1} /\ f[q1] = t
        /\ \A q \in DOMAIN c.type_by_qname \ {o1} : f[q] = c.type_by_qname[q]
    BY <1>1 DEF With, Without
  <2>4. d.type_by_qname = With(Without(f, {o2}), q2, a)
    BY <2>1
  <2> HIDE DEF f
  <2>5. /\ DOMAIN d.type_by_qname = (DOMAIN f \ {o2}) \cup {q2} /\ d.type_by_qname[q2] = a
        /\ \A q \in DOMAIN f \ {o2} : q # q2 => d.type_by_qname[q] = f[q]
    BY <2>4 DEF With, Without
  <2>6. d.type_by_qname[q1] = t
    BY <1>1, <2>2, <2>3, <2>5
  <2>7. \A q \in DOMAIN c.type_by_qname \ {o1, o2} : d.type_by_qname[q] = c.type_by_qname[q]
    BY <1>1, <2>3, <2>5
  <2>8. QED
    BY <2>2, <2>3, <2>5, <2>6, <2>7
<1>9. Renamed(c, t, a, name, ns, d)
  BY <1>7, <1>8 DEF Renamed
<1>10. QED
  BY <1>2, <1>4, <1>6, <1>9 DEF SameButTypes, SameClasses

\* rename_pg_class: the row and the names of the relation.
LEMMA RenameClass ==
    ASSUME NEW c, IsCatalog(c), NEW r \in DOMAIN c.pg_class, IsClassRow(c.pg_class[r]), NEW name, NEW ns
    PROVE  LET d == rename_pg_class(c, r, name, ns)
           IN  /\ IsCatalog(d) /\ SameTypes(c, d) /\ d.next_oid = c.next_oid
               /\ ClassRenamed(c, r, name, ns, d)
               /\ d.pg_namespace = c.pg_namespace /\ d.pg_enum = c.pg_enum /\ d.pg_range = c.pg_range
               /\ d.pg_attribute = c.pg_attribute /\ d.pg_rewrite = c.pg_rewrite
               /\ d.pg_cast = c.pg_cast /\ d.cast_by_pair = c.cast_by_pair /\ d.pg_operator = c.pg_operator
               /\ d.pg_depend = c.pg_depend /\ d.pg_extension = c.pg_extension
<1> DEFINE d == rename_pg_class(c, r, name, ns)
<1>1. /\ IsCatalog(d) /\ SameTypes(c, d) /\ d.next_oid = c.next_oid
      /\ d.pg_class = [[c.pg_class EXCEPT ![r].relname = name] EXCEPT ![r].relnamespace = ns]
      /\ d.pg_namespace = c.pg_namespace /\ d.pg_enum = c.pg_enum /\ d.pg_range = c.pg_range
      /\ d.pg_attribute = c.pg_attribute /\ d.pg_rewrite = c.pg_rewrite
      /\ d.pg_cast = c.pg_cast /\ d.cast_by_pair = c.cast_by_pair /\ d.pg_operator = c.pg_operator
      /\ d.pg_depend = c.pg_depend /\ d.pg_extension = c.pg_extension
  BY DEF rename_pg_class, IsCatalog, Fields, SameTypes
<1> HIDE DEF d
<1>2. ClassRenamed(c, r, name, ns, d)
  BY <1>1 DEF ClassRenamed, IsClassRow
<1>3. QED
  BY <1>1, <1>2 DEF d

\* The types differ in their names alone.
SameShape(c, d) ==
    /\ DOMAIN d.pg_type = DOMAIN c.pg_type
    /\ \A x \in DOMAIN c.pg_type :
          /\ d.pg_type[x].typtype = c.pg_type[x].typtype
          /\ d.pg_type[x].typrelid = c.pg_type[x].typrelid
          /\ d.pg_type[x].typelem = c.pg_type[x].typelem
          /\ d.pg_type[x].typarray = c.pg_type[x].typarray
          /\ d.pg_type[x].typbasetype = c.pg_type[x].typbasetype

\* Only names differ, of types and of relations.
OnlyNames(c, d) ==
    /\ IsCatalog(d) /\ d.next_oid = c.next_oid
    /\ SameShape(c, d)
    /\ DOMAIN d.pg_class = DOMAIN c.pg_class
    /\ \A r \in DOMAIN c.pg_class :
          /\ d.pg_class[r].relkind = c.pg_class[r].relkind
          /\ d.pg_class[r].reltype = c.pg_class[r].reltype
    /\ d.pg_namespace = c.pg_namespace /\ d.pg_enum = c.pg_enum /\ d.pg_range = c.pg_range
    /\ d.pg_attribute = c.pg_attribute /\ d.pg_rewrite = c.pg_rewrite
    /\ d.pg_cast = c.pg_cast /\ d.cast_by_pair = c.cast_by_pair /\ d.pg_operator = c.pg_operator
    /\ d.pg_depend = c.pg_depend /\ d.pg_extension = c.pg_extension

LEMMA OnlyNamesBase ==
    ASSUME NEW c, Base(c), NEW d, OnlyNames(c, d), Ties(d)
    PROVE  Base(d)
<1>1. Fresh(d)
  BY DEF Base, Fresh, OnlyNames, SameShape
<1>2. MembersWhole(d)
  <2>1. Grown(c, d)
    BY DEF Base, Fresh, OnlyNames, SameShape, Grown, Tagged
  <2>2. QED
    BY <2>1, MembersGrown DEF Base
<1>3. ViewRows(d)
  BY DEF Base, OnlyNames, ViewRows
<1>4. QED
  BY <1>1, <1>2, <1>3 DEF Base, OnlyNames

LEMMA RenamedRows ==
    ASSUME NEW c, Ties(c), NEW t \in DOMAIN c.pg_type, NEW a \in DOMAIN c.pg_type,
           NEW name, NEW ns, NEW d, Renamed(c, t, a, name, ns, d)
    PROVE  SameShape(c, d)
<1>1. IsTypeRow(c.pg_type[t]) /\ IsTypeRow(c.pg_type[a])
  BY DEF Ties, Rows
<1>2. ASSUME NEW x \in DOMAIN c.pg_type
      PROVE  /\ d.pg_type[x].typtype = c.pg_type[x].typtype
             /\ d.pg_type[x].typrelid = c.pg_type[x].typrelid
             /\ d.pg_type[x].typelem = c.pg_type[x].typelem
             /\ d.pg_type[x].typarray = c.pg_type[x].typarray
             /\ d.pg_type[x].typbasetype = c.pg_type[x].typbasetype
  <2>1. CASE x \notin {t, a}
    BY <2>1 DEF Renamed
  <2>2. CASE x = t
    <3>1. d.pg_type[x] = [c.pg_type[x] EXCEPT !.typname = name, !.typnamespace = ns]
      BY <2>2 DEF Renamed
    <3>2. QED
      BY <1>1, <2>2, <3>1 DEF IsTypeRow
  <2>3. CASE x = a
    <3>1. d.pg_type[x] = [c.pg_type[x] EXCEPT !.typname = array_name(name), !.typnamespace = ns]
      BY <2>3 DEF Renamed
    <3>2. QED
      BY <1>1, <2>3, <3>1 DEF IsTypeRow
  <2>4. QED
    BY <2>1, <2>2, <2>3
<1>3. QED
  BY <1>2 DEF Renamed, SameShape

LEMMA MoveTypeBase ==
    ASSUME NEW c, Base(c), NEW t \in DOMAIN c.pg_type, NEW a, a = c.pg_type[t].typarray, a # None,
           c.pg_type[t].typrelid = None,
           NEW name, NEW ns, array_name(name) # name,
           TypeFree(c, ns, name), TypeFree(c, ns, array_name(name)),
           NEW d, d = rename_type_and_array(c, t, c.pg_type[t].typnamespace, c.pg_type[t].typname, name, ns)
    PROVE  Base(d) /\ OnlyNames(c, d) /\ Renamed(c, t, a, name, ns, d) /\ d.pg_class = c.pg_class
<1>1. /\ IsCatalog(c) /\ NamesTied(c) /\ HasArray(c, t, a) /\ a # t
      /\ IsTypeRow(c.pg_type[t]) /\ a \in DOMAIN c.pg_type /\ IsTypeRow(c.pg_type[a])
  BY DEF Base, Ties, ArraysTied, HasArray, Rows
<1>2. Renamed(c, t, a, name, ns, d) /\ SameButTypes(c, d) /\ d.next_oid = c.next_oid
  BY <1>1, RenameFinds
<1>3. RelationFollows(c, c.pg_type[t].typrelid, name, ns, d)
  BY <1>2 DEF RelationFollows, SameButTypes, SameClasses
<1>4. Ties(d)
  BY <1>2, <1>3, RenamedTies DEF Base
<1>5. OnlyNames(c, d)
  <2>1. SameShape(c, d)
    <3>1. Ties(c)
      BY DEF Base
    <3>2. QED
      BY <1>1, <1>2, <3>1, RenamedRows
  <2>2. QED
    BY <1>2, <2>1 DEF OnlyNames, SameButTypes, SameClasses
<1>6. QED
  BY <1>2, <1>4, <1>5, OnlyNamesBase DEF SameButTypes, SameClasses

LEMMA AlterRelationBase ==
    ASSUME NEW c, Base(c), NEW r \in DOMAIN c.pg_class,
           NEW name, NEW ns,
           c.pg_class[r].reltype # None => /\ array_name(name) # name
                                           /\ TypeFree(c, ns, name) /\ TypeFree(c, ns, array_name(name)),
           c.pg_class[r].reltype = None => TypeFree(c, c.pg_class[r].relnamespace, c.pg_class[r].relname),
           NEW d, d = alter_relation(c, r, ns, name)
    PROVE  /\ Base(d) /\ OnlyNames(c, d) /\ ClassRenamed(c, r, name, ns, d)
           /\ c.pg_class[r].reltype = None => d.pg_type = c.pg_type
           /\ c.pg_class[r].reltype # None =>
                 Renamed(c, c.pg_class[r].reltype, c.pg_type[c.pg_class[r].reltype].typarray, name, ns, d)
<1> DEFINE b   == rename_pg_class(c, r, name, ns)
           key == RelationName(c, r)
           t   == c.pg_class[r].reltype
           a   == c.pg_type[t].typarray
<1>1. IsCatalog(c) /\ Ties(c) /\ IsClassRow(c.pg_class[r]) /\ r # None
  BY DEF Base, Ties, Rows
<1>2. /\ IsCatalog(b) /\ SameTypes(c, b) /\ b.next_oid = c.next_oid
      /\ ClassRenamed(c, r, name, ns, b)
      /\ b.pg_namespace = c.pg_namespace /\ b.pg_enum = c.pg_enum /\ b.pg_range = c.pg_range
      /\ b.pg_attribute = c.pg_attribute /\ b.pg_rewrite = c.pg_rewrite
      /\ b.pg_cast = c.pg_cast /\ b.cast_by_pair = c.cast_by_pair /\ b.pg_operator = c.pg_operator
      /\ b.pg_depend = c.pg_depend /\ b.pg_extension = c.pg_extension
  BY <1>1, RenameClass
<1>3. d = IF key \in DOMAIN b.type_by_qname
          THEN rename_type_and_array(b, b.type_by_qname[key], c.pg_class[r].relnamespace,
                                     c.pg_class[r].relname, name, ns)
          ELSE b
  BY DEF alter_relation
<1> HIDE DEF b
<1>4. ASSUME NEW x \in DOMAIN c.pg_class
      PROVE  /\ b.pg_class[x].relkind = c.pg_class[x].relkind
             /\ b.pg_class[x].reltype = c.pg_class[x].reltype
             /\ IsClassRow(b.pg_class[x])
  <2>1. CASE x = r
    BY <1>1, <1>2, <2>1 DEF ClassRenamed, IsClassRow
  <2>2. CASE x # r
    BY <1>1, <1>2, <2>2 DEF ClassRenamed, Ties, Rows
  <2>3. QED
    BY <2>1, <2>2
<1>5. CASE t = None
  <2>1. d = b
    BY <1>2, <1>3, <1>5 DEF TypeFree, RelationName, SameTypes
  <2>2. Ties(d)
    <3>1. Rows(d)
      BY <1>1, <1>2, <1>4, <2>1 DEF Ties, Rows, SameTypes, ClassRenamed
    <3>2. NamesTied(d) /\ ArraysTied(d)
      BY <1>1, <1>2, <2>1 DEF Ties, NamesTied, ArraysTied, HasArray, SameTypes, TypeName
    <3>3. RowTypesTied(d)
      <4>1. /\ DOMAIN d.pg_class = DOMAIN c.pg_class
            /\ \A x \in DOMAIN c.pg_class : /\ d.pg_class[x].reltype = c.pg_class[x].reltype
                                            /\ x # r => RelationName(d, x) = RelationName(c, x)
        BY <1>2, <1>4, <2>1 DEF ClassRenamed, RelationName
      <4>2. \A x \in DOMAIN c.pg_type : c.pg_type[x].typrelid # r
        BY <1>1, <1>5, t = None DEF Ties, RowTypesTied, Rows
      <4>3. QED
        BY <1>1, <1>2, <2>1, <4>1, <4>2 DEF Ties, RowTypesTied, SameTypes, TypeName
    <3>4. QED
      BY <3>1, <3>2, <3>3 DEF Ties
  <2>3. OnlyNames(c, d)
    BY <1>2, <1>4, <2>1 DEF OnlyNames, SameShape, SameTypes, ClassRenamed
  <2>4. QED
    BY <1>2, <1>5, <2>1, <2>2, <2>3, OnlyNamesBase DEF SameTypes
<1>6. CASE t # None
  <2>1. /\ t \in DOMAIN c.pg_type /\ c.pg_type[t].typrelid = r /\ TypeName(c, t) = key
        /\ c.pg_type[t].typtype = "composite" /\ c.pg_type[t].typelem = None
    BY <1>1, <1>6 DEF Ties, RowTypesTied, ArraysTied
  <2>2. /\ a # None /\ HasArray(c, t, a) /\ a # t /\ a \in DOMAIN c.pg_type
        /\ IsTypeRow(c.pg_type[t]) /\ IsTypeRow(c.pg_type[a])
    <3>1. c.pg_type[t].typtype # "pseudo"
      BY <2>1
    <3>2. a # None /\ HasArray(c, t, a)
      BY <1>1, <2>1, <3>1 DEF Ties, ArraysTied
    <3>3. a \in DOMAIN c.pg_type /\ c.pg_type[a].typelem = t
      BY <3>2 DEF HasArray
    <3>4. t # None
      BY <1>1, <2>1 DEF Ties, Rows
    <3>5. a # t
      BY <2>1, <3>3, <3>4
    <3>6. IsTypeRow(c.pg_type[t]) /\ IsTypeRow(c.pg_type[a])
      BY <1>1, <2>1, <3>3 DEF Ties, Rows
    <3>7. QED
      BY <3>2, <3>3, <3>5, <3>6
  <2>3. /\ c.pg_class[r].relnamespace = c.pg_type[t].typnamespace
        /\ c.pg_class[r].relname = c.pg_type[t].typname
        /\ key \in DOMAIN c.type_by_qname /\ c.type_by_qname[key] = t
    BY <1>1, <2>1 DEF TypeName, RelationName, Ties, NamesTied
  <2>4. d = rename_type_and_array(b, t, b.pg_type[t].typnamespace, b.pg_type[t].typname, name, ns)
    BY <1>2, <1>3, <2>3 DEF SameTypes
  <2>5. /\ NamesTied(b) /\ HasArray(b, t, a) /\ t \in DOMAIN b.pg_type
        /\ IsTypeRow(b.pg_type[t]) /\ IsTypeRow(b.pg_type[a])
        /\ TypeFree(b, ns, name) /\ TypeFree(b, ns, array_name(name))
    <3>1. /\ HasArray(b, t, a) /\ t \in DOMAIN b.pg_type
          /\ IsTypeRow(b.pg_type[t]) /\ IsTypeRow(b.pg_type[a])
      BY <1>2, <2>1, <2>2 DEF HasArray, SameTypes
    <3>2. NamesTied(b)
      BY <1>1, <1>2 DEF Ties, NamesTied, SameTypes, TypeName
    <3>3. TypeFree(b, ns, name) /\ TypeFree(b, ns, array_name(name))
      BY <1>2, <1>6 DEF SameTypes, TypeFree
    <3>4. QED
      BY <3>1, <3>2, <3>3
  <2> HIDE DEF t, a
  <2>10. /\ a = c.pg_type[t].typarray /\ array_name(name) # name
         /\ TypeFree(c, ns, name) /\ TypeFree(c, ns, array_name(name))
    BY <1>6 DEF a, t
  <2>6. Renamed(b, t, a, name, ns, d) /\ SameButTypes(b, d) /\ d.next_oid = b.next_oid
    BY <1>2, <2>2, <2>4, <2>5, <2>10, RenameFinds
  <2>7. Renamed(c, t, a, name, ns, d)
    BY <1>2, <2>6 DEF Renamed, SameTypes, TypeName
  <2>8. ClassRenamed(c, r, name, ns, d)
    BY <1>2, <2>6 DEF ClassRenamed, SameButTypes, SameClasses
  <2>9. RelationFollows(c, c.pg_type[t].typrelid, name, ns, d)
    BY <1>1, <2>1, <2>8 DEF RelationFollows
  <2>11. Ties(d)
    BY <1>1, <2>1, <2>2, <2>7, <2>9, <2>10, RenamedTies
  <2>12. OnlyNames(c, d)
    BY <1>1, <1>2, <1>4, <2>1, <2>2, <2>6, <2>7, RenamedRows DEF OnlyNames, SameButTypes, SameClasses, ClassRenamed
  <2>13. QED
    BY <1>6, <2>7, <2>8, <2>11, <2>12, OnlyNamesBase DEF t, a
<1>7. QED
  BY <1>5, <1>6

-----------------------------------------------------------------------------
(* What a statement drops: the types T, the relations R, the rows of        *)
(* pg_depend that name an object of O, and columns with a type of C.        *)

NamesOf(c, T) == {TypeName(c, t) : t \in T \cap DOMAIN c.pg_type}

Shrunk(c, C, T, R, O, d) ==
    /\ IsCatalog(d) /\ d.next_oid = c.next_oid
    /\ Less(c.pg_type, T, d.pg_type)
    /\ Less(c.type_by_qname, NamesOf(c, T), d.type_by_qname)
    /\ Less(c.pg_enum, T, d.pg_enum)
    /\ Less(c.pg_range, T, d.pg_range)
    /\ Less(c.pg_class, R, d.pg_class)
    /\ Less(c.pg_rewrite, R, d.pg_rewrite)
    /\ DOMAIN d.pg_attribute = DOMAIN c.pg_attribute \ R
    /\ \A r \in DOMAIN d.pg_attribute : /\ d.pg_attribute[r] \subseteq c.pg_attribute[r]
                                        /\ c.pg_attribute[r] \ C \subseteq d.pg_attribute[r]
    /\ d.pg_depend = {e \in c.pg_depend : e.objid \notin O /\ e.refobjid \notin O}
    /\ DOMAIN d.pg_cast \subseteq DOMAIN c.pg_cast
    /\ DOMAIN d.pg_extension \subseteq DOMAIN c.pg_extension
    /\ \A e \in DOMAIN d.pg_extension : d.pg_extension[e] = c.pg_extension[e]
    /\ d.pg_namespace \subseteq c.pg_namespace

LEMMA LessAgain ==
    ASSUME NEW f, NEW S, NEW g, Less(f, S, g), NEW T, NEW h, Less(g, T, h)
    PROVE  Less(f, S \cup T, h)
BY DEF Less

LEMMA ShrunkAgain ==
    ASSUME NEW c, NEW C, NEW T, NEW R, NEW O, NEW d, Shrunk(c, C, T, R, O, d),
           NEW C2, NEW T2, NEW R2, NEW O2, NEW e, Shrunk(d, C2, T2, R2, O2, e)
    PROVE  Shrunk(c, C \cup C2, T \cup T2, R \cup R2, O \cup O2, e)
<1>1. /\ Less(c.pg_type, T \cup T2, e.pg_type)
      /\ Less(c.pg_enum, T \cup T2, e.pg_enum)
      /\ Less(c.pg_range, T \cup T2, e.pg_range)
      /\ Less(c.pg_class, R \cup R2, e.pg_class)
      /\ Less(c.pg_rewrite, R \cup R2, e.pg_rewrite)
  <2>1. Less(c.pg_type, T, d.pg_type) /\ Less(d.pg_type, T2, e.pg_type)
    BY DEF Shrunk
  <2>2. Less(c.pg_enum, T, d.pg_enum) /\ Less(d.pg_enum, T2, e.pg_enum)
    BY DEF Shrunk
  <2>3. Less(c.pg_range, T, d.pg_range) /\ Less(d.pg_range, T2, e.pg_range)
    BY DEF Shrunk
  <2>4. Less(c.pg_class, R, d.pg_class) /\ Less(d.pg_class, R2, e.pg_class)
    BY DEF Shrunk
  <2>5. Less(c.pg_rewrite, R, d.pg_rewrite) /\ Less(d.pg_rewrite, R2, e.pg_rewrite)
    BY DEF Shrunk
  <2>6. QED
    BY <2>1, <2>2, <2>3, <2>4, <2>5, LessAgain
<1>2. Less(c.type_by_qname, NamesOf(c, T \cup T2), e.type_by_qname)
  <2>1. NamesOf(c, T \cup T2) = NamesOf(c, T) \cup NamesOf(d, T2)
    <3>1. DOMAIN d.pg_type = DOMAIN c.pg_type \ T
          /\ \A t \in DOMAIN d.pg_type : d.pg_type[t] = c.pg_type[t]
      BY DEF Shrunk, Less
    <3>2. QED
      BY <3>1 DEF NamesOf, TypeName
  <2>2. /\ Less(c.type_by_qname, NamesOf(c, T), d.type_by_qname)
        /\ Less(d.type_by_qname, NamesOf(d, T2), e.type_by_qname)
    BY DEF Shrunk
  <2>3. Less(c.type_by_qname, NamesOf(c, T) \cup NamesOf(d, T2), e.type_by_qname)
    BY <2>2, LessAgain
  <2>4. QED
    BY <2>1, <2>3
<1>3. /\ DOMAIN e.pg_attribute = DOMAIN c.pg_attribute \ (R \cup R2)
      /\ \A r \in DOMAIN e.pg_attribute : /\ e.pg_attribute[r] \subseteq c.pg_attribute[r]
                                          /\ c.pg_attribute[r] \ (C \cup C2) \subseteq e.pg_attribute[r]
  BY DEF Shrunk
<1>4. e.pg_depend = {x \in c.pg_depend : x.objid \notin O \cup O2 /\ x.refobjid \notin O \cup O2}
  BY DEF Shrunk
<1>5. /\ IsCatalog(e) /\ e.next_oid = c.next_oid
      /\ DOMAIN e.pg_cast \subseteq DOMAIN c.pg_cast
      /\ DOMAIN e.pg_extension \subseteq DOMAIN c.pg_extension
      /\ \A x \in DOMAIN e.pg_extension : e.pg_extension[x] = c.pg_extension[x]
      /\ e.pg_namespace \subseteq c.pg_namespace
  BY DEF Shrunk
<1>6. QED
  BY <1>1, <1>2, <1>3, <1>4, <1>5 DEF Shrunk

LEMMA WithoutLess ==
    ASSUME NEW f, NEW S
    PROVE  Less(f, S, Without(f, S))
BY DEF Without, Less

LEMMA LessNone ==
    ASSUME NEW f
    PROVE  Less(f, {}, f)
BY DEF Less

\* The steps of a DROP, one by one.
LEMMA RemoveTypes ==
    ASSUME NEW c, IsCatalog(c), NEW T
    PROVE  Shrunk(c, {}, T, {}, {}, remove_pg_type(c, T))
<1> DEFINE d == remove_pg_type(c, T)
<1>1. /\ IsCatalog(d) /\ d.next_oid = c.next_oid
      /\ d.pg_type = Without(c.pg_type, T)
      /\ d.type_by_qname = Without(c.type_by_qname, NamesOf(c, T))
      /\ d.pg_enum = Without(c.pg_enum, T) /\ d.pg_range = Without(c.pg_range, T)
      /\ d.pg_class = c.pg_class /\ d.pg_rewrite = c.pg_rewrite /\ d.pg_attribute = c.pg_attribute
      /\ d.pg_depend = c.pg_depend /\ d.pg_cast = c.pg_cast /\ d.pg_extension = c.pg_extension
      /\ d.pg_namespace = c.pg_namespace
  BY DEF IsCatalog, Fields, remove_pg_type, NamesOf
<1> HIDE DEF d
<1>2. QED
  BY <1>1, WithoutLess, LessNone DEF Shrunk, d

LEMMA RemoveRows ==
    ASSUME NEW c, IsCatalog(c), NEW O
    PROVE  Shrunk(c, {}, {}, {}, O, remove_dependencies(c, O))
<1> DEFINE d == remove_dependencies(c, O)
<1>1. /\ IsCatalog(d) /\ d.next_oid = c.next_oid
      /\ SameTypes(c, d)
      /\ d.pg_enum = c.pg_enum /\ d.pg_range = c.pg_range
      /\ d.pg_class = c.pg_class /\ d.pg_rewrite = c.pg_rewrite /\ d.pg_attribute = c.pg_attribute
      /\ d.pg_depend = {e \in c.pg_depend : e.objid \notin O /\ e.refobjid \notin O}
      /\ d.pg_cast = c.pg_cast /\ d.pg_extension = c.pg_extension /\ d.pg_namespace = c.pg_namespace
  BY DEF IsCatalog, Fields, remove_dependencies, SameTypes
<1> HIDE DEF d
<1>2. NamesOf(c, {}) = {}
  BY DEF NamesOf
<1>3. QED
  BY <1>1, <1>2, LessNone DEF Shrunk, SameTypes, d

LEMMA RemoveClasses ==
    ASSUME NEW c, IsCatalog(c), NEW R,
           NEW d, d = [c EXCEPT !.class_by_qname = Without(@, {RelationName(c, r) : r \in R}),
                                !.pg_class = Without(@, R),
                                !.pg_attribute = Without(@, R),
                                !.pg_rewrite = Without(@, R)]
    PROVE  Shrunk(c, {}, {}, R, {}, d)
<1>1. /\ IsCatalog(d) /\ d.next_oid = c.next_oid
      /\ SameTypes(c, d)
      /\ d.pg_enum = c.pg_enum /\ d.pg_range = c.pg_range
      /\ d.pg_class = Without(c.pg_class, R) /\ d.pg_rewrite = Without(c.pg_rewrite, R)
      /\ d.pg_attribute = Without(c.pg_attribute, R)
      /\ d.pg_depend = c.pg_depend
      /\ d.pg_cast = c.pg_cast /\ d.pg_extension = c.pg_extension /\ d.pg_namespace = c.pg_namespace
  BY DEF IsCatalog, Fields, SameTypes
<1>2. NamesOf(c, {}) = {}
  BY DEF NamesOf
<1>3. /\ DOMAIN d.pg_attribute = DOMAIN c.pg_attribute \ R
      /\ \A r \in DOMAIN d.pg_attribute : d.pg_attribute[r] = c.pg_attribute[r]
  BY <1>1 DEF Without
<1>4. QED
  BY <1>1, <1>2, <1>3, WithoutLess, LessNone DEF Shrunk, SameTypes

LEMMA RemoveColumns ==
    ASSUME NEW c, IsCatalog(c), NEW C
    PROVE  /\ Shrunk(c, C, {}, {}, {}, drop_columns(c, C))
           /\ drop_columns(c, C).pg_attribute = [r \in DOMAIN c.pg_attribute |-> c.pg_attribute[r] \ C]
<1> DEFINE d == drop_columns(c, C)
<1>1. /\ IsCatalog(d) /\ d.next_oid = c.next_oid
      /\ SameTypes(c, d)
      /\ d.pg_enum = c.pg_enum /\ d.pg_range = c.pg_range
      /\ d.pg_class = c.pg_class /\ d.pg_rewrite = c.pg_rewrite
      /\ d.pg_attribute = [r \in DOMAIN c.pg_attribute |-> c.pg_attribute[r] \ C]
      /\ d.pg_depend = c.pg_depend
      /\ d.pg_cast = c.pg_cast /\ d.pg_extension = c.pg_extension /\ d.pg_namespace = c.pg_namespace
  BY DEF IsCatalog, Fields, SameTypes, drop_columns
<1> HIDE DEF d
<1>2. NamesOf(c, {}) = {}
  BY DEF NamesOf
<1>3. QED
  BY <1>1, <1>2, LessNone DEF Shrunk, SameTypes, d

LEMMA DropRelationsShrinks ==
    ASSUME NEW c, IsCatalog(c), NEW S
    PROVE  Shrunk(c, {}, RowTypes(c, S), S, S, drop_relations(c, S))
<1> DEFINE d1 == [c EXCEPT !.class_by_qname = Without(@, {RelationName(c, r) : r \in S}),
                           !.pg_class = Without(@, S),
                           !.pg_attribute = Without(@, S),
                           !.pg_rewrite = Without(@, S)]
           d2 == remove_dependencies(d1, S)
           d3 == remove_pg_type(d2, RowTypes(c, S))
<1>1. drop_relations(c, S) = d3
  BY DEF drop_relations
<1>2. Shrunk(c, {}, {}, S, {}, d1)
  BY RemoveClasses
<1> HIDE DEF d1
<1>3. Shrunk(d1, {}, {}, {}, S, d2)
  BY <1>2, RemoveRows DEF Shrunk
<1> HIDE DEF d2
<1>4. Shrunk(d2, {}, RowTypes(c, S), {}, {}, d3)
  BY <1>3, RemoveTypes DEF Shrunk
<1> HIDE DEF d3
<1>5. Shrunk(c, {} \cup {}, {} \cup {}, S \cup {}, {} \cup S, d2)
  BY <1>2, <1>3, ShrunkAgain
<1>6. Shrunk(c, {}, {}, S, S, d2)
  BY <1>5
<1>7. Shrunk(c, {} \cup {}, {} \cup RowTypes(c, S), S \cup {}, S \cup {}, d3)
  BY <1>4, <1>6, ShrunkAgain
<1>8. QED
  BY <1>1, <1>7

-----------------------------------------------------------------------------
(* A statement that drops whole types and relations keeps Base.             *)

\* A type goes with its array and its relation, and a relation with its row type.
Whole(c, T, R) ==
    /\ \A t \in T \cap DOMAIN c.pg_type :
          /\ c.pg_type[t].typarray # None => c.pg_type[t].typarray \in T
          /\ c.pg_type[t].typelem # None => c.pg_type[t].typelem \in T
          /\ c.pg_type[t].typrelid # None => c.pg_type[t].typrelid \in R
    /\ \A r \in R \cap DOMAIN c.pg_class : c.pg_class[r].reltype # None => c.pg_class[r].reltype \in T

LEMMA WholeUnion ==
    ASSUME NEW c, NEW T, NEW R, Whole(c, T, R), NEW T2, NEW R2, Whole(c, T2, R2)
    PROVE  Whole(c, T \cup T2, R \cup R2)
BY DEF Whole

\* t is the row type of a relation, or the array of one.
OfRelation(c, t) ==
    \/ c.pg_type[t].typrelid # None
    \/ c.pg_type[t].typelem # None /\ c.pg_type[c.pg_type[t].typelem].typrelid # None

LEMMA RowTypesWhole ==
    ASSUME NEW c, Ties(c), NEW S, S \subseteq DOMAIN c.pg_class
    PROVE  /\ Whole(c, RowTypes(c, S), S)
           /\ RowTypes(c, S) \subseteq DOMAIN c.pg_type
           /\ \A t \in RowTypes(c, S) : OfRelation(c, t)
<1>1. ASSUME NEW t \in RowTypes(c, S)
      PROVE  \E r \in S : /\ c.pg_class[r].reltype \in DOMAIN c.pg_type
                          /\ c.pg_type[c.pg_class[r].reltype].typrelid = r /\ r # None
                          /\ \/ t = c.pg_class[r].reltype
                             \/ /\ t # None /\ t = c.pg_type[c.pg_class[r].reltype].typarray
                                /\ HasArray(c, c.pg_class[r].reltype, t)
                                /\ c.pg_type[t].typrelid = None /\ c.pg_type[t].typarray = None
  <2>1. PICK r \in S : t \in Both(c, c.pg_class[r].reltype)
    BY DEF RowTypes
  <2> DEFINE u == c.pg_class[r].reltype
  <2>2. u # None
    <3>1. u = None => array_type_of(c, u) = None
      BY DEF array_type_of, Ties, Rows
    <3>2. QED
      BY <2>1, <3>1 DEF Both
  <2>3. u \in DOMAIN c.pg_type /\ c.pg_type[u].typrelid = r /\ r # None
    BY <2>2 DEF Ties, RowTypesTied, Rows
  <2>4. t = u \/ (t # None /\ t = c.pg_type[u].typarray)
    BY <2>1, <2>3 DEF Both, array_type_of
  <2>5. t # u => HasArray(c, u, t) /\ c.pg_type[t].typrelid = None /\ c.pg_type[t].typarray = None
    BY <2>3, <2>4 DEF Ties, ArraysTied, HasArray, Rows
  <2>6. QED
    BY <2>3, <2>4, <2>5
<1>2. RowTypes(c, S) \subseteq DOMAIN c.pg_type
  BY <1>1 DEF HasArray
<1>3. ASSUME NEW r \in S, c.pg_class[r].reltype # None
      PROVE  /\ c.pg_class[r].reltype \in RowTypes(c, S)
             /\ c.pg_class[r].reltype \in DOMAIN c.pg_type
             /\ c.pg_type[c.pg_class[r].reltype].typarray # None =>
                   c.pg_type[c.pg_class[r].reltype].typarray \in RowTypes(c, S)
  <2> DEFINE u == c.pg_class[r].reltype
             v == c.pg_type[u].typarray
  <2>1. u \in DOMAIN c.pg_type
    BY <1>3 DEF Ties, RowTypesTied
  <2>2. u \in Both(c, u) /\ (v # None => v \in Both(c, u))
    BY <1>3, <2>1 DEF Both, array_type_of
  <2>3. Both(c, u) \subseteq RowTypes(c, S)
    BY <1>3 DEF RowTypes
  <2>4. QED
    BY <2>1, <2>2, <2>3
<1>4. ASSUME NEW t \in RowTypes(c, S)
      PROVE  /\ c.pg_type[t].typarray # None => c.pg_type[t].typarray \in RowTypes(c, S)
             /\ c.pg_type[t].typelem # None => c.pg_type[t].typelem \in RowTypes(c, S)
             /\ c.pg_type[t].typrelid # None => c.pg_type[t].typrelid \in S
             /\ OfRelation(c, t)
  <2>1. PICK r \in S : /\ c.pg_class[r].reltype \in DOMAIN c.pg_type
                       /\ c.pg_type[c.pg_class[r].reltype].typrelid = r /\ r # None
                       /\ \/ t = c.pg_class[r].reltype
                          \/ /\ t # None /\ t = c.pg_type[c.pg_class[r].reltype].typarray
                             /\ HasArray(c, c.pg_class[r].reltype, t)
                             /\ c.pg_type[t].typrelid = None /\ c.pg_type[t].typarray = None
    BY <1>1
  <2>2. c.pg_class[r].reltype # None
    BY <2>1 DEF Ties, Rows
  <2>3. CASE t = c.pg_class[r].reltype
    BY <1>3, <2>1, <2>2, <2>3 DEF Ties, ArraysTied, OfRelation
  <2>4. CASE t # c.pg_class[r].reltype
    BY <1>3, <2>1, <2>2, <2>4 DEF HasArray, OfRelation
  <2>5. QED
    BY <2>3, <2>4
<1>5. Whole(c, RowTypes(c, S), S)
  BY <1>3, <1>4 DEF Whole
<1>6. QED
  BY <1>2, <1>4, <1>5

LEMMA ShrunkTies ==
    ASSUME NEW c, Ties(c), NEW C, NEW T, NEW R, NEW O, Whole(c, T, R), NEW d, Shrunk(c, C, T, R, O, d)
    PROVE  Ties(d)
<1>1. /\ DOMAIN d.pg_type = DOMAIN c.pg_type \ T
      /\ \A t \in DOMAIN d.pg_type : d.pg_type[t] = c.pg_type[t] /\ TypeName(d, t) = TypeName(c, t)
      /\ DOMAIN d.pg_class = DOMAIN c.pg_class \ R
      /\ \A r \in DOMAIN d.pg_class : d.pg_class[r] = c.pg_class[r] /\ RelationName(d, r) = RelationName(c, r)
  BY DEF Shrunk, Less, TypeName, RelationName
<1>2. Rows(d)
  BY <1>1 DEF Ties, Rows
<1>3. NamesTied(d)
  <2>1. /\ DOMAIN d.type_by_qname = DOMAIN c.type_by_qname \ NamesOf(c, T)
        /\ \A q \in DOMAIN d.type_by_qname : d.type_by_qname[q] = c.type_by_qname[q]
    BY DEF Shrunk, Less
  <2>2. \A q \in DOMAIN d.type_by_qname : c.type_by_qname[q] \notin T
    BY <2>1 DEF NamesOf, Ties, NamesTied
  <2>3. \A t \in DOMAIN d.pg_type : TypeName(c, t) \notin NamesOf(c, T)
    BY <1>1 DEF NamesOf, Ties, NamesTied
  <2>4. QED
    BY <1>1, <2>1, <2>2, <2>3 DEF Ties, NamesTied
<1>4. ArraysTied(d)
  <2>1. ASSUME NEW t \in DOMAIN d.pg_type
        PROVE  /\ c.pg_type[t].typarray # None => c.pg_type[t].typarray \in DOMAIN d.pg_type
               /\ c.pg_type[t].typelem # None => c.pg_type[t].typelem \in DOMAIN d.pg_type
    <3>1. t \in DOMAIN c.pg_type /\ t \notin T /\ t # None
      BY <1>1 DEF Ties, Rows
    <3>2. c.pg_type[t].typarray # None =>
             c.pg_type[t].typarray \in DOMAIN c.pg_type /\ c.pg_type[c.pg_type[t].typarray].typelem = t
      BY <3>1 DEF Ties, ArraysTied, HasArray
    <3>3. c.pg_type[t].typelem # None =>
             c.pg_type[t].typelem \in DOMAIN c.pg_type /\ c.pg_type[c.pg_type[t].typelem].typarray = t
      BY <3>1 DEF Ties, ArraysTied
    <3>4. QED
      BY <1>1, <3>1, <3>2, <3>3 DEF Whole
  <2>2. QED
    BY <1>1, <2>1 DEF Ties, ArraysTied, HasArray
<1>5. RowTypesTied(d)
  <2>1. ASSUME NEW t \in DOMAIN d.pg_type, c.pg_type[t].typrelid # None
        PROVE  c.pg_type[t].typrelid \in DOMAIN d.pg_class
    <3>1. t \in DOMAIN c.pg_type /\ t \notin T /\ t # None
      BY <1>1 DEF Ties, Rows
    <3>2. /\ c.pg_type[t].typrelid \in DOMAIN c.pg_class
          /\ c.pg_class[c.pg_type[t].typrelid].reltype = t
      BY <2>1, <3>1 DEF Ties, RowTypesTied
    <3>3. QED
      BY <1>1, <3>1, <3>2 DEF Whole
  <2>2. ASSUME NEW r \in DOMAIN d.pg_class, c.pg_class[r].reltype # None
        PROVE  c.pg_class[r].reltype \in DOMAIN d.pg_type
    <3>1. r \in DOMAIN c.pg_class /\ r \notin R /\ r # None
      BY <1>1 DEF Ties, Rows
    <3>2. /\ c.pg_class[r].reltype \in DOMAIN c.pg_type
          /\ c.pg_type[c.pg_class[r].reltype].typrelid = r
      BY <2>2, <3>1 DEF Ties, RowTypesTied
    <3>3. QED
      BY <1>1, <3>1, <3>2 DEF Whole
  <2>3. QED
    BY <1>1, <2>1, <2>2 DEF Ties, RowTypesTied
<1>6. QED
  BY <1>2, <1>3, <1>4, <1>5 DEF Ties

LEMMA ShrunkBase ==
    ASSUME NEW c, Base(c), NEW C, NEW T, NEW R, NEW O, Whole(c, T, R), NEW d, Shrunk(c, C, T, R, O, d),
           O \cap DOMAIN d.pg_type = {}, R \cap DOMAIN c.pg_class \subseteq O
    PROVE  Base(d)
<1>1. Ties(d)
  BY ShrunkTies DEF Base
<1>2. /\ DOMAIN d.pg_type = DOMAIN c.pg_type \ T
      /\ \A t \in DOMAIN d.pg_type : d.pg_type[t] = c.pg_type[t]
      /\ DOMAIN d.pg_class = DOMAIN c.pg_class \ R
      /\ d.pg_depend = {e \in c.pg_depend : e.objid \notin O /\ e.refobjid \notin O}
      /\ d.next_oid = c.next_oid
  BY DEF Shrunk, Less
<1>3. Fresh(d)
  BY <1>2 DEF Base, Fresh, Shrunk
<1>4. MembersWhole(d)
  <2>1. ASSUME NEW g \in Tagged(d)
        PROVE  Member(d, g.objid, extension_objects(d, g.refobjid))
    <3> DEFINE x == g.refobjid
               t == g.objid
    <3>1. g \in Tagged(c) /\ x \notin O
      BY <1>2 DEF Tagged
    <3>2. Member(c, t, extension_objects(c, x))
      BY <3>1 DEF Base, MembersWhole
    <3>3. extension_objects(c, x) \ O \subseteq extension_objects(d, x)
      BY <1>2, <3>1 DEF extension_objects
    <3>4. CASE t \notin DOMAIN d.pg_type
      BY <1>2, <3>2, <3>4 DEF Member
    <3>5. CASE t \in DOMAIN d.pg_type
      <4>1. /\ d.pg_type[t].typarray # None => d.pg_type[t].typarray \in DOMAIN d.pg_type
            /\ d.pg_type[t].typelem # None => d.pg_type[t].typelem \in DOMAIN d.pg_type
        BY <1>1, <3>5 DEF Ties, ArraysTied, HasArray
      <4>2. QED
        BY <1>2, <3>2, <3>3, <3>5, <4>1 DEF Member
    <3>6. QED
      BY <3>4, <3>5
  <2>2. QED
    BY <2>1 DEF MembersWhole
<1>5. ViewRows(d)
  BY <1>2 DEF Base, ViewRows
<1>6. QED
  BY <1>1, <1>3, <1>4, <1>5 DEF Base, Shrunk

-----------------------------------------------------------------------------
(* The four statements that drop.                                           *)

\* The views that go are closed: whatever reads one of them goes too.
LEMMA TransitiveViews ==
    ASSUME NEW c, NEW S, NEW views, views = transitive_views(c, S)
    PROVE  /\ S \subseteq views /\ views \subseteq S \cup DOMAIN c.pg_class
           /\ \A v \in DOMAIN c.pg_class : v \in find_dependent_views(c, views) => v \in views
<1> DEFINE all       == S \cup DOMAIN c.pg_class
           Closed(T) == S \subseteq T /\ find_dependent_views(c, T) \subseteq T
<1>1. \A v : v \in views <=> v \in all /\ \A T \in SUBSET all : Closed(T) => v \in T
  BY DEF transitive_views
<1>2. \A T \in SUBSET all : Closed(T) => views \subseteq T
  BY <1>1
<1>3. ASSUME NEW T \in SUBSET all, Closed(T)
      PROVE  find_dependent_views(c, views) \subseteq T
  <2>1. views \subseteq T
    BY <1>2, <1>3
  <2>2. find_dependent_views(c, views) \subseteq find_dependent_views(c, T)
    BY <2>1 DEF find_dependent_views
  <2>3. QED
    BY <1>3, <2>2
<1>4. S \subseteq views
  BY <1>1
<1>5. ASSUME NEW v \in DOMAIN c.pg_class, v \in find_dependent_views(c, views)
      PROVE  v \in views
  <2> HIDE DEF Closed
  <2>1. \A T \in SUBSET all : Closed(T) => v \in T
    BY <1>3, <1>5
  <2>2. QED
    BY <1>1, <2>1
<1>6. QED
  BY <1>1, <1>4, <1>5

\* Steps that Base and the rows of types do not see.
LEMMA RemoveCasts ==
    ASSUME NEW c, IsCatalog(c), NEW S
    PROVE  Shrunk(c, {}, {}, {}, {}, remove_pg_cast(c, S))
<1> DEFINE d == remove_pg_cast(c, S)
<1>1. /\ IsCatalog(d) /\ d.next_oid = c.next_oid
      /\ SameTypes(c, d)
      /\ d.pg_enum = c.pg_enum /\ d.pg_range = c.pg_range
      /\ d.pg_class = c.pg_class /\ d.pg_rewrite = c.pg_rewrite /\ d.pg_attribute = c.pg_attribute
      /\ d.pg_depend = c.pg_depend
      /\ d.pg_cast = Without(c.pg_cast, S)
      /\ d.pg_extension = c.pg_extension /\ d.pg_namespace = c.pg_namespace
  BY DEF IsCatalog, Fields, remove_pg_cast, SameTypes
<1> HIDE DEF d
<1>2. NamesOf(c, {}) = {}
  BY DEF NamesOf
<1>3. d.pg_depend = {e \in c.pg_depend : e.objid \notin {} /\ e.refobjid \notin {}}
  BY <1>1
<1>4. DOMAIN d.pg_cast \subseteq DOMAIN c.pg_cast
  BY <1>1 DEF Without
<1>5. QED
  BY <1>1, <1>2, <1>3, <1>4, LessNone DEF Shrunk, SameTypes, d

LEMMA RemoveExtension ==
    ASSUME NEW c, IsCatalog(c), NEW S
    PROVE  Shrunk(c, {}, {}, {}, {}, [c EXCEPT !.pg_extension = Without(@, S)])
<1> DEFINE d == [c EXCEPT !.pg_extension = Without(@, S)]
<1>1. /\ IsCatalog(d) /\ d.next_oid = c.next_oid
      /\ SameTypes(c, d)
      /\ d.pg_enum = c.pg_enum /\ d.pg_range = c.pg_range
      /\ d.pg_class = c.pg_class /\ d.pg_rewrite = c.pg_rewrite /\ d.pg_attribute = c.pg_attribute
      /\ d.pg_depend = c.pg_depend
      /\ d.pg_cast = c.pg_cast
      /\ d.pg_extension = Without(c.pg_extension, S) /\ d.pg_namespace = c.pg_namespace
  BY DEF IsCatalog, Fields, SameTypes
<1> HIDE DEF d
<1>2. NamesOf(c, {}) = {}
  BY DEF NamesOf
<1>3. d.pg_depend = {e \in c.pg_depend : e.objid \notin {} /\ e.refobjid \notin {}}
  BY <1>1
<1>4. /\ DOMAIN d.pg_extension \subseteq DOMAIN c.pg_extension
      /\ \A e \in DOMAIN d.pg_extension : d.pg_extension[e] = c.pg_extension[e]
  BY <1>1 DEF Without
<1>5. QED
  BY <1>1, <1>2, <1>3, <1>4, LessNone DEF Shrunk, SameTypes, d

LEMMA RemoveNamespace ==
    ASSUME NEW c, IsCatalog(c), NEW s
    PROVE  Shrunk(c, {}, {}, {}, {}, [c EXCEPT !.pg_namespace = @ \ {s}])
<1> DEFINE d == [c EXCEPT !.pg_namespace = @ \ {s}]
<1>1. /\ IsCatalog(d) /\ d.next_oid = c.next_oid
      /\ SameTypes(c, d)
      /\ d.pg_enum = c.pg_enum /\ d.pg_range = c.pg_range
      /\ d.pg_class = c.pg_class /\ d.pg_rewrite = c.pg_rewrite /\ d.pg_attribute = c.pg_attribute
      /\ d.pg_depend = c.pg_depend
      /\ d.pg_cast = c.pg_cast
      /\ d.pg_extension = c.pg_extension /\ d.pg_namespace = c.pg_namespace \ {s}
  BY DEF IsCatalog, Fields, SameTypes
<1> HIDE DEF d
<1>2. NamesOf(c, {}) = {}
  BY DEF NamesOf
<1>3. d.pg_depend = {e \in c.pg_depend : e.objid \notin {} /\ e.refobjid \notin {}}
  BY <1>1
<1>4. QED
  BY <1>1, <1>2, <1>3, LessNone DEF Shrunk, SameTypes, d

LEMMA DropRelationBase ==
    ASSUME NEW c, Base(c), NEW S, S \subseteq DOMAIN c.pg_class,
           NEW views, views = transitive_views(c, S),
           NEW d, d = drop_views(c, S)
    PROVE  /\ Shrunk(c, {}, RowTypes(c, views), views, views, d)
           /\ views \subseteq DOMAIN c.pg_class
           /\ Base(d)
<1>1. d = drop_relations(c, views) /\ IsCatalog(c) /\ Ties(c)
  BY DEF drop_views, Base
<1>2. Shrunk(c, {}, RowTypes(c, views), views, views, d)
  BY <1>1, DropRelationsShrinks
<1>3. views \subseteq DOMAIN c.pg_class
  BY TransitiveViews
<1>4. Whole(c, RowTypes(c, views), views)
  BY <1>1, <1>3, RowTypesWhole
<1>5. DOMAIN d.pg_type \subseteq DOMAIN c.pg_type
  BY <1>2 DEF Shrunk, Less
<1>6. views \cap DOMAIN d.pg_type = {}
  BY <1>3, <1>5 DEF Base, Fresh
<1>7. Base(d)
  BY <1>2, <1>4, <1>6, ShrunkBase
<1>8. QED
  BY <1>2, <1>3, <1>7

LEMMA DropExtensionBase ==
    ASSUME NEW c, Base(c), NEW e \in DOMAIN c.pg_extension,
           NEW ext, ext = c.pg_extension[e].oid,
           NEW owned, owned = extension_objects(c, ext),
           NEW d, d = LET b == remove_pg_cast(remove_pg_type(c, owned), owned)
                      IN  [remove_dependencies(b, owned \cup {ext}) EXCEPT !.pg_extension = Without(@, {e})]
    PROVE  /\ Shrunk(c, {}, owned, {}, owned \cup {ext}, d)
           /\ owned \cap DOMAIN c.pg_class = {}
           /\ Base(d)
<1> DEFINE O  == owned \cup {ext}
           d1 == remove_pg_type(c, owned)
           d2 == remove_pg_cast(d1, owned)
           d3 == remove_dependencies(d2, O)
           d4 == [d3 EXCEPT !.pg_extension = Without(@, {e})]
<1>1. d = d4
  OBVIOUS
<1> HIDE DEF O
<1>2. Shrunk(c, {}, owned, {}, {}, d1)
  BY RemoveTypes DEF Base
<1> HIDE DEF d1
<1>3. Shrunk(d1, {}, {}, {}, {}, d2)
  <2>1. IsCatalog(d1)
    BY <1>2 DEF Shrunk
  <2>2. QED
    BY <2>1, RemoveCasts DEF d2
<1> HIDE DEF d2
<1>4. Shrunk(d2, {}, {}, {}, O, d3)
  BY <1>3, RemoveRows DEF Shrunk
<1> HIDE DEF d3
<1>5. Shrunk(d3, {}, {}, {}, {}, d4)
  BY <1>4, RemoveExtension DEF Shrunk
<1> HIDE DEF d4
<1>6. Shrunk(c, {} \cup {}, owned \cup {}, {} \cup {}, {} \cup {}, d2)
  BY <1>2, <1>3, ShrunkAgain
<1>7. Shrunk(c, {}, owned, {}, {}, d2)
  BY <1>6
<1>8. Shrunk(c, {} \cup {}, owned \cup {}, {} \cup {}, {} \cup O, d3)
  BY <1>4, <1>7, ShrunkAgain
<1>9. Shrunk(c, {}, owned, {}, O, d3)
  BY <1>8
<1>10. Shrunk(c, {} \cup {}, owned \cup {}, {} \cup {}, O \cup {}, d4)
  BY <1>5, <1>9, ShrunkAgain
<1>11. Shrunk(c, {}, owned, {}, O, d)
  BY <1>1, <1>10
<1>12. \A t \in owned : Member(c, t, owned)
  BY MemberOf DEF Base
<1>13. Whole(c, owned, {})
  BY <1>12 DEF Member, Whole
<1>14. owned \cap DOMAIN c.pg_class = {}
  BY <1>12 DEF Member
<1>15. ext \notin DOMAIN c.pg_type
  BY DEF Base, Fresh
<1>16. O \cap DOMAIN d.pg_type = {}
  <2>1. DOMAIN d.pg_type = DOMAIN c.pg_type \ owned
    BY <1>11 DEF Shrunk, Less
  <2>2. QED
    BY <1>15, <2>1 DEF O
<1>17. Base(d)
  BY <1>11, <1>13, <1>16, ShrunkBase
<1>18. QED
  BY <1>11, <1>14, <1>17 DEF O

LEMMA SameViews ==
    ASSUME NEW c, NEW d, DOMAIN d.pg_class = DOMAIN c.pg_class, d.pg_depend = c.pg_depend, NEW S
    PROVE  transitive_views(d, S) = transitive_views(c, S)
<1>1. \A T : find_dependent_views(d, T) = find_dependent_views(c, T)
  BY DEF find_dependent_views
<1>2. QED
  BY <1>1 DEF transitive_views

LEMMA DropTypeBase ==
    ASSUME NEW c, Base(c), NEW t \in DOMAIN c.pg_type, c.pg_type[t].typrelid = None,
           c.pg_type[t].typelem = None,
           NEW S, S = Both(c, t),
           NEW views, views = transitive_views(c, find_views_depending_on_type(c, {t})),
           NEW d, d = drop_type(c, t)
    PROVE  /\ Shrunk(c, S, S \cup RowTypes(c, views), views, views \cup S, d)
           /\ \A r \in DOMAIN d.pg_attribute : d.pg_attribute[r] \cap S = {}
           /\ views \subseteq DOMAIN c.pg_class
           /\ Base(d)
<1> DEFINE V  == find_views_depending_on_type(c, {t})
           d1 == drop_columns(c, S)
           d2 == drop_relations(d1, views)
           d3 == remove_pg_type(d2, S)
           d4 == remove_dependencies(d3, S)
<1>1. /\ Shrunk(c, S, {}, {}, {}, d1)
      /\ d1.pg_attribute = [r \in DOMAIN c.pg_attribute |-> c.pg_attribute[r] \ S]
  BY RemoveColumns DEF Base
<1>2. /\ d1.pg_class = c.pg_class /\ d1.pg_type = c.pg_type /\ d1.pg_depend = c.pg_depend
  BY DEF Base, IsCatalog, Fields, drop_columns
<1>3. find_views_depending_on_type(d1, {t}) = V
  BY <1>2 DEF find_views_depending_on_type
<1>4. /\ transitive_views(d1, V) = views
      /\ RowTypes(d1, views) = RowTypes(c, views)
  BY <1>2, SameViews DEF RowTypes, Both, array_type_of
<1>5. d = d4
  <2>1. drop_views(d1, V) = d2
    BY <1>4 DEF drop_views
  <2>2. drop_views(drop_columns(c, S), find_views_depending_on_type(c, {t})) = d2
    BY <2>1
  <2> HIDE DEF d2
  <2>3. QED
    BY <2>2 DEF drop_type
<1> HIDE DEF d1
<1>6. Shrunk(d1, {}, RowTypes(c, views), views, views, d2)
  <2>1. IsCatalog(d1)
    BY <1>1 DEF Shrunk
  <2>2. Shrunk(d1, {}, RowTypes(d1, views), views, views, d2)
    BY <2>1, DropRelationsShrinks
  <2>3. QED
    BY <1>4, <2>2
<1> HIDE DEF d2
<1>7. Shrunk(d2, {}, S, {}, {}, d3)
  <2>1. IsCatalog(d2)
    BY <1>6 DEF Shrunk
  <2>2. QED
    BY <2>1, RemoveTypes
<1> HIDE DEF d3
<1>8. Shrunk(d3, {}, {}, {}, S, d4)
  BY <1>7, RemoveRows DEF Shrunk
<1> HIDE DEF d4
<1> DEFINE W == RowTypes(c, views)
<1> HIDE DEF W
<1>9. Shrunk(d1, {}, W, views, views, d2)
  BY <1>6 DEF W
<1>10. Shrunk(d1, {} \cup {}, W \cup S, views \cup {}, views \cup {}, d3)
  BY <1>7, <1>9, ShrunkAgain
<1>11. Shrunk(d1, {}, W \cup S, views, views, d3)
  BY <1>10
<1>12. Shrunk(d1, {} \cup {}, W \cup S \cup {}, views \cup {}, views \cup S, d4)
  BY <1>8, <1>11, ShrunkAgain
<1>13. Shrunk(d1, {}, S \cup W, views, views \cup S, d)
  <2>1. {} \cup {} = {} /\ W \cup S \cup {} = S \cup W /\ views \cup {} = views
    OBVIOUS
  <2>2. QED
    BY <1>5, <1>12, <2>1
<1>14. Shrunk(c, S \cup {}, {} \cup (S \cup W), {} \cup views, {} \cup (views \cup S), d)
  BY <1>1, <1>13, ShrunkAgain
<1>15. Shrunk(c, S, S \cup W, views, views \cup S, d)
  <2>1. S \cup {} = S /\ {} \cup (S \cup W) = S \cup W /\ {} \cup views = views
        /\ {} \cup (views \cup S) = views \cup S
    OBVIOUS
  <2>2. QED
    BY <1>14, <2>1
<1>16. \A r \in DOMAIN d.pg_attribute : d.pg_attribute[r] \cap S = {}
  <2>1. /\ DOMAIN d.pg_attribute \subseteq DOMAIN d1.pg_attribute
        /\ \A r \in DOMAIN d.pg_attribute : d.pg_attribute[r] \subseteq d1.pg_attribute[r]
    BY <1>13 DEF Shrunk
  <2>2. QED
    BY <1>1, <2>1
<1>17. views \subseteq DOMAIN c.pg_class
  <2>1. V \subseteq DOMAIN c.pg_class
    BY DEF Base, ViewRows, find_views_depending_on_type
  <2>2. QED
    BY <2>1, TransitiveViews
<1>18. Whole(c, S \cup W, {} \cup views)
  <2>1. Whole(c, S, {})
    <3>1. /\ array_type_of(c, t) = c.pg_type[t].typarray
          /\ c.pg_type[t].typarray # None => HasArray(c, t, c.pg_type[t].typarray)
          /\ t # None
      BY DEF array_type_of, Base, Ties, ArraysTied, Rows
    <3>2. ASSUME NEW a, a = c.pg_type[t].typarray, a # None
          PROVE  /\ a \in DOMAIN c.pg_type /\ c.pg_type[a].typelem = t
                 /\ c.pg_type[a].typarray = None /\ c.pg_type[a].typrelid = None
      BY <3>1, <3>2 DEF HasArray, Base, Ties, ArraysTied
    <3>3. QED
      BY <3>1, <3>2 DEF Both, Whole
  <2>2. Whole(c, W, views)
    BY <1>17, RowTypesWhole DEF Base, W
  <2>3. QED
    BY <2>1, <2>2, WholeUnion
<1>19. (views \cup S) \cap DOMAIN d.pg_type = {}
  <2>1. DOMAIN d.pg_type = DOMAIN c.pg_type \ (S \cup W)
    BY <1>15 DEF Shrunk, Less
  <2>2. QED
    BY <1>17, <2>1 DEF Base, Fresh
<1>20. Base(d)
  <2>1. {} \cup views = views
    OBVIOUS
  <2>2. Whole(c, S \cup W, views)
    BY <1>18, <2>1
  <2>3. views \cap DOMAIN c.pg_class \subseteq views \cup S
    OBVIOUS
  <2>4. QED
    BY <1>15, <1>19, <2>2, <2>3, ShrunkBase
<1>21. QED
  BY <1>15, <1>16, <1>17, <1>20 DEF W

\* The types and the relations of a schema.
TypesIn(c, s)     == {t \in DOMAIN c.pg_type : c.pg_type[t].typnamespace = s}
RelationsIn(c, s) == {r \in DOMAIN c.pg_class : c.pg_class[r].relnamespace = s}

LEMMA DropSchemaBase ==
    ASSUME NEW c, Base(c), NEW s,
           NEW types, types = TypesIn(c, s),
           NEW views, views = transitive_views(c, RelationsIn(c, s)),
           NEW d, d = LET b == remove_pg_type(drop_relations(c, views), types)
                      IN  [remove_dependencies(b, types) EXCEPT !.pg_namespace = @ \ {s}]
    PROVE  /\ Shrunk(c, {}, types \cup RowTypes(c, views), views, views \cup types, d)
           /\ views \subseteq DOMAIN c.pg_class
           /\ Base(d)
<1> DEFINE W  == RowTypes(c, views)
           d1 == drop_relations(c, views)
           d2 == remove_pg_type(d1, types)
           d3 == remove_dependencies(d2, types)
           d4 == [d3 EXCEPT !.pg_namespace = @ \ {s}]
<1>1. d = d4
  OBVIOUS
<1>2. Shrunk(c, {}, W, views, views, d1)
  BY DropRelationsShrinks DEF Base
<1> HIDE DEF W, d1
<1>3. Shrunk(d1, {}, types, {}, {}, d2)
  BY <1>2, RemoveTypes DEF Shrunk
<1> HIDE DEF d2
<1>4. Shrunk(d2, {}, {}, {}, types, d3)
  BY <1>3, RemoveRows DEF Shrunk
<1> HIDE DEF d3
<1>5. Shrunk(d3, {}, {}, {}, {}, d4)
  BY <1>4, RemoveNamespace DEF Shrunk
<1> HIDE DEF d4
<1>6. Shrunk(c, {} \cup {}, W \cup types, views \cup {}, views \cup {}, d2)
  BY <1>2, <1>3, ShrunkAgain
<1>7. Shrunk(c, {}, W \cup types, views, views, d2)
  BY <1>6
<1>8. Shrunk(c, {} \cup {}, W \cup types \cup {}, views \cup {}, views \cup types, d3)
  BY <1>4, <1>7, ShrunkAgain
<1>9. Shrunk(c, {}, W \cup types, views, views \cup types, d3)
  BY <1>8
<1>10. Shrunk(c, {} \cup {}, W \cup types \cup {}, views \cup {}, views \cup types \cup {}, d4)
  BY <1>5, <1>9, ShrunkAgain
<1>11. Shrunk(c, {}, types \cup W, views, views \cup types, d)
  <2>1. {} \cup {} = {} /\ W \cup types \cup {} = types \cup W /\ views \cup {} = views
        /\ views \cup types \cup {} = views \cup types
    OBVIOUS
  <2>2. QED
    BY <1>1, <1>10, <2>1
<1>12. RelationsIn(c, s) \subseteq views /\ views \subseteq DOMAIN c.pg_class
  BY TransitiveViews DEF RelationsIn
<1>13. Whole(c, types \cup W, views \cup views)
  <2>1. ASSUME NEW t \in types
        PROVE  /\ c.pg_type[t].typarray # None => c.pg_type[t].typarray \in types
               /\ c.pg_type[t].typelem # None => c.pg_type[t].typelem \in types
               /\ c.pg_type[t].typrelid # None => c.pg_type[t].typrelid \in views
    <3>1. t \in DOMAIN c.pg_type /\ c.pg_type[t].typnamespace = s /\ t # None
      BY <2>1 DEF TypesIn, Base, Ties, Rows
    <3>2. c.pg_type[t].typarray # None => c.pg_type[t].typarray \in types
      BY <3>1 DEF TypesIn, Base, Ties, ArraysTied, HasArray
    <3>3. c.pg_type[t].typelem # None => c.pg_type[t].typelem \in types
      BY <3>1 DEF TypesIn, Base, Ties, ArraysTied, HasArray
    <3>4. c.pg_type[t].typrelid # None => c.pg_type[t].typrelid \in RelationsIn(c, s)
      BY <3>1 DEF RelationsIn, Base, Ties, RowTypesTied, TypeName, RelationName
    <3>5. QED
      BY <1>12, <3>2, <3>3, <3>4
  <2>2. \A r \in views \cap DOMAIN c.pg_class : c.pg_class[r].reltype # None => c.pg_class[r].reltype \in W
    BY <1>12, RowTypesWhole DEF Base, W, Whole
  <2>3. Whole(c, W, views)
    BY <1>12, RowTypesWhole DEF Base, W
  <2>4. QED
    BY <2>1, <2>2, <2>3 DEF Whole
<1>14. (views \cup types) \cap DOMAIN d.pg_type = {}
  <2>1. DOMAIN d.pg_type = DOMAIN c.pg_type \ (types \cup W)
    BY <1>11 DEF Shrunk, Less
  <2>2. QED
    BY <1>12, <2>1 DEF Base, Fresh
<1>15. Base(d)
  <2>1. views \cup views = views
    OBVIOUS
  <2>2. Whole(c, types \cup W, views)
    BY <1>13, <2>1
  <2>3. views \cap DOMAIN c.pg_class \subseteq views \cup types
    OBVIOUS
  <2>4. QED
    BY <1>11, <1>14, <2>2, <2>3, ShrunkBase
<1>16. QED
  BY <1>11, <1>12, <1>15 DEF W
-----------------------------------------------------------------------------
(* The script of an extension.                                              *)

\* Every set of numbers that is not empty has a least one.
LEMMA Least ==
    ASSUME NEW T, T \subseteq Nat, T # {}
    PROVE  \E m \in T : \A k \in T : m <= k
<1> DEFINE R == {p \in Nat \X Nat : p[1] < p[2]}
<1>1. R = OpToRel(<, Nat)
  BY DEF OpToRel
<1>2. IsWellFoundedOn(R, Nat)
  BY <1>1, NatLessThanWellFounded
<1>3. \A k, m \in Nat : <<k, m>> \notin R => m <= k
  OBVIOUS
<1> HIDE DEF R
<1>4. PICK m \in T : \A k \in T : <<k, m>> \notin R
  BY <1>2, WFMin
<1>5. QED
  BY <1>3, <1>4

\* The recursive function that Course is, cut off at m.
Upto(c, script, ns, f, m) ==
    f = [n \in 0..m |-> IF n = 0 THEN c ELSE run_statement(f[n-1], script[n], ns)]

LEMMA CourseSteps ==
    ASSUME NEW c, NEW script, Len(script) \in Nat, NEW ns
    PROVE  LET course == Course(c, script, ns)
           IN  /\ course[0] = c
               /\ \A n \in 1..Len(script) : course[n] = run_statement(course[n-1], script[n], ns)
<1> DEFINE Bad == {m \in Nat : ~ \E f : Upto(c, script, ns, f, m)}
<1>1. ASSUME NEW m \in Nat, NEW f, DOMAIN f = 0..m, f = [n \in 0..m |-> f[n]], f[0] = c,
             \A n \in 1..m : f[n] = run_statement(f[n-1], script[n], ns)
      PROVE  Upto(c, script, ns, f, m)
  <2>1. \A n \in 0..m : f[n] = IF n = 0 THEN c ELSE run_statement(f[n-1], script[n], ns)
    BY <1>1
  <2> DEFINE g == [n \in 0..m |-> IF n = 0 THEN c ELSE run_statement(f[n-1], script[n], ns)]
  <2>2. \A n \in 0..m : f[n] = g[n]
    BY <2>1
  <2>3. f = g
    <3>1. g = [n \in 0..m |-> g[n]]
      OBVIOUS
    <3> HIDE DEF g
    <3>2. QED
      BY <1>1, <2>2, <3>1
  <2>4. QED
    BY <2>3 DEF Upto
<1>2. ASSUME NEW m \in Nat, NEW f, Upto(c, script, ns, f, m)
      PROVE  /\ DOMAIN f = 0..m /\ f[0] = c
             /\ \A n \in 1..m : f[n] = run_statement(f[n-1], script[n], ns)
  BY <1>2 DEF Upto
<1>3. Bad = {}
  <2>1. SUFFICES ASSUME Bad # {} PROVE FALSE
    OBVIOUS
  <2>2. PICK m \in Bad : \A k \in Bad : m <= k
    <3>1. Bad \subseteq Nat
      OBVIOUS
    <3> HIDE DEF Bad
    <3>2. QED
      BY <2>1, <3>1, Least
  <2>3. CASE m = 0
    <3> DEFINE g == [n \in 0..0 |-> c]
    <3>1. Upto(c, script, ns, g, 0)
      <4>1. DOMAIN g = 0..0 /\ g = [n \in 0..0 |-> g[n]] /\ g[0] = c /\ 1..0 = {}
        OBVIOUS
      <4> HIDE DEF g
      <4>2. QED
        BY <1>1, <4>1
    <3>2. QED
      BY <2>2, <2>3, <3>1
  <2>4. CASE m # 0
    <3>1. m - 1 \in Nat /\ m - 1 \notin Bad /\ m \in Nat
      BY <2>2, <2>4
    <3>2. PICK f : Upto(c, script, ns, f, m - 1)
      BY <3>1
    <3>3. /\ f[0] = c
          /\ \A n \in 1..(m-1) : f[n] = run_statement(f[n-1], script[n], ns)
      BY <1>2, <3>1, <3>2
    <3> DEFINE g == [n \in 0..m |-> IF n = m THEN run_statement(f[m-1], script[m], ns) ELSE f[n]]
    <3>4. \A n \in 0..(m-1) : g[n] = f[n]
      BY <3>1
    <3>5. g[m] = run_statement(f[m-1], script[m], ns) /\ DOMAIN g = 0..m /\ g = [n \in 0..m |-> g[n]]
      BY <3>1
    <3> HIDE DEF g
    <3>6. g[0] = c /\ \A n \in 1..m : g[n] = run_statement(g[n-1], script[n], ns)
      <4>1. g[0] = c
        BY <2>4, <3>1, <3>3, <3>4
      <4>2. ASSUME NEW n \in 1..m PROVE g[n] = run_statement(g[n-1], script[n], ns)
        <5>1. n - 1 \in 0..(m-1)
          BY <3>1
        <5>2. g[n-1] = f[n-1]
          BY <3>4, <5>1
        <5>3. CASE n = m
          BY <3>5, <5>2, <5>3
        <5>4. CASE n # m
          <6>1. n \in 1..(m-1) /\ n \in 0..(m-1)
            BY <3>1, <5>4
          <6>2. QED
            BY <3>3, <3>4, <5>2, <6>1
        <5>5. QED
          BY <5>3, <5>4
      <4>3. QED
        BY <4>1, <4>2
    <3>7. Upto(c, script, ns, g, m)
      BY <1>1, <3>1, <3>5, <3>6
    <3>8. QED
      BY <2>2, <3>7
  <2>5. QED
    BY <2>3, <2>4
<1>4. \E f : Upto(c, script, ns, f, Len(script))
  BY <1>3
<1> HIDE DEF Bad
<1>5. Upto(c, script, ns, Course(c, script, ns), Len(script))
  BY <1>4, Zenon DEF Course, Upto
<1>6. QED
  BY <1>2, <1>5

\* The invariant-relevant effect of a script that declares types and casts:
\* what was there stays, and each OID from c to d is a new type or cast.
Scripted(c, d) ==
    /\ SameClasses(c, d)
    /\ d.pg_namespace = c.pg_namespace /\ d.pg_enum = c.pg_enum /\ d.pg_range = c.pg_range
    /\ d.pg_attribute = c.pg_attribute /\ d.pg_rewrite = c.pg_rewrite /\ d.pg_operator = c.pg_operator
    /\ d.pg_depend = c.pg_depend /\ d.pg_extension = c.pg_extension
    /\ c.next_oid \in Nat /\ d.next_oid \in Nat /\ c.next_oid <= d.next_oid
    /\ \A t \in DOMAIN c.pg_type : t \in DOMAIN d.pg_type /\ d.pg_type[t] = c.pg_type[t]
    /\ \A t \in DOMAIN d.pg_type \ DOMAIN c.pg_type :
          /\ t \in c.next_oid..(d.next_oid - 1) /\ d.pg_type[t].typrelid = None
          /\ d.pg_type[t].typtype = "base" /\ d.pg_type[t].typbasetype = None
    /\ DOMAIN c.pg_cast \subseteq DOMAIN d.pg_cast
    /\ \A k \in DOMAIN d.pg_cast \ DOMAIN c.pg_cast : k \in c.next_oid..(d.next_oid - 1)
    /\ \A x \in c.next_oid..(d.next_oid - 1) : x \in DOMAIN d.pg_type \cup DOMAIN d.pg_cast

LEMMA ScriptedOn ==
    ASSUME NEW c, NEW d, Scripted(c, d), NEW e, Scripted(d, e)
    PROVE  Scripted(c, e)
<1>1. /\ SameClasses(c, e)
      /\ e.pg_namespace = c.pg_namespace /\ e.pg_enum = c.pg_enum /\ e.pg_range = c.pg_range
      /\ e.pg_attribute = c.pg_attribute /\ e.pg_rewrite = c.pg_rewrite /\ e.pg_operator = c.pg_operator
      /\ e.pg_depend = c.pg_depend /\ e.pg_extension = c.pg_extension
      /\ c.next_oid \in Nat /\ e.next_oid \in Nat /\ c.next_oid <= e.next_oid
  BY DEF Scripted, SameClasses
<1>2. \A t \in DOMAIN c.pg_type : t \in DOMAIN e.pg_type /\ e.pg_type[t] = c.pg_type[t]
  BY DEF Scripted
<1>3. ASSUME NEW t \in DOMAIN e.pg_type \ DOMAIN c.pg_type
      PROVE  /\ t \in c.next_oid..(e.next_oid - 1) /\ e.pg_type[t].typrelid = None
             /\ e.pg_type[t].typtype = "base" /\ e.pg_type[t].typbasetype = None
  <2>1. CASE t \in DOMAIN d.pg_type
    <3>1. e.pg_type[t] = d.pg_type[t] /\ t \in c.next_oid..(d.next_oid - 1)
      BY <2>1 DEF Scripted
    <3>2. QED
      BY <2>1, <3>1 DEF Scripted
  <2>2. CASE t \notin DOMAIN d.pg_type
    <3>1. t \in d.next_oid..(e.next_oid - 1)
      BY <2>2 DEF Scripted
    <3>2. QED
      BY <2>2, <3>1 DEF Scripted
  <2>3. QED
    BY <2>1, <2>2
<1>4. DOMAIN c.pg_cast \subseteq DOMAIN e.pg_cast
  BY DEF Scripted
<1>5. ASSUME NEW k \in DOMAIN e.pg_cast \ DOMAIN c.pg_cast
      PROVE  k \in c.next_oid..(e.next_oid - 1)
  <2>1. k \in c.next_oid..(d.next_oid - 1) \/ k \in d.next_oid..(e.next_oid - 1)
    BY DEF Scripted
  <2>2. QED
    BY <2>1 DEF Scripted
<1>6. ASSUME NEW x \in c.next_oid..(e.next_oid - 1)
      PROVE  x \in DOMAIN e.pg_type \cup DOMAIN e.pg_cast
  <2>1. x \in c.next_oid..(d.next_oid - 1) \/ x \in d.next_oid..(e.next_oid - 1)
    BY DEF Scripted
  <2>2. DOMAIN d.pg_type \subseteq DOMAIN e.pg_type /\ DOMAIN d.pg_cast \subseteq DOMAIN e.pg_cast
    BY DEF Scripted
  <2>3. QED
    BY <2>1, <2>2 DEF Scripted
<1>7. QED
  BY <1>1, <1>2, <1>3, <1>4, <1>5, <1>6 DEF Scripted

\* A type under a free name, or the definition of a shell.
LEMMA DefineTypeBase ==
    ASSUME NEW c, Base(c), NEW ns, NEW name, array_name(name) # name,
           TypeFree(c, ns, name) => TypeFree(c, ns, array_name(name)),
           NEW d, d = define_type(c, ns, name)
    PROVE  Base(d) /\ Scripted(c, d)
<1> DEFINE row == TypeRow(ns, name, "base")
<1>1. c.next_oid \in Nat /\ IsCatalog(c)
  BY DEF Base, Fresh
<1>2. CASE TypeFree(c, ns, name)
  <2>1. /\ IsTypeRow(row) /\ row.typelem = None /\ row.typrelid = None
        /\ row.typname = name /\ row.typnamespace = ns /\ row.typtype = "base" /\ row.typbasetype = None
    BY DEF TypeRow, IsTypeRow
  <2>2. d = define(c, row)
    BY <1>2 DEF define_type
  <2> HIDE DEF row
  <2>3. Base(d) /\ TypeAdded(c, row, d)
    BY <1>2, <2>1, <2>2, DefineBase
  <2>4. Scripted(c, d)
    <3> DEFINE t == c.next_oid
               a == c.next_oid + 1
    <3>1. /\ DOMAIN d.pg_type = DOMAIN c.pg_type \cup {t, a}
          /\ \A x \in DOMAIN c.pg_type : d.pg_type[x] = c.pg_type[x]
          /\ d.pg_type[t] = [row EXCEPT !.typarray = a]
          /\ d.pg_type[a] = [TypeRow(row.typnamespace, array_name(row.typname), "base") EXCEPT !.typelem = t]
          /\ d.next_oid = c.next_oid + 2
      BY <2>3 DEF TypeAdded, Defined
    <3>2. /\ d.pg_type[t].typrelid = None /\ d.pg_type[t].typtype = "base" /\ d.pg_type[t].typbasetype = None
          /\ d.pg_type[a].typrelid = None /\ d.pg_type[a].typtype = "base" /\ d.pg_type[a].typbasetype = None
      BY <2>1, <3>1 DEF TypeRow, IsTypeRow
    <3>3. t \in c.next_oid..(d.next_oid - 1) /\ a \in c.next_oid..(d.next_oid - 1)
          /\ \A x \in c.next_oid..(d.next_oid - 1) : x = t \/ x = a
      BY <1>1, <3>1
    <3>4. /\ c.next_oid \in Nat /\ d.next_oid \in Nat /\ c.next_oid <= d.next_oid
      BY <1>1, <3>1
    <3> HIDE DEF t, a
    <3>5. /\ \A x \in DOMAIN d.pg_type \ DOMAIN c.pg_type :
                /\ x \in c.next_oid..(d.next_oid - 1) /\ d.pg_type[x].typrelid = None
                /\ d.pg_type[x].typtype = "base" /\ d.pg_type[x].typbasetype = None
          /\ \A x \in c.next_oid..(d.next_oid - 1) : x \in DOMAIN d.pg_type
          /\ \A x \in DOMAIN c.pg_type : x \in DOMAIN d.pg_type /\ d.pg_type[x] = c.pg_type[x]
      BY <3>1, <3>2, <3>3
    <3>6. QED
      BY <2>3, <3>4, <3>5 DEF TypeAdded, SameButTypes, SameClasses, Scripted
  <2>5. QED
    BY <2>3, <2>4
<1>3. CASE ~ TypeFree(c, ns, name)
  BY <1>1, <1>3 DEF define_type, Scripted, SameClasses
<1>4. QED
  BY <1>2, <1>3

LEMMA AddCast ==
    ASSUME NEW c, Base(c), NEW source, NEW target,
           NEW d, d = alloc_oid(insert_pg_cast(c, c.next_oid, source, target), 1)
    PROVE  Base(d) /\ Scripted(c, d)
<1>1. /\ IsCatalog(d) /\ SameTypes(c, d) /\ SameClasses(c, d)
      /\ d.pg_namespace = c.pg_namespace /\ d.pg_enum = c.pg_enum /\ d.pg_range = c.pg_range
      /\ d.pg_attribute = c.pg_attribute /\ d.pg_rewrite = c.pg_rewrite /\ d.pg_operator = c.pg_operator
      /\ d.pg_depend = c.pg_depend /\ d.pg_extension = c.pg_extension
      /\ d.pg_cast = With(c.pg_cast, c.next_oid, <<source, target>>)
      /\ d.next_oid = c.next_oid + 1
  BY DEF Base, IsCatalog, Fields, alloc_oid, insert_pg_cast, SameTypes, SameClasses
<1>2. c.next_oid \in Nat /\ DOMAIN d.pg_cast = DOMAIN c.pg_cast \cup {c.next_oid}
  BY <1>1 DEF With, Base, Fresh
<1>3. Aside(c, d)
  BY <1>1, <1>2 DEF Aside, Base, Fresh
<1>4. Scripted(c, d)
  BY <1>1, <1>2 DEF Scripted, SameTypes
<1>5. QED
  BY <1>3, <1>4, AsideBase

LEMMA RunStatementBase ==
    ASSUME NEW c, Base(c), NEW stmt \in Statement, NEW ns,
           Gaps \cap {"array_name", "extension_parts"} = {}, Accepted(c, stmt, ns),
           NEW d, d = run_statement(c, stmt, ns)
    PROVE  Base(d) /\ Scripted(c, d)
<1>1. /\ stmt.name \in MemberName /\ array_name(stmt.name) # stmt.name
      /\ stmt.op = "type" \/ stmt.op = "cast"
      /\ stmt.op = "type" /\ TypeFree(c, ns, stmt.name) => TypeFree(c, ns, array_name(stmt.name))
  BY TypeObjectsAssumption DEF Statement, Accepted, Gap
<1>2. CASE stmt.op = "type"
  <2>1. d = define_type(c, ns, stmt.name)
    BY <1>2 DEF run_statement
  <2>2. QED
    BY <1>1, <1>2, <2>1, DefineTypeBase
<1>3. CASE stmt.op = "cast"
  <2>1. d = alloc_oid(insert_pg_cast(c, c.next_oid, c.type_by_qname[<<ns, stmt.name>>], Int4), 1)
    BY <1>3 DEF run_statement, Accepted
  <2>2. QED
    BY <2>1, AddCast
<1>4. QED
  BY <1>1, <1>2, <1>3

\* Every prefix of a script that runs keeps the invariant.
LEMMA CourseBase ==
    ASSUME NEW c, Base(c), NEW script \in Seq(Statement), NEW ns,
           Gaps \cap {"array_name", "extension_parts"} = {}, Runs(c, script, ns),
           NEW d, d = apply_with_schema(c, script, ns)
    PROVE  Base(d) /\ Scripted(c, d)
<1> DEFINE N      == Len(script)
           course == Course(c, script, ns)
           Bad    == {n \in 0..N : ~ (Base(course[n]) /\ Scripted(c, course[n]))}
<1>1. N \in Nat /\ DOMAIN script = 1..N
  OBVIOUS
<1>2. /\ course[0] = c
      /\ \A n \in 1..N : course[n] = run_statement(course[n-1], script[n], ns)
  <2>1. Len(script) \in Nat
    BY <1>1
  <2>2. /\ Course(c, script, ns)[0] = c
        /\ \A n \in 1..Len(script) :
              Course(c, script, ns)[n] = run_statement(Course(c, script, ns)[n-1], script[n], ns)
    BY <2>1, CourseSteps
  <2>3. QED
    BY <2>2
<1>3. \A n \in 1..N : Accepted(course[n-1], script[n], ns)
  BY <1>1 DEF Runs
<1>4. \A n \in 1..N : script[n] \in Statement
  BY <1>1
<1>5. d = course[N]
  BY DEF apply_with_schema
<1> HIDE DEF N, course
<1>6. Bad = {}
  <2>1. SUFFICES ASSUME Bad # {} PROVE FALSE
    OBVIOUS
  <2>2. PICK m \in Bad : \A k \in Bad : m <= k
    <3>1. Bad \subseteq Nat
      BY <1>1
    <3> HIDE DEF Bad
    <3>2. QED
      BY <2>1, <3>1, Least
  <2>3. m # 0
    <3>1. Scripted(c, c)
      <4>1. c.next_oid \in Nat /\ c.next_oid..(c.next_oid - 1) = {}
        BY DEF Base, Fresh
      <4>2. QED
        BY <4>1 DEF Scripted, SameClasses
    <3>2. QED
      BY <1>2, <2>2, <3>1
  <2>4. m \in 1..N /\ m - 1 \in 0..N /\ m - 1 \notin Bad
    BY <1>1, <2>2, <2>3
  <2>5. Base(course[m-1]) /\ Scripted(c, course[m-1])
    BY <2>4
  <2>6. Base(course[m]) /\ Scripted(course[m-1], course[m])
    BY <1>2, <1>3, <1>4, <2>4, <2>5, RunStatementBase
  <2>7. Scripted(c, course[m])
    BY <2>5, <2>6, ScriptedOn
  <2>8. QED
    BY <2>2, <2>6, <2>7
<1>7. N \in 0..N
  BY <1>1
<1>8. QED
  BY <1>5, <1>6, <1>7

\* The rows of pg_depend that make objects those of an extension.
Tags(new, ext) == [objid : new, refobjid : {ext}, deptype : {"extension"}]

\* d is c with what c has and b has not tagged as parts of ext.
Recorded(b, c, ext, d) ==
    /\ SameTypes(c, d) /\ SameClasses(c, d) /\ d.next_oid = c.next_oid
    /\ d.pg_namespace = c.pg_namespace /\ d.pg_enum = c.pg_enum /\ d.pg_range = c.pg_range
    /\ d.pg_attribute = c.pg_attribute /\ d.pg_rewrite = c.pg_rewrite /\ d.pg_operator = c.pg_operator
    /\ d.pg_cast = c.pg_cast /\ d.pg_extension = c.pg_extension
    /\ d.pg_depend = c.pg_depend \cup Tags(b.next_oid..(c.next_oid - 1), ext)

LEMMA RecordBase ==
    ASSUME NEW b, Base(b), NEW c, Base(c), Scripted(b, c), NEW ext
    PROVE  LET d == record_extension_membership(b, c, ext)
           IN  Base(d) /\ Recorded(b, c, ext, d)
<1> DEFINE d   == record_extension_membership(b, c, ext)
           new == (DOMAIN c.pg_type \ DOMAIN b.pg_type) \cup (DOMAIN c.pg_cast \ DOMAIN b.pg_cast)
<1> DEFINE rows == Tags(new, ext)
<1>1. /\ IsCatalog(d)
      /\ SameTypes(c, d) /\ SameClasses(c, d) /\ d.next_oid = c.next_oid
      /\ d.pg_namespace = c.pg_namespace /\ d.pg_enum = c.pg_enum /\ d.pg_range = c.pg_range
      /\ d.pg_attribute = c.pg_attribute /\ d.pg_rewrite = c.pg_rewrite /\ d.pg_operator = c.pg_operator
      /\ d.pg_cast = c.pg_cast /\ d.pg_extension = c.pg_extension
      /\ d.pg_depend = c.pg_depend \cup rows
  BY DEF Base, IsCatalog, Fields, record_extension_membership, SameTypes, SameClasses, Tags
<1>2. /\ \A g \in rows : g.objid \in new /\ g.refobjid = ext /\ g.deptype = "extension"
      /\ \A t \in new : \E g \in rows : g.objid = t
  <2>1. \A g \in rows : g.objid \in new /\ g.refobjid = ext /\ g.deptype = "extension"
    BY DEF Tags
  <2>2. \A t \in new : [objid |-> t, refobjid |-> ext, deptype |-> "extension"] \in rows
    BY DEF Tags
  <2>3. \A t \in new : [objid |-> t, refobjid |-> ext, deptype |-> "extension"].objid = t
    BY DEF Tags
  <2>4. QED
    BY <2>1, <2>2, <2>3
<1> HIDE DEF rows, d
<1>3. \A x \in new : x \in b.next_oid..(c.next_oid - 1)
  BY DEF Scripted
<1>4. \A x \in b.next_oid..(c.next_oid - 1) : x \in new
  BY DEF Base, Fresh, Scripted
<1>5. Ties(d)
  BY <1>1, SameTies DEF Base
<1>6. Fresh(d)
  BY <1>1 DEF Base, Fresh, SameTypes, SameClasses
<1>7. ViewRows(d)
  BY <1>1, <1>2 DEF Base, ViewRows, SameClasses
<1>8. MembersWhole(d)
  <2>1. \A x : extension_objects(c, x) \subseteq extension_objects(d, x)
    BY <1>1 DEF extension_objects
  <2>2. new \subseteq extension_objects(d, ext)
    <3>1. ASSUME NEW t \in new PROVE t \in extension_objects(d, ext)
      <4>1. PICK g \in rows : g.objid = t
        BY <1>2
      <4>2. g \in d.pg_depend /\ g.refobjid = ext /\ g.deptype = "extension"
        BY <1>1, <1>2, <4>1
      <4>3. QED
        BY <4>1, <4>2 DEF extension_objects
    <3>2. QED
      BY <3>1
  <2>3. ASSUME NEW g \in Tagged(d)
        PROVE  Member(d, g.objid, extension_objects(d, g.refobjid))
    <3>1. CASE g \in c.pg_depend
      <4>1. g \in Tagged(c)
        BY <2>3, <3>1 DEF Tagged
      <4>2. Member(c, g.objid, extension_objects(c, g.refobjid))
        BY <4>1 DEF Base, MembersWhole
      <4>3. QED
        BY <1>1, <2>1, <4>2 DEF Member, SameTypes, SameClasses
    <3>2. CASE g \in rows
      <4> DEFINE t == g.objid
      <4>1. t \in new /\ g.refobjid = ext /\ t \in b.next_oid..(c.next_oid - 1)
        BY <1>2, <1>3, <3>2
      <4>2. t \in 1..(d.next_oid - 1) /\ t \notin DOMAIN d.pg_class
        BY <1>1, <4>1 DEF Base, Fresh, Scripted, SameClasses
      <4>3. ASSUME t \in DOMAIN c.pg_type
            PROVE  /\ t \notin DOMAIN b.pg_type /\ c.pg_type[t].typrelid = None /\ t # None
                   /\ \A x \in DOMAIN b.pg_type : x \in DOMAIN c.pg_type /\ c.pg_type[x] = b.pg_type[x]
        <5>1. t \notin DOMAIN b.pg_type
          BY <4>1 DEF Base, Fresh
        <5>2. QED
          BY <4>3, <5>1 DEF Scripted, Base, Ties, Rows
      <4>4. ASSUME t \in DOMAIN c.pg_type, c.pg_type[t].typarray # None
            PROVE  c.pg_type[t].typarray \in new
        <5> DEFINE a == c.pg_type[t].typarray
        <5>1. a \in DOMAIN c.pg_type /\ c.pg_type[a].typelem = t
          BY <4>4 DEF Base, Ties, ArraysTied, HasArray
        <5>2. a \notin DOMAIN b.pg_type
          BY <4>3, <4>4, <5>1 DEF Base, Ties, ArraysTied
        <5>3. QED
          BY <5>1, <5>2
      <4>5. ASSUME t \in DOMAIN c.pg_type, c.pg_type[t].typelem # None
            PROVE  c.pg_type[t].typelem \in new
        <5> DEFINE a == c.pg_type[t].typelem
        <5>1. a \in DOMAIN c.pg_type /\ c.pg_type[a].typarray = t
          BY <4>5 DEF Base, Ties, ArraysTied
        <5>2. a \notin DOMAIN b.pg_type
          BY <4>3, <4>5, <5>1 DEF Base, Ties, ArraysTied, HasArray
        <5>3. QED
          BY <5>1, <5>2
      <4>6. QED
        BY <1>1, <2>2, <4>1, <4>2, <4>3, <4>4, <4>5 DEF Member, SameTypes
    <3>3. QED
      BY <1>1, <2>3, <3>1, <3>2 DEF Tagged
  <2>4. QED
    BY <2>3 DEF MembersWhole
<1>9. Base(d)
  BY <1>1, <1>5, <1>6, <1>7, <1>8 DEF Base
<1>10. new = b.next_oid..(c.next_oid - 1)
  BY <1>3, <1>4
<1>11. QED
  BY <1>1, <1>9, <1>10 DEF rows, d, Recorded

-----------------------------------------------------------------------------
(* Rows that only views and sequences have.                                 *)

\* Rows of pg_depend for a relation that is there.
LEMMA ViewRowsBase ==
    ASSUME NEW c, Base(c), NEW d, IsCatalog(d), SameTypes(c, d), SameClasses(c, d),
           d.next_oid = c.next_oid, d.pg_cast = c.pg_cast, d.pg_extension = c.pg_extension,
           NEW rows, d.pg_depend = c.pg_depend \cup rows,
           \A g \in rows : g.deptype \in {"type", "class"} /\ g.objid \in DOMAIN c.pg_class
    PROVE  Base(d) /\ Tagged(d) = Tagged(c)
<1>1. Tagged(d) = Tagged(c)
  <2>1. \A g \in rows : g.deptype # "extension"
    OBVIOUS
  <2>2. QED
    BY <2>1 DEF Tagged
<1>2. Ties(d)
  BY SameTies DEF Base
<1>3. Fresh(d)
  BY DEF Base, Fresh, SameTypes, SameClasses
<1>4. MembersWhole(d)
  <2>1. Grown(c, d)
    BY <1>1 DEF Base, Fresh, Grown, SameTypes, SameClasses
  <2>2. QED
    BY <2>1, MembersGrown DEF Base
<1>5. ViewRows(d)
  BY DEF Base, ViewRows, SameClasses
<1>6. QED
  BY <1>1, <1>2, <1>3, <1>4, <1>5 DEF Base

\* A sequence has no row type.
LEMMA SequenceBase ==
    ASSUME NEW c, Base(c), NEW row, IsClassRow(row), row.reltype = None,
           NEW d, IsCatalog(d), SameTypes(c, d), d.pg_class = With(c.pg_class, c.next_oid, row),
           d.next_oid = c.next_oid + 1, d.pg_cast = c.pg_cast, d.pg_extension = c.pg_extension,
           d.pg_depend = c.pg_depend
    PROVE  Base(d)
<1> DEFINE r == c.next_oid
<1>1. /\ DOMAIN d.pg_class = DOMAIN c.pg_class \cup {r} /\ d.pg_class[r] = row
      /\ \A x \in DOMAIN c.pg_class : d.pg_class[x] = c.pg_class[x]
      /\ r \notin DOMAIN c.pg_class /\ r # None /\ r \in Nat
  BY DEF With, Base, Fresh, None
<1>2. Fresh(d)
  BY <1>1 DEF Base, Fresh, SameTypes
<1> HIDE DEF r
<1>3. Rows(d) /\ NamesTied(d) /\ ArraysTied(d)
  BY <1>1 DEF Base, Ties, Rows, NamesTied, ArraysTied, HasArray, SameTypes, TypeName
<1>4. RowTypesTied(d)
  BY <1>1 DEF Base, Ties, RowTypesTied, SameTypes, TypeName, RelationName
<1>5. MembersWhole(d)
  <2>1. Grown(c, d)
    BY <1>1 DEF Base, Fresh, Grown, SameTypes, Tagged, r
  <2>2. QED
    BY <2>1, MembersGrown DEF Base
<1>6. ViewRows(d)
  BY <1>1 DEF Base, ViewRows
<1>7. QED
  BY <1>2, <1>3, <1>4, <1>5, <1>6 DEF Base, Ties
=============================================================================
