------------------------ MODULE TypeObjectsTheorems ------------------------
(***************************************************************************)
(* The invariant of TypeObjects, kept by each statement, and the theorems. *)
(*                                                                         *)
(* State is the ties of TypeObjectsProofs with what TypeOK says.  Refs is  *)
(* TypesResolve with what makes it inductive: pg_depend tells what a view  *)
(* reads and casts to, which is how DROP finds it.  Owns is                *)
(* ExtensionsWhole with what makes it inductive: no two extensions share a *)
(* thing, and no tag outlives its extension.  One lemma for each statement *)
(* says whether it adds rows, changes names or drops rows, and one for     *)
(* each of the three ways what the invariants then keep.  LabelsInv, on    *)
(* its own, is LabelsAgree with the orders of the labels that rise.        *)
(***************************************************************************)
EXTENDS TypeObjectsProofs, FiniteSetTheorems

-----------------------------------------------------------------------------
(* The invariant.                                                           *)

\* Enums have labels, ranges a subtype, views a rule, and only relations columns.
Kinds(c) ==
    /\ DOMAIN c.pg_enum = OfKind(c, {"enum"})
    /\ DOMAIN c.pg_range = OfKind(c, {"range"})
    /\ DOMAIN c.pg_rewrite = Relations(c, {"view"})
    /\ DOMAIN c.pg_attribute \subseteq DOMAIN c.pg_class

Bounded(c) ==
    /\ c.next_oid <= MaxOid + 1
    /\ DOMAIN c.pg_extension \subseteq DOMAIN Registry
    /\ c.pg_namespace \subseteq Schema \cup {"pg_catalog"}

\* The gaps that leave a name, an array or a row type out of step.
TiesKept == Gaps \cap {"array_name", "same_name", "composite_row", "extension_parts"} = {}

\* What a view reads and casts to is there, and pg_depend tells so.
RuleResolves(c, v) ==
    LET rule == c.pg_rewrite[v] IN
    /\ v \in DOMAIN c.pg_class
    /\ rule.reads \subseteq DOMAIN c.pg_class
    /\ rule.casts \subseteq DOMAIN c.pg_type
    /\ \A k \in rule.casts : c.pg_type[k].typelem = None
    /\ rule.columns \subseteq Columns(c, v)
    /\ \A x \in rule.columns : \E r \in rule.reads : x \in Columns(c, r)
    /\ \A r \in rule.reads : \E g \in c.pg_depend : g.objid = v /\ g.refobjid = r /\ g.deptype = "class"
    /\ \A k \in rule.casts : \E g \in c.pg_depend : g.objid = v /\ g.refobjid = k /\ g.deptype = "type"

Refs(c) ==
    /\ \A r \in DOMAIN c.pg_attribute : r \in DOMAIN c.pg_class /\ c.pg_attribute[r] \subseteq DOMAIN c.pg_type
    /\ \A t \in DOMAIN c.pg_type : c.pg_type[t].typbasetype \in DOMAIN c.pg_type \cup {None}
    /\ \A g \in DOMAIN c.pg_range : c.pg_range[g] \in DOMAIN c.pg_type
    /\ \A v \in DOMAIN c.pg_rewrite : RuleResolves(c, v)

\* The gaps that leave a use of what was dropped.
UsesKept == Gaps \cap {"type_users", "view_columns", "row_type_users", "schema_types", "extension_users"} = {}

-----------------------------------------------------------------------------
(* Statements that declare: what is there stays, and what is new is new.    *)

\* g is f, and what else it has is from n on.
Kept(f, g, n) ==
    /\ \A x \in DOMAIN f : x \in DOMAIN g /\ g[x] = f[x]
    /\ \A x \in DOMAIN g : x \in DOMAIN f \/ n <= x

More(c, d) ==
    /\ c.next_oid \in Nat /\ d.next_oid \in Nat /\ c.next_oid <= d.next_oid
    /\ Kept(c.pg_type, d.pg_type, c.next_oid)
    /\ Kept(c.pg_class, d.pg_class, c.next_oid)
    /\ Kept(c.pg_attribute, d.pg_attribute, c.next_oid)
    /\ Kept(c.pg_range, d.pg_range, c.next_oid)
    /\ Kept(c.pg_rewrite, d.pg_rewrite, c.next_oid)
    /\ \A x \in DOMAIN c.pg_cast : x \in DOMAIN d.pg_cast
    /\ \A x \in DOMAIN d.pg_cast : x \in DOMAIN c.pg_cast \/ c.next_oid <= x
    /\ c.pg_depend \subseteq d.pg_depend

\* What is new names what is there.
Fit(c, d) ==
    /\ \A t \in DOMAIN d.pg_type : t \in DOMAIN c.pg_type \/ d.pg_type[t].typbasetype \in DOMAIN d.pg_type \cup {None}
    /\ \A r \in DOMAIN d.pg_attribute :
          r \in DOMAIN c.pg_attribute \/ (r \in DOMAIN d.pg_class /\ d.pg_attribute[r] \subseteq DOMAIN d.pg_type)
    /\ \A g \in DOMAIN d.pg_range : g \in DOMAIN c.pg_range \/ d.pg_range[g] \in DOMAIN d.pg_type
    /\ \A v \in DOMAIN d.pg_rewrite : v \in DOMAIN c.pg_rewrite \/ RuleResolves(d, v)

LEMMA RefsMore ==
    ASSUME NEW c, Refs(c), NEW d, More(c, d), Fit(c, d)
    PROVE  Refs(d)
<1>1. /\ \A x \in DOMAIN c.pg_type : x \in DOMAIN d.pg_type /\ d.pg_type[x] = c.pg_type[x]
      /\ \A x \in DOMAIN c.pg_class : x \in DOMAIN d.pg_class
      /\ \A x \in DOMAIN c.pg_attribute : x \in DOMAIN d.pg_attribute /\ d.pg_attribute[x] = c.pg_attribute[x]
      /\ \A x \in DOMAIN c.pg_range : d.pg_range[x] = c.pg_range[x]
      /\ \A x \in DOMAIN c.pg_rewrite : d.pg_rewrite[x] = c.pg_rewrite[x]
      /\ \A g \in c.pg_depend : g \in d.pg_depend
  BY DEF More, Kept
<1>2. ASSUME NEW v \in DOMAIN c.pg_rewrite
      PROVE  RuleResolves(d, v)
  <2>1. RuleResolves(c, v)
    BY DEF Refs
  <2>2. \A r : Columns(c, r) \subseteq Columns(d, r)
    BY <1>1 DEF Columns
  <2> DEFINE rule == c.pg_rewrite[v]
  <2>3. d.pg_rewrite[v] = rule
    BY <1>1
  <2>4. /\ v \in DOMAIN d.pg_class
        /\ rule.reads \subseteq DOMAIN d.pg_class
        /\ rule.casts \subseteq DOMAIN d.pg_type
        /\ \A k \in rule.casts : d.pg_type[k].typelem = None
        /\ rule.columns \subseteq Columns(d, v)
    BY <1>1, <2>1, <2>2 DEF RuleResolves
  <2>5. \A x \in rule.columns : \E r \in rule.reads : x \in Columns(d, r)
    BY <2>1, <2>2 DEF RuleResolves
  <2>6. /\ \A r \in rule.reads : \E g \in d.pg_depend : g.objid = v /\ g.refobjid = r /\ g.deptype = "class"
        /\ \A k \in rule.casts : \E g \in d.pg_depend : g.objid = v /\ g.refobjid = k /\ g.deptype = "type"
    BY <1>1, <2>1 DEF RuleResolves
  <2> HIDE DEF rule
  <2>7. QED
    BY <2>3, <2>4, <2>5, <2>6 DEF RuleResolves
<1>3. \A r \in DOMAIN d.pg_attribute : r \in DOMAIN d.pg_class /\ d.pg_attribute[r] \subseteq DOMAIN d.pg_type
  BY <1>1 DEF Refs, Fit
<1>4. \A t \in DOMAIN d.pg_type : d.pg_type[t].typbasetype \in DOMAIN d.pg_type \cup {None}
  BY <1>1 DEF Refs, Fit
<1>5. \A g \in DOMAIN d.pg_range : d.pg_range[g] \in DOMAIN d.pg_type
  BY <1>1 DEF Refs, Fit
<1>6. \A v \in DOMAIN d.pg_rewrite : RuleResolves(d, v)
  BY <1>2 DEF Fit
<1>7. QED
  BY <1>3, <1>4, <1>5, <1>6 DEF Refs

State(c) == Base(c) /\ Kinds(c) /\ Bounded(c)

\* What is there stays, and so does what extensions own.
Adds(c, d) ==
    /\ State(d) /\ More(c, d) /\ Tagged(d) = Tagged(c)
    /\ d.pg_extension = c.pg_extension /\ d.pg_operator = c.pg_operator

\* d is b but for labels and subtypes.
SameButKind(b, d) ==
    /\ IsCatalog(d) /\ SameTypes(b, d) /\ SameClasses(b, d)
    /\ d.pg_attribute = b.pg_attribute /\ d.pg_rewrite = b.pg_rewrite
    /\ d.pg_cast = b.pg_cast /\ d.pg_depend = b.pg_depend /\ d.pg_extension = b.pg_extension
    /\ d.next_oid = b.next_oid /\ d.pg_namespace = b.pg_namespace /\ d.pg_operator = b.pg_operator

LEMMA TypeDeclared ==
    ASSUME NEW c, State(c), NEW row, IsTypeRow(row), row.typelem = None, row.typrelid = None,
           row.typtype \in {"base", "domain", "enum", "range"},
           row.typbasetype \in DOMAIN c.pg_type \cup {None},
           array_name(row.typname) # row.typname,
           TypeFree(c, row.typnamespace, row.typname),
           TypeFree(c, row.typnamespace, array_name(row.typname)),
           c.next_oid + 1 <= MaxOid,
           NEW s, row.typtype = "range" => s \in DOMAIN c.pg_type,
           NEW d, SameButKind(define(c, row), d),
           IF row.typtype = "enum" THEN DOMAIN d.pg_enum = DOMAIN c.pg_enum \cup {c.next_oid}
                                   ELSE d.pg_enum = c.pg_enum,
           d.pg_range = IF row.typtype = "range" THEN With(c.pg_range, c.next_oid, s) ELSE c.pg_range
    PROVE  Adds(c, d) /\ Fit(c, d)
<1> DEFINE b == define(c, row)
           t == c.next_oid
           a == t + 1
<1>1. Base(b) /\ TypeAdded(c, row, b)
  BY DefineBase DEF State
<1> HIDE DEF b
<1>2. SameButKind(b, d)
  BY DEF b
<1>3. Base(d)
  <2>1. Aside(b, d)
    BY <1>1, <1>2 DEF Base, Fresh, Aside, SameButKind
  <2>2. QED
    BY <1>1, <2>1, AsideBase
<1>4. /\ t \in Nat /\ a = t + 1 /\ t \notin DOMAIN c.pg_type /\ a \notin DOMAIN c.pg_type
  BY DEF State, Base, Fresh
<1>5. /\ DOMAIN d.pg_type = DOMAIN c.pg_type \cup {t, a}
      /\ \A x \in DOMAIN c.pg_type : d.pg_type[x] = c.pg_type[x]
      /\ d.pg_type[t].typtype = row.typtype /\ d.pg_type[t].typbasetype = row.typbasetype
      /\ d.pg_type[a].typtype = "base" /\ d.pg_type[a].typbasetype = None
      /\ d.next_oid = t + 2
  BY <1>1, <1>2 DEF TypeAdded, Defined, SameButKind, SameTypes, TypeRow, IsTypeRow
<1>6. /\ d.pg_class = c.pg_class /\ d.pg_attribute = c.pg_attribute /\ d.pg_rewrite = c.pg_rewrite
      /\ d.pg_cast = c.pg_cast /\ d.pg_depend = c.pg_depend
      /\ d.pg_extension = c.pg_extension /\ d.pg_namespace = c.pg_namespace /\ d.pg_operator = c.pg_operator
  BY <1>1, <1>2 DEF TypeAdded, SameButTypes, SameButKind, SameClasses
<1> HIDE DEF t, a
<1>7. /\ \A x \in DOMAIN c.pg_range : x \in DOMAIN d.pg_range /\ d.pg_range[x] = c.pg_range[x]
      /\ \A x \in DOMAIN d.pg_range : x \in DOMAIN c.pg_range \/ x = t
      /\ row.typtype = "range" => t \in DOMAIN d.pg_range /\ d.pg_range[t] = s
      /\ row.typtype # "range" => d.pg_range = c.pg_range
  <2>1. \A x \in DOMAIN c.pg_range : x # t
    BY <1>4 DEF State, Kinds, OfKind
  <2>2. QED
    BY <2>1 DEF With, t
<1>8. Kinds(d)
  <2>1. DOMAIN d.pg_enum = OfKind(d, {"enum"})
    <3>1. DOMAIN d.pg_enum = IF row.typtype = "enum" THEN DOMAIN c.pg_enum \cup {t} ELSE DOMAIN c.pg_enum
      BY DEF t
    <3>2. DOMAIN c.pg_enum = OfKind(c, {"enum"})
      BY DEF State, Kinds
    <3>3. QED
      BY <1>4, <1>5, <3>1, <3>2 DEF OfKind
  <2>2. DOMAIN d.pg_range = OfKind(d, {"range"})
    <3>1. DOMAIN c.pg_range = OfKind(c, {"range"})
      BY DEF State, Kinds
    <3>2. QED
      BY <1>4, <1>5, <1>7, <3>1 DEF OfKind
  <2>3. DOMAIN d.pg_rewrite = Relations(d, {"view"})
    BY <1>6 DEF State, Kinds, Relations
  <2>4. QED
    BY <1>6, <2>1, <2>2, <2>3 DEF State, Kinds
<1>9. Bounded(d)
  <2>1. MaxOid \in Nat
    BY TypeObjectsAssumption
  <2>2. d.next_oid <= MaxOid + 1
    BY <1>4, <1>5, <2>1 DEF t
  <2>3. QED
    BY <1>6, <2>2 DEF State, Bounded
<1>10. More(c, d)
  BY <1>4, <1>5, <1>6, <1>7 DEF More, Kept, t, a
<1>11. Fit(c, d)
  <2>1. \A x \in DOMAIN d.pg_range : x \in DOMAIN c.pg_range \/ d.pg_range[x] \in DOMAIN d.pg_type
    BY <1>5, <1>7
  <2>2. QED
    BY <1>5, <1>6, <2>1 DEF Fit
<1>12. QED
  BY <1>3, <1>6, <1>8, <1>9, <1>10, <1>11 DEF State, Tagged, Adds

\* A relation, the class rows and columns of which are new.
LEMMA RelationDeclared ==
    ASSUME NEW c, State(c), NEW ns, NEW name, NEW kind, kind # "view", NEW columns,
           array_name(name) # name, TypeFree(c, ns, name), TypeFree(c, ns, array_name(name)),
           c.next_oid + 3 <= MaxOid,
           NEW d, d = register_composite_to_record_cast(install_relation(c, ns, name, kind, columns),
                                                        c.next_oid + 1)
    PROVE  /\ Adds(c, d)
           /\ columns \subseteq DOMAIN c.pg_type => Fit(c, d)
<1> DEFINE r == c.next_oid
           t == r + 1
           a == r + 2
           b == install_relation(c, ns, name, kind, columns)
<1>1. Base(b) /\ Installed(c, ns, name, kind, columns, b)
  BY InstallBase DEF State
<1>2. d = alloc_oid(insert_pg_cast(b, b.next_oid, t, Record), 1)
  BY DEF register_composite_to_record_cast
<1> HIDE DEF b
<1>3. Base(d) /\ Scripted(b, d)
  BY <1>1, <1>2, AddCast
<1>4. /\ d.pg_type = b.pg_type /\ d.pg_cast = With(b.pg_cast, b.next_oid, <<t, Record>>)
      /\ d.next_oid = b.next_oid + 1
  BY <1>1, <1>2 DEF Base, IsCatalog, Fields, alloc_oid, insert_pg_cast
<1>5. /\ r \in Nat /\ r \notin DOMAIN c.pg_type /\ t \notin DOMAIN c.pg_type /\ a \notin DOMAIN c.pg_type
      /\ r \notin DOMAIN c.pg_class /\ b.next_oid = r + 3
  BY <1>1 DEF State, Base, Fresh, Installed
<1>6. /\ DOMAIN d.pg_type = DOMAIN c.pg_type \cup {t, a}
      /\ \A x \in DOMAIN c.pg_type : d.pg_type[x] = c.pg_type[x]
      /\ d.pg_type[t].typtype = "composite" /\ d.pg_type[t].typbasetype = None
      /\ d.pg_type[a].typtype = "base" /\ d.pg_type[a].typbasetype = None
  <2>1. /\ DOMAIN d.pg_type = DOMAIN c.pg_type \cup {t, a}
        /\ \A x \in DOMAIN c.pg_type : d.pg_type[x] = c.pg_type[x]
        /\ d.pg_type[t] = [RowOf(ns, name, r) EXCEPT !.typarray = a]
        /\ d.pg_type[a] = [TypeRow(RowOf(ns, name, r).typnamespace,
                                   array_name(RowOf(ns, name, r).typname), "base") EXCEPT !.typelem = t]
    BY <1>1, <1>4 DEF Installed, Defined
  <2>2. QED
    BY <2>1 DEF RowOf, TypeRow
<1>7. /\ DOMAIN d.pg_class = DOMAIN c.pg_class \cup {r} /\ d.pg_class[r].relkind = kind
      /\ \A x \in DOMAIN c.pg_class : d.pg_class[x] = c.pg_class[x]
  BY <1>1, <1>3, <1>5 DEF Installed, Scripted, SameClasses, With
<1>8. /\ d.pg_attribute = With(c.pg_attribute, r, columns)
      /\ d.pg_rewrite = c.pg_rewrite /\ d.pg_enum = c.pg_enum /\ d.pg_range = c.pg_range
      /\ d.pg_depend = c.pg_depend /\ d.pg_extension = c.pg_extension /\ d.pg_namespace = c.pg_namespace
      /\ DOMAIN d.pg_cast = DOMAIN c.pg_cast \cup {r + 3} /\ d.next_oid = r + 4
      /\ d.pg_operator = c.pg_operator
  BY <1>1, <1>3, <1>4, <1>5 DEF Installed, Scripted, With
<1>9. /\ DOMAIN d.pg_attribute = DOMAIN c.pg_attribute \cup {r} /\ d.pg_attribute[r] = columns
      /\ \A x \in DOMAIN c.pg_attribute : d.pg_attribute[x] = c.pg_attribute[x]
  BY <1>5, <1>8 DEF With, State, Kinds
<1>10. Kinds(d)
  <2>1. OfKind(d, {"enum"}) = OfKind(c, {"enum"}) /\ OfKind(d, {"range"}) = OfKind(c, {"range"})
    BY <1>5, <1>6 DEF OfKind
  <2>2. Relations(d, {"view"}) = Relations(c, {"view"})
    BY <1>5, <1>7 DEF Relations
  <2>3. QED
    BY <1>7, <1>8, <1>9, <2>1, <2>2 DEF State, Kinds
<1>11. Bounded(d)
  <2>1. MaxOid \in Nat
    BY TypeObjectsAssumption
  <2>2. d.next_oid <= MaxOid + 1
    BY <1>5, <1>8, <2>1
  <2>3. QED
    BY <1>8, <2>2 DEF State, Bounded
<1>12. More(c, d)
  BY <1>5, <1>6, <1>7, <1>8, <1>9 DEF More, Kept
<1>13. columns \subseteq DOMAIN c.pg_type => Fit(c, d)
  BY <1>6, <1>7, <1>8, <1>9 DEF Fit
<1>14. QED
  BY <1>3, <1>8, <1>10, <1>11, <1>12, <1>13 DEF State, Tagged, Adds

LEMMA ViewDeclared ==
    ASSUME NEW c, State(c), NEW ns, NEW name,
           NEW reads \in SUBSET Relations(c, {"table", "view"}), NEW casts \in SUBSET Named(c),
           array_name(name) # name, TypeFree(c, ns, name), TypeFree(c, ns, array_name(name)),
           c.next_oid + 2 <= MaxOid,
           NEW d, d = create_view(c, ns, name, reads, casts)
    PROVE  /\ Adds(c, d)
           /\ Refs(c) => Fit(c, d)
<1> DEFINE r == c.next_oid
           t == r + 1
           a == r + 2
           columns == UNION {Columns(c, x) : x \in reads}
           rule == [reads |-> reads, columns |-> columns, casts |-> casts]
           rows == [objid : {r}, refobjid : reads, deptype : {"class"}]
                      \cup [objid : {r}, refobjid : casts, deptype : {"type"}]
           b == install_relation(c, ns, name, "view", columns)
<1>1. Base(b) /\ Installed(c, ns, name, "view", columns, b)
  BY InstallBase DEF State
<1>2. d = [b EXCEPT !.pg_rewrite = With(@, r, rule),
                    !.pg_depend = @ \cup [objid : {r}, refobjid : reads, deptype : {"class"}]
                                    \cup [objid : {r}, refobjid : casts, deptype : {"type"}]]
  BY DEF create_view
<1> HIDE DEF b, columns, rule
<1>3. /\ IsCatalog(d) /\ SameTypes(b, d) /\ SameClasses(b, d) /\ d.pg_cast = b.pg_cast
      /\ d.pg_attribute = b.pg_attribute /\ d.pg_enum = b.pg_enum /\ d.pg_range = b.pg_range
      /\ d.pg_extension = b.pg_extension /\ d.pg_namespace = b.pg_namespace /\ d.next_oid = b.next_oid
      /\ d.pg_rewrite = With(b.pg_rewrite, r, rule)
      /\ d.pg_depend = b.pg_depend \cup rows
      /\ d.pg_operator = b.pg_operator
  BY <1>1, <1>2 DEF Base, IsCatalog, Fields, SameTypes, SameClasses
<1>4. /\ \A g \in rows : g.deptype \in {"type", "class"} /\ g.objid = r
      /\ \A x \in reads : \E g \in rows : g.objid = r /\ g.refobjid = x /\ g.deptype = "class"
      /\ \A x \in casts : \E g \in rows : g.objid = r /\ g.refobjid = x /\ g.deptype = "type"
  <2>1. \A g \in rows : g.deptype \in {"type", "class"} /\ g.objid = r
    OBVIOUS
  <2>2. ASSUME NEW x \in reads
        PROVE  \E g \in rows : g.objid = r /\ g.refobjid = x /\ g.deptype = "class"
    <3>1. [objid |-> r, refobjid |-> x, deptype |-> "class"] \in rows
      OBVIOUS
    <3>2. QED
      BY <3>1
  <2>3. ASSUME NEW x \in casts
        PROVE  \E g \in rows : g.objid = r /\ g.refobjid = x /\ g.deptype = "type"
    <3>1. [objid |-> r, refobjid |-> x, deptype |-> "type"] \in rows
      OBVIOUS
    <3>2. QED
      BY <3>1
  <2>4. QED
    BY <2>1, <2>2, <2>3
<1> HIDE DEF rows
<1>5. /\ r \in Nat /\ r \notin DOMAIN c.pg_type /\ t \notin DOMAIN c.pg_type /\ a \notin DOMAIN c.pg_type
      /\ r \notin DOMAIN c.pg_class /\ d.next_oid = r + 3
  BY <1>1, <1>3 DEF State, Base, Fresh, Installed
<1>6. /\ DOMAIN d.pg_type = DOMAIN c.pg_type \cup {t, a}
      /\ \A x \in DOMAIN c.pg_type : d.pg_type[x] = c.pg_type[x]
      /\ d.pg_type[t].typtype = "composite" /\ d.pg_type[t].typbasetype = None
      /\ d.pg_type[a].typtype = "base" /\ d.pg_type[a].typbasetype = None
  <2>1. /\ DOMAIN d.pg_type = DOMAIN c.pg_type \cup {t, a}
        /\ \A x \in DOMAIN c.pg_type : d.pg_type[x] = c.pg_type[x]
        /\ d.pg_type[t] = [RowOf(ns, name, r) EXCEPT !.typarray = a]
        /\ d.pg_type[a] = [TypeRow(RowOf(ns, name, r).typnamespace,
                                   array_name(RowOf(ns, name, r).typname), "base") EXCEPT !.typelem = t]
    BY <1>1, <1>3 DEF Installed, Defined, SameTypes
  <2>2. QED
    BY <2>1 DEF RowOf, TypeRow
<1>7. /\ DOMAIN d.pg_class = DOMAIN c.pg_class \cup {r} /\ d.pg_class[r].relkind = "view"
      /\ \A x \in DOMAIN c.pg_class : d.pg_class[x] = c.pg_class[x]
  BY <1>1, <1>3, <1>5 DEF Installed, SameClasses, With
<1>8. /\ d.pg_attribute = With(c.pg_attribute, r, columns) /\ d.pg_rewrite = With(c.pg_rewrite, r, rule)
      /\ d.pg_enum = c.pg_enum /\ d.pg_range = c.pg_range
      /\ d.pg_depend = c.pg_depend \cup rows
      /\ d.pg_extension = c.pg_extension /\ d.pg_namespace = c.pg_namespace
      /\ d.pg_cast = c.pg_cast /\ d.pg_operator = c.pg_operator
  BY <1>1, <1>3 DEF Installed
<1>9. /\ DOMAIN d.pg_attribute = DOMAIN c.pg_attribute \cup {r} /\ d.pg_attribute[r] = columns
      /\ \A x \in DOMAIN c.pg_attribute : d.pg_attribute[x] = c.pg_attribute[x]
      /\ DOMAIN d.pg_rewrite = DOMAIN c.pg_rewrite \cup {r} /\ d.pg_rewrite[r] = rule
      /\ \A x \in DOMAIN c.pg_rewrite : d.pg_rewrite[x] = c.pg_rewrite[x]
  <2>1. r \notin DOMAIN c.pg_attribute /\ r \notin DOMAIN c.pg_rewrite
    BY <1>5 DEF State, Kinds, Relations
  <2>2. QED
    BY <1>8, <2>1 DEF With
<1>10. Base(d) /\ Tagged(d) = Tagged(c)
  <2>1. r \in DOMAIN b.pg_class
    BY <1>1 DEF Installed, With
  <2>2. Base(d) /\ Tagged(d) = Tagged(b)
    BY <1>1, <1>3, <1>4, <2>1, ViewRowsBase
  <2>3. QED
    BY <1>1, <2>2 DEF Installed, Tagged
<1>11. Kinds(d)
  <2>1. OfKind(d, {"enum"}) = OfKind(c, {"enum"}) /\ OfKind(d, {"range"}) = OfKind(c, {"range"})
    BY <1>5, <1>6 DEF OfKind
  <2>2. Relations(d, {"view"}) = Relations(c, {"view"}) \cup {r}
    BY <1>5, <1>7 DEF Relations
  <2>3. QED
    BY <1>7, <1>8, <1>9, <2>1, <2>2 DEF State, Kinds
<1>12. Bounded(d)
  <2>1. MaxOid \in Nat
    BY TypeObjectsAssumption
  <2>2. d.next_oid <= MaxOid + 1
    BY <1>5, <2>1
  <2>3. QED
    BY <1>8, <2>2 DEF State, Bounded
<1>13. More(c, d)
  BY <1>5, <1>6, <1>7, <1>8, <1>9 DEF More, Kept
<1>14. ASSUME Refs(c)
       PROVE  Fit(c, d)
  <2>1. /\ \A x \in reads : x \in DOMAIN c.pg_class
        /\ \A x \in casts : x \in DOMAIN c.pg_type /\ c.pg_type[x].typelem = None
    BY DEF Relations, Named
  <2>2. \A y \in columns : \E x \in reads : y \in Columns(c, x)
    BY DEF columns
  <2>3. columns \subseteq DOMAIN c.pg_type
    <3>1. \A x \in DOMAIN c.pg_attribute : c.pg_attribute[x] \subseteq DOMAIN c.pg_type
      BY <1>14 DEF Refs
    <3>2. \A x : Columns(c, x) \subseteq DOMAIN c.pg_type
      BY <3>1 DEF Columns
    <3>3. QED
      BY <2>2, <3>2
  <2>4. /\ \A x \in DOMAIN c.pg_class : Columns(d, x) = Columns(c, x)
        /\ Columns(d, r) = columns
    BY <1>5, <1>9 DEF Columns, State, Kinds
  <2>5. RuleResolves(d, r)
    <3>1. rule.reads = reads /\ rule.columns = columns /\ rule.casts = casts
      BY DEF rule
    <3>2. r \in DOMAIN d.pg_class /\ reads \subseteq DOMAIN d.pg_class
      BY <1>7, <2>1
    <3>3. casts \subseteq DOMAIN d.pg_type /\ \A k \in casts : d.pg_type[k].typelem = None
      BY <1>6, <2>1
    <3>4. \A y \in columns : \E x \in reads : y \in Columns(d, x)
      BY <2>1, <2>2, <2>4
    <3>5. /\ \A x \in reads : \E g \in d.pg_depend : g.objid = r /\ g.refobjid = x /\ g.deptype = "class"
          /\ \A k \in casts : \E g \in d.pg_depend : g.objid = r /\ g.refobjid = k /\ g.deptype = "type"
      BY <1>4, <1>8
    <3>6. d.pg_rewrite[r] = rule
      BY <1>9
    <3> HIDE DEF r
    <3>7. QED
      BY <2>4, <3>1, <3>2, <3>3, <3>4, <3>5, <3>6 DEF RuleResolves
  <2>6. \A x \in DOMAIN d.pg_type : x \in DOMAIN c.pg_type \/ d.pg_type[x].typbasetype \in DOMAIN d.pg_type \cup {None}
    BY <1>6
  <2>7. \A x \in DOMAIN d.pg_attribute :
           x \in DOMAIN c.pg_attribute \/ (x \in DOMAIN d.pg_class /\ d.pg_attribute[x] \subseteq DOMAIN d.pg_type)
    BY <1>6, <1>7, <1>9, <2>3
  <2>8. \A x \in DOMAIN d.pg_rewrite : x \in DOMAIN c.pg_rewrite \/ RuleResolves(d, x)
    BY <1>9, <2>5
  <2>9. QED
    BY <1>8, <2>6, <2>7, <2>8 DEF Fit
<1>15. QED
  BY <1>8, <1>10, <1>11, <1>12, <1>13, <1>14 DEF State, Adds
-----------------------------------------------------------------------------
(* Statements that alter a name, run a script or drop.                      *)

\* The script of an extension adds base types, casts and nothing that names a type.
LEMMA ScriptedMore ==
    ASSUME NEW c, State(c), NEW d, Base(d), Scripted(c, d), d.next_oid <= MaxOid + 1
    PROVE  Adds(c, d) /\ Fit(c, d)
<1>1. /\ \A t \in DOMAIN c.pg_type : t \in DOMAIN d.pg_type /\ d.pg_type[t] = c.pg_type[t]
      /\ \A t \in DOMAIN d.pg_type \ DOMAIN c.pg_type :
            c.next_oid <= t /\ d.pg_type[t].typtype = "base" /\ d.pg_type[t].typbasetype = None
      /\ d.pg_class = c.pg_class /\ d.pg_namespace = c.pg_namespace
      /\ d.pg_enum = c.pg_enum /\ d.pg_range = c.pg_range
      /\ d.pg_attribute = c.pg_attribute /\ d.pg_rewrite = c.pg_rewrite
      /\ d.pg_depend = c.pg_depend /\ d.pg_extension = c.pg_extension
      /\ c.next_oid \in Nat /\ d.next_oid \in Nat /\ c.next_oid <= d.next_oid
      /\ DOMAIN c.pg_cast \subseteq DOMAIN d.pg_cast
      /\ \A k \in DOMAIN d.pg_cast \ DOMAIN c.pg_cast : c.next_oid <= k
      /\ d.pg_operator = c.pg_operator
  BY DEF Scripted, SameClasses
<1>2. OfKind(d, {"enum"}) = OfKind(c, {"enum"}) /\ OfKind(d, {"range"}) = OfKind(c, {"range"})
  BY <1>1 DEF OfKind
<1>3. Kinds(d)
  BY <1>1, <1>2 DEF State, Kinds, Relations
<1>4. Bounded(d)
  BY <1>1 DEF State, Bounded
<1>5. More(c, d)
  BY <1>1 DEF More, Kept
<1>6. Fit(c, d)
  BY <1>1 DEF Fit
<1>7. QED
  BY <1>1, <1>3, <1>4, <1>5, <1>6 DEF State, Adds, Tagged

\* What differs by names alone is a state as before, and names the same types.
LEMMA NamesState ==
    ASSUME NEW c, State(c), NEW d, Base(d), OnlyNames(c, d)
    PROVE  State(d) /\ (Refs(c) => Refs(d)) /\ Tagged(d) = Tagged(c)
<1>1. /\ DOMAIN d.pg_type = DOMAIN c.pg_type
      /\ \A x \in DOMAIN c.pg_type : /\ d.pg_type[x].typtype = c.pg_type[x].typtype
                                     /\ d.pg_type[x].typelem = c.pg_type[x].typelem
                                     /\ d.pg_type[x].typbasetype = c.pg_type[x].typbasetype
      /\ DOMAIN d.pg_class = DOMAIN c.pg_class
      /\ \A r \in DOMAIN c.pg_class : d.pg_class[r].relkind = c.pg_class[r].relkind
      /\ d.pg_namespace = c.pg_namespace
      /\ d.pg_enum = c.pg_enum /\ d.pg_range = c.pg_range
      /\ d.pg_attribute = c.pg_attribute /\ d.pg_rewrite = c.pg_rewrite
      /\ d.pg_depend = c.pg_depend /\ d.pg_extension = c.pg_extension
      /\ d.next_oid = c.next_oid
  BY DEF OnlyNames, SameShape
<1>2. OfKind(d, {"enum"}) = OfKind(c, {"enum"}) /\ OfKind(d, {"range"}) = OfKind(c, {"range"})
  BY <1>1 DEF OfKind
<1>3. Relations(d, {"view"}) = Relations(c, {"view"})
  BY <1>1 DEF Relations
<1>4. Kinds(d)
  BY <1>1, <1>2, <1>3 DEF State, Kinds
<1>5. Bounded(d)
  BY <1>1 DEF State, Bounded
<1>6. ASSUME Refs(c)
      PROVE  Refs(d)
  <2>1. \A x : Columns(d, x) = Columns(c, x)
    BY <1>1 DEF Columns
  <2>2. ASSUME NEW v \in DOMAIN c.pg_rewrite
        PROVE  RuleResolves(d, v)
    <3>1. RuleResolves(c, v)
      BY <1>6 DEF Refs
    <3>2. QED
      BY <1>1, <2>1, <3>1 DEF RuleResolves
  <2>3. \A r \in DOMAIN d.pg_attribute : r \in DOMAIN d.pg_class /\ d.pg_attribute[r] \subseteq DOMAIN d.pg_type
    BY <1>1, <1>6 DEF Refs
  <2>4. \A t \in DOMAIN d.pg_type : d.pg_type[t].typbasetype \in DOMAIN d.pg_type \cup {None}
    BY <1>1, <1>6 DEF Refs
  <2>5. \A g \in DOMAIN d.pg_range : d.pg_range[g] \in DOMAIN d.pg_type
    BY <1>1, <1>6 DEF Refs
  <2>6. QED
    BY <1>1, <2>2, <2>3, <2>4, <2>5 DEF Refs
<1>7. QED
  BY <1>1, <1>4, <1>5, <1>6 DEF State, Tagged

LEMMA ShrunkState ==
    ASSUME NEW c, State(c), NEW C, NEW T, NEW R, NEW O, NEW d, Base(d), Shrunk(c, C, T, R, O, d)
    PROVE  State(d)
<1>1. /\ Less(c.pg_type, T, d.pg_type) /\ Less(c.pg_enum, T, d.pg_enum) /\ Less(c.pg_range, T, d.pg_range)
      /\ Less(c.pg_class, R, d.pg_class) /\ Less(c.pg_rewrite, R, d.pg_rewrite)
      /\ DOMAIN d.pg_attribute = DOMAIN c.pg_attribute \ R
      /\ DOMAIN d.pg_extension \subseteq DOMAIN c.pg_extension
      /\ d.pg_namespace \subseteq c.pg_namespace /\ d.next_oid = c.next_oid
  BY DEF Shrunk
<1>2. OfKind(d, {"enum"}) = OfKind(c, {"enum"}) \ T /\ OfKind(d, {"range"}) = OfKind(c, {"range"}) \ T
  BY <1>1 DEF OfKind, Less
<1>3. Relations(d, {"view"}) = Relations(c, {"view"}) \ R
  BY <1>1 DEF Relations, Less
<1>4. Kinds(d)
  BY <1>1, <1>2, <1>3 DEF State, Kinds, Less
<1>5. Bounded(d)
  BY <1>1 DEF State, Bounded
<1>6. QED
  BY <1>4, <1>5 DEF State

\* What is left names nothing of what went.
LEMMA ShrunkRefs ==
    ASSUME NEW c, State(c), Refs(c), NEW C, NEW T, NEW R, NEW O, NEW d, Shrunk(c, C, T, R, O, d),
           O \cap DOMAIN c.pg_class \subseteq R, O \cap DOMAIN c.pg_type \subseteq T,
           \A v \in DOMAIN c.pg_class : v \in find_dependent_views(c, R) => v \in R,
           Over(c, T) = {},
           \A r \in DOMAIN d.pg_attribute : d.pg_attribute[r] \cap T = {},
           \A v \in DOMAIN c.pg_rewrite \ R : c.pg_rewrite[v].columns \cap C = {},
           \A v \in DOMAIN c.pg_rewrite \ R : c.pg_rewrite[v].casts \cap T = {}
    PROVE  Refs(d)
<1>1. /\ Less(c.pg_type, T, d.pg_type) /\ Less(c.pg_range, T, d.pg_range)
      /\ Less(c.pg_class, R, d.pg_class) /\ Less(c.pg_rewrite, R, d.pg_rewrite)
      /\ DOMAIN d.pg_attribute = DOMAIN c.pg_attribute \ R
      /\ \A r \in DOMAIN d.pg_attribute : /\ d.pg_attribute[r] \subseteq c.pg_attribute[r]
                                          /\ c.pg_attribute[r] \ C \subseteq d.pg_attribute[r]
      /\ d.pg_depend = {e \in c.pg_depend : e.objid \notin O /\ e.refobjid \notin O}
  BY DEF Shrunk
<1>2. /\ \A t \in DOMAIN c.pg_type \ T : c.pg_type[t].typbasetype \notin T
      /\ \A g \in DOMAIN c.pg_range \ T : c.pg_range[g] \notin T
  BY DEF Over
<1>3. \A r \in DOMAIN d.pg_attribute : r \in DOMAIN d.pg_class /\ d.pg_attribute[r] \subseteq DOMAIN d.pg_type
  BY <1>1 DEF Refs, Less
<1>4. \A t \in DOMAIN d.pg_type : d.pg_type[t].typbasetype \in DOMAIN d.pg_type \cup {None}
  BY <1>1, <1>2 DEF Refs, Less
<1>5. \A g \in DOMAIN d.pg_range : d.pg_range[g] \in DOMAIN d.pg_type
  BY <1>1, <1>2 DEF Refs, Less
<1>6. ASSUME NEW v \in DOMAIN d.pg_rewrite
      PROVE  RuleResolves(d, v)
  <2> DEFINE rule == c.pg_rewrite[v]
  <2>1. v \in DOMAIN c.pg_rewrite /\ v \notin R /\ d.pg_rewrite[v] = rule
    BY <1>1 DEF Less
  <2>2. RuleResolves(c, v)
    BY <2>1 DEF Refs
  <2> HIDE DEF rule
  <2>3. /\ v \in DOMAIN c.pg_class /\ rule.reads \subseteq DOMAIN c.pg_class
        /\ rule.casts \subseteq DOMAIN c.pg_type
        /\ \A k \in rule.casts : c.pg_type[k].typelem = None
        /\ rule.columns \subseteq Columns(c, v)
        /\ \A x \in rule.columns : \E r \in rule.reads : x \in Columns(c, r)
        /\ \A r \in rule.reads : \E g \in c.pg_depend : g.objid = v /\ g.refobjid = r /\ g.deptype = "class"
        /\ \A k \in rule.casts : \E g \in c.pg_depend : g.objid = v /\ g.refobjid = k /\ g.deptype = "type"
    BY <2>2 DEF RuleResolves, rule
  <2>4. rule.columns \cap C = {} /\ rule.casts \cap T = {}
    BY <2>1 DEF rule
  <2>5. \A r \in rule.reads : r \notin R
    BY <2>1, <2>3 DEF find_dependent_views
  <2>6. /\ v \in DOMAIN d.pg_class /\ rule.reads \subseteq DOMAIN d.pg_class
        /\ rule.casts \subseteq DOMAIN d.pg_type
        /\ \A k \in rule.casts : d.pg_type[k].typelem = None
    BY <1>1, <2>1, <2>3, <2>4, <2>5 DEF Less
  <2>7. \A r, x : r \notin R /\ x \in Columns(c, r) /\ x \notin C => x \in Columns(d, r)
    BY <1>1 DEF Columns
  <2>8. /\ rule.columns \subseteq Columns(d, v)
        /\ \A x \in rule.columns : \E r \in rule.reads : x \in Columns(d, r)
    BY <2>1, <2>3, <2>4, <2>5, <2>7
  <2>9. v \notin O /\ rule.reads \cap O = {} /\ rule.casts \cap O = {}
    BY <2>1, <2>3, <2>4, <2>5
  <2>10. /\ \A r \in rule.reads : \E g \in d.pg_depend : g.objid = v /\ g.refobjid = r /\ g.deptype = "class"
         /\ \A k \in rule.casts : \E g \in d.pg_depend : g.objid = v /\ g.refobjid = k /\ g.deptype = "type"
    BY <1>1, <2>3, <2>9
  <2>11. QED
    BY <2>1, <2>6, <2>8, <2>10 DEF RuleResolves
<1>7. QED
  BY <1>3, <1>4, <1>5, <1>6 DEF Refs
-----------------------------------------------------------------------------
(* The statements, one by one: what declares.                               *)

LEMMA NoGap ==
    ASSUME TiesKept
    PROVE  /\ ~ Gap("array_name") /\ ~ Gap("same_name") /\ ~ Gap("composite_row") /\ ~ Gap("extension_parts")
           /\ Gaps \cap {"array_name", "extension_parts"} = {}
BY DEF TiesKept, Gap

LEMMA ArrayNameDiffers ==
    ASSUME NEW name \in UserName \cup MemberName
    PROVE  array_name(name) # name
BY TypeObjectsAssumption

LEMMA TypeRowIsTypeRow ==
    ASSUME NEW ns, NEW name, NEW kind
    PROVE  LET row == TypeRow(ns, name, kind)
           IN  /\ IsTypeRow(row) /\ row.typname = name /\ row.typnamespace = ns /\ row.typtype = kind
               /\ row.typrelid = None /\ row.typelem = None /\ row.typarray = None /\ row.typbasetype = None
BY DEF TypeRow, IsTypeRow

\* define and what follows it: the rows of the type and of its array are new.
LEMMA DefineAlone ==
    ASSUME NEW c, State(c), NEW row, IsTypeRow(row), row.typelem = None, row.typrelid = None,
           array_name(row.typname) # row.typname,
           TypeFree(c, row.typnamespace, row.typname),
           TypeFree(c, row.typnamespace, array_name(row.typname))
    PROVE  LET d == define(c, row) IN IsCatalog(d) /\ d.pg_enum = c.pg_enum /\ d.pg_range = c.pg_range
<1>1. Base(define(c, row)) /\ TypeAdded(c, row, define(c, row))
  BY DefineBase DEF State
<1>2. QED
  BY <1>1 DEF Base, TypeAdded, SameButTypes

LEMMA UsableThere ==
    ASSUME NEW c
    PROVE  Usable(c) \subseteq DOMAIN c.pg_type
BY DEF Usable, Named

LEMMA CreateDomainAdds ==
    ASSUME State(cat), TiesKept, NEW ns, NEW name \in UserName, NEW base \in Usable(cat),
           CreateDomain(ns, name, base)
    PROVE  Adds(cat, cat') /\ Fit(cat, cat')
<1> DEFINE row == [TypeRow(ns, name, "domain") EXCEPT !.typbasetype = base]
<1>1. /\ IsTypeRow(row) /\ row.typname = name /\ row.typnamespace = ns /\ row.typtype = "domain"
      /\ row.typrelid = None /\ row.typelem = None /\ row.typbasetype = base
  BY DEF TypeRow, IsTypeRow
<1>2. cat' = define(cat, row)
  BY DEF CreateDomain
<1> HIDE DEF row
<1>3. TypeFree(cat, ns, name) /\ TypeFree(cat, ns, array_name(name)) /\ cat.next_oid + 2 - 1 <= MaxOid
  BY NoGap DEF CreateDomain, NewTypeName, HaveOids
<1>4. cat.next_oid + 1 <= MaxOid
  BY <1>3 DEF State, Base, Fresh
<1>5. array_name(name) # name
  BY ArrayNameDiffers
<1>6. IsCatalog(cat') /\ cat'.pg_enum = cat.pg_enum /\ cat'.pg_range = cat.pg_range
  BY <1>1, <1>2, <1>3, <1>5, DefineAlone
<1>7. SameButKind(define(cat, row), cat')
  BY <1>2, <1>6 DEF SameButKind, SameTypes, SameClasses
<1>8. base \in DOMAIN cat.pg_type
  BY UsableThere
<1>9. QED
  BY <1>1, <1>3, <1>4, <1>5, <1>6, <1>7, <1>8, TypeDeclared

LEMMA CreateEnumAdds ==
    ASSUME State(cat), TiesKept, NEW ns, NEW name \in UserName, NEW list, CreateEnum(ns, name, list)
    PROVE  Adds(cat, cat') /\ Fit(cat, cat')
<1> DEFINE row  == TypeRow(ns, name, "enum")
           rows == [i \in DOMAIN list |-> [label |-> list[i], order |-> i * Unit]]
           b    == define(cat, row)
<1>1. cat' = [b EXCEPT !.pg_enum = With(@, cat.next_oid, rows)]
  BY DEF CreateEnum
<1> HIDE DEF rows
<1>2. /\ IsTypeRow(row) /\ row.typname = name /\ row.typnamespace = ns /\ row.typtype = "enum"
      /\ row.typrelid = None /\ row.typelem = None /\ row.typbasetype = None
  BY TypeRowIsTypeRow
<1> HIDE DEF row
<1>3. TypeFree(cat, ns, name) /\ TypeFree(cat, ns, array_name(name)) /\ cat.next_oid + 2 - 1 <= MaxOid
  BY NoGap DEF CreateEnum, NewTypeName, HaveOids
<1>4. cat.next_oid + 1 <= MaxOid
  BY <1>3 DEF State, Base, Fresh
<1>5. array_name(name) # name
  BY ArrayNameDiffers
<1>6. IsCatalog(b) /\ b.pg_enum = cat.pg_enum /\ b.pg_range = cat.pg_range
  BY <1>2, <1>3, <1>5, DefineAlone
<1> HIDE DEF b
<1>7. /\ SameButKind(b, cat') /\ cat'.pg_range = cat.pg_range
      /\ cat'.pg_enum = With(cat.pg_enum, cat.next_oid, rows)
  BY <1>1, <1>6 DEF SameButKind, SameTypes, SameClasses, IsCatalog, Fields
<1>8. DOMAIN cat'.pg_enum = DOMAIN cat.pg_enum \cup {cat.next_oid}
  BY <1>7 DEF With
<1>9. SameButKind(define(cat, row), cat')
  BY <1>7 DEF b
<1>10. QED
  BY <1>2, <1>3, <1>4, <1>5, <1>7, <1>8, <1>9, TypeDeclared

LEMMA CreateRangeAdds ==
    ASSUME State(cat), TiesKept, NEW ns, NEW name \in UserName, NEW subtype \in Named(cat),
           CreateRange(ns, name, subtype)
    PROVE  Adds(cat, cat') /\ Fit(cat, cat')
<1> DEFINE row  == TypeRow(ns, name, "range")
           b    == define(cat, row)
<1>1. cat' = [b EXCEPT !.pg_range = With(@, cat.next_oid, subtype)]
  BY DEF CreateRange
<1>2. /\ IsTypeRow(row) /\ row.typname = name /\ row.typnamespace = ns /\ row.typtype = "range"
      /\ row.typrelid = None /\ row.typelem = None /\ row.typbasetype = None
  BY TypeRowIsTypeRow
<1> HIDE DEF row
<1>3. TypeFree(cat, ns, name) /\ TypeFree(cat, ns, array_name(name)) /\ cat.next_oid + 2 - 1 <= MaxOid
  BY NoGap DEF CreateRange, NewTypeName, HaveOids
<1>4. cat.next_oid + 1 <= MaxOid
  BY <1>3 DEF State, Base, Fresh
<1>5. array_name(name) # name
  BY ArrayNameDiffers
<1>6. IsCatalog(b) /\ b.pg_enum = cat.pg_enum /\ b.pg_range = cat.pg_range
  BY <1>2, <1>3, <1>5, DefineAlone
<1> HIDE DEF b
<1>7. /\ SameButKind(b, cat') /\ cat'.pg_enum = cat.pg_enum
      /\ cat'.pg_range = With(cat.pg_range, cat.next_oid, subtype)
  BY <1>1, <1>6 DEF SameButKind, SameTypes, SameClasses, IsCatalog, Fields
<1>8. SameButKind(define(cat, row), cat')
  BY <1>7 DEF b
<1>9. subtype \in DOMAIN cat.pg_type
  BY DEF Named
<1>10. QED
  BY <1>2, <1>3, <1>4, <1>5, <1>7, <1>8, <1>9, TypeDeclared
LEMMA CreateCompositeAdds ==
    ASSUME State(cat), TiesKept, NEW ns, NEW name \in UserName, NEW fields,
           CreateComposite(ns, name, fields)
    PROVE  Adds(cat, cat') /\ (fields \subseteq DOMAIN cat.pg_type => Fit(cat, cat'))
<1>1. cat' = register_composite_to_record_cast(install_relation(cat, ns, name, "composite", fields),
                                               cat.next_oid + 1)
  BY DEF CreateComposite
<1>2. TypeFree(cat, ns, name) /\ TypeFree(cat, ns, array_name(name)) /\ cat.next_oid + 4 - 1 <= MaxOid
  BY NoGap DEF CreateComposite, NewTypeName, HaveOids
<1>3. cat.next_oid + 3 <= MaxOid
  BY <1>2 DEF State, Base, Fresh
<1>4. array_name(name) # name
  BY ArrayNameDiffers
<1>5. QED
  BY <1>1, <1>2, <1>3, <1>4, RelationDeclared

LEMMA CreateTableAdds ==
    ASSUME State(cat), TiesKept, NEW ns, NEW name \in UserName, NEW columns,
           CreateTable(ns, name, columns)
    PROVE  Adds(cat, cat') /\ (columns \subseteq DOMAIN cat.pg_type => Fit(cat, cat'))
<1>1. cat' = register_composite_to_record_cast(install_relation(cat, ns, name, "table", columns),
                                               cat.next_oid + 1)
  BY DEF CreateTable
<1>2. TypeFree(cat, ns, name) /\ TypeFree(cat, ns, array_name(name)) /\ cat.next_oid + 4 - 1 <= MaxOid
  BY NoGap DEF CreateTable, HaveOids
<1>3. cat.next_oid + 3 <= MaxOid
  BY <1>2 DEF State, Base, Fresh
<1>4. array_name(name) # name
  BY ArrayNameDiffers
<1>5. QED
  BY <1>1, <1>2, <1>3, <1>4, RelationDeclared

LEMMA CreateViewAdds ==
    ASSUME State(cat), TiesKept, NEW ns, NEW name \in UserName,
           NEW reads \in SUBSET Relations(cat, {"table", "view"}), NEW casts \in SUBSET Named(cat),
           CreateView(ns, name, reads, casts)
    PROVE  Adds(cat, cat') /\ (Refs(cat) => Fit(cat, cat'))
<1>1. cat' = create_view(cat, ns, name, reads, casts)
  BY DEF CreateView
<1>2. TypeFree(cat, ns, name) /\ TypeFree(cat, ns, array_name(name)) /\ cat.next_oid + 3 - 1 <= MaxOid
  BY NoGap DEF CreateView, HaveOids
<1>3. cat.next_oid + 2 <= MaxOid
  BY <1>2 DEF State, Base, Fresh
<1>4. array_name(name) # name
  BY ArrayNameDiffers
<1>5. QED
  BY <1>1, <1>2, <1>3, <1>4, ViewDeclared

LEMMA DefineTypeAdds ==
    ASSUME State(cat), TiesKept, NEW ns, NEW name \in UserName, DefineType(ns, name)
    PROVE  Adds(cat, cat') /\ Fit(cat, cat')
<1>1. /\ cat' = define_type(cat, ns, name)
      /\ TypeFree(cat, ns, name) => TypeFree(cat, ns, array_name(name))
      /\ cat.next_oid + 2 - 1 <= MaxOid
  BY NoGap DEF DefineType, HaveOids
<1>2. array_name(name) # name
  BY ArrayNameDiffers
<1>3. Base(cat') /\ Scripted(cat, cat')
  BY <1>1, <1>2, DefineTypeBase DEF State
<1>4. MaxOid \in Nat
  BY TypeObjectsAssumption
<1>5. cat'.next_oid <= MaxOid + 1
  <2>1. CASE TypeFree(cat, ns, name)
    <3> DEFINE row == TypeRow(ns, name, "base")
    <3>1. cat' = define(cat, row)
      BY <1>1, <2>1 DEF define_type
    <3>2. /\ IsTypeRow(row) /\ row.typname = name /\ row.typnamespace = ns
          /\ row.typrelid = None /\ row.typelem = None
      BY TypeRowIsTypeRow
    <3> HIDE DEF row
    <3>3. TypeAdded(cat, row, cat')
      BY <1>1, <1>2, <2>1, <3>1, <3>2, DefineBase DEF State
    <3>4. cat'.next_oid = cat.next_oid + 2
      BY <3>3 DEF TypeAdded
    <3>5. QED
      BY <1>1, <1>4, <3>4 DEF State, Base, Fresh
  <2>2. CASE ~ TypeFree(cat, ns, name)
    <3>1. cat' = cat
      BY <1>1, <2>2 DEF define_type
    <3>2. QED
      BY <3>1 DEF State, Bounded
  <2>3. QED
    BY <2>1, <2>2
<1>6. QED
  BY <1>3, <1>5, ScriptedMore

LEMMA CreateCastAdds ==
    ASSUME State(cat), NEW source, NEW target, NEW binary, CreateCast(source, target, binary)
    PROVE  Adds(cat, cat') /\ Fit(cat, cat')
<1>1. cat' = alloc_oid(insert_pg_cast(cat, cat.next_oid, source, target), 1) /\ cat.next_oid + 1 - 1 <= MaxOid
  BY DEF CreateCast, HaveOids
<1>2. Base(cat') /\ Scripted(cat, cat')
  BY <1>1, AddCast DEF State
<1>3. cat'.next_oid = cat.next_oid + 1
  BY <1>1 DEF State, Base, IsCatalog, Fields, alloc_oid, insert_pg_cast
<1>4. cat'.next_oid <= MaxOid + 1
  <2>1. MaxOid \in Nat
    BY TypeObjectsAssumption
  <2>2. QED
    BY <1>1, <1>3, <2>1 DEF State, Base, Fresh
<1>5. QED
  BY <1>2, <1>4, ScriptedMore

LEMMA CreateSequenceAdds ==
    ASSUME State(cat), NEW ns, NEW name, CreateSequence(ns, name)
    PROVE  Adds(cat, cat') /\ Fit(cat, cat')
<1> DEFINE r   == cat.next_oid
           row == [relname |-> name, relnamespace |-> ns, relkind |-> "sequence", reltype |-> None]
<1>1. /\ cat' = alloc_oid([cat EXCEPT !.class_by_qname = With(@, <<ns, name>>, r),
                                      !.pg_class = With(@, r, row)], 1)
      /\ r + 1 - 1 <= MaxOid
  BY DEF CreateSequence, HaveOids
<1>2. IsClassRow(row) /\ row.reltype = None /\ row.relkind = "sequence"
  BY DEF IsClassRow
<1> HIDE DEF row
<1>3. /\ IsCatalog(cat') /\ SameTypes(cat, cat')
      /\ cat'.pg_class = With(cat.pg_class, r, row) /\ cat'.next_oid = r + 1
      /\ cat'.pg_namespace = cat.pg_namespace /\ cat'.pg_enum = cat.pg_enum /\ cat'.pg_range = cat.pg_range
      /\ cat'.pg_attribute = cat.pg_attribute /\ cat'.pg_rewrite = cat.pg_rewrite
      /\ cat'.pg_cast = cat.pg_cast /\ cat'.pg_operator = cat.pg_operator
      /\ cat'.pg_depend = cat.pg_depend /\ cat'.pg_extension = cat.pg_extension
  BY <1>1 DEF State, Base, IsCatalog, Fields, alloc_oid, SameTypes
<1>4. Base(cat')
  BY <1>2, <1>3, SequenceBase DEF State
<1>5. r \in Nat /\ r \notin DOMAIN cat.pg_class
  BY DEF State, Base, Fresh
<1>6. /\ DOMAIN cat'.pg_class = DOMAIN cat.pg_class \cup {r} /\ cat'.pg_class[r] = row
      /\ \A x \in DOMAIN cat.pg_class : cat'.pg_class[x] = cat.pg_class[x]
  BY <1>3, <1>5 DEF With
<1>7. Relations(cat', {"view"}) = Relations(cat, {"view"})
  BY <1>2, <1>5, <1>6 DEF Relations
<1>8. OfKind(cat', {"enum"}) = OfKind(cat, {"enum"}) /\ OfKind(cat', {"range"}) = OfKind(cat, {"range"})
  BY <1>3 DEF OfKind, SameTypes
<1>9. Kinds(cat')
  BY <1>3, <1>6, <1>7, <1>8 DEF State, Kinds
<1>10. Bounded(cat')
  <2>1. MaxOid \in Nat
    BY TypeObjectsAssumption
  <2>2. r + 1 <= MaxOid + 1
    BY <1>1, <1>5, <2>1
  <2>3. QED
    BY <1>3, <2>2 DEF State, Bounded
<1>11. More(cat, cat')
  BY <1>3, <1>5, <1>6 DEF More, Kept, SameTypes
<1>12. Fit(cat, cat')
  BY <1>3 DEF Fit, SameTypes
<1>13. QED
  BY <1>3, <1>4, <1>9, <1>10, <1>11, <1>12 DEF Adds, State, Tagged

\* Neither types nor relations nor what depends on them.
LEMMA AsideAdds ==
    ASSUME NEW c, State(c), NEW d, IsCatalog(d), SameTypes(c, d), SameClasses(c, d),
           d.pg_attribute = c.pg_attribute, d.pg_rewrite = c.pg_rewrite, d.pg_range = c.pg_range,
           DOMAIN d.pg_enum = DOMAIN c.pg_enum, d.pg_cast = c.pg_cast, d.pg_operator = c.pg_operator,
           d.pg_depend = c.pg_depend, d.pg_extension = c.pg_extension, d.next_oid = c.next_oid,
           d.pg_namespace \subseteq Schema \cup {"pg_catalog"}
    PROVE  Adds(c, d) /\ Fit(c, d)
<1>1. Base(d)
  <2>1. Aside(c, d)
    BY DEF State, Base, Fresh, Aside
  <2>2. QED
    BY <2>1, AsideBase DEF State
<1>2. OfKind(d, {"enum"}) = OfKind(c, {"enum"}) /\ OfKind(d, {"range"}) = OfKind(c, {"range"})
  BY DEF OfKind, SameTypes
<1>3. Kinds(d)
  BY <1>2 DEF State, Kinds, Relations, SameClasses
<1>4. Bounded(d)
  BY DEF State, Bounded
<1>5. More(c, d)
  BY DEF State, Base, Fresh, More, Kept, SameTypes, SameClasses
<1>6. Fit(c, d)
  BY DEF Fit, SameTypes
<1>7. QED
  BY <1>1, <1>3, <1>4, <1>5, <1>6 DEF Adds, State, Tagged

LEMMA AlterEnumAdds ==
    ASSUME State(cat), NEW t \in DOMAIN cat.pg_enum, NEW label, NEW place, NEW if_not_exists,
           AlterEnum(t, label, place, if_not_exists)
    PROVE  Adds(cat, cat') /\ Fit(cat, cat')
<1> DEFINE rows == added(cat.pg_enum[t], label, place)
<1>1. cat' = cat \/ cat' = [cat EXCEPT !.pg_enum = [@ EXCEPT ![t] = rows]]
  BY DEF AlterEnum
<1> HIDE DEF rows
<1>2. /\ IsCatalog(cat') /\ SameTypes(cat, cat') /\ SameClasses(cat, cat')
      /\ cat'.pg_attribute = cat.pg_attribute /\ cat'.pg_rewrite = cat.pg_rewrite /\ cat'.pg_range = cat.pg_range
      /\ DOMAIN cat'.pg_enum = DOMAIN cat.pg_enum /\ cat'.pg_cast = cat.pg_cast
      /\ cat'.pg_operator = cat.pg_operator /\ cat'.pg_depend = cat.pg_depend
      /\ cat'.pg_extension = cat.pg_extension /\ cat'.next_oid = cat.next_oid
      /\ cat'.pg_namespace = cat.pg_namespace
  BY <1>1 DEF State, Base, IsCatalog, Fields, SameTypes, SameClasses
<1>3. cat'.pg_namespace \subseteq Schema \cup {"pg_catalog"}
  BY <1>2 DEF State, Bounded
<1>4. QED
  BY <1>2, <1>3, AsideAdds

LEMMA CreateSchemaAdds ==
    ASSUME State(cat), NEW s \in Schema, CreateSchema(s)
    PROVE  Adds(cat, cat') /\ Fit(cat, cat')
<1>1. cat' = [cat EXCEPT !.pg_namespace = @ \cup {s}]
  BY DEF CreateSchema
<1>2. /\ IsCatalog(cat') /\ SameTypes(cat, cat') /\ SameClasses(cat, cat')
      /\ cat'.pg_attribute = cat.pg_attribute /\ cat'.pg_rewrite = cat.pg_rewrite /\ cat'.pg_range = cat.pg_range
      /\ DOMAIN cat'.pg_enum = DOMAIN cat.pg_enum /\ cat'.pg_cast = cat.pg_cast
      /\ cat'.pg_operator = cat.pg_operator /\ cat'.pg_depend = cat.pg_depend
      /\ cat'.pg_extension = cat.pg_extension /\ cat'.next_oid = cat.next_oid
      /\ cat'.pg_namespace = cat.pg_namespace \cup {s}
  BY <1>1 DEF State, Base, IsCatalog, Fields, SameTypes, SameClasses
<1>3. cat'.pg_namespace \subseteq Schema \cup {"pg_catalog"}
  BY <1>2 DEF State, Bounded
<1>4. QED
  BY <1>2, <1>3, AsideAdds
-----------------------------------------------------------------------------
(* The statements, one by one: what renames.                                *)

\* The types, or the relations, that bear another name in d than in c.
TypesMoved(c, d)     == {t \in DOMAIN c.pg_type \cap DOMAIN d.pg_type : TypeName(c, t) # TypeName(d, t)}
RelationsMoved(c, d) == {r \in DOMAIN c.pg_class \cap DOMAIN d.pg_class : RelationName(c, r) # RelationName(d, r)}

\* A statement renames one type at most, with its array, and with a relation its row type.
OwnMoved(c, d) ==
    /\ \E t, a : TypesMoved(c, d) \subseteq {t, a}
    /\ \A r \in RelationsMoved(c, d) : TypesMoved(c, d) = Both(c, c.pg_class[r].reltype)

Moves(c, d) == State(d) /\ OnlyNames(c, d) /\ OwnMoved(c, d)

LEMMA MoveTypeMoves ==
    ASSUME State(cat), TiesKept, NEW t \in Declared(cat), NEW ns, NEW name, array_name(name) # name,
           MoveType(t, ns, name)
    PROVE  Moves(cat, cat')
<1> DEFINE a == cat.pg_type[t].typarray
<1>1. /\ cat' = rename_type_and_array(cat, t, cat.pg_type[t].typnamespace, cat.pg_type[t].typname, name, ns)
      /\ TypeFree(cat, ns, name) /\ TypeFree(cat, ns, array_name(name))
      /\ cat.pg_type[t].typrelid = None
  BY NoGap DEF MoveType, MayAlter
<1>2. /\ t \in DOMAIN cat.pg_type /\ cat.pg_type[t].typelem = None /\ cat.pg_type[t].typtype # "pseudo"
  BY DEF Declared, Named
<1>3. a # None
  BY <1>2 DEF State, Base, Ties, ArraysTied
<1>4. Base(cat') /\ OnlyNames(cat, cat') /\ Renamed(cat, t, a, name, ns, cat') /\ cat'.pg_class = cat.pg_class
  BY <1>1, <1>2, <1>3, MoveTypeBase DEF State
<1>5. State(cat')
  BY <1>4, NamesState
<1>6. TypesMoved(cat, cat') \subseteq {t, a}
  BY <1>4 DEF Renamed, TypesMoved, TypeName
<1>7. RelationsMoved(cat, cat') = {}
  BY <1>4 DEF RelationsMoved, RelationName
<1>8. QED
  BY <1>4, <1>5, <1>6, <1>7 DEF Moves, OwnMoved

LEMMA RenameTypeMoves ==
    ASSUME State(cat), TiesKept, NEW t \in Declared(cat), NEW name \in UserName, RenameType(t, name)
    PROVE  Moves(cat, cat')
BY ArrayNameDiffers, MoveTypeMoves DEF RenameType

LEMMA SetTypeSchemaMoves ==
    ASSUME State(cat), TiesKept, NEW t \in Declared(cat), NEW ns, SetTypeSchema(t, ns)
    PROVE  Moves(cat, cat')
<1>1. t \in DOMAIN cat.pg_type /\ cat.pg_type[t].typelem = None /\ cat.pg_type[t].typtype # "pseudo"
  BY DEF Declared, Named
<1>2. array_name(cat.pg_type[t].typname) # cat.pg_type[t].typname
  BY <1>1 DEF State, Base, Ties, ArraysTied
<1>3. QED
  BY <1>2, MoveTypeMoves DEF SetTypeSchema

LEMMA MoveRelationMoves ==
    ASSUME State(cat), TiesKept, NEW r \in DOMAIN cat.pg_class, NEW ns, NEW name,
           cat.pg_class[r].reltype # None => array_name(name) # name,
           MoveRelation(r, ns, name)
    PROVE  Moves(cat, cat')
<1> DEFINE t == cat.pg_class[r].reltype
           a == cat.pg_type[t].typarray
<1>1. /\ cat' = alter_relation(cat, r, ns, name)
      /\ t # None => TypeFree(cat, ns, name) /\ TypeFree(cat, ns, array_name(name))
      /\ t = None => TypeFree(cat, cat.pg_class[r].relnamespace, cat.pg_class[r].relname)
  BY NoGap DEF MoveRelation
<1>2. /\ Base(cat') /\ OnlyNames(cat, cat') /\ ClassRenamed(cat, r, name, ns, cat')
      /\ t = None => cat'.pg_type = cat.pg_type
      /\ t # None => Renamed(cat, t, a, name, ns, cat')
  BY <1>1, AlterRelationBase DEF State
<1>3. State(cat')
  BY <1>2, NamesState
<1>4. RelationsMoved(cat, cat') \subseteq {r}
  BY <1>2 DEF ClassRenamed, RelationsMoved, RelationName
<1>5. CASE t = None
  <2>1. TypesMoved(cat, cat') = {}
    BY <1>2, <1>5 DEF TypesMoved, TypeName
  <2>2. None \notin DOMAIN cat.pg_type
    BY DEF State, Base, Ties, Rows
  <2>3. Both(cat, t) = {}
    BY <1>5, <2>2 DEF Both, array_type_of
  <2>4. QED
    BY <1>2, <1>3, <1>4, <2>1, <2>3 DEF Moves, OwnMoved
<1>6. CASE t # None
  <2>1. t \in DOMAIN cat.pg_type /\ cat.pg_type[t].typrelid = r /\ r # None
    BY <1>6 DEF State, Base, Ties, RowTypesTied, Rows
  <2>2. cat.pg_type[t].typelem = None /\ cat.pg_type[t].typtype = "composite"
    BY <2>1 DEF State, Base, Ties, ArraysTied, RowTypesTied
  <2>3. a # None /\ a \in DOMAIN cat.pg_type
    BY <2>1, <2>2 DEF State, Base, Ties, ArraysTied, HasArray
  <2>4. Both(cat, t) = {t, a}
    BY <1>6, <2>1, <2>3 DEF Both, array_type_of
  <2>5. /\ DOMAIN cat'.pg_type = DOMAIN cat.pg_type
        /\ \A x \in DOMAIN cat.pg_type \ {t, a} : cat'.pg_type[x] = cat.pg_type[x]
        /\ cat'.pg_type[t] = [cat.pg_type[t] EXCEPT !.typname = name, !.typnamespace = ns]
        /\ cat'.pg_type[a] = [cat.pg_type[a] EXCEPT !.typname = array_name(name), !.typnamespace = ns]
    BY <1>2, <1>6 DEF Renamed
  <2>6. IsTypeRow(cat.pg_type[t]) /\ IsTypeRow(cat.pg_type[a])
    BY <2>1, <2>3 DEF State, Base, Ties, Rows
  <2>7. TypeName(cat', t) = <<ns, name>> /\ TypeName(cat', a) = <<ns, array_name(name)>>
    BY <2>5, <2>6 DEF TypeName, IsTypeRow
  <2>8. TypeName(cat, t) # TypeName(cat', t) /\ TypeName(cat, a) # TypeName(cat', a)
    <3>1. TypeName(cat, t) \in DOMAIN cat.type_by_qname /\ TypeName(cat, a) \in DOMAIN cat.type_by_qname
      BY <2>1, <2>3 DEF State, Base, Ties, NamesTied
    <3>2. TypeFree(cat, ns, name) /\ TypeFree(cat, ns, array_name(name))
      BY <1>1, <1>6
    <3>3. QED
      BY <2>7, <3>1, <3>2 DEF TypeFree
  <2>9. TypesMoved(cat, cat') = {t, a}
    <3>1. \A x \in DOMAIN cat.pg_type \ {t, a} : TypeName(cat', x) = TypeName(cat, x)
      BY <2>5 DEF TypeName
    <3>2. {t, a} \subseteq DOMAIN cat.pg_type
      BY <2>1, <2>3
    <3> HIDE DEF t, a
    <3>3. TypesMoved(cat, cat') = {x \in DOMAIN cat.pg_type : TypeName(cat, x) # TypeName(cat', x)}
      BY <2>5 DEF TypesMoved
    <3>4. \A x \in DOMAIN cat.pg_type : TypeName(cat, x) # TypeName(cat', x) <=> x \in {t, a}
      BY <2>8, <3>1
    <3>5. QED
      BY <3>2, <3>3, <3>4
  <2>10. QED
    BY <1>2, <1>3, <1>4, <2>4, <2>9 DEF Moves, OwnMoved
<1>7. QED
  BY <1>5, <1>6

LEMMA RenameRelationMoves ==
    ASSUME State(cat), TiesKept, NEW r \in DOMAIN cat.pg_class, NEW name \in UserName, RenameRelation(r, name)
    PROVE  Moves(cat, cat')
BY ArrayNameDiffers, MoveRelationMoves DEF RenameRelation

LEMMA SetRelationSchemaMoves ==
    ASSUME State(cat), TiesKept, NEW r \in DOMAIN cat.pg_class, NEW ns, SetRelationSchema(r, ns)
    PROVE  Moves(cat, cat')
<1> DEFINE t == cat.pg_class[r].reltype
<1>1. ASSUME t # None
      PROVE  array_name(cat.pg_class[r].relname) # cat.pg_class[r].relname
  <2>1. t \in DOMAIN cat.pg_type /\ cat.pg_type[t].typrelid = r /\ r # None
    BY <1>1 DEF State, Base, Ties, RowTypesTied, Rows
  <2>2. /\ cat.pg_type[t].typelem = None /\ cat.pg_type[t].typtype = "composite"
        /\ RelationName(cat, r) = TypeName(cat, t)
    BY <2>1 DEF State, Base, Ties, ArraysTied, RowTypesTied
  <2>3. array_name(cat.pg_type[t].typname) # cat.pg_type[t].typname
    BY <2>1, <2>2 DEF State, Base, Ties, ArraysTied
  <2>4. QED
    BY <2>2, <2>3 DEF RelationName, TypeName
<1>2. QED
  BY <1>1, MoveRelationMoves DEF SetRelationSchema
-----------------------------------------------------------------------------
(* The statements, one by one: what drops.                                  *)

\* DROP TYPE, DROP of a relation and DROP SCHEMA leave casts and extensions alone.
Bystanders(c, d) ==
    /\ IsCatalog(d)
    /\ d.pg_cast = c.pg_cast /\ d.pg_operator = c.pg_operator /\ d.pg_extension = c.pg_extension

LEMMA BystandersOfDrops ==
    ASSUME NEW c, IsCatalog(c), NEW S
    PROVE  /\ Bystanders(c, remove_pg_type(c, S))
           /\ Bystanders(c, remove_dependencies(c, S))
           /\ Bystanders(c, drop_columns(c, S))
           /\ Bystanders(c, drop_relations(c, S))
<1>1. ASSUME NEW b, IsCatalog(b), NEW T
      PROVE  Bystanders(b, remove_pg_type(b, T)) /\ Bystanders(b, remove_dependencies(b, T))
  BY <1>1 DEF IsCatalog, Fields, Bystanders, remove_pg_type, remove_dependencies
<1>2. Bystanders(c, drop_columns(c, S))
  BY DEF IsCatalog, Fields, Bystanders, drop_columns
<1>3. Bystanders(c, drop_relations(c, S))
  <2> DEFINE d1 == [c EXCEPT !.class_by_qname = Without(@, {RelationName(c, r) : r \in S}),
                             !.pg_class = Without(@, S),
                             !.pg_attribute = Without(@, S),
                             !.pg_rewrite = Without(@, S)]
             d2 == remove_dependencies(d1, S)
             d3 == remove_pg_type(d2, RowTypes(c, S))
  <2>1. Bystanders(c, d1)
    BY DEF IsCatalog, Fields, Bystanders
  <2> HIDE DEF d1
  <2>2. Bystanders(d1, d2)
    BY <1>1, <2>1 DEF Bystanders
  <2> HIDE DEF d2
  <2>3. Bystanders(d2, d3)
    BY <1>1, <2>2 DEF Bystanders
  <2> HIDE DEF d3
  <2>4. Bystanders(c, d3)
    BY <2>1, <2>2, <2>3 DEF Bystanders
  <2>5. QED
    BY <2>4 DEF d1, d2, d3, drop_relations
<1>4. QED
  BY <1>1, <1>2, <1>3

\* No type of an extension goes, nor anything but types and relations.
Drops(c, d) ==
    /\ State(d)
    /\ Bystanders(c, d)
    /\ \E C, T, R, O : /\ Shrunk(c, C, T, R, O, d)
                       /\ T \subseteq DOMAIN c.pg_type \ Owned(c)
                       /\ R \subseteq DOMAIN c.pg_class
                       /\ O \subseteq T \cup R

LEMMA RowTypesNotOwned ==
    ASSUME NEW c, State(c), NEW S, S \subseteq DOMAIN c.pg_class
    PROVE  RowTypes(c, S) \subseteq DOMAIN c.pg_type \ Owned(c)
<1>1. RowTypes(c, S) \subseteq DOMAIN c.pg_type /\ \A t \in RowTypes(c, S) : OfRelation(c, t)
  BY RowTypesWhole DEF State, Base
<1>2. ASSUME NEW t \in Owned(c), t \in DOMAIN c.pg_type
      PROVE  ~ OfRelation(c, t)
  <2>1. PICK g \in Tagged(c) : g.objid = t
    BY DEF Owned, Tagged
  <2> DEFINE own == extension_objects(c, g.refobjid)
             elem == c.pg_type[t].typelem
  <2>2. Member(c, t, own)
    BY <2>1 DEF State, Base, MembersWhole
  <2>3. c.pg_type[t].typrelid = None /\ (elem # None => elem \in own)
    BY <1>2, <2>2 DEF Member
  <2>4. ASSUME elem # None
        PROVE  c.pg_type[elem].typrelid = None
    <3>1. elem \in DOMAIN c.pg_type
      BY <1>2, <2>4 DEF State, Base, Ties, ArraysTied
    <3>2. Member(c, elem, own)
      BY <2>3, <2>4, MemberOf DEF State, Base
    <3>3. QED
      BY <3>1, <3>2 DEF Member
  <2>5. QED
    BY <2>3, <2>4 DEF OfRelation
<1>3. QED
  BY <1>1, <1>2

\* A type that no extension owns has an array that none owns.
LEMMA BothNotOwned ==
    ASSUME NEW c, State(c), NEW t \in DOMAIN c.pg_type \ Owned(c), c.pg_type[t].typelem = None
    PROVE  Both(c, t) \subseteq DOMAIN c.pg_type \ Owned(c)
<1> DEFINE a == c.pg_type[t].typarray
<1>1. Both(c, t) = {t, a} \ {None}
  BY DEF Both, array_type_of
<1>2. ASSUME a # None
      PROVE  a \in DOMAIN c.pg_type \ Owned(c)
  <2>1. a \in DOMAIN c.pg_type /\ c.pg_type[a].typelem = t /\ t # None
    BY <1>2 DEF State, Base, Ties, ArraysTied, HasArray, Rows
  <2>2. ASSUME a \in Owned(c)
        PROVE  FALSE
    <3>1. PICK g \in Tagged(c) : g.objid = a
      BY <2>2 DEF Owned, Tagged
    <3>2. Member(c, a, extension_objects(c, g.refobjid))
      BY <3>1 DEF State, Base, MembersWhole
    <3>3. t \in extension_objects(c, g.refobjid)
      BY <2>1, <3>2 DEF Member
    <3>4. t \in Owned(c)
      BY <3>3 DEF extension_objects, Owned
    <3>5. QED
      BY <3>4
  <2>3. QED
    BY <2>1, <2>2
<1>3. QED
  BY <1>1, <1>2

LEMMA OverUnion ==
    ASSUME NEW c, NEW S, NEW T, Over(c, S) = {}, Over(c, T) = {}
    PROVE  Over(c, S \cup T) = {}
BY DEF Over

\* A view that casts to a type depends on it.
LEMMA CastsFound ==
    ASSUME NEW c, Refs(c), NEW v \in DOMAIN c.pg_rewrite, NEW k \in c.pg_rewrite[v].casts, NEW S, k \in S
    PROVE  v \in find_views_depending_on_type(c, S)
<1>1. RuleResolves(c, v)
  BY DEF Refs
<1>2. PICK g \in c.pg_depend : g.objid = v /\ g.refobjid = k /\ g.deptype = "type"
  BY <1>1 DEF RuleResolves
<1>3. QED
  BY <1>2 DEF find_views_depending_on_type

\* The columns that are left are not of the types that nothing left uses.
LEMMA HoldersGone ==
    ASSUME NEW c, NEW C, NEW T, NEW R, NEW O, NEW d, Shrunk(c, C, T, R, O, d), NEW S, NEW W,
           DOMAIN c.pg_attribute \subseteq DOMAIN c.pg_class, Unused(c, S, W), W \subseteq R
    PROVE  \A r \in DOMAIN d.pg_attribute : d.pg_attribute[r] \cap S = {}
<1>1. /\ DOMAIN d.pg_attribute = DOMAIN c.pg_attribute \ R
      /\ \A r \in DOMAIN d.pg_attribute : d.pg_attribute[r] \subseteq c.pg_attribute[r]
  BY DEF Shrunk
<1>2. \A r \in DOMAIN c.pg_attribute : r \notin R => c.pg_attribute[r] \cap S = {}
  BY DEF Unused, Holders, Columns
<1>3. QED
  BY <1>1, <1>2

LEMMA DropRelationDrops ==
    ASSUME State(cat), NEW r \in DOMAIN cat.pg_class, NEW cascade, DropRelation(r, cascade)
    PROVE  Drops(cat, cat') /\ (Refs(cat) /\ UsesKept => Refs(cat'))
<1> DEFINE R == transitive_views(cat, {r})
           T == RowTypes(cat, R)
<1>1. /\ cat' = drop_views(cat, {r})
      /\ UsesKept => Unused(cat, T, R)
  BY DEF DropRelation, UsesKept, Gap
<1>2. /\ Shrunk(cat, {}, T, R, R, cat')
      /\ R \subseteq DOMAIN cat.pg_class
      /\ Base(cat')
  BY <1>1, DropRelationBase DEF State
<1>3. \A v \in DOMAIN cat.pg_class : v \in find_dependent_views(cat, R) => v \in R
  BY TransitiveViews
<1>4. Bystanders(cat, cat')
  BY <1>1, BystandersOfDrops DEF drop_views, State, Base
<1>5. T \subseteq DOMAIN cat.pg_type \ Owned(cat)
  BY <1>2, RowTypesNotOwned
<1> HIDE DEF R, T
<1>6. State(cat')
  BY <1>2, ShrunkState
<1>7. Drops(cat, cat')
  BY <1>2, <1>4, <1>5, <1>6 DEF Drops
<1>8. ASSUME Refs(cat), UsesKept
      PROVE  Refs(cat')
  <2>1. Unused(cat, T, R)
    BY <1>1, <1>8
  <2>2. \A x \in DOMAIN cat'.pg_attribute : cat'.pg_attribute[x] \cap T = {}
    BY <1>2, <2>1, HoldersGone DEF State, Kinds
  <2>3. \A v \in DOMAIN cat.pg_rewrite \ R : cat.pg_rewrite[v].casts \cap T = {}
    BY <1>8, <2>1, CastsFound DEF Unused
  <2>4. R \cap DOMAIN cat.pg_class \subseteq R /\ R \cap DOMAIN cat.pg_type \subseteq T
    BY <1>2 DEF State, Base, Fresh
  <2>5. Over(cat, T) = {} /\ \A v \in DOMAIN cat.pg_rewrite \ R : cat.pg_rewrite[v].columns \cap {} = {}
    BY <2>1 DEF Unused
  <2>6. QED
    BY <1>2, <1>3, <1>8, <2>2, <2>3, <2>4, <2>5, ShrunkRefs
<1>9. QED
  BY <1>7, <1>8
LEMMA DropTypeDrops ==
    ASSUME State(cat), TiesKept, NEW t \in Declared(cat), NEW cascade, DropType(t, cascade)
    PROVE  Drops(cat, cat') /\ (Refs(cat) /\ UsesKept => Refs(cat'))
<1> DEFINE S == Both(cat, t)
           V == find_views_depending_on_type(cat, {t})
           R == transitive_views(cat, V)
           W == RowTypes(cat, R)
<1>1. /\ cat' = drop_type(cat, t)
      /\ t \in DOMAIN cat.pg_type \ Owned(cat)
      /\ cat.pg_type[t].typelem = None /\ cat.pg_type[t].typrelid = None
      /\ UsesKept => /\ Over(cat, S) = {}
                     /\ Holders(cat, S) \cap Relations(cat, {"view"}) = {}
                     /\ Unused(cat, W, R)
  BY NoGap DEF DropType, UsesKept, Gap, Declared, Named
<1>2. /\ Shrunk(cat, S, S \cup W, R, R \cup S, cat')
      /\ \A r \in DOMAIN cat'.pg_attribute : cat'.pg_attribute[r] \cap S = {}
      /\ R \subseteq DOMAIN cat.pg_class
      /\ Base(cat')
  <2>1. S = Both(cat, t) /\ R = transitive_views(cat, find_views_depending_on_type(cat, {t})) /\ Base(cat)
    BY DEF State
  <2> HIDE DEF S, R
  <2>2. QED
    BY <1>1, <2>1, DropTypeBase
<1>3. /\ V \subseteq R
      /\ \A v \in DOMAIN cat.pg_class : v \in find_dependent_views(cat, R) => v \in R
  BY TransitiveViews
<1>4. Bystanders(cat, cat')
  <2> DEFINE b1 == drop_columns(cat, S)
             b2 == drop_relations(b1, transitive_views(b1, V))
             b3 == remove_pg_type(b2, S)
             b4 == remove_dependencies(b3, S)
  <2>1. cat' = b4
    BY <1>1 DEF drop_type, drop_views
  <2>2. Bystanders(cat, b1)
    BY BystandersOfDrops DEF State, Base
  <2> HIDE DEF b1
  <2>3. Bystanders(b1, b2)
    BY <2>2, BystandersOfDrops DEF Bystanders
  <2> HIDE DEF b2
  <2>4. Bystanders(b2, b3)
    BY <2>3, BystandersOfDrops DEF Bystanders
  <2> HIDE DEF b3
  <2>5. Bystanders(b3, b4)
    BY <2>4, BystandersOfDrops DEF Bystanders
  <2> HIDE DEF b4
  <2>6. QED
    BY <2>1, <2>2, <2>3, <2>4, <2>5 DEF Bystanders
<1>5. W \subseteq DOMAIN cat.pg_type \ Owned(cat) /\ S \subseteq DOMAIN cat.pg_type \ Owned(cat)
  BY <1>1, <1>2, RowTypesNotOwned, BothNotOwned
<1>6. \A x \in S : x = t \/ (x \in DOMAIN cat.pg_type /\ cat.pg_type[x].typelem # None)
  BY <1>1 DEF Both, array_type_of, State, Base, Ties, Rows, ArraysTied, HasArray
<1> HIDE DEF R, S, W, V
<1>7. State(cat')
  BY <1>2, ShrunkState
<1>8. Drops(cat, cat')
  <2>1. S \cup W \subseteq DOMAIN cat.pg_type \ Owned(cat) /\ R \cup S \subseteq (S \cup W) \cup R
    BY <1>5
  <2> DEFINE T == S \cup W
             O == R \cup S
  <2>2. Shrunk(cat, S, T, R, O, cat') /\ T \subseteq DOMAIN cat.pg_type \ Owned(cat) /\ O \subseteq T \cup R
    BY <1>2, <2>1
  <2> HIDE DEF T, O
  <2>3. QED
    BY <1>2, <1>4, <1>7, <2>2 DEF Drops
<1>9. ASSUME Refs(cat), UsesKept
      PROVE  Refs(cat')
  <2> DEFINE T == S \cup W
             O == R \cup S
  <2>1. Over(cat, S) = {} /\ Holders(cat, S) \cap Relations(cat, {"view"}) = {} /\ Unused(cat, W, R)
    BY <1>1, <1>9
  <2>2. Over(cat, T) = {}
    BY <2>1, OverUnion DEF Unused
  <2>3. \A r \in DOMAIN cat'.pg_attribute : cat'.pg_attribute[r] \cap T = {}
    <3>1. \A r \in DOMAIN cat'.pg_attribute : cat'.pg_attribute[r] \cap W = {}
      BY <1>2, <2>1, HoldersGone DEF State, Kinds
    <3>2. QED
      BY <1>2, <3>1
  <2>4. ASSUME NEW v \in DOMAIN cat.pg_rewrite \ R
        PROVE  cat.pg_rewrite[v].columns \cap S = {} /\ cat.pg_rewrite[v].casts \cap T = {}
    <3> DEFINE rule == cat.pg_rewrite[v]
    <3>1. /\ rule.columns \subseteq Columns(cat, v) /\ v \in DOMAIN cat.pg_class
          /\ \A k \in rule.casts : cat.pg_type[k].typelem = None
      BY <1>9 DEF Refs, RuleResolves
    <3>2. v \in Relations(cat, {"view"})
      BY DEF State, Kinds
    <3>3. rule.columns \cap S = {}
      BY <2>1, <3>1, <3>2 DEF Holders
    <3>4. \A k \in rule.casts : k \in S => k = t
      BY <1>6, <3>1
    <3>5. t \notin rule.casts
      <4>1. t \in rule.casts => v \in find_views_depending_on_type(cat, {t})
        BY <1>9, CastsFound
      <4>2. QED
        BY <1>3, <4>1 DEF V
    <3>6. rule.casts \cap W = {}
      BY <1>9, <2>1, CastsFound DEF Unused
    <3>7. QED
      BY <3>3, <3>4, <3>5, <3>6
  <2>5. O \cap DOMAIN cat.pg_class \subseteq R /\ O \cap DOMAIN cat.pg_type \subseteq T
    BY <1>2, <1>5 DEF State, Base, Fresh
  <2>6. Shrunk(cat, S, T, R, O, cat')
    BY <1>2
  <2> HIDE DEF T, O
  <2>7. QED
    BY <1>3, <1>9, <2>2, <2>3, <2>4, <2>5, <2>6, ShrunkRefs
<1>10. QED
  BY <1>8, <1>9

LEMMA DropSchemaDrops ==
    ASSUME State(cat), NEW s, NEW cascade, DropSchema(s, cascade)
    PROVE  Drops(cat, cat') /\ (Refs(cat) /\ UsesKept => Refs(cat'))
<1> DEFINE types == TypesIn(cat, s)
           R     == transitive_views(cat, RelationsIn(cat, s))
           W     == RowTypes(cat, R)
           T     == types \cup W
           O     == R \cup types
<1>1. /\ cat' = LET b == remove_pg_type(drop_relations(cat, R), types)
                IN  [remove_dependencies(b, types) EXCEPT !.pg_namespace = @ \ {s}]
      /\ types \cap Owned(cat) = {}
      /\ UsesKept => Unused(cat, T, R)
  BY DEF DropSchema, UsesKept, Gap, TypesIn, RelationsIn
<1>2. /\ Shrunk(cat, {}, T, R, O, cat')
      /\ R \subseteq DOMAIN cat.pg_class
      /\ Base(cat')
  BY <1>1, DropSchemaBase DEF State
<1>3. \A v \in DOMAIN cat.pg_class : v \in find_dependent_views(cat, R) => v \in R
  BY TransitiveViews
<1>4. Bystanders(cat, cat')
  <2> DEFINE b1 == drop_relations(cat, R)
             b2 == remove_pg_type(b1, types)
             b3 == remove_dependencies(b2, types)
             b4 == [b3 EXCEPT !.pg_namespace = @ \ {s}]
  <2>1. cat' = b4
    BY <1>1
  <2>2. Bystanders(cat, b1)
    BY BystandersOfDrops DEF State, Base
  <2> HIDE DEF b1
  <2>3. Bystanders(b1, b2)
    BY <2>2, BystandersOfDrops DEF Bystanders
  <2> HIDE DEF b2
  <2>4. Bystanders(b2, b3)
    BY <2>3, BystandersOfDrops DEF Bystanders
  <2> HIDE DEF b3
  <2>5. Bystanders(b3, b4)
    BY <2>4 DEF Bystanders, IsCatalog, Fields
  <2> HIDE DEF b4
  <2>6. QED
    BY <2>1, <2>2, <2>3, <2>4, <2>5 DEF Bystanders
<1>5. W \subseteq DOMAIN cat.pg_type \ Owned(cat) /\ types \subseteq DOMAIN cat.pg_type
  BY <1>2, RowTypesNotOwned DEF TypesIn
<1> HIDE DEF R, W, types
<1>6. T \subseteq DOMAIN cat.pg_type \ Owned(cat) /\ O \subseteq T \cup R
  BY <1>1, <1>5
<1> HIDE DEF T
<1>7. O \cap DOMAIN cat.pg_class \subseteq R /\ O \cap DOMAIN cat.pg_type \subseteq T
  BY <1>2, <1>6 DEF State, Base, Fresh
<1> HIDE DEF O
<1>8. State(cat')
  BY <1>2, ShrunkState
<1>9. Drops(cat, cat')
  BY <1>2, <1>4, <1>6, <1>8 DEF Drops
<1>10. ASSUME Refs(cat), UsesKept
       PROVE  Refs(cat')
  <2>1. Unused(cat, T, R)
    BY <1>1, <1>10
  <2>2. \A x \in DOMAIN cat'.pg_attribute : cat'.pg_attribute[x] \cap T = {}
    BY <1>2, <2>1, HoldersGone DEF State, Kinds
  <2>3. \A v \in DOMAIN cat.pg_rewrite \ R : cat.pg_rewrite[v].casts \cap T = {}
    BY <1>10, <2>1, CastsFound DEF Unused
  <2>4. Over(cat, T) = {} /\ \A v \in DOMAIN cat.pg_rewrite \ R : cat.pg_rewrite[v].columns \cap {} = {}
    BY <2>1 DEF Unused
  <2>5. QED
    BY <1>2, <1>3, <1>7, <1>10, <2>2, <2>3, <2>4, ShrunkRefs
<1>11. QED
  BY <1>9, <1>10

\* DROP EXTENSION: the rows it owns go, its casts with them.
LEMMA DropExtensionDrops ==
    ASSUME State(cat), NEW e \in DOMAIN cat.pg_extension, NEW cascade, DropExtension(e, cascade),
           NEW ext, ext = cat.pg_extension[e].oid,
           NEW owned, owned = extension_objects(cat, ext)
    PROVE  /\ State(cat')
           /\ Refs(cat) /\ UsesKept => Refs(cat')
           /\ Shrunk(cat, {}, owned, {}, owned \cup {ext}, cat')
           /\ owned \cap DOMAIN cat.pg_class = {}
           /\ cat'.pg_operator = cat.pg_operator
           /\ DOMAIN cat'.pg_cast = DOMAIN cat.pg_cast \ owned
           /\ DOMAIN cat'.pg_extension = DOMAIN cat.pg_extension \ {e}
<1> DEFINE O == owned \cup {ext}
<1>1. /\ cat' = LET b == remove_pg_cast(remove_pg_type(cat, owned), owned)
                IN  [remove_dependencies(b, O) EXCEPT !.pg_extension = Without(@, {e})]
      /\ UsesKept => Unused(cat, owned, {})
  BY DEF DropExtension, UsesKept, Gap
<1>2. /\ Shrunk(cat, {}, owned, {}, O, cat')
      /\ owned \cap DOMAIN cat.pg_class = {}
      /\ Base(cat')
  BY <1>1, DropExtensionBase DEF State
<1>3. State(cat')
  BY <1>2, ShrunkState
<1>4. /\ cat'.pg_operator = cat.pg_operator
      /\ DOMAIN cat'.pg_cast = DOMAIN cat.pg_cast \ owned
      /\ DOMAIN cat'.pg_extension = DOMAIN cat.pg_extension \ {e}
  <2> DEFINE b1 == remove_pg_type(cat, owned)
             b2 == remove_pg_cast(b1, owned)
             b3 == remove_dependencies(b2, O)
             b4 == [b3 EXCEPT !.pg_extension = Without(@, {e})]
  <2>1. cat' = b4
    BY <1>1
  <2>2. Bystanders(cat, b1)
    BY BystandersOfDrops DEF State, Base
  <2> HIDE DEF b1
  <2>3. /\ IsCatalog(b2) /\ b2.pg_operator = b1.pg_operator /\ b2.pg_extension = b1.pg_extension
        /\ DOMAIN b2.pg_cast = DOMAIN b1.pg_cast \ owned
    BY <2>2 DEF Bystanders, IsCatalog, Fields, remove_pg_cast, Without
  <2> HIDE DEF b2
  <2>4. Bystanders(b2, b3)
    BY <2>3, BystandersOfDrops DEF Bystanders
  <2> HIDE DEF b3
  <2>5. /\ IsCatalog(b4) /\ b4.pg_operator = b3.pg_operator /\ b4.pg_cast = b3.pg_cast
        /\ DOMAIN b4.pg_extension = DOMAIN b3.pg_extension \ {e}
    BY <2>4 DEF Bystanders, IsCatalog, Fields, Without
  <2> HIDE DEF b4
  <2>6. QED
    BY <2>1, <2>2, <2>3, <2>4, <2>5 DEF Bystanders
<1>5. ASSUME Refs(cat), UsesKept
      PROVE  Refs(cat')
  <2> DEFINE R == {}
  <2>1. Unused(cat, owned, R)
    BY <1>1, <1>5
  <2>2. ext \notin DOMAIN cat.pg_type /\ ext \notin DOMAIN cat.pg_class
    BY DEF State, Base, Fresh
  <2>3. O \cap DOMAIN cat.pg_class \subseteq R /\ O \cap DOMAIN cat.pg_type \subseteq owned
    BY <1>2, <2>2
  <2>4. \A v \in DOMAIN cat.pg_class : v \in find_dependent_views(cat, R) => v \in R
    BY DEF find_dependent_views
  <2>5. Shrunk(cat, {}, owned, R, O, cat')
    BY <1>2
  <2> HIDE DEF R
  <2>6. \A x \in DOMAIN cat'.pg_attribute : cat'.pg_attribute[x] \cap owned = {}
    BY <2>1, <2>5, HoldersGone DEF State, Kinds
  <2>7. \A v \in DOMAIN cat.pg_rewrite \ R : cat.pg_rewrite[v].casts \cap owned = {}
    BY <1>5, <2>1, CastsFound DEF Unused
  <2>8. Over(cat, owned) = {} /\ \A v \in DOMAIN cat.pg_rewrite \ R : cat.pg_rewrite[v].columns \cap {} = {}
    BY <2>1 DEF Unused
  <2> HIDE DEF O
  <2>9. QED
    BY <1>5, <2>3, <2>4, <2>5, <2>6, <2>7, <2>8, ShrunkRefs
<1>6. QED
  BY <1>2, <1>3, <1>4, <1>5
-----------------------------------------------------------------------------
(* The statements, one by one: extensions.                                  *)

\* One upgrade of a walk, if there is one and the target is not reached.
WalkStep(e, target, w) ==
    IF w.at = target \/ Upgrades(e, w.at) = {} THEN w
    ELSE [at |-> Taken(e, w.at).version, script |-> w.script \o Taken(e, w.at).script]

\* The recursive function that Walk is, cut off at m.
WalkUpto(e, from, target, f, m) ==
    f = [n \in 0..m |-> IF n = 0 THEN [at |-> from, script |-> <<>>] ELSE WalkStep(e, target, f[n-1])]

WalkAlong(e, from, target, f) ==
    /\ f[0] = [at |-> from, script |-> <<>>]
    /\ \A n \in 1..Len(Registry[e]) : f[n] = WalkStep(e, target, f[n-1])
    /\ Walk(e, from, target) = f[Len(Registry[e])]

LEMMA WalkSteps ==
    ASSUME NEW e, Len(Registry[e]) \in Nat, NEW from, NEW target
    PROVE  \E f : WalkAlong(e, from, target, f)
<1> DEFINE Bad == {m \in Nat : ~ \E f : WalkUpto(e, from, target, f, m)}
           start == [at |-> from, script |-> <<>>]
<1> HIDE DEF start
<1>1. ASSUME NEW m \in Nat, NEW f, DOMAIN f = 0..m, f = [n \in 0..m |-> f[n]], f[0] = start,
             \A n \in 1..m : f[n] = WalkStep(e, target, f[n-1])
      PROVE  WalkUpto(e, from, target, f, m)
  <2>1. ASSUME NEW n \in 0..m
        PROVE  f[n] = IF n = 0 THEN start ELSE WalkStep(e, target, f[n-1])
    <3>1. n # 0 => n \in 1..m
      OBVIOUS
    <3>2. QED
      BY <1>1, <3>1
  <2> DEFINE g == [n \in 0..m |-> IF n = 0 THEN start ELSE WalkStep(e, target, f[n-1])]
  <2>2. \A n \in 0..m : f[n] = g[n]
    BY <2>1
  <2>3. f = g
    <3>1. g = [n \in 0..m |-> g[n]]
      OBVIOUS
    <3> HIDE DEF g
    <3>2. QED
      BY <1>1, <2>2, <3>1
  <2>4. QED
    BY <2>3 DEF WalkUpto, start
<1>2. ASSUME NEW m \in Nat, NEW f, WalkUpto(e, from, target, f, m)
      PROVE  /\ DOMAIN f = 0..m /\ f[0] = start
             /\ \A n \in 1..m : f[n] = WalkStep(e, target, f[n-1])
  BY <1>2 DEF WalkUpto, start
<1>3. Bad = {}
  <2>1. SUFFICES ASSUME Bad # {} PROVE FALSE
    OBVIOUS
  <2>2. PICK m \in Bad : \A k \in Bad : m <= k
    <3>1. Bad \subseteq Nat
      OBVIOUS
    <3> HIDE DEF Bad
    <3>2. QED
      BY <2>1, <3>1, Least
  <2>3. CASE m = 0
    <3> DEFINE g == [n \in 0..0 |-> start]
    <3>1. WalkUpto(e, from, target, g, 0)
      <4>1. DOMAIN g = 0..0 /\ g = [n \in 0..0 |-> g[n]] /\ g[0] = start /\ 1..0 = {}
        OBVIOUS
      <4> HIDE DEF g
      <4>2. QED
        BY <1>1, <4>1
    <3>2. QED
      BY <2>2, <2>3, <3>1
  <2>4. CASE m # 0
    <3>1. m - 1 \in Nat /\ m - 1 \notin Bad /\ m \in Nat
      BY <2>2, <2>4
    <3>2. PICK f : WalkUpto(e, from, target, f, m - 1)
      BY <3>1
    <3>3. /\ f[0] = start
          /\ \A n \in 1..(m-1) : f[n] = WalkStep(e, target, f[n-1])
      BY <1>2, <3>1, <3>2
    <3> DEFINE g == [n \in 0..m |-> IF n = m THEN WalkStep(e, target, f[m-1]) ELSE f[n]]
    <3>4. \A n \in 0..(m-1) : g[n] = f[n]
      BY <3>1
    <3>5. g[m] = WalkStep(e, target, f[m-1]) /\ DOMAIN g = 0..m /\ g = [n \in 0..m |-> g[n]]
      BY <3>1
    <3> HIDE DEF g
    <3>6. g[0] = start
      BY <2>4, <3>1, <3>3, <3>4
    <3>7. ASSUME NEW n \in 1..m PROVE g[n] = WalkStep(e, target, g[n-1])
      <4>1. n - 1 \in 0..(m-1)
        BY <3>1
      <4>2. g[n-1] = f[n-1]
        BY <3>4, <4>1
      <4>3. CASE n = m
        BY <3>5, <4>2, <4>3
      <4>4. CASE n # m
        <5>1. n \in 1..(m-1) /\ n \in 0..(m-1)
          BY <3>1, <4>4
        <5>2. QED
          BY <3>3, <3>4, <4>2, <5>1
      <4>5. QED
        BY <4>3, <4>4
    <3>8. WalkUpto(e, from, target, g, m)
      BY <1>1, <3>1, <3>5, <3>6, <3>7
    <3>9. QED
      BY <2>2, <3>8
  <2>5. QED
    BY <2>3, <2>4
<1> DEFINE N == Len(Registry[e])
           w == CHOOSE f : WalkUpto(e, from, target, f, N)
<1>4. \E f : WalkUpto(e, from, target, f, N)
  BY <1>3
<1> HIDE DEF Bad
<1>5. WalkUpto(e, from, target, w, N)
  BY <1>4
<1>6. Walk(e, from, target) = w[N]
  BY Zenon DEF Walk, WalkUpto, WalkStep
<1> HIDE DEF w
<1>7. w[0] = start /\ \A n \in 1..N : w[n] = WalkStep(e, target, w[n-1])
  BY <1>2, <1>5
<1>8. QED
  BY <1>6, <1>7 DEF start, WalkAlong

\* The versions of an extension are a sequence, and their scripts are statements.
LEMMA RegistryLists ==
    ASSUME NEW e \in DOMAIN Registry
    PROVE  /\ Len(Registry[e]) \in Nat /\ DOMAIN Registry[e] = 1..Len(Registry[e])
           /\ \A i \in 1..Len(Registry[e]) : Registry[e][i].script \in Seq(Statement)
<1> DEFINE Entry == [version: STRING \ {""}, from: STRING, script: Seq(Statement)]
           list  == Registry[e]
<1>1. list \in Seq(Entry)
  BY TypeObjectsAssumption
<1>2. \A x \in Entry : x.script \in Seq(Statement)
  OBVIOUS
<1> HIDE DEF Entry, list
<1>3. Len(list) \in Nat /\ DOMAIN list = 1..Len(list) /\ \A i \in 1..Len(list) : list[i] \in Entry
  BY <1>1
<1>4. QED
  BY <1>2, <1>3 DEF list

\* A version that is taken is one of the registry.
LEMMA TakenThere ==
    ASSUME NEW e \in DOMAIN Registry, NEW version, Upgrades(e, version) # {}
    PROVE  Taken(e, version).script \in Seq(Statement)
<1>1. Upgrades(e, version) \subseteq 1..Len(Registry[e]) /\ Len(Registry[e]) \in Nat
  BY RegistryLists DEF Upgrades
<1>2. \E i \in Upgrades(e, version) : \A k \in Upgrades(e, version) : i <= k
  BY <1>1, Least
<1>3. Min(Upgrades(e, version)) \in Upgrades(e, version)
  BY <1>2 DEF Min
<1>4. Min(Upgrades(e, version)) \in 1..Len(Registry[e])
  BY <1>1, <1>3
<1>5. QED
  BY <1>4, RegistryLists DEF Taken

LEMMA WalkScript ==
    ASSUME NEW e \in DOMAIN Registry, NEW from, NEW target
    PROVE  Walk(e, from, target).script \in Seq(Statement)
<1> DEFINE N == Len(Registry[e])
<1>1. N \in Nat
  BY RegistryLists
<1>2. PICK f : WalkAlong(e, from, target, f)
  BY <1>1, WalkSteps
<1>3. /\ f[0] = [at |-> from, script |-> <<>>]
      /\ \A n \in 1..N : f[n] = WalkStep(e, target, f[n-1])
      /\ Walk(e, from, target) = f[N]
  BY <1>2 DEF WalkAlong
<1> HIDE DEF N
<1> DEFINE Bad == {n \in 0..N : f[n].script \notin Seq(Statement)}
<1>4. ASSUME NEW w, w.script \in Seq(Statement)
      PROVE  WalkStep(e, target, w).script \in Seq(Statement)
  <2>1. CASE w.at = target \/ Upgrades(e, w.at) = {}
    BY <1>4, <2>1 DEF WalkStep
  <2>2. CASE ~ (w.at = target \/ Upgrades(e, w.at) = {})
    <3> DEFINE more == Taken(e, w.at).script
    <3>1. more \in Seq(Statement)
      BY <2>2, TakenThere
    <3>2. WalkStep(e, target, w).script = w.script \o more
      BY <2>2 DEF WalkStep
    <3> HIDE DEF more
    <3>3. QED
      BY <1>4, <3>1, <3>2
  <2>3. QED
    BY <2>1, <2>2
<1>5. Bad = {}
  <2>1. SUFFICES ASSUME Bad # {} PROVE FALSE
    OBVIOUS
  <2>2. PICK m \in Bad : \A k \in Bad : m <= k
    <3>1. Bad \subseteq Nat
      BY <1>1
    <3> HIDE DEF Bad
    <3>2. QED
      BY <2>1, <3>1, Least
  <2>3. m # 0
    <3>1. f[0].script \in Seq(Statement)
      BY <1>3
    <3>2. QED
      BY <2>2, <3>1
  <2>4. m \in 1..N /\ m - 1 \in 0..N /\ m - 1 \notin Bad
    BY <1>1, <2>2, <2>3
  <2>5. f[m-1].script \in Seq(Statement)
    BY <2>4
  <2>6. f[m].script \in Seq(Statement)
    BY <1>3, <1>4, <2>4, <2>5
  <2>7. QED
    BY <2>2, <2>6
<1>6. N \in 0..N
  BY <1>1
<1>7. QED
  BY <1>3, <1>5, <1>6
-----------------------------------------------------------------------------
(* What the scripts of extensions made.                                     *)

Things(c) == DOMAIN c.pg_type \cup DOMAIN c.pg_cast

\* Each extension owns what its scripts made, of types and casts, and no other does.
Owns(c, m) ==
    /\ DOMAIN m = DOMAIN Registry
    /\ \A e \in DOMAIN Registry : m[e] \subseteq 1..(c.next_oid - 1)
    /\ \A e, f \in DOMAIN Registry : e # f => m[e] \cap m[f] = {}
    /\ \A e, f \in DOMAIN c.pg_extension : e # f => c.pg_extension[e].oid # c.pg_extension[f].oid
    /\ \A e \in DOMAIN c.pg_extension :
          extension_objects(c, c.pg_extension[e].oid) = m[e] /\ m[e] \subseteq Things(c)
    /\ \A e \in DOMAIN Registry \ DOMAIN c.pg_extension : m[e] \cap (Things(c) \cup DOMAIN c.pg_class) = {}
    /\ \A g \in Tagged(c) : \E e \in DOMAIN c.pg_extension : g.refobjid = c.pg_extension[e].oid
    /\ c.pg_operator = {}

LEMMA SameObjects ==
    ASSUME NEW c, NEW d, Tagged(d) = Tagged(c), NEW x
    PROVE  extension_objects(d, x) = extension_objects(c, x)
<1>1. /\ extension_objects(d, x) = {g.objid : g \in {y \in Tagged(d) : y.refobjid = x}}
      /\ extension_objects(c, x) = {g.objid : g \in {y \in Tagged(c) : y.refobjid = x}}
  BY DEF extension_objects, Tagged
<1>2. QED
  BY <1>1

\* What Owns tells of the tagged objects, when neither tags nor extensions change.
LEMMA OwnsStays ==
    ASSUME NEW c, NEW m, Owns(c, m), NEW d, Tagged(d) = Tagged(c),
           DOMAIN d.pg_extension = DOMAIN c.pg_extension,
           \A e \in DOMAIN c.pg_extension : d.pg_extension[e].oid = c.pg_extension[e].oid,
           d.pg_operator = c.pg_operator,
           \A e \in DOMAIN Registry : m[e] \subseteq 1..(d.next_oid - 1),
           \A e \in DOMAIN c.pg_extension : m[e] \subseteq Things(d),
           \A e \in DOMAIN Registry \ DOMAIN c.pg_extension : m[e] \cap (Things(d) \cup DOMAIN d.pg_class) = {}
    PROVE  Owns(d, m)
<1>1. \A e \in DOMAIN d.pg_extension : extension_objects(d, d.pg_extension[e].oid) = m[e]
  BY SameObjects DEF Owns
<1>2. \A g \in Tagged(d) : \E e \in DOMAIN d.pg_extension : g.refobjid = d.pg_extension[e].oid
  BY DEF Owns
<1>3. /\ DOMAIN m = DOMAIN Registry /\ d.pg_operator = {}
      /\ \A e, f \in DOMAIN Registry : e # f => m[e] \cap m[f] = {}
      /\ \A e, f \in DOMAIN d.pg_extension : e # f => d.pg_extension[e].oid # d.pg_extension[f].oid
  BY DEF Owns
<1>4. QED
  BY <1>1, <1>2, <1>3 DEF Owns

LEMMA OwnsAdds ==
    ASSUME NEW c, State(c), NEW m, Owns(c, m), NEW d, Adds(c, d)
    PROVE  Owns(d, m)
<1>1. /\ c.next_oid \in Nat /\ d.next_oid \in Nat /\ c.next_oid <= d.next_oid
      /\ \A x \in DOMAIN c.pg_type : x \in DOMAIN d.pg_type
      /\ \A x \in DOMAIN c.pg_cast : x \in DOMAIN d.pg_cast
      /\ \A x \in DOMAIN d.pg_type : x \in DOMAIN c.pg_type \/ c.next_oid <= x
      /\ \A x \in DOMAIN d.pg_class : x \in DOMAIN c.pg_class \/ c.next_oid <= x
      /\ \A x \in DOMAIN d.pg_cast : x \in DOMAIN c.pg_cast \/ c.next_oid <= x
  BY DEF Adds, More, Kept
<1>2. ASSUME NEW e \in DOMAIN Registry
      PROVE  /\ m[e] \subseteq 1..(d.next_oid - 1)
             /\ \A x \in m[e] : ~ c.next_oid <= x
  BY <1>1 DEF Owns
<1>3. \A e \in DOMAIN c.pg_extension : m[e] \subseteq Things(d)
  BY <1>1 DEF Owns, Things
<1>4. ASSUME NEW e \in DOMAIN Registry \ DOMAIN c.pg_extension
      PROVE  m[e] \cap (Things(d) \cup DOMAIN d.pg_class) = {}
  <2>1. m[e] \cap (Things(c) \cup DOMAIN c.pg_class) = {}
    BY DEF Owns
  <2>2. QED
    BY <1>1, <1>2, <2>1 DEF Things
<1>5. QED
  BY <1>2, <1>3, <1>4, OwnsStays DEF Adds

LEMMA OwnsMoves ==
    ASSUME NEW c, NEW m, Owns(c, m), NEW d, OnlyNames(c, d)
    PROVE  Owns(d, m)
<1>1. /\ Tagged(d) = Tagged(c) /\ d.pg_extension = c.pg_extension /\ d.pg_operator = c.pg_operator
      /\ Things(d) = Things(c) /\ DOMAIN d.pg_class = DOMAIN c.pg_class /\ d.next_oid = c.next_oid
  BY DEF OnlyNames, SameShape, Tagged, Things
<1>2. /\ \A e \in DOMAIN Registry : m[e] \subseteq 1..(d.next_oid - 1)
      /\ \A e \in DOMAIN c.pg_extension : m[e] \subseteq Things(d)
      /\ \A e \in DOMAIN Registry \ DOMAIN c.pg_extension : m[e] \cap (Things(d) \cup DOMAIN d.pg_class) = {}
  BY <1>1 DEF Owns
<1>3. QED
  BY <1>1, <1>2, OwnsStays

LEMMA OwnsDrops ==
    ASSUME NEW c, State(c), NEW m, Owns(c, m), NEW d, Drops(c, d)
    PROVE  Owns(d, m)
<1>1. PICK C, T, R, O : /\ Shrunk(c, C, T, R, O, d)
                        /\ T \subseteq DOMAIN c.pg_type \ Owned(c)
                        /\ R \subseteq DOMAIN c.pg_class
                        /\ O \subseteq T \cup R
  BY DEF Drops
<1>2. /\ DOMAIN d.pg_type = DOMAIN c.pg_type \ T /\ DOMAIN d.pg_class = DOMAIN c.pg_class \ R
      /\ d.pg_depend = {g \in c.pg_depend : g.objid \notin O /\ g.refobjid \notin O}
      /\ d.next_oid = c.next_oid
  BY <1>1 DEF Shrunk, Less
<1>3. d.pg_cast = c.pg_cast /\ d.pg_operator = c.pg_operator /\ d.pg_extension = c.pg_extension
  BY DEF Drops, Bystanders
<1>4. Tagged(d) = Tagged(c)
  <2>1. ASSUME NEW g \in Tagged(c)
        PROVE  g.objid \notin O /\ g.refobjid \notin O
    <3>1. g.objid \in Owned(c)
      BY DEF Tagged, Owned
    <3>2. g.objid \notin DOMAIN c.pg_class
      BY DEF State, Base, MembersWhole, Member
    <3>3. PICK e \in DOMAIN c.pg_extension : g.refobjid = c.pg_extension[e].oid
      BY DEF Owns
    <3>4. g.refobjid \notin DOMAIN c.pg_type \cup DOMAIN c.pg_class
      BY <3>3 DEF State, Base, Fresh
    <3>5. QED
      BY <1>1, <3>1, <3>2, <3>4
  <2>2. QED
    BY <1>2, <2>1 DEF Tagged
<1>5. \A e \in DOMAIN c.pg_extension : m[e] \subseteq Things(d)
  <2>1. ASSUME NEW e \in DOMAIN c.pg_extension, NEW x \in m[e]
        PROVE  x \in Owned(c) /\ x \in Things(c)
    <3>1. x \in extension_objects(c, c.pg_extension[e].oid) /\ x \in Things(c)
      BY DEF Owns
    <3>2. QED
      BY <3>1 DEF extension_objects, Owned
  <2>2. QED
    BY <1>1, <1>2, <1>3, <2>1 DEF Things
<1>6. /\ \A e \in DOMAIN Registry : m[e] \subseteq 1..(d.next_oid - 1)
      /\ \A e \in DOMAIN Registry \ DOMAIN c.pg_extension : m[e] \cap (Things(d) \cup DOMAIN d.pg_class) = {}
  BY <1>2, <1>3 DEF Owns, Things
<1>7. QED
  BY <1>3, <1>4, <1>5, <1>6, OwnsStays

LEMMA DropExtensionOwns ==
    ASSUME State(cat), Owns(cat, made), NEW e \in DOMAIN cat.pg_extension, NEW cascade,
           DropExtension(e, cascade)
    PROVE  Owns(cat', made')
<1> DEFINE ext   == cat.pg_extension[e].oid
           owned == extension_objects(cat, ext)
           O     == owned \cup {ext}
<1>1. /\ Shrunk(cat, {}, owned, {}, O, cat')
      /\ owned \cap DOMAIN cat.pg_class = {}
      /\ cat'.pg_operator = cat.pg_operator
      /\ DOMAIN cat'.pg_cast = DOMAIN cat.pg_cast \ owned
      /\ DOMAIN cat'.pg_extension = DOMAIN cat.pg_extension \ {e}
  BY DropExtensionDrops
<1>2. /\ DOMAIN cat'.pg_type = DOMAIN cat.pg_type \ owned /\ DOMAIN cat'.pg_class = DOMAIN cat.pg_class
      /\ cat'.pg_depend = {g \in cat.pg_depend : g.objid \notin O /\ g.refobjid \notin O}
      /\ cat'.next_oid = cat.next_oid
      /\ \A f \in DOMAIN cat'.pg_extension : cat'.pg_extension[f] = cat.pg_extension[f]
  BY <1>1 DEF Shrunk, Less
<1>3. made' = made
  BY DEF DropExtension
<1>4. owned = made[e] /\ e \in DOMAIN Registry /\ DOMAIN cat.pg_extension \subseteq DOMAIN Registry
  BY DEF Owns, State, Bounded
<1>5. ext \notin Things(cat)
  BY DEF State, Base, Fresh, Things
<1> HIDE DEF owned
<1>6. ASSUME NEW f \in DOMAIN cat'.pg_extension
      PROVE  extension_objects(cat', cat'.pg_extension[f].oid) = made[f] /\ made[f] \subseteq Things(cat')
  <2> DEFINE other == cat.pg_extension[f].oid
  <2>1. /\ f \in DOMAIN cat.pg_extension /\ f # e /\ cat'.pg_extension[f].oid = other /\ other # ext
        /\ made[f] \cap owned = {}
        /\ extension_objects(cat, other) = made[f] /\ made[f] \subseteq Things(cat)
    BY <1>1, <1>2, <1>4 DEF Owns
  <2>2. other \notin owned
    <3>1. other \notin Things(cat)
      BY <2>1 DEF State, Base, Fresh, Things
    <3>2. owned \subseteq Things(cat)
      BY <1>4 DEF Owns
    <3>3. QED
      BY <3>1, <3>2
  <2>3. made[f] \cap O = {} /\ other \notin O
    BY <1>5, <2>1, <2>2
  <2> HIDE DEF O, other
  <2>4. extension_objects(cat', other) = extension_objects(cat, other)
    <3>1. \A g \in cat.pg_depend : g.deptype = "extension" /\ g.refobjid = other => g.objid \in made[f]
      BY <2>1 DEF extension_objects
    <3>2. \A g \in cat.pg_depend : g.deptype = "extension" /\ g.refobjid = other => g \in cat'.pg_depend
      BY <1>2, <2>3, <3>1
    <3>3. {g \in cat'.pg_depend : g.deptype = "extension" /\ g.refobjid = other}
              = {g \in cat.pg_depend : g.deptype = "extension" /\ g.refobjid = other}
      BY <1>2, <3>2
    <3>4. QED
      BY <3>3 DEF extension_objects
  <2>5. made[f] \subseteq Things(cat')
    BY <1>1, <1>2, <2>1 DEF Things
  <2>6. QED
    BY <2>1, <2>4, <2>5
<1>7. ASSUME NEW f \in DOMAIN Registry \ DOMAIN cat'.pg_extension
      PROVE  made[f] \cap (Things(cat') \cup DOMAIN cat'.pg_class) = {}
  <2>1. CASE f = e
    BY <1>1, <1>2, <1>4, <2>1 DEF Things
  <2>2. CASE f # e
    <3>1. f \in DOMAIN Registry \ DOMAIN cat.pg_extension
      BY <1>1, <2>2
    <3>2. made[f] \cap (Things(cat) \cup DOMAIN cat.pg_class) = {}
      BY <3>1 DEF Owns
    <3>3. QED
      BY <1>1, <1>2, <3>2 DEF Things
  <2>3. QED
    BY <2>1, <2>2
<1>8. ASSUME NEW g \in Tagged(cat')
      PROVE  \E f \in DOMAIN cat'.pg_extension : g.refobjid = cat'.pg_extension[f].oid
  <2>1. g \in Tagged(cat) /\ g.refobjid # ext
    BY <1>2 DEF Tagged
  <2>2. PICK f \in DOMAIN cat.pg_extension : g.refobjid = cat.pg_extension[f].oid
    BY <2>1 DEF Owns
  <2>3. f # e
    BY <2>1, <2>2
  <2>4. QED
    BY <1>1, <1>2, <2>2, <2>3
<1>9. \A f, h \in DOMAIN cat'.pg_extension : f # h => cat'.pg_extension[f].oid # cat'.pg_extension[h].oid
  BY <1>1, <1>2 DEF Owns
<1>10. /\ DOMAIN made = DOMAIN Registry /\ cat'.pg_operator = {}
       /\ \A f \in DOMAIN Registry : made[f] \subseteq 1..(cat'.next_oid - 1)
       /\ \A f, h \in DOMAIN Registry : f # h => made[f] \cap made[h] = {}
  BY <1>1, <1>2 DEF Owns
<1>11. QED
  BY <1>3, <1>6, <1>7, <1>8, <1>9, <1>10 DEF Owns
-----------------------------------------------------------------------------
(* A script that runs, and its objects tagged.                              *)

\* What is new of c over b is tagged as a part of ext in d.
ScriptTagged(b, ext, d) ==
    /\ State(d) /\ More(b, d) /\ Fit(b, d)
    /\ d.pg_class = b.pg_class /\ d.pg_extension = b.pg_extension /\ d.pg_operator = b.pg_operator
    /\ d.pg_depend = b.pg_depend \cup Tags(b.next_oid..(d.next_oid - 1), ext)
    /\ b.next_oid..(d.next_oid - 1) \subseteq Things(d)

LEMMA ScriptTags ==
    ASSUME NEW b, State(b), TiesKept, NEW script \in Seq(Statement), NEW ns, Runs(b, script, ns), NEW ext,
           NEW d, d = record_extension_membership(b, apply_with_schema(b, script, ns), ext),
           d.next_oid <= MaxOid + 1
    PROVE  ScriptTagged(b, ext, d)
<1> DEFINE c == apply_with_schema(b, script, ns)
<1>1. Base(c) /\ Scripted(b, c)
  BY NoGap, CourseBase DEF State
<1>2. Base(d) /\ Recorded(b, c, ext, d)
  BY <1>1, RecordBase DEF State
<1> HIDE DEF c
<1>3. /\ SameTypes(c, d) /\ SameClasses(c, d) /\ d.next_oid = c.next_oid
      /\ d.pg_namespace = c.pg_namespace /\ d.pg_enum = c.pg_enum /\ d.pg_range = c.pg_range
      /\ d.pg_attribute = c.pg_attribute /\ d.pg_rewrite = c.pg_rewrite /\ d.pg_operator = c.pg_operator
      /\ d.pg_cast = c.pg_cast /\ d.pg_extension = c.pg_extension
      /\ d.pg_depend = c.pg_depend \cup Tags(b.next_oid..(c.next_oid - 1), ext)
  BY <1>2 DEF Recorded
<1>4. Adds(b, c) /\ Fit(b, c)
  BY <1>1, <1>3, ScriptedMore
<1>5. /\ c.pg_depend = b.pg_depend /\ c.pg_class = b.pg_class
      /\ c.pg_extension = b.pg_extension /\ c.pg_operator = b.pg_operator
      /\ c.pg_rewrite = b.pg_rewrite
      /\ \A x \in b.next_oid..(c.next_oid - 1) : x \in DOMAIN c.pg_type \cup DOMAIN c.pg_cast
  BY <1>1 DEF Scripted, SameClasses
<1>6. d.pg_type = c.pg_type /\ d.pg_class = c.pg_class
  BY <1>3 DEF SameTypes, SameClasses
<1>7. State(d)
  <2>1. Kinds(d)
    BY <1>3, <1>4, <1>6 DEF Adds, State, Kinds, OfKind, Relations
  <2>2. Bounded(d)
    BY <1>3, <1>4 DEF Adds, State, Bounded
  <2>3. QED
    BY <1>2, <2>1, <2>2 DEF State
<1>8. d.pg_depend = b.pg_depend \cup Tags(b.next_oid..(d.next_oid - 1), ext)
  BY <1>3, <1>5
<1>9. More(b, d)
  <2>1. b.pg_depend \subseteq d.pg_depend
    BY <1>8
  <2>2. More(b, c)
    BY <1>4 DEF Adds
  <2>3. QED
    BY <1>3, <1>6, <2>1, <2>2 DEF More
<1>10. Fit(b, d)
  <2>1. /\ \A t \in DOMAIN d.pg_type : t \in DOMAIN b.pg_type \/ d.pg_type[t].typbasetype \in DOMAIN d.pg_type \cup {None}
        /\ \A r \in DOMAIN d.pg_attribute :
              r \in DOMAIN b.pg_attribute \/ (r \in DOMAIN d.pg_class /\ d.pg_attribute[r] \subseteq DOMAIN d.pg_type)
        /\ \A g \in DOMAIN d.pg_range : g \in DOMAIN b.pg_range \/ d.pg_range[g] \in DOMAIN d.pg_type
    BY <1>3, <1>4, <1>6 DEF Fit
  <2>2. \A v \in DOMAIN d.pg_rewrite : v \in DOMAIN b.pg_rewrite
    BY <1>3, <1>5
  <2>3. QED
    BY <2>1, <2>2 DEF Fit
<1>11. b.next_oid..(d.next_oid - 1) \subseteq Things(d)
  BY <1>3, <1>5, <1>6 DEF Things
<1>12. QED
  BY <1>3, <1>5, <1>6, <1>7, <1>8, <1>9, <1>10, <1>11 DEF ScriptTagged

\* The tags of ext in d are those it had and those of the new rows.
TagsAdded(b, d, new, ext) == d.pg_depend = b.pg_depend \cup Tags(new, ext)

LEMMA TagsOf ==
    ASSUME NEW b, NEW d, NEW new, NEW ext, TagsAdded(b, d, new, ext)
    PROVE  /\ extension_objects(d, ext) = extension_objects(b, ext) \cup new
           /\ \A x : x # ext => extension_objects(d, x) = extension_objects(b, x)
           /\ \A g \in Tagged(d) : g \in Tagged(b) \/ g.refobjid = ext
<1> DEFINE rows == Tags(new, ext)
<1>1. \A g \in rows : g.objid \in new /\ g.refobjid = ext /\ g.deptype = "extension"
  BY DEF Tags
<1>2. \A t \in new : \E g \in rows : g.objid = t
  <2>1. \A t \in new : [objid |-> t, refobjid |-> ext, deptype |-> "extension"] \in rows
    BY DEF Tags
  <2>2. \A t \in new : [objid |-> t, refobjid |-> ext, deptype |-> "extension"].objid = t
    BY DEF Tags
  <2>3. QED
    BY <2>1, <2>2
<1>3. d.pg_depend = b.pg_depend \cup rows
  BY DEF TagsAdded
<1> HIDE DEF rows
<1>4. extension_objects(d, ext) \subseteq extension_objects(b, ext) \cup new
  BY <1>1, <1>3 DEF extension_objects
<1>5. extension_objects(b, ext) \subseteq extension_objects(d, ext)
  BY <1>3 DEF extension_objects
<1>6. new \subseteq extension_objects(d, ext)
  BY <1>1, <1>2, <1>3 DEF extension_objects
<1>7. ASSUME NEW x, x # ext
      PROVE  extension_objects(d, x) = extension_objects(b, x)
  <2>1. {g \in d.pg_depend : g.deptype = "extension" /\ g.refobjid = x}
            = {g \in b.pg_depend : g.deptype = "extension" /\ g.refobjid = x}
    BY <1>1, <1>3, <1>7
  <2>2. QED
    BY <2>1 DEF extension_objects
<1>8. \A g \in Tagged(d) : g \in Tagged(b) \/ g.refobjid = ext
  BY <1>1, <1>3 DEF Tagged
<1>9. QED
  BY <1>4, <1>5, <1>6, <1>7, <1>8

\* What an extension made, and more that its scripts make.
LEMMA OwnsMore ==
    ASSUME NEW b, State(b), NEW e \in DOMAIN b.pg_extension, NEW ext, ext = b.pg_extension[e].oid,
           NEW m, Owns(b, m), NEW d, ScriptTagged(b, ext, d),
           NEW n, n = [m EXCEPT ![e] = @ \cup b.next_oid..(d.next_oid - 1)]
    PROVE  Owns(d, n)
<1> DEFINE new == b.next_oid..(d.next_oid - 1)
<1>1. /\ e \in DOMAIN Registry /\ DOMAIN m = DOMAIN Registry
      /\ DOMAIN b.pg_extension \subseteq DOMAIN Registry
  BY DEF Owns, State, Bounded
<1>2. /\ DOMAIN n = DOMAIN Registry /\ n[e] = m[e] \cup new
      /\ \A f \in DOMAIN Registry : f # e => n[f] = m[f]
  BY <1>1
<1>3. /\ b.next_oid \in Nat /\ d.next_oid \in Nat /\ b.next_oid <= d.next_oid /\ 4 <= b.next_oid
      /\ DOMAIN b.pg_type \subseteq DOMAIN d.pg_type /\ DOMAIN b.pg_cast \subseteq DOMAIN d.pg_cast
      /\ \A x \in Things(d) : x \in Things(b) \/ b.next_oid <= x
  BY DEF ScriptTagged, More, Kept, Things, State, Base, Fresh
<1>4. /\ d.pg_class = b.pg_class /\ d.pg_extension = b.pg_extension /\ d.pg_operator = b.pg_operator
      /\ new \subseteq Things(d)
      /\ d.pg_depend = b.pg_depend \cup Tags(new, ext)
  BY DEF ScriptTagged
<1>5. \A f \in DOMAIN Registry : \A x \in m[f] : x \in 1..(b.next_oid - 1)
  BY DEF Owns
<1>6. \A x \in new : b.next_oid <= x /\ x \in 1..(d.next_oid - 1)
  BY <1>3
<1>7. \A x : x \in 1..(b.next_oid - 1) => x \in 1..(d.next_oid - 1) /\ ~ b.next_oid <= x
  BY <1>3
<1> HIDE DEF new
<1>8. /\ extension_objects(d, ext) = extension_objects(b, ext) \cup new
      /\ \A x : x # ext => extension_objects(d, x) = extension_objects(b, x)
      /\ \A g \in Tagged(d) : g \in Tagged(b) \/ g.refobjid = ext
  <2>1. TagsAdded(b, d, new, ext)
    BY <1>4 DEF TagsAdded
  <2>2. extension_objects(d, ext) = extension_objects(b, ext) \cup new
    BY <2>1, TagsOf
  <2>3. ASSUME NEW x, x # ext
        PROVE  extension_objects(d, x) = extension_objects(b, x)
    BY <2>1, <2>3, TagsOf
  <2>4. ASSUME NEW g \in Tagged(d)
        PROVE  g \in Tagged(b) \/ g.refobjid = ext
    BY <2>1, TagsOf
  <2>5. QED
    BY <2>2, <2>3, <2>4
<1>9. \A f \in DOMAIN Registry : n[f] \subseteq 1..(d.next_oid - 1)
  BY <1>2, <1>5, <1>6, <1>7
<1>10. \A f, h \in DOMAIN Registry : f # h => n[f] \cap n[h] = {}
  <2>1. \A f, h \in DOMAIN Registry : f # h => m[f] \cap m[h] = {}
    BY DEF Owns
  <2>2. \A f \in DOMAIN Registry : m[f] \cap new = {}
    BY <1>5, <1>6, <1>7
  <2>3. QED
    BY <1>2, <2>1, <2>2
<1>11. \A f, h \in DOMAIN d.pg_extension : f # h => d.pg_extension[f].oid # d.pg_extension[h].oid
  BY <1>4 DEF Owns
<1>12. ASSUME NEW f \in DOMAIN d.pg_extension
       PROVE  extension_objects(d, d.pg_extension[f].oid) = n[f] /\ n[f] \subseteq Things(d)
  <2>1. /\ extension_objects(b, b.pg_extension[f].oid) = m[f] /\ m[f] \subseteq Things(b)
        /\ f \in DOMAIN Registry
    BY <1>1, <1>4 DEF Owns
  <2>2. Things(b) \subseteq Things(d)
    BY <1>3 DEF Things
  <2>3. CASE f = e
    BY <1>2, <1>4, <1>8, <2>1, <2>2, <2>3
  <2>4. CASE f # e
    <3>1. b.pg_extension[f].oid # ext
      BY <1>4, <2>4 DEF Owns
    <3>2. QED
      BY <1>2, <1>4, <1>8, <2>1, <2>2, <2>4, <3>1
  <2>5. QED
    BY <2>3, <2>4
<1>13. ASSUME NEW f \in DOMAIN Registry \ DOMAIN d.pg_extension
       PROVE  n[f] \cap (Things(d) \cup DOMAIN d.pg_class) = {}
  <2>1. n[f] = m[f] /\ m[f] \cap (Things(b) \cup DOMAIN b.pg_class) = {}
    BY <1>2, <1>4 DEF Owns
  <2>2. QED
    BY <1>3, <1>4, <1>5, <1>7, <2>1
<1>14. ASSUME NEW g \in Tagged(d)
       PROVE  \E f \in DOMAIN d.pg_extension : g.refobjid = d.pg_extension[f].oid
  BY <1>4, <1>8 DEF Owns
<1>15. d.pg_operator = {}
  BY <1>4 DEF Owns
<1>16. QED
  BY <1>2, <1>9, <1>10, <1>11, <1>12, <1>13, <1>14, <1>15 DEF Owns

-----------------------------------------------------------------------------
(* What a step keeps.                                                       *)

\* The invariants, and the names of all but its own types.
Sound ==
    /\ State(cat')
    /\ UsesKept /\ Refs(cat) => Refs(cat')
    /\ Owns(cat, made) => Owns(cat', made')
    /\ OwnMoved(cat, cat')

LEMMA NoneMoved ==
    ASSUME NEW c, NEW d,
           \A t \in DOMAIN c.pg_type \cap DOMAIN d.pg_type : d.pg_type[t] = c.pg_type[t],
           \A r \in DOMAIN c.pg_class \cap DOMAIN d.pg_class : d.pg_class[r] = c.pg_class[r]
    PROVE  OwnMoved(c, d)
<1>1. TypesMoved(c, d) = {} /\ RelationsMoved(c, d) = {}
  BY DEF TypesMoved, RelationsMoved, TypeName, RelationName
<1>2. QED
  BY <1>1 DEF OwnMoved

\* A step that adds rows, one that changes names, one that drops rows.
LEMMA AddsSound ==
    ASSUME State(cat), Adds(cat, cat'), Refs(cat) => Fit(cat, cat'), made' = made
    PROVE  Sound
<1>1. Refs(cat) => Refs(cat')
  BY RefsMore DEF Adds
<1>2. Owns(cat, made) => Owns(cat', made')
  BY OwnsAdds
<1>3. OwnMoved(cat, cat')
  BY NoneMoved DEF Adds, More, Kept
<1>4. QED
  BY <1>1, <1>2, <1>3 DEF Sound, Adds

LEMMA MovesSound ==
    ASSUME State(cat), Moves(cat, cat'), made' = made
    PROVE  Sound
<1>1. Refs(cat) => Refs(cat')
  BY NamesState DEF Moves, State
<1>2. Owns(cat, made) => Owns(cat', made')
  BY OwnsMoves DEF Moves
<1>3. QED
  BY <1>1, <1>2 DEF Sound, Moves

LEMMA DropsSound ==
    ASSUME State(cat), Drops(cat, cat'), Refs(cat) /\ UsesKept => Refs(cat'), made' = made
    PROVE  Sound
<1>1. Owns(cat, made) => Owns(cat', made')
  BY OwnsDrops
<1>2. OwnMoved(cat, cat')
  <2>1. PICK C, T, R, O : Shrunk(cat, C, T, R, O, cat')
    BY DEF Drops
  <2>2. /\ \A t \in DOMAIN cat'.pg_type : cat'.pg_type[t] = cat.pg_type[t]
        /\ \A r \in DOMAIN cat'.pg_class : cat'.pg_class[r] = cat.pg_class[r]
    BY <2>1 DEF Shrunk, Less
  <2>3. QED
    BY <2>2, NoneMoved
<1>3. QED
  BY <1>1, <1>2 DEF Sound, Drops

\* DROP EXTENSION.
LEMMA DropExtensionSound ==
    ASSUME State(cat), NEW e \in DOMAIN cat.pg_extension, NEW cascade, DropExtension(e, cascade)
    PROVE  Sound
<1> DEFINE ext   == cat.pg_extension[e].oid
           owned == extension_objects(cat, ext)
<1>1. /\ State(cat')
      /\ Refs(cat) /\ UsesKept => Refs(cat')
      /\ Shrunk(cat, {}, owned, {}, owned \cup {ext}, cat')
  BY DropExtensionDrops
<1>2. Owns(cat, made) => Owns(cat', made')
  BY DropExtensionOwns
<1>3. OwnMoved(cat, cat')
  <2>1. /\ \A t \in DOMAIN cat'.pg_type : cat'.pg_type[t] = cat.pg_type[t]
        /\ \A r \in DOMAIN cat'.pg_class : cat'.pg_class[r] = cat.pg_class[r]
    BY <1>1 DEF Shrunk, Less
  <2>2. QED
    BY <2>1, NoneMoved
<1>4. QED
  BY <1>1, <1>2, <1>3 DEF Sound

\* A script allocates OIDs and returns none.
LEMMA ScriptGrows ==
    ASSUME NEW b, Base(b), TiesKept, NEW script \in Seq(Statement), NEW ns, Runs(b, script, ns), NEW ext
    PROVE  LET d == record_extension_membership(b, apply_with_schema(b, script, ns), ext)
           IN  d.next_oid \in Nat /\ b.next_oid <= d.next_oid
<1> DEFINE c == apply_with_schema(b, script, ns)
           d == record_extension_membership(b, c, ext)
<1>1. Base(c) /\ Scripted(b, c)
  BY NoGap, CourseBase
<1> HIDE DEF c
<1>2. Recorded(b, c, ext, d)
  BY <1>1, RecordBase
<1> HIDE DEF d
<1>3. QED
  BY <1>1, <1>2 DEF Recorded, Scripted, c, d

\* CREATE EXTENSION: a row, then a script whose objects are tagged with it.
LEMMA CreateExtensionSound ==
    ASSUME State(cat), TiesKept, NEW e \in DOMAIN Registry, NEW target, NEW ns,
           CreateExtension(e, target, ns)
    PROVE  Sound
<1> DEFINE ext    == cat.next_oid
           row    == [oid |-> ext, schema |-> ns, version |-> target]
           b      == alloc_oid([cat EXCEPT !.pg_extension = With(@, e, row)], 1)
           script == Walk(e, "", target).script
           d      == record_extension_membership(b, apply_with_schema(b, script, ns), ext)
           new    == b.next_oid..(d.next_oid - 1)
<1>1. /\ e \notin DOMAIN cat.pg_extension /\ Runs(b, script, ns)
      /\ cat' = d /\ d.next_oid - 1 <= MaxOid
      /\ made' = [made EXCEPT ![e] = new]
  BY DEF CreateExtension, Allocated
<1>2. script \in Seq(Statement)
  BY WalkScript
<1>3. IsExtensionRow(row) /\ row.oid = ext
  BY DEF IsExtensionRow
<1> HIDE DEF row, script
<1>4. /\ IsCatalog(b) /\ SameTypes(cat, b) /\ SameClasses(cat, b)
      /\ b.pg_namespace = cat.pg_namespace /\ b.pg_enum = cat.pg_enum /\ b.pg_range = cat.pg_range
      /\ b.pg_attribute = cat.pg_attribute /\ b.pg_rewrite = cat.pg_rewrite
      /\ b.pg_cast = cat.pg_cast /\ b.pg_operator = cat.pg_operator /\ b.pg_depend = cat.pg_depend
      /\ b.pg_extension = With(cat.pg_extension, e, row) /\ b.next_oid = ext + 1
  BY DEF State, Base, IsCatalog, Fields, alloc_oid, SameTypes, SameClasses
<1>5. /\ DOMAIN b.pg_extension = DOMAIN cat.pg_extension \cup {e} /\ b.pg_extension[e] = row
      /\ \A f \in DOMAIN cat.pg_extension : f # e /\ b.pg_extension[f] = cat.pg_extension[f]
  BY <1>1, <1>4 DEF With
<1> HIDE DEF b
<1>6. Base(b)
  <2>1. Aside(cat, b)
    BY <1>3, <1>4, <1>5 DEF State, Base, Fresh, Aside
  <2>2. QED
    BY <2>1, AsideBase DEF State
<1>7. d.next_oid \in Nat /\ b.next_oid <= d.next_oid
  BY <1>1, <1>2, <1>6, ScriptGrows
<1>8. MaxOid \in Nat
  BY TypeObjectsAssumption
<1>9. State(b)
  <2>1. Kinds(b)
    BY <1>4 DEF State, Kinds, OfKind, Relations, SameTypes, SameClasses
  <2>2. b.next_oid <= MaxOid + 1
    BY <1>1, <1>4, <1>7, <1>8 DEF State, Base, Fresh
  <2>3. Bounded(b)
    BY <1>4, <1>5, <2>2 DEF State, Bounded
  <2>4. QED
    BY <1>6, <2>1, <2>3 DEF State
<1>10. d.next_oid <= MaxOid + 1
  BY <1>1, <1>7, <1>8
<1>11. ScriptTagged(b, ext, d)
  BY <1>1, <1>2, <1>9, <1>10, ScriptTags
<1> HIDE DEF d
<1>12. ASSUME Refs(cat)
       PROVE  Refs(cat')
  <2>1. More(cat, b)
    BY <1>4 DEF State, Base, Fresh, More, Kept, SameTypes, SameClasses
  <2>2. Fit(cat, b)
    BY <1>4 DEF Fit, SameTypes
  <2>3. Refs(b)
    BY <1>12, <2>1, <2>2, RefsMore
  <2>4. QED
    BY <1>1, <1>11, <2>3, RefsMore DEF ScriptTagged
<1>13. ASSUME Owns(cat, made)
       PROVE  Owns(cat', made')
  <2> DEFINE m == [made EXCEPT ![e] = {}]
  <2>1. DOMAIN made = DOMAIN Registry
    BY <1>13 DEF Owns
  <2>2. /\ DOMAIN m = DOMAIN Registry /\ m[e] = {}
        /\ \A f \in DOMAIN Registry : f # e => m[f] = made[f]
        /\ made' = [m EXCEPT ![e] = @ \cup new]
    BY <1>1, <2>1
  <2> HIDE DEF m
  <2>3. Tagged(b) = Tagged(cat)
    BY <1>4 DEF Tagged
  <2>4. \A f \in DOMAIN cat.pg_extension : cat.pg_extension[f].oid # ext
    BY DEF State, Base, Fresh
  <2>5. extension_objects(b, ext) = {}
    <3>1. \A g \in Tagged(b) : g.refobjid # ext
      BY <1>13, <2>3, <2>4 DEF Owns
    <3>2. QED
      BY <3>1 DEF extension_objects, Tagged
  <2>6. DOMAIN cat.pg_extension \subseteq DOMAIN Registry
    BY DEF State, Bounded
  <2>7. Things(b) = Things(cat) /\ DOMAIN b.pg_class = DOMAIN cat.pg_class
    BY <1>4 DEF Things, SameTypes, SameClasses
  <2>8. ASSUME NEW f \in DOMAIN b.pg_extension
        PROVE  extension_objects(b, b.pg_extension[f].oid) = m[f] /\ m[f] \subseteq Things(b)
    <3>1. CASE f = e
      BY <1>3, <1>5, <2>2, <2>5, <3>1
    <3>2. CASE f # e
      <4>1. /\ f \in DOMAIN cat.pg_extension /\ b.pg_extension[f] = cat.pg_extension[f]
            /\ m[f] = made[f]
        BY <1>5, <2>2, <2>6, <3>2
      <4>2. extension_objects(b, cat.pg_extension[f].oid) = extension_objects(cat, cat.pg_extension[f].oid)
        BY <2>3, SameObjects
      <4>3. QED
        BY <1>13, <2>7, <4>1, <4>2 DEF Owns
    <3>3. QED
      BY <3>1, <3>2
  <2>9. \A f \in DOMAIN Registry \ DOMAIN b.pg_extension : m[f] \cap (Things(b) \cup DOMAIN b.pg_class) = {}
    BY <1>5, <1>13, <2>2, <2>7 DEF Owns
  <2>10. \A f \in DOMAIN Registry : m[f] \subseteq 1..(b.next_oid - 1)
    <3>1. \A f \in DOMAIN Registry : made[f] \subseteq 1..(ext - 1)
      BY <1>13 DEF Owns
    <3>2. ext \in Nat
      BY DEF State, Base, Fresh
    <3>3. 1..(ext - 1) \subseteq 1..(b.next_oid - 1)
      BY <1>4, <3>2
    <3>4. QED
      BY <2>2, <3>1, <3>3
  <2>11. \A f, h \in DOMAIN Registry : f # h => m[f] \cap m[h] = {}
    BY <1>13, <2>2 DEF Owns
  <2>12. \A f, h \in DOMAIN b.pg_extension : f # h => b.pg_extension[f].oid # b.pg_extension[h].oid
    BY <1>3, <1>5, <1>13, <2>4 DEF Owns
  <2>13. \A g \in Tagged(b) : \E f \in DOMAIN b.pg_extension : g.refobjid = b.pg_extension[f].oid
    <3>1. ASSUME NEW g \in Tagged(b)
          PROVE  \E f \in DOMAIN b.pg_extension : g.refobjid = b.pg_extension[f].oid
      <4>1. PICK f \in DOMAIN cat.pg_extension : g.refobjid = cat.pg_extension[f].oid
        BY <1>13, <2>3 DEF Owns
      <4>2. QED
        BY <1>5, <4>1
    <3>2. QED
      BY <3>1
  <2>14. b.pg_operator = {}
    BY <1>4, <1>13 DEF Owns
  <2>15. Owns(b, m)
    BY <2>2, <2>8, <2>9, <2>10, <2>11, <2>12, <2>13, <2>14 DEF Owns
  <2>16. e \in DOMAIN b.pg_extension /\ ext = b.pg_extension[e].oid
    BY <1>3, <1>5
  <2>17. new = b.next_oid..(d.next_oid - 1)
    BY DEF d
  <2> HIDE DEF new
  <2>18. Owns(d, [m EXCEPT ![e] = @ \cup b.next_oid..(d.next_oid - 1)])
    BY <1>9, <1>11, <2>15, <2>16, OwnsMore
  <2>19. QED
    BY <1>1, <2>2, <2>17, <2>18
<1>14. OwnMoved(cat, cat')
  <2>1. /\ \A t \in DOMAIN cat.pg_type : d.pg_type[t] = cat.pg_type[t]
        /\ \A r \in DOMAIN cat.pg_class : d.pg_class[r] = cat.pg_class[r]
    BY <1>4, <1>11 DEF ScriptTagged, More, Kept, SameTypes, SameClasses
  <2>2. QED
    BY <1>1, <2>1, NoneMoved
<1>15. QED
  BY <1>1, <1>11, <1>12, <1>13, <1>14 DEF Sound, ScriptTagged

\* ALTER EXTENSION UPDATE: a script whose objects are tagged with the row, then its version.
LEMMA AlterExtensionSound ==
    ASSUME State(cat), TiesKept, NEW e \in DOMAIN cat.pg_extension, NEW target,
           AlterExtension(e, target)
    PROVE  Sound
<1> DEFINE row    == cat.pg_extension[e]
           ext    == row.oid
           script == Walk(e, row.version, target).script
           d      == record_extension_membership(cat, apply_with_schema(cat, script, row.schema), ext)
<1>1. /\ Runs(cat, script, row.schema)
      /\ cat' = [d EXCEPT !.pg_extension[e].version = target]
      /\ cat'.next_oid - 1 <= MaxOid
      /\ made' = [made EXCEPT ![e] = @ \cup cat.next_oid..(cat'.next_oid - 1)]
  BY DEF AlterExtension, Allocated
<1>2. e \in DOMAIN Registry
  BY DEF State, Bounded
<1>3. script \in Seq(Statement)
  BY <1>2, WalkScript
<1> HIDE DEF script
<1>4. d.next_oid \in Nat /\ cat.next_oid <= d.next_oid
  BY <1>1, <1>3, ScriptGrows DEF State
<1>5. IsCatalog(d)
  <2> DEFINE c == apply_with_schema(cat, script, row.schema)
  <2>1. Base(c) /\ Scripted(cat, c)
    BY <1>1, <1>3, NoGap, CourseBase DEF State
  <2> HIDE DEF c
  <2>2. Base(record_extension_membership(cat, c, ext))
    BY <2>1, RecordBase DEF State
  <2>3. QED
    BY <2>2 DEF Base, c
<1>6. cat'.next_oid = d.next_oid
  <2> HIDE DEF d
  <2>1. QED
    BY <1>1, <1>5 DEF IsCatalog, Fields
<1>7. d.next_oid <= MaxOid + 1
  <2> HIDE DEF d
  <2>1. MaxOid \in Nat
    BY TypeObjectsAssumption
  <2>2. QED
    BY <1>1, <1>4, <1>6, <2>1
<1>8. ScriptTagged(cat, ext, d)
  BY <1>1, <1>3, <1>7, ScriptTags
<1> HIDE DEF d
<1>9. /\ IsCatalog(cat') /\ SameTypes(d, cat') /\ SameClasses(d, cat')
      /\ cat'.pg_namespace = d.pg_namespace /\ cat'.pg_enum = d.pg_enum /\ cat'.pg_range = d.pg_range
      /\ cat'.pg_attribute = d.pg_attribute /\ cat'.pg_rewrite = d.pg_rewrite
      /\ cat'.pg_cast = d.pg_cast /\ cat'.pg_operator = d.pg_operator /\ cat'.pg_depend = d.pg_depend
      /\ cat'.pg_extension = [d.pg_extension EXCEPT ![e].version = target]
  BY <1>1, <1>5 DEF IsCatalog, Fields, SameTypes, SameClasses
<1>10. /\ d.pg_extension = cat.pg_extension
       /\ \A f \in DOMAIN cat.pg_extension : IsExtensionRow(cat.pg_extension[f])
  BY <1>8 DEF ScriptTagged, State, Base, Fresh
<1>11. /\ DOMAIN cat'.pg_extension = DOMAIN d.pg_extension
       /\ \A f \in DOMAIN d.pg_extension : /\ IsExtensionRow(cat'.pg_extension[f])
                                           /\ cat'.pg_extension[f].oid = d.pg_extension[f].oid
  BY <1>9, <1>10 DEF IsExtensionRow
<1>12. State(cat')
  <2>1. Aside(d, cat')
    BY <1>4, <1>6, <1>9, <1>11 DEF Aside
  <2>2. Base(cat')
    BY <1>8, <2>1, AsideBase DEF ScriptTagged, State
  <2>3. Kinds(cat')
    BY <1>8, <1>9 DEF ScriptTagged, State, Kinds, OfKind, Relations, SameTypes, SameClasses
  <2>4. Bounded(cat')
    BY <1>6, <1>8, <1>9, <1>11 DEF ScriptTagged, State, Bounded
  <2>5. QED
    BY <2>2, <2>3, <2>4 DEF State
<1>13. ASSUME Refs(cat)
       PROVE  Refs(cat')
  <2>1. Refs(d)
    BY <1>8, <1>13, RefsMore DEF ScriptTagged
  <2>2. More(d, cat')
    BY <1>4, <1>6, <1>8, <1>9 DEF ScriptTagged, State, Base, Fresh, More, Kept, SameTypes, SameClasses
  <2>3. Fit(d, cat')
    BY <1>9 DEF Fit, SameTypes
  <2>4. QED
    BY <2>1, <2>2, <2>3, RefsMore
<1>14. ASSUME Owns(cat, made)
       PROVE  Owns(cat', made')
  <2> DEFINE n == [made EXCEPT ![e] = @ \cup cat.next_oid..(d.next_oid - 1)]
  <2>1. made' = n
    BY <1>1, <1>6
  <2>2. Owns(d, n)
    BY <1>8, <1>14, OwnsMore
  <2> HIDE DEF n
  <2>3. Tagged(cat') = Tagged(d) /\ Things(cat') = Things(d) /\ DOMAIN cat'.pg_class = DOMAIN d.pg_class
    BY <1>9 DEF Tagged, Things, SameTypes, SameClasses
  <2>4. \A f \in DOMAIN Registry : n[f] \subseteq 1..(cat'.next_oid - 1)
    BY <1>6, <2>2 DEF Owns
  <2>5. Owns(cat', n)
    <3>1. \A f \in DOMAIN d.pg_extension : n[f] \subseteq Things(cat')
      BY <2>2, <2>3 DEF Owns
    <3>2. \A f \in DOMAIN Registry \ DOMAIN d.pg_extension :
              n[f] \cap (Things(cat') \cup DOMAIN cat'.pg_class) = {}
      BY <2>2, <2>3 DEF Owns
    <3>3. QED
      BY <1>9, <1>11, <2>2, <2>3, <2>4, <3>1, <3>2, OwnsStays
  <2>6. QED
    BY <2>1, <2>5
<1>15. OwnMoved(cat, cat')
  <2>1. /\ \A t \in DOMAIN cat.pg_type : cat'.pg_type[t] = cat.pg_type[t]
        /\ \A r \in DOMAIN cat.pg_class : cat'.pg_class[r] = cat.pg_class[r]
    BY <1>8, <1>9 DEF ScriptTagged, More, Kept, SameTypes, SameClasses
  <2>2. QED
    BY <2>1, NoneMoved
<1>16. QED
  BY <1>12, <1>13, <1>14, <1>15 DEF Sound

-----------------------------------------------------------------------------
(* Every statement, and what an evolution of the catalog keeps.             *)

\* A column, a field or a reference, or none.
LEMMA SubsetsThere ==
    ASSUME NEW S, NEW T, S \subseteq T, NEW x \in Subsets1(S)
    PROVE  x \subseteq T
BY DEF Subsets1

\* The statements that declare.
LEMMA CreateSound ==
    ASSUME State(cat), TiesKept, NEW ns, NEW name \in UserName, Create(ns, name)
    PROVE  Sound
<1>1. ASSUME NEW base \in Usable(cat), CreateDomain(ns, name, base)
      PROVE  Sound
  <2>1. made' = made
    BY <1>1 DEF CreateDomain
  <2>2. QED
    BY <1>1, <2>1, CreateDomainAdds, AddsSound
<1>2. ASSUME NEW list, CreateEnum(ns, name, list)
      PROVE  Sound
  <2>1. made' = made
    BY <1>2 DEF CreateEnum
  <2>2. QED
    BY <1>2, <2>1, CreateEnumAdds, AddsSound
<1>3. ASSUME NEW fields \in Subsets1(Usable(cat)), CreateComposite(ns, name, fields)
      PROVE  Sound
  <2>1. made' = made
    BY <1>3 DEF CreateComposite
  <2>2. fields \subseteq DOMAIN cat.pg_type
    BY <1>3, UsableThere, SubsetsThere
  <2>3. QED
    BY <1>3, <2>1, <2>2, CreateCompositeAdds, AddsSound
<1>4. ASSUME NEW subtype \in Named(cat), CreateRange(ns, name, subtype)
      PROVE  Sound
  <2>1. made' = made
    BY <1>4 DEF CreateRange
  <2>2. QED
    BY <1>4, <2>1, CreateRangeAdds, AddsSound
<1>5. ASSUME DefineType(ns, name)
      PROVE  Sound
  <2>1. made' = made
    BY <1>5 DEF DefineType
  <2>2. QED
    BY <1>5, <2>1, DefineTypeAdds, AddsSound
<1>6. ASSUME NEW columns \in Subsets1(Usable(cat)), CreateTable(ns, name, columns)
      PROVE  Sound
  <2>1. made' = made
    BY <1>6 DEF CreateTable
  <2>2. columns \subseteq DOMAIN cat.pg_type
    BY <1>6, UsableThere, SubsetsThere
  <2>3. QED
    BY <1>6, <2>1, <2>2, CreateTableAdds, AddsSound
<1>7. ASSUME CreateSequence(ns, name)
      PROVE  Sound
  <2>1. made' = made
    BY <1>7 DEF CreateSequence
  <2>2. QED
    BY <1>7, <2>1, CreateSequenceAdds, AddsSound
<1>8. ASSUME NEW reads \in Subsets1(Relations(cat, {"table", "view"})), NEW casts \in Subsets1(Named(cat)),
             CreateView(ns, name, reads, casts)
      PROVE  Sound
  <2>1. made' = made
    BY <1>8 DEF CreateView
  <2>2. reads \in SUBSET Relations(cat, {"table", "view"}) /\ casts \in SUBSET Named(cat)
    BY <1>8, SubsetsThere
  <2>3. QED
    BY <1>8, <2>1, <2>2, CreateViewAdds, AddsSound
<1>9. QED
  BY <1>1, <1>2, <1>3, <1>4, <1>5, <1>6, <1>7, <1>8 DEF Create

\* Every statement keeps the invariants and renames its own.
LEMMA NextSound ==
    ASSUME State(cat), TiesKept, Next
    PROVE  Sound
<1>1. ASSUME NEW ns \in Home, NEW name \in UserName, Create(ns, name)
      PROVE  Sound
  BY <1>1, CreateSound
<1>2. ASSUME NEW source, NEW binary, CreateCast(source, Int4, binary)
      PROVE  Sound
  <2>1. made' = made
    BY <1>2 DEF CreateCast
  <2>2. QED
    BY <1>2, <2>1, CreateCastAdds, AddsSound
<1>3. ASSUME NEW t \in DOMAIN cat.pg_enum, NEW label, NEW place, NEW if_not_exists,
             AlterEnum(t, label, place, if_not_exists)
      PROVE  Sound
  <2>1. made' = made
    BY <1>3 DEF AlterEnum
  <2>2. QED
    BY <1>3, <2>1, AlterEnumAdds, AddsSound
<1>4. ASSUME NEW t \in Declared(cat), NEW name \in UserName, RenameType(t, name)
      PROVE  Sound
  <2>1. made' = made
    BY <1>4 DEF RenameType, MoveType
  <2>2. QED
    BY <1>4, <2>1, RenameTypeMoves, MovesSound
<1>5. ASSUME NEW t \in Declared(cat), NEW ns, SetTypeSchema(t, ns)
      PROVE  Sound
  <2>1. made' = made
    BY <1>5 DEF SetTypeSchema, MoveType
  <2>2. QED
    BY <1>5, <2>1, SetTypeSchemaMoves, MovesSound
<1>6. ASSUME NEW r \in Relations(cat, {"table", "view", "sequence"}), NEW name \in UserName,
             RenameRelation(r, name)
      PROVE  Sound
  <2>1. r \in DOMAIN cat.pg_class
    BY DEF Relations
  <2>2. made' = made
    BY <1>6 DEF RenameRelation, MoveRelation
  <2>3. QED
    BY <1>6, <2>1, <2>2, RenameRelationMoves, MovesSound
<1>7. ASSUME NEW r \in Relations(cat, {"table", "view", "sequence"}), NEW ns, SetRelationSchema(r, ns)
      PROVE  Sound
  <2>1. r \in DOMAIN cat.pg_class
    BY DEF Relations
  <2>2. made' = made
    BY <1>7 DEF SetRelationSchema, MoveRelation
  <2>3. QED
    BY <1>7, <2>1, <2>2, SetRelationSchemaMoves, MovesSound
<1>8. ASSUME NEW t \in Declared(cat), NEW cascade, DropType(t, cascade)
      PROVE  Sound
  <2>1. made' = made
    BY <1>8 DEF DropType
  <2>2. QED
    BY <1>8, <2>1, DropTypeDrops, DropsSound
<1>9. ASSUME NEW r \in DOMAIN cat.pg_class, NEW cascade, DropRelation(r, cascade)
      PROVE  Sound
  <2>1. made' = made
    BY <1>9 DEF DropRelation
  <2>2. QED
    BY <1>9, <2>1, DropRelationDrops, DropsSound
<1>10. ASSUME NEW s \in Schema, CreateSchema(s)
       PROVE  Sound
  <2>1. made' = made
    BY <1>10 DEF CreateSchema
  <2>2. QED
    BY <1>10, <2>1, CreateSchemaAdds, AddsSound
<1>11. ASSUME NEW s \in Schema, NEW cascade, DropSchema(s, cascade)
       PROVE  Sound
  <2>1. made' = made
    BY <1>11 DEF DropSchema
  <2>2. QED
    BY <1>11, <2>1, DropSchemaDrops, DropsSound
<1>12. ASSUME NEW e \in DOMAIN Registry, NEW ns \in Schema, NEW target, CreateExtension(e, target, ns)
       PROVE  Sound
  BY <1>12, CreateExtensionSound
<1>13. ASSUME NEW e \in DOMAIN cat.pg_extension, NEW target, AlterExtension(e, target)
       PROVE  Sound
  BY <1>13, AlterExtensionSound
<1>14. ASSUME NEW e \in DOMAIN cat.pg_extension, NEW cascade, DropExtension(e, cascade)
       PROVE  Sound
  BY <1>14, DropExtensionSound
<1>15. QED
  BY <1>1, <1>2, <1>3, <1>4, <1>5, <1>6, <1>7, <1>8, <1>9, <1>10, <1>11, <1>12, <1>13, <1>14 DEF Next

LEMMA StutterSound ==
    ASSUME State(cat), UNCHANGED vars
    PROVE  Sound
<1>1. cat' = cat /\ made' = made
  BY DEF vars
<1>2. OwnMoved(cat, cat')
  BY <1>1, NoneMoved
<1>3. QED
  BY <1>1, <1>2 DEF Sound

-----------------------------------------------------------------------------
(* The catalog of the seed.                                                 *)

LEMMA SeedNames ==
    /\ Len(array_name(<<"int4">>)) = 2
    /\ array_name(<<"int4">>) # <<"int4">> /\ array_name(<<"int4">>) # <<"record">>
    /\ <<"int4">> # <<"record">>
<1>1. Len(array_name(<<"int4">>)) = 2
  BY DEF array_name
<1>2. Len(<<"int4">>) = 1 /\ Len(<<"record">>) = 1
  OBVIOUS
<1>3. <<"int4">>[1] # <<"record">>[1]
  OBVIOUS
<1>4. QED
  BY <1>1, <1>2, <1>3

\* The names of the seed are different.
LEMMA SeedIndex ==
    /\ DOMAIN Seed.pg_type = {Int4, Int4Array, Record}
    /\ \A t \in DOMAIN Seed.pg_type : IsTypeRow(Seed.pg_type[t])
    /\ Seed.pg_type[Int4] = [TypeRow("pg_catalog", <<"int4">>, "base") EXCEPT !.typarray = Int4Array]
    /\ Seed.pg_type[Int4Array] = [TypeRow("pg_catalog", array_name(<<"int4">>), "base") EXCEPT !.typelem = Int4]
    /\ Seed.pg_type[Record] = TypeRow("pg_catalog", <<"record">>, "pseudo")
    /\ NamesTied(Seed)
<1> DEFINE s == Seed
           QName(t) == <<SeedType[t].typnamespace, SeedType[t].typname>>
<1>1. s.pg_type = SeedType /\ DOMAIN SeedType = {Int4, Int4Array, Record}
  BY DEF Seed, SeedType
<1>2. /\ SeedType[Int4] = [TypeRow("pg_catalog", <<"int4">>, "base") EXCEPT !.typarray = Int4Array]
      /\ SeedType[Int4Array] = [TypeRow("pg_catalog", array_name(<<"int4">>), "base") EXCEPT !.typelem = Int4]
      /\ SeedType[Record] = TypeRow("pg_catalog", <<"record">>, "pseudo")
  BY DEF SeedType, Int4, Int4Array, Record
<1>3. \A t \in DOMAIN SeedType : IsTypeRow(SeedType[t])
  BY <1>1, <1>2 DEF IsTypeRow, TypeRow
<1>4. /\ SeedType[Int4].typname = <<"int4">> /\ SeedType[Int4Array].typname = array_name(<<"int4">>)
      /\ SeedType[Record].typname = <<"record">>
  BY <1>2 DEF TypeRow
<1>5. \A t, u \in DOMAIN SeedType : QName(t) = QName(u) => t = u
  <2>1. \A t, u \in DOMAIN SeedType : SeedType[t].typname = SeedType[u].typname => t = u
    BY <1>1, <1>4, SeedNames
  <2>2. QED
    BY <2>1
<1>6. s.type_by_qname = [q \in {QName(t) : t \in DOMAIN SeedType} |-> CHOOSE t \in DOMAIN SeedType : q = QName(t)]
  BY DEF Seed
<1>7. \A t \in DOMAIN SeedType : TypeName(s, t) = QName(t)
  BY <1>1 DEF TypeName
<1>8. \A t \in DOMAIN SeedType : QName(t) \in DOMAIN s.type_by_qname /\ s.type_by_qname[QName(t)] = t
  <2>1. ASSUME NEW t \in DOMAIN SeedType
        PROVE  (CHOOSE u \in DOMAIN SeedType : QName(t) = QName(u)) = t
    BY <1>5
  <2> HIDE DEF QName
  <2>2. QED
    BY <1>6, <2>1
<1>9. \A q \in DOMAIN s.type_by_qname : \E t \in DOMAIN SeedType : q = QName(t)
  BY <1>6
<1> HIDE DEF QName, s
<1>10. NamesTied(s)
  BY <1>1, <1>7, <1>8, <1>9 DEF NamesTied
<1>11. QED
  BY <1>1, <1>2, <1>3, <1>10 DEF s

\* The seed has three types, and nothing that names one.
LEMMA InitSound ==
    ASSUME Init
    PROVE  State(cat) /\ Refs(cat) /\ Owns(cat, made)
<1> DEFINE s == Seed
<1>1. /\ IsCatalog(s)
      /\ s.pg_enum = <<>> /\ s.pg_range = <<>> /\ s.pg_class = <<>> /\ s.pg_attribute = <<>>
      /\ s.pg_rewrite = <<>> /\ s.pg_cast = <<>> /\ s.pg_operator = {} /\ s.pg_depend = {}
      /\ s.pg_extension = <<>> /\ s.next_oid = 4 /\ s.pg_namespace = Schema \cup {"pg_catalog"}
  BY DEF Seed, IsCatalog, Fields
<1>2. /\ DOMAIN s.pg_type = {Int4, Int4Array, Record}
      /\ \A t \in DOMAIN s.pg_type : IsTypeRow(s.pg_type[t])
      /\ s.pg_type[Int4] = [TypeRow("pg_catalog", <<"int4">>, "base") EXCEPT !.typarray = Int4Array]
      /\ s.pg_type[Int4Array] = [TypeRow("pg_catalog", array_name(<<"int4">>), "base") EXCEPT !.typelem = Int4]
      /\ s.pg_type[Record] = TypeRow("pg_catalog", <<"record">>, "pseudo")
      /\ NamesTied(s)
  BY SeedIndex
<1> HIDE DEF s
<1>3. \A x : x \notin DOMAIN s.pg_enum \cup DOMAIN s.pg_range \cup DOMAIN s.pg_class \cup DOMAIN s.pg_attribute
                        \cup DOMAIN s.pg_rewrite \cup DOMAIN s.pg_cast \cup DOMAIN s.pg_extension
  BY <1>1
<1>4. /\ s.pg_type[Int4].typname = <<"int4">> /\ s.pg_type[Int4].typnamespace = "pg_catalog"
      /\ s.pg_type[Int4].typtype = "base" /\ s.pg_type[Int4].typarray = Int4Array
      /\ s.pg_type[Int4].typelem = None /\ s.pg_type[Int4].typrelid = None
      /\ s.pg_type[Int4].typbasetype = None
  BY <1>2 DEF TypeRow
<1>5. /\ s.pg_type[Int4Array].typname = array_name(<<"int4">>)
      /\ s.pg_type[Int4Array].typnamespace = "pg_catalog"
      /\ s.pg_type[Int4Array].typtype = "base" /\ s.pg_type[Int4Array].typarray = None
      /\ s.pg_type[Int4Array].typelem = Int4 /\ s.pg_type[Int4Array].typrelid = None
      /\ s.pg_type[Int4Array].typbasetype = None
  BY <1>2 DEF TypeRow
<1>6. /\ s.pg_type[Record].typtype = "pseudo" /\ s.pg_type[Record].typarray = None
      /\ s.pg_type[Record].typelem = None /\ s.pg_type[Record].typrelid = None
      /\ s.pg_type[Record].typbasetype = None
  BY <1>2 DEF TypeRow
<1>7. Ties(s)
  <2>1. Rows(s)
    BY <1>2, <1>3 DEF Rows, Int4, Int4Array, Record, None
  <2>2. HasArray(s, Int4, Int4Array)
    BY <1>2, <1>4, <1>5 DEF HasArray
  <2>3. ArraysTied(s)
    <3>1. Int4 # None /\ Int4Array # None
      BY DEF Int4, Int4Array, None
    <3>2. ASSUME NEW t \in DOMAIN s.pg_type
          PROVE  LET row == s.pg_type[t] IN
                 /\ row.typarray # None => HasArray(s, t, row.typarray)
                 /\ row.typelem # None => /\ row.typelem \in DOMAIN s.pg_type
                                          /\ s.pg_type[row.typelem].typarray = t
                                          /\ row.typarray = None /\ row.typrelid = None
                 /\ row.typelem = None /\ row.typtype # "pseudo" =>
                       row.typarray # None /\ array_name(row.typname) # row.typname
      <4>1. CASE t = Int4
        BY <1>4, <2>2, <3>1, <4>1, SeedNames
      <4>2. CASE t = Int4Array
        BY <1>2, <1>4, <1>5, <3>1, <4>2
      <4>3. CASE t = Record
        BY <1>6, <4>3
      <4>4. QED
        BY <1>2, <4>1, <4>2, <4>3
    <3>3. QED
      BY <3>2 DEF ArraysTied
  <2>4. RowTypesTied(s)
    BY <1>2, <1>3, <1>4, <1>5, <1>6 DEF RowTypesTied
  <2>5. QED
    BY <1>2, <2>1, <2>3, <2>4 DEF Ties
<1>8. Base(s)
  <2>1. Fresh(s)
    BY <1>1, <1>2, <1>3 DEF Fresh, Int4, Int4Array, Record
  <2>2. MembersWhole(s) /\ ViewRows(s)
    BY <1>1 DEF MembersWhole, Tagged, ViewRows
  <2>3. QED
    BY <1>1, <1>7, <2>1, <2>2 DEF Base
<1>9. Kinds(s)
  <2>1. OfKind(s, {"enum"}) = {} /\ OfKind(s, {"range"}) = {}
    BY <1>2, <1>4, <1>5, <1>6 DEF OfKind
  <2>2. Relations(s, {"view"}) = {}
    BY <1>3 DEF Relations
  <2>3. QED
    BY <1>3, <2>1, <2>2 DEF Kinds
<1>10. Bounded(s)
  <2>1. MaxOid \in Nat /\ 3 <= MaxOid
    BY TypeObjectsAssumption
  <2>2. QED
    BY <1>1, <1>3, <2>1 DEF Bounded
<1>11. Refs(s)
  BY <1>2, <1>3, <1>4, <1>5, <1>6 DEF Refs
<1>12. Owns(s, [e \in DOMAIN Registry |-> {}])
  <2>1. Tagged(s) = {}
    BY <1>1 DEF Tagged
  <2>2. QED
    BY <1>1, <1>3, <2>1 DEF Owns
<1>13. cat = s /\ made = [e \in DOMAIN Registry |-> {}]
  BY DEF Init, s
<1>14. QED
  BY <1>8, <1>9, <1>10, <1>11, <1>12, <1>13 DEF State

-----------------------------------------------------------------------------
(* The theorems.                                                            *)

\* The invariant: the rows, the names and the ties of the types.
Inv == State(cat)

\* With it, what names a type names one that is there.
UsesInv == Inv /\ Refs(cat)

\* With it, an extension owns what its scripts made.
PartsInv == Inv /\ Owns(cat, made)

LEMMA InvNext ==
    ASSUME TiesKept, Inv, [Next]_vars
    PROVE  Sound
BY NextSound, StutterSound DEF Inv

\* The gaps of TiesKept aside, every statement keeps the ties.
LEMMA Invariant == TiesKept /\ Spec => []Inv
<1>0. SUFFICES ASSUME TiesKept PROVE Spec => []Inv
  OBVIOUS
<1>1. Init => Inv
  BY InitSound DEF Inv
<1>2. Inv /\ [Next]_vars => Inv'
  BY <1>0, InvNext DEF Inv, Sound
<1>3. QED
  BY <1>0, <1>1, <1>2, PTL DEF Spec

\* Rows are keyed by OIDs that were allocated and have one kind, after any
\* statements: insert_pg_* and remove_pg_* keep the tables of a type together.
THEOREM CatalogTyping == TiesKept /\ Spec => []TypeOK
<1>0. SUFFICES ASSUME TiesKept PROVE Spec => []TypeOK
  OBVIOUS
<1>1. Inv => TypeOK
  <2>1. MaxOid \in Nat
    BY TypeObjectsAssumption
  <2>2. ASSUME Inv
        PROVE  TypeOK
    <3>1. cat.next_oid \in 4..(MaxOid + 1)
      BY <2>1, <2>2 DEF Inv, State, Base, Fresh, Bounded
    <3>2. UNION {DOMAIN cat.pg_type, DOMAIN cat.pg_class, DOMAIN cat.pg_cast} \subseteq 1..(cat.next_oid - 1)
      BY <2>2 DEF Inv, State, Base, Fresh
    <3>3. QED
      BY <2>2, <3>1, <3>2 DEF Inv, State, Base, Fresh, Bounded, Kinds, TypeOK
  <2>3. QED
    BY <2>2
<1>2. QED
  BY <1>0, <1>1, Invariant, PTL

\* After any statements the index finds each type by its name, a type and its
\* array point at each other and bear the names x and _x, and so do a relation
\* and its row type, which ALTER finds by name.
THEOREM TypesStayTied == TiesKept /\ Spec => []TypesTied
<1>0. SUFFICES ASSUME TiesKept PROVE Spec => []TypesTied
  OBVIOUS
<1>1. Inv => TypesTied
  <2>1. ASSUME Inv
        PROVE  TypesTied
    <3>1. NamesTied(cat) /\ ArraysTied(cat) /\ RowTypesTied(cat)
      BY <2>1 DEF Inv, State, Base, Ties
    <3>2. ASSUME NEW t \in DOMAIN cat.pg_type
          PROVE  LET row == cat.pg_type[t] IN
                 /\ row.typarray # None =>
                       /\ row.typarray \in DOMAIN cat.pg_type
                       /\ cat.pg_type[row.typarray].typelem = t
                       /\ cat.pg_type[row.typarray].typname = array_name(row.typname)
                       /\ cat.pg_type[row.typarray].typnamespace = row.typnamespace
                 /\ row.typelem # None => row.typelem \in DOMAIN cat.pg_type /\ array_type_of(cat, row.typelem) = t
                 /\ row.typrelid # None =>
                       /\ row.typrelid \in DOMAIN cat.pg_class
                       /\ cat.pg_class[row.typrelid].reltype = t
                       /\ RelationName(cat, row.typrelid) = TypeName(cat, t)
      BY <3>1 DEF ArraysTied, RowTypesTied, HasArray, array_type_of
    <3>3. \A r \in DOMAIN cat.pg_class : cat.pg_class[r].reltype \in DOMAIN cat.pg_type \cup {None}
      BY <3>1 DEF RowTypesTied
    <3>4. QED
      BY <3>1, <3>2, <3>3 DEF NamesTied, TypesTied
  <2>2. QED
    BY <2>1
<1>2. QED
  BY <1>0, <1>1, Invariant, PTL

\* RENAME and SET SCHEMA, which find the array and the row type by name, never
\* rename a type that is not that of the statement.
THEOREM OnlyItsOwn == TiesKept /\ Spec => RenamesItsOwn
<1>0. SUFFICES ASSUME TiesKept PROVE Spec => RenamesItsOwn
  OBVIOUS
<1> DEFINE types     == {t \in DOMAIN cat.pg_type \cap DOMAIN cat'.pg_type : TypeName(cat, t) # TypeName(cat, t)'}
           relations == {r \in DOMAIN cat.pg_class \cap DOMAIN cat'.pg_class :
                            RelationName(cat, r) # RelationName(cat, r)'}
           Own == (\A r \in relations : types = Both(cat, cat.pg_class[r].reltype)) /\ Cardinality(types) <= 2
<1>1. ASSUME Inv, [Next]_vars
      PROVE  Own
  <2>1. OwnMoved(cat, cat')
    BY <1>0, <1>1, InvNext DEF Sound
  <2>2. types = TypesMoved(cat, cat') /\ relations = RelationsMoved(cat, cat')
    BY DEF TypesMoved, RelationsMoved, TypeName, RelationName
  <2>3. PICK t, a : types \subseteq {t, a}
    BY <2>1, <2>2 DEF OwnMoved
  <2>4. IsFiniteSet({t} \cup {a}) /\ Cardinality({t} \cup {a}) \in 1..2
    <3>1. IsFiniteSet({t}) /\ Cardinality({t}) = 1
      BY FS_Singleton
    <3>2. QED
      BY <3>1, FS_AddElement
  <2>5. types \in SUBSET ({t} \cup {a})
    BY <2>3
  <2> HIDE DEF types, relations
  <2>6. IsFiniteSet(types) /\ Cardinality(types) <= Cardinality({t} \cup {a})
    BY <2>4, <2>5, FS_Subset
  <2>7. Cardinality(types) \in Nat
    BY <2>6, FS_CardinalityType
  <2>8. Cardinality(types) <= 2
    BY <2>4, <2>6, <2>7
  <2>9. QED
    BY <2>1, <2>2, <2>8 DEF OwnMoved
<1>2. Inv /\ [Next]_vars => [Own]_vars
  BY <1>1
<1>3. QED
  BY <1>0, <1>2, Invariant, PTL DEF Spec, RenamesItsOwn

\* What columns, domains, ranges and views name is there, whatever was dropped,
\* in what order, with CASCADE or not.
THEOREM UsesResolve == TiesKept /\ UsesKept /\ Spec => []TypesResolve
<1>0. SUFFICES ASSUME TiesKept, UsesKept PROVE Spec => []TypesResolve
  OBVIOUS
<1>1. Init => UsesInv
  BY InitSound DEF UsesInv, Inv
<1>2. UsesInv /\ [Next]_vars => UsesInv'
  BY <1>0, InvNext DEF UsesInv, Inv, Sound
<1>3. UsesInv => TypesResolve
  <2>1. ASSUME Refs(cat)
        PROVE  TypesResolve
    <3>1. ASSUME NEW v \in DOMAIN cat.pg_rewrite
          PROVE  LET rule == cat.pg_rewrite[v] IN
                 /\ rule.casts \subseteq DOMAIN cat.pg_type
                 /\ rule.reads \subseteq DOMAIN cat.pg_class
                 /\ rule.columns \subseteq UNION {Columns(cat, r) : r \in rule.reads}
      BY <2>1 DEF Refs, RuleResolves
    <3>2. QED
      BY <2>1, <3>1 DEF Refs, TypesResolve, Range
  <2>2. QED
    BY <2>1 DEF UsesInv
<1>4. QED
  BY <1>0, <1>1, <1>2, <1>3, PTL DEF Spec

\* Of any number of extensions, each owns what its scripts made, through its
\* upgrades and whatever is dropped meanwhile, and leaves none of it behind.
THEOREM ExtensionsStayWhole == TiesKept /\ Spec => []ExtensionsWhole
<1>0. SUFFICES ASSUME TiesKept PROVE Spec => []ExtensionsWhole
  OBVIOUS
<1>1. Init => PartsInv
  BY InitSound DEF PartsInv, Inv
<1>2. PartsInv /\ [Next]_vars => PartsInv'
  BY <1>0, InvNext DEF PartsInv, Inv, Sound
<1>3. PartsInv => ExtensionsWhole
  BY DEF PartsInv, Inv, State, Bounded, Owns, Things, ExtensionsWhole
<1>4. QED
  BY <1>0, <1>1, <1>2, <1>3, PTL DEF Spec

-----------------------------------------------------------------------------
(* The labels of an enum, in the order of PostgreSQL.                       *)

\* The rows of an enum carry its labels, at orders that rise, none twice.
InStep(rows, list) ==
    /\ rows \in Seq([label: Label, order: Int]) /\ list \in Seq(Label)
    /\ Len(rows) = Len(list)
    /\ \A i \in 1..Len(rows) : rows[i].label = list[i]
    /\ \A i, j \in 1..Len(rows) : i < j => rows[i].order < rows[j].order
    /\ \A i, j \in 1..Len(list) : list[i] = list[j] => i = j

\* The places and the orders of such rows.
LEMMA InStepRows ==
    ASSUME NEW rows, NEW list, InStep(rows, list)
    PROVE  /\ Len(rows) \in Nat /\ DOMAIN rows = 1..Len(rows) /\ DOMAIN list = 1..Len(rows)
           /\ \A i \in 1..Len(rows) : rows[i].order \in Int
<1> DEFINE S == [label: Label, order: Int]
<1>1. rows \in Seq(S) /\ list \in Seq(Label) /\ Len(rows) = Len(list)
  BY DEF InStep
<1>2. DOMAIN list = 1..Len(rows)
  BY <1>1
<1>3. \A x \in S : x.order \in Int
  OBVIOUS
<1> HIDE DEF S
<1>4. Len(rows) \in Nat /\ DOMAIN rows = 1..Len(rows) /\ \A i \in 1..Len(rows) : rows[i] \in S
  BY <1>1
<1>5. QED
  BY <1>2, <1>3, <1>4

\* InsertAt moves what was at its place and after it up by one.
LEMMA InsertAtPlaces ==
    ASSUME NEW S, NEW s \in Seq(S), NEW k \in 1..(Len(s) + 1), NEW e \in S
    PROVE  /\ InsertAt(s, k, e) \in Seq(S)
           /\ Len(InsertAt(s, k, e)) = Len(s) + 1
           /\ \A i \in 1..(Len(s) + 1) :
                 InsertAt(s, k, e)[i] = IF i < k THEN s[i] ELSE IF i = k THEN e ELSE s[i-1]
<1> DEFINE a == SubSeq(s, 1, k - 1)
           b == SubSeq(s, k, Len(s))
<1>1. Len(s) \in Nat /\ k \in Nat
  OBVIOUS
<1>2. a \in Seq(S) /\ Len(a) = k - 1 /\ \A i \in 1..(k - 1) : a[i] = s[i]
  BY <1>1
<1>3. b \in Seq(S) /\ Len(b) = Len(s) - k + 1 /\ \A i \in 1..(Len(s) - k + 1) : b[i] = s[k + i - 1]
  BY <1>1
<1>4. InsertAt(s, k, e) = a \o <<e>> \o b
  BY DEF InsertAt
<1> HIDE DEF a, b
<1> DEFINE f == a \o <<e>>
<1>5. f \in Seq(S) /\ Len(f) = k /\ \A i \in 1..k : f[i] = IF i < k THEN s[i] ELSE e
  BY <1>1, <1>2
<1> HIDE DEF f
<1>6. /\ f \o b \in Seq(S) /\ Len(f \o b) = Len(s) + 1
      /\ \A i \in 1..(Len(s) + 1) : (f \o b)[i] = IF i <= k THEN f[i] ELSE b[i - k]
  <2>1. f \o b \in Seq(S)
    BY <1>3, <1>5
  <2>2. Len(f \o b) = Len(f) + Len(b)
    BY <1>3, <1>5
  <2>3. \A i \in 1..(Len(f) + Len(b)) : (f \o b)[i] = IF i <= Len(f) THEN f[i] ELSE b[i - Len(f)]
    BY <1>3, <1>5
  <2>4. Len(f) + Len(b) = Len(s) + 1 /\ Len(f) = k
    BY <1>1, <1>3, <1>5
  <2>5. QED
    BY <2>1, <2>2, <2>3, <2>4
<1>7. \A i \in 1..(Len(s) + 1) : i > k => b[i - k] = s[i-1]
  <2>1. ASSUME NEW i \in 1..(Len(s) + 1), i > k
        PROVE  b[i - k] = s[i-1]
    <3>1. i - k \in 1..(Len(s) - k + 1) /\ k + (i - k) - 1 = i - 1
      BY <1>1, <2>1
    <3>2. b[i - k] = s[k + (i - k) - 1]
      BY <1>3, <3>1
    <3>3. QED
      BY <3>1, <3>2
  <2>2. QED
    BY <2>1
<1>8. ASSUME NEW i \in 1..(Len(s) + 1)
      PROVE  (f \o b)[i] = IF i < k THEN s[i] ELSE IF i = k THEN e ELSE s[i-1]
  <2>1. CASE i <= k
    <3>1. i \in 1..k
      BY <1>1, <2>1
    <3>2. (f \o b)[i] = f[i] /\ f[i] = IF i < k THEN s[i] ELSE e
      BY <1>5, <1>6, <2>1, <3>1
    <3>3. QED
      BY <1>1, <2>1, <3>2
  <2>2. CASE i > k
    BY <1>1, <1>6, <1>7, <2>2
  <2>3. i <= k \/ i > k
    BY <1>1
  <2>4. QED
    BY <2>1, <2>2, <2>3
<1>9. InsertAt(s, k, e) = f \o b
  BY <1>4 DEF f
<1>10. QED
  BY <1>6, <1>8, <1>9

\* The row goes behind those of a lower order, and its label to the same place.
LEMMA InsertedInStep ==
    ASSUME NEW rows, NEW list, InStep(rows, list), NEW label \in Label,
           \A i \in 1..Len(list) : list[i] # label,
           NEW order \in Int, NEW k \in 1..(Len(rows) + 1),
           \A i \in 1..Len(rows) : i < k => rows[i].order < order,
           \A i \in 1..Len(rows) : k <= i => order < rows[i].order
    PROVE  InStep(insert_pg_enum(rows, [label |-> label, order |-> order]), InsertAt(list, k, label))
<1> DEFINE row == [label |-> label, order |-> order]
           n   == Len(rows)
           r   == InsertAt(rows, k, row)
           l   == InsertAt(list, k, label)
<1>1. /\ rows \in Seq([label: Label, order: Int]) /\ list \in Seq(Label)
      /\ n \in Nat /\ Len(list) = n /\ DOMAIN rows = 1..n
      /\ \A i \in 1..n : rows[i].label = list[i] /\ rows[i].order \in Int
      /\ \A i, j \in 1..n : i < j => rows[i].order < rows[j].order
      /\ \A i, j \in 1..n : list[i] = list[j] => i = j
  <2>1. rows \in Seq([label: Label, order: Int]) /\ list \in Seq(Label) /\ Len(list) = n
    BY DEF InStep
  <2>2. n \in Nat /\ DOMAIN rows = 1..n /\ \A i \in 1..n : rows[i].order \in Int
    BY InStepRows
  <2>3. QED
    BY <2>1, <2>2 DEF InStep
<1>2. insert_pg_enum(rows, row) = r
  <2>1. {i \in DOMAIN rows : rows[i].order <= order} = 1..(k - 1)
    <3>1. \A i \in 1..n : rows[i].order <= order <=> i < k
      BY <1>1
    <3>2. \A i : i \in 1..n /\ i < k <=> i \in 1..(k - 1)
      BY <1>1
    <3>3. QED
      BY <1>1, <3>1, <3>2
  <2>2. Cardinality(1..(k - 1)) = k - 1
    <3>1. Cardinality(1..(k - 1)) = IF 1 > k - 1 THEN 0 ELSE (k - 1) - 1 + 1
      BY <1>1, FS_Interval
    <3>2. QED
      BY <1>1, <3>1
  <2>3. row.order = order /\ 1 + (k - 1) = k
    BY <1>1
  <2>4. 1 + Cardinality({i \in DOMAIN rows : rows[i].order <= row.order}) = k
    <3> HIDE DEF row
    <3>1. {i \in DOMAIN rows : rows[i].order <= row.order} = 1..(k - 1)
      BY <2>1, <2>3
    <3>2. QED
      BY <2>2, <2>3, <3>1
  <2>5. QED
    BY <2>4 DEF insert_pg_enum
<1>3. row \in [label: Label, order: Int] /\ row.label = label /\ row.order = order
  OBVIOUS
<1> HIDE DEF row
<1>4. /\ r \in Seq([label: Label, order: Int]) /\ Len(r) = n + 1
      /\ \A i \in 1..(n + 1) : r[i] = IF i < k THEN rows[i] ELSE IF i = k THEN row ELSE rows[i-1]
  <2> DEFINE S == [label: Label, order: Int]
  <2>1. rows \in Seq(S) /\ k \in 1..(Len(rows) + 1) /\ row \in S
    BY <1>1, <1>3
  <2> HIDE DEF S
  <2>2. /\ r \in Seq(S) /\ Len(r) = Len(rows) + 1
        /\ \A i \in 1..(Len(rows) + 1) : r[i] = IF i < k THEN rows[i] ELSE IF i = k THEN row ELSE rows[i-1]
    BY <2>1, InsertAtPlaces
  <2>3. QED
    BY <2>2 DEF S
<1>5. /\ l \in Seq(Label) /\ Len(l) = n + 1
      /\ \A i \in 1..(n + 1) : l[i] = IF i < k THEN list[i] ELSE IF i = k THEN label ELSE list[i-1]
  <2>1. list \in Seq(Label) /\ k \in 1..(Len(list) + 1) /\ Len(list) = n
    BY <1>1
  <2>2. /\ l \in Seq(Label) /\ Len(l) = Len(list) + 1
        /\ \A i \in 1..(Len(list) + 1) : l[i] = IF i < k THEN list[i] ELSE IF i = k THEN label ELSE list[i-1]
    BY <2>1, InsertAtPlaces
  <2>3. QED
    BY <2>1, <2>2
<1> HIDE DEF r, l, n
<1>6. k \in Nat /\ k >= 1 /\ k <= n + 1
  BY <1>1 DEF n
<1>7. \A i \in 1..n : list[i] # label
  BY <1>1
<1>8. \A i \in 1..n : IF i < k THEN rows[i].order < order ELSE order < rows[i].order
  BY <1>1, <1>6 DEF n
<1>9. \A i \in 1..(n + 1) : r[i].label = l[i]
  <2>1. ASSUME NEW i \in 1..(n + 1)
        PROVE  r[i].label = l[i]
    <3>1. CASE i < k
      BY <1>1, <1>4, <1>5, <1>6, <3>1
    <3>2. CASE i = k
      BY <1>3, <1>4, <1>5, <1>6, <3>2
    <3>3. CASE i > k
      <4>1. i - 1 \in 1..n
        BY <1>1, <1>6, <3>3
      <4>2. QED
        BY <1>1, <1>4, <1>5, <1>6, <3>3, <4>1
    <3>4. QED
      BY <1>1, <1>6, <3>1, <3>2, <3>3
  <2>2. QED
    BY <2>1
<1>10. \A i, j \in 1..(n + 1) : i < j => r[i].order < r[j].order
  <2>1. ASSUME NEW i \in 1..(n + 1), NEW j \in 1..(n + 1), i < j
        PROVE  r[i].order < r[j].order
    <3>1. CASE i < k /\ j < k
      <4>1. r[i] = rows[i] /\ r[j] = rows[j] /\ i \in 1..n /\ j \in 1..n
        BY <1>1, <1>4, <1>6, <3>1
      <4>2. QED
        BY <1>1, <2>1, <4>1
    <3>2. CASE i < k /\ j = k
      <4>1. r[i] = rows[i] /\ r[j] = row /\ i \in 1..n
        BY <1>1, <1>4, <1>6, <3>2
      <4>2. QED
        BY <1>3, <1>8, <3>2, <4>1
    <3>3. CASE i < k /\ j > k
      <4>1. r[i] = rows[i] /\ r[j] = rows[j-1] /\ i \in 1..n /\ j - 1 \in 1..n /\ i < j - 1
        BY <1>1, <1>4, <1>6, <3>3
      <4>2. QED
        BY <1>1, <4>1
    <3>4. CASE i = k
      <4>1. r[i] = row /\ r[j] = rows[j-1] /\ j - 1 \in 1..n /\ ~ (j - 1 < k)
        BY <1>1, <1>4, <1>6, <2>1, <3>4
      <4>2. QED
        BY <1>3, <1>8, <4>1
    <3>5. CASE i > k
      <4>1. /\ r[i] = rows[i-1] /\ r[j] = rows[j-1]
            /\ i - 1 \in 1..n /\ j - 1 \in 1..n /\ i - 1 < j - 1
        BY <1>1, <1>4, <1>6, <2>1, <3>5
      <4>2. QED
        BY <1>1, <4>1
    <3>6. QED
      BY <1>1, <1>6, <3>1, <3>2, <3>3, <3>4, <3>5
  <2>2. QED
    BY <2>1
<1>11. \A i, j \in 1..(n + 1) : l[i] = l[j] => i = j
  <2> DEFINE At(i) == IF i < k THEN i ELSE i - 1
  <2>1. ASSUME NEW i \in 1..(n + 1), i # k
        PROVE  At(i) \in 1..n /\ l[i] = list[At(i)]
    BY <1>1, <1>5, <1>6, <2>1
  <2>2. l[k] = label
    BY <1>1, <1>5, <1>6
  <2>3. ASSUME NEW i \in 1..(n + 1), NEW j \in 1..(n + 1), l[i] = l[j]
        PROVE  i = j
    <3>1. CASE i = k \/ j = k
      <4>1. \A x \in 1..(n + 1) : x # k => l[x] # label
        <5> HIDE DEF At
        <5>1. QED
          BY <1>7, <2>1
      <4>2. QED
        BY <2>2, <2>3, <3>1, <4>1
    <3>2. CASE i # k /\ j # k
      <4>1. At(i) = At(j)
        <5> HIDE DEF At
        <5>1. QED
          BY <1>1, <2>1, <2>3, <3>2
      <4>2. QED
        BY <1>1, <1>6, <3>2, <4>1
    <3>3. QED
      BY <3>1, <3>2
  <2>4. QED
    BY <2>3
<1>12. InStep(r, l)
  BY <1>1, <1>4, <1>5, <1>9, <1>10, <1>11 DEF InStep
<1>13. QED
  BY <1>2, <1>12 DEF row, l

\* The orders of InStep rows above or below that at p, and the nearest of them.
LEMMA NearestBeside ==
    ASSUME NEW rows, NEW list, InStep(rows, list), NEW p \in 1..Len(rows), NEW after \in BOOLEAN
    PROVE  LET beyond == Beyond(rows, rows[p].order, after)
               q      == IF after THEN p + 1 ELSE p - 1
           IN  IF q \in 1..Len(rows)
               THEN beyond # {} /\ Nearest(beyond, after) = rows[q].order
               ELSE beyond = {}
<1> DEFINE beyond == Beyond(rows, rows[p].order, after)
           q      == IF after THEN p + 1 ELSE p - 1
           n      == Len(rows)
<1>1. /\ n \in Nat /\ DOMAIN rows = 1..n
      /\ \A i \in 1..n : rows[i].order \in Int
      /\ \A i, j \in 1..n : i < j => rows[i].order < rows[j].order
  BY InStepRows DEF InStep
<1>2. beyond = {o \in {rows[i].order : i \in 1..n} : IF after THEN o > rows[p].order ELSE o < rows[p].order}
  BY <1>1 DEF Beyond
<1> HIDE DEF beyond, n
<1>3. p \in 1..n
  BY DEF n
<1>4. CASE after
  <2>1. \A o \in beyond : \E i \in 1..n : o = rows[i].order /\ p < i
    <3>1. \A i \in 1..n : rows[i].order > rows[p].order => p < i
      <4>1. \A i \in 1..n : i < p => rows[i].order < rows[p].order
        BY <1>1, <1>3
      <4>2. \A i \in 1..n : i = p \/ i < p \/ p < i
        BY <1>1, <1>3
      <4>3. QED
        BY <1>1, <1>3, <4>1, <4>2
    <3>2. QED
      BY <1>2, <1>4, <3>1
  <2>2. CASE p + 1 \in 1..n
    <3>1. rows[p + 1].order \in beyond
      <4>1. rows[p].order < rows[p + 1].order
        BY <1>1, <1>3, <2>2
      <4>2. QED
        BY <1>1, <1>2, <1>3, <1>4, <2>2, <4>1
    <3>2. \A o \in beyond : rows[p + 1].order <= o
      <4>1. ASSUME NEW o \in beyond
            PROVE  rows[p + 1].order <= o
        <5>1. PICK i \in 1..n : o = rows[i].order /\ p < i
          BY <2>1
        <5>2. i = p + 1 \/ p + 1 < i
          BY <1>1, <1>3, <5>1
        <5>3. CASE i = p + 1
          BY <1>1, <2>2, <5>1, <5>3
        <5>4. CASE p + 1 < i
          <6>1. rows[p + 1].order < rows[i].order
            BY <1>1, <2>2, <5>4
          <6>2. QED
            BY <1>1, <2>2, <5>1, <6>1
        <5>5. QED
          BY <5>2, <5>3, <5>4
      <4>2. QED
        BY <4>1
    <3>3. Min(beyond) = rows[p + 1].order
      <4>1. \A o \in beyond : o \in Int
        BY <1>1, <1>2
      <4>2. \A o \in beyond : (\A u \in beyond : o <= u) => o = rows[p + 1].order
        BY <3>1, <3>2, <4>1
      <4>3. QED
        BY <3>1, <3>2, <4>2 DEF Min
    <3>4. QED
      BY <1>4, <2>2, <3>1, <3>3 DEF Nearest, beyond, n
  <2>3. CASE p + 1 \notin 1..n
    <3>1. \A i \in 1..n : ~ (p < i)
      BY <1>1, <1>3, <2>3
    <3>2. beyond = {}
      BY <2>1, <3>1
    <3>3. QED
      BY <1>4, <2>3, <3>2 DEF beyond, n
  <2>4. QED
    BY <2>2, <2>3
<1>5. CASE ~ after
  <2>1. \A o \in beyond : \E i \in 1..n : o = rows[i].order /\ i < p
    <3>1. \A i \in 1..n : rows[i].order < rows[p].order => i < p
      <4>1. \A i \in 1..n : p < i => rows[p].order < rows[i].order
        BY <1>1, <1>3
      <4>2. \A i \in 1..n : i = p \/ i < p \/ p < i
        BY <1>1, <1>3
      <4>3. QED
        BY <1>1, <1>3, <4>1, <4>2
    <3>2. QED
      BY <1>2, <1>5, <3>1
  <2>2. CASE p - 1 \in 1..n
    <3>1. rows[p - 1].order \in beyond
      <4>1. rows[p - 1].order < rows[p].order
        BY <1>1, <1>3, <2>2
      <4>2. QED
        BY <1>1, <1>2, <1>3, <1>5, <2>2, <4>1
    <3>2. \A o \in beyond : rows[p - 1].order >= o
      <4>1. ASSUME NEW o \in beyond
            PROVE  rows[p - 1].order >= o
        <5>1. PICK i \in 1..n : o = rows[i].order /\ i < p
          BY <2>1
        <5>2. i = p - 1 \/ i < p - 1
          BY <1>1, <1>3, <5>1
        <5>3. CASE i = p - 1
          BY <1>1, <2>2, <5>1, <5>3
        <5>4. CASE i < p - 1
          <6>1. rows[i].order < rows[p - 1].order
            BY <1>1, <2>2, <5>4
          <6>2. QED
            BY <1>1, <2>2, <5>1, <6>1
        <5>5. QED
          BY <5>2, <5>3, <5>4
      <4>2. QED
        BY <4>1
    <3>3. Max(beyond) = rows[p - 1].order
      <4>1. \A o \in beyond : o \in Int
        BY <1>1, <1>2
      <4>2. \A o \in beyond : (\A u \in beyond : o >= u) => o = rows[p - 1].order
        BY <3>1, <3>2, <4>1
      <4>3. QED
        BY <3>1, <3>2, <4>2 DEF Max
    <3>4. QED
      BY <1>5, <2>2, <3>1, <3>3 DEF Nearest, beyond, n
  <2>3. CASE p - 1 \notin 1..n
    <3>1. \A i \in 1..n : ~ (i < p)
      BY <1>1, <1>3, <2>3
    <3>2. beyond = {}
      BY <2>1, <3>1
    <3>3. QED
      BY <1>5, <2>3, <3>2 DEF beyond, n
  <2>4. QED
    BY <2>2, <2>3
<1>6. QED
  BY <1>4, <1>5

\* No order is above the last one and zero.
LEMMA HighestAbove ==
    ASSUME NEW rows, NEW list, InStep(rows, list)
    PROVE  Highest(rows) \in Int /\ \A i \in 1..Len(rows) : rows[i].order <= Highest(rows)
<1> DEFINE n == Len(rows)
           S == {0} \cup {rows[i].order : i \in 1..n}
<1>1. /\ n \in Nat /\ DOMAIN rows = 1..n
      /\ \A i \in 1..n : rows[i].order \in Int
      /\ \A i, j \in 1..n : i < j => rows[i].order < rows[j].order
  BY InStepRows DEF InStep
<1>2. Highest(rows) = Max(S)
  BY <1>1 DEF Highest
<1> HIDE DEF n
<1>3. \A x \in S : x \in Int
  BY <1>1
<1>4. \E m \in S : \A x \in S : m >= x
  <2>1. CASE n = 0
    BY <1>1, <2>1
  <2>2. CASE n # 0
    <3>1. n \in 1..n /\ \A i \in 1..n : i = n \/ i < n
      BY <1>1, <2>2
    <3>2. \A i \in 1..n : rows[i].order <= rows[n].order
      <4>1. ASSUME NEW i \in 1..n
            PROVE  rows[i].order <= rows[n].order
        <5>1. CASE i = n
          BY <1>1, <5>1
        <5>2. CASE i < n
          <6>1. rows[i].order < rows[n].order
            BY <1>1, <3>1, <5>2
          <6>2. QED
            BY <1>1, <3>1, <6>1
        <5>3. QED
          BY <3>1, <5>1, <5>2
      <4>2. QED
        BY <4>1
    <3>3. CASE rows[n].order >= 0
      <4>1. rows[n].order \in S /\ \A x \in S : rows[n].order >= x
        BY <1>1, <3>1, <3>2, <3>3
      <4>2. QED
        BY <4>1
    <3>4. CASE rows[n].order < 0
      <4>1. \A x \in S : 0 >= x
        BY <1>1, <3>1, <3>2, <3>4
      <4>2. QED
        BY <4>1
    <3>5. QED
      BY <1>1, <3>1, <3>3, <3>4
  <2>3. QED
    BY <2>1, <2>2
<1>5. \A i \in 1..n : rows[i].order \in S
  OBVIOUS
<1> HIDE DEF S
<1>6. Max(S) \in S /\ \A x \in S : Max(S) >= x
  BY <1>4 DEF Max
<1>7. \A i \in 1..n : rows[i].order <= Max(S)
  BY <1>1, <1>3, <1>5, <1>6
<1>8. QED
  BY <1>2, <1>3, <1>6, <1>7 DEF n

\* The midpoint of two orders with an even sum is between them.
LEMMA MidpointBetween ==
    ASSUME NEW a \in Int, NEW b \in Int, a < b, (a + b) % 2 # 1
    PROVE  /\ midpoint(a, b) \in Int /\ midpoint(b, a) = midpoint(a, b)
           /\ a < midpoint(a, b) /\ midpoint(a, b) < b
<1> DEFINE s == a + b
           m == s \div 2
<1>1. s \in Int /\ m \in Int /\ s % 2 \in 0..1 /\ s = 2 * m + (s % 2)
  OBVIOUS
<1>2. s % 2 = 0
  BY <1>1
<1>3. midpoint(a, b) = m
  BY <1>2 DEF midpoint
<1>4. midpoint(b, a) = m
  <2>1. b + a = s
    OBVIOUS
  <2>2. QED
    BY <1>2, <2>1 DEF midpoint
<1>5. a < m /\ m < b
  <2>1. a + b = 2 * m /\ m \in Int
    BY <1>1, <1>2
  <2> HIDE DEF m
  <2>2. QED
    BY <2>1
<1> HIDE DEF m
<1>6. QED
  BY <1>1, <1>3, <1>4, <1>5

\* The label that a clause names is at one place, in the rows as in the list.
LEMMA PositionFound ==
    ASSUME NEW rows, NEW list, InStep(rows, list), NEW of \in Range(list)
    PROVE  /\ Position(list, of) \in 1..Len(rows) /\ list[Position(list, of)] = of
           /\ Position([i \in DOMAIN rows |-> rows[i].label], of) = Position(list, of)
<1> DEFINE given == [i \in DOMAIN rows |-> rows[i].label]
<1>1. DOMAIN rows = 1..Len(rows) /\ DOMAIN list = 1..Len(rows)
  BY InStepRows
<1>2. \A i \in DOMAIN list : rows[i].label = list[i]
  BY <1>1 DEF InStep
<1>3. \E i \in DOMAIN list : list[i] = of
  BY DEF Range
<1>4. Position(list, of) \in DOMAIN list /\ list[Position(list, of)] = of
  BY <1>3 DEF Position
<1>5. given = list
  <2>1. list \in Seq(Label)
    BY DEF InStep
  <2>2. list = [i \in DOMAIN list |-> list[i]]
    BY <2>1
  <2>3. QED
    BY <1>1, <1>2, <2>2
<1>6. QED
  BY <1>1, <1>4, <1>5

\* Before or after a label: the new order is between those of the neighbours.
LEMMA BesideFits ==
    ASSUME NEW rows, NEW list, InStep(rows, list), NEW p \in 1..Len(rows), NEW after \in BOOLEAN,
           LET beyond == Beyond(rows, rows[p].order, after)
           IN  ~ (beyond # {} /\ (rows[p].order + Nearest(beyond, after)) % 2 = 1)
    PROVE  LET order == beside(rows, rows[p].order, after)
               k     == IF after THEN p + 1 ELSE p
           IN  /\ order \in Int
               /\ \A i \in 1..Len(rows) : i < k => rows[i].order < order
               /\ \A i \in 1..Len(rows) : k <= i => order < rows[i].order
<1> DEFINE near   == rows[p].order
           beyond == Beyond(rows, near, after)
           q      == IF after THEN p + 1 ELSE p - 1
           k      == IF after THEN p + 1 ELSE p
           order  == beside(rows, near, after)
           n      == Len(rows)
<1>1. /\ n \in Nat /\ \A i \in 1..n : rows[i].order \in Int
      /\ \A i, j \in 1..n : i < j => rows[i].order < rows[j].order
  BY InStepRows DEF InStep
<1>2. IF q \in 1..n THEN beyond # {} /\ Nearest(beyond, after) = rows[q].order ELSE beyond = {}
  BY NearestBeside
<1>3. ~ (beyond # {} /\ (near + Nearest(beyond, after)) % 2 = 1)
  OBVIOUS
<1>4. order = IF beyond = {} THEN IF after THEN near + Unit ELSE near - Unit
              ELSE midpoint(near, Nearest(beyond, after))
  BY DEF beside
<1>5. Unit \in Nat \ {0}
  BY TypeObjectsAssumption
<1>6. p \in 1..n /\ near \in Int
  BY <1>1
<1> HIDE DEF beyond, order, n
<1>7. \A i \in 1..n : /\ i < p => rows[i].order < near
                      /\ i <= p => rows[i].order <= near
                      /\ p < i => near < rows[i].order
                      /\ p <= i => near <= rows[i].order
  <2>1. ASSUME NEW i \in 1..n
        PROVE  /\ i < p => rows[i].order < near
               /\ i <= p => rows[i].order <= near
               /\ p < i => near < rows[i].order
               /\ p <= i => near <= rows[i].order
    <3>1. i < p \/ i = p \/ p < i
      BY <1>1, <1>6
    <3>2. CASE i < p
      BY <1>1, <1>6, <3>2
    <3>3. CASE i = p
      BY <1>1, <1>6, <3>3
    <3>4. CASE p < i
      BY <1>1, <1>6, <3>4
    <3>5. QED
      BY <3>1, <3>2, <3>3, <3>4
  <2>2. QED
    BY <2>1
<1>8. CASE q \in 1..n
  <2> DEFINE next == rows[q].order
  <2>1. next \in Int /\ order = midpoint(near, next) /\ (near + next) % 2 # 1
    BY <1>1, <1>2, <1>3, <1>4, <1>8
  <2>2. CASE after
    <3>1. near < next /\ q = p + 1
      BY <1>6, <1>7, <1>8, <2>2
    <3>2. order \in Int /\ near < order /\ order < next
      <4> HIDE DEF near, next
      <4>1. QED
        BY <1>6, <2>1, <3>1, MidpointBetween
    <3>3. \A i \in 1..n : q <= i => next <= rows[i].order
      BY <1>1, <1>6, <1>8
    <3>4. \A i \in 1..n : i < k => rows[i].order < order
      <4>1. ASSUME NEW i \in 1..n, i < k
            PROVE  rows[i].order < order
        <5>1. i <= p
          BY <1>1, <1>6, <2>2, <4>1
        <5>2. rows[i].order <= near
          BY <1>7, <5>1
        <5>3. QED
          BY <1>1, <1>6, <3>2, <5>2
      <4>2. QED
        BY <4>1
    <3>5. \A i \in 1..n : k <= i => order < rows[i].order
      BY <1>1, <2>1, <2>2, <3>2, <3>3
    <3>6. QED
      BY <3>2, <3>4, <3>5 DEF order, n
  <2>3. CASE ~ after
    <3>1. next < near /\ q = p - 1
      BY <1>1, <1>6, <1>7, <1>8, <2>3
    <3>2. order \in Int /\ next < order /\ order < near
      <4>1. (next + near) % 2 # 1
        <5>1. next + near = near + next
          BY <1>6, <2>1
        <5>2. QED
          BY <2>1, <5>1
      <4> HIDE DEF near, next
      <4>2. QED
        BY <1>6, <2>1, <3>1, <4>1, MidpointBetween
    <3>3. \A i \in 1..n : i <= q => rows[i].order <= next
      BY <1>1, <1>6, <1>8
    <3>4. \A i \in 1..n : i < k => rows[i].order < order
      <4>1. ASSUME NEW i \in 1..n, i < k
            PROVE  rows[i].order < order
        <5>1. i <= q
          BY <1>1, <1>6, <2>3, <3>1, <4>1
        <5>2. rows[i].order <= next
          BY <3>3, <5>1
        <5>3. QED
          BY <1>1, <2>1, <3>2, <5>2
      <4>2. QED
        BY <4>1
    <3>5. \A i \in 1..n : k <= i => order < rows[i].order
      <4>1. ASSUME NEW i \in 1..n, k <= i
            PROVE  order < rows[i].order
        <5>1. near <= rows[i].order
          BY <1>7, <2>3, <4>1
        <5>2. QED
          BY <1>1, <1>6, <3>2, <5>1
      <4>2. QED
        BY <4>1
    <3>6. QED
      BY <3>2, <3>4, <3>5 DEF order, n
  <2>4. QED
    BY <2>2, <2>3
<1>9. CASE q \notin 1..n
  <2>1. order = IF after THEN near + Unit ELSE near - Unit
    BY <1>2, <1>4, <1>9
  <2>2. CASE after
    <3>1. order = near + Unit
      BY <2>1, <2>2
    <3>2. order \in Int /\ near < order
      BY <1>5, <1>6, <3>1
    <3>3. \A i \in 1..n : i <= p
      BY <1>1, <1>6, <1>9, <2>2
    <3>4. \A i \in 1..n : rows[i].order < order
      <4>1. \A i \in 1..n : rows[i].order <= near
        BY <1>7, <3>3
      <4>2. QED
        BY <1>1, <1>6, <3>2, <4>1
    <3>5. \A i \in 1..n : ~ (k <= i)
      BY <1>1, <1>6, <2>2, <3>3
    <3>6. QED
      BY <3>2, <3>4, <3>5 DEF order, n
  <2>3. CASE ~ after
    <3>1. order = near - Unit
      BY <2>1, <2>3
    <3>2. order \in Int /\ order < near
      BY <1>5, <1>6, <3>1
    <3>3. \A i \in 1..n : p <= i
      BY <1>1, <1>6, <1>9, <2>3
    <3>4. \A i \in 1..n : order < rows[i].order
      <4>1. \A i \in 1..n : near <= rows[i].order
        BY <1>7, <3>3
      <4>2. QED
        BY <1>1, <1>6, <3>2, <4>1
    <3>5. \A i \in 1..n : ~ (i < k)
      <4>1. k = p
        BY <2>3
      <4> HIDE DEF k
      <4>2. QED
        BY <1>1, <1>6, <3>3, <4>1
    <3>6. QED
      BY <3>2, <3>4, <3>5 DEF order, n
  <2>4. QED
    BY <2>2, <2>3
<1>10. QED
  BY <1>8, <1>9

\* Append is the insertion after the last place.
LEMMA AppendInserts ==
    ASSUME NEW S, NEW s \in Seq(S), NEW e \in S
    PROVE  Append(s, e) = InsertAt(s, Len(s) + 1, e)
<1>1. Len(s) \in Nat /\ Append(s, e) = s \o <<e>> /\ s \o <<e>> \in Seq(S)
  OBVIOUS
<1>2. SubSeq(s, 1, (Len(s) + 1) - 1) = s
  <2>1. (Len(s) + 1) - 1 = Len(s)
    BY <1>1
  <2>2. SubSeq(s, 1, Len(s)) = s
    BY <1>1
  <2>3. QED
    BY <2>1, <2>2
<1>3. SubSeq(s, Len(s) + 1, Len(s)) = << >>
  BY <1>1
<1>4. InsertAt(s, Len(s) + 1, e) = (s \o <<e>>) \o << >>
  BY <1>2, <1>3, Zenon DEF InsertAt
<1>5. \A t \in Seq(S) : t \o << >> = t
  OBVIOUS
<1>6. (s \o <<e>>) \o << >> = s \o <<e>>
  BY <1>1, <1>5
<1>7. QED
  BY <1>1, <1>4, <1>6, Zenon

\* ADD VALUE, wherever it puts the label, puts it where PostgreSQL does.
LEMMA AddedInStep ==
    ASSUME NEW rows, NEW list, InStep(rows, list), NEW label \in Label,
           \A i \in DOMAIN rows : rows[i].label # label,
           NEW place \in Places(list), place.at # "rename", ~ Crowded(rows, place)
    PROVE  InStep(added(rows, label, place), Ordered(list, label, place))
<1> DEFINE n     == Len(rows)
           named == [i \in DOMAIN rows |-> rows[i].label]
           near  == rows[Position(named, place.of)].order
           order == IF place.at \in {"end", "rename"} THEN Highest(rows) + Unit
                    ELSE beside(rows, near, place.at = "after")
<1>1. /\ n \in Nat /\ DOMAIN rows = 1..n /\ DOMAIN list = 1..n /\ Len(list) = n
      /\ \A i \in 1..n : rows[i].order \in Int
  BY InStepRows DEF InStep
<1>2. \A i \in 1..Len(list) : list[i] # label
  BY <1>1 DEF InStep
<1>3. added(rows, label, place) = insert_pg_enum(rows, [label |-> label, order |-> order])
  BY DEF added
<1>4. place = [at |-> "end"] \/ (place.at \in {"after", "before"} /\ place.of \in Range(list))
  BY DEF Places
<1>5. Unit \in Nat \ {0}
  BY TypeObjectsAssumption
<1>6. CASE place = [at |-> "end"]
  <2>1. place.at = "end"
    BY <1>6
  <2>2. order = Highest(rows) + Unit
    BY <2>1
  <2>3. Ordered(list, label, place) = Append(list, label)
    BY <2>1 DEF Ordered
  <2>4. Append(list, label) = InsertAt(list, n + 1, label)
    BY <1>1, AppendInserts DEF InStep
  <2>5. Highest(rows) \in Int /\ \A i \in 1..n : rows[i].order <= Highest(rows)
    BY HighestAbove
  <2>6. order \in Int /\ \A i \in 1..n : rows[i].order < order
    <3> DEFINE top == Highest(rows)
    <3>1. top \in Int /\ order = top + Unit /\ \A i \in 1..n : rows[i].order <= top
      BY <2>2, <2>5
    <3> HIDE DEF top, order, n
    <3>2. QED
      BY <1>1, <1>5, <3>1
  <2>7. /\ \A i \in 1..n : i < n + 1 => rows[i].order < order
        /\ \A i \in 1..n : n + 1 <= i => order < rows[i].order
    BY <1>1, <2>6
  <2>8. n + 1 \in 1..(n + 1)
    BY <1>1
  <2> HIDE DEF order
  <2>9. InStep(insert_pg_enum(rows, [label |-> label, order |-> order]), InsertAt(list, n + 1, label))
    BY <1>2, <2>6, <2>7, <2>8, InsertedInStep
  <2>10. QED
    BY <1>3, <2>3, <2>4, <2>9 DEF order
<1>7. CASE place.at \in {"after", "before"} /\ place.of \in Range(list)
  <2> DEFINE p     == Position(list, place.of)
             after == place.at = "after"
             k     == IF after THEN p + 1 ELSE p
  <2>1. p \in 1..n /\ Position(named, place.of) = p
    BY <1>7, PositionFound
  <2>2. near = rows[p].order
    BY <2>1
  <2>3. order = beside(rows, rows[p].order, after)
    BY <1>7, <2>2
  <2>4. ~ (/\ Beyond(rows, rows[p].order, after) # {}
           /\ (rows[p].order + Nearest(Beyond(rows, rows[p].order, after), after)) % 2 = 1)
    <3>1. named = [i \in DOMAIN rows |-> rows[i].label]
      OBVIOUS
    <3>2. QED
      BY <1>7, <2>1 DEF Crowded
  <2>5. Ordered(list, label, place) = InsertAt(list, k, label)
    BY <1>7 DEF Ordered
  <2>6. k \in 1..(n + 1)
    BY <1>1, <2>1
  <2>7. after \in BOOLEAN
    OBVIOUS
  <2> HIDE DEF p, after, order
  <2>8. /\ order \in Int
        /\ \A i \in 1..n : i < k => rows[i].order < order
        /\ \A i \in 1..n : k <= i => order < rows[i].order
    BY <2>1, <2>3, <2>4, <2>7, BesideFits
  <2> HIDE DEF k
  <2>9. InStep(insert_pg_enum(rows, [label |-> label, order |-> order]), InsertAt(list, k, label))
    BY <1>2, <2>6, <2>8, InsertedInStep
  <2>10. QED
    BY <1>3, <2>5, <2>9 DEF order
<1>8. QED
  BY <1>4, <1>6, <1>7

-----------------------------------------------------------------------------
(* Helpers that leave the labels alone, or drop rows with their types.      *)

SameEnums(c, d) == IsCatalog(d) /\ d.pg_enum = c.pg_enum /\ d.pg_extension = c.pg_extension

\* The rows of an enum are as they were, or gone, and no extension is new.
EnumsLeft(c, d) ==
    /\ IsCatalog(d) /\ DOMAIN d.pg_extension \subseteq DOMAIN c.pg_extension
    /\ \A t \in DOMAIN d.pg_enum : t \in DOMAIN c.pg_enum /\ d.pg_enum[t] = c.pg_enum[t]

LEMMA DefineSameEnums ==
    ASSUME NEW c, IsCatalog(c), NEW row
    PROVE  SameEnums(c, define(c, row))
<1> DEFINE d  == alloc_oid(insert_pg_type(c, c.next_oid, row), 1)
<1>1. SameEnums(c, d)
  BY DEF SameEnums, IsCatalog, Fields, alloc_oid, insert_pg_type
<1>2. define(c, row) = register_array_type(d, row.typnamespace, row.typname, c.next_oid)
  BY DEF define
<1> HIDE DEF d
<1>3. \A ns, name, element : SameEnums(d, register_array_type(d, ns, name, element))
  BY <1>1 DEF SameEnums, IsCatalog, Fields, alloc_oid, insert_pg_type, register_array_type
<1>4. QED
  BY <1>1, <1>2, <1>3 DEF SameEnums

LEMMA InstallSameEnums ==
    ASSUME NEW c, IsCatalog(c), NEW ns, NEW name, NEW kind, NEW columns
    PROVE  SameEnums(c, install_relation(c, ns, name, kind, columns))
<1> DEFINE rel == c.next_oid
           d   == [c EXCEPT !.class_by_qname = With(@, <<ns, name>>, rel),
                            !.pg_class = With(@, rel, [relname |-> name, relnamespace |-> ns,
                                                       relkind |-> kind, reltype |-> rel + 1]),
                            !.pg_attribute = With(@, rel, columns)]
           row == [TypeRow(ns, name, "composite") EXCEPT !.typrelid = rel]
<1>1. SameEnums(c, d)
  BY DEF SameEnums, IsCatalog, Fields
<1>2. install_relation(c, ns, name, kind, columns) = define(alloc_oid(d, 1), row)
  BY DEF install_relation
<1> HIDE DEF d, row
<1>3. SameEnums(c, alloc_oid(d, 1))
  BY <1>1 DEF SameEnums, IsCatalog, Fields, alloc_oid
<1>4. QED
  BY <1>2, <1>3, DefineSameEnums DEF SameEnums

LEMMA CastSameEnums ==
    ASSUME NEW c, IsCatalog(c), NEW oid, NEW source, NEW target
    PROVE  SameEnums(c, alloc_oid(insert_pg_cast(c, oid, source, target), 1))
BY DEF SameEnums, IsCatalog, Fields, alloc_oid, insert_pg_cast

LEMMA ViewSameEnums ==
    ASSUME NEW c, IsCatalog(c), NEW ns, NEW name, NEW reads, NEW casts
    PROVE  SameEnums(c, create_view(c, ns, name, reads, casts))
<1> DEFINE columns == UNION {Columns(c, r) : r \in reads}
           d       == install_relation(c, ns, name, "view", columns)
<1>1. SameEnums(c, d)
  BY InstallSameEnums
<1>2. create_view(c, ns, name, reads, casts) =
         [d EXCEPT !.pg_rewrite = With(@, c.next_oid, [reads |-> reads, columns |-> columns, casts |-> casts]),
                   !.pg_depend = @ \cup [objid : {c.next_oid}, refobjid : reads, deptype : {"class"}]
                                   \cup [objid : {c.next_oid}, refobjid : casts, deptype : {"type"}]]
  BY DEF create_view
<1> HIDE DEF d, columns
<1>3. QED
  BY <1>1, <1>2 DEF SameEnums, IsCatalog, Fields

LEMMA DefineTypeSameEnums ==
    ASSUME NEW c, IsCatalog(c), NEW ns, NEW name
    PROVE  SameEnums(c, define_type(c, ns, name))
<1>1. SameEnums(c, define(c, TypeRow(ns, name, "base")))
  BY DefineSameEnums
<1>2. SameEnums(c, c)
  BY DEF SameEnums
<1>3. QED
  BY <1>1, <1>2 DEF define_type

LEMMA RenameSameEnums ==
    ASSUME NEW c, IsCatalog(c), NEW t, NEW ns, NEW old, NEW name, NEW newns
    PROVE  /\ SameEnums(c, rename_type_and_array(c, t, ns, old, name, newns))
           /\ SameEnums(c, alter_relation(c, t, newns, name))
<1>1. \A e, oid, new, n : IsCatalog(e) => SameEnums(e, rename_pg_type(e, oid, new, n))
  BY DEF SameEnums, IsCatalog, Fields, rename_pg_type
<1>2. \A e, oid, new, n : IsCatalog(e) => SameEnums(e, rename_pg_class(e, oid, new, n))
  BY DEF SameEnums, IsCatalog, Fields, rename_pg_class
<1>3. ASSUME NEW e, IsCatalog(e), NEW oid, NEW n, NEW o, NEW new, NEW m
      PROVE  SameEnums(e, rename_type_and_array(e, oid, n, o, new, m))
  <2> DEFINE d == rename_pg_type(e, oid, new, m)
  <2>1. SameEnums(e, d)
    BY <1>1, <1>3
  <2>2. \/ rename_type_and_array(e, oid, n, o, new, m) = d
        \/ \E a, an : rename_type_and_array(e, oid, n, o, new, m) = rename_pg_type(d, a, an, m)
    BY DEF rename_type_and_array
  <2> HIDE DEF d
  <2>3. QED
    BY <1>1, <2>1, <2>2 DEF SameEnums
<1>4. SameEnums(c, alter_relation(c, t, newns, name))
  <2> DEFINE d == rename_pg_class(c, t, name, newns)
  <2>1. SameEnums(c, d)
    BY <1>2
  <2>2. \/ alter_relation(c, t, newns, name) = d
        \/ \E a, n, o : alter_relation(c, t, newns, name) = rename_type_and_array(d, a, n, o, name, newns)
    BY DEF alter_relation
  <2> HIDE DEF d
  <2>3. QED
    BY <1>3, <2>1, <2>2 DEF SameEnums
<1>5. QED
  BY <1>3, <1>4

\* A statement of an extension's script makes no enum.
LEMMA RunSameEnums ==
    ASSUME NEW c, IsCatalog(c), NEW stmt \in Statement, NEW ns
    PROVE  SameEnums(c, run_statement(c, stmt, ns))
<1>1. SameEnums(c, c)
  BY DEF SameEnums
<1>2. CASE stmt.op = "type"
  <2>1. run_statement(c, stmt, ns) = define_type(c, ns, stmt.name)
    BY <1>2 DEF run_statement
  <2>2. QED
    BY <2>1, DefineTypeSameEnums
<1>3. CASE stmt.op = "cast"
  <2>1. \/ run_statement(c, stmt, ns) = c
        \/ run_statement(c, stmt, ns) =
              alloc_oid(insert_pg_cast(c, c.next_oid, c.type_by_qname[<<ns, stmt.name>>], Int4), 1)
    BY <1>3 DEF run_statement
  <2>2. QED
    BY <1>1, <2>1, CastSameEnums
<1>4. CASE stmt.op = "operator"
  <2>1. run_statement(c, stmt, ns) = alloc_oid([c EXCEPT !.pg_operator = @ \cup {c.next_oid}], 1)
    BY <1>4 DEF run_statement
  <2>2. QED
    BY <2>1 DEF SameEnums, IsCatalog, Fields, alloc_oid
<1>5. CASE stmt.op = "view"
  <2>1. run_statement(c, stmt, ns) = create_view(c, ns, stmt.name, {}, {})
    BY <1>5 DEF run_statement
  <2>2. QED
    BY <2>1, ViewSameEnums
<1>6. QED
  BY <1>2, <1>3, <1>4, <1>5 DEF Statement

\* Nor do the script and the tags of its parts.
LEMMA ScriptSameEnums ==
    ASSUME NEW c, IsCatalog(c), NEW script \in Seq(Statement), NEW ns, NEW ext
    PROVE  SameEnums(c, record_extension_membership(c, apply_with_schema(c, script, ns), ext))
<1> DEFINE N      == Len(script)
           course == Course(c, script, ns)
           Bad    == {n \in 0..N : ~ SameEnums(c, course[n])}
<1>1. N \in Nat /\ DOMAIN script = 1..N /\ \A n \in 1..N : script[n] \in Statement
  OBVIOUS
<1>2. /\ course[0] = c
      /\ \A n \in 1..N : course[n] = run_statement(course[n-1], script[n], ns)
  <2>1. Len(script) \in Nat
    BY <1>1
  <2>2. /\ Course(c, script, ns)[0] = c
        /\ \A n \in 1..Len(script) :
              Course(c, script, ns)[n] = run_statement(Course(c, script, ns)[n-1], script[n], ns)
    BY <2>1, CourseSteps
  <2>3. QED
    BY <2>2
<1>3. apply_with_schema(c, script, ns) = course[N]
  BY DEF apply_with_schema
<1> HIDE DEF N, course
<1>4. Bad = {}
  <2>1. SUFFICES ASSUME Bad # {} PROVE FALSE
    OBVIOUS
  <2>2. PICK m \in Bad : \A k \in Bad : m <= k
    <3>1. Bad \subseteq Nat
      BY <1>1
    <3> HIDE DEF Bad
    <3>2. QED
      BY <2>1, <3>1, Least
  <2>3. m # 0
    BY <1>2, <2>2 DEF SameEnums
  <2>4. m \in 1..N /\ m - 1 \in 0..N /\ m - 1 \notin Bad
    BY <1>1, <2>2, <2>3
  <2>5. SameEnums(c, course[m-1])
    BY <2>4
  <2>6. SameEnums(course[m-1], course[m])
    <3>1. course[m] = run_statement(course[m-1], script[m], ns) /\ script[m] \in Statement
      BY <1>1, <1>2, <2>4
    <3>2. QED
      BY <2>5, <3>1, RunSameEnums DEF SameEnums
  <2>7. QED
    BY <2>2, <2>5, <2>6 DEF SameEnums
<1>5. SameEnums(c, course[N])
  BY <1>1, <1>4
<1>6. \A d : SameEnums(c, d) => SameEnums(c, record_extension_membership(c, d, ext))
  BY DEF SameEnums, IsCatalog, Fields, record_extension_membership
<1>7. QED
  BY <1>3, <1>5, <1>6

LEMMA ShrunkEnums ==
    ASSUME NEW c, NEW C, NEW T, NEW R, NEW O, NEW d, Shrunk(c, C, T, R, O, d)
    PROVE  EnumsLeft(c, d) /\ T \cap DOMAIN d.pg_enum = {}
BY DEF Shrunk, Less, EnumsLeft

LEMMA DropViewsEnums ==
    ASSUME NEW c, IsCatalog(c), NEW S
    PROVE  EnumsLeft(c, drop_relations(c, S)) /\ EnumsLeft(c, drop_views(c, S))
BY DropRelationsShrinks, ShrunkEnums DEF drop_views

\* What goes of the types goes of the enums.
LEMMA RemoveEnums ==
    ASSUME NEW c, IsCatalog(c), NEW S, NEW d, d = remove_dependencies(remove_pg_type(c, S), S)
    PROVE  EnumsLeft(c, d) /\ S \cap DOMAIN d.pg_enum = {}
<1> DEFINE b == remove_pg_type(c, S)
<1>1. EnumsLeft(c, b) /\ S \cap DOMAIN b.pg_enum = {}
  BY RemoveTypes, ShrunkEnums
<1> HIDE DEF b
<1>2. EnumsLeft(b, remove_dependencies(b, S))
  BY <1>1, RemoveRows, ShrunkEnums DEF EnumsLeft
<1>3. d = remove_dependencies(b, S)
  BY DEF b
<1>4. QED
  BY <1>1, <1>2, <1>3 DEF EnumsLeft

-----------------------------------------------------------------------------
(* The labels through every statement.                                      *)

LabelsInv ==
    /\ IsCatalog(cat) /\ DOMAIN cat.pg_extension \subseteq DOMAIN Registry
    /\ \A t \in DOMAIN cat.pg_enum : t \in DOMAIN labels /\ InStep(cat.pg_enum[t], labels[t])

\* The patterns that put a label elsewhere than PostgreSQL are absent.
LabelsKept == Gaps \cap {"rename_value", "crowded"} = {}

LEMMA LabelsStay ==
    ASSUME LabelsInv, EnumsLeft(cat, cat'), labels' = labels
    PROVE  LabelsInv'
BY DEF LabelsInv, EnumsLeft

LEMMA SameStay ==
    ASSUME LabelsInv, SameEnums(cat, cat'), labels' = labels
    PROVE  LabelsInv'
BY LabelsStay DEF SameEnums, EnumsLeft

LEMMA CreateEnumLabels ==
    ASSUME LabelsInv, NEW ns, NEW name, NEW list \in {<<>>} \cup {<<l>> : l \in Label},
           CreateEnum(ns, name, list)
    PROVE  LabelsInv'
<1> DEFINE d    == define(cat, TypeRow(ns, name, "enum"))
           rows == [i \in DOMAIN list |-> [label |-> list[i], order |-> i * Unit]]
           t    == cat.next_oid
<1>1. SameEnums(cat, d)
  BY DefineSameEnums DEF LabelsInv
<1>2. cat' = [d EXCEPT !.pg_enum = With(@, t, rows)] /\ labels' = With(labels, t, list)
  BY DEF CreateEnum
<1>3. InStep(rows, list)
  <2>1. CASE list = <<>>
    <3>1. rows = <<>>
      BY <2>1
    <3>2. rows \in Seq([label: Label, order: Int]) /\ list \in Seq(Label) /\ Len(rows) = 0 /\ Len(list) = 0
      BY <2>1, <3>1
    <3> HIDE DEF rows
    <3>3. QED
      BY <3>2 DEF InStep
  <2>2. CASE list \in {<<l>> : l \in Label}
    <3> DEFINE S == [label: Label, order: Int]
    <3>1. PICK l \in Label : list = <<l>>
      BY <2>2
    <3>2. list \in Seq(Label) /\ Len(list) = 1 /\ list[1] = l /\ DOMAIN list = {1}
      BY <3>1
    <3>3. 1 * Unit \in Int
      <4>1. Unit \in Nat \ {0}
        BY TypeObjectsAssumption
      <4>2. QED
        BY <4>1
    <3> DEFINE row == [label |-> l, order |-> 1 * Unit]
    <3>4. row \in S /\ row.label = l
      BY <3>3
    <3>5. rows = [i \in {1} |-> row]
      BY <3>2
    <3>6. [i \in {1} |-> row] = <<row>>
      <4> HIDE DEF row
      <4>1. QED
        OBVIOUS
    <3> HIDE DEF row, rows, S
    <3>7. rows \in Seq(S) /\ Len(rows) = 1 /\ rows[1] = row
      <4>1. <<row>> \in Seq(S) /\ Len(<<row>>) = 1 /\ <<row>>[1] = row
        BY <3>4
      <4>2. rows = <<row>>
        BY <3>5, <3>6
      <4>3. QED
        BY <4>1, <4>2
    <3>8. \A i \in 1..1 : i = 1
      OBVIOUS
    <3>9. QED
      BY <3>2, <3>4, <3>7, <3>8 DEF InStep, S
  <2>3. QED
    BY <2>1, <2>2
<1> HIDE DEF d, rows, t
<1>4. /\ IsCatalog(cat') /\ cat'.pg_enum = With(cat.pg_enum, t, rows)
      /\ cat'.pg_extension = cat.pg_extension
  BY <1>1, <1>2 DEF SameEnums, IsCatalog, Fields
<1>5. ASSUME NEW u \in DOMAIN cat'.pg_enum
      PROVE  u \in DOMAIN labels' /\ InStep(cat'.pg_enum[u], labels'[u])
  <2>1. CASE u = t
    BY <1>2, <1>3, <1>4, <2>1 DEF With
  <2>2. CASE u # t
    <3>1. u \in DOMAIN cat.pg_enum /\ cat'.pg_enum[u] = cat.pg_enum[u]
      BY <1>4, <2>2 DEF With
    <3>2. u \in DOMAIN labels
      BY <3>1 DEF LabelsInv
    <3>3. u \in DOMAIN labels' /\ labels'[u] = labels[u]
      BY <1>2, <2>2, <3>2 DEF With
    <3>4. QED
      BY <3>1, <3>3 DEF LabelsInv
  <2>3. QED
    BY <2>1, <2>2
<1>6. QED
  BY <1>4, <1>5 DEF LabelsInv

LEMMA AlterEnumLabels ==
    ASSUME LabelsKept, LabelsInv, NEW t \in DOMAIN cat.pg_enum, NEW label \in Label,
           NEW place \in Places(labels[t]), NEW if_not_exists, AlterEnum(t, label, place, if_not_exists)
    PROVE  LabelsInv'
<1> DEFINE rows == cat.pg_enum[t]
<1>1. CASE \E i \in DOMAIN rows : rows[i].label = label
  <2>1. cat' = cat /\ labels' = labels
    BY <1>1 DEF AlterEnum
  <2>2. QED
    BY <2>1 DEF LabelsInv
<1>2. CASE \A i \in DOMAIN rows : rows[i].label # label
  <2> DEFINE more == added(rows, label, place)
             list == Ordered(labels[t], label, place)
  <2>1. cat' = [cat EXCEPT !.pg_enum = [@ EXCEPT ![t] = more]] /\ labels' = [labels EXCEPT ![t] = list]
    BY <1>2 DEF AlterEnum
  <2>2. place.at # "rename" /\ ~ Crowded(rows, place)
    BY DEF AlterEnum, Gap, LabelsKept
  <2>3. t \in DOMAIN labels /\ InStep(rows, labels[t])
    BY DEF LabelsInv
  <2>4. InStep(more, list)
    BY <1>2, <2>2, <2>3, AddedInStep
  <2> HIDE DEF more, list
  <2>5. /\ IsCatalog(cat') /\ cat'.pg_enum = [cat.pg_enum EXCEPT ![t] = more]
        /\ cat'.pg_extension = cat.pg_extension
    BY <2>1 DEF LabelsInv, IsCatalog, Fields
  <2>6. ASSUME NEW u \in DOMAIN cat'.pg_enum
        PROVE  u \in DOMAIN labels' /\ InStep(cat'.pg_enum[u], labels'[u])
    <3>1. u \in DOMAIN cat.pg_enum
      BY <2>5
    <3>2. u \in DOMAIN labels /\ InStep(cat.pg_enum[u], labels[u])
      BY <3>1 DEF LabelsInv
    <3>3. CASE u = t
      BY <2>1, <2>3, <2>4, <2>5, <3>3
    <3>4. CASE u # t
      BY <2>1, <2>5, <3>1, <3>2, <3>4
    <3>5. QED
      BY <3>3, <3>4
  <2>7. QED
    BY <2>5, <2>6 DEF LabelsInv
<1>3. QED
  BY <1>1, <1>2

\* What a DROP takes of the enums, PostgreSQL takes of the labels.
LEMMA LabelsDropped ==
    ASSUME LabelsInv, NEW S, EnumsLeft(cat, cat'), S \cap DOMAIN cat'.pg_enum = {},
           labels' = Without(labels, S)
    PROVE  LabelsInv'
<1>1. ASSUME NEW t \in DOMAIN cat'.pg_enum
      PROVE  t \in DOMAIN labels' /\ InStep(cat'.pg_enum[t], labels'[t])
  <2>1. t \in DOMAIN cat.pg_enum /\ cat'.pg_enum[t] = cat.pg_enum[t] /\ t \notin S
    BY DEF EnumsLeft
  <2>2. t \in DOMAIN labels /\ InStep(cat.pg_enum[t], labels[t])
    BY <2>1 DEF LabelsInv
  <2>3. t \in DOMAIN labels' /\ labels'[t] = labels[t]
    BY <2>1, <2>2 DEF Without
  <2>4. QED
    BY <2>1, <2>2, <2>3
<1>2. QED
  BY <1>1 DEF LabelsInv, EnumsLeft

LEMMA DropTypeLabels ==
    ASSUME LabelsInv, NEW t, NEW cascade, DropType(t, cascade)
    PROVE  LabelsInv'
<1> DEFINE S == Both(cat, t)
           b == drop_columns(cat, S)
           d == drop_views(b, find_views_depending_on_type(cat, {t}))
<1>1. cat' = remove_dependencies(remove_pg_type(d, S), S) /\ labels' = Without(labels, S)
  BY DEF DropType, drop_type
<1>2. EnumsLeft(cat, b)
  BY RemoveColumns, ShrunkEnums DEF LabelsInv
<1> HIDE DEF b
<1>3. EnumsLeft(b, d)
  BY <1>2, DropViewsEnums DEF EnumsLeft
<1> HIDE DEF d, S
<1>4. EnumsLeft(d, cat') /\ S \cap DOMAIN cat'.pg_enum = {}
  BY <1>1, <1>3, RemoveEnums DEF EnumsLeft
<1>5. EnumsLeft(cat, cat')
  BY <1>2, <1>3, <1>4 DEF EnumsLeft
<1>6. QED
  BY <1>1, <1>4, <1>5, LabelsDropped

LEMMA DropSchemaLabels ==
    ASSUME LabelsInv, NEW s, NEW cascade, DropSchema(s, cascade)
    PROVE  LabelsInv'
<1> DEFINE S     == {t \in DOMAIN cat.pg_type : cat.pg_type[t].typnamespace = s}
           gone  == {r \in DOMAIN cat.pg_class : cat.pg_class[r].relnamespace = s}
           d     == drop_relations(cat, transitive_views(cat, gone))
           e     == remove_dependencies(remove_pg_type(d, S), S)
<1>1. cat' = [e EXCEPT !.pg_namespace = @ \ {s}] /\ labels' = Without(labels, S)
  BY DEF DropSchema
<1>2. EnumsLeft(cat, d)
  BY DropViewsEnums DEF LabelsInv
<1> HIDE DEF d, S
<1>3. EnumsLeft(d, e) /\ S \cap DOMAIN e.pg_enum = {}
  BY <1>2, RemoveEnums DEF EnumsLeft
<1> HIDE DEF e
<1>4. SameEnums(e, cat')
  BY <1>1, <1>3 DEF SameEnums, EnumsLeft, IsCatalog, Fields
<1>5. EnumsLeft(cat, cat') /\ S \cap DOMAIN cat'.pg_enum = {}
  BY <1>2, <1>3, <1>4 DEF EnumsLeft, SameEnums
<1>6. QED
  BY <1>1, <1>5, LabelsDropped

LEMMA ExtensionLabels ==
    ASSUME LabelsInv, NEW e, NEW target, NEW ns, NEW cascade,
           \/ e \in DOMAIN Registry /\ CreateExtension(e, target, ns)
           \/ e \in DOMAIN cat.pg_extension /\ AlterExtension(e, target)
           \/ e \in DOMAIN cat.pg_extension /\ DropExtension(e, cascade)
    PROVE  LabelsInv'
<1>1. CASE e \in DOMAIN Registry /\ CreateExtension(e, target, ns)
  <2> DEFINE script == Walk(e, "", target).script
             row    == [oid |-> cat.next_oid, schema |-> ns, version |-> target]
             b      == [cat EXCEPT !.pg_extension = With(@, e, row)]
             d      == alloc_oid(b, 1)
  <2>1. /\ cat' = record_extension_membership(d, apply_with_schema(d, script, ns), cat.next_oid)
        /\ labels' = labels
    BY <1>1 DEF CreateExtension
  <2>2. script \in Seq(Statement)
    BY <1>1, WalkScript
  <2> HIDE DEF script, row
  <2>3. /\ IsCatalog(d) /\ d.pg_enum = cat.pg_enum
        /\ d.pg_extension = With(cat.pg_extension, e, row)
    BY DEF LabelsInv, IsCatalog, Fields, alloc_oid
  <2> HIDE DEF d
  <2>4. SameEnums(d, cat')
    BY <2>1, <2>2, <2>3, ScriptSameEnums
  <2>5. DOMAIN cat'.pg_extension \subseteq DOMAIN Registry
    BY <1>1, <2>3, <2>4 DEF SameEnums, With, LabelsInv
  <2>6. QED
    BY <2>1, <2>3, <2>4, <2>5 DEF SameEnums, LabelsInv
<1>2. CASE e \in DOMAIN cat.pg_extension /\ AlterExtension(e, target)
  <2> DEFINE row    == cat.pg_extension[e]
             script == Walk(e, row.version, target).script
             d      == record_extension_membership(cat, apply_with_schema(cat, script, row.schema), row.oid)
  <2>1. cat' = [d EXCEPT !.pg_extension[e].version = target] /\ labels' = labels
    BY <1>2 DEF AlterExtension
  <2>2. script \in Seq(Statement)
    BY <1>2, WalkScript DEF LabelsInv
  <2> HIDE DEF script
  <2>3. SameEnums(cat, d)
    BY <2>2, ScriptSameEnums DEF LabelsInv
  <2> HIDE DEF d
  <2>4. IsCatalog(cat') /\ cat'.pg_enum = cat.pg_enum /\ DOMAIN cat'.pg_extension = DOMAIN cat.pg_extension
    BY <2>1, <2>3 DEF SameEnums, IsCatalog, Fields
  <2>5. QED
    BY <2>1, <2>4 DEF LabelsInv
<1>3. CASE e \in DOMAIN cat.pg_extension /\ DropExtension(e, cascade)
  <2> DEFINE ext   == cat.pg_extension[e].oid
             owned == extension_objects(cat, ext)
             b     == remove_pg_type(cat, owned)
             d     == remove_pg_cast(b, owned)
             f     == remove_dependencies(d, owned \cup {ext})
  <2>1. cat' = [f EXCEPT !.pg_extension = Without(@, {e})] /\ labels' = labels
    BY <1>3 DEF DropExtension
  <2> HIDE DEF owned, ext
  <2>2. EnumsLeft(cat, b)
    BY RemoveTypes, ShrunkEnums DEF LabelsInv
  <2> HIDE DEF b
  <2>3. SameEnums(b, d)
    BY <2>2 DEF EnumsLeft, SameEnums, IsCatalog, Fields, remove_pg_cast
  <2> HIDE DEF d
  <2>4. EnumsLeft(d, f)
    BY <2>3, RemoveRows, ShrunkEnums DEF SameEnums
  <2> HIDE DEF f
  <2>5. /\ IsCatalog(cat') /\ cat'.pg_enum = f.pg_enum
        /\ DOMAIN cat'.pg_extension \subseteq DOMAIN f.pg_extension
    BY <2>1, <2>4 DEF EnumsLeft, IsCatalog, Fields, Without
  <2>6. EnumsLeft(cat, cat')
    BY <2>2, <2>3, <2>4, <2>5 DEF EnumsLeft, SameEnums
  <2>7. QED
    BY <2>1, <2>6, LabelsStay
<1>4. QED
  BY <1>1, <1>2, <1>3

LEMMA CreateLabels ==
    ASSUME LabelsInv, NEW ns, NEW name, Create(ns, name)
    PROVE  LabelsInv'
<1>0. IsCatalog(cat)
  BY DEF LabelsInv
<1>1. ASSUME NEW base, CreateDomain(ns, name, base)
      PROVE  LabelsInv'
  BY <1>0, <1>1, DefineSameEnums, SameStay DEF CreateDomain
<1>2. ASSUME NEW list \in {<<>>} \cup {<<l>> : l \in Label}, CreateEnum(ns, name, list)
      PROVE  LabelsInv'
  BY <1>2, CreateEnumLabels
<1>3. \A kind, fields :
         LET d == install_relation(cat, ns, name, kind, fields)
         IN  SameEnums(cat, register_composite_to_record_cast(d, cat.next_oid + 1))
  <2>1. ASSUME NEW d, SameEnums(cat, d)
        PROVE  SameEnums(cat, register_composite_to_record_cast(d, cat.next_oid + 1))
    <3>1. SameEnums(d, alloc_oid(insert_pg_cast(d, d.next_oid, cat.next_oid + 1, Record), 1))
      BY <2>1, CastSameEnums DEF SameEnums
    <3>2. QED
      BY <2>1, <3>1 DEF SameEnums, register_composite_to_record_cast
  <2>2. QED
    BY <1>0, <2>1, InstallSameEnums
<1>4. ASSUME NEW fields, CreateComposite(ns, name, fields)
      PROVE  LabelsInv'
  BY <1>3, <1>4, SameStay DEF CreateComposite
<1>5. ASSUME NEW subtype, CreateRange(ns, name, subtype)
      PROVE  LabelsInv'
  <2> DEFINE d == define(cat, TypeRow(ns, name, "range"))
  <2>1. cat' = [d EXCEPT !.pg_range = With(@, cat.next_oid, subtype)] /\ labels' = labels
    BY <1>5 DEF CreateRange
  <2>2. SameEnums(cat, d)
    BY <1>0, DefineSameEnums
  <2> HIDE DEF d
  <2>3. SameEnums(cat, cat')
    BY <2>1, <2>2 DEF SameEnums, IsCatalog, Fields
  <2>4. QED
    BY <2>1, <2>3, SameStay
<1>6. ASSUME DefineType(ns, name)
      PROVE  LabelsInv'
  BY <1>0, <1>6, DefineTypeSameEnums, SameStay DEF DefineType
<1>7. ASSUME NEW columns, CreateTable(ns, name, columns)
      PROVE  LabelsInv'
  BY <1>3, <1>7, SameStay DEF CreateTable
<1>8. ASSUME CreateSequence(ns, name)
      PROVE  LabelsInv'
  <2>1. SameEnums(cat, cat') /\ labels' = labels
    BY <1>0, <1>8 DEF CreateSequence, SameEnums, IsCatalog, Fields, alloc_oid
  <2>2. QED
    BY <2>1, SameStay
<1>9. ASSUME NEW reads, NEW casts, CreateView(ns, name, reads, casts)
      PROVE  LabelsInv'
  BY <1>0, <1>9, ViewSameEnums, SameStay DEF CreateView
<1>10. QED
  BY <1>1, <1>2, <1>4, <1>5, <1>6, <1>7, <1>8, <1>9 DEF Create

LEMMA NextLabels ==
    ASSUME LabelsKept, LabelsInv, [Next]_vars
    PROVE  LabelsInv'
<1>0. IsCatalog(cat)
  BY DEF LabelsInv
<1>1. ASSUME NEW ns, NEW name, Create(ns, name)
      PROVE  LabelsInv'
  BY <1>1, CreateLabels
<1>2. ASSUME NEW source, NEW binary, CreateCast(source, Int4, binary)
      PROVE  LabelsInv'
  BY <1>0, <1>2, CastSameEnums, SameStay DEF CreateCast
<1>3. ASSUME NEW t \in DOMAIN cat.pg_enum, NEW label \in Label, NEW if_not_exists,
             NEW place \in Places(labels[t]), AlterEnum(t, label, place, if_not_exists)
      PROVE  LabelsInv'
  BY <1>3, AlterEnumLabels
<1>4. ASSUME NEW t, NEW name, NEW ns, RenameType(t, name) \/ SetTypeSchema(t, ns)
      PROVE  LabelsInv'
  <2>1. ASSUME NEW n, NEW new, MoveType(t, n, new)
        PROVE  LabelsInv'
    BY <1>0, <2>1, RenameSameEnums, SameStay DEF MoveType
  <2>2. QED
    BY <1>4, <2>1 DEF RenameType, SetTypeSchema
<1>5. ASSUME NEW r, NEW name, NEW ns, RenameRelation(r, name) \/ SetRelationSchema(r, ns)
      PROVE  LabelsInv'
  <2>1. ASSUME NEW n, NEW new, MoveRelation(r, n, new)
        PROVE  LabelsInv'
    BY <1>0, <2>1, RenameSameEnums, SameStay DEF MoveRelation
  <2>2. QED
    BY <1>5, <2>1 DEF RenameRelation, SetRelationSchema
<1>6. ASSUME NEW t, NEW cascade, DropType(t, cascade)
      PROVE  LabelsInv'
  BY <1>6, DropTypeLabels
<1>7. ASSUME NEW r, NEW cascade, DropRelation(r, cascade)
      PROVE  LabelsInv'
  BY <1>0, <1>7, DropViewsEnums, LabelsStay DEF DropRelation
<1>8. ASSUME NEW s, CreateSchema(s)
      PROVE  LabelsInv'
  <2>1. SameEnums(cat, cat') /\ labels' = labels
    BY <1>0, <1>8 DEF CreateSchema, SameEnums, IsCatalog, Fields
  <2>2. QED
    BY <2>1, SameStay
<1>9. ASSUME NEW s, NEW cascade, DropSchema(s, cascade)
      PROVE  LabelsInv'
  BY <1>9, DropSchemaLabels
<1>10. ASSUME NEW e \in DOMAIN Registry, NEW target, NEW ns, CreateExtension(e, target, ns)
       PROVE  LabelsInv'
  BY <1>10, ExtensionLabels
<1>11. ASSUME NEW e \in DOMAIN cat.pg_extension, NEW target, AlterExtension(e, target)
       PROVE  LabelsInv'
  BY <1>11, ExtensionLabels
<1>12. ASSUME NEW e \in DOMAIN cat.pg_extension, NEW cascade, DropExtension(e, cascade)
       PROVE  LabelsInv'
  BY <1>12, ExtensionLabels
<1>13. ASSUME UNCHANGED vars
       PROVE  LabelsInv'
  BY <1>13 DEF vars, LabelsInv
<1>14. QED
  BY <1>1, <1>2, <1>3, <1>4, <1>5, <1>6, <1>7, <1>8, <1>9, <1>10, <1>11, <1>12, <1>13 DEF Next

\* The rows of pg_enum list the labels of each enum in the order of PostgreSQL,
\* for any number of labels and of ADD VALUE statements, while no two
\* neighbours run out of f32 between them and no label is renamed.
THEOREM LabelsInOrder == LabelsKept /\ Spec => []LabelsAgree
<1>0. SUFFICES ASSUME LabelsKept PROVE Spec => []LabelsAgree
  OBVIOUS
<1>1. Init => LabelsInv
  <2>1. ASSUME Init
        PROVE  LabelsInv
    <3>1. IsCatalog(cat) /\ cat.pg_enum = <<>> /\ cat.pg_extension = <<>>
      BY <2>1 DEF Init, Seed, IsCatalog, Fields
    <3>2. DOMAIN cat.pg_enum = {} /\ DOMAIN cat.pg_extension = {}
      BY <3>1
    <3>3. QED
      BY <3>1, <3>2 DEF LabelsInv
  <2>2. QED
    BY <2>1
<1>2. LabelsInv /\ [Next]_vars => LabelsInv'
  BY <1>0, NextLabels
<1>3. LabelsInv => LabelsAgree
  <2>1. ASSUME NEW rows, NEW list, InStep(rows, list)
        PROVE  [i \in DOMAIN rows |-> rows[i].label] = list
    <3>1. DOMAIN rows = 1..Len(rows) /\ DOMAIN list = 1..Len(rows)
      BY <2>1, InStepRows
    <3>2. \A i \in DOMAIN rows : rows[i].label = list[i]
      BY <2>1, <3>1 DEF InStep
    <3>3. list \in Seq(Label)
      BY <2>1 DEF InStep
    <3>4. list = [i \in DOMAIN list |-> list[i]]
      BY <3>3
    <3>5. QED
      BY <3>1, <3>2, <3>4
  <2>2. QED
    BY <2>1 DEF LabelsInv, LabelsAgree
<1>4. QED
  BY <1>0, <1>1, <1>2, <1>3, PTL DEF Spec
=============================================================================
