------------------------------ MODULE RustTypes -----------------------------
(***************************************************************************)
(* The Rust types that generated code gives to PostgreSQL types            *)
(* (src/typedpg_macros/src/codegen.rs), how a value of each crosses the    *)
(* tokio_postgres boundary, and which values that boundary takes.          *)
(*                                                                         *)
(* A PostgreSQL type is a record with a kind; a Rust type is a tuple such  *)
(* as <<"Vec", <<"i32">>>>.  config is the set of names that [types] maps  *)
(* to a type of the user's.                                                *)
(***************************************************************************)
EXTENDS Integers, Sequences, FiniteSets, TLC

CONSTANTS BuiltinMap,  \* pg_type_map: the name of a basic type -> its Rust type
          BuiltinType  \* the types whose OID tokio_postgres knows

Basic(n)         == [kind |-> "basic", name |-> n]
Enum(n)          == [kind |-> "enum", name |-> n]
Domain(n, b)     == [kind |-> "domain", name |-> n, base |-> b]
Array(e)         == [kind |-> "array", element |-> e]
RangeOf(n, s)    == [kind |-> "range", name |-> n, subtype |-> s]
Composite(n, fs) == [kind |-> "composite", name |-> n, fields |-> fs]
Record(fs)       == [kind |-> "record", fields |-> fs]
Field(t, null)   == [type |-> t, nullable |-> null]

IsRecord(ty) == ty.kind \in {"composite", "record"}

-----------------------------------------------------------------------------
(* Walks over a type. *)

RECURSIVE Innermost(_)
Innermost(ty) == IF ty.kind = "domain" THEN Innermost(ty.base) ELSE ty

\* override_path: the first name on the way through the domains of ty that
\* config maps, in a set of at most one.
RECURSIVE OverridePath(_, _)
OverridePath(ty, config) ==
    CASE ty.kind = "domain" /\ ty.name \in config    -> {ty.name}
      [] ty.kind = "domain" /\ ty.name \notin config -> OverridePath(ty.base, config)
      [] ty.kind \in {"array", "record"}             -> {}
      [] OTHER                                       -> {ty.name} \cap config

\* RecordRegistry: every composite or record type that ty is, wraps or holds.
RECURSIVE Registered(_)
Registered(ty) ==
    CASE ty.kind = "domain" -> Registered(ty.base)
      [] ty.kind = "array"  -> Registered(ty.element)
      [] ty.kind = "range"  -> Registered(ty.subtype)
      [] IsRecord(ty)       -> {ty} \cup UNION {Registered(ty.fields[k].type) : k \in DOMAIN ty.fields}
      [] OTHER              -> {}

\* cast_name: a domain is cast to what it wraps, an array by its element.
RECURSIVE CastType(_)
CastType(ty) ==
    CASE ty.kind = "domain" -> CastType(ty.base)
      [] ty.kind = "array"  -> Array(CastType(ty.element))
      [] OTHER              -> ty

-----------------------------------------------------------------------------
(* resolve_type_mapping: the Rust type of ty and the strategy by which its *)
(* values cross.                                                           *)

User(path)  == <<"user", path>>
Vec(t)      == <<"Vec", t>>
Struct(ty)  == <<"struct", ty>>
Unmapped    == [strategy |-> "error"]
Mapped(s, t) == [strategy |-> s, rust |-> t]

\* record_raw_type: what a record value decodes into, overrides ignored.
RECURSIVE RawType(_)
RawType(ty) ==
    CASE IsRecord(ty)       -> Struct(ty)
      [] ty.kind = "domain" -> RawType(ty.base)
      [] ty.kind = "array"  -> Vec(RawType(ty.element))

\* record_site_type: what it is surfaced as.
RECURSIVE SiteType(_, _)
SiteType(ty, config) ==
    LET ovr == OverridePath(ty, config)  inner == Innermost(ty)
    IN  CASE ovr # {}                             -> User(CHOOSE n \in ovr : TRUE)
          [] ovr = {} /\ IsRecord(inner)          -> Struct(inner)
          [] ovr = {} /\ inner.kind = "array"     -> Vec(SiteType(inner.element, config))

\* record_needs_conversion and convert_record_to_site: the type of the value
\* that the generated expression makes of a decoded record.
RECURSIVE Converted(_, _)
Converted(ty, config) ==
    LET ovr == OverridePath(ty, config)
    IN  CASE ty.kind = "array"                        -> Vec(Converted(ty.element, config))
          [] ty.kind # "array" /\ ovr # {} /\ IsRecord(Innermost(ty)) -> User(CHOOSE n \in ovr : TRUE)
          [] OTHER                                    -> RawType(ty)

\* The strategy of an array, from its element's.
ArrayStrategy == [plain |-> "plain", jsonb |-> "vec_jsonb", enum |-> "vec_enum", record |-> "vec_record"]

RECURSIVE Mapping(_, _)
ArrayMapping(element, config) ==
    LET inner == Mapping(element, config)
    IN  IF inner.strategy \notin DOMAIN ArrayStrategy THEN Unmapped
        ELSE Mapped(ArrayStrategy[inner.strategy], Vec(inner.rust))

Mapping(ty, config) ==
    LET inner  == Innermost(ty)
        ovr    == OverridePath(ty, config)
        target == User(CHOOSE n \in ovr : TRUE)
    IN  CASE inner.kind = "array"  -> ArrayMapping(inner.element, config)
          [] IsRecord(inner)       -> Mapped("record", SiteType(ty, config))
          [] inner.kind = "enum"   -> Mapped("enum", IF ovr = {} THEN <<"String">> ELSE target)
          [] inner.kind = "basic" /\ ovr # {} ->
               Mapped(IF inner.name \in {"json", "jsonb"} THEN "jsonb" ELSE "plain", target)
          [] inner.kind = "basic" /\ ovr = {} ->
               IF inner.name \in DOMAIN BuiltinMap THEN Mapped("plain", BuiltinMap[inner.name]) ELSE Unmapped
          [] inner.kind = "range" /\ ovr # {} -> Mapped("plain", target)
          [] inner.kind = "range" /\ ovr = {} ->
               LET sub == Mapping(inner.subtype, config)
               IN  IF sub.strategy = "error" THEN Unmapped ELSE Mapped("plain", <<"Range", sub.rust>>)

\* Code is generated for a type when it and the fields of every struct that
\* emit_records declares for it are mapped.
Generates(ty, config) ==
    /\ Mapping(ty, config).strategy # "error"
    /\ \A r \in Registered(ty) : \A k \in DOMAIN r.fields :
          Mapping(r.fields[k].type, config).strategy # "error"

-----------------------------------------------------------------------------
(* Values on the wire. *)

\* decode_value: the type that is read, and the type of the value made of it.
ReadType(ty, config) ==
    LET m == Mapping(ty, config)
    IN  CASE m.strategy = "jsonb"                    -> <<"Value">>
          [] m.strategy = "enum"                     -> <<"EnumString">>
          [] m.strategy = "vec_jsonb"                -> Vec(<<"Value">>)
          [] m.strategy = "vec_enum"                 -> Vec(<<"EnumString">>)
          [] m.strategy \in {"record", "vec_record"} -> RawType(ty)
          [] m.strategy = "plain"                    -> m.rust

Produced(ty, config) ==
    IF Mapping(ty, config).strategy \in {"record", "vec_record"} THEN Converted(ty, config)
    ELSE Mapping(ty, config).rust

\* The PostgreSQL type that the field of a record is decoded as: the hint of
\* decode_value, else what its OID stands for (read_field).
FieldReadAs(ty, config) ==
    LET s == Mapping(ty, config).strategy
    IN  CASE s = "jsonb"     -> Basic(IF Innermost(ty).name = "json" THEN "json" ELSE "jsonb")
          [] s = "vec_jsonb" -> Array(Basic("jsonb"))
          [] OTHER           -> IF ty \in BuiltinType THEN ty ELSE Record(<<>>)

\* An enum is bound as its label, whose type says nothing of enums.
BoundAsText(ty, config, spread) ==
    IF Mapping(ty, config).strategy \in {"jsonb", "enum"} THEN <<"String">> ELSE Mapping(ty, config).rust

\* build_params_slice binds a parameter of a regular statement, push_param
\* those of a statement with spreads.
BoundType(ty, config, spread) ==
    LET m == Mapping(ty, config)
    IN  CASE m.strategy = "jsonb"     -> <<"Value">>
          [] m.strategy = "enum"      -> IF spread THEN <<"String">> ELSE <<"EnumString">>
          [] m.strategy = "vec_jsonb" -> Vec(<<"Value">>)
          [] m.strategy = "vec_enum"  -> Vec(<<"String">>)
          [] OTHER                    -> m.rust

\* reject_record_param.
Binds(ty, config) == Mapping(ty, config).strategy \notin {"error", "record", "vec_record"}

-----------------------------------------------------------------------------
(* tokio_postgres and PostgreSQL. *)

\* The row description names what a domain wraps.
ColumnType(ty) == Innermost(ty)

\* record_accepts.
RecordAccepts(pg) == IsRecord(Innermost(pg))

\* accepts: whether a value of Rust type t is encoded to and decoded from pg.
\* A type of the user's takes what it is mapped to.
RECURSIVE Accepts(_, _)
Accepts(t, pg) ==
    CASE t[1] = "String"     -> pg = Basic("text")
      [] t[1] = "i32"        -> pg = Basic("int4")
      [] t[1] = "Value"      -> pg \in {Basic("json"), Basic("jsonb")}
      [] t[1] = "EnumString" -> pg.kind = "enum"
      [] t[1] = "Vec"        -> pg.kind = "array" /\ Accepts(t[2], pg.element)
      [] t[1] = "Range"      -> pg.kind = "range" /\ pg \in BuiltinType /\ Accepts(t[2], pg.subtype)
      [] t[1] = "struct"     -> RecordAccepts(pg)
      [] t[1] = "user"       -> TRUE

\* The field of a record, whose type is ty, is decoded as t from the bytes of
\* type as: nothing asks what t accepts, but an array must be known as one,
\* and jsonb, which starts with a version, as jsonb.
RECURSIVE FieldDecodes(_, _, _)
FieldDecodes(t, as, ty) ==
    LET real == Innermost(ty)
    IN  CASE t[1] = "Vec"   -> as.kind = "array" /\ FieldDecodes(t[2], as.element, real.element)
          [] t[1] = "Range" -> as.kind = "range"
          [] t[1] = "Value" -> (as = Basic("jsonb")) <=> (real = Basic("jsonb"))
          [] OTHER          -> TRUE

\* A column of type ty is read into the type its struct declares.
Decodes(ty, config) ==
    /\ Accepts(ReadType(ty, config), ColumnType(ty))
    /\ Produced(ty, config) = Mapping(ty, config).rust
    /\ \A r \in Registered(ty) : \A k \in DOMAIN r.fields :
          LET f == r.fields[k].type
          IN  /\ FieldDecodes(ReadType(f, config), FieldReadAs(f, config), f)
              /\ Produced(f, config) = Mapping(f, config).rust
=============================================================================
