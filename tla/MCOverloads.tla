---------------------------- MODULE MCOverloads ----------------------------
(* Eight types and a few overloads for Overloads.                          *)
EXTENDS Overloads

T(kind, cat, pref, base, elem) ==
    [kind |-> kind, cat |-> cat, preferred |-> pref, base |-> base, elem |-> elem]
Base(cat, pref) == T("base", cat, pref, None, None)
Pseudo          == T("pseudo", "pseudo", FALSE, None, None)

FewTypes ==
    [int4     |-> Base("number", FALSE), int8 |-> Base("number", FALSE),
     float8   |-> Base("number", TRUE),
     text     |-> Base("string", TRUE),  varchar |-> Base("string", FALSE),
     ints     |-> T("base", "array", FALSE, None, "int4"),
     posint   |-> T("domain", "number", FALSE, "int4", None),
     unknown  |-> Pseudo, any |-> Pseudo, anyelement |-> Pseudo, anyarray |-> Pseudo,
     anynonarray |-> Pseudo, anycompatible |-> Pseudo, anycompatiblearray |-> Pseudo]

TwoSchemas == <<"pg_catalog", "public", "app">>

FewCasts ==
    <<"int4", "int8">> :> "implicit" @@ <<"int4", "float8">> :> "implicit" @@
    <<"int8", "float8">> :> "implicit" @@ <<"int8", "int4">> :> "assignment" @@
    <<"text", "varchar">> :> "implicit" @@ <<"varchar", "text">> :> "implicit"

Sig(args) == [args |-> args, variadic |-> None]

Fn(oid, args, ret, defaults, variadic) ==
    [oid |-> oid, schema |-> "pg_catalog", kind |-> "function", args |-> args, ret |-> ret,
     variadic |-> variadic, defaults |-> defaults]

BuiltinFns ==
    {Fn(101, <<"int4">>, "int4", 0, None), Fn(102, <<"float8">>, "float8", 0, None),
     Fn(103, <<"text">>, "text", 0, None), Fn(104, <<"anyelement">>, "anyelement", 0, None),
     Fn(105, <<"anyarray">>, "anyelement", 0, None),
     Fn(106, <<"int8", "int8">>, "int8", 0, None), Fn(107, <<"text", "int4">>, "text", 1, None),
     Fn(108, <<"text", "any">>, "text", 0, "any"),
     Fn(109, <<"anyarray", "anyelement">>, "anyarray", 0, None)}

Op(oid, args, ret) == [oid |-> oid, schema |-> "pg_catalog", args |-> args, ret |-> ret]

BuiltinOps ==
    {Op(201, <<"int4", "int4">>, "int4"), Op(202, <<"int8", "int8">>, "int8"),
     Op(203, <<"int4", "int8">>, "int8"), Op(204, <<"float8", "float8">>, "float8"),
     Op(205, <<"text", "text">>, "text"), Op(206, <<"anynonarray", "text">>, "text"),
     Op(207, <<"anyarray", "anyarray">>, "anyarray"),
     Op(208, <<"anyarray", "anyelement">>, "anyarray"),
     Op(209, <<"float8">>, "float8"), Op(210, <<"int4">>, "int4")}

UpTo(S, k) == {SetToSeq(U) : U \in {V \in SUBSET S : Cardinality(V) <= k}}
Fns(S, k, spent) == {[procs |-> p, operators |-> <<>>, spent |-> spent] : p \in UpTo(S, k)}
Ops(S, k, spent) == {[procs |-> <<>>, operators |-> o, spent |-> spent] : o \in UpTo(S, k)}
Among(rows, oids) == {r \in rows : r.oid \in oids}

\* Every two functions and every three operators with one statement, and one
\* of a few with two.
FewSeeds ==
    Fns(BuiltinFns, 2, 1) \cup Ops(BuiltinOps, 3, 1)
    \cup Fns(Among(BuiltinFns, {104, 107}), 1, 0)
    \cup Ops(Among(BuiltinOps, {203, 206}), 1, 0)
EmptySeed == {[procs |-> <<>>, operators |-> <<>>, spent |-> 0]}

Subjects == {"int4", "int8", "float8", "text", "varchar", "ints", "posint", "unknown"}
FewCalls == {<<t>> : t \in Subjects} \cup {<<s, t>> : s, t \in Subjects}

FewSigs     == {Sig(<<"int8">>), Sig(<<"varchar">>), Sig(<<"int4", "int8">>),
                [args |-> <<"ints">>, variadic |-> "ints"]}
FewResults  == {"text"}
FewNewCasts == {<<"int8", "int4">>}
ViewCalls   == {<<"int8">>, <<"varchar">>}
=============================================================================
