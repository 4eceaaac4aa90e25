----------------------------- MODULE MCSqlMacro -----------------------------
(***************************************************************************)
(* The templates that TLC writes for SqlMacro: quotes, comments and        *)
(* dollar quotes around one parameter, and parameters and spreads next to  *)
(* what may be taken for a part of them.                                   *)
(***************************************************************************)
EXTENDS SqlMacro

Letters == {"E", "T", "f", "g", "q", "x", "y"}
WideLetters == {"u"}

QuotingFragments ==
    {<<"$", "x">>, <<"'">>, <<"E", "'">>, <<"\\", "'">>, <<"\"">>, <<"-", "-">>, <<"\n">>,
     <<"/", "*">>, <<"*", "/">>, <<"$", "$">>, <<"$", "q", "$">>}

ParameterFragments ==
    {<<"$", "x", "?">>, <<"$", "y", "!">>, <<"$", "1">>, <<"=">>, <<"!", "=">>, <<" ">>, <<";">>, <<"T">>,
     <<"T", "$", "x">>, <<" ", "=", "$", "x">>, <<"$", "u", "$", "$", "x", "$", "u", "$">>,
     <<"[", "1", "]">>, <<"$", ".", ".", "x", "{", "f", "}">>,
     <<"$", ".", ".", "y", " ", "{", "f", "?", ",", "g", "}">>, <<"$", ".", ".", "x", "{", "f">>}

CarrierFragments == {<<"T">>, <<"$", "x">>, <<"$", ".", ".", "x", "{", "f", "}">>}
AllFragments == QuotingFragments \cup ParameterFragments

Int4Range == RangeOf("int4range", Basic("int4"))
BaseTypes == {Basic("text"), Basic("int4"), Basic("jsonb"), Basic("json"), Basic("inet"), Enum("e"), Int4Range}

\* Some of pg_type_map, and of the types of tokio_postgres.
RustNames == [text |-> <<"String">>, int4 |-> <<"i32">>, jsonb |-> <<"Value">>, json |-> <<"Value">>,
              inet |-> <<"String">>]
WireTypes == LET known == {Basic(n) : n \in DOMAIN RustNames} \cup {Int4Range}
             IN known \cup {Array(t) : t \in known}

NoGaps == {}
=============================================================================
