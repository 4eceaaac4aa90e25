----------------------------- MODULE MCQueries -----------------------------
(* Small relations for Queries: each has a column x, so that joins can     *)
(* merge it, and rows that make the difference between NOT NULL and not.   *)
EXTENDS Queries

Column(n, nn) == [name |-> n, notnull |-> nn]

Keyed    == [cols |-> <<Column("x", TRUE), Column("y", FALSE)>>, key |-> {"x"},
             rows |-> {<<1, 1>>, <<2, Null>>}]
Optional == [cols |-> <<Column("x", FALSE), Column("z", TRUE)>>, key |-> {},
             rows |-> {<<1, 1>>, <<Null, 2>>}]

TwoTables   == {Keyed, Optional}

E(n)            == [kind |-> "leaf", parts |-> <<n>>]
Row(m, n)       == [kind |-> "leaf", parts |-> <<m, n>>]
Rollup(a, b)    == [kind |-> "rollup", parts |-> <<a, b>>]
Cube(a, b)      == [kind |-> "cube", parts |-> <<a, b>>]
Sets(a, b)      == [kind |-> "sets", parts |-> <<a, b>>]
EmptySet        == [kind |-> "rollup", parts |-> <<>>]

GroupClauses ==
    {<<E("x")>>, <<E("x"), E("y")>>, <<Rollup(E("x"), E("y"))>>,
     <<Cube(E("x"), E("y"))>>, <<Sets(E("x"), E("y"))>>, <<Sets(E("x"), EmptySet)>>,
     <<E("y"), Sets(E("x"), EmptySet)>>, <<Sets(Row("x", "y"), E("x"))>>}

Lists == {{<<1, Null>>, <<2, 1>>}, {<<2>>, <<Null>>}}

\* Past a shape whose report is known to be wrong nothing more is claimed.
NoGapYet == gaps = {}

ThreeAliases == <<"a", "b", "c">>
=============================================================================
