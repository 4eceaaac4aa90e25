--------------------------- MODULE MCTypeObjects ---------------------------
(***************************************************************************)
(* TypeObjects on small instances.  The names, and the labels, are         *)
(* interchangeable.                                                        *)
(***************************************************************************)
EXTENDS TypeObjects

CONSTANTS x, y, z, k, l, m, o, n

Names == {<<x>>, <<y>>, <<z>>}
Members == {<<n>>, <<n, n>>}

Alike == Permutations({k, l, m, o}) \cup Permutations({x, y, z})

\* A shell and its definition, then a cast, then another type.
Contrib ==
    [ext |-> <<[version |-> "1.0", from |-> "",
                script |-> <<[op |-> "type", name |-> <<n>>], [op |-> "type", name |-> <<n>>]>>],
               [version |-> "1.1", from |-> "1.0",
                script |-> <<[op |-> "cast", name |-> <<n>>]>>],
               [version |-> "1.2", from |-> "1.1",
                script |-> <<[op |-> "type", name |-> <<n, n>>]>>]>>]

\* What statements declared and is there, and what was declared and is gone.
Alive == Cardinality((Declared(cat) \ Owned(cat)) \cup Relations(cat, {"table", "view", "sequence"}))
             + Cardinality(DOMAIN cat.pg_extension)
Gone  == Cardinality({r \in 4..(cat.next_oid - 1) :
             r \notin UNION {DOMAIN cat.pg_type, DOMAIN cat.pg_class, DOMAIN cat.pg_cast,
                              {cat.pg_extension[e].oid : e \in DOMAIN cat.pg_extension}}})

\* Histories that are continued: three objects with a view that
\* reads another, one cast, one that was dropped next to
\* at most one other, and an enum of two labels or more on its own.
Focus ==
    /\ Alive <= 3
    /\ Gone > 0 => Alive <= 1 /\ cat.next_oid <= 9
    /\ (\E t \in DOMAIN labels : Len(labels[t]) > 1) => Alive = 1 /\ Gone = 0
    /\ Alive = 3 => /\ \E v \in DOMAIN cat.pg_rewrite : cat.pg_rewrite[v].reads # {}
                    /\ Cardinality(Relations(cat, {"sequence", "composite"})) = 0
    /\ (\E q \in DOMAIN cat.pg_cast : cat.pg_cast[q][2] = Int4) => Alive <= 1

NoGaps == {}
=============================================================================
