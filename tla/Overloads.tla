----------------------------- MODULE Overloads -----------------------------
(***************************************************************************)
(* One function name and one operator name of the catalog: the overloads   *)
(* that CREATE, ALTER and DROP statements leave under them, the casts and  *)
(* the views beside them, and the overload the analyzer resolves a call    *)
(* to.  The functions resolve_function and find_operator_detailed are here *)
(* as operators on the current catalog, step by step; what PostgreSQL      *)
(* chooses from the same catalog is stated next to them, so that the two   *)
(* can be compared for every argument list.                                *)
(***************************************************************************)
EXTENDS Naturals, Sequences, FiniteSets, SequencesExt, FiniteSetsExt, Functions

CONSTANTS Types,         \* pg_type: name -> [kind, cat, preferred, base, elem]
          Path,          \* the schemas looked through, pg_catalog first
          BuiltinCasts,  \* the seed's pg_cast: <<source, target>> -> context
          Seeds,         \* the seed's overloads: [procs, operators, spent] each,
                         \* spent being statements a rich seed leaves no room for
          Signatures,    \* the argument lists DDL statements write
          Results,       \* the result and state types they write
          NewCasts,      \* the pairs CREATE CAST is tried on
          Calls,         \* the argument lists calls are made with
          Viewed,        \* those of them views are made of
          MaxStatements  \* bound: DDL statements executed

\* Implicit casts across categories are left out: the analyzer's rules differ
\* from PostgreSQL's once text casts to a number, or a number to text.
ASSUME CastsWithinCategories ==
    \A pair \in DOMAIN BuiltinCasts \cup NewCasts : Types[pair[1]].cat = Types[pair[2]].cat

None    == "none"
Unknown == "unknown"
Text    == "text"

VARIABLES
    procs,      \* pg_proc rows of the name, in the order they were inserted
    operators,  \* pg_operator rows of the name, likewise
    casts,      \* pg_cast by pair
    views,      \* views over one call: [call, dep], dep an oid
    executed    \* number of statements executed

vars == <<procs, operators, casts, views, executed>>

Cat(t)      == Types[t].cat
IsPref(t)   == Types[t].preferred
Or(a, b)    == IF a # None THEN a ELSE b
FirstOr(s, default) == IF s = <<>> THEN default ELSE s[1]
Keep(S, T)          == IF T = {} THEN S ELSE T
Unwrap[t \in DOMAIN Types] == IF Types[t].base = None THEN t ELSE Unwrap[Types[t].base]
UnwrapAll(types) == [i \in DOMAIN types |-> Unwrap[types[i]]]
Unknowns(types)  == {i \in DOMAIN types : types[i] = Unknown}

Listed(rows) ==
    FlattenSeq([k \in DOMAIN Path |-> SelectSeq(rows, LAMBDA r : r.schema = Path[k])])

\* Those of S with the highest score.
Best(S, Score(_)) == {x \in S : \A y \in S : Score(y) <= Score(x)}
Hits(n, Hit(_))   == Cardinality({i \in 1..n : Hit(i)})

\* Mutant: an assignment cast counts as well.
ImplicitCast_any(s, t) == s = t \/ <<s, t>> \in DOMAIN casts

ImplicitCast(s, t) ==
    s = t \/ (<<s, t>> \in DOMAIN casts /\ casts[<<s, t>>] = "implicit")

CastsImplicitly(s, t) ==
    \/ ImplicitCast(s, t)
    \/ /\ Cat(s) = "array" /\ Cat(t) = "array"
       /\ Types[s].elem # None /\ Types[t].elem # None
       /\ ImplicitCast(Types[s].elem, Types[t].elem)

PreferredFor(declared, actual) ==
    declared # actual /\ IsPref(declared) /\ Cat(declared) = Cat(actual)

-----------------------------------------------------------------------------
(* Polymorphic pseudo-types (the range families are left out).             *)

Strict      == {"anyelement", "anynonarray", "anyenum", "anyarray"}
ArrayLike   == {"anyarray", "anycompatiblearray"}
Polymorphic == Strict \cup {"anycompatible", "anycompatiblearray"}
IsPoly(row) == \E i \in DOMAIN row.args : row.args[i] \in Polymorphic

MatchesPolymorphic(p, t) ==
    \/ p \in {"anyelement", "anycompatible"}
    \/ p \in ArrayLike /\ Cat(t) = "array"
    \/ p = "anynonarray" /\ Cat(t) # "array"
    \/ p = "anyenum" /\ Types[t].kind = "enum"

Specificity(t) ==
    CASE t \in {"anyelement", "anycompatible"} -> 1
      [] t \in ArrayLike \cup {"anynonarray"}  -> 2
      [] t = "anyenum"                         -> 3
      [] OTHER                                 -> 10

ArrayOf(e) ==
    LET A == {t \in DOMAIN Types : Types[t].elem = e}
    IN  IF e = None \/ A = {} THEN None ELSE CHOOSE t \in A : TRUE

\* The first actual at an element or an array position decides.
Bind(declared, actuals) ==
    LET add(b, i) ==
            IF actuals[i] = Unknown \/ declared[i] \notin Polymorphic THEN b
            ELSE IF declared[i] \in ArrayLike
            THEN [array   |-> Or(b.array, actuals[i]),
                  element |-> IF Cat(actuals[i]) = "array"
                              THEN Or(b.element, Types[actuals[i]].elem) ELSE b.element]
            ELSE [b EXCEPT !.element = Or(@, actuals[i])]
        n == Min({Len(declared), Len(actuals)})
    IN  FoldLeft(add, [array |-> None, element |-> None], [i \in 1..n |-> i])

Substitute(t, b) ==
    IF t \notin Polymorphic THEN t
    ELSE IF t \in ArrayLike THEN Or(Or(b.array, ArrayOf(b.element)), t)
    ELSE Or(b.element, t)

Consistent(declared, actual, b) ==
    LET to == Substitute(declared, b)
    IN  \/ actual = Unknown \/ declared \notin Strict \/ to = actual
        \/ to # declared /\ ImplicitCast(actual, to)

Unifies(declared, actuals) ==
    \A i \in 1..Min({Len(declared), Len(actuals)}) :
        Consistent(declared[i], actuals[i], Bind(declared, actuals))

-----------------------------------------------------------------------------
(* Operator resolution.  A prefix operator has one argument.               *)

NotFound  == [tag |-> "none"]
Pass      == [tag |-> "pass"]      \* this step says nothing: go on to the next
Ambiguous == [tag |-> "ambiguous"]

Unless(step, rest) == IF step = Pass THEN rest ELSE step

Concretize(op, actuals) ==
    LET b == Bind(op.args, actuals)
    IN  IF Unifies(op.args, actuals)
        THEN [tag |-> "found", row |-> op,
              args |-> [i \in DOMAIN op.args |-> Substitute(op.args[i], b)],
              ret  |-> Substitute(op.ret, b)]
        ELSE NotFound

OperandOk(declared, actual, poly) ==
    IF poly /\ declared \in Polymorphic
    THEN MatchesPolymorphic(declared, actual)
    ELSE ImplicitCast(actual, declared)

OperandsOk(op, types, poly) ==
    /\ Len(op.args) = Len(types)
    /\ \A i \in DOMAIN types : OperandOk(op.args[i], types[i], poly)

Exactness(row, types)  == Hits(Len(types), LAMBDA i : row.args[i] = types[i])
Preference(row, types) == Hits(Len(types), LAMBDA i : PreferredFor(row.args[i], types[i]))

\* Mutant: no preferred-type tiebreak.
Narrow_exact(S, types) == Best(S, LAMBDA r : Exactness(r, types))

\* PG 10.2 steps 3c and 3d, shared with functions.
Narrow(S, types) ==
    LET exact == Best(S, LAMBDA r : Exactness(r, types))
    IN  Best(exact, LAMBDA r : Preference(r, types))

\* Mutant: of several survivors, one is taken.
Only_any(S, actuals) == IF S = {} THEN NotFound ELSE Concretize(CHOOSE op \in S : TRUE, actuals)

Only(S, actuals) ==
    CASE Cardinality(S) = 1 -> Concretize(CHOOSE op \in S : TRUE, actuals)
      [] S = {}             -> NotFound
      [] OTHER              -> Ambiguous

MostSpecific(S) ==
    LET top == Best(S, LAMBDA op : FoldLeft(LAMBDA n, t : n + Specificity(t), 0, op.args))
    IN  IF Cardinality(top) = 1 THEN top ELSE {}

HomogeneousProbe(cs, t, types) ==
    LET exact == SelectSeq(cs, LAMBDA op : op.args = <<t, t>>)
        poly  == {op \in Range(cs) : /\ Len(op.args) = 2 /\ IsPoly(op)
                                     /\ \A i \in 1..2 : IF op.args[i] \in Polymorphic
                                                        THEN MatchesPolymorphic(op.args[i], t)
                                                        ELSE op.args[i] = t}
    IN  IF exact # <<>> THEN Concretize(exact[1], types)
        ELSE IF MostSpecific(poly) = {} THEN Pass
        ELSE Only(MostSpecific(poly), <<t, t>>)

PreferByCategory(S, i) ==
    IF \A x, y \in S : Cat(x.args[i]) = Cat(y.args[i])
    THEN {x \in S : IsPref(x.args[i])} ELSE {}

UnknownNarrow(S, types) ==
    LET known(R, i) ==
            IF i \notin DOMAIN types \/ types[i] = Unknown THEN R
            ELSE Keep(R, {op \in R : op.args[i] = types[i]})
        exact == known(known(S, 1), 2)
        unknown(R, i) ==
            IF i \notin Unknowns(types) \/ Cardinality(R) <= 1 THEN R
            ELSE Keep(R, PreferByCategory(R, i))
    IN  unknown(unknown(exact, 1), 2)

\* Last, an unknown operand is taken for text.
TextFallback(S, types) ==
    LET asText == [i \in DOMAIN types |-> IF types[i] = Unknown THEN Text ELSE types[i]]
        exact  == {op \in S : op.args = asText}
        fit    == {op \in S : OperandsOk(op, asText, TRUE)}
        chosen == IF Cardinality(exact) = 1 THEN exact ELSE fit
    IN  IF Cardinality(chosen) = 1 THEN Only(chosen, asText) ELSE Ambiguous

UnknownStep(cs, types) ==
    LET t     == types[CHOOSE i \in DOMAIN types : i \notin Unknowns(types)]
        probe == IF Len(types) = 2 /\ Cardinality(Unknowns(types)) = 1
                 THEN HomogeneousProbe(cs, t, types) ELSE Pass
        fit   == {op \in Range(cs) :
                    /\ Len(op.args) = Len(types)
                    /\ \A i \in DOMAIN types :
                          types[i] = Unknown \/ OperandOk(op.args[i], types[i], TRUE)}
        left  == UnknownNarrow(fit, types)
    IN  IF Unknowns(types) = {} THEN NotFound
        ELSE Unless(probe, IF Cardinality(left) <= 1 THEN Only(left, types)
                           ELSE TextFallback(left, types))

FindOperator(written) ==
    LET cs    == Listed(operators)
        types == UnwrapAll(written)
        exact == SelectSeq(cs, LAMBDA op : op.args = types)
        cast  == {op \in Range(cs) : OperandsOk(op, types, FALSE)}
        poly  == IF Unknowns(types) # {} THEN {}
                 ELSE MostSpecific({op \in Range(cs) : IsPoly(op) /\ OperandsOk(op, types, TRUE)})
    IN  IF exact # <<>> THEN Concretize(exact[1], types)
        ELSE IF cast \cup poly # {}
        THEN Only(IF cast # {} THEN Narrow(cast, types) ELSE poly, types)
        ELSE UnknownStep(cs, types)

-----------------------------------------------------------------------------
(* Function resolution.                                                    *)

Resolved(f)          == [tag |-> "found", row |-> f, ret |-> f.ret]
ResolvedPoly(f, acts) == [tag |-> "found", row |-> f,
                          ret |-> Substitute(f.ret, Bind(f.args, acts))]
One(S) == IF Cardinality(S) = 1 THEN Resolved(CHOOSE f \in S : TRUE) ELSE Pass
OnePoly(S, acts) ==
    IF Cardinality(S) = 1 THEN ResolvedPoly(CHOOSE f \in S : TRUE, acts) ELSE Pass

\* Candidates of the call's arity every parameter of which accepts its argument.
Accepting(S, types, Ok(_, _)) ==
    {f \in S : /\ Len(f.args) = Len(types)
               /\ \A i \in DOMAIN types :
                     \/ f.args[i] = types[i] \/ types[i] = Unknown
                     \/ Ok(f.args[i], types[i])}

ExactMatch(cs, types) ==
    LET exact == SelectSeq(cs, LAMBDA f : f.args = types)
    IN  IF exact = <<>> THEN Pass ELSE Resolved(exact[1])

UnknownCompatible(S, types) ==
    IF Unknowns(types) = {} THEN Pass
    ELSE One(Accepting(S, types, LAMBDA p, a : FALSE))

DefaultArgs(S, types) ==
    LET n == Len(types)
    IN  One({f \in S : /\ n <= Len(f.args) /\ Len(f.args) <= n + f.defaults
                       /\ \A i \in 1..n : types[i] = Unknown \/ ImplicitCast(types[i], f.args[i])})

\* Unknown arguments: string candidates first, then one category per slot
\* and its preferred type, then the type all known arguments share.
UnknownMatch(S, types) ==
    LET U       == Unknowns(types)
        string  == {f \in S : \A i \in U : Cat(f.args[i]) = "string"}
        plain   == {f \in string : \A i \in U : IsPref(f.args[i])}
        step(R, i) ==
            IF R = {} \/ i \notin U THEN R
            ELSE IF \E x, y \in R : Cat(x.args[i]) # Cat(y.args[i]) THEN {}
            ELSE Keep(R, {f \in R : IsPref(f.args[i])})
        slots   == FoldLeft(step, S, [i \in DOMAIN types |-> i])
        known   == {types[i] : i \in DOMAIN types \ U}
        assumed == {f \in slots : \A i \in U : f.args[i] \in known}
        sure(R) == IF Cardinality(R) = 1 THEN One(R) ELSE Ambiguous
    IN  CASE Cardinality(string) = 1 -> One(string)
          [] Cardinality(string) > 1 -> sure(plain)
          [] string = {} /\ Cardinality(slots) = 1 -> One(slots)
          [] OTHER -> IF Cardinality(known) = 1 THEN sure(assumed) ELSE Ambiguous

CastMatch(S, types) ==
    LET M == Accepting(S, types, LAMBDA p, a : CastsImplicitly(a, p))
    IN  CASE Cardinality(M) <= 1 -> One(M)
          [] Cardinality(M) > 1 /\ Unknowns(types) = {} ->
                IF Cardinality(Narrow(M, types)) = 1 THEN One(Narrow(M, types)) ELSE Ambiguous
          [] OTHER -> UnknownMatch(M, types)

PolymorphicMatch(S, types) ==
    LET strict == {f \in Accepting(S, types, MatchesPolymorphic) : Unifies(f.args, types)}
        lax    == Accepting(S, types, LAMBDA p, a :
                     \/ MatchesPolymorphic(p, a)
                     \/ p \notin Polymorphic /\ CastsImplicitly(a, p))
    IN  OnePoly(Keep(lax, strict), types)

ParamAccepts(p, a) ==
    IF p = a \/ a = Unknown THEN TRUE
    ELSE IF p \in Polymorphic THEN MatchesPolymorphic(p, a)
    ELSE Types[p].kind = "pseudo" \/ CastsImplicitly(a, p)

ArgsFit(f, written) ==
    LET n     == Len(written)
        fixed == Len(f.args) - 1
    IN  IF f.variadic = None
        THEN Len(f.args) = n /\ \A i \in 1..n : ParamAccepts(f.args[i], written[i])
        ELSE /\ n >= IF f.variadic = "any" THEN fixed + 1 ELSE fixed
             /\ \A i \in 1..n :
                   ParamAccepts(IF i <= fixed THEN f.args[i] ELSE f.variadic, written[i])

\* What is left: the only aggregate, or the only overload, that could fit.
LastResort(S, written) ==
    LET aggs == {f \in S : f.kind = "aggregate"}
        fit  == {f \in S : ArgsFit(f, written)}
    IN  IF Cardinality(aggs) = 1 /\ aggs \subseteq fit THEN One(aggs) ELSE One(fit)

ResolveFunction(written) ==
    LET all   == Listed(procs)
        cs    == SelectSeq(all, LAMBDA f : f.kind # "procedure")
        S     == Range(cs)
        types == UnwrapAll(written)
        steps == <<ExactMatch(cs, types), UnknownCompatible(S, types), DefaultArgs(S, types),
                   CastMatch(S, types), PolymorphicMatch(S, types), LastResort(S, written)>>
    IN  FirstOr(SelectSeq(steps, LAMBDA r : r # Pass),
                IF cs = <<>> /\ all # <<>> THEN [tag |-> "procedure"] ELSE NotFound)

-----------------------------------------------------------------------------
(* The common type of CASE, COALESCE, UNION, ARRAY and VALUES.             *)

FindCommonType(types) ==
    LET known == UnwrapAll(SelectSeq(types, LAMBDA t : t # Unknown))
        step(p, n) ==
            IF p = None \/ Cat(n) # Cat(known[1]) THEN None
            ELSE IF ~IsPref(p) /\ ImplicitCast(p, n) /\ ~ImplicitCast(n, p) THEN n ELSE p
        top   == FoldLeft(step, known[1], known)
    IN  CASE types[1] # Unknown /\ Range(types) = {types[1]} -> types[1]
          [] known = <<>> -> Text
          [] OTHER -> IF top # None /\ \A i \in DOMAIN known : ImplicitCast(known[i], top)
                      THEN top ELSE None

-----------------------------------------------------------------------------
(* The DDL statements.                                                     *)

Init ==
    /\ \E seed \in Seeds : /\ procs = seed.procs /\ operators = seed.operators
                            /\ executed = seed.spent
    /\ casts = BuiltinCasts
    /\ views = {}

Execute == executed < MaxStatements /\ executed' = executed + 1
Oid     == executed + 1
Without(rows, oid) == SelectSeq(rows, LAMBDA r : r.oid # oid)

Proc(ns, kind, sig, ret) ==
    [oid |-> Oid, schema |-> ns, kind |-> kind, args |-> sig.args, ret |-> ret,
     variadic |-> sig.variadic, defaults |-> 0]

\* Functions, procedures and aggregates share one namespace.
Twins(ns, sig) == {f \in Range(procs) : f.schema = ns /\ f.args = sig.args}

\* CREATE [OR REPLACE] FUNCTION or PROCEDURE: a replaced row is removed and
\* inserted under a new oid.
CreateFunction(ns, kind, sig, ret, replace) ==
    /\ Execute
    /\ \A f \in Twins(ns, sig) : replace /\ f.kind = kind /\ f.ret = ret
    /\ procs' = Append(SelectSeq(procs, LAMBDA f : f \notin Twins(ns, sig)),
                       Proc(ns, kind, sig, ret))
    /\ UNCHANGED <<operators, casts, views>>

\* CREATE AGGREGATE: FINALFUNC is the first overload of its name, whatever
\* its parameters, and gives the aggregate its type.
DefineAggregate(ns, sig, state, finalfunc) ==
    /\ Execute
    /\ Twins(ns, sig) = {}
    /\ procs' = Append(procs, Proc(ns, "aggregate", sig,
                       IF finalfunc /\ procs # <<>> THEN Listed(procs)[1].ret ELSE state))
    /\ UNCHANGED <<operators, casts, views>>

\* The row DROP and ALTER find: the first along the path.
Target(kind, args) ==
    SelectSeq(Listed(procs), LAMBDA f : f.kind = kind /\ f.args = args)

\* DROP FUNCTION, PROCEDURE or AGGREGATE name (args) [CASCADE].
DropProc(kind, args, cascade) ==
    LET gone == Target(kind, args)[1]
    IN  /\ Target(kind, args) # <<>>
        /\ Execute
        /\ cascade \/ \A v \in views : v.dep # gone.oid
        /\ procs' = Without(procs, gone.oid)
        /\ views' = {v \in views : v.dep # gone.oid}
        /\ UNCHANGED <<operators, casts>>

\* ALTER FUNCTION ... SET SCHEMA: nothing looks for a twin there.
SetSchema(kind, args, ns) ==
    LET moved == Target(kind, args)[1]
    IN  /\ Target(kind, args) # <<>>
        /\ moved.schema # ns
        /\ Execute
        /\ procs' = Append(Without(procs, moved.oid), [moved EXCEPT !.schema = ns])
        /\ UNCHANGED <<operators, casts, views>>

\* CREATE OPERATOR: typed by the function with exactly its operands; without
\* one the statement does nothing.  An equal operator is no obstacle.
DefineOperator(ns, args) ==
    LET found == SelectSeq(Listed(procs), LAMBDA f : f.args = args)
    IN  /\ found # <<>>
        /\ Execute
        /\ operators' = Append(operators, [oid |-> Oid, schema |-> ns,
                                           args |-> args, ret |-> found[1].ret])
        /\ UNCHANGED <<procs, casts, views>>

DropOperator(args) ==
    LET found == SelectSeq(Listed(operators), LAMBDA op : op.args = args)
    IN  /\ found # <<>>
        /\ Execute
        /\ operators' = Without(operators, found[1].oid)
        /\ UNCHANGED <<procs, casts, views>>

\* CREATE CAST: a second cast of a pair takes the place of the first.
CreateCast(pair, context, binary) ==
    /\ Execute
    /\ binary => \A i \in 1..2 : Types[pair[i]].kind \notin {"domain", "enum"}
    /\ casts' = (pair :> context) @@ casts
    /\ UNCHANGED <<procs, operators, views>>

DropCast(pair) ==
    /\ pair \in DOMAIN casts
    /\ Execute
    /\ casts' = [p \in DOMAIN casts \ {pair} |-> casts[p]]
    /\ UNCHANGED <<procs, operators, views>>

\* A view over one call depends on the first overload of the name, whichever
\* the call resolves to.
CreateView(call) ==
    /\ ResolveFunction(call).tag = "found"
    /\ Execute
    /\ views' = views \cup {[call |-> call, dep |-> Listed(procs)[1].oid]}
    /\ UNCHANGED <<procs, operators, casts>>

Kinds == {"function", "procedure", "aggregate"}
Own   == Range(Path) \ {"pg_catalog"}

Next ==
    \/ \E ns \in Own, sig \in Signatures, ret \in Results :
          \/ \E kind \in Kinds \ {"aggregate"}, replace \in BOOLEAN :
                CreateFunction(ns, kind, sig, ret, replace)
          \/ \E finalfunc \in BOOLEAN : DefineAggregate(ns, sig, ret, finalfunc)
    \/ \E kind \in Kinds, sig \in Signatures :
          \/ \E cascade \in BOOLEAN : DropProc(kind, sig.args, cascade)
          \/ \E ns \in Own : SetSchema(kind, sig.args, ns)
    \/ \E sig \in Signatures :
          \/ \E ns \in Own : DefineOperator(ns, sig.args)
          \/ DropOperator(sig.args)
    \/ \E pair \in NewCasts :
          \/ \E context \in {"implicit", "assignment"}, binary \in BOOLEAN :
                CreateCast(pair, context, binary)
          \/ DropCast(pair)
    \/ \E call \in Viewed : CreateView(call)

Spec == Init /\ [][Next]_vars

-----------------------------------------------------------------------------
(* What PostgreSQL makes of the same catalog: func_get_detail, oper and    *)
(* func_select_candidate.  A candidate is a row with its declared types    *)
(* spread over the arguments of the call.                                  *)

PgPathway(s, t) ==
    LET a == Unwrap[s]
        b == Unwrap[t]
        implicit(x, y) == x = y \/ (<<x, y>> \in DOMAIN casts /\ casts[<<x, y>>] = "implicit")
    IN  \/ implicit(a, b)
        \/ Types[a].elem # None /\ Types[b].elem # None
           /\ implicit(Unwrap[Types[a].elem], Unwrap[Types[b].elem])

PgAccepts(eff, types) ==
    LET at(P)   == {i \in DOMAIN types : eff[i] \in P /\ types[i] # Unknown}
        elem(i) == IF eff[i] \in ArrayLike THEN Types[Unwrap[types[i]]].elem ELSE types[i]
        compat  == SetToSeq({elem(i) : i \in at({"anycompatible", "anycompatiblearray"})})
    IN  /\ \A i \in DOMAIN types :
              \/ types[i] = Unknown \/ eff[i] = "any"
              \/ eff[i] \in Polymorphic /\ MatchesPolymorphic(eff[i], Unwrap[types[i]])
              \/ eff[i] \notin Polymorphic /\ PgPathway(types[i], eff[i])
        /\ Cardinality({elem(i) : i \in at(Strict)}) <= 1
        /\ compat # <<>> => FindCommonType(compat) # None

PgKnownFirst(C, types) ==
    LET base        == UnwrapAll(types)
        known(i)    == types[i] # Unknown
        same(c, i)  == known(i) /\ c.eff[i] = base[i]
        good(c, i)  == same(c, i) \/ (known(i) /\ PreferredFor(c.eff[i], base[i]))
        n           == Len(types)
        exact       == Best(C, LAMBDA c : Hits(n, LAMBDA i : same(c, i)))
    IN  IF Cardinality(exact) = 1 THEN exact
        ELSE Best(exact, LAMBDA c : Hits(n, LAMBDA i : good(c, i)))

PgUnknownSlots(C, types) ==
    LET U       == Unknowns(types)
        cats(i) == {Cat(c.eff[i]) : c \in C}
        slot(i) == IF "string" \in cats(i) THEN "string" ELSE CHOOSE k \in cats(i) : TRUE
        pref(i) == \E c \in C : Cat(c.eff[i]) = slot(i) /\ IsPref(c.eff[i])
        kept    == {c \in C : \A i \in U : /\ Cat(c.eff[i]) = slot(i)
                                           /\ pref(i) => IsPref(c.eff[i])}
    IN  IF \E i \in U : Cardinality(cats(i)) > 1 /\ slot(i) # "string" THEN C
        ELSE Keep(C, kept)

\* Unknown arguments take the type that all known ones share.
PgAssumed(C, types) ==
    LET known == {Unwrap[types[i]] : i \in DOMAIN types \ Unknowns(types)}
    IN  IF Cardinality(C) = 1 THEN C
        ELSE IF Cardinality(known) # 1 THEN {}
        ELSE {c \in C : \A t \in known : PgAccepts(c.eff, [i \in DOMAIN types |-> t])}

PgSelect(C, types) ==
    LET first == PgKnownFirst(C, types)
    IN  IF Cardinality(first) = 1 THEN first
        ELSE IF Unknowns(types) = {} THEN {}
        ELSE PgAssumed(PgUnknownSlots(first, types), types)

PgFound(c) == [tag |-> "found", row |-> c.row]

\* Several candidates, or one.
PgSettle(C, types) ==
    IF Cardinality(C) = 1 THEN PgFound(CHOOSE c \in C : TRUE)
    ELSE LET chosen == PgSelect(C, types)
         IN  IF Cardinality(chosen) = 1 THEN PgFound(CHOOSE c \in chosen : TRUE) ELSE Ambiguous

PgChoice(cs, types, tries) ==
    LET exact == SelectSeq(cs, LAMBDA c : \E k \in DOMAIN tries : c.eff = tries[k])
        C     == {c \in Range(cs) : PgAccepts(c.eff, types)}
    IN  IF exact # <<>> THEN PgFound(exact[1])
        ELSE IF C = {} THEN NotFound ELSE PgSettle(C, types)

\* A row hides the later ones that read the same.
PgVisible(cs) ==
    LET new(seen, c) == IF \E d \in Range(seen) : d.eff = c.eff THEN seen ELSE Append(seen, c)
    IN  FoldLeft(new, <<>>, cs)

PgFunction(types) ==
    LET n       == Len(types)
        elem(f) == IF f.schema # "pg_catalog" THEN Types[f.variadic].elem ELSE f.variadic
        eff(f)  == IF f.variadic # None
                   THEN [i \in 1..n |-> IF i < Len(f.args) THEN f.args[i] ELSE elem(f)]
                   ELSE SubSeq(f.args, 1, n)
        fits(f) == IF f.variadic # None THEN n >= Len(f.args)
                   ELSE n <= Len(f.args) /\ Len(f.args) <= n + f.defaults
        rows    == SelectSeq(Listed(procs), fits)
        called(choice) == IF choice.tag = "found" /\ choice.row.kind = "procedure"
                          THEN [tag |-> "procedure"] ELSE choice
    IN  called(PgChoice(PgVisible([i \in DOMAIN rows |-> [row |-> rows[i], eff |-> eff(rows[i])]]),
                        types, <<types>>))

PgOperator(types) ==
    LET rows == SelectSeq(Listed(operators), LAMBDA op : Len(op.args) = Len(types))
        cs   == PgVisible([i \in DOMAIN rows |-> [row |-> rows[i], eff |-> rows[i].args]])
        t    == types[CHOOSE i \in DOMAIN types : types[i] # Unknown]
        tries == IF Len(types) = 2 /\ Cardinality(Unknowns(types)) = 1
                 THEN <<<<t, t>>, <<Unwrap[t], Unwrap[t]>>>> ELSE <<types>>
    IN  PgChoice(cs, types, tries)

-----------------------------------------------------------------------------
(* Properties.  Once an argument is unknown or a domain, rows that spread   *)
(* or match by shape follow rules of the analyzer's own: those calls are   *)
(* not judged.                                                             *)

Shaped(row) == \/ \E i \in DOMAIN row.args : Types[row.args[i]].kind = "pseudo"
               \/ "defaults" \in DOMAIN row /\ (row.defaults > 0 \/ row.variadic # None)

Settled(types) == \A i \in DOMAIN types : types[i] # Unknown /\ Types[types[i]].kind # "domain"
Judged(rows, types) == Settled(types) \/ \A r \in Range(rows) : ~Shaped(r)
Judging(rows)       == {types \in Calls : Judged(rows, types)}

Picks(a, b) == a.tag = "found" => b.tag = "found" /\ b.row = a.row

\* Two schemas of the path, or two CREATE OPERATORs, with one signature:
\* the analyzer counts both, PostgreSQL sees the first.
Alike(rows) == \E i, j \in DOMAIN rows : i # j /\ rows[i].args = rows[j].args

\* CREATE FUNCTION records a VARIADIC parameter under its array type.
UserVariadic(call) ==
    call.tag = "found" /\ call.row.variadic # None /\ call.row.schema # "pg_catalog"

SameFunction(pg, mine) ==
    \/ pg.tag = "found" /\ pg.row.defaults > 0
    \/ UserVariadic(pg) \/ UserVariadic(mine)
    \/ Alike(procs) /\ mine = Ambiguous
    \/ Picks(pg, mine)

\* A call PostgreSQL resolves is resolved to the same function, whatever DDL
\* ran before it (functions.rs, resolve_function).  Left out: a choice that
\* fills in defaults, which the analyzer tries only when it is the sole one;
\* VARIADIC functions of the schema; and names with two overloads alike, which
\* may be reported ambiguous.
FunctionsAgree ==
    \A types \in Judging(procs) : SameFunction(PgFunction(types), ResolveFunction(types))

\* The analyzer's steps for an unknown operand have no preferred-type rule
\* for the operand beside it.
Coerced(op, types) == Unknowns(types) # {} /\ Exactness(op, UnwrapAll(types)) = 0

SameOperator(types, pg, mine) ==
    /\ \/ Picks(pg, mine)
       \/ mine = Ambiguous /\ (Alike(operators) \/ Coerced(pg.row, types))
    /\ \/ Picks(mine, pg)
       \/ IsPoly(mine.row) /\ ~PgAccepts(mine.row.args, types)

\* The analyzer and PostgreSQL resolve an operator to the same row or both
\* refuse it (lookup.rs, find_operator_detailed).  Left out: names with two
\* operators alike, anyelement operands that differ by an implicit cast, and
\* an unknown operand beside one that needs a cast.
OperatorsAgree ==
    \A types \in Judging(operators) :
        SameOperator(types, PgOperator(types), FindOperator(types))

Pinned(types, args) == [i \in DOMAIN types |-> IF types[i] = Unknown THEN args[i] ELSE types[i]]

OperatorStays(types, op) ==
    op.tag = "found" /\ Range(op.args) \cap Polymorphic = {}
        => \/ Picks(op, PgOperator(Pinned(types, op.args)))
           \/ IsPoly(op.row) /\ ~PgAccepts(op.row.args, Pinned(types, op.args))

FunctionStays(fn, pinned) == pinned.tag = "found" => pinned.row = fn.row \/ UserVariadic(pinned)

\* A parameter takes the type of its slot in the resolved row
\* (expr/operators.rs, infer_generic_binary_op): with that type declared,
\* PostgreSQL resolves the operator to the same row, and a function to no
\* other one.
PinStable ==
    \A types \in {t \in Calls : Unknowns(t) # {}} :
        LET pinned(fn) ==
                fn.tag = "found" /\ ~Shaped(fn.row) /\ Len(fn.row.args) = Len(types)
                    => FunctionStays(fn, PgFunction(Pinned(types, fn.row.args)))
        IN  OperatorStays(types, FindOperator(types)) /\ pinned(ResolveFunction(types))

\* "DROP of any of these without CASCADE must reject when a view is reachable
\* through these edges" (ddl/views.rs:431): a function that a view's call
\* resolves to is not dropped without CASCADE.
DropsRefused ==
    [][\A kind \in Kinds, sig \in Signatures, v \in views :
          DropProc(kind, sig.args, FALSE)
            => LET called == ResolveFunction(v.call)
               IN  called.tag = "found" => called.row # Target(kind, sig.args)[1]]_vars
=============================================================================
