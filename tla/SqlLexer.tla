------------------------------ MODULE SqlLexer ------------------------------
(***************************************************************************)
(* How the text of a sql! template is read: by lex (src/lexer.rs), which   *)
(* replaces each $name by a positional placeholder and takes each          *)
(* $..name { fields } out, and by PostgreSQL's own scanner, which reads    *)
(* what the program sends.  A text is a sequence of one-character strings, *)
(* and a position is an index in it (the code counts bytes).               *)
(***************************************************************************)
EXTENDS Integers, Sequences, SequencesExt, TLC

CONSTANTS Letter,  \* the ASCII letters that templates use
          Wide     \* letters outside ASCII

ASSUME SqlLexerAssumption ==
    Letter \cap Wide = {} /\ {"E", "T"} \subseteq Letter

Digit == {"1", "2", "3", "4", "5", "6", "7", "8", "9"}
Space == {" ", "\n"}

-----------------------------------------------------------------------------
(* Texts. *)

CharAt(sql, i)      == IF i <= Len(sql) THEN sql[i] ELSE ""
StartsAt(sql, i, p) ==
    CharAt(sql, i) = p[1] /\ i + Len(p) - 1 <= Len(sql) /\ SubSeq(sql, i, i + Len(p) - 1) = p

\* The first position from i on that holds no character of C.
RECURSIVE PastAll(_, _, _)
PastAll(sql, i, C) == IF i <= Len(sql) /\ sql[i] \in C THEN PastAll(sql, i + 1, C) ELSE i

IdentStart == Letter \cup {"_"}
IdentChar  == IdentStart \cup Digit

\* read_ident: the position after the identifier that starts at i.
ReadIdent(sql, i) == PastAll(sql, i, IdentChar)

-----------------------------------------------------------------------------
(* lex: a step per iteration of its loop.  A lexer l is the position it    *)
(* reads, its state, and what it has produced.                             *)

Normal           == [kind |-> "normal"]
StringLiteral(e) == [kind |-> "string", escape |-> e]
DollarQuote(tag) == [kind |-> "dollar", tag |-> tag]
LineComment      == [kind |-> "line"]
BlockComment(d)  == [kind |-> "block", depth |-> d]
QuotedIdentifier == [kind |-> "ident"]

LexStart == [i |-> 1, state |-> Normal, sql |-> <<>>, params |-> <<>>, spreads |-> <<>>]

\* n characters go to the output, and the state becomes st.
Copy(text, l, n, st) ==
    [l EXCEPT !.i = @ + n, !.state = st, !.sql = @ \o SubSeq(text, l.i, l.i + n - 1)]

\* $name, with the annotation that follows it: one number per name, and the
\* annotation of the first occurrence.
LexNamed(text, l) ==
    LET after    == ReadIdent(text, l.i + 1)
        name     == SubSeq(text, l.i + 1, after - 1)
        nullable == CASE CharAt(text, after) = "?" -> <<TRUE>>
                      [] CharAt(text, after) = "!" -> <<FALSE>>
                      [] OTHER                     -> <<>>
        known    == SelectInSeq(l.params, LAMBDA p : p.name = name)
        params   == IF known > 0 THEN l.params
                    ELSE Append(l.params, [name |-> name, nullable |-> nullable, sql_offsets |-> <<>>])
        index    == IF known > 0 THEN known ELSE Len(params)
        out      == l.sql \o <<"$", ToString(index)>>
    IN  [l EXCEPT !.i = after + Len(nullable), !.sql = out,
                  !.params = [params EXCEPT ![index].sql_offsets = Append(@, Len(out))]]

\* The fields of a spread from position i on: [fields, next].  Anything that
\* is neither a name nor the closing brace is skipped.
RECURSIVE SpreadFields(_, _, _)
SpreadFields(text, i, fields) ==
    LET at    == PastAll(text, i, Space)
        after == ReadIdent(text, at)
        null  == CharAt(text, after) = "?"
        next  == PastAll(text, IF null THEN after + 1 ELSE after, Space)
    IN  CASE at > Len(text)              -> [fields |-> fields, next |-> at]
          [] CharAt(text, at) = "}"      -> [fields |-> fields, next |-> at + 1]
          [] CharAt(text, at) \in IdentStart ->
               SpreadFields(text, IF CharAt(text, next) = "," THEN next + 1 ELSE next,
                            Append(fields, [name |-> SubSeq(text, at, after - 1), nullable |-> null]))
          [] OTHER                       -> SpreadFields(text, at + 1, fields)

\* $..name { fields }: nothing goes to the output.  fields is <<>> for a
\* spread written without them, else a sequence of that one list.
LexSpread(text, l) ==
    LET after == ReadIdent(text, l.i + 3)
        brace == PastAll(text, after, Space)
        read  == SpreadFields(text, brace + 1, <<>>)
        open  == CharAt(text, brace) = "{"
    IN  [l EXCEPT !.i = IF open THEN read.next ELSE after,
                  !.spreads = Append(@, [name   |-> SubSeq(text, l.i + 3, after - 1),
                                         fields |-> IF open THEN <<read.fields>> ELSE <<>>,
                                         offset |-> Len(l.sql)])]

LexDollar(text, l) ==
    LET after == ReadIdent(text, l.i + 1)
        named == CharAt(text, l.i + 1) \in IdentStart
    IN  CASE StartsAt(text, l.i, <<"$", ".", ".">>) /\ CharAt(text, l.i + 3) \in IdentStart ->
               LexSpread(text, l)
          [] StartsAt(text, l.i, <<"$", "$">>) -> Copy(text, l, 2, DollarQuote(<<>>))
          [] named /\ CharAt(text, after) = "$" ->
               Copy(text, l, after - l.i + 1, DollarQuote(SubSeq(text, l.i + 1, after - 1)))
          [] named /\ CharAt(text, after) # "$" -> LexNamed(text, l)
          [] OTHER -> Copy(text, l, 1, Normal)

\* E'...' is an escape string when the E is a token of its own.
LexNormal(text, l) ==
    LET c == text[l.i]
        escape == /\ l.i > 1 /\ text[l.i - 1] = "E"
                  /\ l.i < 3 \/ text[l.i - 2] \notin IdentChar
    IN  CASE c = "'"  -> Copy(text, l, 1, StringLiteral(escape))
          [] c = "\"" -> Copy(text, l, 1, QuotedIdentifier)
          [] StartsAt(text, l.i, <<"-", "-">>) -> Copy(text, l, 2, LineComment)
          [] StartsAt(text, l.i, <<"/", "*">>) -> Copy(text, l, 2, BlockComment(1))
          [] c = "$"  -> LexDollar(text, l)
          [] OTHER    -> Copy(text, l, 1, Normal)

LexString(text, l) ==
    CASE l.state.escape /\ text[l.i] = "\\" /\ l.i < Len(text) -> Copy(text, l, 2, l.state)
      [] StartsAt(text, l.i, <<"'", "'">>)                     -> Copy(text, l, 2, l.state)
      [] OTHER -> Copy(text, l, 1, IF text[l.i] = "'" THEN Normal ELSE l.state)

LexDollarQuote(text, l) ==
    LET close == <<"$">> \o l.state.tag \o <<"$">>
    IN  IF StartsAt(text, l.i, close) THEN Copy(text, l, Len(close), Normal)
        ELSE Copy(text, l, 1, l.state)

LexLineComment(text, l) == Copy(text, l, 1, IF text[l.i] = "\n" THEN Normal ELSE l.state)

LexBlockComment(text, l) ==
    LET d == l.state.depth
    IN  CASE StartsAt(text, l.i, <<"/", "*">>) -> Copy(text, l, 2, BlockComment(d + 1))
          [] StartsAt(text, l.i, <<"*", "/">>) ->
               Copy(text, l, 2, IF d = 1 THEN Normal ELSE BlockComment(d - 1))
          [] OTHER -> Copy(text, l, 1, l.state)

LexQuotedIdentifier(text, l) ==
    IF StartsAt(text, l.i, <<"\"", "\"">>) THEN Copy(text, l, 2, l.state)
    ELSE Copy(text, l, 1, IF text[l.i] = "\"" THEN Normal ELSE l.state)

LexStep(text, l) ==
    CASE l.state.kind = "normal" -> LexNormal(text, l)
      [] l.state.kind = "string" -> LexString(text, l)
      [] l.state.kind = "dollar" -> LexDollarQuote(text, l)
      [] l.state.kind = "line"   -> LexLineComment(text, l)
      [] l.state.kind = "block"  -> LexBlockComment(text, l)
      [] l.state.kind = "ident"  -> LexQuotedIdentifier(text, l)

RECURSIVE LexFrom(_, _)
LexFrom(text, l) == IF l.i > Len(text) THEN l ELSE LexFrom(text, LexStep(text, l))

\* The result of lex, and whether it is an error (an unclosed token).
Lex(text)        == LexFrom(text, LexStart)
LexFails(output) == output.state.kind \notin {"normal", "line"}

-----------------------------------------------------------------------------
(* PostgreSQL's scanner (scan.l), and the same scanner for the language of *)
(* templates, in which $name and $..name { fields } are tokens too.  A     *)
(* token is a tuple that starts with its kind.                             *)

Operator  == {"=", "!", "?", "-", "/", "*"}
WordStart == IdentStart \cup Wide
TagChar   == IdentChar \cup Wide
WordChar  == TagChar \cup {"$"}

\* The end of a string whose text starts at i, 0 when it has none.  A quote,
\* white space with a newline and a quote continue the same string.
RECURSIVE StringEnd(_, _, _)
StringEnd(sql, i, escape) ==
    LET next == PastAll(sql, i + 1, Space)
    IN  CASE i > Len(sql)                                   -> 0
          [] escape /\ sql[i] = "\\"                        -> StringEnd(sql, i + 2, escape)
          [] StartsAt(sql, i, <<"'", "'">>)                 -> StringEnd(sql, i + 2, escape)
          [] sql[i] = "'" /\ CharAt(sql, next) = "'"
                          /\ \E k \in i + 1 .. next - 1 : sql[k] = "\n" -> StringEnd(sql, next + 1, escape)
          [] sql[i] = "'" /\ ~StartsAt(sql, i, <<"'", "'">>) -> i + 1
          [] OTHER                                          -> StringEnd(sql, i + 1, escape)

RECURSIVE CommentEnd(_, _, _)
CommentEnd(sql, i, depth) ==
    CASE depth = 0                       -> i
      [] i > Len(sql) /\ depth > 0       -> 0
      [] StartsAt(sql, i, <<"/", "*">>)  -> CommentEnd(sql, i + 2, depth + 1)
      [] StartsAt(sql, i, <<"*", "/">>)  -> CommentEnd(sql, i + 2, depth - 1)
      [] OTHER                           -> CommentEnd(sql, i + 1, depth)

\* The end of what the delimiter opens at i closes, 0 when it does not.
Closing(sql, i, delimiter) ==
    LET ends == {j \in i .. Len(sql) : StartsAt(sql, j, delimiter)}
    IN  IF ends = {} THEN 0 ELSE (CHOOSE j \in ends : \A k \in ends : j <= k) + Len(delimiter)

\* An operator is the longest run of operator characters before a comment.
OperatorEnd(sql, i) ==
    CHOOSE j \in i + 1 .. PastAll(sql, i, Operator) :
        /\ \A k \in i + 1 .. j - 1 : ~StartsAt(sql, k, <<"-", "-">>) /\ ~StartsAt(sql, k, <<"/", "*">>)
        /\ \/ j = PastAll(sql, i, Operator)
           \/ StartsAt(sql, j, <<"-", "-">>) \/ StartsAt(sql, j, <<"/", "*">>)

Token(kind, sql, i, j) == <<kind, SubSeq(sql, i, j - 1)>>
Bad == <<"bad">>

\* A token that ends before j, or a bad one that takes the rest of the text.
Scanned(token, sql, j) == IF j = 0 THEN [token |-> Bad, next |-> Len(sql) + 1]
                          ELSE [token |-> token, next |-> j]

\* The list of a spread from i on: names with an optional ?, separated by commas.
RECURSIVE FieldList(_, _, _)
FieldList(sql, i, fields) ==
    LET at    == PastAll(sql, i, Space)
        after == PastAll(sql, at, IdentChar)
        null  == CharAt(sql, after) = "?"
        next  == PastAll(sql, IF null THEN after + 1 ELSE after, Space)
        list  == Append(fields, [name |-> SubSeq(sql, at, after - 1), nullable |-> null])
    IN  CASE CharAt(sql, at) \notin IdentStart -> [fields |-> <<>>, next |-> 0]
          [] CharAt(sql, at) \in IdentStart /\ CharAt(sql, next) = "}" -> [fields |-> list, next |-> next + 1]
          [] CharAt(sql, at) \in IdentStart /\ CharAt(sql, next) = "," -> FieldList(sql, next + 1, list)
          [] OTHER -> [fields |-> <<>>, next |-> 0]

\* The token of a template at a $ that starts a parameter.  ? and ! are an
\* annotation unless an operator goes on after them.
TemplateToken(sql, i) ==
    LET spread == CharAt(sql, i + 1) = "."
        from   == IF spread THEN i + 3 ELSE i + 1
        after  == PastAll(sql, from, IdentChar)
        name   == SubSeq(sql, from, after - 1)
        marked == CharAt(sql, after) \in {"?", "!"} /\ CharAt(sql, after + 1) \notin Operator
        brace  == PastAll(sql, after, Space)
        list   == FieldList(sql, brace + 1, <<>>)
    IN  CASE ~spread /\ marked  -> Scanned(<<"named", name, CharAt(sql, after)>>, sql, after + 1)
          [] ~spread /\ ~marked -> Scanned(<<"named", name, "">>, sql, after)
          [] spread /\ CharAt(sql, brace) = "{" -> Scanned(<<"spread", name, list.fields>>, sql, list.next)
          [] OTHER -> Scanned(Bad, sql, 0)

StartsParameter(sql, i) ==
    \/ CharAt(sql, i + 1) \in IdentStart
    \/ StartsAt(sql, i, <<"$", ".", ".">>) /\ CharAt(sql, i + 3) \in IdentStart

DollarToken(sql, i, template) ==
    LET tag   == PastAll(sql, i + 1, TagChar)
        delim == SubSeq(sql, i, tag)
        digit == PastAll(sql, i + 1, Digit)
    IN  CASE CharAt(sql, tag) = "$" /\ CharAt(sql, i + 1) \notin Digit ->
               Scanned(Token("quoted", sql, i, Closing(sql, tag + 1, delim)), sql, Closing(sql, tag + 1, delim))
          [] CharAt(sql, i + 1) \in Digit ->
               Scanned(<<"placeholder", CHOOSE n \in 1 .. 9 : ToString(n) = sql[i + 1]>>, sql,
                       IF digit = i + 2 /\ CharAt(sql, digit) \notin WordStart THEN digit ELSE 0)
          [] template /\ StartsParameter(sql, i) /\ CharAt(sql, tag) # "$" -> TemplateToken(sql, i)
          [] OTHER -> Scanned(Bad, sql, 0)

\* The token at i and the position after it; <<>> for white space and comments.
TokenAt(sql, i, template) ==
    LET c      == sql[i]
        escape == c = "E"
        quote  == IF escape THEN i + 1 ELSE i
        line   == PastAll(sql, i, {sql[k] : k \in i .. Len(sql)} \ {"\n"})
    IN  CASE c \in Space -> Scanned(<<>>, sql, i + 1)
          [] StartsAt(sql, i, <<"-", "-">>) -> Scanned(<<>>, sql, line)
          [] StartsAt(sql, i, <<"/", "*">>) -> Scanned(<<>>, sql, CommentEnd(sql, i + 2, 1))
          [] CharAt(sql, quote) = "'" ->
               Scanned(Token("quoted", sql, i, StringEnd(sql, quote + 1, escape)), sql,
                       StringEnd(sql, quote + 1, escape))
          [] c = "\"" -> Scanned(Token("quoted", sql, i, Closing(sql, i + 1, <<"\"">>)), sql,
                                 Closing(sql, i + 1, <<"\"">>))
          [] c \in WordStart /\ CharAt(sql, quote) # "'" ->
               Scanned(Token("word", sql, i, PastAll(sql, i, WordChar)), sql, PastAll(sql, i, WordChar))
          [] c \in Digit ->
               Scanned(Token("number", sql, i, PastAll(sql, i, Digit)), sql,
                       IF CharAt(sql, PastAll(sql, i, Digit)) \in WordStart THEN 0 ELSE PastAll(sql, i, Digit))
          [] c \in Operator /\ ~StartsAt(sql, i, <<"-", "-">>) /\ ~StartsAt(sql, i, <<"/", "*">>) ->
               Scanned(Token("operator", sql, i, OperatorEnd(sql, i)), sql, OperatorEnd(sql, i))
          [] c = "$" -> DollarToken(sql, i, template)
          [] StartsAt(sql, i, <<":", ":">>) -> Scanned(<<"cast">>, sql, i + 2)
          [] OTHER -> Scanned(<<"self", c>>, sql, i + 1)

RECURSIVE TokensFrom(_, _, _)
TokensFrom(sql, i, template) ==
    IF i > Len(sql) THEN <<>>
    ELSE LET s == TokenAt(sql, i, template)
         IN  (IF s.token = <<>> THEN <<>> ELSE <<s.token>>) \o TokensFrom(sql, s.next, template)

Tokens(sql)         == TokensFrom(sql, 1, FALSE)
TemplateTokens(sql) == TokensFrom(sql, 1, TRUE)
Scans(tokens)       == \A k \in DOMAIN tokens : tokens[k] # Bad
=============================================================================
