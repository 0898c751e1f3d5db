----------------------------- MODULE MCFrontEnd -----------------------------
(***************************************************************************)
(* Sources for the tokenizer and the parser: short texts of all kinds of   *)
(* characters, short rows of tokens, and the spellings of trees in which   *)
(* every construct stands inside every other.                              *)
(***************************************************************************)
EXTENDS Parser, Spelling

\* The trees that the source spells, if it is known, and the tokens that it
\* was respelled from, if any.
VARIABLES intended, respelled

mcVars == <<frontVars, intended, respelled>>

Rows(words, most) == UNION {[1..n -> words] : n \in 0..most}

Chars == {"a", "_", "0", "1", "9", ".", "e", "x", "\"", "'", "\\", "/", "*", "<", "=", ":",
          "$", "@", "\n", " ", "#", ";", "?", "\t"}

\* Those that begin or continue a token of more than two.
Munching == {"a", "0", "1", ".", "e", "x", "\"", "'", "\\", "/", "*", "<", "=", "\n", " "}

RECURSIVE Strings(_, _)
Strings(chars, n) == IF n = 0 THEN {""} ELSE {s \o c : s \in Strings(chars, n - 1), c \in chars}

CharSoup ==
    Strings(Chars, 2) \cup Strings(Munching, 3) \cup
    {"x/*" \o a \o b \o c \o "*/y" : a, b, c \in {"/", "*", "\n", "x", "\""}} \cup
    {"\"" \o a \o b \o c \o "\"" : a, b, c \in {"\\", "\"", "x", "0", "1", "\n"}}

TokenSoup ==
    {"v := " \o Written(row) : row \in Rows({"x", "(", ")", "[", "]", "{", "}", ",", "-", "..", "."}, 3)}
    \cup {"m :: fn() { if " \o Written(row) \o " { } }" : row \in Rows({"x", "(", ")", "{", "}", "1"}, 3)}
    \cup {"S :: struct { a : i32" \o Written(row) \o "}" : row \in Rows({"\n", ",", "b", ": i32", "where T : U"}, 3)}
    \cup {"v := " \o Written(row) : row \in Rows({"x", "(", ")", "-"}, 5)}
    \cup {"v := x(" \o Written(row) \o ") { }" : row \in Rows({"x", "1", "-", ",", "y(", ") {", "}"}, 3)}
    \cup {"f :: fn() where T : U " \o Written(row) \o "{ }" : row \in Rows({"V", ",", "\n", "(", ")", ":"}, 3)}
    \cup {"m :: fn() { match x { case 1" \o Written(row) \o "} }" : row \in Rows({":", ",", "..", "x", "\n", "else"}, 3)}
    \cup {"f :: fn(" \o Written(row) \o "{ }" : row \in Rows({"x", ":", "..", "\n", ",", "i32", ")"}, 3)}

\* Expressions around the nesting limit.
RECURSIVE Nested(_, _, _)
Nested(open, close, n) == IF n = 0 THEN "x" ELSE open \o Nested(open, close, n - 1) \o close

DeepSources ==
    {"v := " \o Nested(pair[1], pair[2], n) :
        pair \in {<<"(", ")">>, <<"-", "">>, <<"[1,", "]">>, <<"f(", ")">>, <<"a[", "..]">>,
                  <<"if x { 1 } else { ", " }">>},
        n \in (MaxNesting \div 2 - 2)..(MaxNesting \div 2 + 1)}
    \cup {"m :: fn() " \o Nested("{", "}", MaxNesting - 1), "m :: fn() " \o Nested("{", "}", MaxNesting)}

----------------------------------------------------------------------------
(* Trees. *)

X == Node("name", <<"x">>, <<>>)
One == Node("literal", <<"1">>, <<>>)
I32 == Node("primitive", <<"i32">>, <<>>)
TT == Node("named_type", <<"T">>, <<>>)
L(items) == Node("list", <<>>, items)
Bin(op, a, b) == Node("binary", <<op>>, <<a, b>>)
Blk(s) == Node("block", <<>>, s)
Empty == Blk(<<>>)
Expr(e) == Node("expr", <<>>, <<e>>)
InitOf(text, e) == Node("init", text, <<e>>)
Case(p, body) == Node("case", <<>>, <<Node("patterns", <<>>, p), body>>)
Else_(body) == Node("else", <<>>, <<body>>)
Var(e) == Node("var", <<"v">>, <<e>>)
Main(body) == Node("function", <<"main">>, <<L(<<>>), Absent, Absent, Blk(body)>>)

\* Every kind of expression.
Inner ==
    {X, One, Bin("*", X, One), Bin("or", X, One), Node("unary", <<"-">>, <<X>>),
     Node("call", <<>>, <<X, L(<<One>>)>>), Node("index", <<>>, <<X, One>>),
     Node("slice", <<>>, <<X, One, Absent>>), Node("access", <<"f">>, <<X>>),
     Node("struct_init", <<"V">>, <<L(<<InitOf(<<>>, X)>>)>>),
     Node("struct_init", <<"m", "V">>, <<L(<<>>)>>),
     Node("generic_init", <<"V">>, <<L(<<I32>>), L(<<InitOf(<<"a">>, One)>>)>>),
     Node("generic_init", <<"m", "V">>, <<L(<<TT, I32>>), L(<<>>)>>),
     Node("inline_init", <<>>, <<Node("struct_type", <<>>, <<L(<<Node("field", <<"a">>, <<I32>>)>>)>>),
                                 L(<<InitOf(<<"a">>, One)>>)>>),
     Node("if_expr", <<>>, <<X, One, X>>),
     Node("match_expr", <<>>, <<X, Case(<<Node("literal_pattern", <<"1">>, <<>>)>>, One), Else_(X)>>),
     Node("array", <<>>, <<L(<<One, X>>)>>), Node("new", <<>>, <<TT>>),
     Node("cast", <<"cast">>, <<I32, X>>), Node("intrinsic", <<"@size_of">>, <<L(<<I32>>)>>)}

\* Every place of an expression in an expression.
Within(e) ==
    {Bin(op, e, X) : op \in {"*", "-", "==", "or"}} \cup {Bin(op, X, e) : op \in {"*", "-", "==", "or"}} \cup
    {Node("unary", <<op>>, <<e>>) : op \in {"-", "not"}} \cup
    {Node("call", <<>>, <<X, L(<<e, One>>)>>), Node("index", <<>>, <<e, One>>), Node("index", <<>>, <<X, e>>),
     Node("slice", <<>>, <<X, e, Absent>>), Node("slice", <<>>, <<X, Absent, e>>),
     Node("access", <<"f">>, <<e>>), Node("struct_init", <<"V">>, <<L(<<InitOf(<<>>, e)>>)>>),
     Node("generic_init", <<"V">>, <<L(<<I32>>), L(<<InitOf(<<"a">>, e)>>)>>),
     Node("if_expr", <<>>, <<e, One, X>>), Node("if_expr", <<>>, <<X, e, One>>),
     Node("if_expr", <<>>, <<X, One, e>>), Node("array", <<>>, <<L(<<X, e>>)>>),
     Node("match_expr", <<>>, <<e, Case(<<Node("tag_pattern", <<"t", "b">>, <<>>)>>, e)>>),
     Node("new", <<>>, <<Node("array_type", <<>>, <<e, TT>>)>>),
     Node("cast", <<"cast">>, <<TT, e>>), Node("intrinsic", <<"@f">>, <<L(<<e, e>>)>>)} \cup
    (IF e.kind = "new" THEN {} ELSE {Node("call", <<>>, <<e, L(<<>>)>>)})

\* Every place of an expression in a statement.
Statements_(e) ==
    {Expr(e), Var(e), Node("typed_var", <<"v">>, <<TT, e>>), Node("const", <<"C">>, <<e>>),
     Node("ret", <<>>, <<e>>), Node("del", <<>>, <<e>>), Node("assign", <<"+=">>, <<X, e>>),
     Node("assign", <<"=">>, <<Node("index", <<>>, <<e, e>>), X>>),
     Node("if", <<>>, <<e, Empty>>), Node("while", <<>>, <<e, Empty>>),
     Node("for", <<>>, <<Node("in", <<"i", "v">>, <<e>>), Empty>>),
     Node("labelled", <<"@o">>, <<Node("for", <<>>, <<Node("in", <<"v">>, <<e>>), Blk(<<Node("jump", <<"break", "o">>, <<>>)>>)>>)>>),
     Node("for", <<>>, <<Node("counted", <<>>, <<Var(e), e, Node("assign", <<"=">>, <<X, e>>)>>), Empty>>),
     Node("for", <<>>, <<Node("counted", <<>>, <<Node("assign", <<"=">>, <<X, e>>), X, Expr(e)>>), Empty>>),
     Node("match", <<>>, <<e, Case(<<e, Node("name_pattern", <<"_">>, <<>>)>>, Expr(e)), Else_(Node("fall", <<>>, <<>>))>>),
     Node("match", <<>>, <<X, Case(<<Node("range_pattern", <<>>, <<e, Node("literal_pattern", <<"1">>, <<>>)>>)>>, Empty)>>),
     Node("defer", <<>>, <<Expr(e)>>),
     Node("if", <<>>, <<X, Empty, Node("if", <<>>, <<e, Blk(<<Expr(e)>>), Empty>>)>>)}

\* Types, and where they stand.
Types_ ==
    {I32, TT, Node("named_type", <<"m", "T">>, <<>>), Node("ref_type", <<>>, <<TT>>),
     Node("slice_type", <<>>, <<I32>>), Node("array_type", <<>>, <<Bin("+", One, X), TT>>),
     Node("fn_type", <<>>, <<L(<<I32, TT>>), Absent>>), Node("fn_type", <<>>, <<L(<<>>), I32>>),
     Node("struct_type", <<>>, <<L(<<Node("field", <<"a">>, <<I32>>)>>)>>),
     Node("type_parameter", <<"T">>, <<>>), Node("generic_type", <<"V">>, <<L(<<I32, TT>>)>>),
     Node("type_set", <<>>, <<L(<<I32, TT>>)>>)}

Bound(t) == Node("where", <<>>, <<Node("bound", <<"T">>, <<t>>), Node("bound", <<"U">>, <<TT>>)>>)

Definitions(t) ==
    LET field == Node("field", <<"a">>, <<t>>)
        open == Node("field", <<"pub", "b">>, <<t>>)
        vararg == Node("parameter", <<"r", "..">>, <<t>>)
        \* A type set is no type of results; "where" does not end a function type.
        result == IF t.kind = "type_set" THEN Absent ELSE t
        bounded == IF t.kind = "fn_type" THEN Absent ELSE result
    IN {Node("typed_var", <<"v">>, <<t>>), Node("pub", <<>>, <<Node("typed_var", <<"v">>, <<t, One>>)>>),
        Node("struct", <<"S">>, <<L(<<field, open>>), Bound(t)>>),
        Node("union", <<"U">>, <<L(<<field>>), Absent>>),
        Node("union", <<"U", "tag">>, <<L(<<field, field>>), Absent>>),
        Node("generic", <<"G">>, <<L(<<Node("generic_parameter", <<"T">>, <<t>>), Node("generic_parameter", <<"U">>, <<>>)>>),
                                    Node("struct", <<>>, <<L(<<field>>), Absent>>)>>),
        Node("generic", <<"G">>, <<L(<<Node("generic_parameter", <<"T">>, <<>>)>>),
                                    Node("function", <<>>, <<L(<<vararg>>), result, Absent, Empty>>)>>),
        Node("function", <<"f">>, <<L(<<Node("parameter", <<"p">>, <<t>>), vararg>>), bounded, Bound(t),
                                    Blk(<<Node("ret", <<>>, <<>>)>>)>>),
        Node("function", <<"f">>, <<L(<<Node("parameter", <<"r", "..">>, <<>>)>>), Absent, Absent, Empty>>)} \cup
       (IF t.kind \in {"primitive", "ref_type", "slice_type", "array_type", "fn_type", "type_parameter"}
        THEN {Node("alias", <<"A">>, <<t>>), Var(Node("call", <<>>, <<X, L(<<t, X>>)>>))}
        ELSE {})

Others ==
    {Node("enum", <<"E">>, <<L(<<Node("variant", <<"A">>, <<>>), Node("variant", <<"B">>, <<One>>)>>)>>),
     Node("import", <<"\"m\"">>, <<>>), Node("import", <<"using", "\"m\"">>, <<>>),
     Node("import", <<"\"m\"">>, <<L(<<Node("imported", <<"a">>, <<>>), Node("imported", <<"b">>, <<>>)>>)>>),
     Node("import_as", <<"m", "\"m\"">>, <<>>),
     Main(<<Node("forever", <<>>, <<Empty>>)>>),
     Main(<<Node("match", <<>>, <<X, Case(<<Node("enum_pattern", <<"m", "E", "A">>, <<>>),
                                            Node("enum_pattern", <<"E", "A">>, <<>>)>>, Empty)>>)>>)}

Trees ==
    {<<Var(Bin(f, Bin(g, X, One), X))>> : f \in BinaryOps, g \in BinaryOps} \cup
    {<<Var(Bin(f, X, Bin(g, X, One)))>> : f \in BinaryOps, g \in BinaryOps} \cup
    {<<Var(e)>> : e \in UNION {Within(i) : i \in Inner}} \cup
    {<<Main(<<s>>)>> : s \in UNION {Statements_(i) : i \in Inner}} \cup
    {<<d, Var(X)>> : d \in UNION {Definitions(t) : t \in Types_} \cup Others}

----------------------------------------------------------------------------

Init ==
    /\ \/ /\ intended = <<>>
          /\ source \in CharSoup \cup TokenSoup \cup DeepSources
       \/ /\ intended \in Trees
          /\ source = Program(intended)
    /\ respelled = <<>>
    /\ InitLex /\ InitParse

Unlocated(t) ==
    CASE t.type = "EOL" -> "\n" [] t.type = "EOF" -> "" [] OTHER -> t.value

Restart(text) ==
    /\ source' = text
    /\ position' = 0 /\ line' = 1 /\ column' = 1 /\ tokens' = <<>>
    /\ lexical' = [state |-> "reading"]
    /\ cursor' = 0 /\ brackets' = <<>> /\ work' = <<>> /\ tried' = {}
    /\ declarations' = <<>> /\ parsing' = "idle"

\* The tokens of a source that does not parse are written down, one blank
\* between two of them, and read again.
RespellTokens ==
    /\ parsing = "rejected" /\ respelled = <<>> /\ intended = <<>>
    /\ respelled' = tokens
    /\ Restart(Written([i \in DOMAIN tokens |-> Unlocated(tokens[i])]))
    /\ UNCHANGED intended

\* A bound that is none keeps no tokens, it is reported later.
Spellable ==
    \A d \in {declarations[i] : i \in DOMAIN declarations} :
        d.kind = "function" => \A i \in DOMAIN d.kids[3].kids : d.kids[3].kids[i].kind = "bound"

\* A program is spelled from its trees and read again.
RespellTrees ==
    /\ parsing = "parsed" /\ declarations # <<>> /\ Spellable /\ respelled = <<>> /\ intended = <<>>
    /\ respelled' = tokens
    /\ intended' = declarations
    /\ Restart(Program(declarations))

Next ==
    \/ NextFront /\ UNCHANGED <<intended, respelled>>
    \/ RespellTokens
    \/ RespellTrees

Spec == Init /\ [][Next]_mcVars
----------------------------------------------------------------------------
(* Properties. *)

\* Where a line starts, and a line and column are, as characters before them.
LineStart(n) ==
    IF n = 1 THEN 0
    ELSE CHOOSE p \in 1..Len(source) :
             /\ CharAt(p - 1) = "\n"
             /\ Cardinality({k \in 0..(p - 1) : CharAt(k) = "\n"}) = n - 1

Offset(t) == LineStart(t.line) + t.column - 1

\* A stretch that holds no token: blanks and terminators up to a comment.
Tokenless(from, to) ==
    \A k \in from..(to - 1) :
        \/ CharAt(k) \in {" ", "\r", "\n", ";"}
        \/ \E c \in from..k : /\ CharAt(c) = "#" \/ Slice(c, c + 2) \in {"//", "/*"}
                              /\ \A b \in from..(c - 1) : CharAt(b) \in {" ", "\r", "\n", ";"}

\* Every token's text stands in the source at the line and column it is
\* reported at, one after the other, and nothing between two of them but
\* blanks, terminators and comments is passed over: advance, skip_whitespace
\* and the scanners lose no character and no line.
TokensLocated ==
    lexical.state = "done" /\ parsing = "idle" =>
        LET at(i) == IF i = 0 THEN 0 ELSE Offset(tokens[i])
            end(i) == IF i = 0 THEN 0 ELSE at(i) + Len(tokens[i].value)
        IN \A i \in DOMAIN tokens :
               /\ end(i - 1) <= at(i) /\ end(i) <= Len(source)
               /\ Slice(at(i), end(i)) = tokens[i].value
               /\ Tokenless(end(i - 1), at(i))

Spelled(row) == [i \in DOMAIN row |-> <<row[i].type, Unlocated(row[i])>>]

\* A program with known trees is parsed as just these.
Reparsed ==
    intended # <<>> => /\ lexical.state # "error"
                       /\ parsing # "rejected"
                       /\ parsing = "parsed" => declarations = intended

\* What a tree stands for: everything but parentheses, commas and breaks.
Significant(row) ==
    LET text(t) == IF t.value = "!" THEN "not" ELSE t.value
        kept == SelectSeq(row, LAMBDA t : t.type \notin {"(", ")", ",", "EOL", "EOF"})
    IN [i \in DOMAIN kept |-> text(kept[i])]

\* Tokens do not depend on what stands next to them, and a parser that accepts drops
\* none: written down, its trees have the tokens of the program in their order.
NothingLost ==
    respelled # <<>> /\ lexical.state # "reading" =>
        IF intended = <<>> THEN Spelled(tokens) = Spelled(respelled)
        ELSE Significant(tokens) = Significant(respelled)

\* A program in which every operand, branch, bound and body stands where the
\* grammar and the table of precedences of docs/SPEC.md put it is parsed as
\* just that tree; the trees of any program that parses, written down, are
\* parsed as the same trees and have the tokens of the program in their order;
\* and tokens written apart from each other are read as the same tokens.
RoundTrip == Reparsed /\ NothingLost
=============================================================================
