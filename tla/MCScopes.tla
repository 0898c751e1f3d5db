------------------------------ MODULE MCScopes ------------------------------
(* Files of one or two functions in which x is declared, or not, by the      *)
(* file, by a parameter, by a statement before or after and by the           *)
(* constructs in between, and used in each of them.                          *)
EXTENDS Scopes

CONSTANT UnwalkedBranches   \* else-if chains and deferred blocks

Use(x) == Node("use", <<>>, <<x>>, <<>>)
Var(x, uses) == Node("var", <<x>>, uses, <<>>)
Const(x, uses) == Node("const", <<x>>, uses, <<>>)
Block(body) == Node("block", <<>>, <<>>, body)
If(cond, branches) == Node("if", <<>>, cond, branches)
While(cond, body) == Node("while", <<>>, cond, <<body>>)
For(init, cond, body) == Node("for", <<>>, cond, init \o <<Block(body)>>)
ForIn(names, over, body) ==
    Node(IF Len(names) = 1 THEN "for_in" ELSE "for_in_indexed", names, over, <<Block(body)>>)
Match(on, cases) == Node("match", <<>>, on, cases)
MatchExpr(on, cases) == Node("match_expr", <<>>, on, cases)
Single(body) == IF Len(body) = 1 THEN body ELSE <<Block(body)>>
Case(patterns, body) == Node("case", patterns, <<>>, Single(body))
Arm(patterns, use) == Node("arm", patterns, <<>>, <<use>>)
Else(body) == Node("else", <<>>, <<>>, Single(body))
Defer(body) == Node("defer", <<>>, <<>>, <<body>>)
Function(f, params, body) == Node("function", <<f>> \o params, <<>>, <<Block(body)>>)
Type(kind, names) == Node(kind, names, <<>>, <<>>)
File(declarations) == Node("file", <<>>, <<>>, declarations)

Bodies == {<<Use("x")>>, <<Var("x", <<"x">>), Use("x")>>, <<Use("x"), Const("x", <<>>)>>, <<Var("y", <<"x">>)>>}

Around(b, c) ==
    {Block(b), If(<<"x">>, <<Block(b)>>), If(<<>>, <<Block(c), Block(b)>>), While(<<"x">>, Block(b)),
     For(<<Var("x", <<"x">>)>>, <<"x">>, b), For(<<Use("x")>>, <<"x">>, b),
     ForIn(<<"x">>, <<"y">>, b), ForIn(<<"y", "x">>, <<"x">>, b),
     Match(<<"x">>, <<Case(<<"x">>, b), Else(c)>>),
     Match(<<>>, <<Case(<<"y">>, c), Case(<<"x">>, b)>>),
     MatchExpr(<<"x">>, <<Arm(<<"x">>, Use("x")), Arm(<<"y">>, Use("y"))>>),
     Function("n", <<"x">>, c), Function("n", <<>>, b)}

Nesting ==
    {<<s>> : s \in UNION {Around(b, c) : b \in Bodies, c \in {<<Var("x", <<>>)>>}}} \cup
    {<<s, t>> : s \in Around(<<Var("x", <<"x">>)>>, <<>>), t \in Around(<<Use("x")>>, <<Const("y", <<>>), Use("y")>>)} \cup
    {<<If(<<"x">>, <<Block(b), If(<<"x">>, <<Block(<<Use("x")>>)>>)>>)>> : b \in Bodies} \cup
    {<<s>> : s \in UNION {Around(<<t>>, <<Use("x"), t>>) : t \in Around(<<Var("y", <<"x">>)>>, <<Use("x")>>)}}

\* Branches whose scopes the two passes do not both make.
Unwalked ==
    {<<If(<<>>, <<Block(<<Use("x")>>), If(<<>>, <<Block(<<Var("x", <<>>)>>)>>)>>)>>,
     <<Defer(Block(<<Var("x", <<>>)>>)), Block(<<Use("x")>>)>>}

LocalPrograms ==
    {File(<<Var("y", <<>>)>> \o global \o <<Function("main", params, before \o body \o after)>>) :
        global \in {<<>>, <<Const("x", <<"y">>)>>},
        params \in {<<>>, <<"x">>},
        before \in {<<>>, <<Var("x", <<"x">>)>>},
        body \in IF UnwalkedBranches THEN Unwalked ELSE Nesting,
        after \in {<<Use("x")>>, <<Const("x", <<>>), Use("x")>>}}

\* File-scope declarations in every order, colliding or depending on each other.
Declared ==
    {Var("x", <<>>), Const("x", <<"y">>), Const("y", <<"z">>), Var("z", <<"x", "y">>), Const("z", <<>>),
     Function("x", <<"y", "z">>, <<Use("z")>>), Function("f", <<"y", "y">>, <<Type("alias", <<"z">>), Use("x")>>),
     Function("z", <<>>, <<Function("n", <<>>, <<Function("n", <<>>, <<Use("n")>>), Type("alias", <<"x">>)>>)>>),
     Type("struct", <<"z", "x", "y">>), Type("union", <<"S", "x", "x">>), Type("enum", <<"E", "E.a", "E.b">>),
     Type("enum", <<"E", "E.a", "E.a">>), Type("alias", <<"T">>), Node("import", <<"y">>, <<>>, <<>>),
     Node("import", <<"io">>, <<>>, <<>>),
     Function("g", <<>>, <<Type("struct", <<"T", "x">>), Function("n", <<>>, <<>>), Function("n", <<"x">>, <<Var("x", <<>>)>>)>>)}

FilePrograms == {File(<<a, b, c>>) : a, b, c \in Declared}

MCPrograms == IF UnwalkedBranches THEN LocalPrograms ELSE LocalPrograms \cup FilePrograms
=============================================================================
