---------------------------- MODULE MCEmittedNames ----------------------------
(***************************************************************************)
(* Functions in which x and x_1 are declared, read and written in each      *)
(* other's scopes, beside globals and nested functions.                     *)
(***************************************************************************)
EXTENDS EmittedNames

x == <<"x">>
x_1 == <<"x", 1>>
f == <<"f">>
g == <<"g">>
h == <<"h">>
k == <<"k">>
std == <<"std">>

Var(name, uses) == Statement("var", <<name>>, uses, <<>>)
Const(name, uses) == Statement("const", <<name>>, uses, <<>>)
Use(name) == Statement("use", <<>>, <<name>>, <<>>)
Assign(name, uses) == Statement("assign", <<name>>, uses, <<>>)
Block(parts) == Statement("block", <<>>, <<>>, parts)
Function(names, parts) == Statement("function", names, <<>>, <<Block(parts)>>)
If(uses, parts) == Statement("if", <<>>, uses, <<Block(parts)>>)
For(init, uses, update, parts) == Statement("for", <<>>, uses, <<init, update, Block(parts)>>)
ForIn(names, uses, parts) == Statement("forin", names, uses, <<Block(parts)>>)
Arm(names, uses, part) == Statement("arm", names, uses, <<part>>)
Match(uses, arms) == Statement("match", <<>>, uses, arms)
Defer(part) == Statement("defer", <<>>, <<>>, <<part>>)

-----------------------------------------------------------------------------
\* What the passes before the backend accept, without a capture that the statements of
\* its own arm declare again.
RECURSIVE Everywhere(_, _)
Everywhere(node, path) ==
    {path} \cup UNION {Everywhere(node.parts[i], Append(path, i)) : i \in DOMAIN node.parts}

Accepted ==
    LET Node(p) == Locate(p)
        Known(d) == d[1] = FileLevel => d[2] \in source.globals
        IsFunction(d) == d[1] # FileLevel /\ Node(d[1]).kind = "function" /\ Node(d[1]).names[1] = d[2]
    IN  \A p \in Everywhere(source.function, <<>>) :
            /\ \A n \in ToSet(Node(p).uses) :
                   \E d \in {UseMeans(p, n)} : Known(d) /\ (IsFunction(d) => ~IsPrefix(d[1], p))
            /\ Node(p).kind = "assign" =>
                   \E d \in {Means(p, Node(p).names[1])} :
                       Known(d) /\ (d[1] # FileLevel => Node(d[1]).kind = "var")
            /\ Node(p).kind = "arm" =>
                   \A n \in ToSet(Node(p).names) :
                       ~Known(Means(p, n)) /\ \A i \in DOMAIN Node(p).parts[1].parts : ~Declares(Node(p).parts[1].parts[i], n)
            /\ Node(p).kind = "block" =>
                   \A i, j \in DOMAIN Node(p).parts :
                       (i < j /\ Node(p).parts[j].kind \in {"var", "const", "function"}) =>
                           ~Declares(Node(p).parts[i], Node(p).parts[j].names[1])
            /\ Node(p).kind = "function" =>
                   \A i \in DOMAIN Node(p).parts[1].parts :
                       \A n \in ToSet(Tail(Node(p).names)) : ~Declares(Node(p).parts[1].parts[i], n)

MCNamesInit == NamesInit /\ Accepted

Files(globals, names, bodies) ==
    {[globals |-> gs, function |-> Function(names, b)] : gs \in globals, b \in bodies}
Sequence(parts) == {FlattenSeq(p) : p \in parts}

-----------------------------------------------------------------------------
Before == {<<>>, <<Var(x, <<>>)>>, <<Const(x, <<>>)>>, <<Var(x_1, <<>>)>>}
After == {<<>>, <<Use(x)>>, <<Assign(x, <<>>)>>, <<Var(x_1, <<x>>)>>}
Inner == {Var(x, <<x>>), Var(x_1, <<x>>), Use(x), Assign(x, <<x_1>>)}
UpTo(set, n) == UNION {[1..len -> set] : len \in 0..n}

Around(parts) ==
    {Block(parts), If(<<x>>, parts), For(Var(x, <<>>), <<x>>, Assign(x, <<>>), parts),
     ForIn(<<x>>, <<x>>, parts), ForIn(<<x_1, x>>, <<>>, parts),
     Match(<<x>>, <<Arm(<<x_1>>, <<>>, Block(parts))>>),
     Match(<<>>, <<Arm(<<>>, <<x>>, Block(parts)), Arm(<<>>, <<>>, Use(x))>>),
     Defer(Block(parts)), Defer(Assign(x, <<>>))}

Once == {<<a>> : a \in UNION {Around(p) : p \in UpTo(Inner, 2)}}
Twice == {<<a>> : a \in UNION {Around(p) :
             p \in {<<v, b>> : v \in {Var(x, <<x>>), Var(x_1, <<>>)},
                               b \in UNION {Around(q) : q \in {<<Var(x, <<x>>)>>, <<Var(x_1, <<x>>), Use(x_1)>>}}}}}

\* Functions in g, g in the body or in a block, and k beside it.
InG == {<<>>, <<Use(x)>>, <<Var(x, <<>>), Block(<<Var(x, <<x>>)>>)>>, <<Use(k)>>,
        <<Function(<<h, x>>, <<Use(x)>>), Use(h)>>, <<Function(<<h>>, <<Var(x, <<>>), Use(x)>>), Use(h), Use(k)>>}
G == UNION {{<<Function(<<g, x>>, p)>>, <<Function(<<g>>, p), Use(g)>>, <<Use(g), Function(<<g, x_1>>, p)>>} : p \in InG}
K == {<<Function(<<k>>, <<>>)>>, <<Function(<<k, x>>, <<Var(x_1, <<x>>)>>)>>}

MCEmittable ==
    Files({{x, x_1}}, <<f>>, Sequence(Before \X Once \X After))
    \cup Files({{}}, <<f, x>>, Sequence({<<>>, <<Var(x_1, <<>>)>>} \X Once \X After))
    \cup Files({{x}}, <<f>>, Sequence({<<>>, <<Var(x, <<>>)>>} \X Twice \X {<<>>, <<Use(x)>>, <<Var(x_1, <<>>)>>}))
    \cup Files({{}, {x, x_1}}, <<f>>,
               Sequence({<<>>, <<Var(x, <<>>)>>} \X K \X (G \cup {<<Block(n)>> : n \in G}) \X {<<>>, <<Use(x)>>}))
    \cup {[globals |-> {std, <<"std", 1>>}, function |-> Function(<<f, <<"main">>>>, <<Var(n, <<std>>), Use(n)>>)] :
              n \in {std, <<"std", 1>>, <<"panic">>}}

MCNamesSpec == MCNamesInit /\ [][NamesNext]_nameVars
=============================================================================
