--------------------------- MODULE MCSafetyProof ---------------------------
(* Small functions for SafetyProof, in families after what they are about.   *)
EXTENDS SafetyProof

CONSTANT Families           \* the families to run

MCBounds == [v \in {"x", "y", "z", "u", "g"} |->
    CASE v = "z" -> [lo |-> -2, hi |-> 1]       \* signed
      [] v = "u" -> [lo |-> 0, hi |-> 1]        \* the target of casts
      [] OTHER -> [lo |-> 0, hi |-> 3]]
MCValues == [t \in {} |-> {}]

\* Statements.
Set(v, a) == Do(Act("set", v, "", a, Lit(0)))
Calc(v, op, a, b) == Do(Act("set", v, op, a, b))
Add(v, k) == Act("change", v, "+", Var(v), Lit(k))
Change(v, op, b) == Do(Act("change", v, op, Var(v), b))
Index(object, a) == Do(Act("index", object, "", a, Lit(0)))
Slice(s, a, b) == Do(Act("slice", s, "", a, b))
Copy(s, t) == Do(Act("copy", s, t, Lit(0), Lit(0)))
On(kind, p, other) == Do(Act(kind, p, other, Lit(0), Lit(0)))
New(p, site) == On("new", p, site)
Nil(p) == On("nil", p, "")
Alias(p, q) == On("alias", p, q)
Del(p) == On("del", p, "")
Read(p) == On("read", p, "")
Call(v) == On("call", v, "")
Jmp(op, label) == Simple(op, label)
Ret == Jmp("ret", NoLabel)
Break == Jmp("break", NoLabel)
Continue == Jmp("continue", NoLabel)
Fall == Jmp("fall", NoLabel)
Block(stmts) == Nest("block", NoLabel, <<stmts>>)
Later(stmts) == Nest("defer", NoLabel, <<stmts>>)
When(cond, stmts) == If(cond, <<stmts>>)
Guarded(p, stmts) == When(Cond("nil", p, "!=", Lit(0)), stmts)
Either == Cond("any", "", "", Lit(0))
Is(v, op, b) == Cond("int", v, op, b)
Forever(stmts) == Loop("while", NoLabel, Either, NoAct, stmts)
While(cond, stmts) == Loop("for", NoLabel, cond, NoAct, stmts)

Comparisons == {"<", "<=", ">", ">=", "==", "!="}

\* What uses the facts about x.
Uses == {<<Index("array", Var("x"))>>, <<Calc("y", "/", Lit(1), Var("x"))>>,
         <<Calc("u", "cast", Var("x"), Lit(0))>>, <<Change("x", "+", Lit(2))>>}

\* Lists that change what is known about x.
Changes == {<<>>, <<Ret>>, <<Set("x", Lit(0))>>, <<Set("x", Lit(1))>>, <<Set("x", Var("y"))>>,
            <<Change("x", "-", Lit(1))>>, <<Call("x")>>, <<Block(<<Set("x", Lit(2)), Ret>>)>>}

\* An if, its condition against a literal or a variable.
IfBodies == {<<If(Is("x", op, b), <<l, m>>)>> \o use :
           op \in Comparisons, b \in {Lit(0), Lit(1), Lit(2), Var("y")},
           l \in Changes, m \in {<<>>, <<Ret>>, <<Set("x", Lit(3))>>}, use \in Uses}
       \cup {<<When(Is("x", op, b), <<When(Is("y", "<", Lit(2)), use)>>)>> :
           op \in Comparisons, b \in {Lit(1), Var("y")}, use \in Uses}

\* Loops: what a trip changes, what it uses, and what is used after.
Trips == {<<>>, <<Set("x", Lit(0))>>, <<Change("x", "+", Lit(1))>>, <<Change("x", "-", Lit(1))>>, <<Set("y", Lit(2))>>,
          <<Call("x")>>, <<When(Either, <<Break>>)>>, <<When(Either, <<Set("x", Lit(0)), Break>>)>>,
          <<When(Either, <<Continue>>), Set("x", Lit(2))>>, <<When(Either, <<Set("x", Lit(0)), Continue>>)>>,
          <<When(Is("x", "==", Lit(1)), <<Break>>)>>, <<If(Either, <<<<Set("x", Lit(3)), Ret>>, <<Set("x", Lit(1))>>>>)>>}
Conditions == {Either, Is("x", "<", Lit(2)), Is("x", "<=", Lit(1)), Is("x", "!=", Lit(0)), Is("y", "<", Var("x")), Is("x", ">", Var("y"))}
SomeUses == {<<>>, <<Index("array", Var("x"))>>, <<Calc("y", "/", Lit(1), Var("x"))>>}
LoopBodies == {before \o <<Loop("for", NoLabel, c, update, trip \o use)>> \o after :
               before \in {<<>>, <<Set("x", Lit(1))>>}, c \in Conditions, update \in {NoAct, Add("x", 1)},
               trip \in Trips, use \in SomeUses \cup {<<Change("x", "+", Lit(1))>>}, after \in SomeUses}
\* Loops in loops; the jumps name the outer one.
Inner2 == {<<When(Either, <<Jmp(op, "a")>>)>> : op \in {"break", "continue"}}
          \cup {<<When(Either, <<Set("x", Lit(k)), Jmp(op, "a")>>)>> : k \in {0, 1}, op \in {"break", "continue"}}
          \cup {<<Set("x", Lit(0))>>, <<Change("x", "+", Lit(1))>>}
LabelBodies == {before \o <<Loop("for", "a", c, update, use \o <<w>>)>> \o after :
               before \in {<<>>, <<Set("x", Lit(0))>>, <<Set("x", Lit(1))>>}, c \in {Either, Is("x", "<", Lit(2)), Is("x", "==", Lit(1))},
               update \in {NoAct, Add("x", 1)}, use \in SomeUses,
               w \in {Forever(l) : l \in Inner2 \cup {<<Set("y", Lit(0)), Break>>}} \cup {While(Is("y", "<", Lit(1)), l) : l \in Inner2},
               after \in SomeUses}

\* Deferred statements, at the end of a block and at the exits of loops.
DeferBodies == {before \o <<Block(<<Later(d), w>> \o use)>> \o after :
               before \in {<<>>, <<Set("x", Lit(1))>>},
               d \in {<<Set("x", Lit(0))>>, <<Change("x", "+", Lit(1))>>, <<Calc("y", "/", Lit(1), Var("x"))>>},
               w \in {Set("x", Lit(1)), When(Either, <<Ret>>), When(Either, <<Set("x", Lit(0)), Ret>>), Later(<<Set("x", Lit(2))>>),
                      When(Is("x", "==", Lit(0)), <<Ret>>), Set("y", Lit(1))},
               use \in SomeUses, after \in SomeUses}
          \cup {before \o <<Loop(op, NoLabel, c, update, <<Later(<<Set("x", Lit(k))>>), When(Either, <<Jmp(j, NoLabel)>>)>> \o use)>> \o after :
               before \in {<<>>, <<Set("x", Lit(1))>>}, op \in {"for", "while"}, c \in {Either, Is("x", "<", Lit(2))},
               update \in {NoAct, Add("x", 1)}, k \in {0, 1}, j \in {"ret", "break", "continue"}, use \in SomeUses, after \in SomeUses}

\* Matches on x, whose cases may fall.
Arms == {<<>>, <<Ret>>, <<Set("x", Lit(1))>>, <<Set("x", Lit(0))>>, <<Set("y", Lit(0)), Ret>>}
MatchBodies == {before \o <<Match("x", <<{0}, {1}>>, <<l, m>> \o others)>> \o after :
                before \in {<<>>, <<Set("x", Lit(1))>>}, l \in Arms \cup {<<Fall>>, <<Set("x", Lit(2)), Fall>>, <<Set("x", Lit(0)), Fall>>},
                m \in Arms \cup {<<Calc("y", "/", Lit(1), Var("x"))>>}, others \in {<<>>} \cup {<<n>> : n \in Arms}, after \in SomeUses}

\* Slices and their lengths.
Bounded(op, stmts) == When(Cond("len", "x", op, Var("s")), stmts)
SliceChanges == {<<>>, <<Copy("s", "t")>>, <<Copy("t", "s")>>, <<Set("x", Lit(0))>>, <<Change("x", "+", Lit(1))>>,
                 <<Call("x")>>, <<Slice("s", Lit(0), Lit(2))>>, <<Slice("s", Lit(0), Var("x"))>>}
InSlices == {<<Index(o, Var(v))>> : o \in {"s", "t"}, v \in {"x", "y"}}
SliceBodies == {<<Bounded(op, l \o <<Set("y", Var("x"))>> \o use)>> : op \in {"<", "<="}, l \in SliceChanges, use \in InSlices}
               \cup {<<If(Cond("len", "x", ">=", Var("s")), <<l, m>>)>> \o use :
                         l \in SliceChanges \cup {<<Ret>>}, m \in SliceChanges, use \in InSlices}
               \cup {<<Bounded("<", <<While(Either, l \o use \o m)>>)>> : l \in SliceChanges, m \in SliceChanges, use \in InSlices}
               \cup {before \o l \o <<Slice("s", a, b)>> \o use : before \in {<<>>, <<Set("x", Lit(1))>>}, l \in SliceChanges,
                         a \in {Lit(0), Lit(1), Var("x")}, b \in {Lit(1), Lit(2), Lit(3), Var("x")},
                         use \in {<<>>, <<Index("s", Lit(0))>>, <<Bounded("<", <<Index("s", Var("x"))>>)>>}}

\* Globals, calls and signed values.
OtherBodies == {<<When(Is("g", op, Lit(1)), l \o use)>> : op \in Comparisons, l \in {<<>>, <<Call("")>>, <<Call("x")>>, <<Set("g", Lit(1))>>, <<Set("x", Var("g"))>>},
               use \in {<<Calc("x", "/", Lit(1), Var("g"))>>, <<Index("array", Var("g"))>>, <<Calc("g", "+", Var("g"), Lit(1))>>,
                        <<Change("g", "-", Lit(1)), Index("array", Var("g"))>>,  <<While(Either, <<Calc("x", "/", Lit(1), Var("g")), Call("")>>)>>}}
          \cup {<<If(Is("z", op, Lit(k)), <<l, m>>)>> \o <<Calc("z", "/", Lit(1), Var("z"))>> : op \in Comparisons, k \in {-1, 0, 1},
               l \in {<<>>, <<Calc("z", "neg", Var("z"), Lit(0))>>, <<Calc("z", "-", Lit(0), Var("z"))>>, <<Ret>>},
               m \in {<<>>, <<Calc("z", "neg", Var("z"), Lit(0))>>, <<Calc("z", "-", Lit(-1), Var("z"))>>, <<Ret>>}}
          \cup {<<When(Is("x", op, Lit(k)), <<When(Is("y", "<", Lit(j)), <<Calc(v, o, Var("x"), Var("y"))>> \o use)>>)>> :
               op \in {"<", ">", "=="}, k \in {1, 2}, j \in {1, 2}, v \in {"x", "y"}, o \in {"+", "-"}, use \in Uses}

\* References: three statements and a use of what is left.
UseRef == {<<Guarded(v, <<Read(v)>>)>> : v \in {"p", "q"}} \cup {<<Read("p")>>, <<Del("q")>>}
RefSteps(site) ==
            {New("p", site), New("q", site), Nil("p"), Alias("p", "q"), Alias("q", "p"), Del("p"), Del("q"),
             When(Either, <<Del("p")>>), When(Either, <<Alias("q", "p")>>), When(Either, <<Del("p"), Ret>>),
             When(Either, <<New("p", site)>>), When(Cond("nil", "p", "==", Lit(0)), <<Ret>>),
             If(Either, <<<<Alias("p", "q"), Del("q")>>, <<New("p", site)>>>>), Block(<<Later(<<Del("q")>>), Alias("q", "p")>>)}
RefBodies == {<<a, b, c>> \o use : a \in RefSteps("a"), b \in RefSteps("b"), c \in RefSteps("c"), use \in UseRef}

\* Loops that delete, and may count to one trip.
RefTrips == {<<>>, <<Del("p")>>, <<Guarded("p", <<Read("p")>>)>>, <<Guarded("q", <<Read("q")>>)>>, <<Nil("p")>>, <<Del("p"), Nil("p")>>,
             <<Del("p"), Break>>, <<When(Either, <<Del("p"), Ret>>)>>, <<When(Either, <<Del("p"), Break>>)>>,
             <<When(Either, <<Del("p"), Continue>>)>>, <<Del("p"), When(Either, <<Continue>>)>>,
             <<Later(<<Del("p")>>), When(Either, <<Break>>)>>, <<When(Either, <<Break>>), Del("p")>>,
             <<While(Either, <<Del("p"), Break>>)>>, <<Block(<<Later(<<Del("p")>>), When(Either, <<Continue>>)>>)>>}
DeleteBodies == {before \o start \o <<Loop("for", NoLabel, c, update, trip \o also)>> \o use :
               before \in {<<New("p", "a")>>, <<New("p", "a"), Alias("q", "p")>>, <<New("q", "a"), Alias("p", "q")>>},
               start \in {<<>>, <<Set("x", Lit(0))>>, <<Set("x", Lit(3))>>},
               c \in {Either, Is("x", "<", Lit(1)), Is("x", "<", Lit(2)), Is("x", "<=", Lit(3))},
               update \in {NoAct, Add("x", 1)}, trip \in RefTrips,
               also \in {<<>>, <<Change("x", "+", Lit(1))>>}, use \in {<<>>, <<Guarded("q", <<Read("q")>>)>>}}

\* Loops that change what a reference refers to.
AliasTrips == {<<Alias("q", "p")>>, <<New("p", "b")>>, <<New("p", "b"), Alias("q", "p")>>}
AliasBodies == {<<New("p", "a"), Nil("q")>> \o <<While(Either, trip)>> \o after \o <<Del("p"), Guarded("q", <<Read("q")>>)>> :
               trip \in AliasTrips, after \in {<<>>, <<Alias("q", "p")>>}}

BodiesOf(families) ==
    LET Chosen(f, bodies) == IF f \in families THEN bodies ELSE {}
    IN  Chosen("if", IfBodies) \cup Chosen("loop", LoopBodies) \cup Chosen("labels", LabelBodies)
        \cup Chosen("defer", DeferBodies) \cup Chosen("match", MatchBodies) \cup Chosen("slice", SliceBodies)
        \cup Chosen("other", OtherBodies) \cup Chosen("refs", RefBodies) \cup Chosen("delete", DeleteBodies)
        \cup Chosen("alias", AliasBodies)
MCBodies == BodiesOf(Families)
=============================================================================
