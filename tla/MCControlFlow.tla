--------------------------- MODULE MCControlFlow ----------------------------
(* Functions whose statements are nested up to four deep.                    *)
EXTENDS ControlFlow

CONSTANT FallingCases       \* functions in which cases fall, and no others

MCValues == [t \in {"bool", "int", "union"} |->
                CASE t = "bool" -> {"true", "false"} [] t = "union" -> {"ok", "err"}
                  [] OTHER -> {"0", "1", "other"}]

MCPatterns == {"true", "false", "ok", "err", "0", "1", Wild}

Step1 == Simple("step", NoLabel)
Ret == Simple("ret", NoLabel)
Break(l) == Simple("break", l)
Continue(l) == Simple("continue", l)
Fall == Simple("fall", NoLabel)

\* Lists without nesting.
Flat == {<<>>, <<Step1>>, <<Ret>>, <<Break(NoLabel)>>, <<Break("a")>>,
         <<Continue("a")>>, <<Fall>>, <<Ret, Step1>>}
Few == {<<>>, <<Ret>>, <<Break(NoLabel)>>, <<Break("a")>>}

Covers == {<<"bool", <<{"true"}, {"false"}>>>>, <<"int", <<{"0"}, {"1"}>>>>,
           <<"int", <<{"0", "1"}, {Wild}>>>>, <<"union", <<{"ok"}, {"err"}>>>>}

\* Statements with x in them, and other lists beside it.
Around(X, Y) ==
    {Nest(op, NoLabel, <<x>>) : op \in {"block", "if", "defer", "function", "while", "for"}, x \in X}
    \cup {Nest(op, "a", <<x>>) : op \in {"while", "for"}, x \in X}
    \cup {Nest("if", NoLabel, <<x, y>>) : x \in X, y \in Y}
    \cup {Match(c[1], c[2], <<x, y>>) : c \in Covers, x \in X, y \in Y}
    \cup {Match("int", <<{"0"}, {"1"}>>, <<x, y, <<Ret>>>>) : x \in X, y \in Y}
    \cup {Match("int", <<>>, <<x>>) : x \in X}
    \cup {Match("union", <<{"ok"}>>, <<x>>) : x \in X}

Lists(S) == {<<s>> : s \in S} \cup {<<s, Ret>> : s \in S}

\* Deeper nestings are around lists in which the jumps matter.
Deep == Lists(Around(Flat, Few))
Loops(X) == {Nest(op, "a", <<x>>) : op \in {"while", "for"}, x \in X}
Others(X) == {Nest(op, NoLabel, <<x>>) : op \in {"defer", "function", "while"}, x \in X}
             \cup {Match("bool", <<{"true"}, {"false"}>>, <<x, <<Ret>>>>) : x \in X}

\* Loops without an end of their own, and what comes after.
Endless == Nest("while", NoLabel, <<<<Step1>>>>)
Left == Nest("while", NoLabel, <<<<Break(NoLabel)>>>>)
Outwards == Nest("while", NoLabel, <<<<Break("b")>>>>)
EndlessBodies ==
    {<<Nest("block", NoLabel, <<<<s>>>>)>> \o l : s \in {Endless, Left}, l \in Few \cup {<<Step1>>}}
    \cup {<<Nest("while", "a", <<<<Nest(op, "b", <<<<s, Break("a")>>>>)>>>>)>> :
               op \in {"while", "for"}, s \in {Step1, Endless, Outwards}}

WithoutFall == Lists(Around(Flat, Flat)) \cup Lists(Loops(Deep)) \cup Lists(Others(Deep))
               \cup Lists(Loops(Lists(Others(Deep)))) \cup EndlessBodies

FallBodies ==
    {<<Match("int", <<{"0"}, {"1"}>>, <<<<Fall>>, x, y>>)>> \o z :
        x \in {<<Ret>>, <<Step1>>}, y \in {<<Ret>>, <<Step1>>}, z \in {<<>>, <<Ret>>}}

MCBodies == IF FallingCases THEN FallBodies ELSE WithoutFall

ASSUME ParametersOK == ControlFlowParameters
=============================================================================
