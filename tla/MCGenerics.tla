------------------------------ MODULE MCGenerics ------------------------------
(***************************************************************************)
(* Calls of up to three arguments of all kinds and sizes, and generic      *)
(* bodies that call one another.                                           *)
(***************************************************************************)
EXTENDS Generics

MCRanges == [i8 |-> <<-8, 7>>, i32 |-> <<-32, 31>>]
MCGreatest == [f32 |-> 30, f64 |-> 300]
MCWidenings == {<<"i8", "i32">>, <<"f32", "f64">>}

T == Parameter("T")
U == Parameter("U")
i8 == Primitive("i8")
i32 == Primitive("i32")
f32 == Primitive("f32")

Argument(type, place) == [type |-> type, constant |-> NoConstant, place |-> place]
Untyped(c) == [type |-> DefaultType(c), constant |-> c, place |-> "none"]
Whole == {Constant(6, FALSE), Constant(40, FALSE), Constant(80, FALSE)}
Fractions == {Constant(3, TRUE), Constant(4, TRUE)}
Constants == {Untyped(c) : c \in Whole \cup Fractions}
Typed ==
    {Argument(i8, "variable"), Argument(i8, "constant"), Argument(i32, "none"), Argument(f32, "variable"),
     Argument(RefTo(i8), "none"), Argument(SliceOf(i8), "variable"), Argument(ArrayOf("2", i32), "variable"),
     Argument(ArrayOf("2", Nil), "none"), Argument(Nil, "none"), Argument(Unknown, "none")}
Few == Constants \cup {Argument(i8, "variable"), Argument(i32, "none"), Argument(f32, "variable"), Argument(Nil, "none")}

Shapes == {T, U, i32, RefTo(T), SliceOf(T), ArrayOf("2", T), ArrayOf("N", T)}
NoBodies == <<[values |-> <<>>, calls |-> <<>>]>>
Sets == {<<>>, [T |-> {i8, i32}]}

OnRows(params, args, sets, bodies) ==
    {[params |-> p, args |-> a, sets |-> s, result |-> T, bodies |-> b] :
        p \in params, a \in args, s \in sets, b \in bodies}
Rows(set, n) == [1..n -> set]

\* The bodies of up to three generic functions, each for one parameter T.
Leaf(type, c) == [is |-> "leaf", type |-> type, constant |-> c, parts |-> <<>>]
Group(is, type, parts) == [is |-> is, type |-> type, constant |-> NoConstant, parts |-> parts]
Literal(n) == Leaf(i32, Constant(2 * n, FALSE))
Values ==
    {[value |-> Literal(3), declared |-> T], [value |-> Literal(20), declared |-> T],
     [value |-> Leaf(T, NoConstant), declared |-> i32],
     [value |-> Group("array", ArrayOf("2", i32), <<Literal(3), Literal(20)>>), declared |-> ArrayOf("2", T)],
     [value |-> Group("branch", i32, <<Literal(3), Group("branch", i32, <<Literal(3), Literal(40)>>)>>), declared |-> T],
     [value |-> Group("branch", ArrayOf("2", i32), <<Group("array", ArrayOf("2", i32), <<Literal(3), Literal(3)>>)>>),
      declared |-> ArrayOf("2", T)],
     [value |-> Group("branch", i32, <<Literal(3), Leaf(i32, NoConstant)>>), declared |-> T]}
Calling(target, type) == [target |-> target, mapping |-> [T |-> type]]
Body(values, calls) == [values |-> values, calls |-> calls]
OneValue == {<<>>} \cup {<<v>> : v \in Values}
CallsOfThird == {<<>>, <<Calling(3, T)>>, <<Calling(3, i8)>>}
Bodies ==
    {<<Body(v, <<Calling(2, t)>>), Body(w, c), Body(z, <<>>)>> :
        v \in {<<>>, <<[value |-> Literal(20), declared |-> T]>>}, w \in OneValue, z \in OneValue,
        t \in {T, i32}, c \in CallsOfThird}
    \cup {<<Body(<<>>, <<Calling(2, T), Calling(2, i32)>>), Body(v, <<>>)>> : v \in OneValue}
    \cup {<<Body(<<>>, <<Calling(2, T)>>), Body(<<>>, <<Calling(1, i8)>>)>>}

MCCalls ==
    OnRows(Rows(Shapes, 2), Rows(Constants \cup Typed, 2), {<<>>}, {NoBodies})
    \cup OnRows({<<T, T, T>>, <<T, RefTo(T), T>>}, Rows(Few, 3), Sets, {NoBodies})
    \cup OnRows({<<T>>, <<T, T>>}, Rows(Few, 1), Sets, {NoBodies})
    \cup OnRows({<<T>>}, {<<Argument(t, "none")>> : t \in {i8, i32, f32}}, {<<>>}, Bodies)
=============================================================================
