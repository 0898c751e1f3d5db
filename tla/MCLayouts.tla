------------------------------ MODULE MCLayouts ------------------------------
(***************************************************************************)
(* Files of structs, a union and a generic struct that hold each other in  *)
(* every way, and structs of scalars of every size.                        *)
(***************************************************************************)
EXTENDS Layouts

Scalar(size) == Type("scalar", "", size, size, <<>>)
Named(name) == Type("named", name, 0, 0, <<>>)
Array(type) == Type("array", "", 3, 0, <<type>>)
Param == Type("param", "", 0, 0, <<>>)
Of(type) == Type("instance", "G", 0, 0, <<type>>)
Record(type) == Type("record", "", 0, 0, <<type>>)
Enum(names) == Type("enum", "", 0, names, <<>>)
Pointer == Type("pointer", "", 0, 0, <<>>)

Inner == {Scalar(1), Named("A"), Named("B"), Array(Named("B")), Named("U"), Of(Named("A")), Of(Pointer)}
Mutual ==
    {<<Declared("A", "struct", FALSE, <<f, Scalar(2), g>>), Declared("G", "struct", TRUE, <<p>>),
       Declared("U", "union", FALSE, <<Scalar(4), h>>), Declared("B", "struct", FALSE, <<k, Scalar(1)>>)>> :
        f \in Inner, g \in {Scalar(8), Named("B"), Record(Named("B"))},
        h \in {Scalar(1), Named("A"), Array(Named("B"))}, k \in Inner,
        p \in {Param, Of(Array(Param)), Of(Of(Pointer)), Record(Named("B")), Of(Named("A")), Scalar(8)}}
Plain ==
    {<<Declared("A", "struct", FALSE, <<f, g, h>>), Declared("U", "union", FALSE, <<f, g>>)>> :
        f, h \in {Scalar(1), Scalar(2), Scalar(8), Enum(1), Enum(256), Enum(257), Named("U")},
        g \in {Scalar(1), Scalar(4), Pointer, Type("slice", "", 0, 0, <<>>), Array(Scalar(2)),
               Type("enum", "", 1, 3, <<>>)}}
Waiting ==
    {<<Declared("A", "struct", FALSE, <<Named("B"), f, Named("C")>>), Declared("B", "struct", FALSE, <<Scalar(1), g>>),
       Declared("C", "struct", FALSE, <<Array(Named("D"))>>), Declared("U", "union", FALSE, <<Named("D"), h>>),
       Declared("D", "struct", FALSE, <<Scalar(8), h, Scalar(2)>>)>> :
        f, g \in {Scalar(1), Named("D"), Named("U")}, h \in {Scalar(1), Pointer, Record(Scalar(4))}}
\* None has a parameter in an anonymous struct: see CyclesReported.
MCFiles == Mutual \cup Plain \cup Waiting
=============================================================================
