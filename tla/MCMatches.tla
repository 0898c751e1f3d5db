------------------------------ MODULE MCMatches ------------------------------
(***************************************************************************)
(* Matches of up to three patterns over booleans, an enum, a tagged union  *)
(* and integers around the last that is exact as a float.                  *)
(***************************************************************************)
EXTENDS Matches

MCScrutinees == [bool |-> {"true", "false"}, enum |-> {"Red", "Green"}, union |-> {"ok", "err"}, int |-> 0..8]

OneName(kind, names) == {Pattern(kind, <<n>>, 0, 0) : n \in names}
Catching == {Pattern("wildcard", <<>>, 0, 0), Pattern("capture", <<>>, 0, 0)}
Unknown == {Pattern("variable", <<"a">>, 0, 0)}
Bounds == {Pattern("bounds", b, 0, 0) : b \in {<<"a", "b">>, <<"b", "c">>, <<"c", "c">>}}
RangesOf(ends) == {Pattern("range", <<>>, e[1], e[2]) : e \in ends}

\* The patterns of each match, in cases of one or of two.
Cases(patterns, most) ==
    UNION {{[i \in 1..n |-> <<row[i]>>] : row \in [1..n -> patterns]} : n \in 1..most}
    \cup {<<<<p, q>>, <<r>>>> : p, q, r \in patterns}

On(type, cases) == [on : {type}, cases : cases, orelse : BOOLEAN]

MCMatchable ==
    On("bool", Cases(OneName("bool", {"true", "false"}) \cup Catching, 3))
    \cup On("enum", Cases(OneName("enum", {"Red", "Green"}) \cup Catching, 3))
    \cup On("union", Cases(OneName("tag", {"ok", "err"}) \cup Catching, 2))
    \cup On("int", Cases({Pattern("literal", <<>>, n, n) : n \in {0, 2, 5, 7}} \cup Catching \cup Unknown
                         \cup RangesOf({<<0, 2>>, <<2, 4>>, <<4, 3>>, <<3, 7>>}) \cup Bounds, 3))
=============================================================================
