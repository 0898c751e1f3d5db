------------------------------- MODULE MCFold -------------------------------
(***************************************************************************)
(* Declarations whose initializers are built from a few integer and float  *)
(* literals, a named constant, variables and a literal that is too large,  *)
(* with types of a few values and floats of three and four bits.           *)
(***************************************************************************)
EXTENDS ConstantFolding

Whole(n) == Literal(Value(n, 1, "integer"))
Float(n, d) == Literal(Fraction(n, d, "float"))

MCBindings == [K |-> Value(3, 1, "integer")]
MCVarTypes == [x |-> "i8", y |-> "u8", f |-> "f32", b |-> "bool"]
MCRanges == [i8 |-> <<-2, 1>>, i32 |-> <<-8, 7>>, u8 |-> <<0, 3>>]
MCFormats ==
    [f32 |-> [precision |-> 3, emin |-> -2, emax |-> 3, bias |-> 3, width |-> 6],
     f64 |-> [precision |-> 4, emin |-> -2, emax |-> 3, bias |-> 3, width |-> 7]]

Prefixed(ops, S) == {Unary(op, a) : op \in ops, a \in S}
Joined(ops, S, T) == {Binary(op, a, b) : op \in ops, a \in S, b \in T}

Leaves == {Whole(2), Float(0, 1), Name("K"), Name("x"), Literal(Error(0))}
Atoms == Leaves \cup {Name(v) : v \in {"y", "f", "b"}} \cup {Whole(1), Whole(0), Float(3, 2)}
UnaryOps == {"NEG", "BIT_NOT", "NOT"}

\* Every operator once; some of them nested on either side, and in chains of three.
Flat == Joined(Foldable \cup Comparisons \cup Logical, Atoms, Atoms)
Small == Joined({"DIV", "ADD", "LT"}, {Whole(2), Float(0, 1), Name("x"), Whole(0)},
                {Whole(2), Float(0, 1), Name("x"), Whole(0)})
Smaller == Joined({"DIV", "ADD", "LT"}, {Whole(2), Float(0, 1), Name("x")}, {Name("x"), Whole(0)})
Some == {"ADD", "DIV", "SHL", "AND", "LT", "LOGICAL_AND"}
Nested ==
    Joined(Some, Smaller, Smaller) \cup Joined(Some, Small, {Whole(2), Name("f")})
    \cup Joined(Some, {Whole(2), Name("x")}, Small)
Chains == Joined(Some, Joined(Some, Small, {Whole(2), Name("x")}), {Whole(2), Name("x")})
Simple == Atoms \cup Prefixed(UnaryOps, Atoms)
Initializers ==
    Simple \cup Prefixed(UnaryOps, Small) \cup Prefixed(UnaryOps, Prefixed(UnaryOps, Leaves))
    \cup Flat \cup Nested \cup Chains

\* Pairs of constants for the laws, and constants around the edges of the formats.
Numbers == {Whole(n) : n \in 0..8} \cup {Float(n, 4) : n \in {0, 1, 4, 7, 9}}
SignedNumbers == Numbers \cup Prefixed({"NEG"}, Numbers)
Rounded == {Float(n, d) : n \in 0..70, d \in {1, 3, 8, 32}}

MCInitializations ==
    [expr : Joined({"MOD"}, SignedNumbers, SignedNumbers), target : {"const"}]
    \cup [expr : Rounded \cup Prefixed(UnaryOps, Atoms), target : {"f32", "f64", "u8"}]
    \cup [expr : Simple \cup Flat, target : {"const", "i32"}]
    \cup [expr : Initializers, target : {"var"}]
=============================================================================
