------------------------------- MODULE MCCasts -------------------------------
(***************************************************************************)
(* Casts between every two types of scaled widths, of operands of which    *)
(* nothing, an interval or everything is known.                            *)
(***************************************************************************)
EXTENDS Casts

MCSignedBits == [i8 |-> 2, i16 |-> 3, i32 |-> 4, isize |-> 5]
MCUnsignedBits == [u8 |-> 2, u16 |-> 3, usize |-> 5]
MCFloatBits == [f32 |-> 3, f64 |-> 6]

Primitives == {Primitive(n) : n \in Numeric \cup {"bool"}}
Parameters ==
    {Generic("T", {}), Generic("T", Signed), Generic("T", {"u8"}), Generic("T", {"i8", "i16"}),
     Generic("T", {"i8", "u8", "bool"}), Generic("T", DOMAIN FloatBits), Generic("T", Numeric)}

\* What may be known of an operand: nothing, an interval, or the value of a literal.
Spans == {<<1, 0>>, <<0, 0>>, <<3, 3>>, <<7, 7>>, <<-3, 0>>, <<-1, 3>>, <<0, 3>>, <<2, 7>>}

OperandsOf(sources, targets) ==
    {[source |-> s, target |-> t, low |-> span[1], high |-> span[2], literal |-> literal] :
        s \in sources, t \in targets, span \in Spans, literal \in BOOLEAN}

Written ==
    OperandsOf(Primitives \cup {Reference}, Primitives \cup {Reference})
    \cup OperandsOf(Parameters, Primitives)
    \cup OperandsOf({p \in Primitives : p.name \notin DOMAIN FloatBits}, Parameters)
    \cup UNION {OperandsOf({p}, {p}) : p \in Parameters}

\* A float to a parameter, and a parameter to another.
BothWays ==
    OperandsOf(Primitives, Parameters)
    \cup OperandsOf(Parameters, {Generic("U", p.admits) : p \in Parameters})

CONSTANT Unsettled      \* whether these are among the casts
MCOperands == {c \in (IF Unsettled THEN BothWays ELSE Written) : IsOperand(c)}
=============================================================================
