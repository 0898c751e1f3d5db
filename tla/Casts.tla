--------------------------------- MODULE Casts ---------------------------------
(***************************************************************************)
(* A cast from its types to the Zig that converts: its class               *)
(* (a7/cast_classifier.py), the range proof that may approve or refuse it  *)
(* (a7/passes/safety.py, _cast_fact), and the one conversion that is       *)
(* emitted for it (a7/backends/zig.py, _emit_cast), which stands for every *)
(* type that a generic parameter admits.                                   *)
(***************************************************************************)
EXTENDS Integers, FiniteSets

CONSTANTS
    SignedBits,     \* name -> width, and likewise the next two
    UnsignedBits,
    FloatBits,
    Operands        \* the casts to consider: [source, target, low, high, literal]

VARIABLES
    cast,
    decision,       \* the class given, or "" before
    proof,          \* "", "approved" or "refused"
    emitted         \* the conversion emitted, or ""

castVars == <<cast, decision, proof, emitted>>

\* A primitive type, a generic parameter with the types it admits ({} if it has no
\* constraint), or one that cannot be cast.
Primitive(name) == [name |-> name, admits |-> {name}, kind |-> "primitive"]
Generic(name, admits) == [name |-> name, admits |-> admits, kind |-> "generic"]
Reference == [name |-> "ref", admits |-> {}, kind |-> "reference"]

Signed == DOMAIN SignedBits
Unsigned == DOMAIN UnsignedBits
Integral == Signed \cup Unsigned
Numeric == Integral \cup DOMAIN FloatBits

TwoTo[n \in Nat] == IF n = 0 THEN 1 ELSE 2 * TwoTo[n - 1]

RangeOf(name) ==
    IF name \in Signed THEN -TwoTo[SignedBits[name] - 1]..(TwoTo[SignedBits[name] - 1] - 1)
    ELSE 0..(TwoTo[UnsignedBits[name]] - 1)

IsType(type) ==
    CASE type.kind = "primitive" -> type = Primitive(type.name)
      [] type.kind = "generic" -> type = Generic(type.name, type.admits) /\ type.name \notin Numeric
      [] OTHER -> type = Reference

\* What the analysis knows of an operand c: an interval of integers, in the range of
\* their type; of a float nothing, unless it is a literal; a literal is one number.
IsOperand(c) ==
    /\ c.low \in Int /\ c.high \in Int /\ c.literal \in BOOLEAN
    /\ c.literal => c.source.kind = "primitive" /\ c.low >= c.high
    /\ c.low > c.high => (c.literal => c.source.name \in DOMAIN FloatBits)
    /\ c.low <= c.high =>
          \/ c.source.kind = "generic" /\ c.source.admits \subseteq Integral /\ c.source.admits # {}
          \/ /\ c.source.kind = "primitive" /\ c.source.name \in Integral
             /\ {c.low, c.high} \subseteq RangeOf(c.source.name)
          \/ c.source.kind = "primitive" /\ c.source.name \in DOMAIN FloatBits /\ c.literal

CastParameters ==
    /\ SignedBits \in [Signed -> Nat \ {0}]
    /\ UnsignedBits \in [Unsigned -> Nat \ {0}]
    /\ FloatBits \in [DOMAIN FloatBits -> Nat \ {0}]
    /\ Signed \cap Unsigned = {} /\ Integral \cap DOMAIN FloatBits = {}
    /\ \A c \in Operands : IsType(c.source) /\ IsType(c.target) /\ IsOperand(c)

\* No cast from a float to a parameter, and none between two parameters.
Settled ==
    \A c \in Operands : c.target.kind = "generic" =>
        /\ c.source.kind = "generic" => c.source = c.target
        /\ c.source.kind = "primitive" => c.source.name \notin DOMAIN FloatBits

\* The interval known of the operand, as the analysis keeps it: low and high, both
\* unknown if low > high.
IntervalKnown == cast.low <= cast.high
IsNonnegative == IntervalKnown /\ cast.low >= 0
RangeFits(type) ==
    type.kind = "primitive" /\ type.name \in Integral /\ IntervalKnown
    /\ cast.low \in RangeOf(type.name) /\ cast.high \in RangeOf(type.name)

-----------------------------------------------------------------------------
(* cast_classifier.py                                                      *)

\* Mutant: an unsigned value is taken to fit a signed type of its width.
SameWidthFits(s, t) ==
    \/ s \in Signed /\ t \in Signed /\ SignedBits[t] >= SignedBits[s]
    \/ s \in Unsigned /\ t \in Unsigned /\ UnsignedBits[t] >= UnsignedBits[s]
    \/ s \in Unsigned /\ t \in Signed /\ SignedBits[t] >= UnsignedBits[s]
    \/ s \in DOMAIN FloatBits /\ t \in DOMAIN FloatBits /\ FloatBits[t] >= FloatBits[s]

IsLosslessNumericCast(s, t) ==
    \/ s \in Signed /\ t \in Signed /\ SignedBits[t] >= SignedBits[s]
    \/ s \in Unsigned /\ t \in Unsigned /\ UnsignedBits[t] >= UnsignedBits[s]
    \/ s \in Unsigned /\ t \in Signed /\ SignedBits[t] > UnsignedBits[s]
    \/ s \in DOMAIN FloatBits /\ t \in DOMAIN FloatBits /\ FloatBits[t] >= FloatBits[s]

ClassifyPrimitive(s, t, nonnegative) ==
    CASE ~{s, t} \subseteq Numeric -> "FORBIDDEN"
      [] {s, t} \subseteq Numeric /\ IsLosslessNumericCast(s, t) -> "LOSSLESS"
      [] {s, t} \subseteq Integral /\ ~IsLosslessNumericCast(s, t) ->
             IF s \in Signed /\ t \in Unsigned /\ nonnegative THEN "PROVABLE_NARROWING" ELSE "FORBIDDEN"
      [] OTHER -> "EXPLICIT_NUMERIC"

Strictness == <<"LOSSLESS", "EXPLICIT_NUMERIC", "PROVABLE_NARROWING", "FORBIDDEN">>

IntegersOnly(type) == type.admits \subseteq Integral

\* A generic cast has the strictest class of the pairs it admits; one conversion
\* has to do for all, so what is not lossless must be of integers on one side.
ClassifyGeneric(source, target, nonnegative) ==
    LET classes == {ClassifyPrimitive(s, t, nonnegative) : s \in source.admits, t \in target.admits}
        strictest == CHOOSE i \in DOMAIN Strictness :
                         Strictness[i] \in classes /\ \A j \in (i + 1)..4 : Strictness[j] \notin classes
        side == IF source.kind = "generic" THEN source ELSE target
    IN  IF source = target THEN "LOSSLESS"
        ELSE IF \E type \in {source, target} :
                    type.kind = "generic" /\ (type.admits = {} \/ ~type.admits \subseteq Numeric)
        THEN "FORBIDDEN"
        ELSE IF Strictness[strictest] # "LOSSLESS" /\ ~IntegersOnly(side) THEN "FORBIDDEN"
        ELSE Strictness[strictest]

ClassOf(source, target, nonnegative) ==
    IF "reference" \in {source.kind, target.kind} THEN "FORBIDDEN"
    ELSE IF "generic" \in {source.kind, target.kind} THEN ClassifyGeneric(source, target, nonnegative)
    ELSE IF source = target /\ source.name \in Numeric THEN "LOSSLESS"
    ELSE ClassifyPrimitive(source.name, target.name, nonnegative)

\* _cast_fact: integers of known range may narrow, and prove what the classifier
\* could not.
Classify ==
    /\ decision = ""
    /\ LET class == ClassOf(cast.source, cast.target, IsNonnegative)
       IN  decision' = IF /\ class = "FORBIDDEN"
                          /\ cast.source.kind = "primitive" /\ cast.source.name \in Integral
                          /\ RangeFits(cast.target)
                       THEN "PROVABLE_NARROWING" ELSE class
    /\ UNCHANGED <<cast, proof, emitted>>

-----------------------------------------------------------------------------
(* safety.py: the proof of the obligation                                  *)

FloatToIntProven == cast.literal /\ RangeFits(cast.target)

FloatToIntUnproven ==
    /\ cast.source.kind = "primitive" /\ cast.source.name \in DOMAIN FloatBits
    /\ cast.target.kind = "primitive" /\ cast.target.name \in Integral
    /\ ~FloatToIntProven

CastRefused ==
    \/ decision = "FORBIDDEN"
    \/ decision = "PROVABLE_NARROWING" /\ ~RangeFits(cast.target)
    \/ FloatToIntUnproven

Prove ==
    /\ decision # "" /\ proof = ""
    /\ proof' = IF CastRefused THEN "refused" ELSE "approved"
    /\ UNCHANGED <<cast, decision, emitted>>

-----------------------------------------------------------------------------
(* zig.py: _emit_cast                                                      *)

\* The name of a generic parameter is no float's.
Conversion ==
    LET source == cast.source.name
        target == cast.target.name
        floats == DOMAIN FloatBits
    IN  CASE decision = "LOSSLESS" -> "as"
          [] decision # "LOSSLESS" /\ {source, target} \subseteq floats -> "floatCast"
          [] decision # "LOSSLESS" /\ source \in floats /\ target \notin floats -> "intFromFloat"
          [] decision # "LOSSLESS" /\ source \notin floats /\ target \in floats -> "floatFromInt"
          [] OTHER -> IF cast.literal /\ IsNonnegative THEN "as" ELSE "intCast"

Emit ==
    /\ proof = "approved" /\ emitted = ""
    /\ emitted' = Conversion
    /\ UNCHANGED <<cast, decision, proof>>

CastInit ==
    /\ cast \in Operands
    /\ decision = ""
    /\ proof = ""
    /\ emitted = ""

CastNext == Classify \/ Prove \/ Emit

CastSpec == CastInit /\ [][CastNext]_castVars

-----------------------------------------------------------------------------
(* What a conversion does                                                  *)

\* The integers that the operand may have when its type is s.
OperandValues(s) == IF IntervalKnown THEN (cast.low..cast.high) \cap RangeOf(s) ELSE RangeOf(s)

\* Zig accepts the conversion from s to t, and no value of the operand traps in it.
Converts(s, t) ==
    CASE emitted = "as" ->
             \/ s = t
             \/ {s, t} \subseteq DOMAIN FloatBits /\ FloatBits[s] <= FloatBits[t]
             \/ {s, t} \subseteq Integral /\ RangeOf(s) \subseteq RangeOf(t)
             \/ cast.literal /\ {s, t} \subseteq Integral /\ cast.low \in RangeOf(t)
      [] emitted = "floatCast" -> {s, t} \subseteq DOMAIN FloatBits
      [] emitted = "intFromFloat" ->
             s \in DOMAIN FloatBits /\ t \in Integral /\ IntervalKnown /\ {cast.low, cast.high} \subseteq RangeOf(t)
      [] emitted = "floatFromInt" -> s \in Integral /\ t \in DOMAIN FloatBits
      [] emitted = "intCast" -> {s, t} \subseteq Integral /\ OperandValues(s) \subseteq RangeOf(t)

\* The conversion emitted for a cast is one that Zig accepts, and that no value of
\* the operand traps in, for each pair of types that its parameters admit; and a
\* cast all of whose values fit is refused only if its types do not admit it.
CastsConvert ==
    /\ emitted # "" =>
         /\ cast.source.kind # "reference" /\ cast.target.kind # "reference"
         /\ IF cast.source = cast.target THEN emitted = "as"
            ELSE \A s \in cast.source.admits, t \in cast.target.admits : Converts(s, t)
    /\ (proof = "refused" /\ cast.source.kind = "primitive" /\ cast.target.kind = "primitive") =>
         ~(/\ cast.source.name \in Integral /\ cast.target.name \in Numeric
           /\ cast.target.name \in Integral =>
                \/ RangeOf(cast.source.name) \subseteq RangeOf(cast.target.name)
                \/ IntervalKnown /\ cast.low \in RangeOf(cast.target.name) /\ cast.high \in RangeOf(cast.target.name))
=============================================================================
