----------------------------- MODULE ExactConstants -----------------------------
(***************************************************************************)
(* Exact numeric constants: a7/exact_constants.py.  A value is a fraction  *)
(* in lowest terms with a category: an integer constant, a floating one,   *)
(* or a floating zero whose sign bit is set.  Folding neither wraps nor    *)
(* rounds; a use is rounded once, to the format of its destination.        *)
(***************************************************************************)
EXTENDS Integers, Sequences, Bitwise

CONSTANTS
    MaxComponentBits,   \* the longest numerator or denominator of a result
    MaxTransientBits,   \* the longest result of a shift
    Formats             \* float type -> [precision, emin, emax, bias, width]

Arithmetic == {"ADD", "SUB", "MUL", "DIV", "MOD"}
Shifts == {"SHL", "SHR"}
Bits == {"AND", "OR", "XOR"} \cup Shifts
Foldable == Arithmetic \cup Bits

\* What an evaluation ends with.
None == [is |-> "none"]
Error(node) == [is |-> "error", at |-> node]
Value(n, d, category) == [is |-> "value", num |-> n, den |-> d, cat |-> category]

IsValue(r) == r.is = "value"

-----------------------------------------------------------------------------
Abs(n) == IF n < 0 THEN -n ELSE n

RECURSIVE Gcd(_, _)
Gcd(a, b) == IF b = 0 THEN a ELSE Gcd(b, a % b)

\* Fraction: lowest terms, positive denominator.
Fraction(n, d, category) ==
    LET g == Gcd(Abs(n), Abs(d)) * (IF d < 0 THEN -1 ELSE 1)
    IN  Value((IF g < 0 THEN -n ELSE n) \div Abs(g), Abs(d) \div Abs(g), category)

BitLength(n) == CHOOSE k \in 0..30 : 2^k > Abs(n) /\ (k > 0 => 2^(k - 1) <= Abs(n))

\* Two's complement of unbounded width, in a window no operand fills.
Window == 2^(MaxTransientBits + 1)
Pattern(n) == n % Window
Signed(p) == IF 2 * p >= Window THEN p - Window ELSE p

Truncated(n, d) == IF n < 0 THEN -((-n) \div d) ELSE n \div d

Negative(v) == v.num < 0 \/ v.cat = "negative_zero"

Zero(v) == v.num = 0

\* UnaryOp.NEG: a floating zero changes its sign bit only.
Negated(v) ==
    IF v.cat # "integer" /\ Zero(v)
    THEN [v EXCEPT !.cat = IF @ = "negative_zero" THEN "float" ELSE "negative_zero"]
    ELSE [v EXCEPT !.num = -@]

ShiftLeft(a, b, node) ==
    IF BitLength(a) + b > MaxTransientBits THEN Error(node) ELSE Value(a * 2^b, 1, "integer")

ShiftRight(a, b) ==
    Value(IF b > BitLength(a) THEN IF a < 0 THEN -1 ELSE 0 ELSE a \div 2^b, 1, "integer")

FoldBitwise(op, l, r, node) ==
    IF {l.cat, r.cat} # {"integer"} THEN None
    ELSE CASE op = "AND" -> Value(Signed(Pattern(l.num) & Pattern(r.num)), 1, "integer")
           [] op = "OR" -> Value(Signed(Pattern(l.num) | Pattern(r.num)), 1, "integer")
           [] op = "XOR" -> Value(Signed(Pattern(l.num) ^^ Pattern(r.num)), 1, "integer")
           [] op \in Shifts /\ r.num < 0 -> Error(node)
           [] op = "SHL" /\ r.num >= 0 -> ShiftLeft(l.num, r.num, node)
           [] OTHER -> ShiftRight(l.num, r.num)

\* Which sign the zero of a floating result gets.
ZeroIsNegative(op, l, r) ==
    CASE op = "ADD" -> Negative(l) /\ Negative(r)
      [] op = "SUB" -> Negative(l) /\ ~Negative(r)
      [] op \in {"MUL", "DIV"} -> Negative(l) # Negative(r)
      [] op = "MOD" -> Negative(l)

WithZeroSign(op, l, r, v) ==
    IF v.cat = "float" /\ Zero(v) /\ ZeroIsNegative(op, l, r) THEN [v EXCEPT !.cat = "negative_zero"] ELSE v

\* The quotient of two fractions cut towards zero.
Cut(l, r) == LET q == Fraction(l.num * r.den, l.den * r.num, "integer") IN Truncated(q.num, q.den)

Combined(op, l, r, category) ==
    CASE op = "ADD" -> Fraction(l.num * r.den + r.num * l.den, l.den * r.den, category)
      [] op = "SUB" -> Fraction(l.num * r.den - r.num * l.den, l.den * r.den, category)
      [] op = "MUL" -> Fraction(l.num * r.num, l.den * r.den, category)
      [] op = "DIV" -> IF category = "float" THEN Fraction(l.num * r.den, l.den * r.num, category)
                       ELSE Value(Cut(l, r), 1, category)
      [] op = "MOD" -> Fraction(l.num * r.den - Cut(l, r) * r.num * l.den, l.den * r.den, category)

FoldArithmetic(op, l, r, node) ==
    LET category == IF {l.cat, r.cat} = {"integer"} THEN "integer" ELSE "float"
    IN  IF op \in {"DIV", "MOD"} /\ Zero(r)
        THEN IF category = "integer" THEN None ELSE Error(node)
        ELSE WithZeroSign(op, l, r, Combined(op, l, r, category))

\* The limit on the size of what a fold gives.
Limited(v, node) ==
    IF IsValue(v) /\ (BitLength(v.num) > MaxComponentBits \/ BitLength(v.den) > MaxComponentBits)
    THEN Error(node) ELSE v

\* The only element of a set; {F(v) : v \in {e}} evaluates e once.
The(S) == CHOOSE x \in S : TRUE

Fold(op, l, r, node) ==
    The({Limited(v, node) : v \in {IF op \in Arithmetic THEN FoldArithmetic(op, l, r, node)
                                    ELSE FoldBitwise(op, l, r, node)}})

Compare(op, l, r) ==
    LET a == l.num * r.den
        b == r.num * l.den
    IN  CASE op = "EQ" -> a = b [] op = "NE" -> a # b [] op = "LT" -> a < b
          [] op = "LE" -> a <= b [] op = "GT" -> a > b [] op = "GE" -> a >= b

-----------------------------------------------------------------------------
(* ieee_bits: nearest, ties to even, in integers only.                     *)

\* The exponent of the leading bit of n / d.
LeadingExponent(n, d) ==
    LET guess == BitLength(n) - BitLength(d)
    IN  IF (IF guess >= 0 THEN n < d * 2^guess ELSE n * 2^(-guess) < d) THEN guess - 1 ELSE guess

Larger(a, b) == IF a < b THEN b ELSE a

\* Mutant: a tie is rounded up.
HalfUp(num, den) == (2 * num + den) \div (2 * den)

NearestEven(num, den) ==
    LET down == num \div den
        remainder == num % den
    IN  IF 2 * remainder > den \/ (2 * remainder = den /\ down % 2 = 1) THEN down + 1 ELSE down

\* n / d in units of the spacing of the floats around it, rounded.
Significand(n, d, exponent, f) ==
    LET shift == Larger(exponent, f.emin) - (f.precision - 1)
        num == IF shift >= 0 THEN n ELSE n * 2^(-shift)
        den == IF shift >= 0 THEN d * 2^shift ELSE d
    IN  NearestEven(num, den)

\* The pattern of a value in a format; -1 stands for "overflows".
IeeeBits(v, f) ==
    LET sign == IF Negative(v) THEN 2^(f.width - 1) ELSE 0
        exponent == LeadingExponent(Abs(v.num), v.den)
        rounded == Significand(Abs(v.num), v.den, exponent, f)
        hidden == 2^(f.precision - 1)
        carries == rounded = 2 * hidden
        significand == IF carries THEN rounded \div 2 ELSE rounded
        final == IF carries THEN exponent + 1 ELSE exponent
    IN  IF Zero(v) THEN sign
        ELSE IF final > f.emax THEN -1
        ELSE IF significand < hidden THEN sign + significand
        ELSE sign + (Larger(final, f.emin) + f.bias) * hidden + (significand - hidden)

-----------------------------------------------------------------------------
(* What the operations promise.                                            *)

\* The magnitude a pattern stands for, in units of the smallest float.
Units(p, f) ==
    LET hidden == 2^(f.precision - 1)
        magnitude == p % 2^(f.width - 1)
        field == magnitude \div hidden
    IN  IF field = 0 THEN magnitude ELSE (hidden + (magnitude % hidden)) * 2^(field - 1)

Largest(f) == 2^(f.emax - f.emin) * (2^f.precision - 1)

\* No float is nearer than the one chosen, a tie goes to the even one, the sign
\* is kept, and only what lies half a step beyond the largest float overflows.
RoundsToNearest(v, f, bits) ==
    LET scale == 2^(f.precision - 1 - f.emin)   \* units in 1
        x == Abs(v.num) * scale                 \* the value is x / v.den units
        Distance(u) == Abs(x - u * v.den)
        finite == 0..(2^(f.width - 1) - 2^(f.precision - 1) - 1)
        step == 2^(f.emax - f.emin)             \* between the largest two
    IN  IF bits = -1 THEN 2 * x >= v.den * (2 * Largest(f) + step)
        ELSE /\ bits \div 2^(f.width - 1) = (IF Negative(v) THEN 1 ELSE 0)
             /\ bits % 2^(f.width - 1) \in finite
             /\ \A other \in finite :
                    LET d == Distance(Units(bits, f))
                        e == Distance(Units(other, f))
                    IN  d < e \/ (d = e /\ (other = bits % 2^(f.width - 1) \/ bits % 2 = 0))
             /\ 2 * x < v.den * (2 * Largest(f) + step)

\* The laws of each operator, in integers: division and remainder belong
\* together and cut towards zero, a shift multiplies or divides by a power of
\* two rounding down, and the three bitwise operators determine each other.
FoldsExactly(l, r) ==
    LET q == Fold("DIV", l, r, 0)
        m == Fold("MOD", l, r, 0)
        both == Fold("AND", l, r, 0)
        either == Fold("OR", l, r, 0)
        one == Fold("XOR", l, r, 0)
        left == Fold("SHL", l, r, 0)
        right == Fold("SHR", l, r, 0)
        Bit(n, k) == (n \div 2^k) % 2
        integers == {l.cat, r.cat} = {"integer"}
    IN  /\ integers /\ ~Zero(r) =>
               /\ l.num = q.num * r.num + m.num
               /\ Abs(m.num) < Abs(r.num)
               /\ m.num = 0 \/ (m.num < 0) = (l.num < 0)
        /\ integers /\ Zero(r) => q = None /\ m = None
        /\ ~integers /\ Zero(r) => q.is = "error" /\ m.is = "error"
        /\ ~integers /\ ~Zero(r) /\ IsValue(q) =>
               /\ q.num * r.num * l.den = l.num * q.den * r.den
               /\ (q.cat = "negative_zero") = (Zero(l) /\ Negative(l) # Negative(r))
        /\ ~integers /\ ~Zero(r) /\ IsValue(m) =>
               /\ Abs(m.num) * r.den < Abs(r.num) * m.den
               /\ Negative(m) = Negative(l)
               /\ \E k \in -64..64 : (l.num * m.den - m.num * l.den) * r.den = k * r.num * l.den * m.den
        /\ ~integers => both = None /\ left = None
        /\ integers /\ IsValue(either) /\ IsValue(one) =>
               /\ both.num + either.num = l.num + r.num
               /\ one.num = either.num - both.num
               /\ \A k \in 0..MaxTransientBits :
                      Bit(both.num, k) = 1 <=> Bit(l.num, k) = 1 /\ Bit(r.num, k) = 1
               /\ (both.num < 0) = (l.num < 0 /\ r.num < 0)
        /\ integers /\ r.num < 0 => left.is = "error" /\ right.is = "error"
        /\ integers /\ r.num >= 0 =>
               /\ IsValue(left) => left.num = l.num * 2^r.num
               /\ right.num * 2^r.num <= l.num /\ l.num < (right.num + 1) * 2^r.num
=============================================================================
