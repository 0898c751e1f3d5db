------------------------------ MODULE CastsProofs ------------------------------
(* Proofs about casts: the one conversion that is emitted for a cast converts   *)
(* every value between every two types it may be between, for all widths.       *)
EXTENDS Casts, WellFoundedInduction, TLAPS

(***************************************************************************)
(* Powers of two                                                           *)
(***************************************************************************)

\* Induction over the numbers, for a set instead of a predicate.
LEMMA Induction ==
    ASSUME NEW T, 0 \in T, \A n \in Nat : n \in T => n + 1 \in T
    PROVE  Nat \subseteq T
<1>1. PICK Less : Less = OpToRel(<, Nat)
  OBVIOUS
<1>2. \A m, n \in Nat : <<m, n>> \in Less <=> m < n
  BY <1>1 DEF OpToRel
<1>3. SUFFICES ASSUME NEW U, U = Nat \ T, U # {} PROVE FALSE
  OBVIOUS
<1>4. PICK n \in U : \A m \in U : <<m, n>> \notin Less
  BY <1>1, <1>3, NatLessThanWellFounded, WFMin
<1>5. n \in Nat /\ n # 0 /\ n \notin T
  BY <1>3
<1>6. n - 1 \in Nat /\ n - 1 < n /\ n = (n - 1) + 1
  BY <1>5
<1>7. n - 1 \notin U
  BY <1>2, <1>3, <1>4, <1>5, <1>6
<1> QED
  BY <1>3, <1>5, <1>6, <1>7

\* The powers up to the n-th: a table that doubles.
Doubles(g, n) == /\ g \in [0..n -> Nat]
                 /\ g[0] = 1
                 /\ \A i \in 1..n : g[i] = 2 * g[i - 1]

\* There is exactly one such table.
LEMMA OneTable ==
    /\ \A n \in Nat : \E g : Doubles(g, n)
    /\ \A m, n \in Nat : \A g, h : Doubles(g, m) /\ Doubles(h, n) =>
           \A i \in Nat : i <= m /\ i <= n => g[i] = h[i]
<1>1. \A n \in Nat : \E g : Doubles(g, n)
  <2>1. PICK T : T = {n \in Nat : \E g : Doubles(g, n)}
    OBVIOUS
  <2>2. 0 \in T
    <3>1. Doubles([i \in 0..0 |-> 1], 0)
      BY DEF Doubles
    <3> QED
      BY <2>1, <3>1
  <2>3. ASSUME NEW n \in Nat, n \in T PROVE n + 1 \in T
    <3>1. PICK g : Doubles(g, n)
      BY <2>1, <2>3
    <3>2. PICK h : h = [i \in 0..(n + 1) |-> IF i <= n THEN g[i] ELSE 2 * g[n]]
      OBVIOUS
    <3>3. /\ g \in [0..n -> Nat] /\ g[0] = 1
          /\ \A i \in 1..n : g[i] = 2 * g[i - 1]
      BY <3>1 DEF Doubles
    <3>4. g[n] \in Nat
      BY <3>3
    <3>5. \A i \in 0..(n + 1) : h[i] \in Nat
      BY <3>2, <3>3, <3>4
    <3>6. h \in [0..(n + 1) -> Nat]
      BY <3>2, <3>5
    <3>7. h[0] = 1
      BY <3>2, <3>3
    <3>8. \A i \in 1..(n + 1) : h[i] = 2 * h[i - 1]
      BY <3>2, <3>3
    <3>9. Doubles(h, n + 1)
      BY <3>6, <3>7, <3>8 DEF Doubles
    <3> QED
      BY <2>1, <3>9
  <2> QED
    BY <2>1, <2>2, <2>3, Induction
<1>2. ASSUME NEW m \in Nat, NEW n \in Nat, NEW g, NEW h, Doubles(g, m), Doubles(h, n)
      PROVE  \A i \in Nat : i <= m /\ i <= n => g[i] = h[i]
  <2>1. PICK T : T = {i \in Nat : i <= m /\ i <= n => g[i] = h[i]}
    OBVIOUS
  <2>2. 0 \in T
    BY <1>2, <2>1 DEF Doubles
  <2>3. ASSUME NEW i \in Nat, i \in T PROVE i + 1 \in T
    <3>1. CASE i + 1 <= m /\ i + 1 <= n
      <4>1. g[i] = h[i] /\ (i + 1) - 1 = i /\ i + 1 \in 1..m /\ i + 1 \in 1..n
        BY <2>1, <2>3, <3>1
      <4>2. g[i + 1] = 2 * g[(i + 1) - 1] /\ h[i + 1] = 2 * h[(i + 1) - 1]
        BY <1>2, <4>1 DEF Doubles
      <4> QED
        BY <2>1, <4>1, <4>2
    <3> QED
      BY <2>1, <3>1
  <2> QED
    BY <2>1, <2>2, <2>3, Induction
<1> QED
  BY <1>1, <1>2

\* The recursive definition of the powers defines them.
LEMMA PowerDef == /\ TwoTo[0] = 1
                  /\ \A n \in Nat : TwoTo[n] \in Nat /\ TwoTo[n + 1] = 2 * TwoTo[n]
<1>1. PICK table : table = [n \in Nat |-> CHOOSE g : Doubles(g, n)]
  OBVIOUS
<1>2. \A n \in Nat : Doubles(table[n], n)
  BY <1>1, OneTable
<1>3. PICK f : f = [n \in Nat |-> table[n][n]]
  OBVIOUS
<1>4. f[0] = 1
  BY <1>2, <1>3 DEF Doubles
<1>5. ASSUME NEW n \in Nat PROVE f[n] \in Nat /\ f[n + 1] = 2 * f[n]
  <2>1. n + 1 \in Nat /\ n + 1 \in 1..(n + 1) /\ (n + 1) - 1 = n /\ n <= n /\ n <= n + 1
    OBVIOUS
  <2>2. f[n + 1] = table[n + 1][n + 1] /\ f[n] = table[n][n]
    BY <1>3, <2>1
  <2>3. table[n + 1][n + 1] = 2 * table[n + 1][n]
    BY <1>2, <2>1 DEF Doubles
  <2>4. table[n + 1][n] = table[n][n]
    BY <1>2, <2>1, OneTable
  <2>5. table[n][n] \in Nat
    BY <1>2 DEF Doubles
  <2> QED
    BY <2>2, <2>3, <2>4, <2>5
<1>6. f = [n \in Nat |-> IF n = 0 THEN 1 ELSE 2 * f[n - 1]]
  <2>1. ASSUME NEW n \in Nat PROVE f[n] = IF n = 0 THEN 1 ELSE 2 * f[n - 1]
    <3>1. n # 0 => n - 1 \in Nat /\ (n - 1) + 1 = n
      OBVIOUS
    <3> QED
      BY <1>4, <1>5, <3>1
  <2> QED
    BY <1>3, <2>1
<1>7. TwoTo = CHOOSE g : g = [n \in Nat |-> IF n = 0 THEN 1 ELSE 2 * g[n - 1]]
  BY DEF TwoTo
<1>8. TwoTo = [n \in Nat |-> IF n = 0 THEN 1 ELSE 2 * TwoTo[n - 1]]
  BY <1>6, <1>7
<1>9. ASSUME NEW n \in Nat PROVE TwoTo[n + 1] = 2 * TwoTo[n]
  <2>1. n + 1 \in Nat /\ n + 1 # 0 /\ (n + 1) - 1 = n
    OBVIOUS
  <2> QED
    BY <1>8, <2>1
<1>10. TwoTo[0] = 1
  BY <1>8
<1>11. \A n \in Nat : TwoTo[n] \in Nat
  <2>1. PICK T : T = {n \in Nat : TwoTo[n] \in Nat}
    OBVIOUS
  <2>2. 0 \in T /\ \A n \in Nat : n \in T => n + 1 \in T
    BY <1>9, <1>10, <2>1
  <2> QED
    BY <2>1, <2>2, Induction
<1> QED
  BY <1>9, <1>10, <1>11

\* They grow.
LEMMA PowersGrow ==
    \A m, n \in Nat : /\ TwoTo[m] \in Nat /\ TwoTo[m] >= 1
                      /\ m < n => TwoTo[m] < TwoTo[n]
                      /\ m <= n <=> TwoTo[m] <= TwoTo[n]
<1>1. \A n \in Nat : TwoTo[n] \in Nat /\ TwoTo[n] >= 1
  <2>1. PICK T : T = {n \in Nat : TwoTo[n] >= 1}
    OBVIOUS
  <2>2. 0 \in T /\ \A n \in Nat : n \in T => n + 1 \in T
    BY <2>1, PowerDef
  <2> QED
    BY <2>1, <2>2, Induction, PowerDef
<1>2. ASSUME NEW m \in Nat, NEW n \in Nat, m < n PROVE TwoTo[m] < TwoTo[n]
  <2>1. PICK T : T = {k \in Nat : TwoTo[m] < TwoTo[m + k + 1]}
    OBVIOUS
  <2>2. 0 \in T
    BY <1>1, <2>1, PowerDef
  <2>3. ASSUME NEW k \in Nat, k \in T PROVE k + 1 \in T
    <3>1. PICK j \in Nat : j = m + k + 1
      OBVIOUS
    <3>2. TwoTo[m] < TwoTo[j] /\ TwoTo[j + 1] = 2 * TwoTo[j] /\ TwoTo[j] >= 1 /\ TwoTo[m] \in Nat
          /\ TwoTo[j] \in Nat
      BY <1>1, <2>1, <2>3, <3>1, PowerDef
    <3>3. TwoTo[m] < TwoTo[j + 1] /\ j + 1 = m + (k + 1) + 1
      BY <3>1, <3>2
    <3> QED
      BY <2>1, <3>3
  <2>4. n - m - 1 \in Nat /\ m + (n - m - 1) + 1 = n
    BY <1>2
  <2>5. n - m - 1 \in T
    BY <2>1, <2>2, <2>3, <2>4, Induction
  <2> QED
    BY <2>1, <2>4, <2>5
<1> QED
  BY <1>1, <1>2

(***************************************************************************)
(* Types                                                                   *)
(***************************************************************************)

\* The range of an integer type, by its bounds.
LEMMA Ranges ==
    ASSUME CastParameters
    PROVE  /\ \A s \in Signed : \E p \in Nat : p = TwoTo[SignedBits[s] - 1] /\ RangeOf(s) = (-p)..(p - 1) /\ p >= 1
           /\ \A s \in Unsigned : \E p \in Nat : p = TwoTo[UnsignedBits[s]] /\ RangeOf(s) = 0..(p - 1) /\ p >= 1
<1>1. \A s \in Signed : SignedBits[s] - 1 \in Nat
  BY DEF CastParameters
<1>2. \A s \in Unsigned : UnsignedBits[s] \in Nat /\ s \notin Signed
  BY DEF CastParameters
<1> QED
  BY <1>1, <1>2, PowersGrow DEF RangeOf

\* A range is an interval.
LEMMA RangesAreConvex ==
    ASSUME CastParameters, NEW t \in Integral, NEW low \in RangeOf(t), NEW high \in RangeOf(t)
    PROVE  low \in Int /\ high \in Int /\ low..high \subseteq RangeOf(t)
BY Ranges DEF Integral

\* The classifier compares widths; of integers these are the casts that keep every value.
LEMMA LosslessMeansRanges ==
    ASSUME CastParameters, NEW s \in Integral, NEW t \in Integral
    PROVE  IsLosslessNumericCast(s, t) <=> RangeOf(s) \subseteq RangeOf(t)
<1>1. s \notin DOMAIN FloatBits /\ t \notin DOMAIN FloatBits
  BY DEF CastParameters
<1>2. \A x \in Signed : x \notin Unsigned /\ SignedBits[x] \in Nat /\ SignedBits[x] - 1 \in Nat
  BY DEF CastParameters
<1>3. \A x \in Unsigned : x \notin Signed /\ UnsignedBits[x] \in Nat /\ UnsignedBits[x] >= 1
  BY DEF CastParameters
<1>4. CASE s \in Signed /\ t \in Signed
  <2>1. PICK a \in Nat, b \in Nat :
            /\ a = TwoTo[SignedBits[s] - 1] /\ b = TwoTo[SignedBits[t] - 1] /\ a >= 1 /\ b >= 1
            /\ RangeOf(s) = (-a)..(a - 1) /\ RangeOf(t) = (-b)..(b - 1)
    BY <1>4, Ranges
  <2>2. SignedBits[s] <= SignedBits[t] <=> a <= b
    <3>1. SignedBits[s] <= SignedBits[t] <=> SignedBits[s] - 1 <= SignedBits[t] - 1
      BY <1>2, <1>4
    <3> QED
      BY <1>2, <1>4, <2>1, <3>1, PowersGrow
  <2>3. RangeOf(s) \subseteq RangeOf(t) <=> a <= b
    <3>1. -a \in RangeOf(s)
      BY <2>1
    <3> QED
      BY <2>1, <3>1
  <2>4. IsLosslessNumericCast(s, t) <=> SignedBits[s] <= SignedBits[t]
    BY <1>1, <1>2, <1>4 DEF IsLosslessNumericCast
  <2> QED
    BY <2>2, <2>3, <2>4
<1>5. CASE s \in Unsigned /\ t \in Unsigned
  <2>1. PICK a \in Nat, b \in Nat :
            /\ a = TwoTo[UnsignedBits[s]] /\ b = TwoTo[UnsignedBits[t]] /\ a >= 1 /\ b >= 1
            /\ RangeOf(s) = 0..(a - 1) /\ RangeOf(t) = 0..(b - 1)
    BY <1>5, Ranges
  <2>2. UnsignedBits[s] <= UnsignedBits[t] <=> a <= b
    BY <1>3, <1>5, <2>1, PowersGrow
  <2>3. RangeOf(s) \subseteq RangeOf(t) <=> a <= b
    <3>1. a - 1 \in RangeOf(s)
      BY <2>1
    <3> QED
      BY <2>1, <3>1
  <2>4. IsLosslessNumericCast(s, t) <=> UnsignedBits[s] <= UnsignedBits[t]
    BY <1>1, <1>3, <1>5 DEF IsLosslessNumericCast
  <2> QED
    BY <2>2, <2>3, <2>4
<1>6. CASE s \in Unsigned /\ t \in Signed
  <2>1. PICK a \in Nat, b \in Nat :
            /\ a = TwoTo[UnsignedBits[s]] /\ b = TwoTo[SignedBits[t] - 1] /\ a >= 1 /\ b >= 1
            /\ RangeOf(s) = 0..(a - 1) /\ RangeOf(t) = (-b)..(b - 1)
    BY <1>6, Ranges
  <2>2. UnsignedBits[s] < SignedBits[t] <=> a <= b
    <3>1. UnsignedBits[s] < SignedBits[t] <=> UnsignedBits[s] <= SignedBits[t] - 1
      BY <1>2, <1>3, <1>6
    <3> QED
      BY <1>2, <1>3, <1>6, <2>1, <3>1, PowersGrow
  <2>3. RangeOf(s) \subseteq RangeOf(t) <=> a <= b
    <3>1. a - 1 \in RangeOf(s)
      BY <2>1
    <3> QED
      BY <2>1, <3>1
  <2>4. IsLosslessNumericCast(s, t) <=> UnsignedBits[s] < SignedBits[t]
    BY <1>1, <1>2, <1>3, <1>6 DEF IsLosslessNumericCast
  <2> QED
    BY <2>2, <2>3, <2>4
<1>7. CASE s \in Signed /\ t \in Unsigned
  <2>1. PICK a \in Nat, b \in Nat :
            /\ a >= 1 /\ RangeOf(s) = (-a)..(a - 1) /\ RangeOf(t) = 0..(b - 1)
    BY <1>7, Ranges
  <2>2. -a \in RangeOf(s) /\ -a \notin RangeOf(t)
    BY <2>1
  <2>3. ~IsLosslessNumericCast(s, t)
    BY <1>1, <1>2, <1>3, <1>7 DEF IsLosslessNumericCast
  <2> QED
    BY <2>2, <2>3
<1> QED
  BY <1>4, <1>5, <1>6, <1>7 DEF Integral

\* A cast between two types is lossless if Zig's @as converts it.
LEMMA LosslessConverts ==
    ASSUME CastParameters, NEW s \in Numeric, NEW t \in Numeric, IsLosslessNumericCast(s, t), emitted = "as"
    PROVE  Converts(s, t)
<1>1. CASE s \in Integral /\ t \in Integral
  BY <1>1, LosslessMeansRanges DEF Converts
<1>2. CASE ~(s \in Integral /\ t \in Integral)
  <2>1. {s, t} \subseteq DOMAIN FloatBits /\ FloatBits[s] <= FloatBits[t]
    BY <1>2 DEF IsLosslessNumericCast, Integral, Numeric, CastParameters
  <2> QED
    BY <2>1 DEF Converts
<1> QED
  BY <1>1, <1>2

(***************************************************************************)
(* Classes                                                                 *)
(***************************************************************************)

\* The class of a cast between two named types.
LEMMA PairClass ==
    ASSUME CastParameters, NEW s, NEW t, NEW nonnegative, NEW class,
           class = ClassifyPrimitive(s, t, nonnegative)
    PROVE  /\ ~{s, t} \subseteq Numeric => class = "FORBIDDEN"
           /\ {s, t} \subseteq Numeric /\ IsLosslessNumericCast(s, t) => class = "LOSSLESS"
           /\ {s, t} \subseteq Integral /\ ~IsLosslessNumericCast(s, t) =>
                  class \in {"PROVABLE_NARROWING", "FORBIDDEN"}
           /\ {s, t} \subseteq Numeric /\ ~IsLosslessNumericCast(s, t) /\ ~{s, t} \subseteq Integral =>
                  class = "EXPLICIT_NUMERIC"
           /\ class \in {"LOSSLESS", "EXPLICIT_NUMERIC", "PROVABLE_NARROWING", "FORBIDDEN"}
<1>1. Integral \subseteq Numeric
  BY DEF Numeric
<1>2. CASE ~{s, t} \subseteq Numeric
  <2>1. class = "FORBIDDEN"
    BY <1>1, <1>2 DEF ClassifyPrimitive
  <2> QED
    BY <1>1, <1>2, <2>1
<1>3. CASE {s, t} \subseteq Numeric /\ IsLosslessNumericCast(s, t)
  <2>1. class = "LOSSLESS"
    BY <1>3 DEF ClassifyPrimitive
  <2> QED
    BY <1>3, <2>1
<1>4. CASE {s, t} \subseteq Integral /\ ~IsLosslessNumericCast(s, t)
  <2>1. class = IF s \in Signed /\ t \in Unsigned /\ nonnegative THEN "PROVABLE_NARROWING" ELSE "FORBIDDEN"
    BY <1>1, <1>4 DEF ClassifyPrimitive
  <2> QED
    BY <1>1, <1>4, <2>1
<1>5. CASE {s, t} \subseteq Numeric /\ ~IsLosslessNumericCast(s, t) /\ ~{s, t} \subseteq Integral
  <2>1. class = "EXPLICIT_NUMERIC"
    BY <1>5 DEF ClassifyPrimitive
  <2> QED
    BY <1>5, <2>1
<1> QED
  BY <1>1, <1>2, <1>3, <1>4, <1>5

\* The class of a cast with a parameter is the strictest of its pairs; if it is not
\* lossless the parameter admits integers only.
LEMMA ParameterClass ==
    ASSUME CastParameters, NEW source, NEW target, NEW nonnegative, NEW class,
           class = ClassifyGeneric(source, target, nonnegative), class # "FORBIDDEN",
           source # target, source.admits # {} , target.admits # {}
    PROVE  /\ class \in {"LOSSLESS", "EXPLICIT_NUMERIC", "PROVABLE_NARROWING"}
           /\ source.admits \subseteq Numeric /\ target.admits \subseteq Numeric
           /\ class # "LOSSLESS" =>
                  IF source.kind = "generic" THEN source.admits \subseteq Integral
                  ELSE target.admits \subseteq Integral
           /\ class = "LOSSLESS" => \A s \in source.admits, t \in target.admits :
                                        IsLosslessNumericCast(s, t)
           /\ class = "EXPLICIT_NUMERIC" => \E s \in source.admits, t \in target.admits :
                                                ~{s, t} \subseteq Integral
<1> DEFINE Class(s, t) == ClassifyPrimitive(s, t, nonnegative)
           classes == {Class(s, t) : s \in source.admits, t \in target.admits}
<1>2. /\ classes # {}
      /\ \A s \in source.admits, t \in target.admits : Class(s, t) \in classes
      /\ \A c \in classes : \E s \in source.admits, t \in target.admits : c = Class(s, t)
  OBVIOUS
<1>3. ASSUME NEW c \in classes
      PROVE  c \in {"LOSSLESS", "EXPLICIT_NUMERIC", "PROVABLE_NARROWING", "FORBIDDEN"}
  <2>1. PICK s \in source.admits, t \in target.admits : c = ClassifyPrimitive(s, t, nonnegative)
    BY <1>2
  <2> QED
    BY <2>1, PairClass
<1> DEFINE IsStrictest(i) == Strictness[i] \in classes /\ \A j \in (i + 1)..4 : Strictness[j] \notin classes
<1>4. PICK strictest : strictest = CHOOSE i \in DOMAIN Strictness : IsStrictest(i)
  OBVIOUS
<1> HIDE DEF classes
<1>5. /\ DOMAIN Strictness = {1, 2, 3, 4}
      /\ Strictness[1] = "LOSSLESS" /\ Strictness[2] = "EXPLICIT_NUMERIC"
      /\ Strictness[3] = "PROVABLE_NARROWING" /\ Strictness[4] = "FORBIDDEN"
  BY DEF Strictness
<1>6. \E i \in DOMAIN Strictness : IsStrictest(i)
  <2>1. CASE "FORBIDDEN" \in classes
    <3>1. IsStrictest(4)
      BY <1>5, <2>1
    <3> QED
      BY <1>5, <3>1
  <2>2. CASE "FORBIDDEN" \notin classes /\ "PROVABLE_NARROWING" \in classes
    <3>1. IsStrictest(3)
      BY <1>5, <2>2
    <3> QED
      BY <1>5, <3>1
  <2>3. CASE /\ "FORBIDDEN" \notin classes /\ "PROVABLE_NARROWING" \notin classes
             /\ "EXPLICIT_NUMERIC" \in classes
    <3>1. \A j \in 3..4 : Strictness[j] \notin classes
      BY <1>5, <2>3
    <3>2. IsStrictest(2)
      BY <1>5, <2>3, <3>1
    <3> QED
      BY <1>5, <3>2
  <2>4. CASE classes = {"LOSSLESS"}
    <3>1. \A j \in 2..4 : Strictness[j] \notin classes
      BY <1>5, <2>4
    <3>2. IsStrictest(1)
      BY <1>5, <2>4, <3>1
    <3> QED
      BY <1>5, <3>2
  <2> QED
    BY <1>2, <1>3, <2>1, <2>2, <2>3, <2>4
<1>7. strictest \in DOMAIN Strictness /\ IsStrictest(strictest)
  <2> HIDE DEF IsStrictest
  <2> QED
    BY <1>4, <1>6
<1>8. PICK side : side = IF source.kind = "generic" THEN source ELSE target
  OBVIOUS
<1>9. /\ class = Strictness[strictest]
      /\ Strictness[strictest] # "LOSSLESS" => IntegersOnly(side)
  <2>1. class = IF \E type \in {source, target} :
                    type.kind = "generic" /\ (type.admits = {} \/ ~type.admits \subseteq Numeric)
        THEN "FORBIDDEN"
        ELSE IF Strictness[strictest] # "LOSSLESS" /\ ~IntegersOnly(side) THEN "FORBIDDEN"
        ELSE Strictness[strictest]
    <3> USE DEF classes
    <3> QED
      BY <1>4, <1>8 DEF ClassifyGeneric
  <2> QED
    BY <2>1
<1>10. class \in {"LOSSLESS", "EXPLICIT_NUMERIC", "PROVABLE_NARROWING"} /\ "FORBIDDEN" \notin classes
  <2>1. strictest # 4
    BY <1>5, <1>9
  <2>2. 4 \in (strictest + 1)..4
    BY <1>5, <1>7, <2>1
  <2> QED
    BY <1>5, <1>7, <1>9, <2>2
<1>11. source.admits \subseteq Numeric /\ target.admits \subseteq Numeric
  <2>1. ASSUME NEW s \in source.admits, NEW t \in target.admits PROVE {s, t} \subseteq Numeric
    <3>1. PICK c : c = Class(s, t)
      OBVIOUS
    <3>2. c \in classes /\ c # "FORBIDDEN"
      BY <1>2, <1>10, <3>1
    <3> QED
      BY <3>1, <3>2, PairClass
  <2> QED
    BY <2>1
<1>12. class = "LOSSLESS" => \A s \in source.admits, t \in target.admits : IsLosslessNumericCast(s, t)
  <2>1. SUFFICES ASSUME class = "LOSSLESS", NEW s \in source.admits, NEW t \in target.admits
                 PROVE  IsLosslessNumericCast(s, t)
    OBVIOUS
  <2>2. strictest = 1
    BY <1>5, <1>7, <1>9, <2>1
  <2>3. Strictness[2] \notin classes /\ Strictness[3] \notin classes
    BY <1>7, <2>2
  <2>4. PICK c : c = Class(s, t)
    OBVIOUS
  <2>5. c \in classes
    BY <1>2, <2>4
  <2>6. c = "LOSSLESS"
    BY <1>3, <1>5, <1>10, <2>3, <2>5
  <2>7. {s, t} \subseteq Numeric /\ ({s, t} \subseteq Integral \/ ~{s, t} \subseteq Integral)
    BY <1>11
  <2>8. /\ {s, t} \subseteq Integral /\ ~IsLosslessNumericCast(s, t) => c # "LOSSLESS"
        /\ ~IsLosslessNumericCast(s, t) /\ ~{s, t} \subseteq Integral => c # "LOSSLESS"
    BY <2>4, <2>7, PairClass
  <2> QED
    BY <2>6, <2>8
<1>13. class = "EXPLICIT_NUMERIC" => \E s \in source.admits, t \in target.admits : ~{s, t} \subseteq Integral
  <2>1. SUFFICES ASSUME class = "EXPLICIT_NUMERIC"
                 PROVE  \E s \in source.admits, t \in target.admits : ~{s, t} \subseteq Integral
    OBVIOUS
  <2>2. class \in classes
    BY <1>7, <1>9
  <2>3. PICK s \in source.admits, t \in target.admits : class = ClassifyPrimitive(s, t, nonnegative)
    BY <1>2, <2>2
  <2>4. ~{s, t} \subseteq Integral
    BY <1>11, <2>1, <2>3, PairClass
  <2> QED
    BY <2>4
<1> QED
  BY <1>8, <1>9, <1>10, <1>11, <1>12, <1>13 DEF IntegersOnly

(***************************************************************************)
(* The invariant                                                           *)
(***************************************************************************)

\* The class that a cast is given.
Decided ==
    LET class == ClassOf(cast.source, cast.target, IsNonnegative)
    IN  IF /\ class = "FORBIDDEN"
           /\ cast.source.kind = "primitive" /\ cast.source.name \in Integral
           /\ RangeFits(cast.target)
        THEN "PROVABLE_NARROWING" ELSE class

\* Each step has done what it does to the cast.
CastInv ==
    /\ cast \in Operands
    /\ decision \in {"", Decided}
    /\ proof # "" => /\ decision # ""
                     /\ proof = IF CastRefused THEN "refused" ELSE "approved"
    /\ emitted # "" => proof = "approved" /\ emitted = Conversion

\* The invariant holds at first and survives every step.
LEMMA StepCastInv ==
    /\ CastInit => CastInv
    /\ CastInv /\ [CastNext]_castVars => CastInv'
<1>1. CastInit => CastInv
  BY DEF CastInit, CastInv
<1>2. ASSUME CastInv, Classify PROVE CastInv'
  <2>1. /\ decision = "" /\ decision' = Decided
        /\ cast' = cast /\ proof' = proof /\ emitted' = emitted
    BY <1>2 DEF Classify, Decided
  <2>2. Decided' = Decided
    BY <2>1 DEF Decided, RangeFits, IsNonnegative, IntervalKnown
  <2>3. proof = "" /\ emitted = ""
    BY <1>2, <2>1 DEF CastInv
  <2> QED
    BY <1>2, <2>1, <2>2, <2>3 DEF CastInv
<1>3. ASSUME CastInv, Prove PROVE CastInv'
  <2>1. /\ decision # "" /\ proof = "" /\ proof' = IF CastRefused THEN "refused" ELSE "approved"
        /\ cast' = cast /\ decision' = decision /\ emitted' = emitted
    BY <1>3 DEF Prove
  <2>2. Decided' = Decided
    BY <2>1 DEF Decided, RangeFits, IsNonnegative, IntervalKnown
  <2>3. CastRefused' = CastRefused
    BY <2>1 DEF CastRefused, RangeFits, IntervalKnown, FloatToIntUnproven, FloatToIntProven
  <2> QED
    BY <1>3, <2>1, <2>2, <2>3 DEF CastInv
<1>4. ASSUME CastInv, Emit \/ UNCHANGED castVars PROVE CastInv'
  <2>1. /\ cast' = cast /\ decision' = decision /\ proof' = proof
        /\ emitted' = emitted \/ (proof = "approved" /\ emitted' = Conversion)
    BY <1>4 DEF Emit, castVars
  <2>2. Decided' = Decided
    BY <2>1 DEF Decided, RangeFits, IsNonnegative, IntervalKnown
  <2>3. CastRefused' = CastRefused
    BY <2>1 DEF CastRefused, RangeFits, IntervalKnown, FloatToIntUnproven, FloatToIntProven
  <2>4. Conversion' = Conversion
    BY <2>1 DEF Conversion, IsNonnegative, IntervalKnown
  <2> QED
    BY <1>4, <2>1, <2>2, <2>3, <2>4 DEF CastInv
<1> QED
  BY <1>1, <1>2, <1>3, <1>4 DEF CastNext

\* What the parameters say of a cast.
LEMMA CastFacts ==
    ASSUME CastParameters, CastInv
    PROVE  /\ IsType(cast.source) /\ IsType(cast.target) /\ IsOperand(cast)
           /\ \A type \in {cast.source, cast.target} :
                  /\ type.kind \in {"primitive", "generic", "reference"}
                  /\ type.kind = "primitive" => type = Primitive(type.name) /\ type.admits = {type.name}
                  /\ type.kind = "generic" => type.name \notin Numeric
<1>1. IsType(cast.source) /\ IsType(cast.target) /\ IsOperand(cast)
  BY DEF CastParameters, CastInv
<1>2. ASSUME NEW type, IsType(type)
      PROVE  /\ type.kind \in {"primitive", "generic", "reference"}
             /\ type.kind = "primitive" => type = Primitive(type.name) /\ type.admits = {type.name}
             /\ type.kind = "generic" => type.name \notin Numeric
  <2>1. CASE type.kind = "primitive"
    <3>1. type = Primitive(type.name)
      BY <1>2, <2>1 DEF IsType
    <3> QED
      BY <2>1, <3>1 DEF Primitive
  <2>2. CASE type.kind = "generic"
    BY <1>2, <2>2 DEF IsType
  <2>3. CASE type.kind # "primitive" /\ type.kind # "generic"
    <3>1. type = Reference
      BY <1>2, <2>3 DEF IsType
    <3> QED
      BY <3>1 DEF Reference
  <2> QED
    BY <2>1, <2>2, <2>3
<1> QED
  BY <1>1, <1>2

\* The conversion of a class, by the names of the types.
LEMMA ConversionFacts ==
    ASSUME NEW source, source = cast.source.name, NEW target, target = cast.target.name
    PROVE  /\ decision = "LOSSLESS" => Conversion = "as"
           /\ decision # "LOSSLESS" =>
                /\ {source, target} \subseteq DOMAIN FloatBits => Conversion = "floatCast"
                /\ source \in DOMAIN FloatBits /\ target \notin DOMAIN FloatBits => Conversion = "intFromFloat"
                /\ source \notin DOMAIN FloatBits /\ target \in DOMAIN FloatBits => Conversion = "floatFromInt"
                /\ source \notin DOMAIN FloatBits /\ target \notin DOMAIN FloatBits =>
                       Conversion = IF cast.literal /\ IsNonnegative THEN "as" ELSE "intCast"
BY DEF Conversion

\* What is proved to fit converts.
LEMMA FittingConverts ==
    ASSUME CastParameters, CastInv, RangeFits(cast.target),
           NEW s \in Integral, emitted \in {"as", "intCast"}, emitted = "as" => cast.literal
    PROVE  Converts(s, cast.target.name)
<1>1. PICK t, low, high : t = cast.target.name /\ low = cast.low /\ high = cast.high
  OBVIOUS
<1>2. t \in Integral /\ IntervalKnown /\ low \in RangeOf(t) /\ high \in RangeOf(t)
  BY <1>1 DEF RangeFits
<1>3. low..high \subseteq RangeOf(t)
  BY <1>2, RangesAreConvex
<1>4. OperandValues(s) \subseteq RangeOf(t)
  BY <1>1, <1>2, <1>3 DEF OperandValues
<1> QED
  BY <1>1, <1>2, <1>4 DEF Converts

(***************************************************************************)
(* The theorem                                                             *)
(***************************************************************************)

\* An approved cast between two named types is emitted as a conversion of its values.
LEMMA PrimitiveConverts ==
    ASSUME CastParameters, CastInv, emitted # "",
           cast.source.kind = "primitive", cast.target.kind = "primitive"
    PROVE  IF cast.source = cast.target THEN emitted = "as"
           ELSE \A s \in cast.source.admits, t \in cast.target.admits : Converts(s, t)
<1>1. PICK s, t : s = cast.source.name /\ t = cast.target.name
  OBVIOUS
<1>2. /\ cast.source = Primitive(s) /\ cast.source.admits = {s}
      /\ cast.target = Primitive(t) /\ cast.target.admits = {t}
  BY <1>1, CastFacts
<1>3. /\ decision = Decided /\ decision # "" /\ ~CastRefused /\ emitted = Conversion
  BY DEF CastInv
<1>4. decision # "FORBIDDEN" /\ (decision = "PROVABLE_NARROWING" => RangeFits(cast.target))
      /\ ~FloatToIntUnproven
  BY <1>3 DEF CastRefused
<1>5. Integral \cap DOMAIN FloatBits = {} /\ Numeric = Integral \cup DOMAIN FloatBits
  BY DEF CastParameters, Numeric
<1>6. PICK class : class = ClassOf(cast.source, cast.target, IsNonnegative)
  OBVIOUS
<1>7. decision = IF class = "FORBIDDEN" /\ s \in Integral /\ RangeFits(cast.target)
                 THEN "PROVABLE_NARROWING" ELSE class
  BY <1>1, <1>2, <1>3, <1>6 DEF Decided, Primitive
<1>8. class = IF cast.source = cast.target /\ s \in Numeric THEN "LOSSLESS"
              ELSE ClassifyPrimitive(s, t, IsNonnegative)
  BY <1>1, <1>2, <1>6 DEF ClassOf, Primitive
<1>9. RangeFits(cast.target) => t \in Integral
  BY <1>1 DEF RangeFits
<1>10. {s, t} \subseteq Numeric
  <2>1. CASE class = "FORBIDDEN"
    BY <1>4, <1>5, <1>7, <1>9, <2>1
  <2>2. CASE class # "FORBIDDEN"
    <3>1. CASE cast.source = cast.target /\ s \in Numeric
      BY <1>1, <3>1
    <3>2. CASE ~(cast.source = cast.target /\ s \in Numeric)
      <4>1. class = ClassifyPrimitive(s, t, IsNonnegative)
        BY <1>8, <3>2
      <4> QED
        BY <2>2, <4>1, PairClass
    <3> QED
      BY <3>1, <3>2
  <2> QED
    BY <2>1, <2>2
<1>11. CASE cast.source = cast.target
  <2>1. decision = "LOSSLESS"
    BY <1>7, <1>8, <1>10, <1>11
  <2> QED
    BY <1>3, <1>11, <2>1, ConversionFacts
<1>12. CASE cast.source # cast.target
  <2>1. class = ClassifyPrimitive(s, t, IsNonnegative)
    BY <1>8, <1>12
  <2>2. SUFFICES Converts(s, t)
    BY <1>2, <1>12
  <2>3. CASE IsLosslessNumericCast(s, t)
    <3>1. class = "LOSSLESS"
      BY <1>10, <2>1, <2>3, PairClass
    <3>2. emitted = "as"
      BY <1>3, <1>7, <3>1, ConversionFacts
    <3> QED
      BY <1>10, <2>3, <3>2, LosslessConverts
  <2>4. CASE {s, t} \subseteq Integral /\ ~IsLosslessNumericCast(s, t)
    <3>1. class \in {"PROVABLE_NARROWING", "FORBIDDEN"}
      BY <2>1, <2>4, PairClass
    <3>2. decision # "LOSSLESS" /\ RangeFits(cast.target)
      BY <1>4, <1>7, <3>1
    <3>3. emitted = IF cast.literal /\ IsNonnegative THEN "as" ELSE "intCast"
      BY <1>1, <1>3, <1>5, <2>4, <3>2, ConversionFacts
    <3> QED
      BY <1>1, <2>4, <3>2, <3>3, FittingConverts
  <2>5. CASE ~{s, t} \subseteq Integral /\ ~IsLosslessNumericCast(s, t)
    <3>1. class = "EXPLICIT_NUMERIC"
      BY <1>10, <2>1, <2>5 DEF ClassifyPrimitive
    <3>2. decision = "EXPLICIT_NUMERIC"
      BY <1>7, <3>1
    <3>3. CASE {s, t} \subseteq DOMAIN FloatBits
      <4>1. emitted = "floatCast"
        BY <1>1, <1>3, <3>2, <3>3, ConversionFacts
      <4> QED
        BY <3>3, <4>1 DEF Converts
    <3>4. CASE s \in DOMAIN FloatBits /\ t \in Integral
      <4>1. emitted = "intFromFloat"
        BY <1>1, <1>3, <1>5, <3>2, <3>4, ConversionFacts
      <4>2. FloatToIntProven
        BY <1>1, <1>2, <1>4, <3>4 DEF FloatToIntUnproven, Primitive
      <4>3. IntervalKnown /\ {cast.low, cast.high} \subseteq RangeOf(t)
        BY <1>1, <4>2 DEF FloatToIntProven, RangeFits
      <4> QED
        BY <3>4, <4>1, <4>3 DEF Converts
    <3>5. CASE s \in Integral /\ t \in DOMAIN FloatBits
      <4>1. emitted = "floatFromInt"
        BY <1>1, <1>3, <1>5, <3>2, <3>5, ConversionFacts
      <4> QED
        BY <3>5, <4>1 DEF Converts
    <3> QED
      BY <1>5, <1>10, <2>5, <3>3, <3>4, <3>5
  <2> QED
    BY <2>3, <2>4, <2>5
<1> QED
  BY <1>11, <1>12

\* An approved cast to or from a parameter is emitted as a conversion that does for
\* all types which the parameter admits.
LEMMA ParameterConverts ==
    ASSUME CastParameters, Settled, CastInv, emitted # "", cast.source # cast.target,
           cast.source.kind # "reference", cast.target.kind # "reference",
           "generic" \in {cast.source.kind, cast.target.kind},
           NEW s \in cast.source.admits, NEW t \in cast.target.admits
    PROVE  Converts(s, t)
<1>1. PICK source, target : source = cast.source /\ target = cast.target
  OBVIOUS
<1>2. /\ \A type \in {source, target} :
             /\ type.kind \in {"primitive", "generic"}
             /\ type.kind = "primitive" => type.admits = {type.name}
             /\ type.kind = "generic" => type.name \notin Numeric
      /\ IsOperand(cast)
  BY <1>1, CastFacts
<1>3. /\ decision = Decided /\ decision # "" /\ ~CastRefused /\ emitted = Conversion /\ cast \in Operands
  BY DEF CastInv
<1>4. decision # "FORBIDDEN" /\ (decision = "PROVABLE_NARROWING" => RangeFits(target))
  BY <1>1, <1>3 DEF CastRefused
<1>5. Integral \cap DOMAIN FloatBits = {} /\ Numeric = Integral \cup DOMAIN FloatBits
  BY DEF CastParameters, Numeric
<1>6. ~(source.kind = "generic" /\ target.kind = "generic")
      /\ (target.kind = "generic" => source.name \notin DOMAIN FloatBits)
  BY <1>1, <1>2, <1>3 DEF Settled
<1>7. PICK class : class = ClassifyGeneric(source, target, IsNonnegative)
  OBVIOUS
<1>8. decision = class
  <2>1. class = ClassOf(source, target, IsNonnegative)
    BY <1>1, <1>2, <1>7 DEF ClassOf
  <2>2. ~(source.kind = "primitive" /\ RangeFits(target))
    BY <1>1 DEF RangeFits
  <2> QED
    BY <1>1, <1>3, <2>1, <2>2 DEF Decided
<1>9. /\ class \in {"LOSSLESS", "EXPLICIT_NUMERIC", "PROVABLE_NARROWING"}
      /\ source.admits \subseteq Numeric /\ target.admits \subseteq Numeric
      /\ class # "LOSSLESS" =>
             IF source.kind = "generic" THEN source.admits \subseteq Integral
             ELSE target.admits \subseteq Integral
      /\ class = "LOSSLESS" => \A a \in source.admits, b \in target.admits :
                                   IsLosslessNumericCast(a, b)
      /\ class = "EXPLICIT_NUMERIC" => \E a \in source.admits, b \in target.admits :
                                           ~{a, b} \subseteq Integral
  <2>1. source.admits # {} /\ target.admits # {} /\ source # target
    BY <1>1
  <2>2. PICK n : n = IsNonnegative
    OBVIOUS
  <2>3. class = ClassifyGeneric(source, target, n) /\ class # "FORBIDDEN"
    BY <1>4, <1>7, <1>8, <2>2
  <2>4. class \in {"LOSSLESS", "EXPLICIT_NUMERIC", "PROVABLE_NARROWING"}
    BY <2>1, <2>3, ParameterClass
  <2>5. source.admits \subseteq Numeric /\ target.admits \subseteq Numeric
    BY <2>1, <2>3, ParameterClass
  <2>6. class # "LOSSLESS" =>
             IF source.kind = "generic" THEN source.admits \subseteq Integral
             ELSE target.admits \subseteq Integral
    BY <2>1, <2>3, ParameterClass
  <2>7. class = "LOSSLESS" => \A a \in source.admits, b \in target.admits :
                                   IsLosslessNumericCast(a, b)
    BY <2>1, <2>3, ParameterClass
  <2>8. class = "EXPLICIT_NUMERIC" => \E a \in source.admits, b \in target.admits :
                                           ~{a, b} \subseteq Integral
    BY <2>1, <2>3, ParameterClass
  <2> QED
    BY <2>4, <2>5, <2>6, <2>7, <2>8
<1>10. CASE class = "LOSSLESS"
  <2>1. emitted = "as"
    BY <1>3, <1>8, <1>10, ConversionFacts
  <2>2. s \in Numeric /\ t \in Numeric /\ IsLosslessNumericCast(s, t)
    BY <1>1, <1>9, <1>10
  <2> QED
    BY <2>1, <2>2, LosslessConverts
<1>11. CASE class = "EXPLICIT_NUMERIC"
  <2>1. PICK a \in source.admits, b \in target.admits : ~{a, b} \subseteq Integral
    BY <1>9, <1>11
  <2>2. CASE source.kind = "generic"
    <3>1. source.admits \subseteq Integral /\ target.admits = {target.name} /\ source.name \notin Numeric
      BY <1>2, <1>6, <1>9, <1>11, <2>2
    <3>2. target.name \in DOMAIN FloatBits /\ t = target.name /\ s \in Integral
      BY <1>1, <1>5, <1>9, <2>1, <3>1
    <3>3. emitted = "floatFromInt"
      BY <1>1, <1>3, <1>5, <1>8, <1>11, <3>1, <3>2, ConversionFacts
    <3> QED
      BY <3>2, <3>3 DEF Converts
  <2>3. CASE source.kind # "generic"
    <3>1. target.kind = "generic" /\ target.admits \subseteq Integral /\ source.admits = {source.name}
      BY <1>1, <1>2, <1>9, <1>11, <2>3
    <3>2. source.name \in DOMAIN FloatBits
      BY <1>5, <1>9, <2>1, <3>1
    <3> QED
      BY <1>6, <3>1, <3>2
  <2> QED
    BY <2>2, <2>3
<1>12. CASE class = "PROVABLE_NARROWING"
  <2>1. RangeFits(target) /\ target.kind = "primitive" /\ target.name \in Integral
    BY <1>4, <1>8, <1>12 DEF RangeFits
  <2>2. source.kind = "generic" /\ source.name \notin Numeric /\ ~cast.literal
    BY <1>1, <1>2, <2>1 DEF IsOperand
  <2>3. s \in Integral /\ t = target.name
    BY <1>1, <1>2, <1>9, <1>12, <2>1, <2>2
  <2>4. emitted = "intCast"
    BY <1>1, <1>3, <1>5, <1>8, <1>12, <2>1, <2>2, ConversionFacts
  <2> QED
    BY <1>1, <2>1, <2>3, <2>4, FittingConverts
<1> QED
  BY <1>9, <1>10, <1>11, <1>12

\* No cast with a reference is approved.
LEMMA ReferencesRefused ==
    ASSUME CastParameters, CastInv, emitted # ""
    PROVE  cast.source.kind # "reference" /\ cast.target.kind # "reference"
<1>1. decision = Decided /\ decision # "" /\ ~CastRefused
  BY DEF CastInv
<1>2. SUFFICES ASSUME "reference" \in {cast.source.kind, cast.target.kind} PROVE FALSE
  OBVIOUS
<1>3. ClassOf(cast.source, cast.target, IsNonnegative) = "FORBIDDEN"
  BY <1>2 DEF ClassOf
<1>4. ~(cast.source.kind = "primitive" /\ RangeFits(cast.target))
  BY <1>2 DEF RangeFits
<1> QED
  BY <1>1, <1>3, <1>4 DEF Decided, CastRefused

\* A cast of integers that fit, or to a float, is not refused.
LEMMA FittingApproved ==
    ASSUME CastParameters, CastInv, proof = "refused", NEW s, NEW t,
           cast.source.kind = "primitive", cast.target.kind = "primitive",
           s = cast.source.name, t = cast.target.name,
           s \in Integral, t \in Numeric
    PROVE  /\ t \in Integral
           /\ ~(RangeOf(s) \subseteq RangeOf(t))
           /\ ~(IntervalKnown /\ cast.low \in RangeOf(t) /\ cast.high \in RangeOf(t))
<1>1. decision = Decided /\ decision # "" /\ CastRefused
  BY DEF CastInv
<1>2. Integral \cap DOMAIN FloatBits = {} /\ Numeric = Integral \cup DOMAIN FloatBits
  BY DEF CastParameters, Numeric
<1>3. ~FloatToIntUnproven
  BY <1>2 DEF FloatToIntUnproven
<1>4. decision = "FORBIDDEN" \/ (decision = "PROVABLE_NARROWING" /\ ~RangeFits(cast.target))
  BY <1>1, <1>3 DEF CastRefused
<1>5. PICK class : class = ClassOf(cast.source, cast.target, IsNonnegative)
  OBVIOUS
<1>6. decision = IF class = "FORBIDDEN" /\ RangeFits(cast.target) THEN "PROVABLE_NARROWING" ELSE class
  BY <1>1, <1>5 DEF Decided
<1>7. ~RangeFits(cast.target) /\ class \in {"FORBIDDEN", "PROVABLE_NARROWING"}
  BY <1>4, <1>6
<1>8. class = IF cast.source = cast.target THEN "LOSSLESS"
              ELSE ClassifyPrimitive(s, t, IsNonnegative)
  BY <1>2, <1>5 DEF ClassOf
<1>9. class = ClassifyPrimitive(s, t, IsNonnegative)
  BY <1>7, <1>8
<1>10. ~IsLosslessNumericCast(s, t) /\ t \in Integral
  <2>1. {s, t} \subseteq Numeric
    BY <1>2
  <2>2. class # "LOSSLESS" /\ class # "EXPLICIT_NUMERIC"
    BY <1>7
  <2>3. /\ IsLosslessNumericCast(s, t) => class = "LOSSLESS"
        /\ ~IsLosslessNumericCast(s, t) /\ ~{s, t} \subseteq Integral => class = "EXPLICIT_NUMERIC"
    BY <1>9, <2>1, PairClass
  <2> QED
    BY <2>2, <2>3
<1>11. ~(RangeOf(s) \subseteq RangeOf(t))
  BY <1>10, LosslessMeansRanges
<1> QED
  BY <1>7, <1>10, <1>11 DEF RangeFits

\* For every width of the types and every interval known of the operand, the
\* conversion that is emitted for an approved cast is one that Zig accepts and no
\* value traps in, for each pair of types its parameter admits; and no cast between
\* two types all of whose values fit is refused.  Casts from a float to a parameter
\* and between two parameters are not claimed (Settled).
THEOREM CastsAlwaysConvert ==
    ASSUME CastParameters, Settled
    PROVE  CastSpec => []CastsConvert
<1>1. ASSUME CastInv PROVE CastsConvert
  <2>1. ASSUME emitted # ""
        PROVE  /\ cast.source.kind # "reference" /\ cast.target.kind # "reference"
               /\ IF cast.source = cast.target THEN emitted = "as"
                  ELSE \A s \in cast.source.admits, t \in cast.target.admits : Converts(s, t)
    <3>1. cast.source.kind # "reference" /\ cast.target.kind # "reference"
      BY <1>1, <2>1, ReferencesRefused
    <3>2. CASE cast.source.kind = "primitive" /\ cast.target.kind = "primitive"
      BY <1>1, <2>1, <3>1, <3>2, PrimitiveConverts
    <3>3. CASE ~(cast.source.kind = "primitive" /\ cast.target.kind = "primitive")
      <4>1. "generic" \in {cast.source.kind, cast.target.kind}
        BY <1>1, <3>1, <3>3, CastFacts
      <4>2. CASE cast.source = cast.target
        <5>1. decision = Decided /\ decision # "" /\ emitted = Conversion
          BY <1>1, <2>1 DEF CastInv
        <5>2. decision = "LOSSLESS"
          BY <3>1, <4>1, <4>2, <5>1 DEF Decided, ClassOf, ClassifyGeneric
        <5>3. emitted = "as"
          BY <5>1, <5>2, ConversionFacts
        <5> QED
          BY <3>1, <4>2, <5>3
      <4>3. CASE cast.source # cast.target
        <5>1. ASSUME NEW s \in cast.source.admits, NEW t \in cast.target.admits
              PROVE  Converts(s, t)
          BY <1>1, <2>1, <3>1, <4>1, <4>3, ParameterConverts
        <5> QED
          BY <3>1, <4>3, <5>1
      <4> QED
        BY <4>2, <4>3
    <3> QED
      BY <3>2, <3>3
  <2>2. ASSUME proof = "refused", cast.source.kind = "primitive", cast.target.kind = "primitive"
        PROVE  ~(/\ cast.source.name \in Integral /\ cast.target.name \in Numeric
                 /\ cast.target.name \in Integral =>
                      \/ RangeOf(cast.source.name) \subseteq RangeOf(cast.target.name)
                      \/ /\ IntervalKnown /\ cast.low \in RangeOf(cast.target.name)
                         /\ cast.high \in RangeOf(cast.target.name))
    BY <1>1, <2>2, FittingApproved
  <2> QED
    BY <2>1, <2>2 DEF CastsConvert
<1> QED
  BY <1>1, StepCastInv, PTL DEF CastSpec

================================================================================
