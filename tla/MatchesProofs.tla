----------------------------- MODULE MatchesProofs -----------------------------
(***************************************************************************)
(* The theorem about the patterns of a match: what is reported is there,   *)
(* what is not reported is not, and missing values are missing.            *)
(***************************************************************************)
EXTENDS Matches, TLAPS

(***************************************************************************)
(* The invariant                                                           *)
(***************************************************************************)

Passed == Preceding(at)

\* The place that is next is one of the match, or behind the last case.
PlaceOK ==
    /\ at \in (Nat \ {0}) \X (Nat \ {0})
    /\ at[1] <= Len(match.cases) + 1
    /\ InCase => at[2] <= Len(CurrentCase)

\* What is kept comes from the patterns passed, and coverage from all of them.
SeenOK ==
    /\ \A key \in seen : \E q \in Passed : HasKey(PatternAt(q)) /\ Key(PatternAt(q)) = key
    /\ \A r \in ranges : r.kind \in Ranged /\ \E q \in Passed : PatternAt(q) = r
    /\ wildcard => \E q \in Passed : IsWildcard(PatternAt(q))
    /\ catchAll <=> match.orelse \/ \E q \in Passed : IsWildcard(PatternAt(q))
    /\ \A n : n \in covered <=> \E q \in Passed :
          PatternAt(q).kind \in {"bool", "enum"} /\ n = PatternAt(q).names[1]

\* Neither takes a value that the other takes, or one is a catch-all or inexact.
Apart(p, q) ==
    \/ p = q \/ Inexact(p) \/ Inexact(q) \/ Common(p, q, <<>>) = {}
    \/ {"wildcard", "capture"} \cap {PatternAt(p).kind, PatternAt(q).kind} # {}

\* While nothing is reported every pattern passed is kept, apart from the others.
KeptOK ==
    reports = {} =>
        /\ \A q \in Passed :
              /\ IsWildcard(PatternAt(q)) => wildcard
              /\ HasKey(PatternAt(q)) => Key(PatternAt(q)) \in seen
              /\ PatternAt(q).kind \in Ranged => PatternAt(q) \in ranges
        /\ \A p, q \in Passed \cap Fixed : Apart(p, q)

\* The verdict comes last.
VerdictOK ==
    /\ judged \in BOOLEAN
    /\ ~judged => \A r \in reports : r.why # "missing"
    /\ judged => /\ ~InCase
                 /\ (\E r \in reports : r.why = "missing") <=> Missing
                 /\ reports = {} /\ match.orelse => ~wildcard /\ ~AllCovered

MatchInv ==
    /\ match \in Matchable
    /\ PlaceOK /\ SeenOK /\ KeptOK /\ VerdictOK
    /\ \A r \in reports : ReportIsReal(r)

(***************************************************************************)
(* Patterns                                                                *)
(***************************************************************************)

\* What a pattern of a match is, once its bounds are in order.
LEMMA PatternFacts ==
    ASSUME MatchParameters, match \in Matchable, NEW place \in Places
    PROVE  /\ PatternAt(place) \in PatternRecords
           /\ IsPattern(PatternAt(place), match.on)
           /\ PatternAt(place).kind = "range" => PatternAt(place).low <= PatternAt(place).high
<1>1. IsMatch(match)
  BY DEF MatchParameters
<1>2. PICK i \in DOMAIN match.cases : \E j \in DOMAIN match.cases[i] : place = <<i, j>>
  BY DEF Places
<1> PICK j \in DOMAIN match.cases[i] : place = <<i, j>>
  BY <1>2
<1>3. PICK p : p = match.cases[i][j]
  OBVIOUS
<1>4. p \in PatternRecords /\ IsPattern(p, match.on)
  <2>1. match.cases[i] \in Seq(PatternRecords)
    BY <1>1, <1>2 DEF IsMatch
  <2> QED
    BY <1>1, <1>2, <1>3, <2>1 DEF IsMatch
<1>5. PatternAt(place) = Normal(p)
  BY <1>2, <1>3 DEF PatternAt
<1>6. CASE p.kind = "range" /\ p.low > p.high
  <2>1. PICK q : q = [kind |-> "range", names |-> p.names, low |-> p.high, high |-> p.low]
    OBVIOUS
  <2>2. q \in PatternRecords /\ q.kind = "range" /\ q.low <= q.high
    BY <1>4, <1>6, <2>1 DEF PatternRecords
  <2>3. Normal(p) = q
    BY <1>6, <2>1 DEF Normal, Pattern
  <2>4. match.on = "int" \/ match.on # "int"
    OBVIOUS
  <2>5. match.on = "int"
    BY <1>1, <1>4, <1>6 DEF IsPattern, NameKind, IsMatch
  <2> QED
    BY <1>5, <2>2, <2>3, <2>5 DEF IsPattern
<1>7. CASE ~(p.kind = "range" /\ p.low > p.high)
  <2>1. Normal(p) = p
    BY <1>7 DEF Normal
  <2>2. p.low \in Int /\ p.high \in Int
    BY <1>4 DEF PatternRecords
  <2> QED
    BY <1>4, <1>5, <1>7, <2>1, <2>2
<1> QED
  BY <1>6, <1>7

\* What each kind of pattern takes.
LEMMA TakesFacts ==
    ASSUME NEW p, NEW v, NEW env
    PROVE  /\ p.kind \in {"wildcard", "capture"} => Takes(p, v, env)
           /\ p.kind = "range" => (Takes(p, v, env) <=> p.low <= v /\ v <= p.high)
           /\ p.kind = "bounds" => (Takes(p, v, env) <=> env[p.names[1]] <= v /\ v <= env[p.names[2]])
           /\ p.kind = "literal" => (Takes(p, v, env) <=> v = p.low)
           /\ p.kind \in {"bool", "enum", "tag"} => (Takes(p, v, env) <=> v = p.names[1])
BY DEF Takes

\* What each reason says, and what none of them says.
LEMMA ReasonFacts ==
    ASSUME NEW p
    PROVE  /\ Reason(p) = "wildcard" => wildcard
           /\ Reason(p) = "redundant" => HasKey(p) /\ Key(p) \in seen
           /\ Reason(p) = "all" => AllCovered
           /\ Reason(p) = "covered" => p.kind = "literal" /\ \E r \in ranges : LiteralInRange(p.low, r)
           /\ Reason(p) = "overlap" =>
                 /\ p.kind \in Ranged
                 /\ \/ \E r \in ranges : Overlap(p, r)
                    \/ \E key \in seen : key[1] = "literal" /\ LiteralInRange(key[3], p)
           /\ Reason(p) = "none" =>
                 /\ ~wildcard /\ (HasKey(p) => Key(p) \notin seen) /\ ~AllCovered
                 /\ p.kind = "literal" => \A r \in ranges : ~LiteralInRange(p.low, r)
                 /\ p.kind \in Ranged =>
                       /\ \A r \in ranges : ~Overlap(p, r)
                       /\ \A key \in seen : key[1] = "literal" => ~LiteralInRange(key[3], p)
           /\ Reason(p) \in {"wildcard", "redundant", "all", "covered", "overlap", "none"}
<1>1. CASE wildcard
  BY <1>1 DEF Reason
<1>2. CASE ~wildcard /\ HasKey(p) /\ Key(p) \in seen
  BY <1>2 DEF Reason
<1>3. CASE ~wildcard /\ ~(HasKey(p) /\ Key(p) \in seen) /\ AllCovered
  BY <1>3 DEF Reason
<1>4. CASE ~wildcard /\ ~(HasKey(p) /\ Key(p) \in seen) /\ ~AllCovered
  BY <1>4 DEF Reason
<1> QED
  BY <1>1, <1>2, <1>3, <1>4

\* The place that is next is one of the match, with its pattern as it is written.
LEMMA PlaceFacts ==
    ASSUME MatchParameters, match \in Matchable, PlaceOK, InCase
    PROVE  /\ at \in Places /\ CurrentPattern = match.cases[at[1]][at[2]]
           /\ PatternAt(at) = Normal(CurrentPattern)
           /\ HasKey(CurrentPattern) <=> HasKey(PatternAt(at))
           /\ HasKey(CurrentPattern) => Key(CurrentPattern) = Key(PatternAt(at))
           /\ CurrentPattern.kind = PatternAt(at).kind
           /\ IsWildcard(CurrentPattern) <=> IsWildcard(PatternAt(at))
           /\ CurrentPattern.kind \in {"bool", "enum"} => CurrentPattern = PatternAt(at)
<1>1. match.cases \in Seq(Seq(PatternRecords))
  BY DEF MatchParameters, IsMatch
<1>2. PICK i, j : at = <<i, j>> /\ i \in Nat \ {0} /\ j \in Nat \ {0}
  BY DEF PlaceOK
<1>3. i \in DOMAIN match.cases
  BY <1>1, <1>2 DEF InCase
<1>4. match.cases[i] \in Seq(PatternRecords)
  BY <1>1, <1>3
<1>5. j \in DOMAIN match.cases[i]
  BY <1>2, <1>4 DEF PlaceOK, InCase, CurrentCase
<1>6. at \in Places /\ CurrentPattern = match.cases[at[1]][at[2]] /\ PatternAt(at) = Normal(CurrentPattern)
  BY <1>2, <1>3, <1>5 DEF Places, CurrentPattern, CurrentCase, PatternAt
<1>7. CASE CurrentPattern.kind = "range" /\ CurrentPattern.low > CurrentPattern.high
  BY <1>6, <1>7 DEF Normal, Pattern, HasKey, IsWildcard
<1>8. CASE ~(CurrentPattern.kind = "range" /\ CurrentPattern.low > CurrentPattern.high)
  BY <1>6, <1>8 DEF Normal
<1> QED
  BY <1>6, <1>7, <1>8

\* The place is behind the last case once all are passed.
LEMMA AllPassed ==
    ASSUME MatchParameters, match \in Matchable, PlaceOK, ~InCase
    PROVE  Passed = Places
<1>1. match.cases \in Seq(Seq(PatternRecords))
  BY DEF MatchParameters, IsMatch
<1>2. ASSUME NEW q \in Places PROVE q[1] < at[1]
  <2>1. q[1] \in DOMAIN match.cases
    BY DEF Places
  <2> QED
    BY <1>1, <2>1 DEF PlaceOK, InCase
<1> QED
  BY <1>2 DEF Passed, Preceding

\* Counting a pattern passes it, and none but it.
LEMMA CountPasses ==
    ASSUME MatchParameters, match \in Matchable, PlaceOK, InCase, Count, match' = match
    PROVE  PlaceOK' /\ Passed' = Passed \cup {at}
<1>1. match.cases \in Seq(Seq(PatternRecords))
  BY DEF MatchParameters, IsMatch
<1>2. PICK i, j : at = <<i, j>> /\ i \in Nat \ {0} /\ j \in Nat \ {0}
  BY DEF PlaceOK
<1>3. PICK N \in Nat : N = Len(match.cases) /\ DOMAIN match.cases = 1..N /\ i \in 1..N
  BY <1>1, <1>2 DEF InCase
<1>4. PICK L \in Nat : L = Len(match.cases[i]) /\ DOMAIN match.cases[i] = 1..L /\ j \in 1..L
  <2>1. match.cases[i] \in Seq(PatternRecords)
    BY <1>1, <1>3
  <2>2. j <= Len(match.cases[i])
    BY <1>2 DEF PlaceOK, InCase, CurrentCase
  <2> QED
    BY <1>2, <2>1, <2>2
<1>5. at' = IF j = L THEN <<i + 1, 1>> ELSE <<i, j + 1>>
  BY <1>2, <1>4 DEF Count, CurrentCase
<1>6. at \in Places
  BY PlaceFacts
<1>7. Places' = Places
  BY DEF Places
<1>8. ASSUME NEW q \in Places
      PROVE  q = <<q[1], q[2]>> /\ q[1] \in 1..N /\ q[2] \in Nat /\ (q[1] = i => q[2] <= L)
  <2>1. PICK a \in DOMAIN match.cases : \E b \in DOMAIN match.cases[a] : q = <<a, b>>
    BY DEF Places
  <2>2. PICK b \in DOMAIN match.cases[a] : q = <<a, b>>
    BY <2>1
  <2>3. match.cases[a] \in Seq(PatternRecords)
    BY <1>1
  <2> QED
    BY <1>3, <1>4, <2>2, <2>3
<1>9. CASE j = L
  <2>1. at' = <<i + 1, 1>>
    BY <1>5, <1>9
  <2>2. PlaceOK'
    <3>1. at' \in (Nat \ {0}) \X (Nat \ {0}) /\ at'[1] <= N + 1
      BY <1>2, <1>3, <2>1
    <3>2. i + 1 <= N => 1 <= Len(match.cases[i + 1])
      <4>1. ASSUME i + 1 <= N PROVE i + 1 \in DOMAIN match.cases
        BY <1>3, <4>1
      <4>2. ASSUME i + 1 \in DOMAIN match.cases
            PROVE  match.cases[i + 1] \in Seq(PatternRecords) /\ match.cases[i + 1] # <<>>
        BY <1>1, <4>2 DEF MatchParameters, IsMatch
      <4> QED
        BY <4>1, <4>2
    <3> QED
      BY <1>3, <2>1, <3>1, <3>2 DEF PlaceOK, InCase, CurrentCase
  <2>3. ASSUME NEW q \in Places
        PROVE  (q[1] < i + 1 \/ (q[1] = i + 1 /\ q[2] < 1)) <=> (q[1] < i \/ (q[1] = i /\ q[2] < j)) \/ q = at
    <3>1. q = at <=> q[1] = i /\ q[2] = j
      BY <1>2, <1>8
    <3>2. q[2] >= 1
      BY <1>1 DEF Places
    <3> QED
      BY <1>2, <1>8, <1>9, <3>1, <3>2
  <2> QED
    BY <1>2, <1>6, <1>7, <2>1, <2>2, <2>3 DEF Passed, Preceding
<1>10. CASE j # L
  <2>1. at' = <<i, j + 1>>
    BY <1>5, <1>10
  <2>2. PlaceOK'
    BY <1>2, <1>3, <1>4, <1>10, <2>1 DEF PlaceOK, InCase, CurrentCase
  <2>3. ASSUME NEW q \in Places
        PROVE  (q[1] < i \/ (q[1] = i /\ q[2] < j + 1)) <=> (q[1] < i \/ (q[1] = i /\ q[2] < j)) \/ q = at
    <3>1. q = at <=> q[1] = i /\ q[2] = j
      BY <1>2, <1>8
    <3> QED
      BY <1>2, <1>8, <3>1
  <2> QED
    BY <1>2, <1>6, <1>7, <2>1, <2>2, <2>3 DEF Passed, Preceding
<1> QED
  BY <1>9, <1>10

(***************************************************************************)
(* What is reported                                                        *)
(***************************************************************************)

\* A literal that is exact is compared with a range as the number that it is.
LEMMA ExactComparison ==
    ASSUME MatchParameters, match \in Matchable, NEW place \in Places, NEW r,
           PatternAt(place).kind = "literal", ~Inexact(place)
    PROVE  /\ match.on = "int" /\ PatternAt(place).low \in Int
           /\ LiteralInRange(PatternAt(place).low, r) <=>
                 r.kind = "range" /\ r.low <= PatternAt(place).low /\ PatternAt(place).low <= r.high
<1>1. PICK p : p = PatternAt(place)
  OBVIOUS
<1>2. p \in PatternRecords /\ IsPattern(p, match.on)
  BY <1>1, PatternFacts
<1>3. match.on \in {"bool", "enum", "union", "int"}
  BY DEF MatchParameters, IsMatch
<1>4. match.on = "int"
  BY <1>1, <1>2, <1>3 DEF IsPattern, NameKind
<1>5. p.low \in Int /\ p.low <= ExactIntegers
  BY <1>1, <1>2, <1>4 DEF PatternRecords, Inexact, MatchParameters
<1>6. Nearest(p.low) = p.low
  BY <1>5 DEF Nearest
<1> QED
  BY <1>1, <1>4, <1>5, <1>6 DEF LiteralInRange

\* Patterns with one key take the same values.
LEMMA KeyDecides ==
    ASSUME NEW p, NEW q, HasKey(p), HasKey(q), Key(p) = Key(q), NEW v, NEW env
    PROVE  Takes(p, v, env) <=> Takes(q, v, env)
<1>1. p.kind = q.kind /\ p.names = q.names /\ p.low = q.low
  BY DEF Key
<1> QED
  BY <1>1, TakesFacts DEF HasKey

\* Three intervals of integers, two by two with a number in common, have one in common.
LEMMA Helly ==
    ASSUME NEW V, V \subseteq Int, \A a, b \in V : a..b \subseteq V,
           NEW a \in Int, NEW b \in Int, NEW c \in Int, NEW d \in Int,
           NEW x \in V, a <= x /\ x <= b, NEW y \in V, c <= y /\ y <= d,
           NEW z \in Int, a <= z /\ z <= b /\ c <= z /\ z <= d
    PROVE  \E v \in V : a <= v /\ v <= b /\ c <= v /\ v <= d
<1>1. CASE x \in c..d
  BY <1>1
<1>2. CASE y \in a..b
  BY <1>2
<1>3. CASE ~(x \in c..d) /\ ~(y \in a..b)
  <2>1. x \in Int /\ y \in Int
    OBVIOUS
  <2>2. z \in x..y \/ z \in y..x
    BY <1>3, <2>1
  <2>3. x..y \subseteq V /\ y..x \subseteq V
    OBVIOUS
  <2> QED
    BY <2>2, <2>3
<1> QED
  BY <1>1, <1>2, <1>3

\* The ends of a range and of the range between two variables.
Low(p, env) == IF p.kind = "range" THEN p.low ELSE env[p.names[1]]
High(p, env) == IF p.kind = "range" THEN p.high ELSE env[p.names[2]]

\* What they take is an interval of integers.
LEMMA IntervalFacts ==
    ASSUME MatchParameters, match \in Matchable, NEW place \in Places,
           PatternAt(place).kind \in Ranged, NEW env \in Environments
    PROVE  /\ match.on = "int" /\ ScrutineeValues \subseteq Int
           /\ Low(PatternAt(place), env) \in Int /\ High(PatternAt(place), env) \in Int
           /\ \A v : Takes(PatternAt(place), v, env) <=>
                        Low(PatternAt(place), env) <= v /\ v <= High(PatternAt(place), env)
           /\ \A x, y \in ScrutineeValues : x..y \subseteq ScrutineeValues
<1>1. PICK p : p = PatternAt(place)
  OBVIOUS
<1>2. p \in PatternRecords /\ IsPattern(p, match.on) /\ p.kind \in {"range", "bounds"}
  BY <1>1, PatternFacts DEF Ranged
<1>3. match.on \in {"bool", "enum", "union", "int"}
  BY DEF MatchParameters, IsMatch
<1>4. match.on = "int"
  BY <1>2, <1>3 DEF IsPattern, NameKind
<1>5. Low(p, env) \in Int /\ High(p, env) \in Int
  <2>1. CASE p.kind = "range"
    BY <1>2, <2>1 DEF Low, High, PatternRecords
  <2>2. CASE p.kind = "bounds"
    <3>1. p.names[1] \in Variables /\ p.names[2] \in Variables
      BY <1>2, <2>2, <1>4 DEF IsPattern
    <3> QED
      BY <2>2, <3>1 DEF Low, High, Environments, MatchParameters
  <2> QED
    BY <1>2, <2>1, <2>2
<1>6. \A v : Takes(p, v, env) <=> Low(p, env) <= v /\ v <= High(p, env)
  BY <1>2, TakesFacts DEF Low, High
<1>7. ScrutineeValues = Scrutinees["int"]
  BY <1>4 DEF ScrutineeValues
<1> QED
  BY <1>1, <1>4, <1>5, <1>6, <1>7 DEF MatchParameters

\* Ranges that overlap share a value that the type has, unless one is empty.
LEMMA OverlapIsReal ==
    ASSUME MatchParameters, match \in Matchable, NEW p \in Places, NEW q \in Places,
           PatternAt(p).kind \in Ranged, PatternAt(q).kind \in Ranged,
           Overlap(PatternAt(p), PatternAt(q)), NEW env \in Environments
    PROVE  {} \in {Common(q, q, env), Common(p, p, env)} \/ Common(q, p, env) # {}
<1> SUFFICES ASSUME Common(q, q, env) # {}, Common(p, p, env) # {}
             PROVE  Common(q, p, env) # {}
  OBVIOUS
<1>1. PICK P, Q : P = PatternAt(p) /\ Q = PatternAt(q)
  OBVIOUS
<1>2. PICK a, b, c, d : /\ a = Low(P, env) /\ b = High(P, env)
                        /\ c = Low(Q, env) /\ d = High(Q, env)
  OBVIOUS
<1>3. /\ ScrutineeValues \subseteq Int /\ \A x, y \in ScrutineeValues : x..y \subseteq ScrutineeValues
      /\ a \in Int /\ b \in Int /\ \A v : Takes(P, v, env) <=> a <= v /\ v <= b
  BY <1>1, <1>2, IntervalFacts
<1>4. c \in Int /\ d \in Int /\ \A v : Takes(Q, v, env) <=> c <= v /\ v <= d
  BY <1>1, <1>2, IntervalFacts
<1>5. PICK x \in ScrutineeValues : a <= x /\ x <= b
  BY <1>1, <1>3 DEF Common
<1>6. PICK y \in ScrutineeValues : c <= y /\ y <= d
  BY <1>1, <1>4 DEF Common
<1>7. \E z \in Int : a <= z /\ z <= b /\ c <= z /\ z <= d
  <2>0. x \in Int /\ y \in Int /\ a <= b /\ c <= d
    BY <1>3, <1>4, <1>5, <1>6
  <2>1. CASE P.kind = "range" /\ Q.kind = "range"
    <3>1. a <= d /\ c <= b
      BY <1>1, <1>2, <2>1 DEF Overlap, Low, High
    <3>2. (a <= c /\ c <= b) \/ (c <= a /\ a <= d)
      BY <1>3, <1>4, <3>1
    <3> QED
      BY <1>3, <1>4, <2>0, <3>2
  <2>2. CASE P.kind = "bounds" /\ Q.kind = "bounds"
    <3>1. {P.names[1], P.names[2]} \cap {Q.names[1], Q.names[2]} # {}
      BY <1>1, <2>2 DEF Overlap
    <3>2. a = env[P.names[1]] /\ b = env[P.names[2]] /\ c = env[Q.names[1]] /\ d = env[Q.names[2]]
      BY <1>2, <2>2 DEF Low, High
    <3>3. {a, b} \cap {c, d} # {}
      BY <3>1, <3>2
    <3> QED
      BY <1>3, <1>4, <2>0, <3>3
  <2> QED
    BY <1>1, <2>1, <2>2 DEF Overlap, Ranged
<1>8. PICK z \in Int : a <= z /\ z <= b /\ c <= z /\ z <= d
  BY <1>7
<1>9. \E v \in ScrutineeValues : a <= v /\ v <= b /\ c <= v /\ v <= d
  BY <1>3, <1>4, <1>5, <1>6, <1>8, Helly
<1> QED
  BY <1>1, <1>3, <1>4, <1>9 DEF Common

\* Each reason for a report is real: the pattern that is next takes nothing that those
\* passed leave, or overlaps one of them.
LEMMA ReasonIsReal ==
    ASSUME MatchParameters, MatchInv, InCase, NEW why, why = Reason(PatternAt(at)), why # "none"
    PROVE  ReportIsReal([at |-> at, why |-> why])
<1>1. /\ match \in Matchable /\ PlaceOK /\ SeenOK /\ at \in Places
      /\ match.on \in {"bool", "enum", "union", "int"}
  BY PlaceFacts DEF MatchInv, MatchParameters, IsMatch
<1>2. PICK p : p = PatternAt(at)
  OBVIOUS
<1>3. p \in PatternRecords /\ IsPattern(p, match.on)
  BY <1>1, <1>2, PatternFacts
<1>4. PICK r : r = [at |-> at, why |-> why]
  OBVIOUS
<1>5. r.at = at /\ r.why = why
  BY <1>4
<1>6. Passed = Preceding(r.at) /\ Preceding(at) \subseteq Places
  BY <1>5 DEF Passed, Preceding
<1>7. ASSUME why # "overlap", ~Inexact(at), NEW env \in Environments, NEW v \in ScrutineeValues, Takes(p, v, env)
      PROVE  \E q \in Passed : Takes(PatternAt(q), v, env)
  <2>1. CASE why = "wildcard"
    <3>1. PICK q \in Passed : IsWildcard(PatternAt(q))
      BY <1>1, <1>2, <2>1, ReasonFacts DEF SeenOK
    <3>2. PatternAt(q).kind \in {"wildcard", "capture"}
      BY <3>1 DEF IsWildcard
    <3> QED
      BY <3>2, TakesFacts
  <2>2. CASE why = "redundant"
    <3>1. HasKey(p) /\ Key(p) \in seen
      BY <1>2, <2>2, ReasonFacts
    <3>2. PICK q \in Passed : HasKey(PatternAt(q)) /\ Key(PatternAt(q)) = Key(p)
      BY <1>1, <3>1 DEF SeenOK
    <3> QED
      BY <1>7, <3>1, <3>2, KeyDecides
  <2>3. CASE why = "all"
    <3>1. v \in covered
      BY <1>2, <2>3, ReasonFacts DEF AllCovered, ScrutineeValues
    <3>2. PICK q \in Passed : PatternAt(q).kind \in {"bool", "enum"} /\ v = PatternAt(q).names[1]
      BY <1>1, <3>1 DEF SeenOK
    <3> QED
      BY <3>2, TakesFacts
  <2>4. CASE why = "covered"
    <3>1. PICK range \in ranges : p.kind = "literal" /\ LiteralInRange(p.low, range)
      BY <1>2, <2>4, ReasonFacts
    <3>2. PICK q \in Passed : PatternAt(q) = range
      BY <1>1, <3>1 DEF SeenOK
    <3>3. range.kind = "range" /\ range.low <= p.low /\ p.low <= range.high
      BY <1>1, <1>2, <1>7, <3>1, ExactComparison
    <3>4. v = p.low
      BY <1>7, <3>1, TakesFacts
    <3>5. Takes(range, v, env)
      BY <3>3, <3>4, TakesFacts
    <3> QED
      BY <3>2, <3>5
  <2> QED
    BY <1>2, <1>7, <2>1, <2>2, <2>3, <2>4, ReasonFacts
<1>8. ASSUME why = "overlap"
      PROVE  \E q \in Passed :
                \/ Inexact(q)
                \/ \A env \in Environments : {} \in {Common(q, q, env), Common(at, at, env)} \/ Common(q, at, env) # {}
  <2>1. /\ p.kind \in Ranged
        /\ \/ \E range \in ranges : Overlap(p, range)
           \/ \E key \in seen : key[1] = "literal" /\ LiteralInRange(key[3], p)
    BY <1>2, <1>8, ReasonFacts
  <2>2. CASE \E range \in ranges : Overlap(p, range)
    <3>1. PICK range \in ranges : Overlap(p, range)
      BY <2>2
    <3>2. PICK q \in Passed : PatternAt(q) = range /\ range.kind \in Ranged
      BY <1>1, <3>1 DEF SeenOK
    <3>3. q \in Places
      BY <3>2 DEF Passed, Preceding
    <3>4. \A env \in Environments : {} \in {Common(q, q, env), Common(at, at, env)} \/ Common(q, at, env) # {}
      BY <1>1, <1>2, <2>1, <3>1, <3>2, <3>3, OverlapIsReal
    <3> QED
      BY <3>4
  <2>3. CASE \E key \in seen : key[1] = "literal" /\ LiteralInRange(key[3], p)
    <3>1. PICK key \in seen : key[1] = "literal" /\ LiteralInRange(key[3], p)
      BY <2>3
    <3>2. PICK q \in Passed : HasKey(PatternAt(q)) /\ Key(PatternAt(q)) = key
      BY <1>1, <3>1 DEF SeenOK
    <3>3. q \in Places
      BY <3>2 DEF Passed, Preceding
    <3>4. PICK o : o = PatternAt(q)
      OBVIOUS
    <3>5. o.kind = "literal" /\ LiteralInRange(o.low, p)
      BY <3>1, <3>2, <3>4 DEF Key
    <3>6. CASE ~Inexact(q)
      <4>1. p.kind = "range" /\ p.low <= o.low /\ o.low <= p.high
        BY <1>1, <3>3, <3>4, <3>5, <3>6, ExactComparison
      <4>2. ASSUME NEW env \in Environments, Common(q, q, env) # {}
            PROVE  Common(q, at, env) # {}
        <5>1. PICK v \in ScrutineeValues : Takes(o, v, env)
          BY <3>4, <4>2 DEF Common
        <5>2. v = o.low
          BY <3>5, <5>1, TakesFacts
        <5>3. Takes(p, v, env)
          BY <4>1, <5>2, TakesFacts
        <5> QED
          BY <1>2, <3>4, <5>1, <5>3 DEF Common
      <4> QED
        BY <4>2
    <3> QED
      BY <3>6
  <2> QED
    BY <2>1, <2>2, <2>3
<1>9. why \in {"wildcard", "redundant", "all", "covered", "overlap"}
  BY <1>2, ReasonFacts
<1>10. ReportIsReal(r)
  <2>1. CASE why = "overlap"
    BY <1>5, <1>6, <1>8, <2>1 DEF ReportIsReal
  <2>2. CASE why # "overlap" /\ Inexact(at)
    BY <1>5, <2>2 DEF ReportIsReal
  <2>3. CASE why # "overlap" /\ ~Inexact(at)
    BY <1>2, <1>5, <1>6, <1>7, <2>3 DEF ReportIsReal
  <2> QED
    BY <2>1, <2>2, <2>3
<1> QED
  BY <1>4, <1>10

(***************************************************************************)
(* What is not reported                                                    *)
(***************************************************************************)

\* A pattern for whose report there is no reason shares no value with those kept.
LEMMA KeptApart ==
    ASSUME MatchParameters, MatchInv, InCase, reports = {}, Reason(PatternAt(at)) = "none",
           NEW q \in Passed, q \in Fixed, at \in Fixed
    PROVE  Apart(q, at) /\ Apart(at, q)
<1>1. /\ match \in Matchable /\ PlaceOK /\ KeptOK /\ at \in Places /\ q \in Places
      /\ match.on \in {"bool", "enum", "union", "int"}
  BY PlaceFacts DEF MatchInv, MatchParameters, IsMatch, Fixed
<1>2. PICK P, Q : P = PatternAt(at) /\ Q = PatternAt(q)
  OBVIOUS
<1>3. P \in PatternRecords /\ IsPattern(P, match.on) /\ Q \in PatternRecords /\ IsPattern(Q, match.on)
  BY <1>1, <1>2, PatternFacts
<1>4. P.kind \notin {"variable", "bounds"} /\ Q.kind \notin {"variable", "bounds"}
  BY <1>2 DEF Fixed
<1>5. SUFFICES ASSUME ~Inexact(q), ~Inexact(at), {"wildcard", "capture"} \cap {P.kind, Q.kind} = {}
               PROVE  \A v \in ScrutineeValues : ~(Takes(P, v, <<>>) /\ Takes(Q, v, <<>>))
  BY <1>2 DEF Apart, Common
<1>6. /\ HasKey(P) => Key(P) \notin seen
      /\ P.kind = "literal" => \A r \in ranges : ~LiteralInRange(P.low, r)
      /\ P.kind \in Ranged => /\ \A r \in ranges : ~Overlap(P, r)
                              /\ \A key \in seen : key[1] = "literal" => ~LiteralInRange(key[3], P)
  BY <1>2, ReasonFacts
<1>7. /\ HasKey(Q) => Key(Q) \in seen
      /\ Q.kind \in Ranged => Q \in ranges
  BY <1>1, <1>2 DEF KeptOK
<1>8. CASE match.on # "int"
  <2>1. /\ P.kind = NameKind[match.on] /\ Len(P.names) = 1 /\ P.low = 0
        /\ Q.kind = NameKind[match.on] /\ Len(Q.names) = 1 /\ Q.low = 0
    BY <1>3, <1>5, <1>8 DEF IsPattern
  <2>2. P.kind = Q.kind /\ P.kind \in {"bool", "enum", "tag"}
    BY <1>1, <1>8, <2>1 DEF NameKind
  <2>3. P.names # Q.names
    BY <1>6, <1>7, <2>1, <2>2 DEF HasKey, Key
  <2>4. P.names \in Seq(STRING) /\ Q.names \in Seq(STRING)
    BY <1>3 DEF PatternRecords
  <2>5. P.names[1] # Q.names[1]
    BY <2>1, <2>3, <2>4
  <2> QED
    BY <2>2, <2>5, TakesFacts
<1>9. CASE match.on = "int"
  <2>1. /\ P.kind = "range" \/ (P.kind = "literal" /\ P.names = <<>>)
        /\ Q.kind = "range" \/ (Q.kind = "literal" /\ Q.names = <<>>)
    BY <1>3, <1>4, <1>5, <1>9 DEF IsPattern
  <2>2. CASE P.kind = "literal" /\ Q.kind = "literal"
    <3>1. P.low # Q.low
      BY <1>6, <1>7, <2>1, <2>2 DEF HasKey, Key
    <3> QED
      BY <2>2, <3>1, TakesFacts
  <2>3. CASE P.kind = "literal" /\ Q.kind = "range"
    <3>1. ~LiteralInRange(P.low, Q)
      BY <1>6, <1>7, <2>3 DEF Ranged
    <3>2. ~(Q.low <= P.low /\ P.low <= Q.high)
      BY <1>1, <1>2, <1>5, <2>3, <3>1, ExactComparison
    <3> QED
      BY <2>3, <3>2, TakesFacts
  <2>4. CASE P.kind = "range" /\ Q.kind = "literal"
    <3>1. Key(Q) \in seen /\ Key(Q)[1] = "literal" /\ Key(Q)[3] = Q.low
      BY <1>7, <2>4 DEF HasKey, Key
    <3>2. ~LiteralInRange(Q.low, P)
      BY <1>6, <2>4, <3>1 DEF Ranged
    <3>3. ~(P.low <= Q.low /\ Q.low <= P.high)
      BY <1>1, <1>2, <1>5, <2>4, <3>2, ExactComparison
    <3> QED
      BY <2>4, <3>3, TakesFacts
  <2>5. CASE P.kind = "range" /\ Q.kind = "range"
    <3>1. ~(P.low <= Q.high /\ Q.low <= P.high)
      BY <1>6, <1>7, <2>5 DEF Ranged, Overlap
    <3>2. P.low \in Int /\ P.high \in Int /\ Q.low \in Int /\ Q.high \in Int
      BY <1>3 DEF PatternRecords
    <3>3. ASSUME NEW v \in ScrutineeValues
          PROVE  ~(Takes(P, v, <<>>) /\ Takes(Q, v, <<>>))
      <4>1. v \in Int
        BY <1>9, <3>3 DEF ScrutineeValues, MatchParameters
      <4> QED
        BY <2>5, <3>1, <3>2, <4>1, TakesFacts
    <3> QED
      BY <3>3
  <2> QED
    BY <2>1, <2>2, <2>3, <2>4, <2>5
<1> QED
  BY <1>1, <1>8, <1>9

\* No value is left exactly when a catch-all or the coverage takes all.
LEMMA LeftFacts ==
    ASSUME MatchParameters, MatchInv, ~InCase, match.on \in {"bool", "enum"}
    PROVE  Left = {} <=> (\E q \in Places : IsWildcard(PatternAt(q))) \/ ScrutineeValues \subseteq covered
<1>1. match \in Matchable /\ PlaceOK /\ SeenOK /\ Passed = Places
  BY AllPassed DEF MatchInv
<1>2. ASSUME NEW q \in Places
      PROVE  PatternAt(q).kind \in {"wildcard", "capture", "bool", "enum"}
  <2>1. IsPattern(PatternAt(q), match.on)
    BY <1>1, PatternFacts
  <2> QED
    BY <2>1 DEF IsPattern, NameKind
<1>3. Fixed = Places
  BY <1>2 DEF Fixed
<1>4. ASSUME NEW q \in Places, NEW v
      PROVE  Takes(PatternAt(q), v, <<>>) <=>
                IsWildcard(PatternAt(q)) \/ (PatternAt(q).kind \in {"bool", "enum"} /\ v = PatternAt(q).names[1])
  BY <1>2, TakesFacts DEF IsWildcard
<1>5. \A v : v \in covered <=> \E q \in Places : PatternAt(q).kind \in {"bool", "enum"} /\ v = PatternAt(q).names[1]
  BY <1>1 DEF SeenOK
<1>6. ASSUME NEW q \in Places, IsWildcard(PatternAt(q)) PROVE Left = {}
  BY <1>3, <1>4, <1>6 DEF Left
<1>7. ASSUME ~\E q \in Places : IsWildcard(PatternAt(q)) PROVE Left = {v \in ScrutineeValues : v \notin covered}
  BY <1>3, <1>4, <1>5, <1>7 DEF Left
<1> QED
  BY <1>6, <1>7

(***************************************************************************)
(* The steps                                                               *)
(***************************************************************************)

\* The invariant holds at first.
LEMMA MatchInvInit ==
    ASSUME MatchParameters, MatchInit
    PROVE  MatchInv
<1>1. match \in Matchable /\ at = <<1, 1>> /\ IsMatch(match)
  BY DEF MatchInit, MatchParameters
<1>2. PlaceOK
  <2>1. match.cases \in Seq(Seq(PatternRecords))
    BY <1>1 DEF IsMatch
  <2>2. ASSUME InCase PROVE match.cases[1] \in Seq(PatternRecords) /\ match.cases[1] # <<>>
    BY <1>1, <2>1, <2>2 DEF InCase, IsMatch
  <2> QED
    BY <1>1, <2>1, <2>2 DEF PlaceOK, InCase, CurrentCase
<1>3. Passed = {}
  <2>1. ASSUME NEW q \in Places PROVE ~(q[1] < 1) /\ ~(q[2] < 1)
    <3>1. match.cases \in Seq(Seq(PatternRecords))
      BY <1>1 DEF IsMatch
    <3>2. q[1] \in DOMAIN match.cases /\ q[2] \in DOMAIN match.cases[q[1]]
      BY DEF Places
    <3>3. match.cases[q[1]] \in Seq(PatternRecords)
      BY <3>1, <3>2
    <3> QED
      BY <3>1, <3>2, <3>3
  <2> QED
    BY <1>1, <2>1 DEF Passed, Preceding
<1> QED
  BY <1>1, <1>2, <1>3 DEF MatchInit, MatchInv, SeenOK, KeptOK, VerdictOK

\* What does not change with the place.
LEMMA SameMatch ==
    ASSUME match' = match
    PROVE  /\ Places' = Places /\ Fixed' = Fixed
           /\ \A q : PatternAt(q)' = PatternAt(q) /\ Inexact(q)' = Inexact(q)
           /\ \A q : /\ IsWildcard(PatternAt(q))' = IsWildcard(PatternAt(q))
                     /\ HasKey(PatternAt(q))' = HasKey(PatternAt(q))
                     /\ Key(PatternAt(q))' = Key(PatternAt(q))
           /\ \A p, q : Apart(p, q)' = Apart(p, q)
           /\ \A r : ReportIsReal(r)' = ReportIsReal(r)
<1>1. Places' = Places /\ ScrutineeValues' = ScrutineeValues
  BY DEF Places, ScrutineeValues
<1>2. \A q : PatternAt(q)' = PatternAt(q) /\ Preceding(q)' = Preceding(q)
  BY <1>1 DEF PatternAt, Preceding
<1>3. \A q : Inexact(q)' = Inexact(q)
  BY <1>2 DEF Inexact
<1>4. \A p, q, env : Common(p, q, env)' = Common(p, q, env)
  BY <1>1, <1>2 DEF Common
<1>5. Fixed' = Fixed
  BY <1>1, <1>2 DEF Fixed
<1>6. \A q : /\ IsWildcard(PatternAt(q))' = IsWildcard(PatternAt(q))
             /\ HasKey(PatternAt(q))' = HasKey(PatternAt(q))
             /\ Key(PatternAt(q))' = Key(PatternAt(q))
  BY <1>2 DEF IsWildcard, HasKey, Key
<1>7. \A p, q : Apart(p, q)' = Apart(p, q)
  BY <1>2, <1>3, <1>4 DEF Apart
<1>8. \A r : ReportIsReal(r)' = ReportIsReal(r)
  BY <1>1, <1>2, <1>3, <1>4 DEF ReportIsReal
<1> QED
  BY <1>1, <1>2, <1>3, <1>5, <1>6, <1>7, <1>8

\* What counting does to the coverage, and what a pattern reports besides its reason.
LEMMA CountFacts ==
    ASSUME MatchParameters, MatchInv, InCase, Count, match' = match
    PROVE  /\ PlaceOK' /\ Passed' = Passed \cup {at} /\ at \in Places
           /\ (catchAll <=> match.orelse \/ \E q \in Passed : IsWildcard(PatternAt(q)))'
           /\ (\A n : n \in covered <=> \E q \in Passed :
                  PatternAt(q).kind \in {"bool", "enum"} /\ n = PatternAt(q).names[1])'
           /\ \A r \in Reversed \cup Shared : ReportIsReal(r) /\ r.why # "missing"
<1>1. /\ match \in Matchable /\ PlaceOK /\ SeenOK
  BY DEF MatchInv
<1>2. PlaceOK' /\ Passed' = Passed \cup {at} /\ at \in Places
  BY <1>1, PlaceFacts, CountPasses
<1>3. PICK p : p = PatternAt(at)
  OBVIOUS
<1>4. /\ IsWildcard(CurrentPattern) <=> IsWildcard(p)
      /\ CurrentPattern.kind = p.kind
      /\ CurrentPattern.kind \in {"bool", "enum"} => CurrentPattern = p
  BY <1>1, <1>3, PlaceFacts
<1>5. /\ \A q : PatternAt(q)' = PatternAt(q)
      /\ \A q : IsWildcard(PatternAt(q))' = IsWildcard(PatternAt(q))
  BY SameMatch
<1>6. catchAll' <=> match'.orelse \/ \E q \in Passed' : IsWildcard(PatternAt(q))
  <2>1. catchAll' <=> catchAll \/ IsWildcard(p)
    BY <1>4 DEF Count
  <2>2. catchAll <=> match.orelse \/ \E q \in Passed : IsWildcard(PatternAt(q))
    BY <1>1 DEF SeenOK
  <2> QED
    BY <1>2, <1>3, <2>1, <2>2
<1>7. \A n : n \in covered' <=> \E q \in Passed' :
         PatternAt(q).kind \in {"bool", "enum"} /\ n = PatternAt(q).names[1]
  <2>1. \A n : n \in covered <=> \E q \in Passed :
           PatternAt(q).kind \in {"bool", "enum"} /\ n = PatternAt(q).names[1]
    BY <1>1 DEF SeenOK
  <2>2. \A n : n \in covered' <=> n \in covered \/ (p.kind \in {"bool", "enum"} /\ n = p.names[1])
    BY <1>4 DEF Count
  <2> QED
    BY <1>2, <1>3, <2>1, <2>2
<1>8. \A r \in Reversed \cup Shared : ReportIsReal(r) /\ r.why # "missing"
  <2>1. \A r \in Reversed \cup Shared : r.why = "reversed" \/ r.why = "shape"
    BY DEF Reversed, Shared
  <2> QED
    BY <2>1 DEF ReportIsReal
<1>9. (catchAll <=> match.orelse \/ \E q \in Passed : IsWildcard(PatternAt(q)))'
  BY <1>5, <1>6
<1>10. (\A n : n \in covered <=> \E q \in Passed :
            PatternAt(q).kind \in {"bool", "enum"} /\ n = PatternAt(q).names[1])'
  BY <1>5, <1>7
<1> QED
  BY <1>2, <1>8, <1>9, <1>10

\* A report of a pattern is real.
LEMMA ReportPatternKeeps ==
    ASSUME MatchParameters, MatchInv, ReportPattern
    PROVE  MatchInv'
<1>1. /\ InCase /\ Count /\ Reason(Normal(CurrentPattern)) # "none"
      /\ UNCHANGED <<match, seen, ranges, wildcard, judged>>
      /\ reports' = reports \cup Reversed \cup Shared \cup {[at |-> at, why |-> Reason(Normal(CurrentPattern))]}
  BY DEF ReportPattern
<1>2. match \in Matchable /\ PlaceOK /\ SeenOK /\ VerdictOK /\ \A r \in reports : ReportIsReal(r)
  BY DEF MatchInv
<1>3. PICK why : why = Reason(Normal(CurrentPattern)) /\ why = Reason(PatternAt(at))
  BY <1>1, <1>2, PlaceFacts
<1>4. PICK report : report = [at |-> at, why |-> why]
  OBVIOUS
<1> ReportIsReal(report) /\ report.why # "missing"
  <2>1. why # "none" /\ why # "missing"
    BY <1>1, <1>3, ReasonFacts
  <2>2. ReportIsReal([at |-> at, why |-> why])
    BY <1>1, <1>3, <2>1, ReasonIsReal
  <2> QED
    BY <1>4, <2>1, <2>2
<1>5. reports' = reports \cup Reversed \cup Shared \cup {report}
  BY <1>1, <1>3, <1>4
<1>6. \A r \in reports' : ReportIsReal(r)'
  BY <1>1, <1>2, <1>4, <1>5, CountFacts, SameMatch
<1>7. SeenOK'
  <2>1. /\ Passed' = Passed \cup {at} /\ \A q : PatternAt(q)' = PatternAt(q)
        /\ \A q : /\ IsWildcard(PatternAt(q))' = IsWildcard(PatternAt(q))
                  /\ HasKey(PatternAt(q))' = HasKey(PatternAt(q))
                  /\ Key(PatternAt(q))' = Key(PatternAt(q))
    BY <1>1, CountFacts, SameMatch
  <2>2. /\ \A key \in seen : \E q \in Passed : HasKey(PatternAt(q)) /\ Key(PatternAt(q)) = key
        /\ \A r \in ranges : r.kind \in Ranged /\ \E q \in Passed : PatternAt(q) = r
        /\ wildcard => \E q \in Passed : IsWildcard(PatternAt(q))
    BY <1>2 DEF SeenOK
  <2>3. /\ \A key \in seen' : \E q \in Passed' : HasKey(PatternAt(q))' /\ Key(PatternAt(q))' = key
        /\ \A r \in ranges' : r.kind \in Ranged /\ \E q \in Passed' : PatternAt(q)' = r
        /\ wildcard' => \E q \in Passed' : IsWildcard(PatternAt(q))'
    BY <1>1, <2>1, <2>2
  <2>4. /\ (catchAll <=> match.orelse \/ \E q \in Passed : IsWildcard(PatternAt(q)))'
        /\ (\A n : n \in covered <=> \E q \in Passed :
                PatternAt(q).kind \in {"bool", "enum"} /\ n = PatternAt(q).names[1])'
    BY <1>1, CountFacts
  <2> QED
    BY <2>1, <2>3, <2>4 DEF SeenOK
<1>8. KeptOK'
  BY <1>5 DEF KeptOK
<1>9. VerdictOK'
  <2>1. ~judged /\ \A r \in reports' : r.why # "missing"
    BY <1>1, <1>2, <1>4, <1>5, CountFacts DEF VerdictOK
  <2> QED
    BY <1>1, <1>2, <2>1 DEF VerdictOK
<1> QED
  BY <1>1, <1>2, <1>6, <1>7, <1>8, <1>9, CountFacts DEF MatchInv

\* A pattern that is kept is apart from those before.
LEMMA KeepPatternKeeps ==
    ASSUME MatchParameters, MatchInv, KeepPattern
    PROVE  MatchInv'
<1>1. /\ InCase /\ Count /\ Reason(Normal(CurrentPattern)) = "none"
      /\ UNCHANGED <<match, judged>>
      /\ reports' = reports \cup Reversed \cup Shared
      /\ wildcard' = (wildcard \/ IsWildcard(CurrentPattern))
      /\ seen' = IF HasKey(CurrentPattern) THEN seen \cup {Key(CurrentPattern)} ELSE seen
      /\ ranges' = IF CurrentPattern.kind \in Ranged THEN ranges \cup {Normal(CurrentPattern)} ELSE ranges
  BY DEF KeepPattern
<1>2. match \in Matchable /\ PlaceOK /\ SeenOK /\ KeptOK /\ VerdictOK /\ \A r \in reports : ReportIsReal(r)
  BY DEF MatchInv
<1>3. PICK p : p = PatternAt(at)
  OBVIOUS
<1>4. /\ Reason(p) = "none" /\ at \in Places
      /\ wildcard' <=> wildcard \/ IsWildcard(p)
      /\ seen' = IF HasKey(p) THEN seen \cup {Key(p)} ELSE seen
      /\ ranges' = IF p.kind \in Ranged THEN ranges \cup {p} ELSE ranges
  BY <1>1, <1>2, <1>3, PlaceFacts
<1>5. /\ Passed' = Passed \cup {at} /\ Fixed' = Fixed
      /\ \A q : PatternAt(q)' = PatternAt(q)
      /\ \A q : /\ IsWildcard(PatternAt(q))' = IsWildcard(PatternAt(q))
                  /\ HasKey(PatternAt(q))' = HasKey(PatternAt(q))
                  /\ Key(PatternAt(q))' = Key(PatternAt(q))
      /\ \A q, o : Apart(q, o)' = Apart(q, o)
  BY <1>1, CountFacts, SameMatch
<1>6. \A r \in reports' : ReportIsReal(r)'
  BY <1>1, <1>2, CountFacts, SameMatch
<1>7. SeenOK'
  <2>1. /\ \A key \in seen : \E q \in Passed : HasKey(PatternAt(q)) /\ Key(PatternAt(q)) = key
        /\ \A r \in ranges : r.kind \in Ranged /\ \E q \in Passed : PatternAt(q) = r
        /\ wildcard => \E q \in Passed : IsWildcard(PatternAt(q))
    BY <1>2 DEF SeenOK
  <2>2. /\ \A key \in seen' : \E q \in Passed' : HasKey(PatternAt(q)) /\ Key(PatternAt(q)) = key
        /\ \A r \in ranges' : r.kind \in Ranged /\ \E q \in Passed' : PatternAt(q) = r
        /\ wildcard' => \E q \in Passed' : IsWildcard(PatternAt(q))
    BY <1>3, <1>4, <1>5, <2>1
  <2>3. /\ \A key \in seen' : \E q \in Passed' : HasKey(PatternAt(q))' /\ Key(PatternAt(q))' = key
        /\ \A r \in ranges' : r.kind \in Ranged /\ \E q \in Passed' : PatternAt(q)' = r
        /\ wildcard' => \E q \in Passed' : IsWildcard(PatternAt(q))'
    BY <1>5, <2>2
  <2>4. /\ (catchAll <=> match.orelse \/ \E q \in Passed : IsWildcard(PatternAt(q)))'
        /\ (\A n : n \in covered <=> \E q \in Passed :
                PatternAt(q).kind \in {"bool", "enum"} /\ n = PatternAt(q).names[1])'
    BY <1>1, CountFacts
  <2> QED
    BY <2>3, <2>4 DEF SeenOK
<1>8. KeptOK'
  <2>1. SUFFICES ASSUME reports = {}
        PROVE  /\ \A q \in Passed' :
                     /\ IsWildcard(PatternAt(q)) => wildcard'
                     /\ HasKey(PatternAt(q)) => Key(PatternAt(q)) \in seen'
                     /\ PatternAt(q).kind \in Ranged => PatternAt(q) \in ranges'
               /\ \A q, o \in Passed' \cap Fixed : Apart(q, o)
    BY <1>1, <1>5 DEF KeptOK
  <2>2. /\ \A q \in Passed :
              /\ IsWildcard(PatternAt(q)) => wildcard
              /\ HasKey(PatternAt(q)) => Key(PatternAt(q)) \in seen
              /\ PatternAt(q).kind \in Ranged => PatternAt(q) \in ranges
        /\ \A q, o \in Passed \cap Fixed : Apart(q, o)
    BY <1>2, <2>1 DEF KeptOK
  <2>3. Apart(at, at)
    BY DEF Apart
  <2>4. \A q \in Passed \cap Fixed : at \in Fixed => Apart(q, at) /\ Apart(at, q)
    BY <1>1, <1>3, <1>4, <2>1, KeptApart
  <2>5. \A q \in Passed' :
           /\ IsWildcard(PatternAt(q)) => wildcard'
           /\ HasKey(PatternAt(q)) => Key(PatternAt(q)) \in seen'
           /\ PatternAt(q).kind \in Ranged => PatternAt(q) \in ranges'
    BY <1>3, <1>4, <1>5, <2>2
  <2>6. \A q, o \in Passed' \cap Fixed : Apart(q, o)
    BY <1>5, <2>2, <2>3, <2>4
  <2> QED
    BY <2>5, <2>6
<1>9. VerdictOK'
  <2>1. ~judged /\ \A r \in reports' : r.why # "missing"
    BY <1>1, <1>2, CountFacts DEF VerdictOK
  <2> QED
    BY <1>1, <1>2, <2>1 DEF VerdictOK
<1> QED
  BY <1>1, <1>2, <1>6, <1>7, <1>8, <1>9, CountFacts DEF MatchInv

\* The verdict says what no pattern takes.
LEMMA JudgeKeeps ==
    ASSUME MatchParameters, MatchInv, Judge
    PROVE  MatchInv'
<1>1. /\ ~InCase /\ ~judged /\ judged' = TRUE
      /\ UNCHANGED <<match, at, seen, ranges, wildcard, catchAll, covered>>
      /\ reports' = reports
             \cup (IF match.orelse /\ (wildcard \/ AllCovered) THEN {[at |-> at, why |-> "else"]} ELSE {})
             \cup (IF Missing THEN {[at |-> at, why |-> "missing"]} ELSE {})
  BY DEF Judge
<1>2. match \in Matchable /\ PlaceOK /\ SeenOK /\ KeptOK /\ VerdictOK /\ \A r \in reports : ReportIsReal(r)
  BY DEF MatchInv
<1>3. PICK else, missing : else = [at |-> at, why |-> "else"] /\ missing = [at |-> at, why |-> "missing"]
  OBVIOUS
<1>4. /\ else.why = "else" /\ missing.why = "missing"
      /\ reports' = reports \cup (IF match.orelse /\ (wildcard \/ AllCovered) THEN {else} ELSE {})
                            \cup (IF Missing THEN {missing} ELSE {})
  BY <1>1, <1>3
<1>5. \A r \in reports' : ReportIsReal(r)'
  <2>1. ReportIsReal(else) /\ ReportIsReal(missing)
    BY <1>4 DEF ReportIsReal
  <2> QED
    BY <1>1, <1>2, <1>4, <2>1, SameMatch
<1>6. PlaceOK' /\ Passed' = Passed /\ SeenOK'
  <2>1. Places' = Places /\ Passed' = Passed /\ \A q : PatternAt(q)' = PatternAt(q)
    BY <1>1, SameMatch DEF Passed, Preceding, Places
  <2>2. PlaceOK'
    BY <1>1, <1>2 DEF PlaceOK, InCase, CurrentCase
  <2>3. SeenOK'
    BY <1>1, <1>2, <2>1, SameMatch DEF SeenOK
  <2> QED
    BY <2>1, <2>2, <2>3
<1>7. KeptOK'
  <2>1. reports' = {} => reports = {}
    BY <1>4
  <2> QED
    BY <1>1, <1>2, <1>6, <2>1, SameMatch DEF KeptOK
<1>8. VerdictOK'
  <2>1. Missing' = Missing /\ AllCovered' = AllCovered /\ InCase' = InCase
    BY <1>1 DEF Missing, AllCovered, InCase
  <2>2. (\E r \in reports' : r.why = "missing") <=> Missing
    BY <1>1, <1>2, <1>4 DEF VerdictOK
  <2>3. reports' = {} /\ match.orelse => ~wildcard /\ ~AllCovered
    BY <1>4
  <2> QED
    BY <1>1, <2>1, <2>2, <2>3 DEF VerdictOK
<1> QED
  BY <1>1, <1>2, <1>5, <1>6, <1>7, <1>8 DEF MatchInv

\* No step disturbs the invariant.
LEMMA MatchInvNext ==
    ASSUME MatchParameters, MatchInv, [MatchNext]_matchVars
    PROVE  MatchInv'
<1>1. CASE ReportPattern
  BY <1>1, ReportPatternKeeps
<1>2. CASE KeepPattern
  BY <1>2, KeepPatternKeeps
<1>3. CASE Judge
  BY <1>3, JudgeKeeps
<1>4. CASE UNCHANGED matchVars
  <2>1. UNCHANGED <<match, at, seen, ranges, wildcard, catchAll, covered, reports, judged>>
    BY <1>4 DEF matchVars
  <2>2. /\ Places' = Places /\ Passed' = Passed /\ InCase' = InCase /\ Missing' = Missing
        /\ AllCovered' = AllCovered
    BY <2>1 DEF Passed, Preceding, Places, InCase, Missing, AllCovered
  <2>3. PlaceOK'
    BY <2>1 DEF MatchInv, PlaceOK, InCase, CurrentCase
  <2>4. SeenOK'
    BY <2>1, <2>2, SameMatch DEF MatchInv, SeenOK
  <2>5. KeptOK' /\ VerdictOK'
    BY <2>1, <2>2, SameMatch DEF MatchInv, KeptOK, VerdictOK
  <2> QED
    BY <2>1, <2>3, <2>4, <2>5, SameMatch DEF MatchInv
<1> QED
  BY <1>1, <1>2, <1>3, <1>4 DEF MatchNext

(***************************************************************************)
(* The theorem                                                             *)
(***************************************************************************)

\* What was reported, and what was not, is right once all patterns are judged.
LEMMA InvariantJudges ==
    ASSUME MatchParameters, MatchInv
    PROVE  MatchesJudged
<1>1. /\ match \in Matchable /\ PlaceOK /\ SeenOK /\ KeptOK /\ VerdictOK
      /\ \A r \in reports : ReportIsReal(r)
      /\ match.on \in {"bool", "enum", "union", "int"}
  BY DEF MatchInv, MatchParameters, IsMatch
<1>2. ASSUME judged PROVE ~InCase /\ Passed = Places
  BY <1>1, <1>2, AllPassed DEF VerdictOK
<1>3. ASSUME judged, reports = {}, NEW p \in Fixed, NEW q \in Fixed PROVE Apart(p, q)
  BY <1>1, <1>2, <1>3 DEF KeptOK, Fixed
<1>4. ASSUME judged, match.on \in {"bool", "enum"}
      PROVE  Left = {} <=> (\E q \in Passed : IsWildcard(PatternAt(q))) \/ ScrutineeValues \subseteq covered
  BY <1>2, <1>4, LeftFacts
<1>5. ASSUME judged, reports = {}, match.orelse, match.on \in {"bool", "enum"} PROVE Left # {}
  <2>1. ~wildcard /\ ~AllCovered
    BY <1>1, <1>5 DEF VerdictOK
  <2>2. ~\E q \in Passed : IsWildcard(PatternAt(q))
    BY <1>1, <1>5, <2>1 DEF KeptOK
  <2>3. ~(ScrutineeValues \subseteq covered)
    BY <1>5, <2>1 DEF AllCovered, ScrutineeValues
  <2> QED
    BY <1>4, <1>5, <2>2, <2>3
<1>6. ASSUME judged
      PROVE  (\E r \in reports : r.why = "missing") <=> ~match.orelse /\ match.on \in {"bool", "enum"} /\ Left # {}
  <2>1. (\E r \in reports : r.why = "missing") <=> Missing
    BY <1>1, <1>6 DEF VerdictOK
  <2>2. catchAll <=> match.orelse \/ \E q \in Passed : IsWildcard(PatternAt(q))
    BY <1>1 DEF SeenOK
  <2> QED
    BY <1>4, <1>6, <2>1, <2>2 DEF Missing, ScrutineeValues
<1> QED
  BY <1>1, <1>3, <1>5, <1>6 DEF MatchesJudged, Apart

\* Whatever the type and however many patterns, what the type checker reports of a match
\* (_check_match_pattern_redundancy, _check_match_exhaustiveness) is right: a pattern
\* reported as unreachable or as overlapping is that, in a match without reports no two
\* patterns share a value, and values are reported missing exactly when no case is sure to take them.
THEOREM MatchesAreJudged ==
    ASSUME MatchParameters
    PROVE  MatchSpec => []MatchesJudged
<1>1. MatchInit => MatchInv
  BY MatchInvInit
<1>2. MatchInv /\ [MatchNext]_matchVars => MatchInv'
  BY MatchInvNext
<1>3. MatchInv => MatchesJudged
  BY InvariantJudges
<1> QED
  BY <1>1, <1>2, <1>3, PTL DEF MatchSpec
================================================================================
