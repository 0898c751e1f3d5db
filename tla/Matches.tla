-------------------------------- MODULE Matches --------------------------------
(***************************************************************************)
(* The checks of a match's patterns (a7/passes/type_checker.py): which are  *)
(* unreachable, which overlap an earlier one, and what no case covers.     *)
(* The match statement and the match expression share them.                *)
(***************************************************************************)
EXTENDS Integers, Sequences, FiniteSets

CONSTANTS
    Scrutinees,     \* type -> its values
    ExactIntegers,  \* the integers up to this one, an even one, are exact as floats
    Variables,      \* the variables among the patterns
    Held,           \* the integers that they may hold
    Matchable       \* the matches to consider: [on, cases, orelse]

VARIABLES
    match,
    at,             \* the case and the pattern that are next
    seen,           \* the patterns kept that stand for one value
    ranges,         \* the ranges kept
    wildcard,       \* whether a wildcard was kept
    catchAll,
    covered,        \* the boolean values and the variants named
    reports,        \* what was reported: [at, why]
    judged

matchVars == <<match, at, seen, ranges, wildcard, catchAll, covered, reports, judged>>

\* A pattern: "wildcard", "capture", "bool", "enum" and "tag" (of a name),
\* "literal" (a number or a constant: low), "variable" (a value unknown here),
\* "range" of two constants and "bounds", the range between two variables.
Pattern(kind, names, low, high) == [kind |-> kind, names |-> names, low |-> low, high |-> high]

\* A pattern that the checks before these let through: a name of the type, or
\* what compares with an integer.
PatternRecords == [kind : STRING, names : Seq(STRING), low : Int, high : Int]
NameKind == [bool |-> "bool", enum |-> "enum", union |-> "tag"]
IsPattern(p, on) ==
    \/ p.kind \in {"wildcard", "capture"}
    \/ on # "int" /\ p.kind = NameKind[on] /\ Len(p.names) = 1 /\ p.low = 0
    \/ on = "int" /\ p.kind = "literal" /\ p.names = <<>>
    \/ on = "int" /\ p.kind = "range"
    \/ on = "int" /\ p.kind = "variable" /\ Len(p.names) = 1 /\ p.names[1] \in Variables
    \/ on = "int" /\ p.kind = "bounds" /\ Len(p.names) = 2 /\ {p.names[1], p.names[2]} \subseteq Variables

IsMatch(m) ==
    /\ m.on \in {"bool", "enum", "union", "int"} /\ m.orelse \in BOOLEAN
    /\ m.cases \in Seq(Seq(PatternRecords))
    /\ \A i \in DOMAIN m.cases :
          m.cases[i] # <<>> /\ \A j \in DOMAIN m.cases[i] : IsPattern(m.cases[i][j], m.on)

MatchParameters ==
    /\ Scrutinees["int"] \subseteq Int
    /\ \A a, b \in Scrutinees["int"] : a..b \subseteq Scrutinees["int"]
    /\ ExactIntegers \in Int /\ Held \subseteq Int
    /\ \A m \in Matchable : IsMatch(m)

CurrentCase == match.cases[at[1]]
CurrentPattern == CurrentCase[at[2]]
InCase == at[1] <= Len(match.cases)

\* A name that stands for nothing takes any value; in a match on a tagged union it
\* counts for nothing.
IsWildcard(p) == p.kind = "wildcard" \/ (p.kind = "capture" /\ match.on # "union")
Ranged == {"range", "bounds"}

\* _match_pattern_key: a tag is the same with and without its union's name. The enum of
\* a variant is left out: the variants of one match are all of its enum.
HasKey(p) == p.kind \in {"bool", "enum", "tag", "literal"}
Key(p) == <<p.kind, p.names, p.low>>

\* A literal is compared with a range as a float; the even mantissa is nearest.
Nearest(n) ==
    IF n <= ExactIntegers \/ n % 2 = 0 THEN n ELSE IF n % 4 = 1 THEN n - 1 ELSE n + 1

\* Mutant: the literal that ends a range is not in it.
HalfOpen(literal, range) ==
    range.kind = "range" /\ range.low <= Nearest(literal) /\ Nearest(literal) < range.high

LiteralInRange(literal, range) ==
    range.kind = "range" /\ range.low <= Nearest(literal) /\ Nearest(literal) <= range.high

\* Ranges between variables overlap if they share one.
Overlap(p, q) ==
    IF p.kind = "bounds" \/ q.kind = "bounds"
    THEN p.kind = q.kind /\ {p.names[1], p.names[2]} \cap {q.names[1], q.names[2]} # {}
    ELSE p.low <= q.high /\ q.low <= p.high

\* _match_full_coverage_reason
AllCovered == match.on \in {"bool", "enum"} /\ Scrutinees[match.on] \subseteq covered

\* _check_match_pattern_redundancy: the first reason that applies.
Reason(p) ==
    CASE wildcard -> "wildcard"
      [] ~wildcard /\ HasKey(p) /\ Key(p) \in seen -> "redundant"
      [] ~wildcard /\ ~(HasKey(p) /\ Key(p) \in seen) /\ AllCovered -> "all"
      [] OTHER ->
             IF p.kind = "literal" /\ \E r \in ranges : LiteralInRange(p.low, r) THEN "covered"
             ELSE IF /\ p.kind \in Ranged
                     /\ \/ \E r \in ranges : Overlap(p, r)
                        \/ \E key \in seen : key[1] = "literal" /\ LiteralInRange(key[3], p)
             THEN "overlap"
             ELSE "none"

\* The pattern is counted as coverage whether it was reported or not.
Count ==
    /\ catchAll' = (catchAll \/ IsWildcard(CurrentPattern))
    /\ covered' = IF CurrentPattern.kind \in {"bool", "enum"} THEN covered \cup {CurrentPattern.names[1]} ELSE covered
    /\ at' = IF at[2] = Len(CurrentCase) THEN <<at[1] + 1, 1>> ELSE <<at[1], at[2] + 1>>

\* A range that runs backwards is reported, and then taken the other way round.
Normal(p) == IF p.kind = "range" /\ p.low > p.high THEN Pattern("range", p.names, p.high, p.low) ELSE p
Reversed == IF Normal(CurrentPattern) # CurrentPattern THEN {[at |-> at, why |-> "reversed"]} ELSE {}

\* A capture shares its case with another pattern.
Shared ==
    IF at[2] = 1 /\ Len(CurrentCase) > 1 /\ match.on # "union" /\ \E i \in DOMAIN CurrentCase : CurrentCase[i].kind = "capture"
    THEN {[at |-> at, why |-> "shape"]} ELSE {}

ReportPattern ==
    /\ InCase /\ Reason(Normal(CurrentPattern)) # "none"
    /\ reports' = reports \cup Reversed \cup Shared \cup {[at |-> at, why |-> Reason(Normal(CurrentPattern))]}
    /\ Count
    /\ UNCHANGED <<match, seen, ranges, wildcard, judged>>

KeepPattern ==
    /\ InCase /\ Reason(Normal(CurrentPattern)) = "none"
    /\ reports' = reports \cup Reversed \cup Shared
    /\ wildcard' = (wildcard \/ IsWildcard(CurrentPattern))
    /\ seen' = IF HasKey(CurrentPattern) THEN seen \cup {Key(CurrentPattern)} ELSE seen
    /\ ranges' = IF CurrentPattern.kind \in Ranged THEN ranges \cup {Normal(CurrentPattern)} ELSE ranges
    /\ Count
    /\ UNCHANGED <<match, judged>>

\* The else branch, and what is missing: the names are not modelled.
Missing == match.on \in {"bool", "enum"} /\ ~catchAll /\ ~(Scrutinees[match.on] \subseteq covered)

Judge ==
    /\ ~InCase /\ ~judged
    /\ judged' = TRUE
    /\ reports' = reports
           \cup (IF match.orelse /\ (wildcard \/ AllCovered) THEN {[at |-> at, why |-> "else"]} ELSE {})
           \cup (IF Missing THEN {[at |-> at, why |-> "missing"]} ELSE {})
    /\ UNCHANGED <<match, at, seen, ranges, wildcard, catchAll, covered>>

MatchInit ==
    /\ match \in Matchable
    /\ at = <<1, 1>>
    /\ seen = {} /\ ranges = {} /\ covered = {} /\ reports = {}
    /\ wildcard = FALSE /\ judged = FALSE
    /\ catchAll = match.orelse

MatchNext == ReportPattern \/ KeepPattern \/ Judge

MatchSpec == MatchInit /\ [][MatchNext]_matchVars

-----------------------------------------------------------------------------
(* What the patterns match                                                 *)

Environments == [Variables -> Held]

\* Whether the pattern takes value, with what the variables hold.
Takes(p, value, env) ==
    CASE p.kind \in {"wildcard", "capture"} -> TRUE
      [] p.kind = "range" -> p.low <= value /\ value <= p.high
      [] p.kind = "bounds" -> env[p.names[1]] <= value /\ value <= env[p.names[2]]
      [] p.kind = "variable" -> value = env[p.names[1]]
      [] p.kind = "literal" -> value = p.low
      [] OTHER -> value = p.names[1]

Places == UNION {{i} \X DOMAIN match.cases[i] : i \in DOMAIN match.cases}
PatternAt(place) == Normal(match.cases[place[1]][place[2]])
Preceding(place) ==
    {q \in Places : q[1] < place[1] \/ (q[1] = place[1] /\ q[2] < place[2])}

ScrutineeValues == Scrutinees[match.on]
Inexact(place) == PatternAt(place).kind = "literal" /\ match.on = "int" /\ PatternAt(place).low > ExactIntegers
Common(p, q, env) == {v \in ScrutineeValues : Takes(PatternAt(p), v, env) /\ Takes(PatternAt(q), v, env)}

\* The places whose patterns take the same values in every run.
Fixed == {p \in Places : PatternAt(p).kind \notin {"variable", "bounds"}}
Left == {v \in ScrutineeValues : \A p \in Fixed : ~Takes(PatternAt(p), v, <<>>)}

\* What is reported as unreachable takes no value that the patterns before leave, and
\* what is reported as an overlap shares a value with one of them or one is empty.
ReportIsReal(r) ==
    \/ r.why \notin {"wildcard", "redundant", "all", "covered", "overlap"}
    \/ Inexact(r.at)
    \/ r.why = "overlap" /\ \E q \in Preceding(r.at) :
           \/ Inexact(q)
           \/ \A env \in Environments : {} \in {Common(q, q, env), Common(r.at, r.at, env)} \/ Common(q, r.at, env) # {}
    \/ r.why # "overlap" /\ \A env \in Environments, v \in ScrutineeValues :
           Takes(PatternAt(r.at), v, env) => \E q \in Preceding(r.at) : Takes(PatternAt(q), v, env)

\* Every report is of a pattern that is unreachable or overlaps; a match without
\* reports has no two values or ranges that overlap, and no else with nothing left;
\* and a value is reported missing exactly when no case is sure to take it.  This
\* leaves aside literals that are not exact as floats.
MatchesJudged ==
    /\ \A r \in reports : ReportIsReal(r)
    /\ judged /\ reports = {} =>
         /\ \A p, q \in Fixed :
              \/ p = q \/ Inexact(p) \/ Inexact(q) \/ Common(p, q, <<>>) = {}
              \/ {"wildcard", "capture"} \cap {PatternAt(p).kind, PatternAt(q).kind} # {}
         /\ match.orelse /\ match.on \in {"bool", "enum"} => Left # {}
    /\ judged =>
         ((\E r \in reports : r.why = "missing")
              <=> ~match.orelse /\ match.on \in {"bool", "enum"} /\ Left # {})
=============================================================================
