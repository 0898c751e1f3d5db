---------------------------- MODULE ConstantFolding ----------------------------
(***************************************************************************)
(* How the type checker folds and types the constants in an expression:    *)
(* a7/passes/type_checker.py, the walk over a chain of left operands, the  *)
(* rules of unary and binary operators for numbers, and the fitting of an  *)
(* exact constant to its destination.                                      *)
(*                                                                         *)
(* An expression is the sequence of its nodes, operands before operators;  *)
(* a node is known by its position.  Only numbers and bool have types; of  *)
(* the nodes whose first operand nests (_CHAIN_KINDS) there is BINARY.     *)
(***************************************************************************)
EXTENDS ExactConstants, FiniteSets, SequencesExt

CONSTANTS
    Initializations,   \* the declarations to consider: an expression and its target
    Bindings,       \* constant names in scope -> their values
    VarTypes,       \* variables in scope -> their types
    Ranges          \* integer type -> <<least, greatest>>

VARIABLES
    expr,           \* the initializer
    target,         \* "const", "var", or the type that was written
    phase,          \* "start", "visit", "settle", "sweep", "done"
    frames,         \* the generators of _expression_work, the running one first
    result,         \* the type a finished generator sends, or "none"
    notes           \* what the checker has written on the nodes

vars == <<expr, target, phase, frames, result, notes>>

\* Constructors of expressions.
Node(kind, op, name, value, args) ==
    [kind |-> kind, op |-> op, name |-> name, value |-> value, args |-> args]
Literal(value) == <<Node("literal", "", "", value, <<>>)>>
Name(x) == <<Node("name", "", x, None, <<>>)>>
Unary(op, a) == Append(a, Node("unary", op, "", None, <<Len(a)>>))
Shift(a, by) == [i \in DOMAIN a |-> [a[i] EXCEPT !.args = [k \in DOMAIN @ |-> @[k] + by]]]
Binary(op, a, b) ==
    a \o Shift(b, Len(a)) \o <<Node("binary", op, "", None, <<Len(a), Len(a) + Len(b)>>)>>

-----------------------------------------------------------------------------
(* Types                                                                   *)

Default(v) == IF v.cat = "integer" THEN "i32" ELSE "f64"
Integral == DOMAIN Ranges
Floating == {"f32", "f64"}
Numeric == Integral \cup Floating
Widens == {<<"i8", "i32">>, <<"u8", "i32">>, <<"f32", "f64">>}
Unsigned == {"u8"}

Assignable(from, to) == from = to \/ from = "unknown" \/ <<from, to>> \in Widens

InRange(n, type) == Ranges[type][1] <= n /\ n <= Ranges[type][2]

\* The number of bits of an integer type.
Width(type) == BitLength(Ranges[type][2] - Ranges[type][1])

Comparisons == {"EQ", "NE", "LT", "LE", "GT", "GE"}
Logical == {"LOGICAL_AND", "LOGICAL_OR"}

-----------------------------------------------------------------------------
(* The tree and the notes on it                                            *)

\* exact: exact_constant; failed: exact_failed; folded: comparisons that have
\* become a boolean literal; fitted: the uses materialised, with their type and
\* integer or pattern; diagnosed: exact_diagnosed.
NoNotes == [exact |-> <<>>, failed |-> {}, folded |-> <<>>, types |-> <<>>,
            fitted |-> <<>>, diagnosed |-> {}, errors |-> <<>>]

Root == Len(expr)
Operator(n) == IF n \in DOMAIN notes.folded THEN "" ELSE expr[n].op
LeftOf(n) == expr[n].args[1]
RightOf(n) == expr[n].args[2]
Other(n, operand) == IF operand = LeftOf(n) THEN RightOf(n) ELSE LeftOf(n)

\* A literal made of a comparison or a constant has lost its operands.
Erased(w) == DOMAIN w.folded \cup DOMAIN w.fitted

\* The nodes at and below n, through operands that are still attached.
Under(w, n) ==
    LET below[m \in 1..n] ==
            {m} \cup IF m \in Erased(w) THEN {}
                     ELSE UNION {below[expr[m].args[k]] : k \in DOMAIN expr[m].args}
    IN  below[n]

Typed(w, n, type) == [w EXCEPT !.types = (n :> type) @@ @]
Report(w, n, what) == [w EXCEPT !.errors = Append(@, <<n, what>>)]
ReportAll(w, nodes) == [w EXCEPT !.errors = @ \o SetToSeq({<<n, "misfit">> : n \in nodes})]
Misfits(w, nodes) == [ReportAll(w, nodes) EXCEPT !.diagnosed = @ \cup nodes]

\* evaluate, given the values known and the nodes that failed.
Evaluate(n, known, failed) ==
    LET value[m \in DOMAIN expr] ==
            IF m \in failed \/ m \in DOMAIN notes.folded THEN None
            ELSE IF m \in DOMAIN known THEN known[m]
            ELSE CASE expr[m].kind = "literal" ->
                          IF expr[m].value.is = "error" THEN Error(m) ELSE expr[m].value
                   [] expr[m].kind = "name" ->
                          IF expr[m].name \in DOMAIN Bindings THEN Bindings[expr[m].name] ELSE None
                   [] expr[m].op = "NEG" ->
                          The({IF IsValue(v) THEN Negated(v) ELSE v : v \in {value[LeftOf(m)]}})
                   [] expr[m].op \in Foldable ->
                          The({IF ~IsValue(l) THEN l ELSE IF ~IsValue(r) THEN r ELSE Fold(expr[m].op, l, r, m) :
                                  l \in {value[LeftOf(m)]}, r \in {value[RightOf(m)]}})
                   [] OTHER -> None
    IN  value[n]

\* _evaluate_exact: a rejected constant is reported where the walk stands.
EvaluateExact(n) == Evaluate(n, notes.exact, notes.failed)
Rejected(w, n, r) ==
    IF r.is = "error" THEN Report([w EXCEPT !.failed = @ \cup {r.at, n}], n, "rejected") ELSE w

\* _fit_exact, for constants with their destinations.
Fits(w, n, type) ==
    type \in Floating \/
    (n \notin w.diagnosed /\ w.exact[n].den = 1 /\ InRange(w.exact[n].num, type))

Fit(w, to) ==
    LET good == {n \in DOMAIN to : Fits(w, n, to[n])}
        bad == (DOMAIN to \ good) \ w.diagnosed
        Image(n) == IF to[n] \in Floating THEN IeeeBits(w.exact[n], Formats[to[n]]) ELSE w.exact[n].num
    IN  Misfits([w EXCEPT !.types = [n \in good |-> to[n]] @@ @,
                          !.fitted = [n \in good |-> [type |-> to[n], as |-> Image(n)]] @@ @], bad)

\* _silence_constants
Silence(w, nodes) ==
    [w EXCEPT !.diagnosed = @ \cup (DOMAIN w.exact \cap UNION {Under(w, n) : n \in nodes})]

\* _report_default_overflow
Overflows(w, n) ==
    n \in DOMAIN w.exact /\ w.exact[n].cat = "integer" /\ ~InRange(w.exact[n].num, "i32")
-----------------------------------------------------------------------------
(* visit_unary_expr and visit_binary_expr, once the operands have a type:  *)
(* the type of the node, and whether the operator is reported.             *)

Judged(type, reported) == [type |-> type, reported |-> reported]
Refused == Judged("unknown", TRUE)

JudgeUnary(op, type) ==
    CASE type = "unknown" -> Judged(IF op = "NOT" THEN "bool" ELSE "unknown", FALSE)
          [] type # "unknown" /\ op = "NOT" ->
                 Judged("bool", type # "bool")
          [] type # "unknown" /\ op = "NEG" ->
                 IF type \in Numeric \ Unsigned THEN Judged(type, FALSE) ELSE Refused
          [] type # "unknown" /\ op = "BIT_NOT" ->
                 IF type \in Integral THEN Judged(type, FALSE) ELSE Refused

IsConstant(w, n) == n \in DOMAIN w.exact

\* The integer a literal operand stands for: materialised or not yet.
IntegerOf(w, n) ==
    IF n \in DOMAIN w.fitted
    THEN IF w.fitted[n].type \in Integral THEN {w.exact[n].num} ELSE {}
    ELSE IF expr[n].kind = "literal" /\ expr[n].value.is = "value" /\ expr[n].value.cat = "integer"
    THEN {expr[n].value.num}
    ELSE IF expr[n].op = "NEG" /\ expr[LeftOf(n)].kind = "literal" /\ expr[LeftOf(n)].value.is = "value"
            /\ expr[LeftOf(n)].value.cat = "integer"
    THEN {-expr[LeftOf(n)].value.num}
    ELSE {}
IsFloatLiteral(w, n) ==
    IF n \in DOMAIN w.fitted THEN w.fitted[n].type \in Floating
    ELSE expr[n].kind = "literal" /\ (expr[n].value.is = "error" \/ expr[n].value.cat # "integer")

FitsLiteral(w, n, type) ==
    type \in Numeric /\ \E i \in IntegerOf(w, n) : type \in Integral => InRange(i, type)

\* A constant beside a number takes the number's type, even when it does not fit.
Adopts(w, n, constant, peer) ==
    /\ expr[n].op \notin Shifts \cup Logical
    /\ IsConstant(w, constant) /\ ~IsConstant(w, peer)
    /\ w.types[peer] \in Numeric
OperandType(w, n, operand) ==
    w.types[IF Adopts(w, n, operand, Other(n, operand)) THEN Other(n, operand) ELSE operand]

\* The constants among the operands are fitted: beside a number to its type, in a
\* shift to their default; beside an operand of unknown type they are silenced.
FitOperands(w, n) ==
    LET l == LeftOf(n)
        r == RightOf(n)
        shift == expr[n].op \in Shifts
        fitted == {c \in {l, r} : IF shift THEN IsConstant(w, c) ELSE Adopts(w, n, c, Other(n, c))}
    IN  IF "unknown" \in {w.types[l], w.types[r]} THEN Silence(w, {l, r})
        ELSE Fit(w, [c \in fitted |-> w.types[IF shift THEN c ELSE Other(n, c)]])

RECURSIVE IsComplemented(_, _)
IsComplemented(w, n) ==
    /\ expr[n].op = "BIT_NOT"
    /\ IsConstant(w, LeftOf(n)) \/ IsComplemented(w, LeftOf(n))

\* _check_shift_count
CountOutside(w, count, type) ==
    LET amounts == IntegerOf(w, count) \cup
                   {w.exact[m].num : m \in {k \in {count} : IsConstant(w, k) /\ w.exact[k].den = 1}}
    IN  \E amount \in amounts : amount < 0 \/ (type \in Integral /\ amount >= Width(type))

JudgeArithmetic(w, n, left, right) ==
    LET l == LeftOf(n)
        r == RightOf(n)
    IN  CASE {left, right} \subseteq Numeric /\ FitsLiteral(w, l, right) -> Judged(right, FALSE)
          [] {left, right} \subseteq Numeric /\ ~FitsLiteral(w, l, right) /\ FitsLiteral(w, r, left) -> Judged(left, FALSE)
          [] {left, right} \subseteq Numeric /\ ~FitsLiteral(w, l, right) /\ ~FitsLiteral(w, r, left) ->
                 IF IsFloatLiteral(w, l) /\ right \in Floating THEN Judged(right, FALSE)
                 ELSE IF IsFloatLiteral(w, r) /\ left \in Floating THEN Judged(left, FALSE)
                 ELSE IF Assignable(left, right) THEN Judged(right, FALSE)
                 ELSE IF Assignable(right, left) THEN Judged(left, FALSE)
                 ELSE Refused
          [] OTHER -> Refused

JudgeBits(w, n, left, right) ==
    CASE ~({left, right} \subseteq Integral) -> Refused
      [] {left, right} \subseteq Integral /\ expr[n].op \in Shifts ->
             Judged(left, CountOutside(w, RightOf(n), left))
      [] {left, right} \subseteq Integral /\ expr[n].op \notin Shifts ->
             IF IsComplemented(w, RightOf(n)) THEN Judged(left, FALSE)
             ELSE IF IsComplemented(w, LeftOf(n)) THEN Judged(right, FALSE)
             ELSE IF left = right THEN Judged(left, FALSE)
             ELSE Refused

\* _comparison_problem, for numbers and bool
Comparable(op, left, right) ==
    {left, right} \subseteq Numeric \/ (left = right /\ op \in {"EQ", "NE"})

JudgeBinary(w, n, left, right) ==
    LET op == expr[n].op
    IN  CASE "unknown" \in {left, right} ->
                 Judged(IF op \in Comparisons \cup Logical THEN "bool" ELSE "unknown", FALSE)
          [] "unknown" \notin {left, right} /\ op \in Arithmetic -> JudgeArithmetic(w, n, left, right)
          [] "unknown" \notin {left, right} /\ op \in Bits -> JudgeBits(w, n, left, right)
          [] "unknown" \notin {left, right} /\ op \in Comparisons -> Judged("bool", ~Comparable(op, left, right))
          [] "unknown" \notin {left, right} /\ op \in Logical -> Judged("bool", {left, right} # {"bool"})

-----------------------------------------------------------------------------
(* visit_expression: down the left operands to the end of the chain, then  *)
(* back up, folding what is constant.  pending is the value of the link    *)
(* below, which the current link either absorbs or writes down.            *)

IsLink(w, n) ==
    expr[n].kind = "binary" /\ n \notin DOMAIN w.folded \cup DOMAIN w.exact \cup w.failed

ChainFrom(w, n) ==
    LET chain[m \in 1..n] ==
            IF IsLink(w, m) /\ IsLink(w, LeftOf(m)) THEN <<m>> \o chain[LeftOf(m)] ELSE <<m>>
    IN  chain[n]

Frame(do, n, links) ==
    [do |-> do, at |-> n, links |-> links, first |-> 0, pending |-> None, type |-> "none"]
Visit(w, n) == Frame("chain", n, ChainFrom(w, n))

\* A generator of visit_unary_expr or visit_binary_expr and the operand it waits for.
Wait(w, do, n) ==
    <<Visit(w, IF do = "right" THEN RightOf(n) ELSE LeftOf(n)), Frame(do, n, <<>>)>>

Top == Head(frames)
Running(do) == phase = "visit" /\ frames # <<>> /\ Top.do = do
AtLink == Running("chain") /\ result = "none" /\ Top.links # <<>>
Current == Last(Top.links)
First == Top.first
Pending == Top.pending

\* On to the next link, with what this one leaves to it.
Onwards(links, pending, type) ==
    frames' = <<[Top EXCEPT !.links = Front(links), !.first = Last(links),
                            !.pending = pending, !.type = type]>> \o Tail(frames)
Stay == UNCHANGED <<expr, target, phase, result>>

\* The link's value, with that of the link below lent to its node.
Folded ==
    Evaluate(Current,
             IF IsValue(Pending) THEN (First :> Pending) @@ notes.exact ELSE notes.exact,
             notes.failed)

\* Whether this link is evaluated at all: not above one that is not constant.
MayFold == IF Operator(Current) \in Foldable THEN First = 0 \/ IsValue(Pending) ELSE First = 0

SkipFailed ==
    /\ AtLink /\ Current \in notes.failed
    /\ notes' = Typed(notes, Current, "unknown")
    /\ Onwards(Top.links, None, "unknown")
    /\ Stay

Comparing == AtLink /\ Current \notin notes.failed /\ Operator(Current) \in Comparisons
ComparedLeft == IF First = 0 THEN EvaluateExact(LeftOf(Current)) ELSE Pending
ComparedRight == EvaluateExact(RightOf(Current))

\* A comparison of constants becomes a literal.
FoldComparison ==
    /\ Comparing
    /\ \E l \in {ComparedLeft}, r \in {ComparedRight} :
           /\ IsValue(l) /\ IsValue(r)
           /\ notes' = Typed([notes EXCEPT !.folded = (Current :> Compare(Operator(Current), l, r)) @@ @],
                             Current, "bool")
    /\ Onwards(Top.links, None, "bool")
    /\ Stay

ExtendConstant ==
    /\ AtLink /\ Current \notin notes.failed /\ Operator(Current) \notin Comparisons
    /\ MayFold
    /\ \E v \in {Folded} : IsValue(v) /\ Onwards(Top.links, v, Top.type)
    /\ UNCHANGED notes /\ Stay

\* The links a rejected constant is reported at: up to the outermost operator
\* that could still have been part of it.
Reached(links) ==
    LET above[k \in 1..Len(links)] ==
            IF k > 1 /\ Operator(links[k - 1]) \in Foldable THEN above[k - 1] ELSE k
    IN  SubSeq(links, 1, above[Len(links)])

RejectConstant ==
    /\ AtLink /\ Current \notin notes.failed /\ Operator(Current) \notin Comparisons
    /\ MayFold
    /\ \E v \in {Folded}, links \in {IF Operator(Current) \in Foldable THEN Reached(Top.links) ELSE Top.links} :
           /\ v.is = "error"
           /\ notes' = Typed(Rejected(notes, Last(links), v), Last(links), "unknown")
           /\ Onwards(links, None, "unknown")
    /\ Stay

\* Mutant: it gets its type only.
TypeKept == IF IsValue(Pending) THEN Typed(notes, First, Default(Pending)) ELSE notes

\* The constant of the link below, which ends there, is written down.
Kept ==
    IF IsValue(Pending) THEN Typed([notes EXCEPT !.exact = (First :> Pending) @@ @], First, Default(Pending))
    ELSE notes

NotConstant ==
    /\ AtLink /\ Current \notin notes.failed /\ Operator(Current) \notin Comparisons
    /\ MayFold => Folded = None

\* A variable has its type; an operator waits for the first operand without one.
VisitVariable ==
    /\ NotConstant /\ expr[Current].kind = "name"
    /\ LET type == VarTypes[expr[Current].name]
       IN  notes' = Typed(notes, Current, type) /\ Onwards(Top.links, None, type)
    /\ Stay

Operand == IF expr[Current].kind = "unary" THEN "operand" ELSE IF First = 0 THEN "left" ELSE "right"

VisitOperator ==
    /\ NotConstant /\ expr[Current].kind # "name"
    /\ \E w \in {Kept} : notes' = w /\ frames' = Wait(w, Operand, Current) \o frames
    /\ Stay

VisitComparison ==
    /\ Comparing
    /\ \E l \in {ComparedLeft}, r \in {ComparedRight} :
           /\ ~(IsValue(l) /\ IsValue(r))
           /\ \E v \in {IF First = 0 THEN Rejected(notes, LeftOf(Current), l) ELSE Kept} :
              \E w \in {Rejected(v, RightOf(Current), r)} :
                  notes' = w /\ frames' = Wait(w, Operand, Current) \o frames
    /\ Stay

LeftDone ==
    /\ Running("left") /\ result # "none"
    /\ frames' = Wait(notes, "right", Top.at) \o Tail(frames)
    /\ result' = "none"
    /\ UNCHANGED <<expr, target, phase, notes>>

\* The type of an operator goes to the chain that waits for it.
OperandsDone ==
    /\ phase = "visit" /\ frames # <<>> /\ Top.do \in {"operand", "right"} /\ result # "none"
    /\ LET n == Top.at
           chain == frames[2]
           unary == Top.do = "operand"
       IN  \E w \in {IF unary THEN notes ELSE FitOperands(notes, n)} :
           \E judged \in {IF unary THEN JudgeUnary(expr[n].op, result)
                          ELSE JudgeBinary(w, n, OperandType(notes, n, LeftOf(n)), OperandType(notes, n, RightOf(n)))} :
               /\ notes' = Typed(IF judged.reported THEN Report(w, n, "operands") ELSE w, n, judged.type)
               /\ frames' = <<[chain EXCEPT !.links = Front(@), !.first = n, !.pending = None,
                                            !.type = judged.type]>> \o SubSeq(frames, 3, Len(frames))
    /\ result' = "none"
    /\ UNCHANGED <<expr, target, phase>>

FinishChain ==
    /\ Running("chain") /\ result = "none" /\ Top.links = <<>>
    /\ LET type == IF IsValue(Pending) THEN Default(Pending) ELSE Top.type
       IN  /\ notes' = IF IsValue(Pending)
                       THEN Typed([notes EXCEPT !.exact = (Top.at :> Pending) @@ @], Top.at, type)
                       ELSE notes
           /\ result' = type
    /\ frames' = Tail(frames)
    /\ phase' = IF Len(frames) = 1 THEN "settle" ELSE phase
    /\ UNCHANGED <<expr, target>>

-----------------------------------------------------------------------------
(* The declaration                                                         *)

\* visit_const_decl: a constant is folded whole, and has no place at run time.
Bind ==
    /\ phase = "start" /\ target = "const"
    /\ IsValue(EvaluateExact(Root))
    /\ phase' = "done"
    /\ UNCHANGED <<expr, target, frames, result, notes>>

StartVisit ==
    /\ phase = "start"
    /\ target = "const" => ~IsValue(EvaluateExact(Root))
    /\ phase' = "visit"
    /\ \E w \in {IF target = "const" THEN Rejected(notes, Root, EvaluateExact(Root)) ELSE notes} :
           notes' = w /\ frames' = <<Visit(w, Root)>>
    /\ UNCHANGED <<expr, target, result>>

\* The value against the type that was written, or the default.
Settle ==
    /\ phase = "settle"
    /\ notes' =
           CASE target = "const" -> notes
             [] target = "var" -> Misfits(notes, {n \in {Root} : Overflows(notes, n)} \ notes.diagnosed)
             [] target \in Numeric ->
                    IF result = "unknown" THEN notes
                    ELSE IF IsConstant(notes, Root) THEN Fit(notes, Root :> target)
                    ELSE IF Assignable(result, target) THEN notes
                    ELSE Report(notes, Root, "mismatch")
    /\ phase' = "sweep"
    /\ UNCHANGED <<expr, target, frames, result>>

\* visit_program, at the end: every constant that has no place yet takes the
\* default type, and floats that overflow are reported.
Sweep ==
    /\ phase = "sweep"
    /\ LET nodes == Under(notes, Root)
           unplaced == {n \in nodes : IsConstant(notes, n)} \ (DOMAIN notes.fitted \cup notes.diagnosed)
           outside == {n \in unplaced : Overflows(notes, n)}
       IN  \E w \in {Fit(Misfits(notes, outside), [n \in unplaced \ outside |-> notes.types[n]])} :
               notes' = ReportAll(w, {n \in nodes \cap DOMAIN w.fitted :
                                        w.fitted[n].type \in Floating /\ w.fitted[n].as = -1})
    /\ phase' = "done"
    /\ UNCHANGED <<expr, target, frames, result>>

Init ==
    /\ \E d \in Initializations : expr = d.expr /\ target = d.target
    /\ phase = "start"
    /\ frames = <<>>
    /\ result = "none"
    /\ notes = NoNotes

Next ==
    \/ Bind \/ StartVisit \/ SkipFailed \/ FoldComparison \/ ExtendConstant \/ RejectConstant
    \/ VisitVariable \/ VisitOperator \/ VisitComparison \/ LeftDone \/ OperandsDone \/ FinishChain \/ Settle \/ Sweep

Spec == Init /\ [][Next]_vars

-----------------------------------------------------------------------------
(* What the walk promises.                                                 *)

\* What the whole expression at each node evaluates to when nothing was noted.
Meanings ==
    FoldLeft(LAMBDA value, node :
                 Append(value,
                        CASE node.kind = "literal" -> node.value
                          [] node.kind = "name" -> IF node.name \in DOMAIN Bindings THEN Bindings[node.name] ELSE None
                          [] node.op = "NEG" ->
                                 IF IsValue(value[node.args[1]]) THEN Negated(value[node.args[1]]) ELSE None
                          [] node.op \in Foldable ->
                                 IF IsValue(value[node.args[1]]) /\ IsValue(value[node.args[2]])
                                 THEN Fold(node.op, value[node.args[1]], value[node.args[2]], 0) ELSE None
                          [] OTHER -> None),
             <<>>, expr)

Parent(n) == {m \in DOMAIN expr : \E k \in DOMAIN expr[m].args : expr[m].args[k] = n}
Below(n) ==
    LET b[m \in 1..n] == {m} \cup UNION {b[expr[m].args[k]] : k \in DOMAIN expr[m].args}
    IN  b[n]
Reports(what) == {i \in DOMAIN notes.errors : notes.errors[i][2] = what}
At(i) == notes.errors[i][1]

\* The chain walk folds as one evaluation of each whole constant would: a value
\* is kept at exactly the largest constant subexpressions, unless a rejected
\* constant or a folded comparison took the expression around it; and every
\* constant that the language rejects has exactly one report.
FoldsAsAWhole ==
    (phase = "done" /\ target # "const") =>
        \E meaning \in {Meanings} :
            LET Constant(n) == IsValue(meaning[n])
                Maximal(n) == Constant(n) /\ \A m \in Parent(n) : ~Constant(m)
                Covering(n) == {i \in Reports("rejected") : n \in Below(At(i))}
            IN  /\ \A n \in DOMAIN notes.exact : notes.exact[n] = meaning[n] /\ Maximal(n)
                /\ \A n \in DOMAIN expr : Maximal(n) =>
                       \/ n \in DOMAIN notes.exact
                       \/ \E m \in Parent(n) : m \in DOMAIN notes.folded
                       \/ Covering(n) # {}
                /\ \A n \in DOMAIN expr : (Operator(n) \in Comparisons /\ Covering(n) = {}) =>
                       ~(Constant(LeftOf(n)) /\ Constant(RightOf(n)))
                /\ \A n \in DOMAIN notes.folded :
                       notes.folded[n] = Compare(expr[n].op, meaning[LeftOf(n)], meaning[RightOf(n)])
                /\ \A n \in DOMAIN expr : meaning[n].is = "error" => Cardinality(Covering(n)) = 1
                /\ \A i \in Reports("rejected") : \E n \in Below(At(i)) : meaning[n].is = "error"

\* Wherever two constants meet, the operators obey their laws.
LawsHold ==
    \E meaning \in {Meanings} : \A n \in DOMAIN expr :
        (expr[n].kind = "binary" /\ IsValue(meaning[LeftOf(n)]) /\ IsValue(meaning[RightOf(n)])) =>
            FoldsExactly(meaning[LeftOf(n)], meaning[RightOf(n)])

\* Constants are folded by the laws of the operators, and each one of an accepted
\* declaration that is still there at run time has got a type that holds it
\* exactly, or the nearest float; nothing is left untyped without a report, and no
\* report stands on top of another.
ConstantsFit ==
    phase = "done" => LawsHold /\ (target # "const" =>
        /\ notes.errors = <<>> =>
               \A n \in Under(notes, Root) :
                   /\ notes.types[n] # "unknown"
                   /\ n \in DOMAIN notes.exact =>
                          /\ n \in DOMAIN notes.fitted
                          /\ LET f == notes.fitted[n]
                                 v == notes.exact[n]
                             IN  IF f.type \in Integral
                                 THEN v.den = 1 /\ f.as = v.num /\ InRange(v.num, f.type)
                                 ELSE f.as # -1 /\ RoundsToNearest(v, Formats[f.type], f.as)
        /\ \A n \in DOMAIN notes.fitted : notes.fitted[n].type \in Floating =>
               RoundsToNearest(notes.exact[n], Formats[notes.fitted[n].type], notes.fitted[n].as)
        /\ \A n \in DOMAIN notes.types : notes.types[n] = "unknown" =>
               \E i \in DOMAIN notes.errors : At(i) \in Below(n)
        /\ \A i, j \in DOMAIN notes.errors : i # j => notes.errors[i] # notes.errors[j]
        /\ \A i \in Reports("operands") : \A k \in DOMAIN expr[At(i)].args :
               notes.types[expr[At(i)].args[k]] # "unknown"
        /\ \A i \in Reports("mismatch") : notes.types[Root] # "unknown" /\ Root \notin notes.diagnosed
        /\ \A i \in Reports("misfit"), j \in Reports("rejected") : At(i) \notin Below(At(j)))
=============================================================================
