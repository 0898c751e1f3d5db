---------------------------- MODULE ControlFlow -----------------------------
(***************************************************************************)
(* The control-flow rules of the semantic validator                        *)
(* (a7/passes/semantic_validator.py), against executions of the functions  *)
(* it judges.                                                              *)
(*                                                                         *)
(* A function body is a tree of statements.  The validator walks it with   *)
(* the loops around each statement: break and continue must have a loop,   *)
(* fall a next case, nothing may leave a deferred statement, nothing may   *)
(* follow a statement that always leaves its block, and every path must    *)
(* return.  The actions run a body: conditions and the values that match   *)
(* inspects are chosen freely.  Every function here returns a value.       *)
(***************************************************************************)
EXTENDS Integers, Sequences, FiniteSets, Functions

CONSTANTS
    Bodies,     \* the function bodies to consider
    MaxNesting, \* how deep statements are nested: Parser.MAX_NESTING_DEPTH
    Labels,     \* the labels of loops and of jumps, NoLabel among them
    Values,     \* type of a matched value -> its values
    Covered,    \* the types whose patterns can cover every value
    Tagged,     \* those of them that are tagged unions
    Patterns,   \* the patterns of all cases: names of values, and Wild
    NoLabel,
    Wild        \* the wildcard pattern

VARIABLES
    body,
    errors,     \* what the validator reports
    frames,     \* the statement lists being run, the innermost last
    jump,       \* the ret, break, continue or fall on its way, or NoJump
    outcome     \* "rejected", "running", "returned", "fell" or "lost"

flowVars == <<body, errors, frames, jump, outcome>>

\* A statement: the lists in it, a loop's label or a jump's target, the type
\* matched, and the patterns of each case.  "while" is `while true`, "for" any
\* other loop; a match has an else when it has more lists than cases.
Simple(op, label) == [op |-> op, label |-> label, subs |-> <<>>, type |-> "", cases |-> <<>>]
Nest(op, label, subs) == [Simple(op, label) EXCEPT !.subs = subs]
Match(type, cases, subs) ==
    [Simple("match", NoLabel) EXCEPT !.subs = subs, !.type = type, !.cases = cases]

Final(s) == s[Len(s)]

HasElse(s) == Len(s.subs) > Len(s.cases)

\* The lists that the parser puts in each kind of statement.
Shaped(s) ==
    \/ s.op \in {"step", "ret", "break", "continue", "fall"} /\ s.subs = <<>>
    \/ s.op \in {"block", "while", "for", "defer", "function"} /\ Len(s.subs) = 1
    \/ s.op = "if" /\ Len(s.subs) \in {1, 2}
    \/ /\ s.op = "match" /\ s.type \in DOMAIN Values
       /\ Len(s.subs) \in {Len(s.cases), Len(s.cases) + 1}

\* The statements made of the statements in S, and those nested n deep at most.
Holding(S) ==
    {s \in [op : STRING, label : Labels, subs : Seq(Seq(S)), type : DOMAIN Values \cup {""},
            cases : Seq(SUBSET Patterns)] : Shaped(s)}

Nested[n \in 0..MaxNesting] == IF n = 0 THEN {} ELSE Holding(Nested[n - 1])

Statements == Nested[MaxNesting]

\* The types that are not Covered have a value that no pattern names.
ControlFlowParameters ==
    /\ Tagged \subseteq Covered
    /\ Covered \subseteq DOMAIN Values
    /\ \A t \in DOMAIN Values : Wild \notin Values[t]
    /\ \A t \in DOMAIN Values \ Covered : ~(Values[t] \subseteq Patterns)
    /\ MaxNesting \in Nat
    /\ NoLabel \in Labels
    /\ Bodies \subseteq Seq(Statements)

-----------------------------------------------------------------------------
(* The walk over a function                                                *)

\* A list of statements with the labels of the loops around it (NoLabel for a
\* loop without one), whether fall may end it, and whether a match is around.
Context(stmts) == [stmts |-> stmts, loops |-> {}, falls |-> FALSE, inMatch |-> FALSE]

\* The lists inside statement s of context c.  Only the direct statements of a
\* case that is not the last one may fall, and never over a tagged union.
Inner(c, s) ==
    {[stmts |-> s.subs[i],
      loops |-> IF s.op \in {"while", "for"} THEN c.loops \cup {s.label} ELSE c.loops,
      falls |-> s.op = "match" /\ i < Len(s.cases) /\ s.type \notin Tagged,
      inMatch |-> c.inMatch \/ s.op = "match"] : i \in DOMAIN s.subs}

InnerOf(contexts, skipped) ==
    UNION {UNION {Inner(c, s) : s \in {t \in Range(c.stmts) : t.op \notin skipped}} : c \in contexts}

\* c and what is inside it, but for the statements whose kind is in skipped.
Within(c, skipped) ==
    LET within[n \in 0..MaxNesting] == IF n = 0 THEN {c} ELSE InnerOf(within[n - 1], skipped)
    IN  UNION {within[n] : n \in DOMAIN within}

\* validate_break, validate_continue
ValidJump(s, loops) == IF s.label = NoLabel THEN loops # {} ELSE s.label \in loops

IsLoopJump(s) == s.op \in {"break", "continue"}

-----------------------------------------------------------------------------
(* The checks                                                              *)

\* Mutant: only an else or a wildcard makes a match exhaustive.
HasFallback(s) ==
    HasElse(s) \/ \E patterns \in Range(s.cases) : Wild \in patterns

\* _is_match_exhaustive
Exhaustive(s) ==
    \/ HasElse(s)
    \/ \E patterns \in Range(s.cases) : Wild \in patterns
    \/ s.type \in Covered /\ Values[s.type] \subseteq UNION Range(s.cases)

\* Mutant: an if without an else exits when its only branch does.
ExitsWithoutElse(s, loops) ==
    LET exits[t \in Statements] ==
            LET Leaves(stmts) == \E u \in Range(stmts) : exits[u]
            IN  CASE t.op \in {"ret", "fall"} -> TRUE
                  [] IsLoopJump(t) -> ValidJump(t, loops)
                  [] t.op \in {"block", "if"} -> \A l \in Range(t.subs) : Leaves(l)
                  [] t.op = "match" ->
                        t.cases # <<>> /\ (\A l \in Range(t.subs) : Leaves(l)) /\ Exhaustive(t)
                  [] OTHER -> FALSE
    IN  exits[s]

\* _statement_exits_current_block: control never goes on after s.
Exits(s, loops) ==
    LET exits[t \in Statements] ==
            LET Leaves(stmts) == \E u \in Range(stmts) : exits[u]
            IN  CASE t.op \in {"ret", "fall"} -> TRUE
                  [] IsLoopJump(t) -> ValidJump(t, loops)
                  [] t.op = "block" -> Leaves(t.subs[1])
                  [] t.op = "if" -> Len(t.subs) = 2 /\ \A l \in Range(t.subs) : Leaves(l)
                  [] t.op = "match" ->
                        t.cases # <<>> /\ (\A l \in Range(t.subs) : Leaves(l)) /\ Exhaustive(t)
                  [] OTHER -> FALSE
    IN  exits[s]

\* _report_unreachable_in_block: position i comes after such a statement.
UnreachableAt(stmts, i, loops) == \E j \in 1..(i - 1) : Exits(stmts[j], loops)

\* Mutant: a labelled break inside another loop is taken for one of that loop.
OwnBreaksOnly(s) ==
    /\ s.op = "while"
    /\ \A c \in Within(Context(s.subs[1]), {"function"}) : \A t \in Range(c.stmts) :
           t.op = "break" => c.loops # {}

\* _loops_forever: `while true` with no break that leaves it.
LoopsForever(s) ==
    /\ s.op = "while"
    /\ \A c \in Within(Context(s.subs[1]), {"function"}) : \A t \in Range(c.stmts) :
           t.op = "break" => ValidJump(t, c.loops)

\* _returns_on_all_paths, which looks at the last statement of every list.
Returning[s \in Statements] ==
    \/ s.op = "ret"
    \/ LoopsForever(s)
    \/ /\ \/ s.op = "block"
          \/ s.op = "if" /\ Len(s.subs) = 2
          \/ s.op = "match" /\ Exhaustive(s)
       /\ \A l \in Range(s.subs) : l # <<>> /\ Returning[Final(l)]

Returns(stmts) == stmts # <<>> /\ Returning[Final(stmts)]

\* _validate_defer_control_flow: a jump in a deferred statement that would go
\* on outside it.  Nested defers are looked at by themselves.
LeavesDefer(s) ==
    \E c \in Within(Context(s.subs[1]), {"defer", "function"}) : \E t \in Range(c.stmts) :
        \/ t.op = "ret"
        \/ IsLoopJump(t) /\ ~ValidJump(t, c.loops)
        \/ t.op = "fall" /\ ~c.inMatch

\* The errors of one function, its nested functions left aside.
FunctionErrors(stmts) ==
    LET contexts == Within(Context(stmts), {"function"})
        Some(P(_, _)) == \E c \in contexts : \E i \in DOMAIN c.stmts : P(c, i)
        BadJump(c, i) == IsLoopJump(c.stmts[i]) /\ ~ValidJump(c.stmts[i], c.loops)
        BadFall(c, i) == c.stmts[i].op = "fall" /\ ~(c.falls /\ i = Len(c.stmts))
        BadDefer(c, i) == c.stmts[i].op = "defer" /\ LeavesDefer(c.stmts[i])
        BadMatch(c, i) == /\ c.stmts[i].op = "match" /\ c.stmts[i].type \in Tagged
                          /\ ~Exhaustive(c.stmts[i])
        Dead(c, i) == UnreachableAt(c.stmts, i, c.loops)
    IN  (IF Some(BadJump) THEN {"outside_loop"} ELSE {})
        \cup (IF Some(BadFall) THEN {"unsupported_fallthrough"} ELSE {})
        \cup (IF Some(BadDefer) THEN {"defer_control_flow"} ELSE {})
        \cup (IF Some(BadMatch) THEN {"non_exhaustive_match"} ELSE {})
        \cup (IF Some(Dead) THEN {"unreachable_code"} ELSE {})
        \cup (IF Returns(stmts) THEN {} ELSE {"missing_return"})

\* The bodies of the function and of those nested in it, at any depth.
FunctionBodies(stmts) ==
    {stmts} \cup UNION {{s.subs[1] : s \in {t \in Range(c.stmts) : t.op = "function"}} :
                            c \in Within(Context(stmts), {})}

\* visit_program and the checks before it; a nested function is checked after
\* the one around it, with no loop around.
Validate(stmts) == UNION {FunctionErrors(f) : f \in FunctionBodies(stmts)}

-----------------------------------------------------------------------------
(* The execution of a function                                             *)

NoJump == [op |-> "none", label |-> NoLabel]

\* A list that runs: what it belongs to, the next position, the statements
\* deferred so far, and the jump that waits for a deferred statement to end.
Frame(kind, of, n) ==
    [kind |-> kind, of |-> of, n |-> n, stmts |-> of.subs[n], at |-> 1,
     defers |-> <<>>, saved |-> NoJump]

FunctionFrame(stmts) == Frame("function", Nest("function", NoLabel, <<stmts>>), 1)

Top == Final(frames)
Below == SubSeq(frames, 1, Len(frames) - 1)
CurrentStatement == Top.stmts[Top.at]
AtEnd == Top.at > Len(Top.stmts)

Running == outcome = "running"
Step(ops) == Running /\ jump = NoJump /\ ~AtEnd /\ CurrentStatement.op \in ops

Passed == [Top EXCEPT !.at = @ + 1]
Pass == frames' = Append(Below, Passed)
Run(frame) == frames' = Below \o <<Passed, frame>>

RunStep ==
    /\ Step({"step"})
    /\ Pass
    /\ UNCHANGED <<body, errors, jump, outcome>>

EnterBlock ==
    /\ Step({"block"})
    /\ Run(Frame("block", CurrentStatement, 1))
    /\ UNCHANGED <<body, errors, jump, outcome>>

\* Branch n of an if, the second being the else, if there is one.
Take(n) ==
    /\ Step({"if"})
    /\ IF n \in DOMAIN CurrentStatement.subs THEN Run(Frame("block", CurrentStatement, n)) ELSE Pass
    /\ UNCHANGED <<body, errors, jump, outcome>>

Branch == \E n \in {1, 2} : Take(n)

EnterLoop ==
    /\ Step({"while", "for"})
    /\ Run(Frame("loop", CurrentStatement, 1))
    /\ UNCHANGED <<body, errors, jump, outcome>>

SkipLoop ==
    /\ Step({"for"})
    /\ Pass
    /\ UNCHANGED <<body, errors, jump, outcome>>

\* The first case with a pattern for value v, or the else, or nothing.
Select(v) ==
    /\ Step({"match"})
    /\ LET taken == {n \in DOMAIN CurrentStatement.cases : {v, Wild} \cap CurrentStatement.cases[n] # {}}
       IN  IF taken # {}
           THEN Run(Frame("case", CurrentStatement, CHOOSE n \in taken : \A m \in taken : n <= m))
           ELSE IF HasElse(CurrentStatement) THEN Run(Frame("block", CurrentStatement, Len(CurrentStatement.subs)))
           ELSE Pass
    /\ UNCHANGED <<body, errors, jump, outcome>>

SelectCase == Step({"match"}) /\ \E v \in Values[CurrentStatement.type] : Select(v)

Defer ==
    /\ Step({"defer"})
    /\ frames' = Append(Below, [Passed EXCEPT !.defers = <<CurrentStatement>> \o @])
    /\ UNCHANGED <<body, errors, jump, outcome>>

\* A nested function is called where it is declared.
CallNested ==
    /\ Step({"function"})
    /\ Run(Frame("function", CurrentStatement, 1))
    /\ UNCHANGED <<body, errors, jump, outcome>>

Jump ==
    /\ Step({"ret", "break", "continue", "fall"})
    /\ jump' = [op |-> CurrentStatement.op, label |-> CurrentStatement.label]
    /\ Pass
    /\ UNCHANGED <<body, errors, outcome>>

\* A list that is left runs what it deferred first, the last one first.
RunDeferred ==
    /\ Running /\ (AtEnd \/ jump # NoJump)
    /\ Top.defers # <<>>
    /\ frames' = Below \o <<[Top EXCEPT !.defers = Tail(@)],
                           [Frame("defer", Head(Top.defers), 1) EXCEPT !.saved = jump]>>
    /\ jump' = NoJump
    /\ UNCHANGED <<body, errors, outcome>>

\* The end of a list: a function has no value to return, a loop starts again,
\* and a deferred statement gives way to the jump it interrupted.
Done == Running /\ AtEnd /\ jump = NoJump /\ Top.defers = <<>>

Again ==
    /\ Done /\ Top.kind = "loop"
    /\ frames' = Append(Below, [Top EXCEPT !.at = 1])
    /\ UNCHANGED <<body, errors, jump, outcome>>

Finish ==
    /\ Done
    /\ Top.kind = "loop" => Top.of.op = "for"
    /\ IF Top.kind = "function"
       THEN outcome' = "fell" /\ UNCHANGED <<frames, jump>>
       ELSE frames' = Below /\ jump' = Top.saved /\ UNCHANGED outcome
    /\ UNCHANGED <<body, errors>>

\* What a jump does to the list it is in.
Catches ==
    CASE Top.kind = "function" -> jump.op = "ret"
      [] Top.kind = "loop" -> /\ jump.op \in {"break", "continue"}
                              /\ jump.label \in {NoLabel, Top.of.label}
      [] Top.kind = "case" -> jump.op = "fall" /\ Top.n < Len(Top.of.cases)
      [] OTHER -> FALSE

Unwind ==
    /\ Running /\ jump # NoJump /\ Top.defers = <<>>
    /\ IF Catches
       THEN /\ jump' = NoJump
            /\ frames' = CASE jump.op = "continue" ->
                                  Append(Below, [Top EXCEPT !.at = Len(Top.stmts) + 1])
                           [] jump.op = "fall" -> Append(Below, Frame("case", Top.of, Top.n + 1))
                           [] OTHER -> Below
            /\ outcome' = IF Below = <<>> THEN "returned" ELSE outcome
       ELSE IF Top.kind \in {"function", "defer"} \/ jump.op = "fall"
       THEN /\ outcome' = "lost"
            /\ UNCHANGED <<frames, jump>>
       ELSE /\ frames' = Below
            /\ UNCHANGED <<jump, outcome>>
    /\ UNCHANGED <<body, errors>>

-----------------------------------------------------------------------------
\* A function whose only fault is unreachable code runs too: what is reported
\* as unreachable must be so.
FlowInit ==
    /\ body \in Bodies
    /\ errors = Validate(body)
    /\ frames = <<FunctionFrame(body)>>
    /\ jump = NoJump
    /\ outcome = IF errors \subseteq {"unreachable_code"} THEN "running" ELSE "rejected"

FlowNext ==
    \/ RunStep \/ EnterBlock \/ Branch \/ EnterLoop \/ SkipLoop \/ SelectCase \/ Defer
    \/ CallNested \/ Jump \/ RunDeferred \/ Again \/ Finish \/ Unwind

FlowSpec == FlowInit /\ [][FlowNext]_flowVars

-----------------------------------------------------------------------------
(* Properties                                                              *)

\* "A non-void function may end with" what never falls through: a function that
\* passed the return check returns a value, whatever its conditions and the
\* values it matches, and so do the functions nested in it.  And every jump in it
\* arrives: break and continue find their loop, fall a next case, and none of
\* them leaves a deferred statement, a nested function, or a loop through a case.
AlwaysReturns == outcome \notin {"fell", "lost"}

\* Labels of the loops of the running function.
RunningLoops ==
    {frames[i].of.label : i \in {k \in DOMAIN frames :
        /\ frames[k].kind = "loop"
        /\ \A m \in k..Len(frames) : frames[m].kind # "function"}}

\* "Report statements that cannot execute after a block-local terminator": what
\* is reported as unreachable is never run.
UnreachableNeverRuns ==
    (Running /\ jump = NoJump /\ ~AtEnd) =>
        ~UnreachableAt(Top.stmts, Top.at, RunningLoops)

\* How a list can end, at its end or by a jump that leaves it, when ends says the
\* same of the statements in it.
ListEnds(stmts, ends) ==
    LET reached == {i \in DOMAIN stmts : \A j \in 1..(i - 1) : NoJump \in ends[stmts[j]]}
    IN  ((UNION {ends[stmts[i]] : i \in reached}) \ {NoJump})
        \cup (IF \A s \in Range(stmts) : NoJump \in ends[s] THEN {NoJump} ELSE {})

StatementEnds[s \in Statements] ==
    LET all == UNION {ListEnds(l, StatementEnds) : l \in Range(s.subs)}
        Mine(j) == j.op \in {"break", "continue"} /\ j.label \in {NoLabel, s.label}
        broken == \E j \in all : Mine(j) /\ j.op = "break"
        end == {NoJump}
    IN  CASE s.op \in {"step", "defer", "function"} -> end
          [] s.op = "block" -> all
          [] s.op = "if" -> all \cup (IF Len(s.subs) = 1 THEN end ELSE {})
          [] s.op \in {"while", "for"} ->
                {j \in all \ end : ~Mine(j)} \cup (IF s.op = "for" \/ broken THEN end ELSE {})
          [] s.op = "match" ->
                {j \in all : j.op # "fall"} \cup
                (IF HasElse(s) \/ \A v \in Values[s.type] : \E p \in Range(s.cases) :
                                      {v, Wild} \cap p # {}
                 THEN {} ELSE end)
          [] OTHER -> {[op |-> s.op, label |-> s.label]}

MayFallOff(stmts) == NoJump \in ListEnds(stmts, StatementEnds)

OnlyMissingReturn == errors = {"missing_return"}

\* Some statement never completes and has others after it: what the check for
\* unreachable code does not report ends in a `while true` without a break.
CutOff ==
    \E f \in FunctionBodies(body) : \E c \in Within(Context(f), {"function"}) :
        \E i \in 1..(Len(c.stmts) - 1) : NoJump \notin StatementEnds[c.stmts[i]]

Falls == \E f \in FunctionBodies(body) : \E c \in Within(Context(f), {"function"}) :
             \E s \in Range(c.stmts) : s.op = "fall"

\* The return check looks only at last statements, and that is exact: a
\* function it reports could end without a value, unless fall or statements that
\* are never reached are involved.
MissingReturnIsReal ==
    (OnlyMissingReturn /\ ~Falls /\ ~CutOff) => \E f \in FunctionBodies(body) : MayFallOff(f)

\* "paths without `ret`": the same of functions whose cases fall.
FallingCasesJudged ==
    (OnlyMissingReturn /\ ~CutOff) => \E f \in FunctionBodies(body) : MayFallOff(f)
=============================================================================
