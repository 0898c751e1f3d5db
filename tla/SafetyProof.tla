---------------------------- MODULE SafetyProof ----------------------------
(***************************************************************************)
(* The safety proof (a7/passes/safety.py), against executions of the       *)
(* functions it accepts.                                                   *)
(*                                                                         *)
(* The pass walks a function with the facts that hold where it is: the     *)
(* bounds of every integer, the lengths of slices, the references that are *)
(* not nil, and what was deleted.  Every risky operation must be           *)
(* discharged by the facts, or the function is rejected; an addition that  *)
(* cannot overflow is approved for an operator that does not wrap.  The    *)
(* actions run the accepted functions, statement by statement as in        *)
(* ControlFlow, on values.                                                 *)
(*                                                                         *)
(* A function has integers, slices of one array, references to heap cells, *)
(* and calls that write global variables or a borrowed argument.           *)
(***************************************************************************)
EXTENDS ControlFlow, FiniteSetsExt, TLC

CONSTANTS
    Bounds,          \* integer variable -> the bounds [lo, hi] of its type
    Globals,        \* the integer variables declared outside the function
    Slices, Refs,   \* its other variables
    Cells,          \* the number of cells in the heap
    ArrayLength,
    NoCell          \* no bound, no length, no relation; the nil reference

\* What the parameters must be; a model of this module assumes it.
SafetyParameters ==
    /\ \A v \in DOMAIN Bounds : Bounds[v].lo \in Int /\ Bounds[v].hi \in Int
    /\ Globals \subseteq DOMAIN Bounds
    /\ Cells \in Nat /\ ArrayLength \in Nat /\ MaxNesting \in Nat

VARIABLES
    proof,      \* what was approved, and the facts at the end of the function
    store,      \* the values of the variables, and the cells made and deleted
    fault       \* what went wrong while the function ran, or "none"

safetyVars == <<flowVars, proof, store, fault>>

Ints == DOMAIN Bounds

\* Operands, ordinary statements, conditions, and statements that have one: a
\* "while" has none and is `while true`.  The update of a loop is a statement
\* or NoAct.
Lit(k) == [var |-> "", k |-> k]
Var(v) == [var |-> v, k |-> 0]
Act(kind, v, op, a, b) == [kind |-> kind, v |-> v, op |-> op, a |-> a, b |-> b, node |-> <<>>]
NoAct == Act("none", "", "", Lit(0), Lit(0))
Do(act) == [op |-> "step", label |-> NoLabel, subs |-> <<>>, act |-> act]
Cond(kind, v, op, b) == [kind |-> kind, v |-> v, op |-> op, b |-> b]
If(cond, subs) == [op |-> "if", label |-> NoLabel, subs |-> subs, cond |-> cond]
Loop(op, label, cond, update, stmts) ==
    [op |-> op, label |-> label, subs |-> <<stmts>>, cond |-> cond, update |-> update]

Seqs == INSTANCE SequencesExt

\* What was approved and refused goes by the node: the place of the statement.
At(act, place) == IF act = NoAct THEN act ELSE [act EXCEPT !.node = place]
RECURSIVE Placed(_, _)
Placed(stmts, place) ==
    [i \in DOMAIN stmts |->
        LET here == Append(place, i)
        IN  [f \in DOMAIN stmts[i] |->
                CASE f \in {"act", "update"} -> At(stmts[i][f], here)
                  [] f = "subs" -> [n \in DOMAIN stmts[i].subs |-> Placed(stmts[i].subs[n], Append(here, n))]
                  [] OTHER -> stmts[i][f]]]

-----------------------------------------------------------------------------
(* Facts                                                                   *)

\* A fact may have an interval, of which either bound or both may be missing.
Fact(i, nonzero) ==
    [interval |-> TRUE, lo |-> i.lo, hi |-> i.hi, nonzero |-> nonzero, below |-> NoCell]
NoFact == [Fact([lo |-> NoCell, hi |-> NoCell], FALSE) EXCEPT !.interval = FALSE]
TypeFact(v) == Fact(Bounds[v], FALSE)
Exact(k) == Fact([lo |-> k, hi |-> k], k # 0)

Known(i) == i.lo # NoCell /\ i.hi # NoCell
Inside(i, lo, hi) == Known(i) /\ lo <= i.lo /\ i.hi <= hi
Fits(i, v) == Inside(i, Bounds[v].lo, Bounds[v].hi)
NonZero(i) == (i.hi # NoCell /\ i.hi < 0) \/ (i.lo # NoCell /\ i.lo > 0)
ValueOf(facts, o) == IF o.var = "" THEN Exact(o.k) ELSE facts.ints[o.var]

Learn(facts, v, fact) == [facts EXCEPT !.ints = (v :> fact) @@ @]
Refer(facts, p, ref) == [facts EXCEPT !.refs = (p :> ref) @@ @]

Plus(x, y) == IF NoCell \in {x, y} THEN NoCell ELSE x + y
Minus(x, y) == IF NoCell \in {x, y} THEN NoCell ELSE x - y

\* IntegerInterval.add, sub
Interval(op, a, b) ==
    CASE op = "+" -> [lo |-> Plus(a.lo, b.lo), hi |-> Plus(a.hi, b.hi)]
      [] op = "-" -> [lo |-> Minus(a.lo, b.hi), hi |-> Minus(a.hi, b.lo)]

\* _unary_fact, _binary_fact: a result past the bounds of its type has wrapped.
Computed(op, a, b, v) ==
    LET i == IF op = "neg" THEN [lo |-> Minus(0, a.hi), hi |-> Minus(0, a.lo)]
             ELSE Interval(op, a, b)
        operands == IF op = "neg" THEN Known(a) ELSE a.interval /\ b.interval
    IN  IF ~operands \/ (op = "/" /\ ~NonZero(b)) THEN NoFact
        ELSE IF op # "/" /\ Fits(i, v) THEN Fact(i, NonZero(i)) ELSE TypeFact(v)

\* _invalidate_length_relations
WithoutRelations(facts, s) ==
    [facts EXCEPT !.ints = [v \in Ints |->
        [facts.ints[v] EXCEPT !.below = IF @ = s THEN NoCell ELSE @]]]

\* _forget_names: references keep their allocations.
Forget(facts, names) ==
    LET unrelated == FoldSet(LAMBDA s, f : WithoutRelations(f, s), facts, names \cap Slices)
    IN  [ints |-> [v \in Ints |-> IF v \notin names THEN unrelated.ints[v]
                                  ELSE IF v \in Globals THEN NoFact ELSE TypeFact(v)],
         lengths |-> [s \in Slices |-> IF s \in names THEN NoCell ELSE facts.lengths[s]],
         refs |-> [p \in Refs |-> IF p \in names THEN [facts.refs[p] EXCEPT !.nonNil = FALSE]
                                  ELSE facts.refs[p]],
         gone |-> facts.gone]

Least(x, y) == IF NoCell \in {x, y} THEN NoCell ELSE IF x < y THEN x ELSE y
Greatest(x, y) == IF NoCell \in {x, y} THEN NoCell ELSE IF x > y THEN x ELSE y
Same(x, y) == IF x = y THEN x ELSE NoCell

\* _join_facts, and the union of what was deleted.
Join(f, g) ==
    [ints |-> [v \in Ints |->
        [interval |-> f.ints[v].interval /\ g.ints[v].interval,
         lo |-> Least(f.ints[v].lo, g.ints[v].lo), hi |-> Greatest(f.ints[v].hi, g.ints[v].hi),
         nonzero |-> f.ints[v].nonzero /\ g.ints[v].nonzero,
         below |-> Same(f.ints[v].below, g.ints[v].below)]],
     lengths |-> [s \in Slices |-> Same(f.lengths[s], g.lengths[s])],
     refs |-> [p \in Refs |-> [nonNil |-> f.refs[p].nonNil /\ g.refs[p].nonNil,
                               sites |-> f.refs[p].sites \cup g.refs[p].sites]],
     gone |-> f.gone \cup g.gone]

Negation == [c \in {"<", "<=", ">", ">=", "==", "!="} |->
    CASE c = "<" -> ">=" [] c = "<=" -> ">" [] c = ">" -> "<=" [] c = ">=" -> "<"
      [] c = "==" -> "!=" [] c = "!=" -> "=="]

\* The bounds of an integer fact a when `a op b` holds.
Narrowed(a, op, b) ==
    LET lower == IF op = ">" THEN Plus(b.lo, 1) ELSE b.lo
        upper == IF op = "<" THEN Minus(b.hi, 1) ELSE b.hi
    IN  [lo |-> IF op \notin {">", ">=", "=="} \/ lower = NoCell THEN a.lo
                ELSE Greatest(IF a.lo = NoCell THEN lower ELSE a.lo, lower),
         hi |-> IF op \notin {"<", "<=", "=="} \/ upper = NoCell THEN a.hi
                ELSE Least(IF a.hi = NoCell THEN upper ELSE a.hi, upper)]

\* _facts_from_condition: what the condition, or its negation, says of its left
\* operand.
Narrow(facts, cond, holds) ==
    LET v == cond.v
        a == facts.ints[v]
        op == IF holds THEN cond.op ELSE Negation[cond.op]
        length == facts.lengths[cond.b.var]
        b == IF cond.kind = "int" THEN ValueOf(facts, cond.b)
             ELSE IF length = NoCell THEN NoFact ELSE Exact(length)
        i == IF b.interval THEN Narrowed(a, op, b) ELSE a
    IN  CASE cond.kind = "any" -> facts
          [] cond.kind = "nil" -> 
                IF op = "!=" THEN Refer(facts, v, [facts.refs[v] EXCEPT !.nonNil = TRUE]) ELSE facts
          [] cond.kind = "int" /\ cond.b = Lit(0) /\ op = "!=" ->
                Learn(facts, v, [a EXCEPT !.nonzero = TRUE, !.below = NoCell])
          [] OTHER ->
                Learn(facts, v,
                    [interval |-> a.interval \/ b.interval,
                     lo |-> i.lo, hi |-> i.hi, nonzero |-> a.nonzero \/ NonZero(i),
                     below |-> IF cond.kind = "len" /\ op = "<" THEN cond.b.var ELSE a.below])

-----------------------------------------------------------------------------
(* Obligations                                                             *)

\* The walk: the facts, the obligations it could not discharge, the operations
\* that cannot and that may overflow, and the facts at each continue of a loop
\* with an update, with the number of frames around that loop.
Walk(facts) ==
    [facts |-> facts, errors |-> {}, fitting |-> {}, wrapping |-> {}, continues |-> {}]

Require(walk, kind, discharged) ==
    IF discharged THEN walk ELSE [walk EXCEPT !.errors = @ \cup {kind}]

\* _check_reference_alive
Alive(facts, p) == p \notin facts.gone /\ facts.refs[p].sites \cap facts.gone = {}

\* _prove_index
InBounds(facts, object, a) ==
    LET length == IF object = "array" THEN ArrayLength ELSE facts.lengths[object]
    IN  \/ object # "array" /\ a.below = object /\ a.lo # NoCell /\ a.lo >= 0
        \/ length # NoCell /\ Inside(a, 0, length - 1)

\* _prove_slice, of the array
SliceInBounds(a, b) ==
    Known(a) /\ Known(b) /\ a.lo >= 0 /\ b.hi <= ArrayLength /\ a.hi <= b.lo

\* _slice_fact
SliceLength(a, b) == IF Known(a) /\ a.lo = a.hi /\ Known(b) /\ b.lo = b.hi THEN b.hi - a.lo ELSE NoCell

\* _store_value, for references
StoreRef(walk, p, ref) == [walk EXCEPT !.facts = [Refer(@, p, ref) EXCEPT !.gone = @ \ {p}]]
StoreSlice(walk, s, length) ==
    [walk EXCEPT !.facts = [WithoutRelations(@, s) EXCEPT !.lengths = (s :> length) @@ @]]

\* An assignment to an integer: `v = a op b`, or `v op= b` when compound.
Assign(walk, act, compound) ==
    LET a == ValueOf(walk.facts, act.a)
        b == ValueOf(walk.facts, act.b)
        arithmetic == act.op \in {"+", "-"}
        fits == a.interval /\ b.interval /\ Fits(Interval(act.op, a, b), act.v)
        fact == CASE act.op = "" -> a
                  [] act.op = "cast" ->
                        IF Fits(a, act.v) THEN [a EXCEPT !.below = NoCell] ELSE NoFact
                  [] compound /\ ~(arithmetic /\ fits) -> TypeFact(act.v)
                  [] OTHER -> Computed(act.op, a, b, act.v)
        stored == [walk EXCEPT
                     !.facts = Learn(@, act.v, fact),
                     !.fitting = IF arithmetic /\ fits THEN @ \cup {act} ELSE @,
                     !.wrapping = IF arithmetic /\ ~fits THEN @ \cup {act} ELSE @]
    IN  Require(Require(stored, "zero", act.op # "/" \/ b.nonzero \/ NonZero(b)),
                "cast", act.op # "cast" \/ Fits(a, act.v))

\* An ordinary statement.
ProveAct(walk, act) ==
    LET facts == walk.facts
        v == act.v
        a == ValueOf(facts, act.a)
        b == ValueOf(facts, act.b)
    IN  CASE act.kind = "none" -> walk
          [] act.kind = "set" -> Assign(walk, act, FALSE)
          [] act.kind = "change" -> Assign(walk, act, TRUE)
          [] act.kind = "index" -> Require(walk, "bounds", InBounds(facts, v, a))
          [] act.kind = "slice" ->
                StoreSlice(Require(walk, "slice", SliceInBounds(a, b)), v, SliceLength(a, b))
          [] act.kind = "copy" -> StoreSlice(walk, v, facts.lengths[act.op])
          [] act.kind = "new" -> StoreRef(walk, v, [nonNil |-> FALSE, sites |-> {act.op}])
          [] act.kind = "nil" -> StoreRef(walk, v, [nonNil |-> FALSE, sites |-> {}])
          [] act.kind = "alias" ->
                StoreRef(Require(walk, "deleted", Alive(facts, act.op)), v, facts.refs[act.op])
          [] act.kind = "del" ->
                [Require(walk, "deleted", Alive(facts, v))
                    EXCEPT !.facts.gone = @ \cup {v} \cup facts.refs[v].sites]
          [] act.kind = "read" ->
                Require(Require(walk, "deleted", Alive(facts, v)), "nil", facts.refs[v].nonNil)
          [] act.kind = "call" ->
                [walk EXCEPT !.facts = Forget(@, Globals \cup (IF v = "" THEN {} ELSE {v}))]

-----------------------------------------------------------------------------
(* What a loop writes and deletes                                          *)

IsExit(s) == s.op \in {"ret", "break", "continue"}

\* A block or a loop around a statement: what the block deferred so far, the
\* last one first, and the loop's label and whether it has an update.
BlockFrame == [loop |-> FALSE, label |-> NoLabel, update |-> FALSE, defers |-> <<>>]
LoopFrame(s) == [BlockFrame EXCEPT !.loop = TRUE, !.label = s.label, !.update = s.update # NoAct]
Deferring(around, s) == [around EXCEPT ![1].defers = <<s.subs[1]>> \o @]

\* The frame that a jump goes to, the innermost being the first, or 0.
Target(s, around) ==
    LET loops == {n \in DOMAIN around : /\ s.op # "ret" /\ around[n].loop
                                        /\ s.label \in {NoLabel, around[n].label}}
    IN  IF loops = {} THEN 0 ELSE CHOOSE n \in loops : \A m \in loops : n <= m

\* Mutant: an exit runs only what its own block deferred.
OwnDefers(s, around) == around[1].defers

\* What a jump runs on its way.
LeftDefers(s, around) ==
    LET n == Target(s, around)
    IN  Seqs!FlattenSeq([m \in 1..(IF n = 0 THEN Len(around) ELSE n - 1) |-> around[m].defers])

\* The effects of a path: what every reference may refer to, what it wrote and
\* deleted, and the least and the greatest growth of the counter.
Path(facts) ==
    [sites |-> [p \in Refs |-> facts.refs[p].sites], written |-> {}, gone |-> {},
     grown |-> [least |-> 0, most |-> 0]]

Uncounted == [least |-> NoCell, most |-> NoCell]

\* ParameterEffectState.join
JoinPaths(paths) ==
    [sites |-> [p \in Refs |-> UNION {path.sites[p] : path \in paths}],
     written |-> UNION {path.written : path \in paths},
     gone |-> UNION {path.gone : path \in paths},
     grown |-> IF \E path \in paths : path.grown.least = NoCell THEN Uncounted
               ELSE [least |-> Min({path.grown.least : path \in paths}),
                     most |-> Max({path.grown.most : path \in paths})]]
Joined(paths) == IF paths = {} THEN {} ELSE {JoinPaths(paths)}

\* The statements that write variable v in a way that keeps count of it.
Counts(act, v) == act.kind = "change" /\ act.op = "+" /\ act.a = Var(v) /\ act.b.var = "" /\ act.b.k > 0
Writes(act, v) == act.kind \in {"set", "change"} /\ act.v = v

ActPath(path, act, counter) ==
    LET written == CASE act.kind \in {"none", "index", "read"} -> {}
                     [] act.kind = "call" -> Globals \cup (IF act.v = "" THEN {} ELSE {act.v})
                     [] OTHER -> {act.v}
        grown == IF ~Writes(act, counter) THEN path.grown
                 ELSE IF ~Counts(act, counter) \/ path.grown.least = NoCell
                 THEN Uncounted
                 ELSE [least |-> path.grown.least + act.b.k, most |-> path.grown.most + act.b.k]
        sites == CASE act.kind \in {"new", "nil"} -> [path.sites EXCEPT ![act.v] = {}]
                   [] act.kind = "alias" -> [path.sites EXCEPT ![act.v] = path.sites[act.op]]
                   [] OTHER -> path.sites
    IN  [path EXCEPT !.written = @ \cup written, !.grown = grown, !.sites = sites,
                     !.gone = IF act.kind = "del" THEN @ \cup {act.v} \cup path.sites[act.v] ELSE @]

\* The paths through a statement: those that reach its end, joined, and the
\* jumps that leave it, with the number of frames around their loop.
Ends(paths) == [end |-> Joined(paths), jumps |-> {}]
Together(results) ==
    [end |-> Joined(UNION {r.end : r \in results}), jumps |-> UNION {r.jumps : r \in results}]
Follow(result, After(_)) ==
    LET after == Together({After(path) : path \in result.end})
    IN  [after EXCEPT !.jumps = @ \cup result.jumps]

RECURSIVE ListPaths(_, _, _, _), DeferPaths(_, _, _)
RECURSIVE CasePaths(_, _, _, _, _, _), LoopPaths(_, _, _, _, _)

StatementPaths(s, path, around, counter) ==
    LET Body(stmts) == ListPaths(stmts, path, <<BlockFrame>> \o around, counter)
        skipped == IF Len(s.subs) = 1 THEN {Ends({path})} ELSE {}
    IN  CASE s.op = "step" -> Ends({ActPath(path, s.act, counter)})
          [] s.op = "block" -> Body(s.subs[1])
          [] s.op = "if" -> Together(skipped \cup {Body(l) : l \in Range(s.subs)})
          [] s.op = "match" ->
                Together({CasePaths(s, 1, path, {}, around, counter)}
                         \cup IF HasElse(s) THEN {} ELSE {Ends({path})})
          [] s.op \in {"while", "for"} ->
                LET trips == LoopPaths(s, path, path, around, counter)
                IN  [end |-> Joined(trips.exit), jumps |-> trips.jumps]
          [] OTHER -> Ends({path})

ListPaths(stmts, path, around, counter) ==
    IF stmts = <<>> THEN DeferPaths(around[1].defers, path, counter)
    ELSE LET s == Head(stmts)
             n == Target(s, around)
         IN  CASE s.op = "defer" -> ListPaths(Tail(stmts), path, Deferring(around, s), counter)
               [] IsExit(s) ->
                    [end |-> {},
                     jumps |-> {[op |-> s.op, frames |-> Len(around) - n, path |-> p] :
                                    p \in IF n = 0 THEN {} ELSE
                                          DeferPaths(LeftDefers(s, around), path, counter).end}]
               [] OTHER -> Follow(StatementPaths(s, path, around, counter),
                                  LAMBDA p : ListPaths(Tail(stmts), p, around, counter))

DeferPaths(defers, path, counter) ==
    IF defers = <<>> THEN Ends({path})
    ELSE Follow(ListPaths(Head(defers), path, <<BlockFrame>>, counter),
                LAMBDA p : DeferPaths(Tail(defers), p, counter))

\* The cases from the n-th on; a case that ends in fall goes on with the next.
CasePaths(s, n, path, fallen, around, counter) ==
    IF n > Len(s.subs) THEN [end |-> {}, jumps |-> {}]
    ELSE LET stmts == s.subs[n]
             falls == stmts # <<>> /\ Final(stmts).op = "fall"
             result == ListPaths(stmts, JoinPaths({path} \cup fallen), <<BlockFrame>> \o around, counter)
         IN  Together({[result EXCEPT !.end = IF falls THEN {} ELSE @],
                       CasePaths(s, n + 1, path, IF falls THEN result.end ELSE {}, around, counter)})

\* The jumps of a trip that go to its loop, which has frames around it.
JumpsTo(trip, op, around) == {j.path : j \in {k \in trip.jumps : k.op = op /\ k.frames = Len(around)}}

\* The trips of a loop from head, until they lead to no new head.  Growth is
\* counted over one trip of the loop whose effects are asked for (no frame is
\* around it); an inner loop that changes the counter loses the count.
TripStart(head, around) ==
    IF around = <<>> THEN [head EXCEPT !.grown = [least |-> 0, most |-> 0]] ELSE head

TripBack(s, entry, around, counter, trip) ==
    {IF around = <<>> \/ p.grown = entry.grown THEN p ELSE [p EXCEPT !.grown = Uncounted] :
        p \in {ActPath(q, s.update, counter) :
                  q \in Joined(trip.end \cup JumpsTo(trip, "continue", around))}}

AfterTrip(s, entry, head, around, counter, trip, back) ==
    IF JoinPaths({entry} \cup back) # head
    THEN LoopPaths(s, entry, JoinPaths({entry} \cup back), around, counter)
    ELSE [back |-> back, breaks |-> JumpsTo(trip, "break", around),
          exit |-> JumpsTo(trip, "break", around)
                   \cup IF s.op = "for" THEN {TripStart(head, around)} ELSE {},
          jumps |-> {j \in trip.jumps : j.frames # Len(around)}]

Trip(s, entry, head, around, counter, trip) ==
    AfterTrip(s, entry, head, around, counter, trip, TripBack(s, entry, around, counter, trip))

LoopPaths(s, entry, head, around, counter) ==
    Trip(s, entry, head, around, counter,
         ListPaths(s.subs[1], TripStart(head, around), <<BlockFrame, LoopFrame(s)>> \o around, counter))

Counter(s) == IF s.op = "for" /\ s.cond.op \in {"<", "<="} THEN s.cond.v ELSE ""

\* _loop_effects
LoopEffects(s, facts) == LoopPaths(s, Path(facts), Path(facts), <<>>, Counter(s))

\* Mutant: the counter may wrap.
GrowsPast(s, facts, lent, effects) ==
    LET bound == s.cond.b.k + (IF s.cond.op = "<=" THEN 1 ELSE 0)
    IN  /\ s.op = "for" /\ s.cond.kind = "int" /\ s.cond.op \in {"<", "<="} /\ s.cond.b.var = ""
        /\ \A p \in effects.back : p.grown.least # NoCell /\ p.grown.least > 0
                                   /\ Known(facts.ints[s.cond.v])
                                   /\ bound <= facts.ints[s.cond.v].lo + p.grown.least

\* The loop can do one trip only: every way back to its head counts its counter
\* past the bound, and does not wrap.
SingleTrip(s, facts, lent, effects) ==
    LET v == s.cond.v
        a == facts.ints[v]
        bound == s.cond.b.k + (IF s.cond.op = "<=" THEN 1 ELSE 0)
        contexts == Within(Context(s.subs[1]), {"function"})
        Acts(c) == {t.act : t \in {u \in Range(c.stmts) : u.op = "step"}}
        Updates(c) == {t.update : t \in {u \in Range(c.stmts) : u.op \in {"for", "while"}}}
        writing == {s.update} \cup UNION {Acts(c) : c \in {d \in contexts : d.loops = {}}}
        inner == UNION {Updates(c) \cup (IF c.loops = {} THEN {} ELSE Acts(c)) : c \in contexts}
    IN  /\ s.op = "for" /\ s.cond.kind = "int" /\ s.cond.op \in {"<", "<="} /\ s.cond.b.var = ""
        /\ v \notin Globals \cup lent
        /\ \E act \in writing : Writes(act, v)
        /\ \A act \in writing : Writes(act, v) => Counts(act, v)
        /\ \A act \in inner : ~Writes(act, v)
        /\ Known(a)
        /\ \E p \in Joined(effects.back) :
              /\ p.grown.least # NoCell /\ p.grown.least > 0
              /\ a.lo < bound /\ bound <= a.lo + p.grown.least
              /\ Fits([lo |-> a.lo, hi |-> (IF a.hi < bound THEN a.hi ELSE bound - 1) + p.grown.most], v)

-----------------------------------------------------------------------------
(* The walk over a function                                                *)

\* _always_returns
RECURSIVE AlwaysLeaves(_)
AlwaysLeaves(stmts) ==
    /\ stmts # <<>>
    /\ LET s == Final(stmts)
       IN  \/ IsExit(s)
           \/ s.op = "block" /\ AlwaysLeaves(s.subs[1])
           \/ s.op = "if" /\ Len(s.subs) = 2 /\ \A l \in Range(s.subs) : AlwaysLeaves(l)

RECURSIVE ProveList(_, _, _, _), ProveDefers(_, _, _), ProveCases(_, _, _, _, _, _)
RECURSIVE ProveLoop(_, _, _, _, _)

\* Mutant: a break does not keep the negated condition from holding.
IgnoreBreaks(s, effects) == s.op = "for"

\* The negated condition holds after the loop.
EndsByCondition(s, effects) == s.op = "for" /\ effects.breaks = {}

\* A condition reads the reference in it.
ProveCondition(walk, cond) ==
    Require(walk, "deleted", cond.kind = "nil" => Alive(walk.facts, cond.v))

ProveStatement(s, walk, around, lent) ==
    LET Body(stmts, w) == ProveList(stmts, w, <<BlockFrame>> \o around, lent)
    IN  CASE s.op = "step" -> ProveAct(walk, s.act)
          [] s.op = "block" -> Body(s.subs[1], walk)
          [] s.op = "if" ->
                LET seen == ProveCondition(walk, s.cond)
                    then == Body(s.subs[1], [seen EXCEPT !.facts = Narrow(@, s.cond, TRUE)])
                    otherwise == [then EXCEPT !.facts = Narrow(seen.facts, s.cond, FALSE)]
                    else == IF Len(s.subs) = 1 THEN otherwise ELSE Body(s.subs[2], otherwise)
                IN  [else EXCEPT !.facts =
                        IF AlwaysLeaves(s.subs[1]) THEN @
                        ELSE IF Len(s.subs) = 2 /\ AlwaysLeaves(s.subs[2]) THEN then.facts
                        ELSE Join(then.facts, @)]
          [] s.op = "match" -> ProveCases(s.subs, walk, walk.facts, {}, around, lent)
          [] s.op \in {"while", "for"} ->
                ProveLoop(s, walk, around, lent, LoopEffects(s, walk.facts))
          [] OTHER -> walk

\* A loop: what any trip writes is forgotten before the first, and what was
\* written on the way out after the last.
Deleted(facts, paths) == [facts EXCEPT !.gone = @ \cup UNION {p.gone : p \in paths}]
Written(paths) == UNION {p.written : p \in paths}

LoopHead(s, facts, lent, effects) ==
    IF SingleTrip(s, facts, lent, effects) THEN facts
    ELSE Forget(Deleted(facts, effects.back), Written(effects.back))

AfterLoop(s, facts, effects) ==
    IF EndsByCondition(s, effects) THEN Narrow(facts, s.cond, FALSE) ELSE facts

ProveTrip(s, walk, around, lent, entered) ==
    ProveList(s.subs[1],
              IF s.op = "while" THEN entered ELSE [entered EXCEPT !.facts = Narrow(@, s.cond, TRUE)],
              <<BlockFrame, LoopFrame(s)>> \o around, lent)

\* The update, from the end of the body and the continues of this loop.
ProveUpdate(s, trip, mine) ==
    [ProveAct([trip EXCEPT !.facts = FoldSet(LAMBDA c, f : Join(f, c.facts), @, mine)], s.update)
        EXCEPT !.continues = @ \ mine]

LeaveLoop(s, walk, head, effects, trip, around) ==
    [ProveUpdate(s, trip, {c \in trip.continues : c.frames = Len(around)}) EXCEPT
        !.facts = AfterLoop(s, Deleted(Forget(head, Written(effects.exit)), effects.exit), effects),
        !.continues = walk.continues \cup @]

ProveFrom(s, walk, head, around, lent, effects, entered) ==
    LeaveLoop(s, walk, head, effects, ProveTrip(s, walk, around, lent, entered), around)

EnterFrom(s, walk, head) ==
    LET entered == [walk EXCEPT !.facts = head, !.continues = {}]
    IN  IF s.op = "while" THEN entered ELSE ProveCondition(entered, s.cond)

ProveLoop(s, walk, around, lent, effects) ==
    LET From(head) == ProveFrom(s, walk, head, around, lent, effects, EnterFrom(s, walk, head))
    IN  From(LoopHead(s, walk.facts, lent, effects))

ProveList(stmts, walk, around, lent) ==
    IF stmts = <<>> THEN ProveDefers(around[1].defers, walk, lent)
    ELSE LET s == Head(stmts)
             n == Target(s, around)
             left == ProveDefers(LeftDefers(s, around), walk, lent)
         IN  CASE s.op = "defer" -> ProveList(Tail(stmts), walk, Deferring(around, s), lent)
               \* Nothing follows an exit; what it runs does not change the facts.
               [] IsExit(s) ->
                    [left EXCEPT
                        !.facts = walk.facts,
                        !.continues = IF s.op = "continue" /\ n # 0 /\ around[n].update
                                      THEN @ \cup {[frames |-> Len(around) - n, facts |-> left.facts]}
                                      ELSE @]
               [] OTHER -> ProveList(Tail(stmts), ProveStatement(s, walk, around, lent), around, lent)

ProveDefers(defers, walk, lent) ==
    IF defers = <<>> THEN walk
    ELSE LET first == ProveList(Head(defers), [walk EXCEPT !.continues = {}], <<BlockFrame>>, lent)
         IN  ProveDefers(Tail(defers), [first EXCEPT !.continues = walk.continues], lent)

\* The cases of a match from the facts before it, joined with those at the end
\* of a case that falls into them.  walk has the facts after the match: no case
\* may run, and a case that falls or leaves adds nothing.
ProveCases(cases, walk, before, fallen, around, lent) ==
    IF cases = <<>> THEN walk
    ELSE LET stmts == Head(cases)
             falls == stmts # <<>> /\ Final(stmts).op = "fall"
             start == FoldSet(LAMBDA f, g : Join(g, f), before, fallen)
             case == ProveList(stmts, [walk EXCEPT !.facts = start], <<BlockFrame>> \o around, lent)
             after == IF falls \/ AlwaysLeaves(stmts) THEN walk.facts ELSE Join(walk.facts, case.facts)
         IN  ProveCases(Tail(cases), [case EXCEPT !.facts = after], before,
                        IF falls THEN {case.facts} ELSE {}, around, lent)

\* The variables that some call borrows.
Lent(stmts) ==
    {s.act.v : s \in {t \in UNION {Range(c.stmts) : c \in Within(Context(stmts), {})} :
                          t.op = "step" /\ t.act.kind = "call"}}

\* The facts at the start: parameters have any value of their type.
StartFacts ==
    [ints |-> [v \in Ints |-> IF v \in Globals THEN NoFact ELSE TypeFact(v)],
     lengths |-> [s \in Slices |-> NoCell],
     refs |-> [p \in Refs |-> [nonNil |-> FALSE, sites |-> {}]],
     gone |-> {}]

\* _visit_decl, for one function; what may overflow somewhere is not approved.
Proof(stmts) ==
    LET walk == ProveList(stmts, Walk(StartFacts), <<BlockFrame>>, Lent(stmts))
    IN  [errors |-> walk.errors, approved |-> walk.fitting \ walk.wrapping, facts |-> walk.facts]

-----------------------------------------------------------------------------
(* The execution of a function                                             *)

\* The variables that a function names.  The others keep one value.
Named(stmts) ==
    LET all == UNION {Range(c.stmts) : c \in Within(Context(stmts), {})}
        acts == {s.act : s \in {t \in all : t.op = "step"}}
                \cup {s.update : s \in {t \in all : t.op \in {"for", "while"}}}
        conds == {s.cond : s \in {t \in all : t.op \in {"if", "for"}}}
    IN  {a.v : a \in acts \cup conds} \cup {a.b.var : a \in acts \cup conds}
        \cup {a.a.var : a \in acts} \cup {a.op : a \in acts}
        \cup {s.type : s \in {t \in all : t.op = "match"}}

\* The values that variables may have.
RECURSIVE Valuations(_)
Valuations(names) ==
    IF names = {} THEN {<<>>}
    ELSE LET v == CHOOSE u \in names : TRUE
         IN  {(v :> k) @@ w : k \in Bounds[v].lo..Bounds[v].hi, w \in Valuations(names \ {v})}

Starts(stmts) ==
    {[ints |-> [v \in Ints |-> IF v \in DOMAIN w THEN w[v] ELSE Bounds[v].lo],
      lengths |-> l, refs |-> [p \in Refs |-> NoCell], made |-> 0, gone |-> {}] :
        w \in Valuations(Ints \cap Named(stmts)),
        l \in {m \in [Slices -> 0..ArrayLength] : \A s \in Slices \ Named(stmts) : m[s] = 0}}

Wrap(k, v) == Bounds[v].lo + ((k - Bounds[v].lo) % (Bounds[v].hi - Bounds[v].lo + 1))

Value(o) == IF o.var = "" THEN o.k ELSE store.ints[o.var]

\* A result in variable v, and what goes wrong when it does not fit.
Put(v, k, otherwise) ==
    IF otherwise = "none" \/ k \in Bounds[v].lo..Bounds[v].hi
    THEN [store |-> [store EXCEPT !.ints[v] = Wrap(k, v)], fault |-> "none"]
    ELSE [store |-> store, fault |-> otherwise]

Magnitude(k) == IF k < 0 THEN -k ELSE k
Quotient(a, b) ==
    LET q == Magnitude(a) \div Magnitude(b) IN IF (a < 0) = (b < 0) THEN q ELSE -q

Ok(st) == [store |-> st, fault |-> "none"]
Check(holds, kind) == [store |-> store, fault |-> IF holds THEN "none" ELSE kind]
Dangling(p) == store.refs[p] # NoCell /\ store.refs[p] \in store.gone

\* What an ordinary statement may do to the store.  `new` may find no memory.
Results(act) ==
    LET v == act.v
        a == Value(act.a)
        b == Value(act.b)
        overflow == IF act \in proof.approved THEN "overflow" ELSE "none"
    IN  CASE act.kind = "none" -> {Ok(store)}
          [] act.kind \in {"set", "change"} ->
                {CASE act.op = "" -> Put(v, a, "none")
                   [] act.op = "neg" -> Put(v, -a, "none")
                   [] act.op = "cast" -> Put(v, a, "cast")
                   [] act.op = "+" -> Put(v, a + b, overflow)
                   [] act.op = "-" -> Put(v, a - b, overflow)
                   [] act.op = "/" /\ b = 0 -> Check(FALSE, "zero")
                   [] act.op = "/" /\ b # 0 -> Put(v, Quotient(a, b), "none")}
          [] act.kind = "index" ->
                {Check(0 <= a /\ a < IF v = "array" THEN ArrayLength ELSE store.lengths[v], "bounds")}
          [] act.kind = "slice" ->
                {IF 0 <= a /\ a <= b /\ b <= ArrayLength
                 THEN Ok([store EXCEPT !.lengths[v] = b - a]) ELSE Check(FALSE, "slice")}
          [] act.kind = "copy" -> {Ok([store EXCEPT !.lengths[v] = store.lengths[act.op]])}
          [] act.kind = "new" ->
                {Ok([store EXCEPT !.refs[v] = NoCell])}
                \cup IF store.made = Cells THEN {}
                     ELSE {Ok([store EXCEPT !.refs[v] = store.made + 1, !.made = @ + 1])}
          [] act.kind = "nil" -> {Ok([store EXCEPT !.refs[v] = NoCell])}
          [] act.kind = "alias" -> {Ok([store EXCEPT !.refs[v] = store.refs[act.op]])}
          [] act.kind = "del" ->
                {IF Dangling(v) THEN Check(FALSE, "deleted")
                 ELSE Ok([store EXCEPT !.gone = @ \cup ({store.refs[v]} \ {NoCell})])}
          [] act.kind = "read" ->
                {Check(~Dangling(v) /\ store.refs[v] # NoCell, IF Dangling(v) THEN "deleted" ELSE "nil")}
          [] act.kind = "call" ->
                {Ok([store EXCEPT !.ints = [u \in Ints |-> IF u \in DOMAIN w THEN w[u] ELSE @[u]]]) :
                    w \in Valuations(Globals \cup ({v} \ {""}))}

\* Whether a condition may hold, and whether it may not.
Compare(x, op, y) ==
    CASE op = "<" -> x < y [] op = "<=" -> x <= y [] op = ">" -> x > y [] op = ">=" -> x >= y
      [] op = "==" -> x = y [] op = "!=" -> x # y
MayBe(cond, st, holds) ==
    CASE cond.kind = "any" -> TRUE
      [] cond.kind = "int" -> holds = Compare(st.ints[cond.v], cond.op,
                                  IF cond.b.var = "" THEN cond.b.k ELSE st.ints[cond.b.var])
      [] cond.kind = "len" -> holds = Compare(st.ints[cond.v], cond.op, st.lengths[cond.b.var])
      [] cond.kind = "nil" -> holds = ((st.refs[cond.v] = NoCell) = (cond.op = "=="))

RunAct ==
    /\ RunStep
    /\ \E r \in Results(CurrentStatement.act) : store' = r.store /\ fault' = r.fault

Keep == UNCHANGED <<store, fault>>

Decide ==
    /\ \E n \in {1, 2} : Take(n) /\ MayBe(CurrentStatement.cond, store, n = 1)
    /\ Keep

StartLoop ==
    /\ \/ EnterLoop /\ (CurrentStatement.op = "for" => MayBe(CurrentStatement.cond, store, TRUE))
       \/ SkipLoop /\ MayBe(CurrentStatement.cond, store, FALSE)
    /\ Keep

\* A match names its variable as its type.
Dispatch == Step({"match"}) /\ Select(store.ints[CurrentStatement.type]) /\ Keep

\* The end of a trip: the update, and the condition again.
EndTrip ==
    /\ Done /\ Top.kind = "loop"
    /\ \E r \in Results(Top.of.update) :
           /\ store' = r.store /\ fault' = r.fault
           /\ \/ Again /\ (Top.of.op = "for" => MayBe(Top.of.cond, r.store, TRUE))
              \/ Top.of.op = "for" /\ MayBe(Top.of.cond, r.store, FALSE) /\ Finish

EndList == Done /\ Top.kind # "loop" /\ Finish /\ Keep

SafetyInit ==
    /\ \E b \in Bodies : body = Placed(b, <<>>)
    /\ proof = Proof(body)
    /\ errors = proof.errors
    /\ outcome = IF errors = {} THEN "running" ELSE "rejected"
    /\ frames = <<FunctionFrame(body)>>
    /\ jump = NoJump
    /\ store \in Starts(IF errors = {} THEN body ELSE <<>>)
    /\ fault = "none"

SafetyNext ==
    /\ fault = "none"
    /\ \/ RunAct \/ Decide \/ StartLoop \/ Dispatch \/ EndTrip \/ EndList
       \/ (EnterBlock \/ Defer \/ Jump \/ RunDeferred \/ Unwind) /\ Keep
    /\ UNCHANGED proof

SafetySpec == SafetyInit /\ [][SafetyNext]_safetyVars

-----------------------------------------------------------------------------
(* Properties                                                              *)

\* "Risky operations": no accepted function divides by zero, leaves the bounds
\* of an array or a slice, casts a value that does not fit or reads through
\* nil, and no operation approved for the operator that does not wrap
\* overflows, whatever the parameters, the globals and the memory.
NothingFaults == fault \notin {"zero", "bounds", "slice", "cast", "nil", "overflow"}

\* "Use after `del`": no accepted function reads or deletes what was deleted.
DeletedNeverUsed == fault # "deleted"

\* What the pass knows at the end of a function is so whenever the function
\* gets there.
FactsHold ==
    outcome = "fell" =>
        LET f == proof.facts
            Bounded(v) == LET i == f.ints[v] k == store.ints[v]
                          IN  /\ i.lo # NoCell => i.lo <= k
                              /\ i.hi # NoCell => k <= i.hi
                              /\ i.nonzero => k # 0
                              /\ i.below # NoCell => k < store.lengths[i.below]
        IN  /\ \A v \in Ints : Bounded(v)
            /\ \A s \in Slices : f.lengths[s] \in {NoCell, store.lengths[s]}
            /\ \A p \in Refs : /\ f.refs[p].nonNil => store.refs[p] # NoCell
                               /\ Alive(f, p) => ~Dangling(p)
=============================================================================
