---------------------------- MODULE RecursionBan ----------------------------
(***************************************************************************)
(* How the recursion ban collects calls (a7/passes/semantic_validator.py,  *)
(* _validate_no_recursion and the collectors below it), against an         *)
(* execution of the program it judges.                                     *)
(*                                                                         *)
(* A program is a set of functions whose bodies call, bind, assign and     *)
(* pass functions by name; a block stands for every statement with a body  *)
(* of its own, which may run any number of times.  The validator searches  *)
(* every group of sibling functions, following aliases and callbacks, and  *)
(* then the whole program once more by the types of function values.  That *)
(* a graph is rejected exactly when it has a cycle is CallGraph's matter.  *)
(***************************************************************************)
EXTENDS Integers, Sequences, FiniteSets, TLC

CONSTANTS
    TopLevel,   \* names of the top-level functions, "main" among them
    Programs,   \* the programs to consider: top-level function -> its body
    Globals,    \* file-scope variables holding a function
    Initial,    \* global -> the top-level function it is declared with
    Params,     \* function name -> its parameters
    TypeOf,     \* name -> type of the function it stands for
    NoFunction

RecursionBanParameters ==
    /\ "main" \in TopLevel
    /\ \A p \in Programs : DOMAIN p = TopLevel
    /\ Initial \in [Globals -> TopLevel]
    /\ TopLevel \subseteq DOMAIN Params
    /\ NoFunction \notin DOMAIN TypeOf

VARIABLES
    program,    \* top-level function -> its body
    accepted,   \* the validator's verdict
    slots,      \* global -> function it holds
    frames      \* the calls that run, the innermost last

vars == <<program, accepted, slots, frames>>

\* Statements: names stand for the expressions that are identifiers.
Call(f, args) == [op |-> "call", name |-> f, args |-> args, body |-> <<>>]
Var(x, value) == [op |-> "var", name |-> x, args |-> <<value>>, body |-> <<>>]
Assign(x, value) == [op |-> "assign", name |-> x, args |-> <<value>>, body |-> <<>>]
Nested(f, body) == [op |-> "function", name |-> f, args |-> <<>>, body |-> body]
Block(body) == [op |-> "block", name |-> NoFunction, args |-> <<>>, body |-> body]

Elements(s) == {s[i] : i \in DOMAIN s}
Without(f, x) == [y \in DOMAIN f \ {x} |-> f[y]]

-----------------------------------------------------------------------------
(* Names that may hold a function (_collect_function_aliases)              *)

\* Every binding of one identifier to another, in source order; the bodies of
\* nested functions are their own.
RECURSIVE Bindings(_)
Bindings(stmts) ==
    IF stmts = <<>> THEN <<>>
    ELSE LET s == Head(stmts)
         IN  (CASE s.op \in {"var", "assign"} -> <<s>>
                [] s.op = "block" -> Bindings(s.body)
                [] OTHER -> <<>>) \o Bindings(Tail(stmts))

\* The walk pops the last statement first, so the first binding stays.
Aliases(stmts, names) ==
    LET bindings == SelectSeq(Bindings(stmts), LAMBDA s : s.args[1] \in names)
        First(x) == CHOOSE i \in DOMAIN bindings :
            bindings[i].name = x /\ \A j \in 1..(i - 1) : bindings[j].name # x
    IN  [x \in {s.name : s \in Elements(bindings)} |-> bindings[First(x)].args[1]]

-----------------------------------------------------------------------------
(* Parameters a function calls (_collect_called_parameter_usage)           *)

\* _parameter_value_position, 0 for a name that is no parameter.
Position(params, x, shadowed, aliases) ==
    IF x \in DOMAIN aliases THEN aliases[x]
    ELSE IF x \in Elements(params) \ shadowed
         THEN CHOOSE i \in DOMAIN params : params[i] = x
         ELSE 0

\* The calls of parameters: which one, and the parameters it is given.
RECURSIVE Invocations(_, _, _, _)
Invocations(params, stmts, shadowed, aliases) ==
    IF stmts = <<>> THEN {}
    ELSE LET s == Head(stmts)
             At(x) == Position(params, x, shadowed, aliases)
             here == CASE s.op = "call" /\ At(s.name) # 0 ->
                              {[at |-> At(s.name),
                                given |-> [i \in DOMAIN s.args |-> At(s.args[i])]]}
                       [] s.op = "block" -> Invocations(params, s.body, shadowed, aliases)
                       [] OTHER -> {}
             hides == \/ s.op = "function"
                      \/ s.op = "var" /\ s.name \in Elements(params)
             newAliases ==
                 CASE s.op \in {"var", "assign"} /\ At(s.args[1]) # 0 ->
                          (s.name :> At(s.args[1])) @@ aliases
                   [] s.op = "var" /\ s.name \in Elements(params) -> aliases
                   [] s.op \in {"var", "assign", "function"} -> Without(aliases, s.name)
                   [] OTHER -> aliases
         IN  here \cup Invocations(params, Tail(stmts),
                 IF hides THEN shadowed \cup {s.name} ELSE shadowed, newAliases)

-----------------------------------------------------------------------------
(* The calls of a function (_collect_function_calls)                       *)

\* A scope says what the names of a body mean to the collector.
Scope(names, aliases, invokes) ==
    [names |-> names, aliases |-> aliases, invokes |-> invokes]

\* _direct_callee_name, _function_value_name: an alias comes before anything
\* that the name means in its scope.
Target(scope, shadowed, x) ==
    IF x \in DOMAIN scope.aliases THEN scope.aliases[x]
    ELSE IF x \in scope.names \ shadowed THEN x
    ELSE NoFunction

\* Callbacks handed to callee that it calls, itself or through another
\* callback (_collect_higher_order_argument_calls).
CallbackCalls(scope, shadowed, callee, args) ==
    LET Handed(i) == IF i \in DOMAIN args THEN Target(scope, shadowed, args[i]) ELSE NoFunction
        Invoked(f) == IF f \in DOMAIN scope.invokes THEN scope.invokes[f] ELSE {}
        through == {<<call, inner>> \in Invoked(callee) \X UNION {Invoked(f) : f \in scope.names} :
                        /\ inner \in Invoked(Handed(call.at))
                        /\ inner.at \in DOMAIN call.given}
    IN  ({Handed(call.at) : call \in Invoked(callee)}
            \cup {Handed(t[1].given[t[2].at]) : t \in through}) \ {NoFunction}

Direct(f) == [kind |-> "direct", of |-> f]
Indirect(type) == [kind |-> "indirect", of |-> type]
UsedAsValue(f) == [kind |-> "value", of |-> f]

\* _collect_expression_calls, on the expressions of one statement.
StatementUses(scope, shadowed, s) ==
    LET callee == Target(scope, shadowed, s.name)
        names == scope.names \ shadowed
    IN  {UsedAsValue(x) : x \in Elements(s.args) \cap names}
        \cup CASE s.op = "call" /\ callee # NoFunction ->
                      {Direct(f) : f \in {callee} \cup
                          CallbackCalls(scope, shadowed, callee, s.args)}
               [] s.op = "call" -> {Indirect(TypeOf[s.name])}
               [] s.op = "assign" -> {UsedAsValue(x) : x \in {s.name} \cap names}
               [] OTHER -> {}

\* Mutant: a local declaration does not hide the function of its name.
NothingHidden(scope, s, shadowed) == shadowed

\* The function names that mean something else after s.
HiddenAfter(scope, s, shadowed) ==
    IF s.op \in {"var", "function"} /\ s.name \in scope.names
    THEN shadowed \cup {s.name} ELSE shadowed

\* _schedule_statement_calls: what a block declares ends with the block, and a
\* nested function's body is not part of the calls of the enclosing one.
RECURSIVE Uses(_, _, _)
Uses(scope, stmts, shadowed) ==
    IF stmts = <<>> THEN {}
    ELSE LET s == Head(stmts)
         IN  StatementUses(scope, shadowed, s)
             \cup (IF s.op = "block" THEN Uses(scope, s.body, shadowed) ELSE {})
             \cup Uses(scope, Tail(stmts), HiddenAfter(scope, s, shadowed))

Parameters(f) == Elements(Params[f])

-----------------------------------------------------------------------------
(* The two searches                                                        *)

\* A call graph is a set of <<caller, callee>> pairs; functions that call only
\* functions already set aside are set aside, until none is left or the rest
\* holds a cycle.
Acyclic(calls) ==
    LET nodes == {c[1] : c \in calls}
        left[n \in 0..Cardinality(nodes)] ==
            IF n = 0 THEN nodes
            ELSE LET rest == left[n - 1]
                 IN  {f \in rest : \E c \in calls : c[1] = f /\ c[2] \in rest}
    IN  left[Cardinality(nodes)] = {}

\* _validate_function_group, for the functions of one statement list.
GroupGraph(bodyOf) ==
    LET names == DOMAIN bodyOf
        invokes == [f \in names |-> Invocations(Params[f], bodyOf[f], {}, <<>>)]
        DirectUses(f) == {u \in Uses(Scope(names, Aliases(bodyOf[f], names), invokes),
                                     bodyOf[f], Parameters(f) \cap names) : u.kind = "direct"}
    IN  UNION {{<<f, u.of>> : u \in DirectUses(f)} : f \in names}

\* The functions declared in one list of statements, with their bodies.
Declared(stmts) ==
    LET nested == SelectSeq(stmts, LAMBDA s : s.op = "function")
    IN  [f \in {s.name : s \in Elements(nested)} |->
            (CHOOSE s \in Elements(nested) : s.name = f).body]

\* The lists of statements in a body.
RECURSIVE Lists(_)
Lists(stmts) == {stmts} \cup UNION {Lists(s.body) : s \in Elements(stmts)}

AllLists(p) == UNION {Lists(p[f]) : f \in TopLevel}

\* The nested functions at any depth of a body.
NestedIn(stmts) ==
    {s \in UNION {Elements(l) : l \in Lists(stmts)} : s.op = "function"}

\* What a top-level function uses, the bodies of its nested functions counted
\* as its own; a nested function hides a top-level one of its name.
MergedUses(p, f) ==
    LET scope == Scope(TopLevel, <<>>, <<>>)
    IN  Uses(scope, p[f], Parameters(f) \cap TopLevel) \cup
        UNION {Uses(scope, s.body, ({s.name} \cup Parameters(s.name)) \cap TopLevel) :
                   s \in NestedIn(p[f])}

\* Mutant: what globals are declared with does not count as used as a value.
ValuesInBodies(uses) == {u[2].of : u \in {v \in uses : v[2].kind = "value"}}

ValuesUsed(uses) == ValuesInBodies(uses) \cup {Initial[x] : x \in Globals}

\* _validate_function_value_recursion: a call through a value reaches every
\* function of its type that is used as a value.
ValueGraph(p) ==
    LET uses == UNION {{<<f, u>> : u \in MergedUses(p, f)} : f \in TopLevel}
        values == ValuesUsed(uses)
    IN  {<<u[1], u[2].of>> : u \in {v \in uses : v[2].kind = "direct"}} \cup
        UNION {{<<u[1], f>> : f \in {g \in values : TypeOf[g] = u[2].of}} :
                   u \in {v \in uses : v[2].kind = "indirect"}}

\* _validate_no_recursion
Accepted(p) ==
    /\ Acyclic(GroupGraph(p))
    /\ \A l \in AllLists(p) : Acyclic(GroupGraph(Declared(l)))
    /\ Acyclic(ValueGraph(p))

-----------------------------------------------------------------------------
(* The execution of an accepted program                                    *)

\* Functions are values, told apart by the functions they are declared in; the
\* backend emits nested ones at file scope.
TopFunction(f) == [name |-> f, body |-> program[f], in |-> <<>>]

\* "A nested function is callable in its whole block."
Hoisted(stmts, owner) ==
    [f \in DOMAIN Declared(stmts) |->
        [name |-> f, body |-> Declared(stmts)[f], in |-> Append(owner.in, owner.name)]]

\* The nested functions of owner in stmts, with those whose blocks they are in.
\* One that reads a local of its owner has no code, so none does here.
RECURSIVE WithScope(_, _, _)
WithScope(owner, stmts, outer) ==
    LET scope == Hoisted(stmts, owner) @@ outer
    IN  UNION {CASE s.op = "function" ->
                        LET fn == scope[s.name]
                        IN  {<<fn, scope>>} \cup WithScope(fn, fn.body, scope)
                 [] s.op = "block" -> WithScope(owner, s.body, scope)
                 [] OTHER -> {} : s \in Elements(stmts)}

NestedFunctions == UNION {WithScope(TopFunction(f), program[f], <<>>) : f \in TopLevel}

Known(fn) == IF fn.in = <<>> THEN <<>> ELSE (CHOOSE n \in NestedFunctions : n[1] = fn)[2]

Top == frames[Len(frames)]
Below == SubSeq(frames, 1, Len(frames) - 1)
Current == Head(Top.todo)

\* Scopes of a frame, the innermost first; then globals, then functions.
Meaning(x) ==
    LET inner == SelectSeq(Top.scopes, LAMBDA sc : x \in DOMAIN sc)
    IN  IF inner # <<>> THEN inner[1][x]
        ELSE IF x \in Globals THEN slots[x]
        ELSE TopFunction(x)

Frame(fn, args) ==
    LET locals == [x \in Parameters(fn.name) |->
                      args[CHOOSE i \in DOMAIN args : Params[fn.name][i] = x]]
    IN  [fn |-> fn, scopes |-> <<locals @@ Hoisted(fn.body, fn), Known(fn)>>, todo |-> fn.body]

Leave == [op |-> "leave"]

Running == accepted /\ frames # <<>>

Step(op) == Running /\ Top.todo # <<>> /\ Current.op = op

Continue(scopes, todo) ==
    frames' = Append(Below, [fn |-> Top.fn, scopes |-> scopes, todo |-> todo])

Enter ==
    /\ Step("call")
    /\ LET callee == Meaning(Current.name)
           args == [i \in DOMAIN Current.args |-> Meaning(Current.args[i])]
           caller == [Top EXCEPT !.todo = Tail(@)]
       IN  frames' = Below \o <<caller, Frame(callee, args)>>
    /\ UNCHANGED <<program, accepted, slots>>

Return ==
    /\ Running
    /\ Top.todo = <<>>
    /\ frames' = Below
    /\ UNCHANGED <<program, accepted, slots>>

Declare ==
    /\ Step("var") \/ Step("function")
    /\ LET new == IF Current.op = "var" THEN Current.name :> Meaning(Current.args[1])
                  ELSE <<>>
       IN  Continue(<<new @@ Top.scopes[1]>> \o Tail(Top.scopes), Tail(Top.todo))
    /\ UNCHANGED <<program, accepted, slots>>

\* An assignment goes to the innermost scope that has the name.
Store ==
    /\ Step("assign")
    /\ LET value == Meaning(Current.args[1])
           x == Current.name
           Has(i) == x \in DOMAIN Top.scopes[i]
           local == \E i \in DOMAIN Top.scopes : Has(i)
           inner == CHOOSE i \in DOMAIN Top.scopes : Has(i) /\ \A j \in 1..(i - 1) : ~Has(j)
       IN  IF local
           THEN /\ Continue([Top.scopes EXCEPT ![inner][x] = value], Tail(Top.todo))
                /\ UNCHANGED slots
           ELSE /\ Continue(Top.scopes, Tail(Top.todo))
                /\ slots' = [slots EXCEPT ![x] = value]
    /\ UNCHANGED <<program, accepted>>

\* A condition fails, or it holds and the block runs once more.
PassBlock ==
    /\ Step("block")
    /\ Continue(Top.scopes, Tail(Top.todo))
    /\ UNCHANGED <<program, accepted, slots>>

RunBlock ==
    /\ Step("block")
    /\ Continue(<<Hoisted(Current.body, Top.fn)>> \o Top.scopes, Current.body \o <<Leave>> \o Top.todo)
    /\ UNCHANGED <<program, accepted, slots>>

LeaveBlock ==
    /\ Step("leave")
    /\ Continue(Tail(Top.scopes), Tail(Top.todo))
    /\ UNCHANGED <<program, accepted, slots>>

-----------------------------------------------------------------------------
Init ==
    /\ program \in Programs
    /\ accepted = Accepted(program)
    /\ slots = [x \in Globals |-> TopFunction(Initial[x])]
    /\ frames = <<Frame(TopFunction("main"), <<>>)>>

Next ==
    \/ Enter \/ Return \/ Declare \/ Store
    \/ PassBlock \/ RunBlock \/ LeaveBlock

Spec == Init /\ [][Next]_vars

-----------------------------------------------------------------------------
(* Properties                                                              *)

\* "Recursion is not part of A7.  A function may not call itself directly, and
\* groups of functions may not call each other in a cycle": whatever way an
\* accepted program runs, no function is entered while it is running, directly,
\* through a local or global variable, or through a callback.
NoRecursion ==
    \A i, j \in DOMAIN frames : i # j => frames[i].fn # frames[j].fn

\* The same of programs whose nested functions are passed on as callbacks, or
\* are declared in one another: "groups of functions may not call each other in
\* a cycle", "callback trampolines cannot hide recursion".
NestedRecursionRejected == NoRecursion

\* What the functions of a body call, resolved by scope alone; a function is
\* taken to call the nested functions it declares.
RECURSIVE Edges(_, _, _)
Edges(caller, stmts, outer) ==
    LET scope == Hoisted(stmts, caller) @@ outer
    IN  UNION {CASE s.op = "call" -> {<<caller, scope[s.name]>>}
                 [] s.op = "block" -> Edges(caller, s.body, scope)
                 [] s.op = "function" -> LET callee == scope[s.name]
                                         IN  {<<caller, callee>>} \cup Edges(callee, s.body, scope)
                 [] OTHER -> {} : s \in Elements(stmts)}

\* Every identifier of the program is called, none is stored or passed, a
\* global was given nothing that calls, and no nested function calls another
\* one that has the name of a top-level function: the collector knows only the
\* nested function's own name and takes that call for one of the latter.
CallsByNameOnly ==
    LET nested == NestedFunctions
        callable == TopLevel \cup {n[1].name : n \in nested}
    IN  /\ \A x \in Globals : program[Initial[x]] = <<>>
        /\ \A l \in AllLists(program) : \A s \in Elements(l) :
               /\ s.op \in {"call", "function", "block"}
               /\ s.args = <<>>
               /\ s.op = "call" => s.name \in callable
        /\ \A n \in nested : \A l \in Lists(n[1].body) : \A s \in Elements(l) :
               s.op = "call" => s.name \notin (DOMAIN n[2] \cap TopLevel) \ {n[1].name}

\* The ban is no wider than it says when a program has no function values: it
\* rejects one only for a cycle among its functions, where a name means what
\* its scope says and hides the functions of that name outside it.
DirectCallsJudgedExactly ==
    CallsByNameOnly =>
        LET file == [f \in TopLevel |-> TopFunction(f)]
            edges == UNION {Edges(file[f], program[f], file) : f \in TopLevel}
        IN  accepted <=> Acyclic(edges)
=============================================================================
