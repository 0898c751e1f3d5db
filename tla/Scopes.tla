------------------------------- MODULE Scopes -------------------------------
(***************************************************************************)
(* Scopes and symbol resolution: a7/symbol_table.py, the pass that builds  *)
(* the scopes (a7/passes/name_resolution.py) and the pass that finds them  *)
(* again and resolves every use (a7/passes/type_checker.py, the statement  *)
(* walk).  Types, values and the shape of expressions are left out.        *)
(*                                                                         *)
(* Both passes walk the tree on a stack of pending work.  A node is known  *)
(* by its path from the root; the n-th name that a node declares or uses   *)
(* is <<path, n>>.  The second pass has no link from a node to its scope:  *)
(* it enters the next child, in creation order, that has the right name.   *)
(***************************************************************************)
EXTENDS Integers, Sequences, FiniteSets, SequencesExt

CONSTANTS
    Programs,   \* the source files to consider: nodes of kind "file"
    NoSymbol

VARIABLES
    program,
    pass,       \* "predeclare", "naming", "ordering", "checking", "done"
    scopes,     \* every Scope created; the file scope is the first
    scopeStack, \* scope_stack, the current scope last
    work,       \* what the running walk still has to do, the next first
    nested,     \* _nested_functions: paths with the stack to resume
    rejected,   \* file-scope and nested declarations whose name was taken
    captures,   \* the patterns marked is_capture_pattern
    errors,
    ordered,    \* file-scope values, each after the ones it depends on
    active,     \* the values the dependency search is in
    reuse,      \* _scope_reuse_positions: <<scope, name>> -> children entered
    entered,    \* node -> the scope the checker was in while it visited it
    resolved,   \* resolved_uses: use -> the declaration it stands for
    typed       \* declaration -> the symbol whose type it has set

namingVars == <<nested, rejected, captures, errors>>
orderVars == <<ordered, active>>
checkVars == <<reuse, entered, resolved, typed>>
vars == <<program, pass, scopes, scopeStack, work, namingVars, orderVars, checkVars>>

-----------------------------------------------------------------------------
(* The tree.  parts holds the sub-statements: the statements of a block, a  *)
(* case or a file, the branches of an if, the init and the body of a for,   *)
(* the cases of a match, the body of any other.                             *)

Node(kind, names, uses, parts) ==
    [kind |-> kind, names |-> names, uses |-> uses, parts |-> parts]

At(path) == FoldLeft(LAMBDA node, i : node.parts[i], program, path)
Parts(path) == [i \in DOMAIN At(path).parts |-> Append(path, i)]

Values == {"var", "const"}
Records == {"struct", "union"}
Predeclared == Values \cup Records \cup {"function", "enum", "alias"}

-----------------------------------------------------------------------------
(* SymbolTable                                                             *)

Current == Last(scopeStack)

\* The name a scope is given: that of its construct, and of its function.
ScopeName(path) ==
    <<At(path).kind, IF At(path).kind = "function" THEN At(path).names[1] ELSE "">>

NewScope(name, path) ==
    [name |-> name, parent |-> Current, symbols |-> <<>>, of |-> path]

EnterScope(name, path) ==
    /\ scopes' = Append(scopes, NewScope(name, path))
    /\ scopeStack' = Append(scopeStack, Len(scopes) + 1)

ExitScope == scopeStack' = IF Len(scopeStack) > 1 THEN Front(scopeStack) ELSE scopeStack

\* Scope.lookup
LookupIn(table, scope, name) ==
    LET look[s \in 0..Len(table)] ==
            IF s = 0 THEN NoSymbol
            ELSE IF name \in DOMAIN table[s].symbols THEN table[s].symbols[name]
            ELSE look[table[s].parent]
    IN  look[scope]

Lookup(name) == LookupIn(scopes, Current, name)

\* Scope.define, for declarations in the order they are made: the symbols with
\* the names that were free, and the declarations that found theirs taken.
Defined(symbols, declarations) ==
    FoldLeft(LAMBDA d, e :
                 IF e.name \in DOMAIN d.symbols THEN [d EXCEPT !.taken = @ \cup {e.id}]
                 ELSE [d EXCEPT !.symbols = (e.name :> e.id) @@ @],
             [symbols |-> symbols, taken |-> {}], declarations)

Define(declarations) ==
    scopes' = [scopes EXCEPT ![Current].symbols = Defined(@, declarations).symbols]

Taken(declarations) == Defined(scopes[Current].symbols, declarations).taken

\* The names of the node at path: all of them, the first, and the others.
Declarations(path) ==
    [n \in DOMAIN At(path).names |-> [name |-> At(path).names[n], id |-> <<path, n>>]]
First(path) == <<Head(Declarations(path))>>
Others(path) == Tail(Declarations(path))

-----------------------------------------------------------------------------
(* The work stack that both passes walk the tree with                      *)

Do(what, path) == [what |-> what, at |-> path, name |-> <<>>]
All(what, paths) == [i \in DOMAIN paths |-> Do(what, paths[i])]
Enter(name, path) == [what |-> "enter", at |-> path, name |-> name]
Exit == <<Do("exit", <<>>)>>

Todo == Head(work)
Here == Todo.at
Task(in, what, kinds) ==
    pass \in in /\ work # <<>> /\ Todo.what = what /\ At(Here).kind \in kinds
Push(items) == work' = items \o Tail(work)

Naming(kinds) == Task({"naming"}, "visit", kinds)
Checking(kinds) == Task({"checking"}, "visit", kinds)

LeaveScope ==
    /\ work # <<>> /\ Todo.what = "exit"
    /\ ExitScope
    /\ Push(<<>>)
    /\ UNCHANGED <<program, pass, scopes, namingVars, orderVars, checkVars>>

\* A nested function waits until the rest of the file is done, and is then
\* visited in the scopes it was declared in.
Postpone(path) == nested' = Append(nested, [at |-> path, stack |-> scopeStack])

ResumeFunction ==
    /\ pass \in {"naming", "checking"}
    /\ work = <<>> /\ nested # <<>>
    /\ scopeStack' = Head(nested).stack
    /\ work' = <<Do("declare", Head(nested).at)>>
    /\ nested' = Tail(nested)
    /\ UNCHANGED <<program, pass, scopes, rejected, captures, errors, orderVars, checkVars>>

-----------------------------------------------------------------------------
(* NameResolutionPass                                                      *)

Error(kind, ids) == {<<kind, id>> : id \in ids}

\* Every declaration of the file but the imports, before any body.
PredeclareFile ==
    /\ pass = "predeclare"
    /\ LET early == SelectSeq(Parts(<<>>), LAMBDA p : At(p).kind \in Predeclared)
           declarations == FlattenSeq([i \in DOMAIN early |-> First(early[i])])
           taken == Taken(declarations)
       IN  /\ Define(declarations)
           /\ rejected' = {id[1] : id \in taken}
           /\ errors' = Error("already defined", taken)
    /\ pass' = "naming"
    /\ work' = All("declare", Parts(<<>>))
    /\ UNCHANGED <<program, scopeStack, nested, captures, orderVars, checkVars>>

DefineOrReport(declarations, kind) ==
    /\ Define(declarations)
    /\ errors' = errors \cup Error(kind, Taken(declarations))

NameTypeOrValue ==
    /\ Task({"naming"}, "declare", (Predeclared \cup {"import"}) \ {"function"})
    /\ LET fields == Defined(<<>>, Others(Here))
           kind == At(Here).kind
       IN  CASE kind = "import" -> DefineOrReport(First(Here), "already defined")
             [] kind = "enum" /\ Here \notin rejected -> DefineOrReport(Others(Here), "duplicate variant")
             [] kind \in Records /\ Here \notin rejected ->
                    /\ scopes' = Append(scopes, [NewScope(ScopeName(Here), Here) EXCEPT !.symbols = fields.symbols])
                    /\ errors' = errors \cup Error("duplicate field", fields.taken)
             [] OTHER -> UNCHANGED <<scopes, errors>>
    /\ Push(<<>>)
    /\ UNCHANGED <<program, pass, scopeStack, nested, rejected, captures, orderVars, checkVars>>

\* Mutant: a local may be named like a parameter.
NoLocalsChecked(path) == {}

\* Values of the function's outermost block named like a parameter.
LocalsLikeParameters(path) ==
    {<<p, 1>> : p \in {q \in Range(Parts(Append(path, 1))) :
                          At(q).kind \in Values /\ At(q).names[1] \in Range(Tail(At(path).names))}}

NameFunction ==
    /\ Task({"naming"}, "declare", {"function"})
    /\ IF Here \in rejected
       THEN /\ Push(<<>>)
            /\ UNCHANGED <<scopes, scopeStack, errors>>
       ELSE LET params == Defined(<<>>, Others(Here))
            IN  /\ scopes' = Append(scopes, [NewScope(ScopeName(Here), Here) EXCEPT
                                                 !.symbols = params.symbols])
                /\ scopeStack' = Append(scopeStack, Len(scopes) + 1)
                /\ errors' = errors \cup Error("already defined",
                                 params.taken \cup LocalsLikeParameters(Here))
                /\ Push(All("visit", Parts(Here)) \o Exit)
    /\ UNCHANGED <<program, pass, nested, rejected, captures, orderVars, checkVars>>

NameNested ==
    /\ Naming({"function"})
    /\ DefineOrReport(First(Here), "already defined")
    /\ rejected' = rejected \cup {id[1] : id \in Taken(First(Here))}
    /\ Postpone(Here)
    /\ Push(<<>>)
    /\ UNCHANGED <<program, pass, scopeStack, captures, orderVars, checkVars>>

\* A type declared in a body is refused, its name defined all the same.
NameLocal ==
    /\ Naming(Values \cup {"alias"} \cup Records \cup {"enum"})
    /\ IF At(Here).kind \in Records \cup {"enum"}
       THEN /\ Define(First(Here))
            /\ errors' = errors \cup Error("type in a function", {<<Here, 1>>})
       ELSE DefineOrReport(First(Here), "already defined")
    /\ Push(<<>>)
    /\ UNCHANGED <<program, pass, scopeStack, nested, rejected, captures, orderVars, checkVars>>

\* A block makes a scope of its own; any other branch gets one.
Branch(name, path) ==
    IF At(path).kind = "block" THEN <<Do("visit", path)>>
    ELSE <<Enter(name, path), Do("visit", path)>> \o Exit

BranchName(kind, i) ==
    <<IF kind = "while" THEN "while" ELSE IF i = 1 THEN "if_then" ELSE "if_else", "">>

NameBranches ==
    /\ Naming({"if", "while"})
    /\ Push(FlattenSeq([i \in DOMAIN Parts(Here) |->
                Branch(BranchName(At(Here).kind, i), Parts(Here)[i])]))
    /\ UNCHANGED <<program, pass, scopes, scopeStack, namingVars, orderVars, checkVars>>

EnterBranch ==
    /\ work # <<>> /\ Todo.what = "enter"
    /\ EnterScope(Todo.name, Here)
    /\ Push(<<>>)
    /\ UNCHANGED <<program, pass, namingVars, orderVars, checkVars>>

\* Blocks, loops and the else of a match; a loop over a collection declares
\* its iterator, after its index, a loop with a counter does so by its init.
NameScope ==
    /\ Naming({"block", "for", "for_in", "for_in_indexed", "else"})
    /\ LET own == IF At(Here).kind \in {"for_in", "for_in_indexed"} THEN Declarations(Here) ELSE <<>>
           d == Defined(<<>>, own)
       IN  /\ scopes' = Append(scopes, [NewScope(ScopeName(Here), Here) EXCEPT !.symbols = d.symbols])
           /\ errors' = errors \cup Error("already defined", d.taken)
    /\ scopeStack' = Append(scopeStack, Len(scopes) + 1)
    /\ Push(All("visit", Parts(Here)) \o Exit)
    /\ UNCHANGED <<program, pass, nested, rejected, captures, orderVars, checkVars>>

NameMatch ==
    /\ Naming({"match"})
    /\ Push(All("visit", Parts(Here)))
    /\ UNCHANGED <<program, pass, scopes, scopeStack, namingVars, orderVars, checkVars>>

\* Patterns that stand for nothing visible are captures of their case.
NewNames(path) == SelectSeq(Declarations(path), LAMBDA d : Lookup(d.name) = NoSymbol)

NameCase ==
    /\ Naming({"case"})
    /\ LET new == NewNames(Here)
           d == Defined(<<>>, new)
       IN  /\ scopes' = Append(scopes, [NewScope(<<"case", "">>, Here) EXCEPT !.symbols = d.symbols])
           /\ captures' = captures \cup ({e.id : e \in Range(new)} \ d.taken)
    /\ scopeStack' = Append(scopeStack, Len(scopes) + 1)
    /\ Push(All("visit", Parts(Here)) \o Exit)
    /\ UNCHANGED <<program, pass, nested, rejected, errors, orderVars, checkVars>>

\* Uses, match expressions and deferred statements are not walked.
NameNothing ==
    /\ Naming({"use", "match_expr", "defer"})
    /\ Push(<<>>)
    /\ UNCHANGED <<program, pass, scopes, scopeStack, namingVars, orderVars, checkVars>>

-----------------------------------------------------------------------------
(* TypeCheckingPass.visit_program: the order of the file-scope values      *)

FileValues == SelectSeq(Parts(<<>>), LAMBDA p : At(p).kind \in Values)

StartOrdering ==
    /\ pass = "naming"
    /\ work = <<>> /\ nested = <<>>
    /\ pass' = "ordering"
    /\ scopeStack' = <<1>>
    /\ work' = All("order", FileValues)
    /\ UNCHANGED <<program, scopes, namingVars, orderVars, checkVars>>

\* The file-scope values that the initializer of one names.
Dependencies(path) ==
    LET symbols == [n \in DOMAIN At(path).uses |-> LookupIn(scopes, 1, At(path).uses[n])]
        known == SelectSeq(symbols, LAMBDA id : id # NoSymbol /\ id[1] \in Range(FileValues))
    IN  [n \in DOMAIN known |-> known[n][1]]

\* Mutant: a value is put before the ones it depends on.
Preorder(path) == <<Do("ordered", path)>> \o All("order", Dependencies(path))

Postorder(path) == All("order", Dependencies(path)) \o <<Do("ordered", path)>>

OrderValue ==
    /\ Task({"ordering"}, "order", Values)
    /\ IF Here \in Range(ordered)
       THEN Push(<<>>) /\ UNCHANGED <<pass, active, errors>>
       ELSE IF Here \in Range(active)
       THEN /\ errors' = errors \cup Error("dependency cycle", {<<Here, 1>>})
            /\ pass' = "done"
            /\ work' = <<>>
            /\ UNCHANGED active
       ELSE /\ active' = Append(active, Here)
            /\ Push(Postorder(Here))
            /\ UNCHANGED <<pass, errors>>
    /\ UNCHANGED <<program, scopes, scopeStack, nested, rejected, captures, ordered, checkVars>>

ValueOrdered ==
    /\ Task({"ordering"}, "ordered", Values)
    /\ ordered' = Append(ordered, Here)
    /\ active' = Front(active)
    /\ Push(<<>>)
    /\ UNCHANGED <<program, pass, scopes, scopeStack, namingVars, checkVars>>

StartChecking ==
    /\ pass = "ordering"
    /\ work = <<>>
    /\ pass' = "checking"
    /\ work' = All("declare", ordered \o
                   SelectSeq(Parts(<<>>), LAMBDA p : At(p).kind \notin Values))
    /\ UNCHANGED <<program, scopes, scopeStack, namingVars, orderVars, checkVars>>

-----------------------------------------------------------------------------
(* TypeCheckingPass, the statement walk                                    *)

\* The children of the current scope with a name, in creation order.
Children(name) ==
    SelectSeq([s \in DOMAIN scopes |-> s],
              LAMBDA s : scopes[s].parent = Current /\ scopes[s].name = name)

\* Mutant: the first child of a name is entered every time.
NoneBefore(name) == 0

EnteredBefore(name) ==
    IF <<Current, name>> \in DOMAIN reuse THEN reuse[<<Current, name>>] ELSE 0

Found(name) == EnteredBefore(name) < Len(Children(name))
Target(name) ==
    IF Found(name) THEN Children(name)[EnteredBefore(name) + 1] ELSE Len(scopes) + 1

\* _enter_matching_scope, and the symbols the construct still has to define
\* there.
EnterMatchingScope(name, path, declarations) ==
    LET table == IF Found(name) THEN scopes ELSE Append(scopes, NewScope(name, path))
    IN  /\ scopes' = [table EXCEPT ![Target(name)].symbols = Defined(@, declarations).symbols]
        /\ scopeStack' = Append(scopeStack, Target(name))
        /\ reuse' = IF Found(name)
                    THEN (<<Current, name>> :> EnteredBefore(name) + 1) @@ reuse ELSE reuse
        /\ entered' = (path :> Target(name)) @@ entered

\* visit_identifier, for each name that the node at path uses.
Resolve(table, scope, path) ==
    [u \in {<<path, n>> : n \in DOMAIN At(path).uses} |->
        LookupIn(table, scope, At(path).uses[u[2]])] @@ resolved

\* _without_own_symbol
Without(own) ==
    [s \in DOMAIN scopes |-> [scopes[s] EXCEPT !.symbols =
        [x \in {y \in DOMAIN @ : @[y] # own} |-> @[x]]]]

\* Mutant: the initializer sees the name that it initializes.
Everything(own) == scopes

\* What an initializer of own sees.
Hidden(own) == Without(own)

CheckValue ==
    /\ Task({"checking"}, "visit", Values) \/ Task({"checking"}, "declare", Values)
    /\ LET own == <<Here, 1>>
           name == At(Here).names[1]
           unknown == IF At(Here).kind = "var" THEN Lookup(name) = NoSymbol
                      ELSE name \notin DOMAIN scopes[Current].symbols
       IN  /\ resolved' = Resolve(Hidden(own), Current, Here)
           /\ IF unknown THEN Define(First(Here)) ELSE UNCHANGED scopes
           /\ typed' = (own :> IF unknown THEN own ELSE Lookup(name)) @@ typed
    /\ Push(<<>>)
    /\ UNCHANGED <<program, pass, scopeStack, namingVars, orderVars, reuse, entered>>

CheckUse ==
    /\ Checking({"use"}) \/ Task({"checking"}, "uses", {"for"})
    /\ resolved' = Resolve(scopes, Current, Here)
    /\ Push(<<>>)
    /\ UNCHANGED <<program, pass, scopes, scopeStack, namingVars, orderVars, reuse, entered, typed>>

\* A condition, a scrutinee or nothing, then the parts in order; branches and
\* deferred statements get no scope but that of a block.
CheckInPlace ==
    /\ Checking({"if", "while", "match", "match_expr", "defer"})
    /\ resolved' = Resolve(scopes, Current, Here)
    /\ Push(All("visit", Parts(Here)))
    /\ UNCHANGED <<program, pass, scopes, scopeStack, namingVars, orderVars, reuse, entered, typed>>

CheckBlock ==
    /\ Checking({"block", "else"})
    /\ EnterMatchingScope(ScopeName(Here), Here, <<>>)
    /\ Push(All("visit", Parts(Here)) \o Exit)
    /\ UNCHANGED <<program, pass, namingVars, orderVars, resolved, typed>>

\* The init, the condition and the update, the body.
CheckFor ==
    /\ Checking({"for"})
    /\ EnterMatchingScope(ScopeName(Here), Here, <<>>)
    /\ Push(All("visit", Front(Parts(Here))) \o <<Do("uses", Here)>>
            \o All("visit", <<Last(Parts(Here))>>) \o Exit)
    /\ UNCHANGED <<program, pass, namingVars, orderVars, resolved, typed>>

\* The collection is looked up where its iterator is visible.
CheckForIn ==
    /\ Checking({"for_in", "for_in_indexed"})
    /\ EnterMatchingScope(ScopeName(Here), Here, <<>>)
    /\ resolved' = Resolve(scopes', Target(ScopeName(Here)), Here)
    /\ Push(All("visit", Parts(Here)) \o Exit)
    /\ UNCHANGED <<program, pass, namingVars, orderVars, typed>>

\* The patterns that _is_match_capture_pattern takes for captures, and the
\* constants or variables that the others stand for.
CaptureNames(path) ==
    SelectSeq(Declarations(path), LAMBDA d : d.id \in captures \/ Lookup(d.name) = NoSymbol)

Compared(path) ==
    [id \in {d.id : d \in Range(Declarations(path)) \ Range(CaptureNames(path))} |->
        Lookup(At(path).names[id[2]])] @@ resolved

CheckCase ==
    /\ Checking({"case"})
    /\ captures' = captures \cup {d.id : d \in Range(CaptureNames(Here))}
    /\ resolved' = Compared(Here)
    /\ EnterMatchingScope(ScopeName(Here), Here, CaptureNames(Here))
    /\ Push(All("visit", Parts(Here)) \o Exit)
    /\ UNCHANGED <<program, pass, nested, rejected, errors, orderVars, typed>>

\* An arm of a match expression always gets a new scope.
CheckArm ==
    /\ Checking({"arm"})
    /\ captures' = captures \cup {d.id : d \in Range(CaptureNames(Here))}
    /\ resolved' = Compared(Here)
    /\ scopes' = Append(scopes, [NewScope(<<"case", "">>, Here) EXCEPT
                     !.symbols = Defined(<<>>, CaptureNames(Here)).symbols])
    /\ scopeStack' = Append(scopeStack, Len(scopes'))
    /\ Push(All("visit", Parts(Here)) \o Exit)
    /\ UNCHANGED <<program, pass, nested, rejected, errors, orderVars, reuse, entered, typed>>

CheckNested ==
    /\ Checking({"function"})
    /\ Postpone(Here)
    /\ Push(<<>>)
    /\ UNCHANGED <<program, pass, scopes, scopeStack, rejected, captures, errors, orderVars, checkVars>>

\* The function's name too is looked up from inside its scope.
CheckFunction ==
    /\ Task({"checking"}, "declare", {"function"})
    /\ EnterMatchingScope(ScopeName(Here), Here,
           SelectSeq(Others(Here), LAMBDA d : Lookup(d.name) = NoSymbol))
    /\ typed' = [id \in {d.id : d \in Range(Declarations(Here))} |->
                    LookupIn(scopes', Last(scopeStack'), At(Here).names[id[2]])] @@ typed
    /\ Push(All("visit", Parts(Here)) \o Exit)
    /\ UNCHANGED <<program, pass, namingVars, orderVars, resolved>>

CheckType ==
    /\ \/ Task({"checking"}, "declare", Records \cup {"enum", "alias", "import"})
       \/ Checking(Records \cup {"enum", "alias"})
    /\ Push(<<>>)
    /\ UNCHANGED <<program, pass, scopes, scopeStack, namingVars, orderVars, checkVars>>

FinishChecking ==
    /\ pass = "checking"
    /\ work = <<>> /\ nested = <<>>
    /\ pass' = "done"
    /\ UNCHANGED <<program, scopes, scopeStack, work, namingVars, orderVars, checkVars>>

-----------------------------------------------------------------------------
Init ==
    /\ program \in Programs
    /\ pass = "predeclare"
    /\ scopes = <<[name |-> <<"file", "">>, parent |-> 0, symbols |-> <<>>, of |-> <<>>]>>
    /\ scopeStack = <<1>>
    /\ work = <<>> /\ nested = <<>>
    /\ rejected = {} /\ captures = {} /\ errors = {}
    /\ ordered = <<>> /\ active = <<>>
    /\ reuse = <<>> /\ entered = <<>> /\ resolved = <<>> /\ typed = <<>>

Name ==
    \/ PredeclareFile \/ NameTypeOrValue \/ NameFunction \/ NameNested \/ NameLocal
    \/ NameBranches \/ EnterBranch \/ NameScope \/ NameMatch \/ NameCase \/ NameNothing

Order == StartOrdering \/ OrderValue \/ ValueOrdered \/ StartChecking

Check ==
    \/ CheckValue \/ CheckUse \/ CheckInPlace \/ CheckBlock \/ CheckFor \/ CheckForIn
    \/ CheckCase \/ CheckArm \/ CheckNested \/ CheckFunction \/ CheckType \/ FinishChecking

Next == LeaveScope \/ ResumeFunction \/ Name \/ Order \/ Check

Spec == Init /\ [][Next]_vars

-----------------------------------------------------------------------------
(* Properties.  They state the rule of the language over the tree: a region *)
(* is a node that declares names, and a name means what the innermost       *)
(* region around the use declares it to be, before or after the use.        *)

Paths ==
    LET level[n \in 0..8] ==
            IF n = 0 THEN {<<>>} ELSE UNION {Range(Parts(p)) : p \in level[n - 1]}
    IN  UNION {level[n] : n \in DOMAIN level}

Declaring == Predeclared \cup {"import"}

\* What the node at q declares for everything below it.
Region(q) ==
    LET kind == At(q).kind
        named == {p \in Range(Parts(q)) : At(p).kind \in Declaring}
        Own(D) == {[name |-> d.name, id |-> d.id] : d \in D}
    IN  CASE kind \in {"file", "block", "else", "for"} -> UNION {Own(Range(First(p))) : p \in named}
          [] kind \in {"case", "arm"} ->
                 {d \in Range(Declarations(q)) : d.id \in captures}
                     \cup UNION {Own(Range(First(p))) : p \in named}
          [] kind = "function" -> Range(Others(q))
          [] kind \in {"for_in", "for_in_indexed"} -> Range(Declarations(q))
          [] OTHER -> {}

\* What x means at p, when own is a declaration not yet made there.
Meaning(x, p, own) ==
    LET around == {n \in 0..Len(p) : \E d \in Region(SubSeq(p, 1, n)) : d.name = x /\ d.id # own}
        innermost == CHOOSE n \in around : \A m \in around : m <= n
    IN  IF around = {} THEN NoSymbol
        ELSE (CHOOSE d \in Region(SubSeq(p, 1, innermost)) : d.name = x /\ d.id # own).id

\* The second pass finds for each construct the very scope that the first one
\* made for it, by counting (symbol_table.py, type_checker.py:314).
ScopesFoundAgain == errors = {} => \A p \in DOMAIN entered : scopes[entered[p]].of = p

\* A declaration gives its type to its own symbol, never to another one of the
\* same name.
OwnSymbolTyped == errors = {} => \A d \in DOMAIN typed : typed[d] = d

\* p comes before q in the text, or holds it.
Before(p, q) ==
    \E n \in 0..Len(p) :
        /\ SubSeq(p, 1, n) = SubSeq(q, 1, n)
        /\ n = Len(p) \/ (n < Len(q) /\ p[n + 1] < q[n + 1])

\* The declarations that a pattern of the case at c may compare with: all that
\* are made outside the function, and those made before it inside.
Comparable(c) ==
    LET functions == {n \in 0..(Len(c) - 1) : At(SubSeq(c, 1, n)).kind = "function"}
        outside == CHOOSE n \in functions : \A m \in functions : m <= n
    IN  UNION {{d \in Region(SubSeq(c, 1, n)) : n < outside \/ Before(d.id[1], c) \/ At(c).kind = "arm"} :
                   n \in 0..(Len(c) - 1)}

\* docs/SPEC.md: a name is looked up in the current scope, the enclosing scopes
\* and the file; an initializer does not see the name it initializes, and a
\* nested block may declare a name again.  Whatever the order in which the two
\* passes visit the tree, every use is resolved, and to that declaration.  And
\* "an identifier pattern refers to an existing visible symbol when one exists"
\* (docs/SPEC.md:795) and binds the scrutinee otherwise: a file-scope name is
\* visible wherever it is declared, a local one from its declaration on.
UsesResolveLexically ==
    pass = "done" /\ errors = {} =>
        /\ \A p \in Paths : \A n \in DOMAIN At(p).uses : <<p, n>> \in DOMAIN resolved
        /\ \A use \in DOMAIN resolved :
               LET p == use[1]
                   own == IF At(p).kind \in Values THEN use[1] ELSE <<>>
               IN  resolved[use] =
                       IF At(p).kind \in {"case", "arm"}
                       THEN Meaning(At(p).names[use[2]], Front(p), NoSymbol)
                       ELSE Meaning(At(p).uses[use[2]], p, <<own, 1>>)
        /\ \A c \in {p \in Paths : At(p).kind \in {"case", "arm"}} :
               \A d \in Range(Declarations(c)) :
                   d.id \in captures <=> d.name \notin {x.name : x \in Comparable(c)}

Fields(p) == IF At(p).kind \in Records THEN Others(p) ELSE <<>>
Variants(q) ==
    UNION {IF At(p).kind = "enum" THEN Range(Others(p)) ELSE {} : p \in Range(Parts(q))}

\* What the rule of the language refuses: a name declared twice in a region or
\* by the parameters and the outermost block of a function, and a type that is
\* declared in a body.
DeclaredTwice(D) == \E d, e \in D : d # e /\ d.name = e.name

Refused ==
    \E p \in Paths :
        \/ DeclaredTwice(Region(p) \cup Variants(p))
        \/ DeclaredTwice(Range(Fields(p)))
        \/ /\ At(p).kind = "function"
           /\ DeclaredTwice(Region(p) \cup
                 {d \in Region(Append(p, 1)) : At(d.id[1]).kind \in Values})
        \/ Len(p) > 1 /\ At(p).kind \in Records \cup {"enum"}

\* Each collision is reported, in functions nested in others too, and nothing
\* else is: a name is free again in every other region.
CollisionsReported ==
    pass = "done" => (Refused <=> \E e \in errors : e[1] # "dependency cycle")

\* The file-scope values that p depends on, through others or not.
Needs(p) ==
    LET step[n \in 0..Len(FileValues)] ==
            IF n = 0 THEN Range(Dependencies(p))
            ELSE step[n - 1] \cup UNION {Range(Dependencies(q)) : q \in step[n - 1]}
    IN  step[Len(FileValues)]

\* Every file-scope value is checked after the values it depends on, wherever
\* they stand in the file, and only values that need themselves are refused.
ValuesInOrder ==
    pass \in {"checking", "done"} =>
        IF \E e \in errors : e[1] = "dependency cycle"
        THEN \E p \in Range(FileValues) : p \in Needs(p)
        ELSE /\ Range(ordered) = Range(FileValues)
             /\ \A i \in DOMAIN ordered :
                    Needs(ordered[i]) \subseteq {ordered[j] : j \in 1..(i - 1)}
=============================================================================
