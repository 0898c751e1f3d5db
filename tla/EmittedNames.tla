----------------------------- MODULE EmittedNames -----------------------------
(***************************************************************************)
(* The names of the emitted Zig: what the backend (a7/backends/zig.py, the  *)
(* statement walk) and the pass before it (a7/ast_preprocessor.py) call     *)
(* each local and each nested function, which locals become a var, and      *)
(* which are discarded.  Zig lets no declaration shadow a visible one, no   *)
(* local go unread, and no var go unwritten; A7 allows all of that.         *)
(*                                                                         *)
(* A name is its text without numeric suffixes, and the suffixes: x_1 is    *)
(* <<"x", 1>>.  Types, expressions and the text around names are left out,  *)
(* and so are names that begin with the generator's __a7_, constants whose  *)
(* uses are replaced by their value, and the matches that fall through.     *)
(***************************************************************************)
EXTENDS Integers, Sequences, FiniteSets, SequencesExt, FiniteSetsExt, TLC

CONSTANT Emittable     \* [globals, function]: what may stand beside main in a file

VARIABLES
    source,         \* one of them
    todo,           \* what the walk still has to do, the next first
    renames,        \* _rename_map: name -> emitted name
    snapshots,      \* _rename_snapshots
    unread,         \* _pending_discards: per scope, [of, name, since]
    usedNames,      \* _used_identifiers of the function being emitted
    saved,          \* what each running _visit_function has to restore
    hoisted,        \* _hoisted_names: nested function -> emitted name
    zig,            \* the emitted tokens
    discarded,      \* declarations that got a discard, or are written _
    refused         \* a nested function reads a local of the one around it

nameVars == <<source, todo, renames, snapshots, unread, usedNames, saved, hoisted, zig, discarded, refused>>

\* A function's names are its own and its parameters'; a for has an init, an update
\* and a body; the arms of a match name their captures and use their patterns.
Statement(kind, names, uses, parts) ==
    [kind |-> kind, names |-> names, uses |-> uses, parts |-> parts]

RECURSIVE Part(_, _)
Part(node, path) == IF path = <<>> THEN node ELSE Part(node.parts[Head(path)], Tail(path))
Locate(path) == Part(source.function, path)
Below(path) == [i \in DOMAIN Locate(path).parts |-> Append(path, i)]
Parameters(path) == Tail(Locate(path).names)

Preamble == {<<"std">>, <<"allocator">>, <<"panic">>, <<"main">>}

\* The first of name_1, name_2, ... that is not taken.
Suffixed(name, taken) ==
    Append(name, Min({n \in 1..Cardinality(taken) + 1 : Append(name, n) \notin taken}))

\* _plan_global_renames
GlobalName(name) ==
    IF name \in source.globals \cap (Preamble \ {<<"main">>}) THEN Suffixed(name, source.globals) ELSE name

GlobalNames == {GlobalName(name) : name \in source.globals \cup {source.function.names[1]}} \cup Preamble

-----------------------------------------------------------------------------
(* What is known before the walk: the scopes of the two passes over a       *)
(* function's declarations and writes, and what it uses and declares.       *)

RECURSIVE Events(_, _), UsedIn(_), LocalsIn(_), Nested(_)

Event(is, kind, at) == [is |-> is, kind |-> kind, at |-> at]

\* Of the statements at these paths, those of nested functions left out or not.
Events(paths, nested) ==
    IF paths = <<>> THEN <<>>
    ELSE LET path == Head(paths)
             kind == Locate(path).kind
             below == Below(path)
             inside == Events(IF kind = "for" THEN <<below[1], below[3], below[2]>> ELSE below, nested)
             events == IF kind \in {"block", "for", "forin"}
                       THEN <<Event("enter", kind, path)>> \o inside \o <<Event("exit", kind, path)>>
                       ELSE IF kind \in {"var", "const"} THEN <<Event("declare", kind, path)>>
                       ELSE IF kind = "assign" THEN <<Event("write", kind, path)>>
                       ELSE IF kind = "function" /\ ~nested THEN <<>>
                       ELSE inside
         IN  events \o Events(Tail(paths), nested)

\* _collect_mutated_declarations: a block and a loop are scopes, the arm of a match is none.
Mutated(function) ==
    LET Bind(scopes, name, path) == Append(Front(scopes), (name :> path) @@ Last(scopes))
        Written(scopes, name) ==
            LET in == {k \in DOMAIN scopes : name \in DOMAIN scopes[k]}
            IN  IF in = {} THEN {} ELSE {scopes[Max(in)][name]}
        Loop(path) == [name \in ToSet(Locate(path).names) |-> path]
        Step(state, e) ==
            CASE e.is = "enter"   -> [state EXCEPT !.scopes = Append(@, IF e.kind = "forin" THEN Loop(e.at) ELSE <<>>)]
              [] e.is = "exit"    -> [state EXCEPT !.scopes = Front(@)]
              [] e.is = "declare" -> [state EXCEPT !.scopes = Bind(@, Locate(e.at).names[1], e.at)]
              [] e.is = "write"   -> [state EXCEPT !.written = @ \cup Written(state.scopes, Locate(e.at).names[1])]
    IN  FoldLeft(Step, [scopes |-> <<<<>>>>, written |-> {}], Events(<<Append(function, 1)>>, FALSE)).written

\* _resolve_shadowing: only blocks are scopes, those of nested functions among them.
Shadowing(function) ==
    LET Step(state, e) ==
            LET name == Locate(e.at).names[1]
                new == Suffixed(name, state.taken)
            IN  IF e.kind = "block"
                THEN [state EXCEPT !.scopes = IF e.is = "enter" THEN Append(@, {}) ELSE Front(@)]
                ELSE IF e.kind # "var" THEN state
                ELSE [scopes |-> Append(Front(state.scopes), Last(state.scopes) \cup {name}),
                      taken  |-> state.taken \cup {IF name \in UNION ToSet(Front(state.scopes)) THEN new ELSE name},
                      names  |-> IF name \in UNION ToSet(Front(state.scopes)) THEN (e.at :> new) @@ state.names
                                 ELSE state.names]
    IN  FoldLeft(Step,
                 [scopes |-> <<ToSet(Parameters(function))>>, taken |-> ToSet(Parameters(function)), names |-> <<>>],
                 Events(<<Append(function, 1)>>, TRUE)).names

\* _annotate_function: the function, and those directly in the body of an annotated one.
Annotated(function) ==
    /\ Len(function) % 2 = 0
    /\ \A k \in 0..Len(function) : IF k % 2 = 1 THEN function[k] = 1
                                   ELSE Locate(SubSeq(function, 1, k)).kind = "function"

EmitName(path) ==
    LET naming == {k \in 0..Len(path) - 1 :
                      LET function == SubSeq(path, 1, k)
                      IN  Annotated(function) /\ path \in DOMAIN Shadowing(function)}
    IN  IF naming = {} THEN Locate(path).names[1] ELSE Shadowing(SubSeq(path, 1, Max(naming)))[path]

\* _collect_used_identifiers
UsedIn(node) ==
    ToSet(node.uses) \cup (IF node.kind = "assign" THEN ToSet(node.names) ELSE {})
    \cup UNION {UsedIn(part) : part \in ToSet(node.parts)}

\* _declared_names, of the function at path and not of those nested in it.
LocalsIn(node) ==
    IF node.kind = "function" THEN {}
    ELSE (IF node.kind = "assign" THEN {} ELSE ToSet(node.names))
         \cup UNION {LocalsIn(part) : part \in ToSet(node.parts)}
DeclaredNames(function) == ToSet(Tail(function.names)) \cup LocalsIn(function.parts[1])

\* _collect_nested_functions, below these paths
Nested(paths) ==
    LET IsFunction(p) == Locate(p).kind = "function"
        path == Head(paths)
    IN  IF paths = <<>> THEN <<>>
        ELSE Nested(Tail(paths))
             \o (IF IsFunction(path) THEN <<>> ELSE Nested(Below(path)) \o SelectSeq(Below(path), IsFunction))
NestedFunctions(function) == Nested(<<Append(function, 1)>>)

\* _reject_captures
Captures(nested, function) ==
    (UsedIn(Locate(nested).parts[1]) \cap DeclaredNames(Locate(function))) \ DeclaredNames(Locate(nested)) # {}

-----------------------------------------------------------------------------
(* Names                                                                    *)

ValuesOf(f) == {f[x] : x \in DOMAIN f}
Active(map, outer) == ValuesOf(map) \cup GlobalNames \cup UNION {ValuesOf(m) : m \in ToSet(outer)}

\* Mutant: only the innermost scope's names are avoided.
AvoidingInner(name, preferred, map, outer) ==
    IF preferred \in ValuesOf(map) THEN Suffixed(name, ValuesOf(map) \cup usedNames) ELSE preferred

\* _declare_var_in_scope
Fresh(name, preferred, map, outer) ==
    IF preferred \in Active(map, outer) THEN Suffixed(name, Active(map, outer) \cup usedNames) ELSE preferred

\* Several, one after the other.
Renamed(map, outer, names) ==
    FoldLeft(LAMBDA m, name : (name :> Fresh(name, name, m, outer)) @@ m, map, names)

Resolve(name) == IF name \in DOMAIN renames THEN renames[name] ELSE GlobalName(name)

Token(is, name, of) == [is |-> is, name |-> name, of |-> of]
Open == <<Token("open", <<>>, <<>>)>>
Close == <<Token("close", <<>>, <<>>)>>
Uses(path) ==
    [k \in DOMAIN Locate(path).uses |-> Token("use", Resolve(Locate(path).uses[k]), <<path, Locate(path).uses[k]>>)]
Declarations(is, path, names, map) == [k \in DOMAIN names |-> Token(is, map[names[k]], <<path, names[k]>>)]
Unread(declarations, since) ==
    [k \in DOMAIN declarations |-> [of |-> declarations[k].of, name |-> declarations[k].name, since |-> since]]

-----------------------------------------------------------------------------
(* The walk                                                                 *)

Do(what, path) == [what |-> what, at |-> path]
Each(what, paths) == [k \in DOMAIN paths |-> Do(what, paths[k])]

NamesInit ==
    /\ source \in Emittable
    /\ todo = <<Do("function", <<>>)>>
    /\ renames = <<>> /\ snapshots = <<>> /\ unread = <<>>
    /\ usedNames = {} /\ saved = <<>> /\ hoisted = <<>>
    /\ zig = <<>> /\ discarded = {} /\ refused = FALSE

Here == Head(todo).at
Task(what, kinds) == todo # <<>> /\ Head(todo).what = what /\ Locate(Here).kind \in kinds
Continue(tasks) == todo' = tasks \o Tail(todo)

\* The functions nested in this one are emitted before it, and see each other.
Hoist(nested) ==
    [p \in ToSet(nested) \cup DOMAIN hoisted |->
        IF p \in DOMAIN hoisted THEN hoisted[p]
        ELSE <<"__a7_fn", Cardinality(DOMAIN hoisted) + (CHOOSE k \in DOMAIN nested : nested[k] = p)>>]

EnterFunction ==
    /\ Task("function", {"function"})
    /\ LET nested == NestedFunctions(Here)
           names == Hoist(nested)
       IN  /\ \A p \in ToSet(nested) : ~Captures(p, Here)
           /\ hoisted' = names
           /\ renames' = FoldLeft(LAMBDA m, p : (Locate(p).names[1] :> names[p]) @@ m, renames, nested)
           /\ snapshots' = IF nested = <<>> THEN snapshots ELSE <<>>
           /\ saved' = Append(saved, [renames |-> renames, snapshots |-> snapshots, used |-> usedNames])
           /\ Continue(Each("function", nested) \o <<Do("body", Here), Do("leave", Here), Do("end", Here)>>)
    /\ usedNames' = UsedIn(Locate(Here).parts[1])
    /\ UNCHANGED <<source, unread, zig, discarded, refused>>

RejectCapture ==
    /\ Task("function", {"function"})
    /\ \E p \in ToSet(NestedFunctions(Here)) : Captures(p, Here)
    /\ todo' = <<>>
    /\ refused' = TRUE
    /\ UNCHANGED <<source, renames, snapshots, unread, usedNames, saved, hoisted, zig, discarded>>

\* A new scope over the given map, with these declared in it.
EnterScope(map, outer, is, path, names, before) ==
    LET all == Renamed(map, Append(outer, map), names)
        declarations == Declarations(is, path, names, all)
    IN  /\ renames' = all
        /\ snapshots' = Append(outer, map)
        /\ zig' = zig \o before \o declarations
        /\ unread' = Append(unread, Unread(declarations, Len(zig')))

StartBody ==
    /\ Task("body", {"function"})
    /\ LET name == IF Here \in DOMAIN hoisted THEN hoisted[Here] ELSE Locate(Here).names[1]
       IN  EnterScope(Last(saved).renames, Last(saved).snapshots, "name", Here, Parameters(Here),
                      <<Token("function", name, <<Here, Locate(Here).names[1]>>)>>)
    /\ Continue(<<Do("visit", Append(Here, 1))>>)
    /\ UNCHANGED <<source, usedNames, saved, hoisted, discarded, refused>>

EndFunction ==
    /\ Task("end", {"function"})
    /\ usedNames' = Last(saved).used
    /\ saved' = Front(saved)
    /\ Continue(<<>>)
    /\ UNCHANGED <<source, renames, snapshots, unread, hoisted, zig, discarded, refused>>

\* _pop_scope: what has not been used since it was declared is discarded.
UsedSince(entry) == \E k \in entry.since + 1..Len(zig) : zig[k].is \in {"use", "write"} /\ zig[k].name = entry.name

LeaveScope ==
    /\ todo # <<>> /\ Head(todo).what = "leave"
    /\ renames' = Last(snapshots)
    /\ snapshots' = Front(snapshots)
    /\ discarded' = discarded \cup {entry.of : entry \in {e \in ToSet(Last(unread)) : ~UsedSince(e)}}
    /\ unread' = Front(unread)
    /\ zig' = zig \o Close
    /\ Continue(<<>>)
    /\ UNCHANGED <<source, usedNames, saved, hoisted, refused>>

\* The functions of a block have their names from its first statement on.
Prebound(path) ==
    FoldLeft(LAMBDA m, p : IF Locate(p).kind = "function" THEN (Locate(p).names[1] :> hoisted[p]) @@ m ELSE m,
             renames, Below(path))

EnterBlock ==
    /\ Task("visit", {"block"})
    /\ renames' = Prebound(Here)
    /\ snapshots' = Append(snapshots, renames)
    /\ unread' = Append(unread, <<>>)
    /\ zig' = zig \o Open
    /\ Continue(Each("visit", Below(Here)) \o <<Do("leave", Here)>>)
    /\ UNCHANGED <<source, usedNames, saved, hoisted, discarded, refused>>

\* The scrutinee, the condition or the value, and what is inside.
EmitUses ==
    /\ Task("visit", {"use", "assign", "if", "match"}) \/ Task("condition", {"for"})
    /\ zig' = zig \o (IF Locate(Here).kind = "assign"
                      THEN <<Token("write", Resolve(Locate(Here).names[1]), <<Here, Locate(Here).names[1]>>)>> ELSE <<>>)
                  \o Uses(Here)
    /\ Continue(IF Locate(Here).kind \in {"if", "match"} THEN Each("visit", Below(Here)) ELSE <<>>)
    /\ UNCHANGED <<source, renames, snapshots, unread, usedNames, saved, hoisted, discarded, refused>>

EnclosingFunction(path) ==
    SubSeq(path, 1, Max({k \in 0..Len(path) - 1 : Locate(SubSeq(path, 1, k)).kind = "function"}))

Declare ==
    /\ Task("visit", {"var", "const"})
    /\ LET name == Locate(Here).names[1]
           preferred == IF Locate(Here).kind = "var" THEN EmitName(Here) ELSE name
           is == IF Locate(Here).kind = "var" /\ Here \in Mutated(EnclosingFunction(Here)) THEN "var" ELSE "const"
           all == (name :> Fresh(name, preferred, renames, snapshots)) @@ renames
           declarations == Declarations(is, Here, <<name>>, all)
       IN  /\ renames' = all
           /\ zig' = zig \o Uses(Here) \o declarations
           /\ unread' = Append(Front(unread), Last(unread) \o Unread(declarations, Len(zig')))
    /\ Continue(<<>>)
    /\ UNCHANGED <<source, snapshots, usedNames, saved, hoisted, discarded, refused>>

VisitNested ==
    /\ Task("visit", {"function"})
    /\ renames' = (Locate(Here).names[1] :> hoisted[Here]) @@ renames
    /\ Continue(<<>>)
    /\ UNCHANGED <<source, snapshots, unread, usedNames, saved, hoisted, zig, discarded, refused>>

EnterFor ==
    /\ Task("visit", {"for"})
    /\ EnterScope(renames, snapshots, "name", Here, <<>>, Open)
    /\ Continue(<<Do("visit", Below(Here)[1]), Do("condition", Here),
                  Do("visit", Below(Here)[2]), Do("visit", Below(Here)[3]), Do("leave", Here)>>)
    /\ UNCHANGED <<source, usedNames, saved, hoisted, discarded, refused>>

EnterForIn ==
    /\ Task("visit", {"forin"})
    /\ EnterScope(renames, snapshots, "name", Here, Locate(Here).names, Uses(Here) \o Open)
    /\ Continue(Each("visit", Below(Here)) \o <<Do("leave", Here)>>)
    /\ UNCHANGED <<source, usedNames, saved, hoisted, discarded, refused>>

\* The statements of a block stand directly in the scope of the arm.
EnterArm ==
    /\ Task("visit", {"arm"})
    /\ EnterScope(renames, snapshots, "const", Here, Locate(Here).names, Uses(Here) \o Open)
    /\ Continue(Each("visit", IF Locate(Append(Here, 1)).kind = "block" THEN Below(Append(Here, 1)) ELSE Below(Here))
                \o <<Do("leave", Here)>>)
    /\ UNCHANGED <<source, usedNames, saved, hoisted, discarded, refused>>

EnterDefer ==
    /\ Task("visit", {"defer"})
    /\ IF Locate(Append(Here, 1)).kind = "block"
       THEN /\ Continue(Each("visit", Below(Here)))
            /\ UNCHANGED <<renames, snapshots, unread, zig>>
       ELSE /\ EnterScope(renames, snapshots, "name", Here, <<>>, Open)
            /\ Continue(Each("visit", Below(Here)) \o <<Do("leave", Here)>>)
    /\ UNCHANGED <<source, usedNames, saved, hoisted, discarded, refused>>

NamesNext ==
    \/ EnterFunction \/ RejectCapture \/ StartBody \/ EndFunction \/ LeaveScope
    \/ EnterBlock \/ EmitUses \/ Declare \/ VisitNested
    \/ EnterFor \/ EnterForIn \/ EnterArm \/ EnterDefer

NamesSpec == NamesInit /\ [][NamesNext]_nameVars

-----------------------------------------------------------------------------
(* What a name of the program means, and what Zig makes of the emitted one. *)

FileLevel == <<0>>
Declares(node, name) == node.kind \in {"var", "const", "function"} /\ node.names[1] = name

\* The declaration that A7's scopes give a name at path: <<path, name>>.
RECURSIVE Means(_, _)
Means(path, name) ==
    IF path = <<>> THEN <<IF name \in ToSet(Parameters(<<>>)) THEN <<>> ELSE FileLevel, name>>
    ELSE LET up == Front(path)
             around == Locate(up)
             before == {k \in DOMAIN around.parts :
                           /\ Declares(around.parts[k], name)
                           /\ \/ around.kind = "block" /\ (k < Last(path) \/ around.parts[k].kind = "function")
                              \/ around.kind = "for" /\ k = 1 /\ Last(path) > 1}
         IN  IF before # {} THEN <<Append(up, Max(before)), name>>
             ELSE IF \/ around.kind \in {"forin", "arm"} /\ name \in ToSet(around.names)
                     \/ around.kind = "function" /\ name \in ToSet(Tail(around.names))
             THEN <<up, name>>
             ELSE Means(up, name)

UseMeans(path, name) ==
    IF Locate(path).kind = "for" /\ Declares(Locate(path).parts[1], name) THEN <<Append(path, 1), name>>
    ELSE Means(path, name)

AtFileLevel(name) ==
    {<<p, Locate(p).names[1]>> : p \in {p \in DOMAIN hoisted : hoisted[p] = name}}
    \cup {<<FileLevel, g>> : g \in {g \in source.globals : GlobalName(g) = name}}
FileNames == GlobalNames \cup ValuesOf(hoisted)

\* Zig reads the tokens: the locals in scope, who is read and written, whether each
\* use is what A7 means, and whether a declaration shadows another.
Local == {"name", "var", "const"}
ReadToken(state, t) ==
    LET visible == UNION ToSet(state.scopes)
        of == {v[2] : v \in {v \in visible : v[1] = t.name}} \cup AtFileLevel(t.name)
    IN  CASE t.is = "function" -> [state EXCEPT !.scopes = <<{}>>]
          [] t.is = "open"     -> [state EXCEPT !.scopes = Append(@, {})]
          [] t.is = "close"    -> [state EXCEPT !.scopes = Front(@)]
          [] t.is \in Local    -> [state EXCEPT !.scopes = Append(Front(@), Last(@) \cup {<<t.name, t.of>>}),
                                                !.sound = @ /\ of = {} /\ t.name \notin FileNames]
          [] OTHER             -> [state EXCEPT !.read = @ \cup of,
                                                !.written = @ \cup IF t.is = "write" THEN of ELSE {},
                                                !.sound = @ /\ of = {UseMeans(t.of[1], t.of[2])}]

\* In the Zig emitted for an accepted function every name means the declaration that
\* A7's scopes give it, nested functions included; no declaration shadows a visible
\* one; and a local is discarded, or written _, exactly when nothing reads it, and a
\* var exactly when something writes it.
EmittedNames ==
    (todo = <<>> /\ ~refused) =>
        \E end \in {FoldLeft(ReadToken, [scopes |-> <<>>, read |-> {}, written |-> {}, sound |-> TRUE], zig)} :
            /\ end.sound
            /\ \A t \in ToSet(zig) : t.is \in Local =>
                   /\ t.of \in discarded <=> t.of \notin end.read
                   /\ t.of \in end.written <=> t.is = "var"
=============================================================================
