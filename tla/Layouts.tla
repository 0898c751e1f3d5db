-------------------------------- MODULE Layouts --------------------------------
(***************************************************************************)
(* Memory layout of structs: the check that no type stores itself inline   *)
(* (a7/passes/type_checker.py, _report_by_value_type_cycles) and the       *)
(* layouts that "check --layout" reports (a7/layout.py).                   *)
(*                                                                         *)
(* A type is a record with a kind: "scalar" (size and alignment known),    *)
(* "pointer" (ref, pointer, function), "slice", "enum", "array",           *)
(* "record" (an anonymous struct), "named" (a struct or a union of the     *)
(* file), "instance" (of a generic one) and "param" (a generic parameter). *)
(***************************************************************************)
EXTENDS Integers, Sequences, FiniteSets, SequencesExt, TLC

CONSTANTS
    Files,          \* the type declarations to consider: sequences of them
    MaxExpanded     \* generic instances the check expands before it gives up

VARIABLES
    decls,
    phase,      \* "cycles", "layout", "done"
    next,       \* the declaration the cycle check is at
    work,       \* its stack, the top first: types, and the ends of types
    path,       \* the types being expanded, outermost first
    finished,   \* the keys of the types expanded
    expanded,   \* how many since the declaration started
    reported,   \* the cycles reported, as sets of types; {} for an expansion given up
    pending,    \* struct -> the structs it waits for
    ready,      \* the structs that wait for none, the last is next
    order,      \* the structs laid out
    layouts     \* struct -> its layout

cycleVars == <<next, work, path, finished, expanded, reported>>
layoutVars == <<pending, ready, order, layouts>>
vars == <<decls, phase, cycleVars, layoutVars>>

\* A field type, and a declaration of the file.
Type(kind, name, size, align, of) ==
    [kind |-> kind, name |-> name, size |-> size, align |-> align, of |-> of]
Declared(name, kind, generic, fields) ==
    [name |-> name, kind |-> kind, generic |-> generic, fields |-> fields]

Names == {decls[i].name : i \in DOMAIN decls}
Decl(name) == decls[CHOOSE i \in DOMAIN decls : decls[i].name = name]
IsUnion(type) == type.kind = "named" /\ Decl(type.name).kind = "union"
IsStruct(type) == type.kind = "named" /\ Decl(type.name).kind = "struct"
Fields(type) == ToSet(Decl(type.name).fields)

-----------------------------------------------------------------------------
(* TypeCheckingPass._report_by_value_type_cycles                           *)

\* The argument of an instance takes the place of the parameter, except in an
\* anonymous struct, which _substitute_generic leaves as it is.
RECURSIVE Substitute(_, _)
Substitute(type, argument) ==
    IF type.kind = "param" THEN argument
    ELSE IF type.kind \in {"array", "instance"}
    THEN [type EXCEPT !.of = [i \in DOMAIN @ |-> Substitute(@[i], argument)]]
    ELSE type

\* _by_value_members: the record types stored inline, in the order of the stack.
RECURSIVE Inline(_)
Inline(type) ==
    IF type.kind \in {"array", "record"}
    THEN FlattenSeq([i \in DOMAIN type.of |-> Inline(type.of[Len(type.of) + 1 - i])])
    ELSE IF type.kind \in {"named", "instance"} THEN <<type>> ELSE <<>>

\* Mutant: the fields of an instance are those of the generic type.
AsDeclared(type) ==
    LET fields == Decl(type.name).fields
    IN  FlattenSeq([i \in DOMAIN fields |-> Inline(fields[i])])

Expansion(type) ==
    LET fields == Decl(type.name).fields
    IN  FlattenSeq([i \in DOMAIN fields |->
            Inline(IF type.kind = "instance" THEN Substitute(fields[i], type.of[1]) ELSE fields[i])])

Checking == phase = "cycles"
Current == Head(work)

StartDeclaration ==
    /\ Checking /\ work = <<>> /\ next <= Len(decls)
    /\ work' = <<[end |-> FALSE, type |-> Type("named", decls[next].name, 0, 0, <<>>)]>>
    /\ path' = <<>>
    /\ expanded' = 0
    /\ next' = next + 1
    /\ UNCHANGED <<decls, phase, finished, reported, layoutVars>>

LeaveType ==
    /\ Checking /\ work # <<>> /\ Current.end
    /\ path' = Front(path)
    /\ finished' = finished \cup {Current.type}
    /\ work' = Tail(work)
    /\ UNCHANGED <<decls, phase, next, expanded, reported, layoutVars>>

Meets(keys) == Checking /\ work # <<>> /\ ~Current.end /\ Current.type \in keys

\* The current type is being expanded already: the path from there is a cycle.
CloseCycle ==
    /\ Meets(ToSet(path))
    /\ LET from == CHOOSE i \in DOMAIN path : path[i] = Current.type
       IN  reported' = reported \cup {ToSet(SubSeq(path, from, Len(path)))}
    /\ work' = Tail(work)
    /\ UNCHANGED <<decls, phase, next, path, finished, expanded, layoutVars>>

SkipFinished ==
    /\ Meets(finished \ ToSet(path))
    /\ work' = Tail(work)
    /\ UNCHANGED <<decls, phase, next, path, finished, expanded, reported, layoutVars>>

\* Each member is met before the ones pushed earlier.
ExpandType ==
    /\ Checking /\ work # <<>> /\ ~Current.end /\ Current.type \notin ToSet(path) \cup finished
    /\ expanded < MaxExpanded
    /\ expanded' = expanded + 1
    /\ path' = Append(path, Current.type)
    /\ LET members == Reverse(Expansion(Current.type))
       IN  work' = [i \in DOMAIN members |-> [end |-> FALSE, type |-> members[i]]]
                   \o <<[end |-> TRUE, type |-> Current.type]>> \o Tail(work)
    /\ UNCHANGED <<decls, phase, next, finished, reported, layoutVars>>

GiveUp ==
    /\ Checking /\ work # <<>> /\ ~Current.end /\ Current.type \notin ToSet(path) \cup finished
    /\ expanded = MaxExpanded
    /\ reported' = reported \cup {{}}
    /\ work' = <<>>
    /\ UNCHANGED <<decls, phase, next, path, finished, expanded, layoutVars>>

-----------------------------------------------------------------------------
(* layout.py: the size and alignment of a type.  NoLayout is None.         *)

NoLayout == [size |-> -1, align |-> 1]
Layout(size, align) == [size |-> size, align |-> align]
Sized(l) == l.size >= 0

AlignUp(offset, align) == ((offset + align - 1) \div align) * align
Largest(S, least) == CHOOSE x \in S \cup {least} : \A y \in S \cup {least} : y <= x

\* Zig's tag for count names: none for one, else the least power of two bytes.
TagLayout(count) ==
    IF count <= 1 THEN Layout(0, 1)
    ELSE LET bytes == CHOOSE b \in {1, 2, 4, 8} :
                          /\ count <= 2^(8 * b)
                          /\ b = 1 \/ count > 2^(8 * (b \div 2))
         IN  Layout(bytes, bytes)

\* An enum of align names; size 1 says that one has an explicit value.
EnumLayout(type) == IF type.size = 1 THEN Layout(4, 4) ELSE TagLayout(type.align)

UnionLayout(members) ==
    LET payload == Largest({members[i].size : i \in DOMAIN members}, 0)
        tag == TagLayout(Len(members))
        align == Largest({members[i].align : i \in DOMAIN members}, tag.align)
    IN  IF \A i \in DOMAIN members : Sized(members[i])
        THEN Layout(AlignUp(AlignUp(payload, tag.align) + tag.size, align), align)
        ELSE NoLayout

\* Layouts of types; active are the unions being laid out around it.
RECURSIVE BaseLayout(_, _, _)
BaseLayout(type, sizes, active) ==
    CASE type.kind = "scalar" -> Layout(type.size, type.align)
      [] type.kind = "pointer" -> Layout(8, 8)
      [] type.kind = "slice" -> Layout(16, 8)
      [] type.kind = "enum" -> EnumLayout(type)
      [] type.kind = "array" ->
             LET inner == BaseLayout(type.of[1], sizes, active)
             IN  IF Sized(inner) THEN Layout(inner.size * type.size, inner.align) ELSE NoLayout
      [] IsUnion(type) ->
             IF type.name \in active \/ Decl(type.name).generic THEN NoLayout
             ELSE LET fields == Decl(type.name).fields
                  IN  UnionLayout([i \in DOMAIN fields |-> BaseLayout(fields[i], sizes, active \cup {type.name})])
      [] IsStruct(type) ->
             IF type.name \in DOMAIN sizes /\ ~Decl(type.name).generic THEN sizes[type.name] ELSE NoLayout
      [] OTHER -> NoLayout

\* _by_value_members of layout.py: through arrays and unions, each once.
RECURSIVE Embedded(_, _)
Embedded(types, seen) ==
    IF types \subseteq seen THEN {t \in seen : t.kind = "named"}
    ELSE Embedded(UNION {IF t.kind = "array" THEN {t.of[1]} ELSE IF IsUnion(t) THEN Fields(t) ELSE {} :
                             t \in types \ seen}, seen \cup types)

\* Mutant: what a union holds is not waited for.
FieldsOnly(name) ==
    {t.name : t \in {u \in Fields(Type("named", name, 0, 0, <<>>)) : IsStruct(u) /\ ~Decl(u.name).generic}}

\* _field_dependencies
Dependencies(name) ==
    {t.name : t \in {u \in Embedded(Fields(Type("named", name, 0, 0, <<>>)), {}) :
                         IsStruct(u) /\ ~Decl(u.name).generic}}

Structs == {n \in Names : Decl(n).kind = "struct"}

\* _layout_struct_instance: the largest alignment first, ties as declared; what
\* has no size comes last and has no offset.
LayoutStruct(name, sizes) ==
    LET fields == Decl(name).fields
        layout == [i \in DOMAIN fields |-> BaseLayout(fields[i], sizes, {})]
        Key(i) == IF Sized(layout[i]) THEN layout[i].align ELSE 0
        placed == SetToSortSeq(DOMAIN fields, LAMBDA i, j : Key(i) > Key(j) \/ (Key(i) = Key(j) /\ i < j))
        sized == SelectSeq(placed, LAMBDA i : Sized(layout[i]))
        offset[k \in 1..(Len(sized) + 1)] ==
            LET used == IF k = 1 THEN 0 ELSE offset[k - 1] + layout[sized[k - 1]].size
            IN  IF k > Len(sized) THEN used ELSE AlignUp(used, layout[sized[k]].align)
        align == Largest({layout[i].align : i \in DOMAIN fields}, 1)
    IN  [fields |-> [k \in DOMAIN sized |->
                        [of |-> sized[k], offset |-> offset[k], size |-> layout[sized[k]].size,
                         align |-> layout[sized[k]].align]],
         align |-> align,
         size |-> IF Len(sized) = Len(fields) THEN AlignUp(offset[Len(sized) + 1], align) ELSE -1]

-----------------------------------------------------------------------------
(* compute_struct_layouts: Kahn's algorithm                                *)

StartLayout ==
    /\ Checking /\ work = <<>> /\ next > Len(decls) /\ reported = {}
    /\ phase' = "layout"
    /\ pending' = [n \in Structs |-> Dependencies(n)]
    /\ ready' = SelectSeq([i \in DOMAIN decls |-> decls[i].name],
                          LAMBDA n : n \in Structs /\ Dependencies(n) = {})
    /\ UNCHANGED <<decls, cycleVars, order, layouts>>

\* The structs that waited for name only become ready in the order of a set.
PlaceStruct ==
    /\ phase = "layout" /\ ready # <<>>
    /\ LET name == Last(ready)
           freed == {n \in Structs : name \in pending[n] /\ pending[n] = {name}} \ ToSet(Append(order, name))
       IN  /\ layouts' = (name :> LayoutStruct(name, layouts)) @@ layouts
           /\ order' = Append(order, name)
           /\ pending' = [n \in Structs |-> pending[n] \ {name}]
           /\ \E s \in SetToSeqs(freed) : ready' = Front(ready) \o s
    /\ UNCHANGED <<decls, phase, cycleVars>>

FinishLayout ==
    /\ phase = "layout" /\ ready = <<>>
    /\ phase' = "done"
    /\ UNCHANGED <<decls, cycleVars, layoutVars>>

Init ==
    /\ decls \in Files
    /\ phase = "cycles"
    /\ next = 1
    /\ expanded = 0
    /\ finished = {} /\ reported = {}
    /\ work = <<>> /\ path = <<>>
    /\ pending = <<>> /\ ready = <<>> /\ order = <<>> /\ layouts = <<>>

Next ==
    \/ StartDeclaration \/ LeaveType \/ CloseCycle \/ SkipFinished \/ ExpandType \/ GiveUp
    \/ StartLayout \/ PlaceStruct \/ FinishLayout

Spec == Init /\ [][Next]_vars

-----------------------------------------------------------------------------
(* What a layout is                                                        *)

\* A type ends when its expansion does.  A parameter stands for the argument of the
\* generic struct around it, in an anonymous struct too, and the argument is read
\* where the instance stands.  depth bounds the named types on the way.
RECURSIVE Ends(_, _, _)
Ends(type, argument, depth) ==
    CASE type.kind = "param" -> argument = <<>> \/ Ends(argument[1].type, argument[1].argument, depth)
      [] type.kind = "array" -> Ends(type.of[1], argument, depth)
      [] type.kind = "record" -> \A i \in DOMAIN type.of : Ends(type.of[i], argument, depth)
      [] type.kind = "named" -> depth > 0 /\ \A f \in Fields(type) : Ends(f, <<>>, depth - 1)
      [] type.kind = "instance" ->
             depth > 0 /\ \A f \in Fields(type) :
                 Ends(f, <<[type |-> type.of[1], argument |-> argument]>>, depth - 1)
      [] OTHER -> TRUE

\* "Reject a struct or union that stores itself inline: it has no finite size"
\* (type_checker.py:512): the cycle check accepts a file exactly when the expansion
\* of each of its types ends: not when a type holds itself inline, through arrays,
\* anonymous structs, unions or generic instances, or when its instances grow for
\* ever.  It does not hold of a generic struct with its parameter in an anonymous
\* struct, where Substitute loses the argument: Files has none.
CyclesReported ==
    Checking /\ work = <<>> /\ next > Len(decls) =>
        (reported = {} <=> \A n \in Names : Ends(Type("named", n, 0, 0, <<>>), <<>>, 2 * MaxExpanded))

\* What the report can measure: no parameter, instance or anonymous struct inline.
RECURSIVE Measurable(_)
Measurable(type) ==
    CASE type.kind = "array" -> Measurable(type.of[1])
      [] type.kind = "named" -> ~Decl(type.name).generic /\ \A f \in Fields(type) : Measurable(f)
      [] type.kind \in {"param", "instance", "record"} -> FALSE
      [] OTHER -> TRUE

\* A struct gets a size when all its fields can be measured, a generic one too,
\* whatever the order in which the structs become ready; its fields start at multiples of their alignment, follow
\* each other without a gap, and only the end is padded; and a field that is a
\* struct, or an array of them, is as large as that struct was found to be.
LayoutsSound ==
    phase = "done" => \A n \in Structs :
        /\ (n \in DOMAIN layouts /\ layouts[n].size >= 0) <=> \A f \in ToSet(Decl(n).fields) : Measurable(f)
        /\ (n \in DOMAIN layouts /\ layouts[n].size >= 0) =>
             LET l == layouts[n]
                 Ending(f) == f.offset + f.size
                 used == FoldSeq(LAMBDA f, sum : f.size + sum, 0, l.fields)
             IN  /\ l.size \in used..(used + l.align - 1) /\ l.size % l.align = 0
                 /\ \A f \in ToSet(l.fields) :
                        /\ f.offset % f.align = 0 /\ l.align % f.align = 0
                        /\ f.offset = 0 \/ \E g \in ToSet(l.fields) : Ending(g) = f.offset
                        /\ LET type == Decl(n).fields[f.of]
                               inner == IF type.kind = "array" THEN type.of[1] ELSE type
                               times == IF type.kind = "array" THEN type.size ELSE 1
                           IN  IsStruct(inner) => f.size = times * layouts[inner.name].size
=============================================================================
