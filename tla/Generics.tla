------------------------------- MODULE Generics -------------------------------
(***************************************************************************)
(* Generic functions (a7/passes/type_checker.py): the inference of their    *)
(* parameters from the arguments of a call, the checks of the call, and    *)
(* the walk that checks every body again for every instance of it that a   *)
(* call, or a call in a generic body, makes.                               *)
(***************************************************************************)
EXTENDS Integers, Sequences, FiniteSets, SequencesExt

CONSTANTS
    Ranges,     \* integer type -> its least and greatest value
    Greatest,   \* float type -> its greatest finite value
    Widenings,  \* the pairs of types of which the first converts to the second
    Calls       \* [params, args, sets, result, bodies]

VARIABLES
    call,       \* the call in main, of bodies[1]
    stage,      \* "infer", "check", "walk" and "done"
    unify,      \* the stack of parameter types, argument types and arguments
    mapping,    \* parameter -> what it is bound to
    origins,    \* parameter -> the argument that bound it, 0 for a part of one
    errors,     \* [what, at]
    pending,    \* the stack of instances to check: [target, mapping, ancestors]
    checked

genericVars == <<call, stage, unify, mapping, origins, errors, pending, checked>>

\* Types.  An array's name is its length, that of a parameter "N" is its value parameter.
Type(is, name, of) == [is |-> is, name |-> name, of |-> of]
Primitive(name) == Type("primitive", name, <<>>)
Parameter(name) == Type("parameter", name, <<>>)
RefTo(t) == Type("ref", "", <<t>>)
SliceOf(t) == Type("slice", "", <<t>>)
ArrayOf(size, t) == Type("array", size, <<t>>)
Nil == Type("nil", "", <<>>)
Unknown == Type("unknown", "", <<>>)

\* An untyped constant, in halves, or no constant.  An argument has a place:
\* "variable", "constant" (a variable that may not be written) or none.
NoConstant == [halves |-> 0, floating |-> FALSE, exact |-> FALSE]
Constant(halves, floating) == [halves |-> halves, floating |-> floating, exact |-> TRUE]
DefaultType(c) == Primitive(IF c.floating THEN "f64" ELSE "i32")

RECURSIVE NamesIn(_), Substitute(_, _), HasUnknown(_), Innermost(_)

\* _collect_generic_type_names
NamesIn(t) ==
    IF t.is = "parameter" THEN {t.name} ELSE UNION {NamesIn(t.of[k]) : k \in DOMAIN t.of}

\* _substitute_generic
Substitute(t, binding) ==
    IF t.is = "parameter" THEN (IF t.name \in DOMAIN binding THEN binding[t.name] ELSE t)
    ELSE [t EXCEPT !.of = [k \in DOMAIN t.of |-> Substitute(t.of[k], binding)]]

HasUnknown(t) == t.is = "unknown" \/ \E k \in DOMAIN t.of : HasUnknown(t.of[k])

Innermost(t) == IF t.is \in {"array", "slice"} THEN Innermost(t.of[1]) ELSE t

\* nil, and arrays of it, name no type.
NamesNoType(t) == Innermost(t).is = "nil"

\* is_assignable_to
Assignable(from, to) ==
    \/ from = to \/ from.is = "unknown"
    \/ from.is = "nil" /\ to.is = "ref"
    \/ from.is = "primitive" /\ to.is = "primitive" /\ <<from.name, to.name>> \in Widenings

Integral(t) == t.is = "primitive" /\ t.name \in DOMAIN Ranges
Floating(t) == t.is = "primitive" /\ t.name \in DOMAIN Greatest
InRange(c, name) ==
    /\ c.halves % 2 = 0
    /\ 2 * Ranges[name][1] <= c.halves /\ c.halves <= 2 * Ranges[name][2]
IsFinite(c, name) == c.halves <= 2 * Greatest[name] /\ -c.halves <= 2 * Greatest[name]

\* exact_fits: a float is taken to hold any constant; that it overflows is found later.
ExactFits(c, t) == c.exact /\ (Floating(t) \/ (Integral(t) /\ InRange(c, t.name)))

\* _report_default_overflow
Overflows(c) == c.exact /\ ~c.floating /\ ~InRange(c, "i32")

Error(what, at) == [what |-> what, at |-> at]

-----------------------------------------------------------------------------
(* Inference.  The last of the stack is next: arguments of known types      *)
(* first, then the constants, each of them from the last to the first.      *)

Triple(param, arg, at) == [param |-> param, arg |-> arg, at |-> at]
ArgumentsWhere(c, Kept(_)) ==
    SelectSeq([k \in DOMAIN c.params \cap DOMAIN c.args |-> Triple(c.params[k], c.args[k].type, k)],
              LAMBDA t : Kept(c.args[t.at]))
Arguments(c) ==
    ArgumentsWhere(c, LAMBDA a : a.constant.exact) \o ArgumentsWhere(c, LAMBDA a : ~a.constant.exact)

GenericInit ==
    /\ call \in Calls
    /\ stage = "infer"
    /\ unify = Arguments(call)
    /\ mapping = <<>> /\ origins = <<>>
    /\ errors = {}
    /\ pending = <<>> /\ checked = {}

Top == Last(unify)
Name == Top.param.name
Bound == Name \in DOMAIN mapping
ConstantAt(at) == IF at = 0 THEN NoConstant ELSE call.args[at].constant
Extend(f, name, value) == [n \in DOMAIN f \cup {name} |-> IF n = name THEN value ELSE f[n]]

Pop ==
    /\ stage = "infer" /\ unify # <<>>
    /\ unify' = Front(unify)
    /\ UNCHANGED <<call, stage, pending, checked>>

Binds == unify # <<>> /\ Top.param.is = "parameter"

\* bind: nil binds nothing, but is the one error of a parameter nothing else has bound.
BindNil ==
    /\ Binds /\ NamesNoType(Top.arg) /\ Pop
    /\ mapping' = IF Bound THEN mapping ELSE Extend(mapping, Name, Unknown)
    /\ errors' = IF Bound THEN errors ELSE errors \cup {Error("nil", Top.at)}
    /\ UNCHANGED origins

BindUnknown ==
    /\ Binds /\ ~NamesNoType(Top.arg) /\ Pop
    /\ Top.arg.is = "unknown" \/ (Bound /\ mapping[Name].is = "unknown")
    /\ mapping' = IF Bound THEN mapping ELSE Extend(mapping, Name, Top.arg)
    /\ UNCHANGED <<origins, errors>>

Known == ~NamesNoType(Top.arg) /\ Top.arg.is # "unknown" /\ (Bound => mapping[Name].is # "unknown")

BindFirst ==
    /\ Binds /\ Known /\ ~Bound /\ Pop
    /\ mapping' = Extend(mapping, Name, Top.arg)
    /\ origins' = Extend(origins, Name, Top.at)
    /\ errors' = IF Overflows(ConstantAt(Top.at)) THEN errors \cup {Error("overflow", Top.at)} ELSE errors

BindAgain ==
    /\ Binds /\ Known /\ Bound /\ Pop
    /\ Top.arg = mapping[Name] \/ ExactFits(ConstantAt(Top.at), mapping[Name])
    /\ UNCHANGED <<mapping, origins, errors>>

\* What bound the parameter was a constant, and fits the new type as well.
Yields(at, type) == ExactFits(ConstantAt(at), type)

Differs == Binds /\ Known /\ Bound /\ Top.arg # mapping[Name] /\ ~ExactFits(ConstantAt(Top.at), mapping[Name])

BindInstead ==
    /\ Differs /\ Yields(origins[Name], Top.arg) /\ Pop
    /\ mapping' = Extend(mapping, Name, Top.arg)
    /\ origins' = Extend(origins, Name, Top.at)
    /\ UNCHANGED errors

Conflict ==
    /\ Differs /\ ~Yields(origins[Name], Top.arg) /\ Pop
    /\ errors' = errors \cup {Error("conflict", 0)}
    /\ UNCHANGED <<mapping, origins>>

\* What the parts of an argument say: a reference parameter takes a plain value too.
PartsOf(param, arg) ==
    IF param.is = "ref" THEN IF arg.is = "ref" THEN <<Triple(param.of[1], arg.of[1], 0)>>
                             ELSE <<Triple(param.of[1], arg, 0)>>
    ELSE IF \/ param.is = "array" /\ arg.is = "array" /\ param.name = arg.name
            \/ param.is \in {"array", "slice"} /\ arg.is = "slice"
            \/ param.is = "slice" /\ arg.is = "array"
    THEN <<Triple(param.of[1], arg.of[1], 0)>>
    ELSE <<>>

Unify ==
    /\ stage = "infer" /\ unify # <<>> /\ Top.param.is # "parameter"
    /\ unify' = Front(unify) \o PartsOf(Top.param, Top.arg)
    /\ UNCHANGED <<call, stage, mapping, origins, errors, pending, checked>>

-----------------------------------------------------------------------------
(* The checks of the call.                                                  *)

RECURSIVE ValueNames(_)
ValueNames(t) ==
    (IF t.is = "array" /\ t.name = "N" THEN {"N"} ELSE {}) \cup UNION {ValueNames(t.of[k]) : k \in DOMAIN t.of}

Signature == call.params \o <<call.result>>
Declared == UNION {NamesIn(Signature[k]) : k \in DOMAIN Signature}

\* _check_generic_constraints
Constraints ==
    {Error("unbound", 0) : n \in (Declared \cup UNION {ValueNames(Signature[k]) : k \in DOMAIN Signature})
                                 \ DOMAIN mapping}
    \cup {Error("constraint", 0) : n \in
             {n \in Declared \cap DOMAIN mapping :
                 ~HasUnknown(mapping[n]) /\ n \in DOMAIN call.sets /\ mapping[n] \notin call.sets[n]}}

\* _fit_exact, _is_initializer_assignable_to
Fits(arg, to) ==
    IF arg.type.is = "nil" THEN to.is = "ref"
    ELSE IF HasUnknown(to) \/ (arg.constant.exact /\ Floating(to)) THEN TRUE
    ELSE IF arg.constant.exact /\ Integral(to) THEN InRange(arg.constant, to.name)
    ELSE HasUnknown(arg.type) \/ Assignable(arg.type, to)

\* Passed by address: the type itself, and one that may be written.
ByAddress(arg, to) == to.is = "ref" /\ arg.type.is \notin {"ref", "nil"} /\ arg.place # "none"

Takes(arg, to) ==
    IF ByAddress(arg, to) THEN (HasUnknown(to) \/ arg.type = to.of[1]) /\ arg.place = "variable"
    ELSE Fits(arg, to)

Expected(k) == Substitute(call.params[k], mapping)

\* An argument that a failed inference should have typed is not checked.
Judged(failed) ==
    {k \in DOMAIN call.args \cap DOMAIN call.params :
        /\ Expected(k).is \notin {"unknown", "parameter"} /\ call.args[k].type.is # "unknown"
        /\ failed => NamesIn(call.params[k]) = {}}

ArgumentErrors(failed) ==
    {Error("argument", k) : k \in {k \in Judged(failed) : ~Takes(call.args[k], Expected(k))}}
    \cup {Error("count", 0) : n \in {Len(call.args)} \ {Len(call.params)}}

\* visit_program: a float that its constant overflows is found when the pass ends.
Infinite(failed) ==
    {Error("infinite", k) : k \in
        {k \in Judged(failed) :
            /\ call.args[k].constant.exact /\ Floating(Expected(k))
            /\ ~IsFinite(call.args[k].constant, Expected(k).name)}}

Instance(target, binding, ancestors) ==
    [target |-> target, mapping |-> binding, ancestors |-> ancestors]

\* The calls in the bodies come first; main's is recorded if it is right.
CallsInBodies ==
    FlattenSeq([b \in DOMAIN call.bodies |->
                  [k \in DOMAIN call.bodies[b].calls |->
                     Instance(call.bodies[b].calls[k].target, call.bodies[b].calls[k].mapping, {})]])

CheckCall ==
    /\ stage = "infer" /\ unify = <<>>
    /\ LET found == errors \cup Constraints
           all == found \cup ArgumentErrors(found # {})
       IN  /\ errors' = all \cup Infinite(found # {})
           /\ pending' = CallsInBodies
                         \o (IF all = {} /\ mapping # <<>> THEN <<Instance(1, mapping, {})>> ELSE <<>>)
    /\ stage' = "walk"
    /\ UNCHANGED <<call, unify, mapping, origins, checked>>

-----------------------------------------------------------------------------
(* The walk over the instances.                                             *)

\* A value is a leaf, an array's elements or the arms of a branch.
RECURSIVE Leaves(_), ValueFits(_, _, _)
Leaves(v) == IF v.is = "branch" THEN UNION {Leaves(v.parts[k]) : k \in DOMAIN v.parts} ELSE {v}

\* _instantiated_value_fits
ValueFits(v, to, binding) ==
    IF v.is = "array" /\ to.is = "array"
    THEN v.type.name = to.name /\ \A k \in DOMAIN v.parts : ValueFits(v.parts[k], to.of[1], binding)
    ELSE IF v.is = "branch" /\ (to.is = "array" \/ (to.is = "primitive" /\ \A l \in Leaves(v) : l.constant.exact))
    THEN \A l \in Leaves(v) : ValueFits(l, to, binding)
    ELSE IF v.constant.exact /\ Integral(to) THEN InRange(v.constant, to.name)
    ELSE IF v.constant.exact /\ Floating(to) THEN IsFinite(v.constant, to.name)
    ELSE Assignable(Substitute(v.type, binding), to)

NextInstance == Last(pending)
Settled(binding) == \A n \in DOMAIN binding : NamesIn(binding[n]) = {} /\ ~HasUnknown(binding[n])

\* Mutant: a body is checked once.
ByTarget(instance) == <<instance.target>>

InstanceKey(instance) == <<instance.target, instance.mapping>>

Skipped(instance) ==
    \/ instance.target \in instance.ancestors
    \/ ~Settled(instance.mapping)
    \/ InstanceKey(instance) \in checked

SkipInstance ==
    /\ stage = "walk" /\ pending # <<>> /\ Skipped(NextInstance)
    /\ pending' = Front(pending)
    /\ UNCHANGED <<call, stage, unify, mapping, origins, errors, checked>>

BodyErrors(target, binding) ==
    {Error("body", target) : v \in
        {v \in ToSet(call.bodies[target].values) :
            /\ NamesIn(Substitute(v.declared, binding)) \cup NamesIn(Substitute(v.value.type, binding)) = {}
            /\ ~HasUnknown(Substitute(v.value.type, binding))
            /\ ~ValueFits(v.value, Substitute(v.declared, binding), binding)}}

Composed(inner, outer) == [n \in DOMAIN inner |-> Substitute(inner[n], outer)]

CheckInstance ==
    /\ stage = "walk" /\ pending # <<>> /\ ~Skipped(NextInstance)
    /\ checked' = checked \cup {InstanceKey(NextInstance)}
    /\ errors' = errors \cup BodyErrors(NextInstance.target, NextInstance.mapping)
    /\ LET made == call.bodies[NextInstance.target].calls
           lineage == NextInstance.ancestors \cup {NextInstance.target}
       IN  pending' = Front(pending) \o
                      [k \in DOMAIN made |-> Instance(made[k].target, Composed(made[k].mapping, NextInstance.mapping), lineage)]
    /\ UNCHANGED <<call, stage, unify, mapping, origins>>

FinishWalk ==
    /\ stage = "walk" /\ pending = <<>>
    /\ stage' = "done"
    /\ UNCHANGED <<call, unify, mapping, origins, errors, pending, checked>>

GenericNext ==
    \/ BindNil \/ BindUnknown \/ BindFirst \/ BindAgain \/ BindInstead \/ Conflict
    \/ Unify \/ CheckCall \/ SkipInstance \/ CheckInstance \/ FinishWalk

GenericSpec == GenericInit /\ [][GenericNext]_genericVars

-----------------------------------------------------------------------------
(* What generic calls promise.                                              *)

\* Every type that an argument gives a parameter, in the order in which they are met.
RECURSIVE Given(_)
Given(triple) ==
    IF triple.param.is = "parameter" THEN <<triple>>
    ELSE FlattenSeq([k \in DOMAIN PartsOf(triple.param, triple.arg) |-> Given(PartsOf(triple.param, triple.arg)[k])])
AllGiven == FlattenSeq([k \in 1..Len(Arguments(call)) |-> Given(Reverse(Arguments(call))[k])])
GivenTo(n) == SelectSeq(AllGiven, LAMBDA t : t.param.name = n)

\* The instances that a call makes, with those its callees make in turn.
RECURSIVE Makes(_, _)
Makes(target, binding) ==
    {<<target, binding>>}
    \cup UNION {Makes(c.target, Composed(c.mapping, binding)) : c \in ToSet(call.bodies[target].calls)}
RECURSIVE Below(_)
Below(targets) ==
    LET more == targets \cup {c.target : c \in UNION {ToSet(call.bodies[b].calls) : b \in targets}}
    IN  IF more = targets THEN targets ELSE Below(more)
Recursive == \E b \in DOMAIN call.bodies : b \in Below({c.target : c \in ToSet(call.bodies[b].calls)})
Instances(binding) ==
    Makes(1, binding)
    \cup UNION {Makes(c.target, c.mapping) :
                   c \in {c \in UNION {ToSet(b.calls) : b \in ToSet(call.bodies)} : Settled(c.mapping)}}

\* The argument is what the parameter asks for.
Holds(arg, to) ==
    IF arg.constant.exact /\ to.is = "primitive"
    THEN IF Integral(to) THEN InRange(arg.constant, to.name) ELSE IsFinite(arg.constant, to.name)
    ELSE Takes(arg, to)

Suits(binding) ==
    /\ Declared \subseteq DOMAIN binding
    /\ Len(call.args) = Len(call.params)
    /\ \A k \in DOMAIN call.params : Holds(call.args[k], Substitute(call.params[k], binding))
    /\ \A t \in ToSet(AllGiven) :
           \/ NamesNoType(t.arg) \/ ConstantAt(t.at).exact
           \/ t.arg = binding[t.param.name]

Allowed(binding) ==
    /\ \A n \in Declared \cap DOMAIN call.sets : binding[n] \in call.sets[n]
    /\ \A i \in Instances(binding) : BodyErrors(i[1], i[2]) = {}

\* nil has no type where nothing was bound before it, and a constant beyond i32 is
\* taken to be one where it comes first or another bound i32.
TooEarly(n) ==
    /\ GivenTo(n) # <<>>
    /\ \/ NamesNoType(Head(GivenTo(n)).arg)
       \/ \E t \in ToSet(GivenTo(n)) : Overflows(ConstantAt(t.at))

\* A generic call whose arguments give each parameter a type that is the type of all
\* typed ones and suits the constants gets such a binding, and is accepted if and
\* only if the binding lies in the sets the parameters are declared with and suits
\* every value in the bodies of all instances made for it, however many generic
\* calls deep; all but the calls that nil or a constant beyond i32 settles too early.
InstantiationsFit ==
    (stage = "done" /\ ~Recursive /\ \A k \in DOMAIN call.args : ~HasUnknown(call.args[k].type)) =>
        IF errors = {} THEN Suits(mapping) /\ Allowed(mapping)
        ELSE \/ \E n \in Declared : TooEarly(n)
             \/ Suits(mapping) /\ ~Allowed(mapping)
             \/ \A binding \in [Declared -> {t.arg : t \in ToSet(AllGiven)}] :
                    (\A n \in Declared : binding[n] \in {t.arg : t \in ToSet(GivenTo(n))}) => ~Suits(binding)
=============================================================================
