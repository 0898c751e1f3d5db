------------------------------ MODULE MCChecker ------------------------------
(***************************************************************************)
(* The machines of the type checker and of the passes around it side by    *)
(* side: scopes and names, the folding of constants, the layout of types,  *)
(* casts, the patterns of a match and generic calls.  A behaviour runs one *)
(* of them on an input of its own and leaves the others at rest.           *)
(***************************************************************************)
EXTENDS MCScopes, MCCasts, MCMatches

CONSTANTS
    MaxComponentBits, MaxTransientBits, Formats, Initializations, Bindings, VarTypes, Ranges,
    Files, MaxExpanded,
    GenericRanges, Greatest, Widenings, Calls

VARIABLES
    expr, target, foldPhase, frames, result, notes,
    decls, layoutPhase, next, layoutWork, path, finished, expanded, reported,
    pending, ready, order, layouts,
    call, stage, unify, mapping, origins, genericErrors, instances, checked

foldVars == <<expr, target, foldPhase, frames, result, notes>>
layoutVars == <<decls, layoutPhase, next, layoutWork, path, finished, expanded, reported,
                pending, ready, order, layouts>>
genericVars == <<call, stage, unify, mapping, origins, genericErrors, instances, checked>>
allVars == <<vars, foldVars, layoutVars, castVars, matchVars, genericVars>>

Fold == INSTANCE ConstantFolding WITH phase <- foldPhase
Layout == INSTANCE Layouts WITH phase <- layoutPhase, work <- layoutWork
Calling == INSTANCE Generics WITH Ranges <- GenericRanges, errors <- genericErrors, pending <- instances

ASSUME ParametersOK == CastParameters /\ Settled /\ MatchParameters

\* Only what each machine is given is taken from these.
FoldInputs ==
    INSTANCE MCFold WITH Initializations <- {}, Bindings <- <<>>, VarTypes <- <<>>,
                         Ranges <- <<>>, Formats <- <<>>, phase <- foldPhase
LayoutInputs == INSTANCE MCLayouts WITH Files <- {}, phase <- layoutPhase, work <- layoutWork
GenericInputs ==
    INSTANCE MCGenerics WITH Ranges <- <<>>, Greatest <- <<>>, Widenings <- {}, Calls <- {},
                             errors <- genericErrors, pending <- instances

MCFormats == FoldInputs!MCFormats
MCInitializations == FoldInputs!MCInitializations
MCBindings == FoldInputs!MCBindings
MCVarTypes == FoldInputs!MCVarTypes
MCRanges == FoldInputs!MCRanges
MCFiles == LayoutInputs!MCFiles
MCGenericRanges == GenericInputs!MCRanges
MCGreatest == GenericInputs!MCGreatest
MCWidenings == GenericInputs!MCWidenings
MCCalls == GenericInputs!MCCalls

-----------------------------------------------------------------------------
\* A machine at rest has finished: an empty file, a declaration without a value, a
\* file without types, a refused cast, a match that is else alone and no generic call.
ScopesAtRest ==
    /\ program = File(<<>>)
    /\ pass = "done"
    /\ scopes = <<[name |-> <<"file", "">>, parent |-> 0, symbols |-> <<>>, of |-> <<>>]>>
    /\ scopeStack = <<1>>
    /\ work = <<>> /\ nested = <<>>
    /\ rejected = {} /\ captures = {} /\ errors = {}
    /\ ordered = <<>> /\ active = <<>>
    /\ reuse = <<>> /\ entered = <<>> /\ resolved = <<>> /\ typed = <<>>

FoldAtRest ==
    /\ expr = <<>> /\ target = "const"
    /\ foldPhase = "done"
    /\ frames = <<>> /\ result = "none"
    /\ notes = Fold!NoNotes

LayoutAtRest ==
    /\ decls = <<>>
    /\ layoutPhase = "done"
    /\ next = 1 /\ expanded = 0
    /\ finished = {} /\ reported = {}
    /\ layoutWork = <<>> /\ path = <<>>
    /\ pending = <<>> /\ ready = <<>> /\ order = <<>> /\ layouts = <<>>

CastAtRest ==
    /\ cast = [source |-> Reference, target |-> Reference, low |-> 1, high |-> 0, literal |-> FALSE]
    /\ decision = "FORBIDDEN"
    /\ proof = "refused"
    /\ emitted = ""

MatchAtRest ==
    /\ match = [on |-> "int", cases |-> <<>>, orelse |-> TRUE]
    /\ at = <<1, 1>>
    /\ seen = {} /\ ranges = {} /\ covered = {} /\ reports = {}
    /\ wildcard = FALSE /\ judged = TRUE
    /\ catchAll = TRUE

GenericAtRest ==
    /\ call = [params |-> <<>>, args |-> <<>>, sets |-> <<>>, result |-> Calling!Nil,
               bodies |-> GenericInputs!NoBodies]
    /\ stage = "done"
    /\ unify = <<>> /\ mapping = <<>> /\ origins = <<>>
    /\ genericErrors = {} /\ instances = <<>> /\ checked = {}

MCInit ==
    \/ Init /\ FoldAtRest /\ LayoutAtRest /\ CastAtRest /\ MatchAtRest /\ GenericAtRest
    \/ Fold!Init /\ ScopesAtRest /\ LayoutAtRest /\ CastAtRest /\ MatchAtRest /\ GenericAtRest
    \/ Layout!Init /\ ScopesAtRest /\ FoldAtRest /\ CastAtRest /\ MatchAtRest /\ GenericAtRest
    \/ CastInit /\ ScopesAtRest /\ FoldAtRest /\ LayoutAtRest /\ MatchAtRest /\ GenericAtRest
    \/ MatchInit /\ ScopesAtRest /\ FoldAtRest /\ LayoutAtRest /\ CastAtRest /\ GenericAtRest
    \/ Calling!GenericInit /\ ScopesAtRest /\ FoldAtRest /\ LayoutAtRest /\ CastAtRest /\ MatchAtRest

ScopesRest == UNCHANGED <<foldVars, layoutVars, castVars, matchVars, genericVars>>
FoldRest == UNCHANGED <<vars, layoutVars, castVars, matchVars, genericVars>>
LayoutRest == UNCHANGED <<vars, foldVars, castVars, matchVars, genericVars>>
CastRest == UNCHANGED <<vars, foldVars, layoutVars, matchVars, genericVars>>
MatchRest == UNCHANGED <<vars, foldVars, layoutVars, castVars, genericVars>>
GenericRest == UNCHANGED <<vars, foldVars, layoutVars, castVars, matchVars>>

MCNext ==
    \/ (LeaveScope /\ ScopesRest) \/ (ResumeFunction /\ ScopesRest)
    \/ (Name /\ ScopesRest) \/ (Order /\ ScopesRest) \/ (Check /\ ScopesRest)
    \/ (Fold!Bind /\ FoldRest) \/ (Fold!StartVisit /\ FoldRest) \/ (Fold!SkipFailed /\ FoldRest)
    \/ (Fold!FoldComparison /\ FoldRest) \/ (Fold!ExtendConstant /\ FoldRest)
    \/ (Fold!RejectConstant /\ FoldRest) \/ (Fold!VisitVariable /\ FoldRest)
    \/ (Fold!VisitOperator /\ FoldRest) \/ (Fold!VisitComparison /\ FoldRest)
    \/ (Fold!LeftDone /\ FoldRest) \/ (Fold!OperandsDone /\ FoldRest)
    \/ (Fold!FinishChain /\ FoldRest) \/ (Fold!Settle /\ FoldRest) \/ (Fold!Sweep /\ FoldRest)
    \/ (Layout!StartDeclaration /\ LayoutRest) \/ (Layout!LeaveType /\ LayoutRest)
    \/ (Layout!CloseCycle /\ LayoutRest) \/ (Layout!SkipFinished /\ LayoutRest)
    \/ (Layout!ExpandType /\ LayoutRest) \/ (Layout!GiveUp /\ LayoutRest)
    \/ (Layout!StartLayout /\ LayoutRest) \/ (Layout!PlaceStruct /\ LayoutRest)
    \/ (Layout!FinishLayout /\ LayoutRest)
    \/ (Classify /\ CastRest) \/ (Prove /\ CastRest) \/ (Emit /\ CastRest)
    \/ (ReportPattern /\ MatchRest) \/ (KeepPattern /\ MatchRest)
    \/ (Judge /\ MatchRest)
    \/ (Calling!BindNil /\ GenericRest) \/ (Calling!BindUnknown /\ GenericRest) \/ (Calling!BindFirst /\ GenericRest)
    \/ (Calling!BindAgain /\ GenericRest) \/ (Calling!BindInstead /\ GenericRest) \/ (Calling!Conflict /\ GenericRest)
    \/ (Calling!Unify /\ GenericRest) \/ (Calling!CheckCall /\ GenericRest) \/ (Calling!SkipInstance /\ GenericRest)
    \/ (Calling!CheckInstance /\ GenericRest) \/ (Calling!FinishWalk /\ GenericRest)

MCSpec == MCInit /\ [][MCNext]_allVars

-----------------------------------------------------------------------------
\* The chain walk folds as one evaluation of each whole constant would.
FoldsAsAWhole == Fold!FoldsAsAWhole

\* Folding obeys the laws of the operators, and a constant gets a type that holds
\* it exactly, or the nearest float.
ConstantsFit == Fold!ConstantsFit

\* A type that stores itself inline is reported, and no other is.
CyclesReported == Layout!CyclesReported

\* Structs get offsets and sizes that fit together, in whatever order they are met.
LayoutsSound == Layout!LayoutsSound

\* A generic call gets the types that suit its arguments, and every body made for it is right.
InstantiationsFit == Calling!InstantiationsFit
=============================================================================
