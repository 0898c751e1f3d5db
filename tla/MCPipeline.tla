----------------------------- MODULE MCPipeline -----------------------------
(***************************************************************************)
(* Three stages of the compiler side by side: the tokenizer and the        *)
(* parser, the safety proof with the executions it vouches for, and the    *)
(* names of the emitted Zig.  A behaviour runs one of them on an input of  *)
(* its own and leaves the others at rest.                                  *)
(***************************************************************************)
EXTENDS MCFrontEnd

CONSTANTS
    Labels, Patterns, NoLabel, Wild, NoCell, Covered, Tagged, Values, Bodies,
    Bounds, Globals, Slices, Refs, Cells, ArrayLength,
    Families,
    Emittable

VARIABLES
    running,            \* which of them the behaviour runs
    body, errors, frames, jump, outcome, proof, store, fault,
    file, todo, renames, snapshots, unread, usedNames, saved, hoisted, zig, discarded, refused

Safety == INSTANCE SafetyProof

\* Only the functions and the bounds are taken from here.
SafetyBounds ==
    INSTANCE MCSafetyProof WITH Bodies <- {}, Values <- <<>>, Bounds <- <<>>, Families <- {}
SafetyInputs == INSTANCE MCSafetyProof WITH Bodies <- {}, Values <- <<>>, Families <- {}

MCBounds == SafetyBounds!MCBounds
MCValues == SafetyInputs!MCValues
MCBodies == SafetyInputs!BodiesOf(Families)

Backend == INSTANCE MCEmittedNames WITH source <- file

\* Only the functions are taken from here.
BackendInputs == INSTANCE MCEmittedNames WITH source <- file, Emittable <- {}
MCEmittable == BackendInputs!MCEmittable

ASSUME ParametersOK == Safety!SafetyParameters

safetyVars == <<body, errors, frames, jump, outcome, proof, store, fault>>
backendVars == <<file, todo, renames, snapshots, unread, usedNames, saved, hoisted, zig, discarded, refused>>
allVars == <<running, mcVars, safetyVars, backendVars>>

-----------------------------------------------------------------------------
\* At rest the parser has read a source without declarations, a function was
\* rejected, and the backend refused one.
FrontAtRest ==
    /\ intended = <<>> /\ respelled = <<>>
    /\ source = ""
    /\ position = 0 /\ line = 1 /\ column = 1
    /\ tokens = <<>>
    /\ lexical = [state |-> "done"]
    /\ cursor = 0
    /\ brackets = <<>> /\ work = <<>> /\ tried = {}
    /\ declarations = <<>>
    /\ parsing = "parsed"

SafetyAtRest ==
    /\ body = <<SafetyInputs!Block(<<>>)>>
    /\ errors = {"missing_return"}
    /\ outcome = "rejected"
    /\ proof = <<>>
    /\ frames = <<>>
    /\ jump = Safety!NoJump
    /\ store = <<>>
    /\ fault = "none"

BackendAtRest ==
    /\ file = [globals |-> {}, function |-> BackendInputs!Function(<<"f">>, <<>>)]
    /\ todo = <<>>
    /\ renames = <<>> /\ snapshots = <<>> /\ unread = <<>>
    /\ usedNames = {} /\ saved = <<>> /\ hoisted = <<>>
    /\ zig = <<>> /\ discarded = {} /\ refused = TRUE

MCInit ==
    \/ running = "front end" /\ Init /\ SafetyAtRest /\ BackendAtRest
    \/ running = "safety" /\ Safety!SafetyInit /\ FrontAtRest /\ BackendAtRest
    \/ running = "names" /\ Backend!MCNamesInit /\ FrontAtRest /\ SafetyAtRest

FrontRest == UNCHANGED <<running, safetyVars, backendVars>>
SafetyRest == UNCHANGED <<running, mcVars, backendVars>>
BackendRest == UNCHANGED <<running, mcVars, safetyVars>>

NextSource ==
    \/ NextFront /\ UNCHANGED <<intended, respelled>>
    \/ RespellTokens
    \/ RespellTrees

MCNext ==
    \/ running = "front end" /\ NextSource /\ FrontRest
    \/ running = "safety" /\ Safety!SafetyNext /\ SafetyRest
    \/ running = "names" /\ Backend!NamesNext /\ BackendRest

MCSpec == MCInit /\ [][MCNext]_allVars

-----------------------------------------------------------------------------
\* No accepted function divides by zero, leaves the bounds of an array or a
\* slice, casts a value that does not fit, reads through nil, or overflows
\* where an overflow was approved not to happen.
NothingFaults == Safety!NothingFaults

\* No accepted function reads or deletes what was deleted.
DeletedNeverUsed == Safety!DeletedNeverUsed

\* What the pass knows at the end of a function is so whenever it gets there.
FactsHold == Safety!FactsHold

\* Every emitted name means what the program's means, and discards and vars are
\* where Zig wants them.
EmittedNames == Backend!EmittedNames
=============================================================================
