---------------------------- MODULE MCValidator -----------------------------
(* The three machines of the semantic validator side by side; a behaviour    *)
(* runs one of them on an input of its own and leaves the others at rest.    *)
EXTENDS CallGraph, MCControlFlow

CONSTANTS
    MaxCalls,           \* the calls in a graph of the cycle search
    TopLevel, Programs, Globals, Initial, Params, TypeOf, NoFunction, NestedPrograms

VARIABLES
    program, accepted, slots, calls

recursionVars == <<program, accepted, slots, calls>>
allVars == <<recursionVars, vars, flowVars>>

MCOrder == <<3, 1, 4, 2>>
MCGraphs ==
    {g \in [Functions -> {S \in SUBSET Functions : Cardinality(S) <= 2}] :
        Cardinality(UNION {{f} \X g[f] : f \in Functions}) <= MaxCalls}
MCReported == {{}, {2}}

Ban == INSTANCE MCRecursionBan WITH frames <- calls

\* Only the programs and their names are taken from here.
BanInputs ==
    INSTANCE MCRecursionBan WITH Programs <- {}, Initial <- <<>>, Params <- <<>>, TypeOf <- <<>>,
                                 frames <- calls
MCPrograms == BanInputs!MCPrograms
MCInitial == BanInputs!MCInitial
MCParams == BanInputs!MCParams
MCTypeOf == BanInputs!MCTypeOf

ASSUME ProgramsOK == Ban!RecursionBanParameters

-----------------------------------------------------------------------------
\* A machine at rest: a program and a body that were rejected, and a search
\* that found no cycle.
RecursionAtRest ==
    /\ program = [f \in TopLevel |-> IF f = "f" THEN <<Ban!Run("f")>> ELSE <<>>]
    /\ accepted = FALSE
    /\ slots = [x \in Globals |-> Ban!TopFunction(Initial[x])]
    /\ calls = <<Ban!Frame(Ban!TopFunction("main"), <<>>)>>

FlowAtRest ==
    /\ body = <<Nest("block", NoLabel, <<<<>>>>)>>
    /\ errors = {"missing_return"}
    /\ frames = <<FunctionFrame(body)>>
    /\ jump = NoJump
    /\ outcome = "rejected"

SearchAtRest ==
    /\ graph = [f \in Functions |-> {}]
    /\ alreadyReported = {}
    /\ phase = "done"
    /\ next = Len(MCOrder) + 1
    /\ index = [f \in Functions |-> CHOOSE i \in DOMAIN MCOrder : MCOrder[i] = f]
    /\ lowlink = index
    /\ componentStack = <<>>
    /\ work = <<>>
    /\ components = {{f} : f \in Functions}
    /\ componentOf = [f \in Functions |-> {}]
    /\ path = <<>>
    /\ cycles = <<>>

MCInit ==
    \/ Init /\ RecursionAtRest /\ FlowAtRest
    \/ Ban!Init /\ FlowAtRest /\ SearchAtRest
    \/ FlowInit /\ RecursionAtRest /\ SearchAtRest

RecursionRest == UNCHANGED <<vars, flowVars>>
FlowRest == UNCHANGED <<recursionVars, vars>>
SearchRest == UNCHANGED <<recursionVars, flowVars>>

MCNext ==
    \/ (Ban!Enter /\ RecursionRest) \/ (Ban!Return /\ RecursionRest)
    \/ (Ban!Declare /\ RecursionRest) \/ (Ban!Store /\ RecursionRest)
    \/ (Ban!PassBlock /\ RecursionRest) \/ (Ban!RunBlock /\ RecursionRest)
    \/ (Ban!LeaveBlock /\ RecursionRest) \/ (RunStep /\ FlowRest)
    \/ (EnterBlock /\ FlowRest) \/ (Branch /\ FlowRest)
    \/ (EnterLoop /\ FlowRest) \/ (SkipLoop /\ FlowRest)
    \/ (SelectCase /\ FlowRest) \/ (Defer /\ FlowRest)
    \/ (CallNested /\ FlowRest) \/ (Jump /\ FlowRest)
    \/ (RunDeferred /\ FlowRest) \/ (Again /\ FlowRest)
    \/ (Finish /\ FlowRest) \/ (Unwind /\ FlowRest)
    \/ (NextRoot /\ SearchRest) \/ (NextCallee /\ SearchRest)
    \/ (FinishNode /\ SearchRest) \/ (StartReport /\ SearchRest)
    \/ (NextStart /\ SearchRest) \/ (FinishReport /\ SearchRest)
    \/ (CloseCycle /\ SearchRest) \/ (ExtendPath /\ SearchRest)

\* The search runs to completion on the compiler's only thread.
MCSpec == MCInit /\ [][MCNext]_allVars /\ WF_allVars(Next /\ SearchRest)

-----------------------------------------------------------------------------
\* No accepted program has two calls of one function at a time.
NoRecursion == Ban!NoRecursion

\* Of functions that only call by name, exactly those with a cycle are rejected.
DirectCallsJudgedExactly == Ban!DirectCallsJudgedExactly
=============================================================================
