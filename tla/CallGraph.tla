----------------------------- MODULE CallGraph ------------------------------
(***************************************************************************)
(* The cycle search of the recursion ban, in the semantic validator        *)
(* (a7/passes/semantic_validator.py, _report_recursion_cycles and below).  *)
(*                                                                         *)
(* A7 forbids recursion.  Once the calls of a group of functions have been *)
(* collected in _function_graph, Tarjan's algorithm on an explicit stack   *)
(* splits it into components, components without a cycle and components    *)
(* already reported by an earlier search are set aside, and from every     *)
(* other function, in declaration order, a greedy search builds the cycle  *)
(* that the error message shows.                                           *)
(***************************************************************************)
EXTENDS Integers, Sequences, FiniteSets

CONSTANTS
    Functions,  \* the functions of the group; a number stands for a name
    Order,      \* the same functions, in declaration order
    Graphs,     \* the call graphs to consider
    Reported    \* the sets of functions an earlier search may have reported

ASSUME CallGraphAssumption ==
    /\ IsFiniteSet(Functions) /\ Functions \subseteq Nat
    /\ Order \in [1..Cardinality(Functions) -> Functions]
    /\ Functions = {Order[i] : i \in DOMAIN Order}
    /\ Graphs \subseteq [Functions -> SUBSET Functions]
    /\ Reported \subseteq SUBSET Functions

VARIABLES
    graph,          \* _function_graph: function -> functions it calls
    alreadyReported,
    phase,          \* "components", then "report", then "done"
    next,           \* position in Order of the next root or start
    index,          \* discovery number, 0 for a function not in the dict
    lowlink,
    componentStack,
    work,           \* Tarjan's stack: a node with the callees left to look at
    components,
    componentOf,    \* members of the component to search, {} for none
    path,           \* the cycle being built from Order[next], or <<>>
    cycles          \* the cycles reported, each without its repeated start

tarjanVars == <<index, lowlink, componentStack, work, components>>
reportVars == <<componentOf, path, cycles>>
inputVars == <<graph, alreadyReported>>
vars == <<graph, alreadyReported, phase, next, index, lowlink, componentStack,
          work, components, componentOf, path, cycles>>

Least(S) == CHOOSE x \in S : \A y \in S : x <= y
Last(s) == s[Len(s)]
Front(s) == SubSeq(s, 1, Len(s) - 1)
Elements(s) == {s[i] : i \in DOMAIN s}

-----------------------------------------------------------------------------
(* _strongly_connected_components                                          *)

Discovered == {f \in Functions : index[f] # 0}

\* The discovery of one function, as a root or as a callee.
Discover(f, under) ==
    LET number == Cardinality(Discovered) + 1
    IN  /\ index' = [index EXCEPT ![f] = number]
        /\ lowlink' = [lowlink EXCEPT ![f] = number]
        /\ componentStack' = Append(componentStack, f)
        /\ work' = Append(under, [node |-> f, callees |-> graph[f]])

NextRoot ==
    /\ phase = "components"
    /\ work = <<>>
    /\ next \in DOMAIN Order
    /\ IF Order[next] \in Discovered
       THEN UNCHANGED <<index, lowlink, componentStack, work>>
       ELSE Discover(Order[next], work)
    /\ next' = next + 1
    /\ UNCHANGED <<phase, components>>
    /\ UNCHANGED <<inputVars, reportVars>>

\* Whether an edge to a discovered callee lowers the caller's lowlink.
OnStack(callee) == callee \in Elements(componentStack)

\* Mutant: the callee is looked at and not taken from the iterator.
IteratorKept(top, callee) == top.callees

\* What the iterator over the callees of top still holds after callee.
IteratorRest(top, callee) == top.callees \ {callee}

\* One turn of the loop over the sorted callees of the top of the work stack.
NextCallee ==
    /\ work # <<>>
    /\ LET top == Last(work)
           callee == Least(top.callees)
           rest == [work EXCEPT ![Len(work)].callees = IteratorRest(top, callee)]
       IN  /\ top.callees # {}
           /\ IF callee \notin Discovered
              THEN Discover(callee, rest)
              ELSE /\ work' = rest
                   /\ lowlink' = [lowlink EXCEPT ![top.node] =
                         IF OnStack(callee) /\ index[callee] < @ THEN index[callee] ELSE @]
                   /\ UNCHANGED <<index, componentStack>>
    /\ UNCHANGED <<phase, next, components>>
    /\ UNCHANGED <<inputVars, reportVars>>

\* The caller of a finished node inherits its lowlink.
InheritLowlink(parent, node) ==
    [lowlink EXCEPT ![parent] = IF lowlink[node] < @ THEN lowlink[node] ELSE @]

\* The component that node closes: everything above it on the stack.
MembersFrom(node) ==
    {componentStack[i] : i \in {j \in DOMAIN componentStack :
        \E k \in 1..j : componentStack[k] = node}}

FinishNode ==
    /\ work # <<>>
    /\ Last(work).callees = {}
    /\ LET node == Last(work).node
           members == MembersFrom(node)
       IN  /\ lowlink' = IF Len(work) = 1 THEN lowlink
                         ELSE InheritLowlink(work[Len(work) - 1].node, node)
           /\ IF lowlink[node] = index[node]
              THEN /\ components' = components \cup {members}
                   /\ componentStack' =
                         SubSeq(componentStack, 1, Len(componentStack) - Cardinality(members))
              ELSE UNCHANGED <<components, componentStack>>
    /\ work' = Front(work)
    /\ UNCHANGED <<phase, next, index>>
    /\ UNCHANGED <<inputVars, reportVars>>

-----------------------------------------------------------------------------
(* _report_recursion_cycles                                                *)

\* Mutant: a function that calls itself is taken for a function on no cycle.
SeveralMembers(component) == Cardinality(component) > 1

HasCycle(component) ==
    Cardinality(component) > 1 \/ \E f \in component : f \in graph[f]

Searched == {c \in components : HasCycle(c) /\ c \cap alreadyReported = {}}

StartReport ==
    /\ phase = "components"
    /\ work = <<>>
    /\ next \notin DOMAIN Order
    /\ phase' = "report"
    /\ next' = 1
    /\ componentOf' = [f \in Functions |-> UNION {c \in Searched : f \in c}]
    /\ UNCHANGED <<path, cycles>>
    /\ UNCHANGED <<inputVars, tarjanVars>>

ReportedNodes == UNION {Elements(c) : c \in Elements(cycles)}

NextStart ==
    /\ phase = "report"
    /\ path = <<>>
    /\ next \in DOMAIN Order
    /\ IF Order[next] \in ReportedNodes \/ componentOf[Order[next]] = {}
       THEN /\ next' = next + 1
            /\ UNCHANGED path
       ELSE /\ path' = <<Order[next]>>
            /\ UNCHANGED next
    /\ UNCHANGED <<phase, componentOf, cycles>>
    /\ UNCHANGED <<inputVars, tarjanVars>>

FinishReport ==
    /\ phase = "report"
    /\ path = <<>>
    /\ next \notin DOMAIN Order
    /\ phase' = "done"
    /\ UNCHANGED next
    /\ UNCHANGED <<inputVars, tarjanVars, reportVars>>

-----------------------------------------------------------------------------
(* _find_recursion_path                                                    *)

Start == path[1]
Current == Last(path)

\* Functions of the component, off the path, from which Start can be called
\* through functions off the path.
ReachesStart ==
    LET off == componentOf[Start] \ Elements(path)
        back[n \in 0..Cardinality(off)] ==
            IF n = 0 THEN {f \in off : Start \in graph[f]}
            ELSE back[n - 1] \cup {f \in off : graph[f] \cap back[n - 1] # {}}
    IN  back[Cardinality(off)]

Candidates == graph[Current] \cap ReachesStart

CloseCycle ==
    /\ path # <<>>
    /\ Start \in graph[Current]
    /\ cycles' = Append(cycles, path)
    /\ path' = <<>>
    /\ next' = next + 1
    /\ UNCHANGED <<phase, componentOf>>
    /\ UNCHANGED <<inputVars, tarjanVars>>

\* Step to a function that still reaches the start, or give up, which reports
\* nothing for this start.
ExtendPath ==
    /\ path # <<>>
    /\ Start \notin graph[Current]
    /\ IF Candidates # {}
       THEN /\ path' = Append(path, Least(Candidates))
            /\ UNCHANGED next
       ELSE /\ path' = <<>>
            /\ next' = next + 1
    /\ UNCHANGED <<phase, componentOf, cycles>>
    /\ UNCHANGED <<inputVars, tarjanVars>>

-----------------------------------------------------------------------------
Init ==
    /\ graph \in Graphs
    /\ alreadyReported \in Reported
    /\ phase = "components"
    /\ next = 1
    /\ index = [f \in Functions |-> 0]
    /\ lowlink = [f \in Functions |-> 0]
    /\ componentStack = <<>>
    /\ work = <<>>
    /\ components = {}
    /\ componentOf = [f \in Functions |-> {}]
    /\ path = <<>>
    /\ cycles = <<>>

Next ==
    \/ NextRoot \/ NextCallee \/ FinishNode
    \/ StartReport \/ NextStart \/ FinishReport
    \/ CloseCycle \/ ExtendPath

Spec == Init /\ [][Next]_vars

\* The search runs to completion on the compiler's only thread.
FairSpec == Spec /\ WF_vars(Next)

-----------------------------------------------------------------------------
(* Safety, against the transitive closure of the graph                     *)

\* Functions that f may end up calling, itself among them only on a cycle.
Reach(f) ==
    LET step[n \in 0..Cardinality(Functions)] ==
            IF n = 0 THEN graph[f]
            ELSE step[n - 1] \cup UNION {graph[g] : g \in step[n - 1]}
    IN  step[Cardinality(Functions)]

Recursive == {f \in Functions : f \in Reach(f)}

\* Functions that call each other, directly or not.
Class(f) == {g \in Functions : g = f \/ (g \in Reach(f) /\ f \in Reach(g))}

\* The functions that the error messages name.
Named == {f \in Functions : \E n \in DOMAIN cycles : f \in Elements(cycles[n])}

\* The paths from f on which no function comes twice.
SimplePaths(f) ==
    {p \in UNION {[1..n -> Functions] : n \in 1..Cardinality(Functions)} :
        /\ p[1] = f
        /\ \A i \in 1..(Len(p) - 1) : p[i + 1] \in graph[p[i]]
        /\ \A i, j \in DOMAIN p : i # j => p[i] # p[j]}

\* A depth first search closes the cycle as soon as it can.
ClosedAtOnce(p) ==
    /\ p[1] \in graph[Last(p)]
    /\ \A i \in 1..(Len(p) - 1) : p[1] \notin graph[p[i]]

\* p comes before q in a search that tries callees in name order.
Before(p, q) ==
    \E i \in DOMAIN p \cap DOMAIN q :
        p[i] < q[i] /\ \A j \in 1..(i - 1) : p[j] = q[j]

\* "Reject recursion in every function": when the search is done the functions
\* on a reported cycle are the recursive ones, except those of a component an
\* earlier search reported ("A cycle already reported ... is not reported
\* again").  So a group is accepted exactly when it has no recursion.  And what is
\* shown "is the cycle an exhaustive simple-path DFS finds when it tries callees
\* in name order and closes the cycle as soon as start is a callee".
RecursionReported ==
    /\ phase = "done" =>
           Named = {f \in Recursive : Class(f) \cap alreadyReported = {}}
    /\ \A n \in DOMAIN cycles :
           LET closed == {p \in SimplePaths(cycles[n][1]) : ClosedAtOnce(p)}
           IN  /\ cycles[n] \in closed
               /\ \A p \in closed \ {cycles[n]} : Before(cycles[n], p)

\* Both searches end on every graph.
SearchEnds == <>(phase = "done")
=============================================================================
