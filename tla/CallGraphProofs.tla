---------------------------- MODULE CallGraphProofs ----------------------------
(***************************************************************************)
(* The theorem about the cycle search of the recursion ban: on every call  *)
(* graph the functions that it names are the recursive ones, and each      *)
(* cycle it shows is the first of an exhaustive search.                    *)
(***************************************************************************)
EXTENDS CallGraph, FiniteSetTheorems, SequenceTheorems, TLAPS

(***************************************************************************)
(* Calling, by sets that are closed under calls                            *)
(***************************************************************************)

Closed(g, S) == \A f \in S : g[f] \subseteq S

\* a is b or calls it, directly or not: b lies in every closed set that a lies in.
Calls(g, a, b) == \A S \in SUBSET Functions : a \in S /\ Closed(g, S) => b \in S

Mutual(g, f) == {h \in Functions : Calls(g, f, h) /\ Calls(g, h, f)}

(***************************************************************************)
(* The invariant of the search for components                              *)
(***************************************************************************)

TypeOK ==
    /\ graph \in [Functions -> SUBSET Functions]
    /\ alreadyReported \subseteq Functions
    /\ phase \in {"components", "report", "done"}
    /\ next \in 1..(Cardinality(Functions) + 1)
    /\ index \in [Functions -> Nat]
    /\ lowlink \in [Functions -> Nat]
    /\ componentStack \in Seq(Functions)
    /\ work \in Seq([node : Functions, callees : SUBSET Functions])
    /\ components \subseteq SUBSET Functions

Waiting == Elements(componentStack)
Assigned == UNION components
Node(i) == work[i].node

\* Functions are numbered as they are discovered; each waits on the stack, in that
\* order, or has its component.
NumbersOK ==
    /\ \A f \in Functions : index[f] <= Cardinality(Discovered)
    /\ Discovered = Waiting \cup Assigned
    /\ Waiting \cap Assigned = {}
    /\ \A i, j \in DOMAIN componentStack : i < j => index[componentStack[i]] < index[componentStack[j]]

\* The functions being looked at wait, in the order of their numbers.
WorkOK ==
    /\ \A i \in DOMAIN work : Node(i) \in Waiting /\ work[i].callees \subseteq graph[Node(i)]
    /\ \A i, j \in DOMAIN work : i < j => index[Node(i)] < index[Node(j)]

\* A function that waits calls those above it, and one being looked at below it.
WaitingOK ==
    /\ \A x, y \in Waiting : index[x] <= index[y] => Calls(graph, x, y)
    /\ \A y \in Waiting : \E i \in DOMAIN work : index[Node(i)] <= index[y] /\ Calls(graph, y, Node(i))

\* The lowlink of a function being looked at is the number of one it calls.
LowlinkOK ==
    \A i \in DOMAIN work :
        /\ lowlink[Node(i)] <= index[Node(i)]
        /\ \E w \in Waiting : index[w] = lowlink[Node(i)] /\ Calls(graph, Node(i), w)

\* y waits above the i-th function of the work stack, and below the next.
Above(y, i) ==
    /\ index[Node(i)] <= index[y]
    /\ i + 1 \in DOMAIN work => index[y] < index[Node(i + 1)]

\* The callees of y that the search has looked at.
LookedAt(y, i) == IF y = Node(i) THEN graph[y] \ work[i].callees ELSE graph[y]

\* They have their component, or wait no lower than the lowlink says.
EdgesOK ==
    \A i \in DOMAIN work : \A y \in Waiting : Above(y, i) =>
        \A z \in LookedAt(y, i) :
            z \in Assigned \/ (z \in Waiting /\ lowlink[Node(i)] <= index[z])

\* A component is all functions that call each other, and calls nothing that waits.
ComponentsOK ==
    /\ \A c \in components : c # {} /\ \A f \in c : c = Mutual(graph, f)
    /\ Closed(graph, Assigned)

\* Every function before the next root is discovered; at the end all have components.
RootsOK ==
    /\ phase = "components" => \A i \in DOMAIN Order : i < next => Order[i] \in Discovered
    /\ phase # "components" => work = <<>> /\ Assigned = Functions

TarjanInv ==
    /\ TypeOK /\ NumbersOK /\ WorkOK /\ WaitingOK /\ LowlinkOK /\ EdgesOK
    /\ ComponentsOK /\ RootsOK

(***************************************************************************)
(* The invariant of the reports                                            *)
(***************************************************************************)

\* A path of the call graph g on which no function comes twice.
IsSimple(g, p) ==
    /\ \A i \in 1..(Len(p) - 1) : p[i + 1] \in g[p[i]]
    /\ \A i, j \in DOMAIN p : i # j => p[i] # p[j]

\* The cycles through s that a depth first search closes as soon as it can.
ClosedCycles(g, s) ==
    {q \in Seq(Functions) :
        /\ q # <<>> /\ q[1] = s /\ IsSimple(g, q)
        /\ s \in g[Last(q)] /\ \A i \in 1..(Len(q) - 1) : s \notin g[q[i]]}

Extends(p, q) == Len(p) <= Len(q) /\ \A i \in DOMAIN p : q[i] = p[i]

\* A path through one component that does not come back before its end, and that
\* no cycle comes before.
PathOK(g, component, p) ==
    /\ p \in Seq(Functions) /\ p # <<>>
    /\ IsSimple(g, p)
    /\ Elements(p) \subseteq component[p[1]]
    /\ \A i \in 1..(Len(p) - 1) : p[1] \notin g[p[i]]
    /\ \A q \in ClosedCycles(g, p[1]) : Extends(p, q) \/ Before(p, q)

ReportInv ==
    /\ phase = "components" => path = <<>> /\ cycles = <<>>
    /\ phase # "components" => componentOf = [f \in Functions |-> UNION {c \in Searched : f \in c}]
    /\ path # <<>> =>
          /\ phase = "report" /\ next \in DOMAIN Order
          /\ PathOK(graph, componentOf, path) /\ path[1] = Order[next]
          /\ Start \in graph[Current] \/ Candidates # {}
    /\ cycles \in Seq(Seq(Functions))
    /\ \A n \in DOMAIN cycles : PathOK(graph, componentOf, cycles[n]) /\ cycles[n][1] \in graph[Last(cycles[n])]
    /\ phase # "components" =>
          \A i \in DOMAIN Order : i < next => componentOf[Order[i]] = {} \/ Order[i] \in ReportedNodes
    /\ phase = "done" => next = Cardinality(Functions) + 1

SearchInv == TarjanInv /\ ReportInv
(***************************************************************************)
(* Sets built in steps                                                     *)
(***************************************************************************)

\* Induction over the numbers, for a set instead of a predicate.
LEMMA Induction ==
    ASSUME NEW T, 0 \in T, \A n \in Nat : n \in T => n + 1 \in T
    PROVE  Nat \subseteq T
<1>1. PICK Less : Less = OpToRel(<, Nat)
  OBVIOUS
<1>2. \A m, n \in Nat : <<m, n>> \in Less <=> m < n
  BY <1>1 DEF OpToRel
<1>3. SUFFICES ASSUME NEW U, U = Nat \ T, U # {} PROVE FALSE
  OBVIOUS
<1>4. PICK n \in U : \A m \in U : <<m, n>> \notin Less
  BY <1>1, <1>3, NatLessThanWellFounded, WFMin
<1>5. n \in Nat /\ n # 0 /\ n \notin T
  BY <1>3
<1>6. n - 1 \in Nat /\ n - 1 < n /\ n = (n - 1) + 1
  BY <1>5
<1>7. n - 1 \notin U
  BY <1>2, <1>3, <1>4, <1>5, <1>6
<1> QED
  BY <1>3, <1>5, <1>6, <1>7

\* The members of a chain of N + 1 sets, each grown from the one before.
IsChain(c, base, grow, N) ==
    /\ c[0] = base
    /\ \A n \in 1..N : c[n] = grow[c[n - 1]]

\* There is such a chain.
LEMMA ChainExists ==
    ASSUME NEW X, NEW base \in X, NEW grow \in [X -> X], NEW N \in Nat
    PROVE  \E c \in [0..N -> X] : IsChain(c, base, grow, N)
<1>1. PICK T : T = {n \in Nat : \E c \in [0..n -> X] : IsChain(c, base, grow, n)}
  OBVIOUS
<1>2. 0 \in T
  <2>1. PICK c : c = [n \in 0..0 |-> base]
    OBVIOUS
  <2>2. c \in [0..0 -> X] /\ IsChain(c, base, grow, 0)
    BY <2>1 DEF IsChain
  <2> QED
    BY <1>1, <2>2
<1>3. ASSUME NEW n \in Nat, n \in T PROVE n + 1 \in T
  <2>1. PICK c \in [0..n -> X] : IsChain(c, base, grow, n)
    BY <1>1, <1>3
  <2>2. PICK d : d = [i \in 0..(n + 1) |-> IF i <= n THEN c[i] ELSE grow[c[n]]]
    OBVIOUS
  <2>3. c[n] \in X
    BY <2>1
  <2>4. d \in [0..(n + 1) -> X]
    BY <2>1, <2>2, <2>3
  <2>5. d[0] = base
    BY <2>1, <2>2 DEF IsChain
  <2>6. ASSUME NEW i \in 1..(n + 1) PROVE d[i] = grow[d[i - 1]]
    <3>1. i \in 1..n \/ i = n + 1
      OBVIOUS
    <3> QED
      BY <2>1, <2>2, <3>1 DEF IsChain
  <2>7. IsChain(d, base, grow, n + 1)
    BY <2>5, <2>6 DEF IsChain
  <2> QED
    BY <1>1, <2>4, <2>7
<1> QED
  BY <1>1, <1>2, <1>3, Induction

\* A step that never loses a member, and a set that it does not lead out of.
Grows(grow, F) ==
    /\ grow \in [SUBSET F -> SUBSET F]
    /\ \A S \in SUBSET F : S \subseteq grow[S]
Confines(S, grow, F) == \A R \in SUBSET F : R \subseteq S => grow[R] \subseteq S

\* last is where the chain from base has come after as many steps as F has members.
ChainEnd(F, grow, base, last) ==
    \E c \in [0..Cardinality(F) -> SUBSET F] :
        IsChain(c, base, grow, Cardinality(F)) /\ last = c[Cardinality(F)]

\* A chain of growing subsets of a finite set has stopped growing after as many
\* steps as the set has members, at the least set that holds the first and does not grow.
LEMMA ChainCloses ==
    ASSUME NEW F, IsFiniteSet(F), NEW grow, Grows(grow, F), NEW base, NEW last,
           ChainEnd(F, grow, base, last)
    PROVE  last \in SUBSET F /\ base \subseteq last /\ grow[last] = last
<1>1. PICK N \in Nat : N = Cardinality(F)
  BY FS_CardinalityType
<1> PICK c \in [0..N -> SUBSET F] : IsChain(c, base, grow, N) /\ last = c[N]
  BY <1>1 DEF ChainEnd
<1>2. /\ c \in [0..N -> SUBSET F] /\ last = c[N] /\ grow \in [SUBSET F -> SUBSET F]
      /\ \A S \in SUBSET F : S \subseteq grow[S]
      /\ c[0] = base /\ \A n \in 1..N : c[n] = grow[c[n - 1]]
  BY <1>1 DEF IsChain, Grows
<1>3. \A n \in Nat : n + 1 <= N => n \in 0..N /\ n + 1 \in 1..N /\ (n + 1) - 1 = n
  OBVIOUS
<1>4. \A n \in Nat : n + 1 <= N => c[n] \in SUBSET F /\ c[n + 1] = grow[c[n]] /\ c[n] \subseteq c[n + 1]
  BY <1>2, <1>3
<1>0. last \in SUBSET F
  <2>1. N \in 0..N
    OBVIOUS
  <2> QED
    BY <1>2, <2>1
<1>5. base \subseteq last
  <2>1. PICK T : T = {n \in Nat : n <= N => base \subseteq c[n]}
    OBVIOUS
  <2>2. 0 \in T
    BY <1>2, <2>1
  <2>3. ASSUME NEW n \in Nat, n \in T PROVE n + 1 \in T
    BY <1>4, <2>1, <2>3
  <2>4. N \in T
    BY <2>2, <2>3, Induction
  <2> QED
    BY <1>2, <2>1, <2>4
<1>6. grow[last] = last
  <2>1. PICK T : T = {n \in Nat : n <= N => grow[c[n]] = c[n] \/ Cardinality(c[n]) >= n}
    OBVIOUS
  <2>2. \A S \in SUBSET F : IsFiniteSet(S) /\ Cardinality(S) \in Nat /\ Cardinality(S) <= N
    BY <1>1, FS_Subset, FS_CardinalityType
  <2>3. 0 \in T
    <3>1. 0 \in 0..N
      OBVIOUS
    <3>2. c[0] \in SUBSET F
      BY <1>2, <3>1
    <3>3. Cardinality(c[0]) >= 0
      BY <2>2, <3>2
    <3> QED
      BY <2>1, <3>3
  <2>4. ASSUME NEW n \in Nat, n \in T PROVE n + 1 \in T
    <3>1. SUFFICES ASSUME n + 1 <= N
                   PROVE  grow[c[n + 1]] = c[n + 1] \/ Cardinality(c[n + 1]) >= n + 1
      BY <2>1
    <3>2. /\ n <= N /\ c[n] \in SUBSET F /\ c[n + 1] = grow[c[n]] /\ c[n] \subseteq c[n + 1]
          /\ c[n + 1] \in SUBSET F
      BY <1>2, <1>3, <1>4, <3>1
    <3>3. CASE c[n + 1] = c[n]
      BY <3>2, <3>3
    <3>4. CASE c[n + 1] # c[n]
      <4>1. Cardinality(c[n]) >= n
        BY <2>1, <2>4, <3>2, <3>4
      <4>2. /\ Cardinality(c[n]) <= Cardinality(c[n + 1])
            /\ Cardinality(c[n]) # Cardinality(c[n + 1])
        BY <2>2, <3>2, <3>4, FS_Subset
      <4>3. Cardinality(c[n]) \in Nat /\ Cardinality(c[n + 1]) \in Nat
        BY <2>2, <3>2
      <4> QED
        BY <4>1, <4>2, <4>3
    <3> QED
      BY <3>3, <3>4
  <2>5. N \in T
    BY <2>3, <2>4, Induction
  <2>6. grow[last] = last \/ Cardinality(last) >= N
    BY <1>2, <2>1, <2>5
  <2>7. CASE Cardinality(last) >= N
    <3>1. Cardinality(last) = Cardinality(F)
      BY <1>1, <1>0, <2>2, <2>7
    <3>2. last = F
      BY <1>0, <3>1, FS_Subset
    <3> QED
      BY <1>2, <1>0, <3>2
  <2> QED
    BY <2>6, <2>7
<1> QED
  BY <1>2, <1>5, <1>6, <1>0

\* It stays in every set that holds the first and that no step leads out of.
LEMMA ChainStays ==
    ASSUME NEW F, IsFiniteSet(F), NEW grow, NEW base, NEW last,
           ChainEnd(F, grow, base, last),
           NEW S, base \subseteq S, Confines(S, grow, F)
    PROVE  last \subseteq S
<1> PICK N \in Nat : N = Cardinality(F)
  BY FS_CardinalityType
<1> PICK c \in [0..N -> SUBSET F] : IsChain(c, base, grow, N) /\ last = c[N]
  BY DEF ChainEnd
<1>1. PICK T : T = {n \in Nat : n <= N => c[n] \subseteq S}
  OBVIOUS
<1>2. 0 \in T
  BY <1>1 DEF IsChain
<1>3. ASSUME NEW n \in Nat, n \in T PROVE n + 1 \in T
  <2>1. SUFFICES ASSUME n + 1 <= N PROVE c[n + 1] \subseteq S
    BY <1>1
  <2>2. n \in 0..N /\ n + 1 \in 1..N /\ (n + 1) - 1 = n
    BY <2>1
  <2>3. c[n] \subseteq S /\ c[n] \in SUBSET F /\ c[n + 1] = grow[c[n]]
    BY <1>1, <1>3, <2>2 DEF IsChain
  <2> QED
    BY <2>3 DEF Confines
<1>4. N \in T
  BY <1>2, <1>3, Induction
<1> QED
  BY <1>1, <1>4

(***************************************************************************)
(* Calling                                                                 *)
(***************************************************************************)

\* Every function calls itself in this sense, and calling is transitive.
LEMMA CallsFacts ==
    ASSUME NEW g \in [Functions -> SUBSET Functions]
    PROVE  /\ \A a : Calls(g, a, a)
           /\ \A a \in Functions : \A b \in g[a] : Calls(g, a, b)
           /\ \A a, b, c : Calls(g, a, b) /\ Calls(g, b, c) => Calls(g, a, c)
           /\ \A a, b : \A S \in SUBSET Functions :
                  Closed(g, S) /\ a \in S /\ Calls(g, a, b) => b \in S
BY DEF Calls, Closed

\* The transitive closure is a chain of sets.
LEMMA ReachIsChain ==
    ASSUME graph \in [Functions -> SUBSET Functions], NEW f \in Functions, NEW grow,
           grow = [S \in SUBSET Functions |-> S \cup UNION {graph[g] : g \in S}]
    PROVE  \E c \in [0..Cardinality(Functions) -> SUBSET Functions] :
               IsChain(c, graph[f], grow, Cardinality(Functions)) /\ Reach(f) = c[Cardinality(Functions)]
<1>1. PICK N \in Nat : N = Cardinality(Functions)
  BY CallGraphAssumption, FS_CardinalityType
<1>2. grow \in [SUBSET Functions -> SUBSET Functions] /\ graph[f] \in SUBSET Functions
  OBVIOUS
<1>3. PICK c \in [0..N -> SUBSET Functions] : IsChain(c, graph[f], grow, N)
  BY <1>2, ChainExists
<1>4. c = [n \in 0..N |-> IF n = 0 THEN graph[f]
                          ELSE c[n - 1] \cup UNION {graph[g] : g \in c[n - 1]}]
  <2>1. ASSUME NEW n \in 0..N
        PROVE  c[n] = IF n = 0 THEN graph[f]
                      ELSE c[n - 1] \cup UNION {graph[g] : g \in c[n - 1]}
    <3>1. CASE n = 0
      BY <1>3, <3>1 DEF IsChain
    <3>2. CASE n # 0
      <4>1. n \in 1..N /\ n - 1 \in 0..N
        BY <3>2
      <4>2. c[n - 1] \in SUBSET Functions /\ c[n] = grow[c[n - 1]]
        BY <1>3, <4>1 DEF IsChain
      <4> QED
        BY <3>2, <4>2
    <3> QED
      BY <3>1, <3>2
  <2> QED
    BY <2>1
<1>5. PICK d : d = CHOOSE step : step = [n \in 0..N |-> IF n = 0 THEN graph[f]
                                 ELSE step[n - 1] \cup UNION {graph[g] : g \in step[n - 1]}]
  OBVIOUS
<1>6. d = [n \in 0..N |-> IF n = 0 THEN graph[f]
                          ELSE d[n - 1] \cup UNION {graph[g] : g \in d[n - 1]}]
  BY <1>4, <1>5
<1>7. Reach(f) = d[N]
  BY <1>1, <1>5 DEF Reach
<1>8. \A n \in 0..N : d[n] \in SUBSET Functions
  <2>1. PICK T : T = {n \in Nat : n <= N => d[n] \in SUBSET Functions}
    OBVIOUS
  <2>2. 0 \in T
    <3>1. 0 \in 0..N
      OBVIOUS
    <3>2. d[0] = graph[f]
      BY <1>6, <3>1
    <3> QED
      BY <1>2, <2>1, <3>2
  <2>3. ASSUME NEW n \in Nat, n \in T PROVE n + 1 \in T
    <3>1. SUFFICES ASSUME n + 1 <= N PROVE d[n + 1] \in SUBSET Functions
      BY <2>1
    <3>2. n + 1 \in 0..N /\ n + 1 # 0 /\ (n + 1) - 1 = n /\ d[n] \in SUBSET Functions
      BY <2>1, <2>3, <3>1
    <3>3. d[n + 1] = d[n] \cup UNION {graph[g] : g \in d[n]}
      BY <1>6, <3>2
    <3> QED
      BY <3>2, <3>3
  <2> QED
    BY <2>1, <2>2, <2>3, Induction
<1>9. d \in [0..N -> SUBSET Functions]
  BY <1>6, <1>8
<1>10. IsChain(d, graph[f], grow, N)
  <2>1. d[0] = graph[f]
    <3>1. 0 \in 0..N
      OBVIOUS
    <3> QED
      BY <1>6, <3>1
  <2>2. ASSUME NEW n \in 1..N PROVE d[n] = grow[d[n - 1]]
    <3>1. n \in 0..N /\ n # 0 /\ n - 1 \in 0..N
      OBVIOUS
    <3>2. d[n] = d[n - 1] \cup UNION {graph[g] : g \in d[n - 1]}
      BY <1>6, <3>1
    <3> QED
      BY <1>8, <3>1, <3>2
  <2> QED
    BY <2>1, <2>2 DEF IsChain
<1> QED
  BY <1>1, <1>7, <1>9, <1>10

\* It holds what the callees of f call.
LEMMA ReachFacts ==
    ASSUME graph \in [Functions -> SUBSET Functions], NEW f \in Functions
    PROVE  /\ Reach(f) \subseteq Functions
           /\ \A h \in Functions : h \in Reach(f) <=> \E y \in graph[f] : Calls(graph, y, h)
<1>1. PICK grow : grow = [S \in SUBSET Functions |-> S \cup UNION {graph[g] : g \in S}]
  OBVIOUS
<1>2. Grows(grow, Functions) /\ IsFiniteSet(Functions)
  <2>1. ASSUME NEW S \in SUBSET Functions
        PROVE  S \cup UNION {graph[g] : g \in S} \in SUBSET Functions
    OBVIOUS
  <2>2. grow \in [SUBSET Functions -> SUBSET Functions]
    BY <1>1, <2>1
  <2>3. \A S \in SUBSET Functions : S \subseteq grow[S]
    BY <1>1
  <2> QED
    BY <2>2, <2>3, CallGraphAssumption DEF Grows
<1>3. PICK last, base : last = Reach(f) /\ base = graph[f]
  OBVIOUS
<1>4. ChainEnd(Functions, grow, base, last)
  BY <1>1, <1>3, ReachIsChain DEF ChainEnd
<1>5. /\ last \in SUBSET Functions /\ graph[f] \subseteq last /\ grow[last] = last
      /\ \A S : graph[f] \subseteq S /\ Confines(S, grow, Functions) => last \subseteq S
  <2>1. /\ last \in SUBSET Functions /\ base \subseteq last /\ grow[last] = last
        /\ \A S : base \subseteq S /\ Confines(S, grow, Functions) => last \subseteq S
    BY <1>2, <1>4, ChainCloses, ChainStays
  <2> QED
    BY <1>3, <2>1
<1>6. Closed(graph, last)
  BY <1>1, <1>5 DEF Closed
<1>7. ASSUME NEW y \in graph[f], NEW h \in Functions, Calls(graph, y, h) PROVE h \in last
  BY <1>5, <1>6, <1>7, CallsFacts
<1>8. ASSUME NEW h \in last PROVE \E y \in graph[f] : Calls(graph, y, h)
  <2>1. PICK S : S = {k \in Functions : \E y \in graph[f] : Calls(graph, y, k)}
    OBVIOUS
  <2>2. graph[f] \subseteq S
    BY <2>1, CallsFacts
  <2>3. ASSUME NEW R \in SUBSET Functions, R \subseteq S PROVE grow[R] \subseteq S
    <3>1. SUFFICES ASSUME NEW k \in R, NEW z \in graph[k] PROVE z \in S
      BY <1>1, <2>3
    <3>2. PICK y \in graph[f] : Calls(graph, y, k)
      BY <2>1, <2>3
    <3>3. Calls(graph, k, z) /\ z \in Functions
      BY CallsFacts
    <3> QED
      BY <2>1, <3>2, <3>3, CallsFacts
  <2> QED
    BY <1>5, <1>8, <2>1, <2>2, <2>3 DEF Confines
<1> QED
  BY <1>3, <1>5, <1>7, <1>8

(***************************************************************************)
(* The stack of functions that wait for their component                    *)
(***************************************************************************)

\* What a sequence holds when a member is added, and when the end is cut off.
LEMMA ElementsFacts ==
    ASSUME NEW S, NEW s \in Seq(S)
    PROVE  /\ Elements(s) \subseteq S
           /\ \A x \in S : Append(s, x) \in Seq(S) /\ Elements(Append(s, x)) = Elements(s) \cup {x}
           /\ \A n \in 0..Len(s) : /\ SubSeq(s, 1, n) \in Seq(S)
                                   /\ DOMAIN SubSeq(s, 1, n) = 1..n
                                   /\ \A i \in 1..n : SubSeq(s, 1, n)[i] = s[i]
                                   /\ Elements(SubSeq(s, 1, n)) = {s[i] : i \in 1..n}
<1>1. Elements(s) \subseteq S
  BY DEF Elements
<1>2. ASSUME NEW x \in S
      PROVE  Append(s, x) \in Seq(S) /\ Elements(Append(s, x)) = Elements(s) \cup {x}
  <2>1. Append(s, x) \in Seq(S) /\ Len(Append(s, x)) = Len(s) + 1
    OBVIOUS
  <2>2. (\A i \in 1..Len(s) : Append(s, x)[i] = s[i]) /\ Append(s, x)[Len(s) + 1] = x
    OBVIOUS
  <2>3. DOMAIN Append(s, x) = 1..(Len(s) + 1) /\ DOMAIN s = 1..Len(s) /\ Len(s) \in Nat
    BY <2>1
  <2>4. \A i \in 1..(Len(s) + 1) : i \in 1..Len(s) \/ i = Len(s) + 1
    BY <2>3
  <2>5. 1..Len(s) \subseteq 1..(Len(s) + 1) /\ Len(s) + 1 \in 1..(Len(s) + 1)
    BY <2>3
  <2> QED
    BY <2>1, <2>2, <2>3, <2>4, <2>5 DEF Elements
<1>3. ASSUME NEW n \in 0..Len(s)
      PROVE  /\ SubSeq(s, 1, n) \in Seq(S)
             /\ DOMAIN SubSeq(s, 1, n) = 1..n
             /\ \A i \in 1..n : SubSeq(s, 1, n)[i] = s[i]
             /\ Elements(SubSeq(s, 1, n)) = {s[i] : i \in 1..n}
  <2>1. PICK t : t = SubSeq(s, 1, n)
    OBVIOUS
  <2>2. t \in Seq(S) /\ DOMAIN t = 1..n /\ \A i \in 1..n : t[i] = s[i]
    BY <2>1
  <2>3. Elements(t) = {s[i] : i \in 1..n}
    BY <2>2 DEF Elements
  <2> QED
    BY <2>1, <2>2, <2>3
<1> QED
  BY <1>1, <1>2, <1>3

\* The end of a sequence without repetition has as many members as places.
LEMMA EndIsCounted ==
    ASSUME NEW S, NEW s \in Seq(S), NEW p \in DOMAIN s,
           \A i, j \in DOMAIN s : i # j => s[i] # s[j]
    PROVE  Cardinality({s[i] : i \in p..Len(s)}) = Len(s) - p + 1
<1>1. PICK n \in Nat : n = Len(s) /\ DOMAIN s = 1..n
  OBVIOUS
<1>2. PICK T : T = {s[i] : i \in p..n}
  OBVIOUS
<1>3. PICK f : f = [i \in p..n |-> s[i]]
  OBVIOUS
<1>4. p \in 1..n /\ \A i \in p..n : i \in 1..n
  BY <1>1
<1>5. f \in Bijection(p..n, T)
  <2>1. f \in [p..n -> T]
    BY <1>2, <1>3
  <2>2. \A i, j \in p..n : f[i] = f[j] => i = j
    BY <1>1, <1>3, <1>4
  <2>3. \A t \in T : \E i \in p..n : f[i] = t
    BY <1>2, <1>3
  <2> QED
    BY <2>1, <2>2, <2>3 DEF Bijection, Injection, Surjection, IsInjective
<1>6. IsFiniteSet(p..n) /\ Cardinality(p..n) = n - p + 1
  <2>1. p \in Int /\ n \in Int /\ ~(p > n)
    BY <1>1, <1>4
  <2> QED
    BY <2>1, FS_Interval
<1>7. ExistsBijection(p..n, T)
  BY <1>5 DEF ExistsBijection
<1>8. Cardinality(T) = Cardinality(p..n)
  BY <1>6, <1>7, FS_Bijection
<1> QED
  BY <1>1, <1>2, <1>6, <1>8

\* The functions on and above a function that waits are those numbered no lower; what
\* is left without them are those numbered lower.
LEMMA StackAbove ==
    ASSUME TypeOK, NumbersOK, NEW node \in Waiting, NEW rest,
           rest = SubSeq(componentStack, 1, Len(componentStack) - Cardinality(MembersFrom(node)))
    PROVE  /\ MembersFrom(node) = {y \in Waiting : index[node] <= index[y]}
           /\ rest \in Seq(Functions)
           /\ Elements(rest) = {y \in Waiting : index[y] < index[node]}
           /\ \A i, j \in DOMAIN rest : i < j => index[rest[i]] < index[rest[j]]
<1>0. PICK s : s = componentStack
  OBVIOUS
<1>1. PICK n \in Nat : n = Len(s) /\ s \in Seq(Functions) /\ DOMAIN s = 1..n
  BY <1>0 DEF TypeOK
<1>2. PICK p \in 1..n : s[p] = node
  BY <1>0, <1>1 DEF Waiting, Elements
<1>3. \A i \in 1..n : s[i] \in Functions /\ index[s[i]] \in Nat
  BY <1>1 DEF TypeOK
<1>4. \A i, j \in 1..n : i < j => index[s[i]] < index[s[j]]
  BY <1>0, <1>1 DEF NumbersOK
<1>5. \A i, j \in 1..n : i # j => s[i] # s[j]
  BY <1>3, <1>4
<1>6. \A i \in 1..n : (p <= i <=> index[node] <= index[s[i]]) /\ (i < p <=> index[s[i]] < index[node])
  BY <1>2, <1>3, <1>4
<1>7. MembersFrom(node) = {s[i] : i \in p..n}
  <2>1. \A j \in 1..n : (\E k \in 1..j : s[k] = node) <=> j \in p..n
    BY <1>2, <1>5
  <2> QED
    BY <1>0, <1>1, <2>1 DEF MembersFrom
<1>8. MembersFrom(node) = {y \in Waiting : index[node] <= index[y]}
  BY <1>0, <1>1, <1>6, <1>7 DEF Waiting, Elements
<1>9. Cardinality(MembersFrom(node)) = n - p + 1
  BY <1>1, <1>2, <1>5, <1>7, EndIsCounted
<1>10. PICK q \in 0..n : q = p - 1
  OBVIOUS
<1>11. rest = SubSeq(s, 1, q) /\ q \in 0..Len(s)
  BY <1>0, <1>1, <1>9, <1>10
<1>12. /\ rest \in Seq(Functions) /\ Elements(rest) = {s[i] : i \in 1..q}
       /\ DOMAIN rest = 1..q /\ \A i \in 1..q : rest[i] = s[i]
  <2>1. \A k \in 0..Len(s) : /\ SubSeq(s, 1, k) \in Seq(Functions)
                             /\ DOMAIN SubSeq(s, 1, k) = 1..k
                             /\ \A i \in 1..k : SubSeq(s, 1, k)[i] = s[i]
                             /\ Elements(SubSeq(s, 1, k)) = {s[i] : i \in 1..k}
    BY <1>1, ElementsFacts
  <2> QED
    BY <1>11, <2>1
<1>13. {s[i] : i \in 1..q} = {y \in Waiting : index[y] < index[node]}
  <2>1. \A i \in 1..n : i \in 1..q <=> index[s[i]] < index[node]
    BY <1>6, <1>10
  <2>2. 1..q \subseteq 1..n
    OBVIOUS
  <2> QED
    BY <1>0, <1>1, <2>1, <2>2 DEF Waiting, Elements
<1>14. \A i, j \in DOMAIN rest : i < j => index[rest[i]] < index[rest[j]]
  <2>1. 1..q \subseteq 1..n
    OBVIOUS
  <2>2. \A i, j \in 1..q : i < j => index[rest[i]] < index[rest[j]]
    BY <1>4, <1>12, <2>1
  <2> QED
    BY <1>12, <2>2
<1> QED
  BY <1>8, <1>12, <1>13, <1>14

(***************************************************************************)
(* The search for components, step by step                                 *)
(***************************************************************************)

\* The next number is above every number given.
LEMMA NextNumber ==
    ASSUME TypeOK, NumbersOK
    PROVE  /\ IsFiniteSet(Discovered) /\ Cardinality(Discovered) \in Nat
           /\ \A g \in Functions : index[g] < Cardinality(Discovered) + 1
<1>1. IsFiniteSet(Functions) /\ Discovered \in SUBSET Functions
  BY CallGraphAssumption DEF Discovered
<1>2. IsFiniteSet(Discovered)
  BY <1>1, FS_Subset
<1>3. Cardinality(Discovered) \in Nat
  BY <1>2, FS_CardinalityType
<1>4. \A g \in Functions : index[g] \in Nat /\ index[g] <= Cardinality(Discovered)
  BY DEF TypeOK, NumbersOK
<1> QED
  BY <1>2, <1>3, <1>4

\* What the discovery of f leaves of the invariant; under is the work stack, perhaps
\* with f taken from callees, and every function that waits calls f.
LEMMA Discovering ==
    ASSUME TarjanInv, NEW f \in Functions, f \notin Discovered,
           NEW under \in Seq([node : Functions, callees : SUBSET Functions]),
           Len(under) = Len(work),
           \A i \in DOMAIN work : /\ under[i].node = Node(i)
                                  /\ under[i].callees \subseteq work[i].callees
                                  /\ work[i].callees \subseteq under[i].callees \cup {f},
           \A x \in Waiting : Calls(graph, x, f),
           Discover(f, under), UNCHANGED <<graph, components>>
    PROVE  /\ index' \in [Functions -> Nat] /\ lowlink' \in [Functions -> Nat]
           /\ componentStack' \in Seq(Functions)
           /\ work' \in Seq([node : Functions, callees : SUBSET Functions])
           /\ Discovered' = Discovered \cup {f}
           /\ NumbersOK' /\ WorkOK' /\ WaitingOK' /\ LowlinkOK' /\ EdgesOK' /\ ComponentsOK'
<1> USE DEF TarjanInv
<1>1. PICK number : number = Cardinality(Discovered) + 1
  OBVIOUS
<1>2. number \in Nat /\ number # 0 /\ \A g \in Functions : index[g] \in Nat /\ index[g] < number
  BY <1>1, NextNumber DEF TypeOK
<1>3. /\ index' \in [Functions -> Nat] /\ lowlink' \in [Functions -> Nat]
      /\ index'[f] = number /\ lowlink'[f] = number
      /\ \A g \in Functions : g # f => index'[g] = index[g] /\ lowlink'[g] = lowlink[g]
  BY <1>1, <1>2 DEF TypeOK, Discover
<1>4. Discovered' = Discovered \cup {f}
  BY <1>2, <1>3 DEF Discovered
<1>5. Cardinality(Discovered') = number
  BY <1>1, <1>4, NextNumber, FS_AddElement
<1>6. /\ componentStack \in Seq(Functions)
      /\ componentStack' = Append(componentStack, f)
      /\ componentStack' \in Seq(Functions)
      /\ Waiting' = Waiting \cup {f} /\ Waiting \subseteq Functions
  BY ElementsFacts DEF TypeOK, Discover, Waiting
<1>7. f \notin Waiting /\ Assigned' = Assigned /\ f \notin Assigned /\ Assigned \subseteq Functions
  BY DEF NumbersOK, Assigned, TypeOK
<1>8. PICK n \in Nat : n = Len(work) /\ DOMAIN work = 1..n
  BY DEF TypeOK
<1>9. /\ work' \in Seq([node : Functions, callees : SUBSET Functions])
      /\ DOMAIN work' = 1..(n + 1)
      /\ \A i \in 1..n : work'[i] = under[i]
      /\ work'[n + 1] = [node |-> f, callees |-> graph[f]]
  <2>1. [node |-> f, callees |-> graph[f]] \in [node : Functions, callees : SUBSET Functions]
    BY DEF TypeOK
  <2> QED
    BY <1>8, <2>1 DEF Discover
<1>10. /\ \A i \in 1..n : /\ work'[i].node = work[i].node
                          /\ work'[i].callees \subseteq work[i].callees
                          /\ work[i].callees \subseteq work'[i].callees \cup {f}
       /\ work'[n + 1].node = f /\ work'[n + 1].callees = graph[f]
  BY <1>8, <1>9 DEF Node
<1>11. /\ \A y \in Waiting : y \in Waiting' /\ y \in Functions /\ y # f
       /\ f \in Waiting' /\ \A y \in Waiting' : y \in Waiting \/ y = f
  BY <1>6, <1>7
<1>12. \A y \in Waiting : /\ index'[y] = index[y] /\ lowlink'[y] = lowlink[y]
                         /\ index[y] \in Nat /\ lowlink[y] \in Nat /\ index[y] < number
  BY <1>2, <1>3, <1>11 DEF TypeOK
<1>19. \A i \in 1..n : work'[i].node = work[i].node /\ work[i].node \in Waiting
  BY <1>8, <1>10 DEF WorkOK, Node
<1>20. work'[n + 1].node = f
  BY <1>10
<1>21. \A i \in 1..(n + 1) : i \in 1..n \/ i = n + 1
  OBVIOUS
<1>13. NumbersOK'
  <2>1. ASSUME NEW g \in Functions PROVE index'[g] <= number
    <3>1. CASE g = f
      BY <1>2, <1>3, <3>1
    <3>2. CASE g # f
      <4>1. index'[g] = index[g] /\ index[g] \in Nat /\ index[g] < number
        BY <1>2, <1>3, <3>2
      <4> QED
        BY <1>2, <4>1
    <3> QED
      BY <3>1, <3>2
  <2>2. Discovered' = Waiting' \cup Assigned' /\ Waiting' \cap Assigned' = {}
    BY <1>4, <1>6, <1>7 DEF NumbersOK
  <2>3. ASSUME NEW i \in DOMAIN componentStack', NEW j \in DOMAIN componentStack', i < j
        PROVE  index'[componentStack'[i]] < index'[componentStack'[j]]
    <3>1. PICK m \in Nat : m = Len(componentStack) /\ DOMAIN componentStack = 1..m
      BY <1>6
    <3>2. /\ DOMAIN componentStack' = 1..(m + 1) /\ componentStack'[m + 1] = f
          /\ \A k \in 1..m : componentStack'[k] = componentStack[k]
      BY <1>6, <3>1
    <3>3. i \in 1..m /\ (j \in 1..m \/ j = m + 1)
      BY <2>3, <3>2
    <3>4. \A k \in 1..m : componentStack[k] \in Functions /\ componentStack[k] # f
      BY <1>6, <1>7, <3>1 DEF Waiting, Elements
    <3>5. CASE j \in 1..m
      <4>1. index[componentStack[i]] < index[componentStack[j]]
        BY <2>3, <3>1, <3>3, <3>5 DEF NumbersOK
      <4> QED
        BY <1>3, <3>2, <3>3, <3>4, <3>5, <4>1
    <3>6. CASE j = m + 1
      BY <1>2, <1>3, <3>2, <3>3, <3>4, <3>6
    <3> QED
      BY <3>3, <3>5, <3>6
  <2> QED
    BY <1>5, <2>1, <2>2, <2>3 DEF NumbersOK
<1>14. WorkOK'
  <2>1. ASSUME NEW i \in 1..(n + 1)
        PROVE  work'[i].node \in Waiting' /\ work'[i].callees \subseteq graph[work'[i].node]
    <3>1. \A k \in 1..n : work[k].callees \subseteq graph[work[k].node]
      BY <1>8 DEF WorkOK, Node
    <3> QED
      BY <1>10, <1>11, <1>19, <1>21, <3>1
  <2>2. ASSUME NEW i \in 1..(n + 1), NEW j \in 1..(n + 1), i < j
        PROVE  index'[work'[i].node] < index'[work'[j].node]
    <3>1. i \in 1..n
      BY <2>2
    <3>2. CASE j \in 1..n
      <4>1. index[work[i].node] < index[work[j].node]
        BY <1>8, <2>2, <3>1, <3>2 DEF WorkOK, Node
      <4> QED
        BY <1>12, <1>19, <3>1, <3>2, <4>1
    <3>3. CASE j = n + 1
      BY <1>3, <1>12, <1>19, <1>20, <3>1, <3>3
    <3> QED
      BY <1>21, <3>2, <3>3
  <2>3. graph' = graph
    OBVIOUS
  <2> QED
    BY <1>9, <2>1, <2>2, <2>3 DEF WorkOK, Node
<1>15. WaitingOK'
  <2>1. ASSUME NEW x \in Waiting', NEW y \in Waiting', index'[x] <= index'[y]
        PROVE  Calls(graph, x, y)
    <3>1. CASE y = f
      BY <1>11, <3>1, CallsFacts DEF TypeOK
    <3>2. CASE y # f
      <4>1. y \in Waiting
        BY <1>11, <3>2
      <4>2. x # f
        BY <1>2, <1>3, <1>12, <2>1, <4>1
      <4>3. x \in Waiting
        BY <1>11, <4>2
      <4>4. index[x] <= index[y]
        BY <1>12, <2>1, <4>1, <4>3
      <4> QED
        BY <4>1, <4>3, <4>4 DEF WaitingOK
    <3> QED
      BY <3>1, <3>2
  <2>2. ASSUME NEW y \in Waiting'
        PROVE  \E i \in 1..(n + 1) : index'[work'[i].node] <= index'[y] /\ Calls(graph, y, work'[i].node)
    <3>1. CASE y = f
      <4>1. Calls(graph, f, f)
        BY CallsFacts DEF TypeOK
      <4>2. n + 1 \in 1..(n + 1) /\ index'[work'[n + 1].node] <= index'[y]
        BY <1>2, <1>3, <1>20, <3>1
      <4> QED
        BY <1>20, <3>1, <4>1, <4>2
    <3>2. CASE y # f
      <4>1. y \in Waiting
        BY <1>11, <3>2
      <4>2. PICK i \in 1..n : index[work[i].node] <= index[y] /\ Calls(graph, y, work[i].node)
        BY <1>8, <4>1 DEF WaitingOK, Node
      <4>3. i \in 1..(n + 1) /\ index'[work'[i].node] <= index'[y] /\ Calls(graph, y, work'[i].node)
        BY <1>12, <1>19, <4>1, <4>2
      <4> QED
        BY <4>3
    <3> QED
      BY <3>1, <3>2
  <2>3. graph' = graph
    OBVIOUS
  <2> QED
    BY <1>9, <2>1, <2>2, <2>3 DEF WaitingOK, Node, Calls, Closed
<1>16. LowlinkOK'
  <2>1. ASSUME NEW i \in 1..(n + 1)
        PROVE  /\ lowlink'[work'[i].node] <= index'[work'[i].node]
               /\ \E w \in Waiting' : /\ index'[w] = lowlink'[work'[i].node]
                                      /\ Calls(graph, work'[i].node, w)
    <3>1. CASE i \in 1..n
      <4>1. PICK w \in Waiting : /\ lowlink[work[i].node] <= index[work[i].node]
                                 /\ index[w] = lowlink[work[i].node]
                                 /\ Calls(graph, work[i].node, w)
        BY <1>8, <3>1 DEF LowlinkOK, Node
      <4> QED
        BY <1>11, <1>12, <1>19, <3>1, <4>1
    <3>2. CASE i = n + 1
      <4>1. Calls(graph, f, f)
        BY CallsFacts DEF TypeOK
      <4>2. lowlink'[f] <= index'[f] /\ index'[f] = lowlink'[f]
        BY <1>2, <1>3
      <4> QED
        BY <1>11, <1>20, <3>2, <4>1, <4>2
    <3> QED
      BY <1>21, <3>1, <3>2
  <2>2. graph' = graph
    OBVIOUS
  <2> QED
    BY <1>9, <2>1, <2>2 DEF LowlinkOK, Node, Calls, Closed
<1>17. EdgesOK'
  <2>1. SUFFICES ASSUME NEW i \in DOMAIN work', NEW y \in Waiting', Above(y, i)',
                        NEW z \in LookedAt(y, i)'
                 PROVE  z \in Assigned' \/ (z \in Waiting' /\ lowlink'[work'[i].node] <= index'[z])
    BY DEF EdgesOK, Node
  <2>2. /\ index'[work'[i].node] <= index'[y]
        /\ i + 1 \in 1..(n + 1) => index'[y] < index'[work'[i + 1].node]
        /\ z \in (IF y = work'[i].node THEN graph[y] \ work'[i].callees ELSE graph[y])
    BY <1>9, <2>1 DEF Above, LookedAt, Node
  <2>3. CASE i = n + 1
    <3>1. y = f
      BY <1>2, <1>3, <1>11, <1>12, <1>20, <2>2, <2>3
    <3> QED
      BY <1>10, <2>2, <2>3, <3>1
  <2>4. CASE i \in 1..n
    <3>1. i + 1 \in 1..(n + 1)
      BY <2>4
    <3>2. index'[work'[i + 1].node] <= number
      <4>1. CASE i + 1 \in 1..n
        BY <1>2, <1>12, <1>19, <4>1
      <4>2. CASE i + 1 = n + 1
        BY <1>2, <1>3, <1>20, <4>2
      <4> QED
        BY <1>21, <3>1, <4>1, <4>2
    <3>3. y # f
      <4>1. index'[work'[i + 1].node] \in Nat /\ index'[y] < index'[work'[i + 1].node]
        BY <1>3, <1>11, <1>19, <1>20, <1>21, <2>2, <3>1
      <4> QED
        BY <1>2, <1>3, <3>2, <4>1
    <3>4. y \in Waiting
      BY <1>11, <3>3
    <3>5. Above(y, i)
      <4>1. index[work[i].node] <= index[y]
        BY <1>12, <1>19, <2>2, <2>4, <3>4
      <4>2. ASSUME i + 1 \in 1..n PROVE index[y] < index[work[i + 1].node]
        BY <1>12, <1>19, <2>2, <3>1, <3>4, <4>2
      <4> QED
        BY <1>8, <4>1, <4>2 DEF Above, Node
    <3>6. z = f \/ z \in LookedAt(y, i)
      BY <1>10, <2>2, <2>4 DEF LookedAt, Node
    <3>7. CASE z = f
      <4>1. lowlink[work[i].node] <= index[work[i].node]
        BY <1>8, <2>4 DEF LowlinkOK, Node
      <4>2. lowlink'[work'[i].node] <= number
        BY <1>2, <1>12, <1>19, <2>4, <4>1
      <4> QED
        BY <1>3, <1>11, <3>7, <4>2
    <3>8. CASE z \in LookedAt(y, i)
      <4>1. z \in Assigned \/ (z \in Waiting /\ lowlink[work[i].node] <= index[z])
        BY <1>8, <2>4, <3>4, <3>5, <3>8 DEF EdgesOK, Node
      <4> QED
        BY <1>7, <1>11, <1>12, <1>19, <2>4, <4>1
    <3> QED
      BY <3>6, <3>7, <3>8
  <2> QED
    BY <1>9, <1>21, <2>3, <2>4
<1>18. ComponentsOK'
  BY DEF ComponentsOK, Mutual, Calls, Closed, Assigned
<1> QED
  BY <1>3, <1>4, <1>6, <1>9, <1>13, <1>14, <1>15, <1>16, <1>17, <1>18

\* With an empty work stack no function waits.
LEMMA NothingWaits ==
    ASSUME TarjanInv, work = <<>>
    PROVE  Waiting = {}
BY DEF TarjanInv, WaitingOK

\* What does not change when the variables of the search stay as they are.
LEMMA SearchStands ==
    ASSUME TypeOK, NumbersOK, WorkOK, WaitingOK, LowlinkOK, EdgesOK, ComponentsOK,
           UNCHANGED <<graph, alreadyReported, tarjanVars>>
    PROVE  NumbersOK' /\ WorkOK' /\ WaitingOK' /\ LowlinkOK' /\ EdgesOK' /\ ComponentsOK'
<1>1. UNCHANGED <<graph, index, lowlink, componentStack, work, components>>
  BY DEF tarjanVars
<1>2. NumbersOK'
  BY <1>1 DEF NumbersOK, Discovered, Waiting, Elements, Assigned
<1>3. WorkOK'
  BY <1>1 DEF WorkOK, Waiting, Elements, Node
<1>4. WaitingOK'
  BY <1>1 DEF WaitingOK, Waiting, Elements, Node, Calls, Closed
<1>5. LowlinkOK'
  BY <1>1 DEF LowlinkOK, Waiting, Elements, Node, Calls, Closed
<1>6. EdgesOK'
  BY <1>1 DEF EdgesOK, Waiting, Elements, Assigned, Node, Above, LookedAt
<1>7. ComponentsOK'
  BY <1>1 DEF ComponentsOK, Assigned, Mutual, Calls, Closed
<1> QED
  BY <1>2, <1>3, <1>4, <1>5, <1>6, <1>7

\* A root is discovered, or was a callee.
LEMMA NextRootStep ==
    ASSUME TarjanInv, NextRoot
    PROVE  TarjanInv'
<1> USE DEF TarjanInv
<1>1. /\ phase = "components" /\ phase' = phase /\ work = <<>>
      /\ next \in DOMAIN Order /\ next' = next + 1
      /\ UNCHANGED <<graph, alreadyReported, components>>
  BY DEF NextRoot, inputVars
<1>2. PICK f \in Functions : f = Order[next]
  BY <1>1, CallGraphAssumption
<1>3. DOMAIN Order = 1..Cardinality(Functions) /\ Cardinality(Functions) \in Nat
  BY CallGraphAssumption, FS_CardinalityType
<1>4. next' \in 1..(Cardinality(Functions) + 1)
  BY <1>1, <1>3
<1>5. ASSUME Discovered \subseteq Discovered', f \in Discovered' PROVE RootsOK'
  BY <1>1, <1>2, <1>3, <1>5 DEF RootsOK
<1>6. CASE f \in Discovered
  <2>1. UNCHANGED <<graph, alreadyReported, tarjanVars>>
    BY <1>1, <1>2, <1>6 DEF NextRoot, tarjanVars
  <2>2. NumbersOK' /\ WorkOK' /\ WaitingOK' /\ LowlinkOK' /\ EdgesOK' /\ ComponentsOK'
    BY <2>1, SearchStands
  <2>3. Discovered' = Discovered
    BY <2>1 DEF tarjanVars, Discovered
  <2>4. TypeOK'
    BY <1>1, <1>4, <2>1 DEF TypeOK, tarjanVars
  <2> QED
    BY <1>5, <1>6, <2>2, <2>3, <2>4
<1>7. CASE f \notin Discovered
  <2>1. PICK under \in Seq([node : Functions, callees : SUBSET Functions]) : under = work
    BY DEF TypeOK
  <2>2. Discover(f, under)
    BY <1>2, <1>7, <2>1 DEF NextRoot
  <2>3. \A x \in Waiting : Calls(graph, x, f)
    BY <1>1, NothingWaits
  <2>4. /\ Len(under) = Len(work)
        /\ \A i \in DOMAIN work : /\ under[i].node = Node(i)
                                  /\ under[i].callees \subseteq work[i].callees
                                  /\ work[i].callees \subseteq under[i].callees \cup {f}
    BY <2>1 DEF Node
  <2>5. /\ index' \in [Functions -> Nat] /\ lowlink' \in [Functions -> Nat]
        /\ componentStack' \in Seq(Functions)
        /\ work' \in Seq([node : Functions, callees : SUBSET Functions])
        /\ Discovered' = Discovered \cup {f}
        /\ NumbersOK' /\ WorkOK' /\ WaitingOK' /\ LowlinkOK' /\ EdgesOK' /\ ComponentsOK'
    BY <1>1, <1>7, <2>2, <2>3, <2>4, Discovering
  <2>6. TypeOK'
    BY <1>1, <1>4, <2>5 DEF TypeOK
  <2> QED
    BY <1>5, <2>5, <2>6
<1> QED
  BY <1>6, <1>7

\* A set of numbers that is not empty has a least member.
LEMMA LeastIsMember ==
    ASSUME NEW S \in SUBSET Functions, S # {}
    PROVE  Least(S) \in S /\ \A y \in S : Least(S) <= y
<1>1. PICK Less : Less = OpToRel(<, Nat)
  OBVIOUS
<1>2. \A m, n \in Nat : <<m, n>> \in Less <=> m < n
  BY <1>1 DEF OpToRel
<1>3. S \subseteq Nat
  BY CallGraphAssumption
<1>4. PICK x \in S : \A y \in S : <<y, x>> \notin Less
  BY <1>1, <1>3, NatLessThanWellFounded, WFMin
<1>5. ASSUME NEW y \in S PROVE x <= y
  <2>1. x \in Nat /\ y \in Nat
    BY <1>3
  <2>2. ~(y < x)
    BY <1>2, <1>4, <2>1
  <2> QED
    BY <2>1, <2>2
<1> QED
  BY <1>5 DEF Least

\* A callee is discovered, or lowers the lowlink of its caller if it waits.
LEMMA NextCalleeStep ==
    ASSUME TarjanInv, NextCallee
    PROVE  TarjanInv'
<1> USE DEF TarjanInv
<1>1. /\ UNCHANGED <<graph, alreadyReported, phase, next, components>> /\ work # <<>>
      /\ Last(work).callees # {}
  BY DEF NextCallee, inputVars
<1>2. PICK n \in Nat \ {0} : n = Len(work) /\ DOMAIN work = 1..n
  BY <1>1 DEF TypeOK
<1>3. PICK top : top = Last(work)
  OBVIOUS
<1>4. top = work[n] /\ top \in [node : Functions, callees : SUBSET Functions]
      /\ top.node \in Functions /\ top.callees \subseteq Functions /\ top.callees # {}
  <2>1. work[n] \in [node : Functions, callees : SUBSET Functions]
    <3>1. PICK R : R = [node : Functions, callees : SUBSET Functions]
      OBVIOUS
    <3>2. work \in Seq(R) /\ n \in DOMAIN work
      BY <1>2, <3>1 DEF TypeOK
    <3>3. work[n] \in R
      BY <3>2
    <3> QED
      BY <3>1, <3>3
  <2>2. top = work[n]
    BY <1>2, <1>3 DEF Last
  <2> QED
    BY <1>1, <1>3, <2>1, <2>2
<1>5. PICK callee \in Functions : callee = Least(top.callees) /\ callee \in top.callees
  BY <1>4, LeastIsMember
<1>6. callee \in graph[top.node] /\ top.node \in Waiting
  BY <1>2, <1>4, <1>5 DEF WorkOK, Node
<1>7. PICK rest : rest = [work EXCEPT ![Len(work)].callees = top.callees \ {callee}]
  OBVIOUS
<1>8. /\ rest \in Seq([node : Functions, callees : SUBSET Functions])
      /\ Len(rest) = n /\ DOMAIN rest = 1..n
      /\ \A i \in 1..n : /\ rest[i].node = work[i].node
                         /\ rest[i].callees \subseteq work[i].callees
                         /\ work[i].callees \subseteq rest[i].callees \cup {callee}
                         /\ i # n => rest[i] = work[i]
  <2>1. work \in Seq([node : Functions, callees : SUBSET Functions])
    BY DEF TypeOK
  <2>2. work[n] \in [node : Functions, callees : SUBSET Functions]
    BY <1>4
  <2>3. PICK last : last = [work[n] EXCEPT !.callees = top.callees \ {callee}]
    OBVIOUS
  <2>4. /\ last \in [node : Functions, callees : SUBSET Functions]
        /\ last.node = work[n].node /\ last.callees = top.callees \ {callee}
    BY <1>2, <1>4, <2>2, <2>3
  <2>5. rest = [work EXCEPT ![n] = last]
    BY <1>2, <1>7, <2>3
  <2>6. rest \in Seq([node : Functions, callees : SUBSET Functions]) /\ Len(rest) = n /\ DOMAIN rest = 1..n
    BY <1>2, <2>1, <2>4, <2>5
  <2>7. \A i \in 1..n : rest[i] = IF i = n THEN last ELSE work[i]
    BY <1>2, <2>5
  <2> QED
    BY <1>4, <2>4, <2>6, <2>7
<1>9. CASE callee \notin Discovered
  <2>1. Discover(callee, rest)
    BY <1>3, <1>5, <1>7, <1>9 DEF NextCallee, IteratorRest
  <2>2. ASSUME NEW x \in Waiting PROVE Calls(graph, x, callee)
    <3>1. PICK i \in 1..n : Calls(graph, x, work[i].node)
      BY <1>2 DEF WaitingOK, Node
    <3>2. index[work[i].node] <= index[work[n].node] /\ work[i].node \in Waiting
      <4>1. index[work[n].node] \in Nat
        BY <1>4 DEF TypeOK
      <4>2. i = n \/ i < n
        BY <1>2
      <4>3. i < n => index[work[i].node] < index[work[n].node]
        BY <1>2 DEF WorkOK, Node
      <4>4. work[i].node \in Waiting /\ index[work[i].node] \in Nat
        BY <1>2, ElementsFacts DEF WorkOK, Node, TypeOK, Waiting
      <4> QED
        BY <4>1, <4>2, <4>3, <4>4
    <3>3. Calls(graph, work[i].node, top.node)
      BY <1>4, <1>6, <3>2 DEF WaitingOK
    <3>4. Calls(graph, top.node, callee)
      BY <1>4, <1>6, CallsFacts DEF TypeOK
    <3> QED
      BY <3>1, <3>3, <3>4, CallsFacts DEF TypeOK
  <2>3. /\ Len(rest) = Len(work)
        /\ \A i \in DOMAIN work : /\ rest[i].node = Node(i)
                                  /\ rest[i].callees \subseteq work[i].callees
                                  /\ work[i].callees \subseteq rest[i].callees \cup {callee}
    BY <1>2, <1>8 DEF Node
  <2>4. /\ index' \in [Functions -> Nat] /\ lowlink' \in [Functions -> Nat]
        /\ componentStack' \in Seq(Functions)
        /\ work' \in Seq([node : Functions, callees : SUBSET Functions])
        /\ Discovered' = Discovered \cup {callee}
        /\ NumbersOK' /\ WorkOK' /\ WaitingOK' /\ LowlinkOK' /\ EdgesOK' /\ ComponentsOK'
    BY <1>1, <1>8, <1>9, <2>1, <2>2, <2>3, Discovering
  <2>5. TypeOK'
    BY <1>1, <2>4 DEF TypeOK
  <2>6. RootsOK'
    BY <1>1, <2>4 DEF RootsOK
  <2> QED
    BY <2>4, <2>5, <2>6
<1>10. CASE callee \in Discovered
  <2>1. /\ work' = rest /\ UNCHANGED <<index, componentStack>>
        /\ lowlink' = [lowlink EXCEPT ![top.node] =
              IF OnStack(callee) /\ index[callee] < lowlink[top.node]
              THEN index[callee] ELSE lowlink[top.node]]
    BY <1>3, <1>5, <1>7, <1>10 DEF NextCallee, IteratorRest
  <2>2. Waiting' = Waiting /\ Assigned' = Assigned /\ Discovered' = Discovered /\ Waiting \subseteq Functions
    BY <1>1, <2>1, ElementsFacts DEF Waiting, Assigned, Discovered, TypeOK
  <2>3. /\ lowlink' \in [Functions -> Nat]
        /\ \A g \in Functions : lowlink'[g] <= lowlink[g] /\ (g # top.node => lowlink'[g] = lowlink[g])
        /\ \/ lowlink'[top.node] = lowlink[top.node]
           \/ callee \in Waiting /\ lowlink'[top.node] = index[callee]
        /\ callee \in Waiting => lowlink'[top.node] <= index[callee]
    BY <1>4, <2>1 DEF TypeOK, OnStack, Waiting
  <2>4. \A i \in 1..n : work'[i].node = work[i].node /\ work[i].node \in Waiting /\ work[i].node \in Functions
    BY <1>2, <1>8, <2>1, <2>2 DEF WorkOK, Node
  <2>5. DOMAIN work' = 1..n
    BY <1>8, <2>1
  <2>6. \A g \in Functions : index[g] \in Nat /\ lowlink[g] \in Nat /\ lowlink'[g] \in Nat
    BY <2>3 DEF TypeOK
  <2>7. TypeOK'
    BY <1>1, <1>8, <2>1, <2>3 DEF TypeOK
  <2>8. NumbersOK'
    BY <2>1, <2>2 DEF NumbersOK
  <2>9. WorkOK'
    <3>1. \A i \in 1..n : work'[i].node \in Waiting' /\ work'[i].callees \subseteq graph'[work'[i].node]
      BY <1>1, <1>2, <1>8, <2>1, <2>2 DEF WorkOK, Node
    <3>2. \A i, j \in 1..n : i < j => index'[work'[i].node] < index'[work'[j].node]
      BY <1>2, <2>1, <2>4 DEF WorkOK, Node
    <3> QED
      BY <2>5, <3>1, <3>2 DEF WorkOK, Node
  <2>10. WaitingOK'
    <3>1. \A x, y \in Waiting : index'[x] <= index'[y] => Calls(graph, x, y)
      BY <2>1 DEF WaitingOK
    <3>2. \A y \in Waiting : \E i \in 1..n : index'[work'[i].node] <= index'[y] /\ Calls(graph, y, work'[i].node)
      BY <1>2, <2>1, <2>4 DEF WaitingOK, Node
    <3> QED
      BY <1>1, <2>2, <2>5, <3>1, <3>2 DEF WaitingOK, Node, Calls, Closed
  <2>11. LowlinkOK'
    <3>1. ASSUME NEW i \in 1..n
          PROVE  /\ lowlink'[work[i].node] <= index[work[i].node]
                 /\ \E w \in Waiting : index[w] = lowlink'[work[i].node] /\ Calls(graph, work[i].node, w)
      <4>1. /\ lowlink[work[i].node] <= index[work[i].node]
            /\ \E w \in Waiting : index[w] = lowlink[work[i].node] /\ Calls(graph, work[i].node, w)
        BY <1>2 DEF LowlinkOK, Node
      <4>2. lowlink'[work[i].node] <= index[work[i].node]
        BY <2>3, <2>4, <2>6, <4>1
      <4>3. CASE lowlink'[work[i].node] = lowlink[work[i].node]
        BY <4>1, <4>2, <4>3
      <4>4. CASE lowlink'[work[i].node] # lowlink[work[i].node]
        <5>1. work[i].node = top.node
          BY <2>3, <2>4, <4>4
        <5>2. callee \in Waiting /\ lowlink'[top.node] = index[callee]
          BY <2>3, <4>4, <5>1
        <5>3. Calls(graph, top.node, callee)
          BY <1>4, <1>6, CallsFacts DEF TypeOK
        <5> QED
          BY <4>2, <5>1, <5>2, <5>3
      <4> QED
        BY <4>3, <4>4
    <3> QED
      BY <1>1, <2>1, <2>2, <2>4, <2>5, <3>1 DEF LowlinkOK, Node, Calls, Closed
  <2>12. EdgesOK'
    <3>1. SUFFICES ASSUME NEW i \in DOMAIN work', NEW y \in Waiting', Above(y, i)',
                          NEW z \in LookedAt(y, i)'
                   PROVE  z \in Assigned \/ (z \in Waiting /\ lowlink'[work[i].node] <= index[z])
      BY <2>1, <2>2, <2>4, <2>5 DEF EdgesOK, Node
    <3>2. i \in 1..n /\ y \in Waiting
      BY <2>2, <2>5, <3>1
    <3>3. Above(y, i)
      BY <1>2, <2>1, <2>4, <2>5, <3>1, <3>2 DEF Above, Node
    <3>4. \/ z \in LookedAt(y, i)
          \/ i = n /\ y = top.node /\ z = callee
      <4>1. z \in (IF y = work[i].node THEN graph[y] \ rest[i].callees ELSE graph[y])
        BY <1>1, <2>1, <2>4, <3>1, <3>2 DEF LookedAt, Node
      <4> QED
        BY <1>4, <1>8, <3>2, <4>1 DEF LookedAt, Node
    <3>5. CASE z \in LookedAt(y, i)
      <4>1. z \in Assigned \/ (z \in Waiting /\ lowlink[work[i].node] <= index[z])
        BY <1>2, <3>2, <3>3, <3>5 DEF EdgesOK, Node
      <4>2. lowlink'[work[i].node] <= lowlink[work[i].node]
        BY <2>3, <2>4, <3>2
      <4> QED
        BY <2>2, <2>4, <2>6, <3>2, <4>1, <4>2
    <3>6. CASE i = n /\ y = top.node /\ z = callee
      BY <1>4, <1>10, <2>3, <3>6 DEF NumbersOK
    <3> QED
      BY <3>4, <3>5, <3>6
  <2>13. ComponentsOK'
    BY <1>1 DEF ComponentsOK, Mutual, Calls, Closed, Assigned
  <2>14. RootsOK'
    <3>1. phase = "components"
      BY <1>1 DEF RootsOK
    <3> QED
      BY <1>1, <2>2, <3>1 DEF RootsOK
  <2> QED
    BY <2>7, <2>8, <2>9, <2>10, <2>11, <2>12, <2>13, <2>14
<1> QED
  BY <1>9, <1>10

\* What a finished node on top of the work stack says of the stack: it calls the
\* functions above it, their callees have a component or wait no lower than its
\* lowlink, and the function below it, if any, calls it.
LEMMA TopOfWork ==
    ASSUME TarjanInv, work # <<>>, Last(work).callees = {}, NEW node, node = Last(work).node
    PROVE  /\ Len(work) \in Nat /\ Len(work) > 0 /\ DOMAIN work = 1..Len(work)
           /\ node \in Waiting /\ node \in Functions /\ node = work[Len(work)].node
           /\ \A i \in 1..(Len(work) - 1) : /\ work[i].node \in Waiting /\ work[i].node # node
                                            /\ index[work[i].node] < index[node]
           /\ \A y \in Waiting : index[node] <= index[y] =>
                  /\ Calls(graph, node, y)
                  /\ \A z \in graph[y] : z \in Assigned \/ (z \in Waiting /\ lowlink[node] <= index[z])
           /\ lowlink[node] <= index[node]
           /\ \E w \in Waiting : index[w] = lowlink[node] /\ Calls(graph, node, w)
<1> USE DEF TarjanInv
<1>1. PICK n \in Nat \ {0} : n = Len(work) /\ DOMAIN work = 1..n
  BY DEF TypeOK
<1>2. node = work[n].node /\ work[n].callees = {}
  BY <1>1 DEF Last
<1>3. node \in Waiting /\ node \in Functions /\ Waiting \subseteq Functions
  BY <1>1, <1>2, ElementsFacts DEF WorkOK, Node, Waiting, TypeOK
<1>4. \A g \in Functions : index[g] \in Nat
  BY DEF TypeOK
<1>5. ASSUME NEW i \in 1..(n - 1)
      PROVE  work[i].node \in Waiting /\ work[i].node # node /\ index[work[i].node] < index[node]
  <2>1. i \in 1..n /\ n \in 1..n /\ i < n
    BY <1>1
  <2>2. work[i].node \in Waiting /\ index[work[i].node] < index[node]
    BY <1>1, <1>2, <2>1 DEF WorkOK, Node
  <2> QED
    BY <1>3, <1>4, <2>2
<1>6. ASSUME NEW y \in Waiting, index[node] <= index[y]
      PROVE  /\ Calls(graph, node, y)
             /\ \A z \in graph[y] : z \in Assigned \/ (z \in Waiting /\ lowlink[node] <= index[z])
  <2>1. Above(y, n)
    BY <1>1, <1>2, <1>6 DEF Above, Node
  <2>2. LookedAt(y, n) = graph[y]
    BY <1>2 DEF LookedAt
  <2>3. n \in DOMAIN work
    BY <1>1
  <2>4. \A z \in LookedAt(y, n) : z \in Assigned \/ (z \in Waiting /\ lowlink[Node(n)] <= index[z])
    BY <2>1, <2>3 DEF EdgesOK
  <2> QED
    BY <1>2, <1>3, <1>6, <2>2, <2>4 DEF WaitingOK, Node
<1>7. /\ lowlink[node] <= index[node]
      /\ \E w \in Waiting : index[w] = lowlink[node] /\ Calls(graph, node, w)
  <2>1. n \in DOMAIN work
    BY <1>1
  <2> QED
    BY <1>2, <2>1 DEF LowlinkOK, Node
<1> QED
  BY <1>1, <1>2, <1>3, <1>5, <1>6, <1>7

\* The work stack without its top.
LEMMA FrontFacts ==
    ASSUME NEW R, NEW s \in Seq(R), s # <<>>
    PROVE  /\ Front(s) \in Seq(R) /\ DOMAIN Front(s) = 1..(Len(s) - 1)
           /\ \A i \in 1..(Len(s) - 1) : Front(s)[i] = s[i]
<1>1. PICK n \in Nat : n = Len(s) - 1 /\ n \in 0..Len(s)
  OBVIOUS
<1>2. PICK t : t = SubSeq(s, 1, n)
  OBVIOUS
<1>3. t \in Seq(R) /\ DOMAIN t = 1..n /\ \A i \in 1..n : t[i] = s[i]
  BY <1>1, <1>2
<1> QED
  BY <1>1, <1>2, <1>3 DEF Front

\* A node whose lowlink is its own number closes a component, which the stack loses.
LEMMA PoppedStep ==
    ASSUME TarjanInv, FinishNode, NEW node, node = Last(work).node, lowlink[node] = index[node]
    PROVE  TarjanInv'
<1> USE DEF TarjanInv
<1>1. /\ UNCHANGED <<graph, alreadyReported, phase, next, index>>
      /\ work # <<>> /\ Last(work).callees = {} /\ work' = Front(work)
      /\ components' = components \cup {MembersFrom(node)}
      /\ componentStack' = SubSeq(componentStack, 1, Len(componentStack) - Cardinality(MembersFrom(node)))
  BY DEF FinishNode, inputVars
<1>2. PICK n \in Nat \ {0} : n = Len(work) /\ DOMAIN work = 1..n
  <2>1. work # <<>> /\ work \in Seq([node : Functions, callees : SUBSET Functions])
    BY <1>1 DEF TypeOK
  <2> QED
    BY <2>1
<1>3. /\ node \in Waiting /\ node \in Functions /\ node = work[n].node
      /\ \A i \in 1..(n - 1) : /\ work[i].node \in Waiting /\ work[i].node # node
                               /\ index[work[i].node] < index[node]
      /\ \A y \in Waiting : index[node] <= index[y] =>
             /\ Calls(graph, node, y)
             /\ \A z \in graph[y] : z \in Assigned \/ (z \in Waiting /\ index[node] <= index[z])
  BY <1>1, <1>2, TopOfWork
<1>4. PICK M : M = MembersFrom(node)
  OBVIOUS
<1>5. /\ M = {y \in Waiting : index[node] <= index[y]}
      /\ componentStack' \in Seq(Functions)
      /\ Waiting' = {y \in Waiting : index[y] < index[node]}
      /\ \A i, j \in DOMAIN componentStack' :
             i < j => index[componentStack'[i]] < index[componentStack'[j]]
  BY <1>1, <1>3, <1>4, StackAbove DEF Waiting
<1>6. Waiting \subseteq Functions /\ \A y \in Functions : index[y] \in Nat /\ lowlink[y] \in Nat
  BY ElementsFacts DEF TypeOK, Waiting
<1>7. Waiting = Waiting' \cup M /\ Waiting' \cap M = {} /\ node \in M /\ M \subseteq Functions
  BY <1>3, <1>5, <1>6
<1>8. Assigned' = Assigned \cup M
  BY <1>1, <1>4 DEF Assigned
<1>9. /\ work' \in Seq([node : Functions, callees : SUBSET Functions])
      /\ DOMAIN work' = 1..(n - 1) /\ \A i \in 1..(n - 1) : work'[i] = work[i]
  <2>1. PICK R : R = [node : Functions, callees : SUBSET Functions]
    OBVIOUS
  <2>2. work \in Seq(R)
    BY <2>1 DEF TypeOK
  <2> QED
    BY <1>1, <1>2, <2>1, <2>2, FrontFacts
<1>10. lowlink' = lowlink
  <2>1. CASE n = 1
    BY <1>2, <2>1 DEF FinishNode
  <2>2. CASE n # 1
    <3>1. n - 1 \in 1..(n - 1) /\ n - 1 \in 1..n
      BY <2>2
    <3>2. lowlink[work[n - 1].node] <= index[work[n - 1].node]
      BY <1>2, <3>1 DEF LowlinkOK, Node
    <3>3. work[n - 1].node \in Functions /\ index[work[n - 1].node] < index[node]
      BY <1>3, <1>6, <3>1
    <3>4. ~(lowlink[node] < lowlink[work[n - 1].node])
      BY <1>3, <1>6, <3>2, <3>3
    <3>5. lowlink' = InheritLowlink(work[n - 1].node, node)
      BY <1>2, <2>2 DEF FinishNode
    <3> QED
      BY <3>3, <3>4, <3>5 DEF InheritLowlink, TypeOK
  <2> QED
    BY <2>1, <2>2
<1>11. TypeOK'
  BY <1>1, <1>4, <1>5, <1>7, <1>9, <1>10 DEF TypeOK
<1>12. NumbersOK'
  <2>1. Discovered' = Discovered
    BY <1>1 DEF Discovered
  <2>2. Discovered' = Waiting' \cup Assigned' /\ Waiting' \cap Assigned' = {}
    BY <1>7, <1>8, <2>1 DEF NumbersOK
  <2> QED
    BY <1>1, <1>5, <2>1, <2>2 DEF NumbersOK
<1>13. \A i \in 1..(n - 1) : i \in 1..n /\ work'[i] = work[i] /\ work[i].node \in Waiting'
  BY <1>3, <1>5, <1>9
<1>14. WorkOK'
  <2>1. \A i \in 1..(n - 1) : work'[i].node \in Waiting' /\ work'[i].callees \subseteq graph'[work'[i].node]
    BY <1>1, <1>2, <1>13 DEF WorkOK, Node
  <2>2. \A i, j \in 1..(n - 1) : i < j => index'[work'[i].node] < index'[work'[j].node]
    BY <1>1, <1>2, <1>13 DEF WorkOK, Node
  <2> QED
    BY <1>9, <2>1, <2>2 DEF WorkOK, Node
<1>15. WaitingOK'
  <2>1. \A x, y \in Waiting' : index[x] <= index[y] => Calls(graph, x, y)
    BY <1>7 DEF WaitingOK
  <2>2. ASSUME NEW y \in Waiting'
        PROVE  \E i \in 1..(n - 1) : index[work'[i].node] <= index[y] /\ Calls(graph, y, work'[i].node)
    <3>1. y \in Waiting /\ y \in Functions /\ index[y] < index[node]
      BY <1>5, <1>6
    <3>2. PICK i \in 1..n : index[work[i].node] <= index[y] /\ Calls(graph, y, work[i].node)
      BY <1>2, <3>1 DEF WaitingOK, Node
    <3>3. i # n
      BY <1>3, <1>6, <3>1, <3>2
    <3>4. i \in 1..(n - 1)
      BY <3>3
    <3> QED
      BY <1>13, <3>2, <3>4
  <2> QED
    BY <1>1, <1>9, <2>1, <2>2 DEF WaitingOK, Node, Calls, Closed
<1>16. LowlinkOK'
  <2>1. ASSUME NEW i \in 1..(n - 1)
        PROVE  /\ lowlink[work'[i].node] <= index[work'[i].node]
               /\ \E w \in Waiting' : index[w] = lowlink[work'[i].node] /\ Calls(graph, work'[i].node, w)
    <3>1. PICK w \in Waiting : /\ lowlink[work[i].node] <= index[work[i].node]
                               /\ index[w] = lowlink[work[i].node] /\ Calls(graph, work[i].node, w)
      BY <1>2, <1>13 DEF LowlinkOK, Node
    <3>2. index[w] < index[node]
      BY <1>3, <1>6, <3>1
    <3>3. w \in Waiting'
      BY <1>5, <3>2
    <3> QED
      BY <1>13, <3>1, <3>3
  <2> QED
    BY <1>1, <1>9, <1>10, <2>1 DEF LowlinkOK, Node, Calls, Closed
<1>17. EdgesOK'
  <2>1. SUFFICES ASSUME NEW i \in DOMAIN work', NEW y \in Waiting', Above(y, i)',
                        NEW z \in LookedAt(y, i)'
                 PROVE  z \in Assigned' \/ (z \in Waiting' /\ lowlink[work[i].node] <= index[z])
    BY <1>1, <1>9, <1>10 DEF EdgesOK, Node
  <2>2. i \in 1..(n - 1) /\ i \in 1..n /\ work'[i] = work[i]
    BY <1>9, <1>13, <2>1
  <2>3. y \in Waiting /\ index[y] < index[node]
    BY <1>5
  <2>4. index[work[i].node] <= index[y]
    BY <1>1, <2>1, <2>2 DEF Above, Node
  <2>5. ASSUME i + 1 \in 1..n PROVE index[y] < index[work[i + 1].node]
    <3>1. CASE i + 1 = n
      BY <1>3, <2>3, <3>1
    <3>2. CASE i + 1 # n
      <4>1. i + 1 \in 1..(n - 1)
        BY <2>5, <3>2
      <4> QED
        BY <1>1, <1>9, <2>1, <4>1 DEF Above, Node
    <3> QED
      BY <3>1, <3>2
  <2>6. Above(y, i)
    BY <1>2, <2>4, <2>5 DEF Above, Node
  <2>7. z \in LookedAt(y, i)
    BY <1>1, <2>1, <2>2 DEF LookedAt, Node
  <2>8. z \in Assigned \/ (z \in Waiting /\ lowlink[work[i].node] <= index[z])
    BY <1>2, <2>2, <2>3, <2>6, <2>7 DEF EdgesOK, Node
  <2> QED
    BY <1>7, <1>8, <2>8
<1>18. Closed(graph, Assigned')
  <2>1. SUFFICES ASSUME NEW y \in Assigned', NEW z \in graph[y] PROVE z \in Assigned'
    BY DEF Closed
  <2>2. CASE y \in Assigned
    BY <1>8, <2>1, <2>2 DEF ComponentsOK, Closed
  <2>3. CASE y \in M
    <3>1. z \in Assigned \/ (z \in Waiting /\ index[node] <= index[z])
      BY <1>3, <1>5, <2>1, <2>3
    <3> QED
      BY <1>5, <1>8, <3>1
  <2> QED
    BY <1>8, <2>1, <2>2, <2>3
<1>19. ASSUME NEW f \in M PROVE M = Mutual(graph, f)
  <2>1. ASSUME NEW y \in M PROVE Calls(graph, node, y) /\ Calls(graph, y, node)
    <3>1. Calls(graph, node, y) /\ y \in Waiting /\ index[node] <= index[y]
      BY <1>3, <1>5
    <3>2. PICK i \in 1..n : Calls(graph, y, work[i].node)
      BY <1>2, <3>1 DEF WaitingOK, Node
    <3>3. work[i].node \in Waiting /\ index[work[i].node] <= index[node]
      <4>1. i = n \/ i \in 1..(n - 1)
        OBVIOUS
      <4> QED
        BY <1>3, <1>6, <4>1
    <3>4. Calls(graph, work[i].node, node)
      BY <1>3, <3>3 DEF WaitingOK
    <3>5. Calls(graph, y, node)
      BY <3>2, <3>4, CallsFacts DEF TypeOK
    <3> QED
      BY <3>1, <3>5
  <2>2. ASSUME NEW h \in M PROVE h \in Mutual(graph, f)
    <3>1. Calls(graph, f, h) /\ Calls(graph, h, f)
      BY <2>1, CallsFacts DEF TypeOK
    <3> QED
      BY <1>7, <3>1 DEF Mutual
  <2>3. ASSUME NEW h \in Mutual(graph, f) PROVE h \in M
    <3>1. h \in Functions /\ Calls(graph, f, h) /\ Calls(graph, h, f)
      BY <2>3 DEF Mutual
    <3>2. Assigned' \in SUBSET Functions /\ Assigned \in SUBSET Functions
      BY <1>7, <1>8 DEF TypeOK, Assigned
    <3>3. h \in Assigned'
      BY <1>8, <1>18, <3>1, <3>2 DEF Calls
    <3>4. h \notin Assigned
      <4>1. SUFFICES ASSUME h \in Assigned PROVE FALSE
        OBVIOUS
      <4>2. f \in Assigned
        BY <3>1, <3>2, <4>1 DEF Calls, ComponentsOK
      <4> QED
        BY <1>7, <4>2 DEF NumbersOK
    <3> QED
      BY <1>8, <3>3, <3>4
  <2> QED
    BY <2>2, <2>3
<1>20. ComponentsOK'
  <2>1. ASSUME NEW c \in components' PROVE c # {} /\ \A f \in c : c = Mutual(graph, f)
    BY <1>1, <1>4, <1>7, <1>19 DEF ComponentsOK
  <2> QED
    <3>1. graph' = graph
      BY <1>1
    <3>2. Closed(graph', Assigned')
      BY <1>18, <3>1
    <3>3. ASSUME NEW c \in components' PROVE c # {} /\ \A f \in c : c = Mutual(graph', f)
      BY <2>1, <3>1
    <3> QED
      BY <3>2, <3>3 DEF ComponentsOK, Mutual, Calls, Closed
<1>21. RootsOK'
  <2>1. phase = "components" /\ Discovered' = Discovered
    BY <1>1 DEF RootsOK, Discovered
  <2> QED
    BY <1>1, <2>1 DEF RootsOK
<1> QED
  BY <1>11, <1>12, <1>14, <1>15, <1>16, <1>17, <1>20, <1>21

\* A node whose lowlink is lower leaves what is above it to its caller.
LEMMA KeptStep ==
    ASSUME TarjanInv, FinishNode, NEW node, node = Last(work).node, lowlink[node] # index[node]
    PROVE  TarjanInv'
<1> USE DEF TarjanInv
<1>1. /\ UNCHANGED <<graph, alreadyReported, phase, next, index, components, componentStack>>
      /\ work # <<>> /\ Last(work).callees = {} /\ work' = Front(work)
  BY DEF FinishNode, inputVars
<1>2. PICK n \in Nat \ {0} : n = Len(work) /\ DOMAIN work = 1..n
  <2>1. work # <<>> /\ work \in Seq([node : Functions, callees : SUBSET Functions])
    BY <1>1 DEF TypeOK
  <2> QED
    BY <2>1
<1>3. /\ node \in Waiting /\ node \in Functions /\ node = work[n].node
      /\ \A i \in 1..(n - 1) : /\ work[i].node \in Waiting /\ work[i].node # node
                               /\ index[work[i].node] < index[node]
      /\ \A y \in Waiting : index[node] <= index[y] =>
             /\ Calls(graph, node, y)
             /\ \A z \in graph[y] : z \in Assigned \/ (z \in Waiting /\ lowlink[node] <= index[z])
      /\ lowlink[node] <= index[node]
  BY <1>1, <1>2, TopOfWork
<1>4. PICK w \in Waiting : index[w] = lowlink[node] /\ Calls(graph, node, w)
  BY <1>1, TopOfWork
<1>5. Waiting \subseteq Functions /\ \A y \in Functions : index[y] \in Nat /\ lowlink[y] \in Nat
  BY ElementsFacts DEF TypeOK, Waiting
<1>6. index[w] < index[node]
  BY <1>3, <1>4, <1>5
<1>7. PICK j \in 1..n : index[work[j].node] <= index[w] /\ Calls(graph, w, work[j].node)
  BY <1>2 DEF WaitingOK, Node
<1>8. j # n
  BY <1>3, <1>5, <1>6, <1>7
<1>9. j \in 1..(n - 1) /\ n # 1
  BY <1>8
<1>10. PICK parent \in Functions : parent = work[n - 1].node
  <2>1. n - 1 \in 1..(n - 1)
    BY <1>9
  <2> QED
    BY <1>3, <1>5, <2>1
<1>11. parent \in Waiting /\ parent # node /\ index[parent] < index[node]
  <2>1. n - 1 \in 1..(n - 1)
    BY <1>9
  <2> QED
    BY <1>3, <1>10, <2>1
<1>12. lowlink' = [lowlink EXCEPT ![parent] =
                      IF lowlink[node] < lowlink[parent] THEN lowlink[node] ELSE lowlink[parent]]
  BY <1>2, <1>9, <1>10 DEF FinishNode, InheritLowlink
<1>13. /\ lowlink' \in [Functions -> Nat]
       /\ lowlink'[parent] <= lowlink[parent] /\ lowlink'[parent] <= lowlink[node]
       /\ lowlink'[parent] = lowlink[parent] \/ lowlink'[parent] = lowlink[node]
       /\ \A g \in Functions : g # parent => lowlink'[g] = lowlink[g]
  BY <1>3, <1>5, <1>12 DEF TypeOK
<1>14. \A g \in Functions : lowlink'[g] \in Nat /\ lowlink'[g] <= lowlink[g]
  <2>1. ASSUME NEW g \in Functions PROVE lowlink'[g] \in Nat /\ lowlink'[g] <= lowlink[g]
    <3>1. CASE g = parent
      BY <1>13, <3>1
    <3>2. CASE g # parent
      <4>1. lowlink'[g] = lowlink[g] /\ lowlink[g] \in Nat
        BY <1>5, <1>13, <3>2
      <4> QED
        BY <4>1
    <3> QED
      BY <3>1, <3>2
  <2> QED
    BY <2>1
<1>15. /\ work' \in Seq([node : Functions, callees : SUBSET Functions])
       /\ DOMAIN work' = 1..(n - 1) /\ \A i \in 1..(n - 1) : work'[i] = work[i]
  <2>1. PICK R : R = [node : Functions, callees : SUBSET Functions]
    OBVIOUS
  <2>2. work \in Seq(R)
    BY <2>1 DEF TypeOK
  <2> QED
    BY <1>1, <1>2, <2>1, <2>2, FrontFacts
<1>16. /\ Waiting' = Waiting /\ Assigned' = Assigned /\ Discovered' = Discovered
  BY <1>1 DEF Waiting, Elements, Assigned, Discovered
<1>17. \A i \in 1..(n - 1) : i \in 1..n /\ work'[i] = work[i] /\ work[i].node \in Waiting
  BY <1>3, <1>15
<1>18. TypeOK'
  BY <1>1, <1>13, <1>15 DEF TypeOK
<1>19. NumbersOK'
  BY <1>1, <1>16 DEF NumbersOK
<1>20. WorkOK'
  <2>1. \A i \in 1..(n - 1) : work'[i].node \in Waiting' /\ work'[i].callees \subseteq graph'[work'[i].node]
    BY <1>1, <1>2, <1>16, <1>17 DEF WorkOK, Node
  <2>2. \A i, k \in 1..(n - 1) : i < k => index'[work'[i].node] < index'[work'[k].node]
    BY <1>1, <1>2, <1>17 DEF WorkOK, Node
  <2> QED
    BY <1>15, <2>1, <2>2 DEF WorkOK, Node
<1>21. WaitingOK'
  <2>1. \A x, y \in Waiting : index[x] <= index[y] => Calls(graph, x, y)
    BY DEF WaitingOK
  <2>2. ASSUME NEW y \in Waiting
        PROVE  \E i \in 1..(n - 1) : index[work'[i].node] <= index[y] /\ Calls(graph, y, work'[i].node)
    <3>1. PICK i \in 1..n : index[work[i].node] <= index[y] /\ Calls(graph, y, work[i].node)
      BY <1>2 DEF WaitingOK, Node
    <3>2. CASE i # n
      <4>1. i \in 1..(n - 1)
        BY <3>2
      <4> QED
        BY <1>17, <3>1, <4>1
    <3>3. CASE i = n
      <4>1. Calls(graph, y, node) /\ index[node] <= index[y]
        BY <1>3, <3>1, <3>3
      <4>2. Calls(graph, y, w)
        BY <1>4, <4>1, CallsFacts DEF TypeOK
      <4>3. Calls(graph, y, work[j].node)
        <5>1. PICK below : below = work[j].node
          OBVIOUS
        <5>2. Calls(graph, w, below)
          BY <1>7, <5>1
        <5>3. Calls(graph, y, below)
          BY <4>2, <5>2, CallsFacts DEF TypeOK
        <5> QED
          BY <5>1, <5>3
      <4>4. index[work[j].node] <= index[y]
        <5>1. work[j].node \in Functions /\ y \in Functions /\ w \in Functions
          BY <1>5, <1>9, <1>17
        <5> QED
          BY <1>3, <1>5, <1>6, <1>7, <4>1, <5>1
      <4> QED
        BY <1>9, <1>17, <4>3, <4>4
    <3> QED
      BY <3>2, <3>3
  <2> QED
    BY <1>1, <1>15, <1>16, <2>1, <2>2 DEF WaitingOK, Node, Calls, Closed
<1>22. LowlinkOK'
  <2>1. ASSUME NEW i \in 1..(n - 1)
        PROVE  /\ lowlink'[work'[i].node] <= index[work'[i].node]
               /\ \E v \in Waiting : index[v] = lowlink'[work'[i].node] /\ Calls(graph, work'[i].node, v)
    <3>1. PICK x \in Functions : x = work[i].node /\ x = work'[i].node /\ x \in Waiting
      BY <1>5, <1>17
    <3>2. lowlink[x] <= index[x] /\ \E v \in Waiting : index[v] = lowlink[x] /\ Calls(graph, x, v)
      BY <1>2, <1>17, <3>1 DEF LowlinkOK, Node
    <3>3. lowlink'[x] <= index[x]
      BY <1>5, <1>14, <3>2
    <3>4. CASE lowlink'[x] = lowlink[x]
      BY <3>1, <3>2, <3>3, <3>4
    <3>5. CASE lowlink'[x] # lowlink[x]
      <4>1. x = parent /\ lowlink'[x] = lowlink[node]
        BY <1>13, <3>5
      <4>2. Calls(graph, parent, node)
        <5>1. index[parent] <= index[node]
          BY <1>3, <1>5, <1>11
        <5> QED
          BY <1>3, <1>11, <5>1 DEF WaitingOK
      <4>3. Calls(graph, parent, w)
        BY <1>4, <4>2, CallsFacts DEF TypeOK
      <4> QED
        BY <1>4, <3>1, <3>3, <4>1, <4>3
    <3> QED
      BY <3>4, <3>5
  <2> QED
    BY <1>1, <1>15, <1>16, <2>1 DEF LowlinkOK, Node, Calls, Closed
<1>23. EdgesOK'
  <2>1. SUFFICES ASSUME NEW i \in DOMAIN work', NEW y \in Waiting', Above(y, i)',
                        NEW z \in LookedAt(y, i)'
                 PROVE  z \in Assigned \/ (z \in Waiting /\ lowlink'[work[i].node] <= index[z])
    BY <1>1, <1>15, <1>16 DEF EdgesOK, Node
  <2>2. i \in 1..(n - 1) /\ i \in 1..n /\ work'[i] = work[i] /\ work[i].node \in Functions
    BY <1>5, <1>15, <1>17, <2>1
  <2>3. y \in Waiting /\ y \in Functions
    BY <1>5, <1>16
  <2>4. index[work[i].node] <= index[y]
    BY <1>1, <2>1, <2>2 DEF Above, Node
  <2>5. z \in LookedAt(y, i)
    BY <1>1, <2>1, <2>2 DEF LookedAt, Node
  <2>6. CASE Above(y, i)
    <3>1. z \in Assigned \/ (z \in Waiting /\ lowlink[work[i].node] <= index[z])
      BY <1>2, <2>2, <2>3, <2>5, <2>6 DEF EdgesOK, Node
    <3>2. lowlink'[work[i].node] \in Nat /\ lowlink'[work[i].node] <= lowlink[work[i].node]
      BY <1>14, <2>2
    <3> QED
      BY <1>5, <2>2, <3>1, <3>2
  <2>7. CASE ~Above(y, i)
    <3>1. i + 1 \in 1..n /\ ~(index[y] < index[work[i + 1].node])
      BY <1>2, <2>4, <2>7 DEF Above, Node
    <3>2. i + 1 \notin 1..(n - 1)
      <4>1. SUFFICES ASSUME i + 1 \in 1..(n - 1) PROVE FALSE
        OBVIOUS
      <4>2. index'[y] < index'[work'[i + 1].node] /\ work'[i + 1] = work[i + 1]
        BY <1>15, <2>1, <4>1 DEF Above, Node
      <4> QED
        BY <1>1, <3>1, <4>2
    <3>3. i + 1 = n /\ i = n - 1
      BY <2>2, <3>1, <3>2
    <3>4. index[node] <= index[y]
      BY <1>3, <1>5, <2>3, <3>1, <3>3
    <3>5. z \in graph[y]
      BY <2>5 DEF LookedAt
    <3>6. z \in Assigned \/ (z \in Waiting /\ lowlink[node] <= index[z])
      BY <1>3, <2>3, <3>4, <3>5
    <3>7. lowlink'[parent] \in Nat /\ lowlink'[parent] <= lowlink[node] /\ work[i].node = parent
      BY <1>10, <1>13, <3>3
    <3> QED
      BY <1>3, <1>5, <3>6, <3>7
  <2> QED
    BY <2>6, <2>7
<1>24. ComponentsOK'
  BY <1>1 DEF ComponentsOK, Mutual, Calls, Closed, Assigned
<1>25. RootsOK'
  <2>1. phase = "components"
    BY <1>1 DEF RootsOK
  <2> QED
    BY <1>1, <1>16, <2>1 DEF RootsOK
<1> QED
  BY <1>18, <1>19, <1>20, <1>21, <1>22, <1>23, <1>24, <1>25

\* When the last root is done every function has its component.
LEMMA AllAssigned ==
    ASSUME TarjanInv, phase = "components", work = <<>>, next \notin DOMAIN Order
    PROVE  Assigned = Functions
<1> USE DEF TarjanInv
<1>1. DOMAIN Order = 1..Cardinality(Functions) /\ Cardinality(Functions) \in Nat
  BY CallGraphAssumption, FS_CardinalityType
<1>2. next = Cardinality(Functions) + 1
  BY <1>1 DEF TypeOK
<1>3. \A i \in DOMAIN Order : Order[i] \in Discovered
  BY <1>1, <1>2 DEF RootsOK
<1>4. Functions = Discovered
  BY <1>3, CallGraphAssumption DEF Discovered
<1>5. Assigned \subseteq Functions
  BY DEF TypeOK, Assigned
<1> QED
  BY <1>4, <1>5, NothingWaits DEF NumbersOK

\* The invariant holds at first.
LEMMA TarjanInit ==
    ASSUME Init
    PROVE  TarjanInv
<1>1. Cardinality(Functions) \in Nat
  BY CallGraphAssumption, FS_CardinalityType
<1>2. TypeOK
  BY <1>1, CallGraphAssumption DEF Init, TypeOK
<1>3. Waiting = {} /\ Assigned = {} /\ Discovered = {} /\ Cardinality(Discovered) = 0
  <2>1. Waiting = {} /\ Assigned = {} /\ Discovered = {}
    BY DEF Init, Waiting, Elements, Assigned, Discovered
  <2> QED
    BY <2>1, FS_EmptySet
<1>4. NumbersOK
  BY <1>3 DEF Init, NumbersOK
<1>5. WorkOK /\ WaitingOK /\ LowlinkOK /\ EdgesOK
  BY <1>3 DEF Init, WorkOK, WaitingOK, LowlinkOK, EdgesOK
<1>6. ComponentsOK
  BY <1>3 DEF Init, ComponentsOK, Closed
<1>7. RootsOK
  BY CallGraphAssumption DEF Init, RootsOK
<1> QED
  BY <1>2, <1>4, <1>5, <1>6, <1>7 DEF TarjanInv

\* A step of the reports does not disturb it.
LEMMA ReportStep ==
    ASSUME TarjanInv, StartReport \/ NextStart \/ FinishReport \/ CloseCycle \/ ExtendPath \/ UNCHANGED vars,
           ReportInv
    PROVE  TarjanInv'
<1> USE DEF TarjanInv
<1>1. UNCHANGED <<graph, alreadyReported, tarjanVars>>
  BY DEF StartReport, NextStart, FinishReport, CloseCycle, ExtendPath, vars, tarjanVars, inputVars
<1>2. NumbersOK' /\ WorkOK' /\ WaitingOK' /\ LowlinkOK' /\ EdgesOK' /\ ComponentsOK'
  BY <1>1, SearchStands
<1>3. DOMAIN Order = 1..Cardinality(Functions) /\ Cardinality(Functions) \in Nat
  BY CallGraphAssumption, FS_CardinalityType
<1>4. next' \in 1..(Cardinality(Functions) + 1) /\ phase' \in {"components", "report", "done"}
  <2>1. path # <<>> => next \in DOMAIN Order
    BY DEF ReportInv
  <2>2. next \in 1..(Cardinality(Functions) + 1) /\ phase \in {"components", "report", "done"}
    BY DEF TypeOK
  <2>3. /\ next' = next \/ next' = 1 \/ (next' = next + 1 /\ next \in DOMAIN Order)
        /\ phase' = phase \/ phase' \in {"report", "done"}
    BY <2>1 DEF StartReport, NextStart, FinishReport, CloseCycle, ExtendPath, vars
  <2> QED
    BY <1>3, <2>2, <2>3
<1>5. TypeOK'
  BY <1>1, <1>4 DEF TypeOK, tarjanVars
<1>6. RootsOK'
  <2>1. Discovered' = Discovered /\ Assigned' = Assigned /\ work' = work
    BY <1>1 DEF Discovered, Assigned, tarjanVars
  <2>2. CASE UNCHANGED vars
    BY <2>1, <2>2 DEF RootsOK, vars
  <2>3. CASE StartReport
    <3>1. Assigned = Functions /\ work = <<>> /\ phase' = "report"
      BY <2>3, AllAssigned DEF StartReport
    <3> QED
      BY <2>1, <3>1 DEF RootsOK
  <2>4. CASE NextStart \/ FinishReport \/ CloseCycle \/ ExtendPath
    <3>1. phase # "components" /\ phase' # "components"
      BY <2>4 DEF ReportInv, NextStart, FinishReport, CloseCycle, ExtendPath
    <3> QED
      BY <2>1, <3>1 DEF RootsOK
  <2> QED
    BY <2>2, <2>3, <2>4
<1> QED
  BY <1>2, <1>5, <1>6

\* No step disturbs it.
LEMMA TarjanNext ==
    ASSUME TarjanInv, ReportInv, [Next]_vars
    PROVE  TarjanInv'
<1>1. CASE NextRoot
  BY <1>1, NextRootStep
<1>2. CASE NextCallee
  BY <1>2, NextCalleeStep
<1>3. CASE FinishNode
  <2>1. PICK node : node = Last(work).node
    OBVIOUS
  <2> QED
    BY <1>3, <2>1, PoppedStep, KeptStep
<1>4. CASE StartReport \/ NextStart \/ FinishReport \/ CloseCycle \/ ExtendPath \/ UNCHANGED vars
  BY <1>4, ReportStep
<1> QED
  BY <1>1, <1>2, <1>3, <1>4 DEF Next

(***************************************************************************)
(* Components and recursion                                                *)
(***************************************************************************)

\* A function that calls another one does so through one of its callees.
LEMMA FirstCall ==
    ASSUME graph \in [Functions -> SUBSET Functions], NEW a \in Functions, NEW b \in Functions,
           Calls(graph, a, b), a # b
    PROVE  \E y \in graph[a] : Calls(graph, y, b)
<1>1. PICK S : S = {k \in Functions : k = a \/ \E y \in graph[a] : Calls(graph, y, k)}
  OBVIOUS
<1>2. ASSUME NEW k \in S, NEW z \in graph[k] PROVE z \in S
  <2>1. z \in Functions /\ Calls(graph, k, z) /\ Calls(graph, z, z)
    BY <1>1, CallsFacts
  <2>2. CASE k = a
    BY <1>1, <1>2, <2>1, <2>2
  <2>3. CASE k # a
    <3>1. PICK y \in graph[a] : Calls(graph, y, k)
      BY <1>1, <2>3
    <3>2. Calls(graph, y, z)
      BY <2>1, <3>1, CallsFacts
    <3> QED
      BY <1>1, <2>1, <3>2
  <2> QED
    BY <2>2, <2>3
<1>3. S \in SUBSET Functions /\ a \in S /\ Closed(graph, S)
  BY <1>1, <1>2 DEF Closed
<1>4. b \in S
  BY <1>3 DEF Calls
<1> QED
  BY <1>1, <1>4

\* Calling each other is an equivalence.
LEMMA MutualFacts ==
    ASSUME graph \in [Functions -> SUBSET Functions], NEW f \in Functions
    PROVE  /\ f \in Mutual(graph, f) /\ Mutual(graph, f) \subseteq Functions
           /\ \A h \in Mutual(graph, f) : Mutual(graph, h) = Mutual(graph, f)
<1>1. f \in Mutual(graph, f) /\ Mutual(graph, f) \subseteq Functions
  BY CallsFacts DEF Mutual
<1>2. ASSUME NEW h \in Mutual(graph, f) PROVE Mutual(graph, h) = Mutual(graph, f)
  <2>1. h \in Functions /\ Calls(graph, f, h) /\ Calls(graph, h, f)
    BY DEF Mutual
  <2>2. \A k \in Functions : /\ Calls(graph, f, k) <=> Calls(graph, h, k)
                             /\ Calls(graph, k, f) <=> Calls(graph, k, h)
    BY <2>1, CallsFacts
  <2> QED
    BY <2>2 DEF Mutual
<1> QED
  BY <1>1, <1>2

\* The classes by which the property is stated are the same.
LEMMA ClassIsMutual ==
    ASSUME graph \in [Functions -> SUBSET Functions], NEW f \in Functions
    PROVE  Class(f) = Mutual(graph, f)
<1>1. ASSUME NEW a \in Functions, NEW b \in Functions, a # b
      PROVE  b \in Reach(a) <=> Calls(graph, a, b)
  <2>1. ASSUME b \in Reach(a) PROVE Calls(graph, a, b)
    <3>1. PICK y \in graph[a] : Calls(graph, y, b)
      BY <2>1, ReachFacts
    <3>2. Calls(graph, a, y)
      BY CallsFacts
    <3> QED
      BY <3>1, <3>2, CallsFacts
  <2>2. ASSUME Calls(graph, a, b) PROVE b \in Reach(a)
    BY <1>1, <2>2, FirstCall, ReachFacts
  <2> QED
    BY <2>1, <2>2
<1>2. Calls(graph, f, f)
  BY CallsFacts
<1>3. ASSUME NEW g \in Functions PROVE g \in Class(f) <=> g \in Mutual(graph, f)
  <2>1. CASE g = f
    BY <1>2, <2>1 DEF Class, Mutual
  <2>2. CASE g # f
    <3>1. (g \in Reach(f) <=> Calls(graph, f, g)) /\ (f \in Reach(g) <=> Calls(graph, g, f))
      BY <1>1, <2>2
    <3> QED
      BY <2>2, <3>1 DEF Class, Mutual
  <2> QED
    BY <2>1, <2>2
<1> QED
  BY <1>3 DEF Class, Mutual

\* A finite set with the member x has several members unless it is {x}.
LEMMA Several ==
    ASSUME NEW S, IsFiniteSet(S), NEW x \in S
    PROVE  Cardinality(S) > 1 <=> S # {x}
<1>1. Cardinality(S) \in Nat
  BY FS_CardinalityType
<1>2. Cardinality(S) # 0
  BY FS_EmptySet
<1>3. Cardinality(S) = 1 <=> S = {x}
  BY FS_Singleton
<1> QED
  BY <1>1, <1>2, <1>3

\* A component has a cycle when its functions are recursive.
LEMMA CycleIsRecursion ==
    ASSUME graph \in [Functions -> SUBSET Functions], NEW f \in Functions
    PROVE  HasCycle(Mutual(graph, f)) <=> f \in Reach(f)
<1>1. PICK c : c = Mutual(graph, f)
  OBVIOUS
<1>2. f \in c /\ c \subseteq Functions
  BY <1>1, MutualFacts
<1>3. IsFiniteSet(c)
  BY <1>2, CallGraphAssumption, FS_Subset
<1>4. Cardinality(c) > 1 <=> c # {f}
  BY <1>2, <1>3, Several
<1>5. HasCycle(c) <=> (c # {f} \/ \E g \in c : g \in graph[g])
  BY <1>4 DEF HasCycle
<1>6. ASSUME NEW h \in c, h # f PROVE f \in Reach(f)
  <2>1. h \in Functions /\ Calls(graph, f, h) /\ Calls(graph, h, f)
    BY <1>1, <1>6 DEF Mutual
  <2>2. PICK y \in graph[f] : Calls(graph, y, h)
    BY <1>6, <2>1, FirstCall
  <2>3. Calls(graph, y, f)
    BY <2>1, <2>2, CallsFacts
  <2> QED
    BY <2>3, ReachFacts
<1>7. ASSUME f \in graph[f] PROVE f \in Reach(f)
  BY <1>7, ReachFacts, CallsFacts
<1>8. ASSUME f \in Reach(f) PROVE HasCycle(c)
  <2>1. PICK y \in graph[f] : Calls(graph, y, f)
    BY <1>8, ReachFacts
  <2>2. y \in Functions /\ Calls(graph, f, y)
    BY CallsFacts
  <2>3. y \in c
    BY <1>1, <2>1, <2>2 DEF Mutual
  <2> QED
    BY <1>5, <2>3
<1> QED
  BY <1>1, <1>2, <1>5, <1>6, <1>7, <1>8

\* Once all functions have a component, the set that is searched from a function is
\* its component, or nothing when that has no cycle or was reported before.
LEMMA SearchedComponent ==
    ASSUME TarjanInv, Assigned = Functions, NEW f \in Functions
    PROVE  UNION {c \in Searched : f \in c} =
               IF f \in Reach(f) /\ Class(f) \cap alreadyReported = {} THEN Mutual(graph, f) ELSE {}
<1> USE DEF TarjanInv
<1>1. graph \in [Functions -> SUBSET Functions]
  BY DEF TypeOK
<1>2. \A c \in components : f \in c => c = Mutual(graph, f)
  BY DEF ComponentsOK
<1>3. Mutual(graph, f) \in components /\ f \in Mutual(graph, f)
  BY <1>1, <1>2, MutualFacts DEF Assigned
<1>4. Mutual(graph, f) \in Searched <=> f \in Reach(f) /\ Class(f) \cap alreadyReported = {}
  BY <1>1, <1>3, CycleIsRecursion, ClassIsMutual DEF Searched
<1>5. \A c \in Searched : f \in c => c = Mutual(graph, f)
  BY <1>2 DEF Searched
<1>6. CASE Mutual(graph, f) \in Searched
  <2>1. {c \in Searched : f \in c} = {Mutual(graph, f)}
    BY <1>3, <1>5, <1>6
  <2> QED
    BY <1>4, <1>6, <2>1
<1>7. CASE Mutual(graph, f) \notin Searched
  <2>1. {c \in Searched : f \in c} = {}
    BY <1>5, <1>7
  <2> QED
    BY <1>4, <1>7, <2>1
<1> QED
  BY <1>6, <1>7

(***************************************************************************)
(* The functions that lead back to the start                               *)
(***************************************************************************)

\* ReachesStart, for any graph, set of functions off the path and start.
Reaching(g, off, s) ==
    LET back[n \in 0..Cardinality(off)] ==
            IF n = 0 THEN {f \in off : s \in g[f]}
            ELSE back[n - 1] \cup {f \in off : g[f] \cap back[n - 1] # {}}
    IN  back[Cardinality(off)]

\* It is a chain of sets.
LEMMA ReachingIsChain ==
    ASSUME NEW g \in [Functions -> SUBSET Functions], NEW off \in SUBSET Functions, NEW s,
           NEW base, base = {f \in off : s \in g[f]}, NEW grow,
           grow = [S \in SUBSET off |-> S \cup {f \in off : g[f] \cap S # {}}]
    PROVE  ChainEnd(off, grow, base, Reaching(g, off, s))
<1>1. PICK N \in Nat : N = Cardinality(off)
  <2>1. IsFiniteSet(off)
    BY CallGraphAssumption, FS_Subset
  <2> QED
    BY <2>1, FS_CardinalityType
<1>2. grow \in [SUBSET off -> SUBSET off] /\ base \in SUBSET off
  OBVIOUS
<1>3. PICK c \in [0..N -> SUBSET off] : IsChain(c, base, grow, N)
  BY <1>2, ChainExists
<1>4. c = [n \in 0..Cardinality(off) |-> IF n = 0 THEN {f \in off : s \in g[f]}
                          ELSE c[n - 1] \cup {f \in off : g[f] \cap c[n - 1] # {}}]
  <2>1. ASSUME NEW n \in 0..N
        PROVE  c[n] = IF n = 0 THEN {f \in off : s \in g[f]}
                      ELSE c[n - 1] \cup {f \in off : g[f] \cap c[n - 1] # {}}
    <3>1. CASE n = 0
      BY <1>3, <3>1 DEF IsChain
    <3>2. CASE n # 0
      <4>1. n \in 1..N /\ n - 1 \in 0..N
        BY <3>2
      <4>2. c[n - 1] \in SUBSET off /\ c[n] = grow[c[n - 1]]
        BY <1>3, <4>1 DEF IsChain
      <4> QED
        BY <3>2, <4>2
    <3> QED
      BY <3>1, <3>2
  <2> QED
    BY <1>1, <2>1
<1>5. PICK d : d = CHOOSE back : back = [n \in 0..Cardinality(off) |-> IF n = 0 THEN {f \in off : s \in g[f]}
                                 ELSE back[n - 1] \cup {f \in off : g[f] \cap back[n - 1] # {}}]
  OBVIOUS
<1>6. d = [n \in 0..Cardinality(off) |-> IF n = 0 THEN {f \in off : s \in g[f]}
                          ELSE d[n - 1] \cup {f \in off : g[f] \cap d[n - 1] # {}}]
  <2>1. \E back : back = [n \in 0..Cardinality(off) |-> IF n = 0 THEN {f \in off : s \in g[f]}
                      ELSE back[n - 1] \cup {f \in off : g[f] \cap back[n - 1] # {}}]
    BY <1>4
  <2> QED
    BY <1>5, <2>1
<1>7. Reaching(g, off, s) = d[Cardinality(off)]
  BY <1>5 DEF Reaching
<1>8. \A n \in 0..N : d[n] \in SUBSET off
  <2>1. PICK T : T = {n \in Nat : n <= N => d[n] \in SUBSET off}
    OBVIOUS
  <2>2. 0 \in T
    <3>1. 0 \in 0..N
      OBVIOUS
    <3>2. d[0] = {f \in off : s \in g[f]}
      BY <1>1, <1>6, <3>1
    <3> QED
      BY <2>1, <3>2
  <2>3. ASSUME NEW n \in Nat, n \in T PROVE n + 1 \in T
    <3>1. SUFFICES ASSUME n + 1 <= N PROVE d[n + 1] \in SUBSET off
      BY <2>1
    <3>2. n + 1 \in 0..N /\ n + 1 # 0 /\ (n + 1) - 1 = n /\ d[n] \in SUBSET off
      BY <2>1, <2>3, <3>1
    <3>3. d[n + 1] = d[(n + 1) - 1] \cup {f \in off : g[f] \cap d[(n + 1) - 1] # {}}
      BY <1>1, <1>6, <3>2
    <3> QED
      BY <3>2, <3>3
  <2> QED
    BY <2>1, <2>2, <2>3, Induction
<1>9. d \in [0..N -> SUBSET off]
  BY <1>1, <1>6, <1>8
<1>10. IsChain(d, base, grow, N)
  <2>1. d[0] = base
    <3>1. 0 \in 0..N
      OBVIOUS
    <3> QED
      BY <1>1, <1>6, <3>1
  <2>2. ASSUME NEW n \in 1..N PROVE d[n] = grow[d[n - 1]]
    <3>1. n \in 0..N /\ n # 0 /\ n - 1 \in 0..N
      OBVIOUS
    <3>2. d[n] = d[n - 1] \cup {f \in off : g[f] \cap d[n - 1] # {}}
      BY <1>1, <1>6, <3>1
    <3> QED
      BY <1>8, <3>1, <3>2
  <2> QED
    BY <2>1, <2>2 DEF IsChain
<1> QED
  BY <1>1, <1>7, <1>9, <1>10 DEF ChainEnd

\* A function leads back when it calls the start or one that leads back.
LeadsBack(g, off, s, R) == {f \in off : s \in g[f] \/ g[f] \cap R # {}}

\* The functions that lead back are the least set that holds those it makes.
LEMMA ReachingFacts ==
    ASSUME NEW g \in [Functions -> SUBSET Functions], NEW off \in SUBSET Functions, NEW s
    PROVE  /\ Reaching(g, off, s) \subseteq off
           /\ LeadsBack(g, off, s, Reaching(g, off, s)) \subseteq Reaching(g, off, s)
           /\ \A S : LeadsBack(g, off, s, S) \subseteq S => Reaching(g, off, s) \subseteq S
<1>1. PICK base, grow : /\ base = {f \in off : s \in g[f]}
                        /\ grow = [S \in SUBSET off |-> S \cup {f \in off : g[f] \cap S # {}}]
  OBVIOUS
<1>2. PICK R : R = Reaching(g, off, s)
  OBVIOUS
<1>3. ChainEnd(off, grow, base, R)
  BY <1>1, <1>2, ReachingIsChain
<1>4. Grows(grow, off) /\ IsFiniteSet(off)
  <2>1. grow \in [SUBSET off -> SUBSET off] /\ \A S \in SUBSET off : S \subseteq grow[S]
    BY <1>1
  <2> QED
    BY <2>1, CallGraphAssumption, FS_Subset DEF Grows
<1>5. R \in SUBSET off /\ base \subseteq R /\ grow[R] = R
  BY <1>3, <1>4, ChainCloses
<1>6. LeadsBack(g, off, s, R) \subseteq R
  BY <1>1, <1>5 DEF LeadsBack
<1>7. ASSUME NEW S, LeadsBack(g, off, s, S) \subseteq S PROVE R \subseteq S
  <2>1. base \subseteq S
    BY <1>1, <1>7 DEF LeadsBack
  <2>2. Confines(S, grow, off)
    BY <1>1, <1>7 DEF Confines, LeadsBack
  <2> QED
    BY <1>3, <1>4, <2>1, <2>2, ChainStays
<1> QED
  BY <1>2, <1>5, <1>6, <1>7

\* A recursive function that does not call itself calls one that leads back to it.
LEMMA FirstLeadsBack ==
    ASSUME NEW s \in Functions, graph \in [Functions -> SUBSET Functions], s \in Reach(s), s \notin graph[s]
    PROVE  graph[s] \cap Reaching(graph, Mutual(graph, s) \ {s}, s) # {}
<1>1. PICK y \in graph[s] : Calls(graph, y, s)
  BY ReachFacts
<1>2. y \in Functions /\ y # s /\ Calls(graph, s, y)
  BY CallsFacts
<1>3. PICK c : c = Mutual(graph, s)
  OBVIOUS
<1>4. PICK off \in SUBSET Functions : off = c \ {s}
  BY <1>3, MutualFacts
<1>5. PICK R : R = Reaching(graph, off, s)
  OBVIOUS
<1>6. R \subseteq off /\ LeadsBack(graph, off, s, R) \subseteq R
  BY <1>5, ReachingFacts
<1>7. y \in off
  BY <1>1, <1>2, <1>3, <1>4 DEF Mutual
<1>8. SUFFICES ASSUME y \notin R PROVE FALSE
  BY <1>1, <1>3, <1>4, <1>5
<1>9. PICK E : E = (off \ R) \cup {x \in Functions : ~Calls(graph, x, s)}
  OBVIOUS
<1>10. ASSUME NEW x \in E, NEW z \in graph[x] PROVE z \in E
  <2>1. x \in Functions /\ z \in Functions /\ Calls(graph, x, z)
    BY <1>4, <1>9, CallsFacts
  <2>2. CASE ~Calls(graph, z, s)
    BY <1>9, <2>1, <2>2
  <2>3. CASE Calls(graph, z, s)
    <3>1. Calls(graph, x, s)
      BY <2>1, <2>3, CallsFacts
    <3>2. x \in off /\ x \notin R
      BY <1>9, <1>10, <3>1
    <3>3. Calls(graph, s, x)
      BY <1>3, <1>4, <3>2 DEF Mutual
    <3>4. z \in c
      BY <1>3, <2>1, <2>3, <3>3, CallsFacts DEF Mutual
    <3>5. z # s /\ z \notin R
      BY <1>6, <1>10, <3>2 DEF LeadsBack
    <3> QED
      BY <1>4, <1>9, <3>4, <3>5
  <2> QED
    BY <2>2, <2>3
<1>11. E \in SUBSET Functions /\ Closed(graph, E) /\ y \in E
  BY <1>7, <1>8, <1>9, <1>10 DEF Closed
<1>12. s \in E
  BY <1>1, <1>11 DEF Calls
<1>13. Calls(graph, s, s)
  BY CallsFacts
<1> QED
  BY <1>4, <1>9, <1>12, <1>13

\* So does each function on the way that does not call the start itself.
LEMMA NextLeadsBack ==
    ASSUME NEW g \in [Functions -> SUBSET Functions], NEW off \in SUBSET Functions, NEW s,
           NEW v \in Reaching(g, off, s), s \notin g[v]
    PROVE  g[v] \cap Reaching(g, off \ {v}, s) # {}
<1>1. PICK R, S : R = Reaching(g, off, s) /\ S = Reaching(g, off \ {v}, s)
  OBVIOUS
<1>2. PICK less \in SUBSET Functions : less = off \ {v}
  OBVIOUS
<1>3. S \subseteq less /\ LeadsBack(g, less, s, S) \subseteq S
  BY <1>1, <1>2, ReachingFacts
<1>4. SUFFICES ASSUME g[v] \cap S = {} PROVE FALSE
  BY <1>1
<1>5. LeadsBack(g, off, s, S) \subseteq S
  BY <1>2, <1>3, <1>4 DEF LeadsBack
<1>6. R \subseteq S
  BY <1>1, <1>5, ReachingFacts
<1> QED
  BY <1>1, <1>2, <1>3, <1>6

(***************************************************************************)
(* Simple paths                                                            *)
(***************************************************************************)

\* A sequence without repetition is no longer than there are functions.
LEMMA SimpleIsShort ==
    ASSUME NEW p \in Seq(Functions), \A i, j \in DOMAIN p : i # j => p[i] # p[j]
    PROVE  Len(p) <= Cardinality(Functions)
<1>1. PICK n \in Nat : n = Len(p) /\ DOMAIN p = 1..n /\ p \in [1..n -> Functions]
  OBVIOUS
<1>2. IsFiniteSet(1..n) /\ Cardinality(1..n) = n
  <2>1. n \in Int /\ 1 \in Int
    OBVIOUS
  <2>2. IsFiniteSet(1..n) /\ Cardinality(1..n) = IF 1 > n THEN 0 ELSE n - 1 + 1
    BY <2>1, FS_Interval
  <2> QED
    BY <1>1, <2>2
<1>3. IsFiniteSet(Functions) /\ Cardinality(Functions) \in Nat
  BY CallGraphAssumption, FS_CardinalityType
<1>4. SUFFICES ASSUME ~(n <= Cardinality(Functions)) PROVE FALSE
  BY <1>1
<1>5. Cardinality(Functions) < Cardinality(1..n)
  BY <1>2, <1>3, <1>4
<1>6. \E x, y \in 1..n : x # y /\ p[x] = p[y]
  BY <1>1, <1>2, <1>3, <1>5, FS_PigeonHole
<1> QED
  BY <1>1, <1>6

\* The simple paths are the paths without repetition.
LEMMA SimplePathsAre ==
    ASSUME NEW f \in Functions
    PROVE  SimplePaths(f) = {p \in Seq(Functions) : p # <<>> /\ p[1] = f /\ IsSimple(graph, p)}
<1>1. \A p : p \in UNION {[1..n -> Functions] : n \in 1..Cardinality(Functions)} <=>
          \E n \in 1..Cardinality(Functions) : p \in [1..n -> Functions]
  OBVIOUS
<1>2. ASSUME NEW p \in SimplePaths(f)
      PROVE  p \in Seq(Functions) /\ p # <<>> /\ p[1] = f /\ IsSimple(graph, p)
  <2>1. PICK n \in 1..Cardinality(Functions) : p \in [1..n -> Functions]
    BY <1>1 DEF SimplePaths
  <2>2. p \in Seq(Functions) /\ p # <<>>
    BY <2>1
  <2> QED
    BY <2>2 DEF SimplePaths, IsSimple
<1>3. ASSUME NEW p \in Seq(Functions), p # <<>>, p[1] = f, IsSimple(graph, p) PROVE p \in SimplePaths(f)
  <2>1. Len(p) <= Cardinality(Functions)
    BY <1>3, SimpleIsShort DEF IsSimple
  <2>2. PICK n \in Nat : n = Len(p) /\ n # 0 /\ p \in [1..n -> Functions]
    BY <1>3
  <2>3. n \in 1..Cardinality(Functions)
    BY <2>1, <2>2, CallGraphAssumption, FS_CardinalityType
  <2>4. p \in UNION {[1..k -> Functions] : k \in 1..Cardinality(Functions)}
    BY <1>1, <2>2, <2>3
  <2> QED
    BY <1>3, <2>4 DEF SimplePaths, IsSimple
<1> QED
  BY <1>2, <1>3

\* All functions on a cycle through s call each other.
LEMMA CycleInClass ==
    ASSUME graph \in [Functions -> SUBSET Functions], NEW s \in Functions,
           NEW q \in Seq(Functions), q # <<>>, q[1] = s, s \in graph[Last(q)],
           \A i \in 1..(Len(q) - 1) : q[i + 1] \in graph[q[i]]
    PROVE  \A j \in DOMAIN q : q[j] \in Mutual(graph, s)
<1>1. PICK n \in Nat \ {0} : n = Len(q) /\ DOMAIN q = 1..n /\ \A j \in 1..n : q[j] \in Functions
  OBVIOUS
<1>2. \A i \in 1..n : i # n => i + 1 \in 1..n /\ Calls(graph, q[i], q[i + 1])
  BY <1>1, CallsFacts
<1>3. Calls(graph, q[n], s)
  BY <1>1, CallsFacts DEF Last
<1>4. \A j \in 1..n : Calls(graph, s, q[j])
  <2>1. PICK T : T = {k \in Nat : k + 1 <= n => Calls(graph, s, q[k + 1])}
    OBVIOUS
  <2>2. 0 \in T
    BY <1>1, <2>1, CallsFacts
  <2>3. ASSUME NEW k \in Nat, k \in T PROVE k + 1 \in T
    <3>1. PICK i \in Nat \ {0} : i = k + 1
      OBVIOUS
    <3>2. SUFFICES ASSUME i + 1 <= n PROVE Calls(graph, s, q[i + 1])
      BY <2>1, <3>1
    <3>3. Calls(graph, s, q[i]) /\ i \in 1..n /\ i # n
      BY <2>1, <2>3, <3>1, <3>2
    <3>4. PICK a, b : a = q[i] /\ b = q[i + 1]
      OBVIOUS
    <3>5. Calls(graph, s, a) /\ Calls(graph, a, b)
      BY <1>2, <3>3, <3>4
    <3>6. Calls(graph, s, b)
      BY <3>5, CallsFacts
    <3> QED
      BY <3>4, <3>6
  <2>4. Nat \subseteq T
    BY <2>2, <2>3, Induction
  <2>5. ASSUME NEW j \in 1..n PROVE Calls(graph, s, q[j])
    <3>1. j - 1 \in T /\ (j - 1) + 1 = j /\ j <= n
      BY <2>4
    <3> QED
      BY <2>1, <3>1
  <2> QED
    BY <2>5
<1>5. \A j \in 1..n : Calls(graph, q[j], s)
  <2>1. PICK T : T = {k \in Nat : k < n => Calls(graph, q[n - k], s)}
    OBVIOUS
  <2>2. 0 \in T
    BY <1>3, <2>1
  <2>3. ASSUME NEW k \in Nat, k \in T PROVE k + 1 \in T
    <3>1. SUFFICES ASSUME k + 1 < n PROVE Calls(graph, q[n - (k + 1)], s)
      BY <2>1
    <3>2. PICK i \in 1..n : i = n - (k + 1) /\ i # n /\ i + 1 = n - k
      BY <3>1
    <3>3. PICK a, b : a = q[i] /\ b = q[i + 1]
      OBVIOUS
    <3>4. Calls(graph, b, s) /\ Calls(graph, a, b)
      BY <1>2, <2>1, <2>3, <3>1, <3>2, <3>3
    <3>5. Calls(graph, a, s)
      BY <3>4, CallsFacts
    <3> QED
      BY <3>2, <3>3, <3>5
  <2>4. Nat \subseteq T
    BY <2>2, <2>3, Induction
  <2>5. ASSUME NEW j \in 1..n PROVE Calls(graph, q[j], s)
    <3>1. n - j \in T /\ n - (n - j) = j /\ n - j < n
      BY <2>4
    <3> QED
      BY <2>1, <3>1
  <2> QED
    BY <2>5
<1> QED
  BY <1>1, <1>4, <1>5 DEF Mutual

\* The rest of a cycle leads back to its start.
LEMMA RestLeadsBack ==
    ASSUME graph \in [Functions -> SUBSET Functions], NEW s \in Functions,
           NEW q \in Seq(Functions), q # <<>>, s \in graph[Last(q)],
           \A i \in 1..(Len(q) - 1) : q[i + 1] \in graph[q[i]],
           NEW off \in SUBSET Functions, NEW m \in Nat, \A j \in DOMAIN q : m < j => q[j] \in off
    PROVE  \A j \in DOMAIN q : m < j => q[j] \in Reaching(graph, off, s)
<1>1. PICK n \in Nat \ {0} : n = Len(q) /\ DOMAIN q = 1..n /\ \A j \in 1..n : q[j] \in Functions
  OBVIOUS
<1>2. PICK R : R = Reaching(graph, off, s)
  OBVIOUS
<1>3. \A f \in off : s \in graph[f] \/ graph[f] \cap R # {} => f \in R
  BY <1>2, ReachingFacts DEF LeadsBack
<1>4. PICK T : T = {k \in Nat : k < n /\ m < n - k => q[n - k] \in R}
  OBVIOUS
<1>5. 0 \in T
  <2>1. s \in graph[q[n]] /\ n \in 1..n /\ n - 0 = n
    BY <1>1 DEF Last
  <2>2. m < n => q[n] \in off
    BY <1>1, <2>1
  <2>3. m < n => q[n] \in R
    BY <1>3, <2>1, <2>2
  <2> QED
    BY <1>4, <2>1, <2>3
<1>6. ASSUME NEW k \in Nat, k \in T PROVE k + 1 \in T
  <2>1. SUFFICES ASSUME k + 1 < n, m < n - (k + 1) PROVE q[n - (k + 1)] \in R
    BY <1>4
  <2>2. PICK i \in 1..n : i = n - (k + 1) /\ i \in 1..(n - 1) /\ i + 1 = n - k
    BY <2>1
  <2>3. q[i + 1] \in R /\ q[i + 1] \in graph[q[i]] /\ q[i] \in off
    <3>1. q[n - k] \in R
      BY <1>4, <1>6, <2>1
    <3>2. q[i + 1] \in graph[q[i]]
      BY <1>1, <2>2
    <3>3. q[i] \in off
      BY <1>1, <2>1, <2>2
    <3> QED
      BY <2>2, <3>1, <3>2, <3>3
  <2>4. q[i] \in R
    BY <1>3, <2>3
  <2> QED
    BY <2>2, <2>4
<1>7. Nat \subseteq T
  BY <1>5, <1>6, Induction
<1>8. ASSUME NEW j \in 1..n, m < j PROVE q[j] \in R
  <2>1. n - j \in T /\ n - (n - j) = j /\ n - j < n
    BY <1>7
  <2> QED
    BY <1>4, <1>8, <2>1
<1> QED
  BY <1>1, <1>2, <1>8

(***************************************************************************)
(* The reports, step by step                                               *)
(***************************************************************************)

\* What is searched from a function, while cycles are reported.
LEMMA ComponentSearched ==
    ASSUME TarjanInv, ReportInv, phase # "components", NEW f \in Functions
    PROVE  componentOf[f] = IF f \in Reach(f) /\ Class(f) \cap alreadyReported = {}
                            THEN Mutual(graph, f) ELSE {}
<1>1. Assigned = Functions
  BY DEF TarjanInv, RootsOK
<1>2. componentOf[f] = UNION {c \in Searched : f \in c}
  BY DEF ReportInv
<1> QED
  BY <1>1, <1>2, SearchedComponent

\* A cycle that a search closes as soon as it can.
LEMMA ClosedCyclesAre ==
    ASSUME NEW s \in Functions
    PROVE  /\ ClosedCycles(graph, s) = {p \in SimplePaths(s) : ClosedAtOnce(p)}
           /\ \A q \in ClosedCycles(graph, s) :
                 /\ q \in Seq(Functions) /\ q # <<>> /\ q[1] = s /\ IsSimple(graph, q)
                 /\ s \in graph[Last(q)] /\ \A i \in 1..(Len(q) - 1) : s \notin graph[q[i]]
<1>1. \A p : p \in SimplePaths(s) <=> p \in Seq(Functions) /\ p # <<>> /\ p[1] = s /\ IsSimple(graph, p)
  BY SimplePathsAre
<1> QED
  BY <1>1 DEF ClosedCycles, ClosedAtOnce

\* The functions to step to, in the terms of the lemmas.
LEMMA CandidatesAre ==
    Candidates = graph[Last(path)] \cap Reaching(graph, componentOf[path[1]] \ Elements(path), path[1])
BY DEF Candidates, Current, ReachesStart, Start, Reaching

\* The path with which the search starts is good, and can be closed or extended.
LEMMA FirstPath ==
    ASSUME TarjanInv, ReportInv, phase # "components", NEW s \in Functions, componentOf[s] # {},
           NEW p, p = <<s>>
    PROVE  /\ PathOK(graph, componentOf, p)
           /\ s \in graph[Last(p)] \/ graph[Last(p)] \cap Reaching(graph, componentOf[s] \ Elements(p), s) # {}
<1> USE DEF TarjanInv
<1>1. graph \in [Functions -> SUBSET Functions]
  BY DEF TypeOK
<1>2. componentOf[s] = Mutual(graph, s) /\ s \in Reach(s) /\ s \in Mutual(graph, s)
  BY <1>1, ComponentSearched, MutualFacts
<1>3. /\ p \in Seq(Functions) /\ p # <<>> /\ Len(p) = 1 /\ DOMAIN p = {1} /\ p[1] = s
      /\ Elements(p) = {s} /\ Last(p) = s
  BY DEF Elements, Last
<1>4. IsSimple(graph, p)
  BY <1>3 DEF IsSimple
<1>5. \A q \in ClosedCycles(graph, s) : Extends(p, q)
  <2>1. ASSUME NEW q \in ClosedCycles(graph, s) PROVE Extends(p, q)
    <3>1. q \in Seq(Functions) /\ q # <<>> /\ q[1] = s
      BY ClosedCyclesAre
    <3>2. Len(q) >= 1
      BY <3>1
    <3> QED
      BY <1>3, <3>1, <3>2 DEF Extends
  <2> QED
    BY <2>1
<1>6. PathOK(graph, componentOf, p)
  BY <1>2, <1>3, <1>4, <1>5 DEF PathOK
<1> QED
  BY <1>1, <1>2, <1>3, <1>6, FirstLeadsBack

\* A path that cannot be closed can be extended; no cycle comes before the longer
\* path, and that can be closed or extended in turn.
LEMMA LongerPath ==
    ASSUME TarjanInv, ReportInv, path # <<>>, Start \notin graph[Current],
           NEW v, v = Least(Candidates), NEW p, p = Append(path, v)
    PROVE  /\ Candidates # {}
           /\ PathOK(graph, componentOf, p) /\ p[1] = path[1]
           /\ path[1] \in graph[v] \/ graph[v] \cap Reaching(graph, componentOf[path[1]] \ Elements(p), path[1]) # {}
           /\ Last(p) = v
<1> USE DEF TarjanInv
<1>1. PICK s \in Functions : s = path[1]
  BY DEF ReportInv, PathOK
<1>2. graph \in [Functions -> SUBSET Functions] /\ phase # "components" /\ PathOK(graph, componentOf, path)
  BY DEF TypeOK, ReportInv
<1>3. PICK n \in Nat \ {0} : n = Len(path) /\ DOMAIN path = 1..n
  BY <1>2 DEF PathOK
<1>4. PICK u \in Functions : u = path[n] /\ u = Last(path) /\ u = Current
  BY <1>2, <1>3 DEF PathOK, Current, Last
<1>5. s \notin graph[u]
  BY <1>1, <1>4 DEF Start
<1>6. PICK off, R : off = componentOf[s] \ Elements(path) /\ R = Reaching(graph, off, s)
  OBVIOUS
<1>7. componentOf[s] = Mutual(graph, s) /\ componentOf[s] \subseteq Functions
  <2>1. s \in componentOf[s]
    <3>1. s \in Elements(path)
      BY <1>1, <1>3 DEF Elements
    <3> QED
      BY <1>1, <1>2, <3>1 DEF PathOK
  <2> QED
    BY <1>2, <2>1, ComponentSearched, MutualFacts
<1>8. off \in SUBSET Functions /\ R \subseteq off
  <2>1. off \in SUBSET Functions
    BY <1>6, <1>7
  <2>2. graph \in [Functions -> SUBSET Functions]
    BY <1>2
  <2> QED
    BY <1>6, <2>1, <2>2, ReachingFacts
<1>9. Candidates = graph[u] \cap R
  BY <1>1, <1>4, <1>6, CandidatesAre
<1>10. Candidates # {}
  BY <1>5, <1>1, <1>4 DEF ReportInv, Start
<1>11. Candidates \in SUBSET Functions
  BY <1>8, <1>9
<1>12. v \in graph[u] /\ v \in R /\ v \in off /\ v \in Functions /\ \A w \in graph[u] \cap R : v <= w
  BY <1>8, <1>9, <1>10, <1>11, LeastIsMember
<1>13. /\ path \in Seq(Functions) /\ p \in Seq(Functions) /\ p # <<>> /\ Len(p) = n + 1 /\ DOMAIN p = 1..(n + 1)
       /\ p[n + 1] = v /\ \A i \in 1..n : p[i] = path[i]
  BY <1>2, <1>3, <1>12 DEF PathOK
<1>14. Elements(p) = Elements(path) \cup {v} /\ Last(p) = v /\ p[1] = s
  BY <1>1, <1>12, <1>13, ElementsFacts DEF Last
<1>15. v \notin Elements(path)
  BY <1>6, <1>12
<1>16. \A i \in 1..(n + 1) : i \in 1..n \/ i = n + 1
  OBVIOUS
<1>17. IsSimple(graph, p)
  <2>1. ASSUME NEW i \in 1..n PROVE p[i + 1] \in graph[p[i]]
    <3>1. CASE i = n
      BY <1>4, <1>12, <1>13, <3>1
    <3>2. CASE i # n
      <4>1. i \in 1..(n - 1) /\ i + 1 \in 1..n
        BY <3>2
      <4> QED
        BY <1>2, <1>3, <1>13, <4>1 DEF PathOK, IsSimple
    <3> QED
      BY <3>1, <3>2
  <2>2. \A i \in 1..n : path[i] # v
    BY <1>3, <1>15 DEF Elements
  <2>3. \A i, j \in 1..n : i # j => path[i] # path[j]
    BY <1>2, <1>3 DEF PathOK, IsSimple
  <2>4. \A i, j \in 1..(n + 1) : i # j => p[i] # p[j]
    BY <1>13, <1>16, <2>2, <2>3
  <2>5. Len(p) - 1 = n /\ DOMAIN p = 1..(n + 1)
    BY <1>13
  <2> QED
    BY <2>1, <2>4, <2>5 DEF IsSimple
<1>18. Elements(p) \subseteq componentOf[s]
  BY <1>1, <1>2, <1>6, <1>12, <1>14 DEF PathOK
<1>19. \A i \in 1..n : s \notin graph[p[i]]
  <2>1. \A i \in 1..n : i = n \/ i \in 1..(n - 1)
    OBVIOUS
  <2>2. \A i \in 1..(n - 1) : s \notin graph[path[i]]
    BY <1>1, <1>2, <1>3 DEF PathOK
  <2> QED
    BY <1>4, <1>5, <1>13, <2>1, <2>2
<1>20. ASSUME NEW q \in ClosedCycles(graph, s) PROVE Extends(p, q) \/ Before(p, q)
  <2>1. /\ q \in Seq(Functions) /\ q # <<>> /\ q[1] = s /\ IsSimple(graph, q) /\ s \in graph[Last(q)]
    BY ClosedCyclesAre
  <2>2. CASE Before(path, q)
    <3>1. PICK i \in DOMAIN path \cap DOMAIN q : path[i] < q[i] /\ \A j \in 1..(i - 1) : path[j] = q[j]
      BY <2>2 DEF Before
    <3>2. i \in 1..n /\ i \in 1..(n + 1) /\ \A j \in 1..(i - 1) : j \in 1..n
      BY <1>3, <3>1
    <3> QED
      BY <1>13, <3>1, <3>2 DEF Before
  <2>3. CASE Extends(path, q)
    <3>1. PICK m \in Nat \ {0} : m = Len(q) /\ DOMAIN q = 1..m
      BY <2>1
    <3>2. n <= m /\ \A i \in 1..n : q[i] = path[i]
      BY <1>3, <2>3, <3>1 DEF Extends
    <3>3. n # m
      <4>1. Last(q) = q[m]
        BY <3>1 DEF Last
      <4>2. n \in 1..n
        OBVIOUS
      <4> QED
        BY <1>4, <1>5, <2>1, <3>2, <4>1, <4>2
    <3>4. n + 1 \in 1..m /\ n \in 1..(m - 1) /\ 1..n \subseteq 1..m
      BY <3>2, <3>3
    <3>5. q[n + 1] \in graph[u]
      <4>1. \A i \in 1..(m - 1) : q[i + 1] \in graph[q[i]]
        BY <2>1, <3>1 DEF IsSimple
      <4>2. q[n + 1] \in graph[q[n]]
        BY <3>4, <4>1
      <4>3. q[n] = u
        <5>1. n \in 1..n
          OBVIOUS
        <5>2. q[n] = path[n]
          BY <3>2, <5>1
        <5> QED
          BY <1>4, <5>2
      <4> QED
        BY <4>2, <4>3
    <3>6. ASSUME NEW j \in DOMAIN q, n < j PROVE q[j] \in off
      <4>1. q[j] \in componentOf[s]
        BY <1>2, <1>7, <2>1, CycleInClass DEF IsSimple
      <4>2. \A i \in 1..n : q[j] # path[i]
        <5>1. \A i \in 1..n : i \in DOMAIN q /\ i # j
          BY <3>1, <3>4, <3>6
        <5>2. \A i \in DOMAIN q : i # j => q[j] # q[i]
          BY <2>1 DEF IsSimple
        <5> QED
          BY <3>2, <5>1, <5>2
      <4>3. q[j] \notin Elements(path)
        BY <1>3, <4>2 DEF Elements
      <4> QED
        BY <1>6, <4>1, <4>3
    <3>7. q[n + 1] \in R
      <4>1. \A i \in 1..(Len(q) - 1) : q[i + 1] \in graph[q[i]]
        BY <2>1 DEF IsSimple
      <4>2. \A j \in DOMAIN q : n < j => q[j] \in Reaching(graph, off, s)
        BY <1>2, <1>8, <2>1, <3>6, <4>1, RestLeadsBack
      <4>3. n + 1 \in DOMAIN q /\ n < n + 1
        BY <3>1, <3>4
      <4> QED
        BY <1>6, <4>2, <4>3
    <3>8. v <= q[n + 1]
      BY <1>12, <3>5, <3>7
    <3>9. CASE q[n + 1] = v
      <4>1. \A i \in 1..(n + 1) : q[i] = p[i]
        <5>1. \A i \in 1..n : q[i] = p[i]
          BY <1>13, <3>2
        <5> QED
          BY <1>13, <1>16, <3>9, <5>1
      <4>2. Len(p) <= Len(q)
        BY <1>13, <3>1, <3>4
      <4> QED
        BY <1>13, <4>1, <4>2 DEF Extends
    <3>10. CASE q[n + 1] # v
      <4>1. v \in Nat /\ q[n + 1] \in Nat
        <5>1. n + 1 \in DOMAIN q
          BY <3>1, <3>4
        <5>2. q[n + 1] \in Functions
          BY <2>1, <5>1
        <5> QED
          BY <1>12, <5>2, CallGraphAssumption
      <4>2. p[n + 1] < q[n + 1]
        BY <1>13, <3>8, <3>10, <4>1
      <4>3. \A j \in 1..((n + 1) - 1) : p[j] = q[j]
        <5>1. (n + 1) - 1 = n
          OBVIOUS
        <5>2. \A j \in 1..n : p[j] = q[j]
          BY <1>13, <3>2
        <5> QED
          BY <5>1, <5>2
      <4>4. n + 1 \in DOMAIN p \cap DOMAIN q
        BY <1>13, <3>1, <3>4
      <4> QED
        BY <4>2, <4>3, <4>4 DEF Before
    <3> QED
      BY <3>9, <3>10
  <2> QED
    BY <1>1, <1>2, <2>2, <2>3 DEF PathOK
<1>21. PathOK(graph, componentOf, p)
  <2>1. Len(p) - 1 = n
    BY <1>13
  <2> QED
    BY <1>13, <1>14, <1>17, <1>18, <1>19, <1>20, <2>1 DEF PathOK
<1>22. s \in graph[v] \/ graph[v] \cap Reaching(graph, componentOf[s] \ Elements(p), s) # {}
  <2>1. componentOf[s] \ Elements(p) = off \ {v}
    BY <1>6, <1>14
  <2> QED
    BY <1>2, <1>6, <1>8, <1>12, <2>1, NextLeadsBack
<1> QED
  BY <1>1, <1>10, <1>14, <1>21, <1>22

\* No report is made while components are searched.
LEMMA SearchReports ==
    ASSUME TarjanInv, ReportInv, NextRoot \/ NextCallee \/ FinishNode
    PROVE  ReportInv'
<1>1. phase = "components"
  BY DEF NextRoot, NextCallee, FinishNode, TarjanInv, RootsOK
<1>2. phase' = phase /\ path' = path /\ cycles' = cycles
  BY DEF NextRoot, NextCallee, FinishNode, reportVars
<1> QED
  BY <1>1, <1>2 DEF ReportInv

\* When they have been found no function has been looked at as a start.
LEMMA StartReports ==
    ASSUME TarjanInv, ReportInv, StartReport
    PROVE  ReportInv'
<1>1. /\ phase = "components" /\ phase' = "report" /\ next' = 1 /\ path' = <<>> /\ cycles' = <<>>
      /\ componentOf' = [f \in Functions |-> UNION {c \in Searched : f \in c}]
      /\ UNCHANGED <<graph, alreadyReported, components>>
  BY DEF StartReport, ReportInv, inputVars, tarjanVars
<1>2. Searched' = Searched
  BY <1>1 DEF Searched, HasCycle
<1>3. componentOf' = [f \in Functions |-> UNION {c \in Searched' : f \in c}]
  BY <1>1, <1>2
<1>4. DOMAIN Order \subseteq Nat \ {0}
  BY CallGraphAssumption, FS_CardinalityType
<1>5. \A i \in DOMAIN Order : ~(i < next')
  BY <1>1, <1>4
<1> QED
  BY <1>1, <1>3, <1>5 DEF ReportInv

\* The reports leave the components as they are.
LEMMA ReportFrame ==
    ASSUME ReportInv, phase # "components",
           UNCHANGED <<graph, alreadyReported, components, componentOf>>
    PROVE  componentOf' = [f \in Functions |-> UNION {c \in Searched' : f \in c}]
<1>1. Searched' = Searched
  BY DEF Searched, HasCycle
<1> QED
  BY <1>1 DEF ReportInv

\* A start is passed over when it is on a cycle already or there is nothing to search
\* from it; otherwise the path begins there.
LEMMA NextStartReports ==
    ASSUME TarjanInv, ReportInv, NextStart
    PROVE  ReportInv'
<1>1. /\ phase = "report" /\ phase' = "report" /\ path = <<>> /\ next \in DOMAIN Order
      /\ UNCHANGED <<graph, alreadyReported, components, componentOf, cycles>>
  BY DEF NextStart, inputVars, tarjanVars
<1>2. componentOf' = [f \in Functions |-> UNION {c \in Searched' : f \in c}]
  BY <1>1, ReportFrame
<1>3. /\ cycles \in Seq(Seq(Functions))
      /\ \A n \in DOMAIN cycles : /\ PathOK(graph, componentOf, cycles[n])
                                  /\ cycles[n][1] \in graph[Last(cycles[n])]
  BY DEF ReportInv
<1>4. ReportedNodes' = ReportedNodes
  BY <1>1 DEF ReportedNodes, Elements
<1>5. \A i \in DOMAIN Order : i < next => componentOf[Order[i]] = {} \/ Order[i] \in ReportedNodes
  BY <1>1 DEF ReportInv
<1>6. DOMAIN Order \subseteq Nat /\ next \in Nat
  BY <1>1, CallGraphAssumption, FS_CardinalityType
<1>7. CASE Order[next] \in ReportedNodes \/ componentOf[Order[next]] = {}
  <2>1. next' = next + 1 /\ path' = <<>>
    BY <1>1, <1>7 DEF NextStart
  <2>2. \A i \in DOMAIN Order : i < next' => componentOf'[Order[i]] = {} \/ Order[i] \in ReportedNodes'
    <3>1. \A i \in DOMAIN Order : i < next' => i < next \/ i = next
      BY <1>6, <2>1
    <3> QED
      BY <1>1, <1>4, <1>5, <1>7, <3>1
  <2> QED
    BY <1>1, <1>2, <1>3, <2>1, <2>2 DEF ReportInv
<1>8. CASE ~(Order[next] \in ReportedNodes \/ componentOf[Order[next]] = {})
  <2>1. PICK s \in Functions : s = Order[next] /\ componentOf[s] # {}
    BY <1>1, <1>8, CallGraphAssumption
  <2>2. PICK p : p = <<s>>
    OBVIOUS
  <2>3. path' = p /\ next' = next
    BY <1>1, <1>8, <2>1, <2>2 DEF NextStart
  <2>4. /\ PathOK(graph, componentOf, p) /\ p # <<>> /\ p[1] = s
        /\ s \in graph[Last(p)] \/ graph[Last(p)] \cap Reaching(graph, componentOf[s] \ Elements(p), s) # {}
    BY <1>1, <2>1, <2>2, FirstPath
  <2>5. Start' \in graph'[Current'] \/ Candidates' # {}
    <3>1. Start' = s /\ Current' = Last(p)
      BY <2>3, <2>4 DEF Start, Current, Last
    <3>2. ReachesStart' = Reaching(graph, componentOf[s] \ Elements(p), s)
      BY <1>1, <2>3, <3>1 DEF ReachesStart, Reaching, Elements
    <3> QED
      BY <1>1, <2>4, <3>1, <3>2 DEF Candidates
  <2>6. PathOK(graph', componentOf', path')
    BY <1>1, <2>3, <2>4
  <2>7. \A i \in DOMAIN Order : i < next' => componentOf'[Order[i]] = {} \/ Order[i] \in ReportedNodes'
    BY <1>1, <1>4, <1>5, <2>3
  <2> QED
    BY <1>1, <1>2, <1>3, <2>1, <2>3, <2>4, <2>5, <2>6, <2>7 DEF ReportInv
<1> QED
  BY <1>7, <1>8

\* The reports end behind the last function.
LEMMA FinishReports ==
    ASSUME TarjanInv, ReportInv, FinishReport
    PROVE  ReportInv'
<1>1. /\ phase = "report" /\ phase' = "done" /\ path = <<>> /\ path' = <<>>
      /\ next' = next /\ next \notin DOMAIN Order
      /\ UNCHANGED <<graph, alreadyReported, components, componentOf, cycles>>
  BY DEF FinishReport, inputVars, tarjanVars, reportVars
<1>2. componentOf' = [f \in Functions |-> UNION {c \in Searched' : f \in c}]
  BY <1>1, ReportFrame
<1>3. ReportedNodes' = ReportedNodes
  BY <1>1 DEF ReportedNodes, Elements
<1>4. next = Cardinality(Functions) + 1
  <2>1. DOMAIN Order = 1..Cardinality(Functions) /\ Cardinality(Functions) \in Nat
    BY CallGraphAssumption, FS_CardinalityType
  <2> QED
    BY <1>1, <2>1 DEF TarjanInv, TypeOK
<1> QED
  BY <1>1, <1>2, <1>3, <1>4 DEF ReportInv

\* A cycle that is closed is reported, and its functions are not started from again.
LEMMA CloseCycleReports ==
    ASSUME TarjanInv, ReportInv, CloseCycle
    PROVE  ReportInv'
<1>1. /\ path # <<>> /\ path' = <<>> /\ Start \in graph[Current] /\ next' = next + 1
      /\ cycles' = Append(cycles, path)
      /\ UNCHANGED <<graph, alreadyReported, components, componentOf, phase>>
  BY DEF CloseCycle, inputVars, tarjanVars
<1>2. /\ phase = "report" /\ next \in DOMAIN Order
      /\ PathOK(graph, componentOf, path) /\ path[1] = Order[next]
      /\ cycles \in Seq(Seq(Functions))
  BY <1>1 DEF ReportInv
<1>3. componentOf' = [f \in Functions |-> UNION {c \in Searched' : f \in c}]
  BY <1>1, <1>2, ReportFrame
<1>4. path \in Seq(Functions) /\ path[1] \in graph[Last(path)] /\ path[1] \in Elements(path)
  BY <1>1, <1>2 DEF PathOK, Start, Current, Elements
<1>5. PICK n \in Nat : n = Len(cycles) /\ DOMAIN cycles = 1..n
  BY <1>2
<1>6. /\ cycles' \in Seq(Seq(Functions)) /\ DOMAIN cycles' = 1..(n + 1)
      /\ cycles'[n + 1] = path /\ \A i \in 1..n : cycles'[i] = cycles[i]
  BY <1>1, <1>2, <1>4, <1>5
<1>7. \A i \in DOMAIN cycles' : /\ PathOK(graph', componentOf', cycles'[i])
                                /\ cycles'[i][1] \in graph'[Last(cycles'[i])]
  <2>1. \A i \in 1..(n + 1) : i \in 1..n \/ i = n + 1
    OBVIOUS
  <2>2. \A i \in 1..n : /\ PathOK(graph, componentOf, cycles[i])
                        /\ cycles[i][1] \in graph[Last(cycles[i])]
    BY <1>5 DEF ReportInv
  <2> QED
    BY <1>1, <1>2, <1>4, <1>6, <2>1, <2>2
<1>8. ReportedNodes' = ReportedNodes \cup Elements(path)
  <2>1. PICK S : S = Seq(Functions)
    OBVIOUS
  <2>2. cycles \in Seq(S) /\ path \in S
    BY <1>2, <1>4, <2>1
  <2>3. Elements(Append(cycles, path)) = Elements(cycles) \cup {path}
    BY <2>2, ElementsFacts
  <2>4. Elements(cycles)' = Elements(cycles) \cup {path}
    <3>1. Elements(cycles)' = {cycles'[i] : i \in DOMAIN cycles'}
      BY DEF Elements
    <3>2. Elements(Append(cycles, path)) = {Append(cycles, path)[i] : i \in DOMAIN Append(cycles, path)}
      BY DEF Elements
    <3> QED
      BY <1>1, <2>3, <3>1, <3>2
  <2> QED
    BY <2>4 DEF ReportedNodes
<1>9. \A i \in DOMAIN Order : i < next' => componentOf'[Order[i]] = {} \/ Order[i] \in ReportedNodes'
  <2>1. DOMAIN Order \subseteq Nat /\ next \in Nat
    BY <1>2, CallGraphAssumption, FS_CardinalityType
  <2>2. \A i \in DOMAIN Order : i < next' => i < next \/ i = next
    BY <1>1, <2>1
  <2>3. \A i \in DOMAIN Order : i < next => componentOf[Order[i]] = {} \/ Order[i] \in ReportedNodes
    BY <1>2 DEF ReportInv
  <2> QED
    BY <1>1, <1>2, <1>4, <1>8, <2>2, <2>3
<1> QED
  BY <1>1, <1>2, <1>3, <1>6, <1>7, <1>9 DEF ReportInv

\* The search never gives up: a path that cannot be closed grows.
LEMMA ExtendPathReports ==
    ASSUME TarjanInv, ReportInv, ExtendPath
    PROVE  ReportInv'
<1>1. /\ path # <<>> /\ Start \notin graph[Current]
      /\ UNCHANGED <<graph, alreadyReported, components, componentOf, phase, cycles>>
  BY DEF ExtendPath, inputVars, tarjanVars
<1>2. phase = "report" /\ next \in DOMAIN Order /\ path[1] = Order[next]
  BY <1>1 DEF ReportInv
<1>3. componentOf' = [f \in Functions |-> UNION {c \in Searched' : f \in c}]
  BY <1>1, <1>2, ReportFrame
<1>4. PICK v, p : v = Least(Candidates) /\ p = Append(path, v)
  OBVIOUS
<1>5. /\ Candidates # {} /\ PathOK(graph, componentOf, p) /\ p[1] = path[1] /\ Last(p) = v
      /\ \/ path[1] \in graph[v]
         \/ graph[v] \cap Reaching(graph, componentOf[path[1]] \ Elements(p), path[1]) # {}
  BY <1>1, <1>4, LongerPath
<1>6. path' = p /\ next' = next
  BY <1>1, <1>4, <1>5 DEF ExtendPath
<1>7. PICK s : s = path[1] /\ s = p[1]
  BY <1>5
<1>8. Start' \in graph'[Current'] \/ Candidates' # {}
  <2>1. Start' = s /\ Current' = v
    BY <1>5, <1>6, <1>7 DEF Start, Current, Last
  <2>2. ReachesStart' = Reaching(graph, componentOf[s] \ Elements(p), s)
    BY <1>1, <1>6, <2>1 DEF ReachesStart, Reaching, Elements
  <2> QED
    BY <1>1, <1>5, <1>7, <2>1, <2>2 DEF Candidates
<1>9. ReportedNodes' = ReportedNodes
  BY <1>1 DEF ReportedNodes, Elements
<1>10. p # <<>>
  BY <1>5 DEF PathOK
<1>11. PathOK(graph', componentOf', path') /\ path'[1] = Order[next']
  BY <1>1, <1>2, <1>5, <1>6
<1> QED
  BY <1>1, <1>2, <1>3, <1>6, <1>8, <1>9, <1>10, <1>11 DEF ReportInv

\* The invariant of the reports holds at first.
LEMMA ReportInit ==
    ASSUME Init
    PROVE  ReportInv
BY DEF Init, ReportInv

\* No step of the search disturbs the invariant of the reports.
LEMMA ReportNext ==
    ASSUME TarjanInv, ReportInv, [Next]_vars
    PROVE  ReportInv'
<1>1. CASE NextRoot \/ NextCallee \/ FinishNode
  BY <1>1, SearchReports
<1>2. CASE StartReport
  BY <1>2, StartReports
<1>3. CASE NextStart
  BY <1>3, NextStartReports
<1>4. CASE FinishReport
  BY <1>4, FinishReports
<1>5. CASE CloseCycle
  BY <1>5, CloseCycleReports
<1>6. CASE ExtendPath
  BY <1>6, ExtendPathReports
<1>7. CASE UNCHANGED vars
  <2>1. UNCHANGED <<graph, alreadyReported, components, componentOf, phase, next, path, cycles>>
    BY <1>7 DEF vars
  <2>2. Searched' = Searched /\ ReportedNodes' = ReportedNodes
    BY <2>1 DEF Searched, HasCycle, ReportedNodes, Elements
  <2>3. Start' = Start /\ Current' = Current /\ ReachesStart' = ReachesStart
    BY <2>1 DEF Start, Current, ReachesStart, Last, Elements
  <2>4. Candidates' = Candidates
    BY <2>1, <2>3 DEF Candidates
  <2> QED
    BY <2>1, <2>2, <2>3, <2>4 DEF ReportInv
<1> QED
  BY <1>1, <1>2, <1>3, <1>4, <1>5, <1>6, <1>7 DEF Next

(***************************************************************************)
(* The theorem                                                             *)
(***************************************************************************)

\* When the search is done it has named the functions of every component searched.
LEMMA AllNamed ==
    ASSUME SearchInv, phase = "done"
    PROVE  Named = {f \in Recursive : Class(f) \cap alreadyReported = {}}
<1> USE DEF SearchInv
<1>1. ASSUME NEW f \in Functions
      PROVE  componentOf[f] # {} <=> f \in Recursive /\ Class(f) \cap alreadyReported = {}
  <2>1. f \in Mutual(graph, f)
    BY MutualFacts DEF TarjanInv, TypeOK
  <2> QED
    BY <2>1, ComponentSearched DEF Recursive
<1>2. ASSUME NEW f \in Functions, componentOf[f] # {} PROVE f \in Named
  <2>1. PICK i \in DOMAIN Order : f = Order[i]
    BY CallGraphAssumption
  <2>2. i < next
    <3>1. DOMAIN Order = 1..Cardinality(Functions) /\ Cardinality(Functions) \in Nat
      BY CallGraphAssumption, FS_CardinalityType
    <3> QED
      BY <3>1 DEF ReportInv
  <2>3. f \in ReportedNodes
    BY <1>2, <2>1, <2>2 DEF ReportInv
  <2> QED
    BY <2>3 DEF ReportedNodes, Elements, Named
<1>3. ASSUME NEW f \in Named PROVE componentOf[f] # {}
  <2>1. PICK n \in DOMAIN cycles : f \in Elements(cycles[n])
    BY DEF Named
  <2>2. PICK p : p = cycles[n]
    OBVIOUS
  <2>3. PathOK(graph, componentOf, p)
    BY <2>2 DEF ReportInv
  <2>4. PICK s \in Functions : s = p[1] /\ f \in componentOf[s]
    BY <2>1, <2>2, <2>3 DEF PathOK
  <2>5. componentOf[s] = Mutual(graph, s) /\ componentOf[s] \in Searched
    <3>1. /\ Assigned = Functions /\ componentOf[s] = UNION {c \in Searched : s \in c}
          /\ graph \in [Functions -> SUBSET Functions]
      BY DEF ReportInv, TarjanInv, RootsOK, TypeOK
    <3>2. componentOf[s] = Mutual(graph, s)
      BY <2>4, ComponentSearched
    <3>3. PICK c \in Searched : s \in c
      BY <2>4, <3>1
    <3>4. c = Mutual(graph, s)
      BY <3>3 DEF Searched, TarjanInv, ComponentsOK
    <3> QED
      BY <3>2, <3>3, <3>4
  <2>6. f \in Functions /\ componentOf[f] = UNION {c \in Searched : f \in c}
    BY DEF ReportInv, Named
  <2> QED
    BY <2>4, <2>5, <2>6
<1>4. Named \subseteq Functions /\ Recursive \subseteq Functions
  BY DEF Named, Recursive
<1> QED
  BY <1>1, <1>2, <1>3, <1>4

\* Each cycle shown comes before every other one from its start.
LEMMA ShownFirst ==
    ASSUME SearchInv, NEW n \in DOMAIN cycles, NEW c, c = cycles[n], NEW s, s = c[1]
    PROVE  /\ c \in {p \in SimplePaths(s) : ClosedAtOnce(p)}
           /\ \A p \in {p \in SimplePaths(s) : ClosedAtOnce(p)} \ {c} : Before(c, p)
<1>1. PathOK(graph, componentOf, c) /\ s \in graph[Last(c)]
  BY DEF SearchInv, ReportInv
<1>2. /\ c \in Seq(Functions) /\ c # <<>> /\ IsSimple(graph, c)
      /\ \A i \in 1..(Len(c) - 1) : s \notin graph[c[i]]
      /\ \A q \in ClosedCycles(graph, s) : Extends(c, q) \/ Before(c, q)
  BY <1>1 DEF PathOK
<1>3. s \in Functions
  BY <1>2
<1>4. c \in ClosedCycles(graph, s)
  BY <1>1, <1>2 DEF ClosedCycles
<1>5. ASSUME NEW p \in ClosedCycles(graph, s), Extends(c, p) PROVE p = c
  <2>1. p \in Seq(Functions) /\ \A i \in 1..(Len(p) - 1) : s \notin graph[p[i]]
    BY DEF ClosedCycles
  <2>2. PICK l \in Nat \ {0} : l = Len(c) /\ DOMAIN c = 1..l /\ Last(c) = c[l]
    BY <1>2 DEF Last
  <2>3. l <= Len(p) /\ (\A i \in 1..l : p[i] = c[i]) /\ l \in 1..l
    BY <1>5, <2>2 DEF Extends
  <2>4. s \in graph[p[l]]
    BY <1>1, <2>2, <2>3
  <2>5. ~(l \in 1..(Len(p) - 1))
    BY <2>1, <2>4
  <2>6. Len(p) = l
    BY <2>1, <2>3, <2>5
  <2>7. \A i \in 1..Len(p) : p[i] = c[i]
    BY <2>3, <2>6
  <2> QED
    BY <1>2, <2>1, <2>2, <2>6, <2>7, SeqEqual
<1>6. ClosedCycles(graph, s) = {p \in SimplePaths(s) : ClosedAtOnce(p)}
  BY <1>3, ClosedCyclesAre
<1> QED
  BY <1>2, <1>4, <1>5, <1>6

\* So what is reported is exact.
LEMMA ReportsAreExact ==
    ASSUME SearchInv
    PROVE  RecursionReported
<1>1. phase = "done" => Named = {f \in Recursive : Class(f) \cap alreadyReported = {}}
  BY AllNamed
<1>2. ASSUME NEW n \in DOMAIN cycles, NEW closed,
             closed = {p \in SimplePaths(cycles[n][1]) : ClosedAtOnce(p)}
      PROVE  cycles[n] \in closed /\ \A p \in closed \ {cycles[n]} : Before(cycles[n], p)
  BY <1>2, ShownFirst
<1> QED
  BY <1>1, <1>2 DEF RecursionReported

\* On every call graph the search for recursion (_report_recursion_cycles) is exact:
\* when it is done, the functions that it named are those that may call themselves,
\* directly or not, unless one they call and are called by was reported before; and
\* every cycle that it shows is one of the graph, and the first that an exhaustive
\* depth first search would have closed.
THEOREM SearchIsExact == Spec => []RecursionReported
<1>1. Init => SearchInv
  BY TarjanInit, ReportInit DEF SearchInv
<1>2. SearchInv /\ [Next]_vars => SearchInv'
  BY TarjanNext, ReportNext DEF SearchInv
<1>3. SearchInv => RecursionReported
  BY ReportsAreExact
<1> QED
  BY <1>1, <1>2, <1>3, PTL DEF Spec

================================================================================
