------------------------- MODULE ControlFlowProofs -------------------------
(* Proofs about ControlFlow: a function that passed the checks returns on    *)
(* every path, its jumps arrive, what is reported as unreachable never runs, *)
(* and a missing return that is reported can happen.  The invariants are     *)
(* about any stack fs of frames and a jump j on its way at its top, so that  *)
(* a step is a fact about two stacks.                                        *)
EXTENDS ControlFlow, SequenceTheorems, WellFoundedInduction, TLAPS

-----------------------------------------------------------------------------
(* The inductive invariant                                                 *)

Jumps == [op : {"none", "ret", "break", "continue", "fall"}, label : Labels]

Ops == {"step", "ret", "break", "continue", "fall", "block", "while", "for", "defer", "function",
        "if", "match"}
Types == DOMAIN Values \cup {""}

\* The records statements are, however deep.
Nodes == [op : Ops, label : Labels, subs : Seq(Seq(Statements)), type : Types,
          cases : Seq(SUBSET Patterns)]

\* What a list that runs belongs to.
Owns(f) ==
    \/ f.kind = "block" /\ f.of.op \in {"block", "if"}
    \/ f.kind = "block" /\ f.of.op = "match" /\ f.n > Len(f.of.cases)
    \/ f.kind = "case" /\ f.of.op = "match" /\ f.n <= Len(f.of.cases)
    \/ f.kind = "loop" /\ f.of.op \in {"while", "for"}
    \/ f.kind = "function" /\ f.of.op = "function"
    \/ f.kind = "defer" /\ f.of.op = "defer"

Kinds == {"block", "case", "loop", "function", "defer"}

Frames == [kind : Kinds, of : Nodes, n : Nat, stmts : Seq(Statements), at : Nat,
           defers : Seq(Statements), saved : Jumps]

FrameOK(f) ==
    /\ f \in Frames /\ Shaped(f.of) /\ Owns(f)
    /\ f.n \in DOMAIN f.of.subs /\ f.stmts = f.of.subs[f.n]
    /\ f.at \in 1..(Len(f.stmts) + 1)
    /\ \A d \in Range(f.defers) : d \in Range(f.stmts) /\ d.op = "defer"
    /\ f.saved.op = "none" \/ f.kind # "defer" => f.saved = NoJump

\* A list is in the one below it, where that one has just been, unless deferred.
Linked(below, f) ==
    /\ f.of \in Range(below.stmts)
    /\ f.kind # "defer" => below.at > 1 /\ f.of = below.stmts[below.at - 1]

\* The stack of a call of the function with this body.
StackOK(fs, stmts) ==
    /\ fs \in Seq(Frames) /\ fs # <<>>
    /\ fs[1].kind = "function" /\ fs[1].stmts = stmts
    /\ \A i \in 1..Len(fs) : FrameOK(fs[i])
    /\ \A i \in 2..Len(fs) : Linked(fs[i - 1], fs[i])

\* No function and no deferred statement was entered between k and i.
SameCall(fs, k, i) == \A m \in (k + 1)..i : fs[m].kind # "function"
SameRun(fs, k, i) == \A m \in (k + 1)..i : fs[m].kind \notin {"function", "defer"}

Target(f, j) == f.kind = "loop" /\ j.label \in {NoLabel, f.of.label}

\* Jump j, on its way at i, arrives, and break not at a loop taken for endless.
Arrives(fs, i, j) ==
    /\ j.op = "ret" => \E k \in 1..i : fs[k].kind = "function" /\ SameRun(fs, k, i)
    /\ j.op \in {"break", "continue"} => \E k \in 1..i : Target(fs[k], j) /\ SameRun(fs, k, i)
    /\ j.op = "fall" => fs[i].kind = "case" /\ fs[i].n < Len(fs[i].of.cases)
    /\ j.op = "break" =>
          \A k \in 1..i : Target(fs[k], j) /\ LoopsForever(fs[k].of) /\ SameCall(fs, k, i) =>
              \E m \in (k + 1)..i : Target(fs[m], j)

JumpsArrive(fs, j) ==
    /\ Arrives(fs, Len(fs), j)
    /\ \A i \in 2..Len(fs) : fs[i].kind = "defer" => Arrives(fs, i - 1, fs[i].saved)

\* A jump that waits at i, or a list that runs inside i.
Pending(fs, j, i) ==
    IF i = Len(fs) THEN j ELSE IF fs[i + 1].kind = "defer" THEN fs[i + 1].saved ELSE NoJump
Inside(fs, i) == i < Len(fs) /\ fs[i + 1].kind # "defer"

\* The end of a list that returns is only reached by a jump, or by the last
\* statement while it runs.
NoFallingOff(fs, j) ==
    \A i \in 1..Len(fs) :
        fs[i].kind \in {"function", "block", "case"} /\ Returns(fs[i].stmts)
            /\ fs[i].at = Len(fs[i].stmts) + 1 =>
                Pending(fs, j, i) # NoJump \/ Inside(fs, i)

\* Labels of the loops around the statements of list i, in its function.
LoopsAround(fs, i) ==
    {fs[k].of.label : k \in {m \in 1..i : fs[m].kind = "loop" /\ SameCall(fs, m, i)}}

\* Statements that are behind a list did not leave it.
Behind(fs, j, i) ==
    IF Pending(fs, j, i) # NoJump \/ Inside(fs, i) THEN fs[i].at - 2 ELSE fs[i].at - 1

NoneLeft(fs, j) ==
    \A i \in 1..Len(fs) :
        ~(fs[i].kind = "loop" /\ fs[i].at = Len(fs[i].stmts) + 1) =>
            \A m \in 1..Behind(fs, j, i) : ~Exits(fs[i].stmts[m], LoopsAround(fs, i))

StackInv(fs, j, stmts) ==
    StackOK(fs, stmts) /\ JumpsArrive(fs, j) /\ NoFallingOff(fs, j) /\ NoneLeft(fs, j)

FlowInv ==
    /\ body \in Bodies
    /\ errors = Validate(body)
    /\ outcome \in {"rejected", "running", "returned"}
    /\ outcome # "rejected" => errors \subseteq {"unreachable_code"}
    /\ jump \in Jumps /\ (jump.op = "none" => jump = NoJump)
    /\ outcome = "running" => StackInv(frames, jump, body)

-----------------------------------------------------------------------------
(* Statements and the recursion over them                                  *)

\* Induction over the natural numbers, as a fact about a set of them.
LEMMA Induction ==
    ASSUME NEW T, 0 \in T, \A n \in Nat : n \in T => n + 1 \in T
    PROVE  Nat \subseteq T
<1>1. PICK Less : Less = OpToRel(<, Nat)
  OBVIOUS
<1>2. \A m, n \in Nat : <<m, n>> \in Less <=> m < n
  BY <1>1 DEF OpToRel
<1>3. SUFFICES ASSUME NEW U, U = Nat \ T, U # {} PROVE FALSE
  OBVIOUS
<1>4. PICK n \in U : \A m \in U : <<m, n>> \notin Less
  BY <1>1, <1>3, NatLessThanWellFounded, WFMin
<1>5. n \in Nat /\ n # 0 /\ n \notin T
  BY <1>3
<1>6. n - 1 \in Nat /\ n - 1 < n /\ n = (n - 1) + 1
  BY <1>5
<1>7. n - 1 \notin U
  BY <1>2, <1>3, <1>4, <1>5, <1>6
<1> QED
  BY <1>3, <1>5, <1>6, <1>7

\* The levels of nesting are what their definition says.
LEMMA NestedDef ==
    ASSUME MaxNesting \in Nat
    PROVE  Nested = [n \in 0..MaxNesting |-> IF n = 0 THEN {} ELSE Holding(Nested[n - 1])]
<1> DEFINE Levels(g, k) == g = [n \in 0..k |-> IF n = 0 THEN {} ELSE Holding(g[n - 1])]
<1>1. PICK T : T = {k \in Nat : \E g : Levels(g, k)}
  OBVIOUS
<1>2. 0 \in T
  <2>1. Levels([n \in 0..0 |-> {}], 0)
    OBVIOUS
  <2> QED
    BY <1>1, <2>1
<1>3. ASSUME NEW k \in Nat, k \in T PROVE k + 1 \in T
  <2>1. PICK g : Levels(g, k)
    BY <1>1, <1>3
  <2>2. PICK h : h = [n \in 0..(k + 1) |-> IF n = k + 1 THEN Holding(g[k]) ELSE g[n]]
    OBVIOUS
  <2>3. \A n \in 0..(k + 1) : h[n] = IF n = 0 THEN {} ELSE Holding(h[n - 1])
    <3> SUFFICES ASSUME NEW n \in 0..(k + 1) PROVE h[n] = IF n = 0 THEN {} ELSE Holding(h[n - 1])
      OBVIOUS
    <3>1. CASE n = 0
      BY <2>1, <2>2, <3>1
    <3>2. CASE n = k + 1
      <4>1. h[n] = Holding(g[k]) /\ h[n - 1] = g[k] /\ n # 0
        BY <2>2, <3>2
      <4> QED
        BY <4>1
    <3>3. CASE n # 0 /\ n # k + 1
      <4>1. n \in 0..k /\ n - 1 \in 0..k /\ n - 1 # k + 1
        BY <3>3
      <4>2. h[n] = g[n] /\ h[n - 1] = g[n - 1]
        BY <2>2, <4>1
      <4>3. g[n] = Holding(g[n - 1])
        BY <2>1, <3>3, <4>1
      <4> QED
        BY <3>3, <4>2, <4>3
    <3> QED
      BY <3>1, <3>2, <3>3
  <2>4. Levels(h, k + 1)
    BY <2>2, <2>3
  <2> QED
    BY <1>1, <2>4
<1>4. \E g : Levels(g, MaxNesting)
  <2> HIDE DEF Levels
  <2> QED
    BY <1>1, <1>2, <1>3, Induction
<1> QED
  BY <1>4 DEF Nested

\* More statements to make statements of make more of them.
LEMMA HoldingMonotone ==
    ASSUME NEW S, NEW T, S \subseteq T
    PROVE  Holding(S) \subseteq Holding(T)
<1> SUFFICES ASSUME NEW s \in Holding(S) PROVE s \in Holding(T)
  OBVIOUS
<1>1. Seq(S) \subseteq Seq(T)
  OBVIOUS
<1>2. Seq(Seq(S)) \subseteq Seq(Seq(T))
  BY <1>1
<1>3. /\ s = [op |-> s.op, label |-> s.label, subs |-> s.subs, type |-> s.type, cases |-> s.cases]
      /\ s.op \in STRING /\ s.label \in Labels /\ s.type \in DOMAIN Values \cup {""}
      /\ s.subs \in Seq(Seq(S)) /\ s.cases \in Seq(SUBSET Patterns) /\ Shaped(s)
  BY DEF Holding
<1>4. s.subs \in Seq(Seq(T))
  BY <1>2, <1>3
<1> QED
  BY <1>3, <1>4 DEF Holding

\* Each level is made of the one below it, which it contains.
LEMMA NestedFacts ==
    ASSUME MaxNesting \in Nat
    PROVE  /\ Nested[0] = {}
           /\ \A n \in Nat : n < MaxNesting =>
                 Nested[n + 1] = Holding(Nested[n]) /\ Nested[n] \subseteq Nested[n + 1]
           /\ \A n \in 0..MaxNesting : Nested[n] \subseteq Statements
<1>1. Nested[0] = {}
  BY NestedDef
<1>2. ASSUME NEW n \in Nat, n < MaxNesting PROVE Nested[n + 1] = Holding(Nested[n])
  <2>1. n + 1 \in 0..MaxNesting /\ n + 1 # 0 /\ (n + 1) - 1 = n
    BY <1>2
  <2> QED
    BY <2>1, NestedDef
<1>3. \A n \in Nat : n < MaxNesting => Nested[n] \subseteq Nested[n + 1]
  <2>1. PICK T : T = {n \in Nat : n < MaxNesting => Nested[n] \subseteq Nested[n + 1]}
    OBVIOUS
  <2>2. 0 \in T
    BY <1>1, <2>1
  <2>3. ASSUME NEW n \in Nat, n \in T PROVE n + 1 \in T
    <3> SUFFICES ASSUME n + 1 < MaxNesting PROVE Nested[n + 1] \subseteq Nested[(n + 1) + 1]
      BY <2>1
    <3>1. Nested[n] \subseteq Nested[n + 1] /\ n < MaxNesting
      BY <2>1, <2>3
    <3>2. Nested[n + 1] = Holding(Nested[n]) /\ Nested[(n + 1) + 1] = Holding(Nested[n + 1])
      BY <1>2, <3>1
    <3> QED
      BY <3>1, <3>2, HoldingMonotone
  <2>4. Nat \subseteq T
    BY <2>2, <2>3, Induction
  <2> QED
    BY <2>1, <2>4
<1>4. \A n \in 0..MaxNesting : Nested[n] \subseteq Statements
  <2>1. PICK T : T = {k \in Nat : k <= MaxNesting => Nested[MaxNesting - k] \subseteq Statements}
    OBVIOUS
  <2>2. 0 \in T
    BY <2>1 DEF Statements
  <2>3. ASSUME NEW k \in Nat, k \in T PROVE k + 1 \in T
    <3> SUFFICES ASSUME k + 1 <= MaxNesting PROVE Nested[MaxNesting - (k + 1)] \subseteq Statements
      BY <2>1
    <3>1. PICK n \in Nat : n = MaxNesting - (k + 1)
      OBVIOUS
    <3>2. n + 1 = MaxNesting - k /\ n < MaxNesting /\ k <= MaxNesting
      BY <3>1
    <3>3. Nested[n + 1] \subseteq Statements
      BY <2>1, <2>3, <3>2
    <3> QED
      BY <1>3, <3>1, <3>2, <3>3
  <2>4. Nat \subseteq T
    BY <2>2, <2>3, Induction
  <2> SUFFICES ASSUME NEW n \in 0..MaxNesting PROVE Nested[n] \subseteq Statements
    OBVIOUS
  <2>5. MaxNesting - n \in Nat /\ MaxNesting - (MaxNesting - n) = n /\ MaxNesting - n <= MaxNesting
    OBVIOUS
  <2> QED
    BY <2>1, <2>4, <2>5
<1> QED
  BY <1>1, <1>2, <1>3, <1>4

\* What a statement of some level is made of.
LEMMA LevelFacts ==
    ASSUME MaxNesting \in Nat, NEW n \in 0..MaxNesting, NEW s \in Nested[n]
    PROVE  /\ n > 0 /\ n - 1 \in 0..MaxNesting
           /\ s.subs \in Seq(Seq(Nested[n - 1]))
           /\ s \in Nodes /\ Shaped(s) /\ s \in Statements
<1>1. n # 0
  BY NestedFacts
<1>2. n - 1 \in Nat /\ n - 1 < MaxNesting /\ (n - 1) + 1 = n /\ n - 1 \in 0..MaxNesting
  BY <1>1
<1>3. s \in Holding(Nested[n - 1])
  BY <1>2, NestedFacts
<1>4. s \in Statements /\ Nested[n - 1] \subseteq Statements
  BY <1>2, NestedFacts
<1>5. s \in Holding(Statements)
  BY <1>3, <1>4, HoldingMonotone
<1>6. s \in Nodes /\ Shaped(s)
  <2>1. /\ s = [op |-> s.op, label |-> s.label, subs |-> s.subs, type |-> s.type, cases |-> s.cases]
        /\ s.label \in Labels /\ s.type \in Types /\ s.subs \in Seq(Seq(Statements))
        /\ s.cases \in Seq(SUBSET Patterns) /\ Shaped(s)
    BY <1>5 DEF Holding, Types
  <2>2. s.op \in Ops
    BY <2>1 DEF Shaped, Ops
  <2> QED
    BY <2>1, <2>2 DEF Nodes
<1>7. s.subs \in Seq(Seq(Nested[n - 1]))
  BY <1>3 DEF Holding
<1> QED
  BY <1>1, <1>2, <1>4, <1>6, <1>7

\* The same of a statement of any level.
LEMMA StatementFacts ==
    ASSUME MaxNesting \in Nat, NEW s \in Statements
    PROVE  s \in Nodes /\ Shaped(s) /\ s.subs \in Seq(Seq(Statements))
<1>1. s \in Nested[MaxNesting] /\ MaxNesting \in 0..MaxNesting
  BY DEF Statements
<1>2. s \in Nodes /\ Shaped(s)
  BY <1>1, LevelFacts
<1> QED
  BY <1>2 DEF Nodes

\* A recursion over statements has a solution, when what it gives for one
\* depends only on what it gives for the statements inside.
LEMMA FixedPoint ==
    ASSUME MaxNesting \in Nat, NEW V, NEW v \in V,
           NEW F \in [[Statements -> V] -> [Statements -> V]],
           \A n \in Nat : n < MaxNesting =>
               \A g, h \in [Statements -> V] :
                   (\A t \in Nested[n] : g[t] = h[t]) => \A s \in Nested[n + 1] : F[g][s] = F[h][s]
    PROVE  \E f \in [Statements -> V] : f = F[f]
<1>1. PICK T : T = {n \in Nat : n <= MaxNesting =>
                       \E g \in [Statements -> V] : \A s \in Nested[n] : g[s] = F[g][s]}
  OBVIOUS
<1>2. 0 \in T
  <2>1. [s \in Statements |-> v] \in [Statements -> V]
    OBVIOUS
  <2> QED
    BY <1>1, <2>1, NestedFacts
<1>3. ASSUME NEW n \in Nat, n \in T PROVE n + 1 \in T
  <2> SUFFICES ASSUME n + 1 <= MaxNesting
               PROVE  \E g \in [Statements -> V] : \A s \in Nested[n + 1] : g[s] = F[g][s]
    BY <1>1
  <2>1. PICK g \in [Statements -> V] : \A s \in Nested[n] : g[s] = F[g][s]
    BY <1>1, <1>3
  <2>2. PICK h \in [Statements -> V] : h = F[g]
    OBVIOUS
  <2>3. \A s \in Nested[n + 1] : F[g][s] = F[h][s]
    BY <2>1, <2>2
  <2> QED
    BY <2>2, <2>3
<1>4. MaxNesting \in T
  BY <1>2, <1>3, Induction
<1>5. PICK g \in [Statements -> V] : \A s \in Statements : g[s] = F[g][s]
  BY <1>1, <1>4 DEF Statements
<1>6. F[g] \in [Statements -> V]
  OBVIOUS
<1>7. g = F[g]
  BY <1>5, <1>6
<1> QED
  BY <1>7

\* The statements in a statement are one level below.
LEMMA InnerStatements ==
    ASSUME MaxNesting \in Nat, NEW n \in Nat, n < MaxNesting, NEW s \in Nested[n + 1]
    PROVE  \A l \in Range(s.subs) : \A u \in Range(l) : u \in Nested[n]
<1>1. n + 1 \in 0..MaxNesting /\ (n + 1) - 1 = n
  OBVIOUS
<1>2. s.subs \in Seq(Seq(Nested[n]))
  BY <1>1, LevelFacts
<1> SUFFICES ASSUME NEW i \in DOMAIN s.subs, NEW j \in DOMAIN s.subs[i]
             PROVE  s.subs[i][j] \in Nested[n]
  BY DEF Range
<1>3. s.subs[i] \in Seq(Nested[n])
  BY <1>2
<1> QED
  BY <1>3

ExitStep(t, loops, exits) ==
    LET Leaves(stmts) == \E u \in Range(stmts) : exits[u]
    IN  CASE t.op \in {"ret", "fall"} -> TRUE
          [] IsLoopJump(t) -> ValidJump(t, loops)
          [] t.op = "block" -> Leaves(t.subs[1])
          [] t.op = "if" -> Len(t.subs) = 2 /\ \A l \in Range(t.subs) : Leaves(l)
          [] t.op = "match" ->
                t.cases # <<>> /\ (\A l \in Range(t.subs) : Leaves(l)) /\ Exhaustive(t)
          [] OTHER -> FALSE

\* The parts of the definition of Exits, one by one.
LEMMA ExitStepFacts ==
    ASSUME NEW t, NEW loops, NEW exits
    PROVE  /\ ExitStep(t, loops, exits) \in BOOLEAN
           /\ t.op \in {"ret", "fall"} => ExitStep(t, loops, exits)
           /\ t.op \in {"break", "continue"} => (ExitStep(t, loops, exits) <=> ValidJump(t, loops))
           /\ t.op = "block" =>
                 (ExitStep(t, loops, exits) <=> \E u \in Range(t.subs[1]) : exits[u])
           /\ t.op = "if" =>
                 (ExitStep(t, loops, exits) <=>
                     Len(t.subs) = 2 /\ \A l \in Range(t.subs) : \E u \in Range(l) : exits[u])
           /\ t.op = "match" =>
                 (ExitStep(t, loops, exits) <=>
                     /\ t.cases # <<>>
                     /\ \A l \in Range(t.subs) : \E u \in Range(l) : exits[u]
                     /\ Exhaustive(t))
           /\ t.op \notin {"ret", "fall", "break", "continue", "block", "if", "match"} =>
                 ~ExitStep(t, loops, exits)
<1>1. CASE t.op \in {"ret", "fall"}
  BY <1>1 DEF ExitStep, IsLoopJump
<1>2. CASE t.op \in {"break", "continue"}
  <2>1. IsLoopJump(t) /\ t.op \notin {"ret", "fall", "block", "if", "match"}
    BY <1>2 DEF IsLoopJump
  <2>2. ExitStep(t, loops, exits) = ValidJump(t, loops)
    BY <2>1 DEF ExitStep
  <2>3. ValidJump(t, loops) \in BOOLEAN
    <3>1. CASE t.label = NoLabel
      BY <3>1 DEF ValidJump
    <3>2. CASE t.label # NoLabel
      BY <3>2 DEF ValidJump
    <3> QED
      BY <3>1, <3>2
  <2> QED
    BY <1>2, <2>2, <2>3
<1>3. CASE t.op = "block"
  BY <1>3 DEF ExitStep, IsLoopJump
<1>4. CASE t.op = "if"
  BY <1>4 DEF ExitStep, IsLoopJump
<1>5. CASE t.op = "match"
  BY <1>5 DEF ExitStep, IsLoopJump
<1>6. CASE t.op \notin {"ret", "fall", "break", "continue", "block", "if", "match"}
  BY <1>6 DEF ExitStep, IsLoopJump
<1> QED
  BY <1>1, <1>2, <1>3, <1>4, <1>5, <1>6

\* Exits is what its recursion says.
LEMMA ExitsDef ==
    ASSUME MaxNesting \in Nat, NEW loops
    PROVE  \E exits \in [Statements -> BOOLEAN] :
               \A s \in Statements :
                   exits[s] = ExitStep(s, loops, exits) /\ exits[s] = Exits(s, loops)
<1>1. PICK F : F = [g \in [Statements -> BOOLEAN] |-> [t \in Statements |-> ExitStep(t, loops, g)]]
  OBVIOUS
<1>2. F \in [[Statements -> BOOLEAN] -> [Statements -> BOOLEAN]]
  BY <1>1, ExitStepFacts
<1>3. ASSUME NEW n \in Nat, n < MaxNesting,
             NEW g \in [Statements -> BOOLEAN], NEW h \in [Statements -> BOOLEAN],
             \A t \in Nested[n] : g[t] = h[t],
             NEW s \in Nested[n + 1]
      PROVE  F[g][s] = F[h][s]
  <2>1. s \in Statements /\ Shaped(s) /\ s \in Nodes
    BY <1>3, LevelFacts
  <2>2. \A l \in Range(s.subs) : \A u \in Range(l) : g[u] = h[u]
    BY <1>3, InnerStatements
  <2>3. s.op = "block" => s.subs[1] \in Range(s.subs)
    BY <2>1 DEF Shaped, Nodes, Range
  <2>4. \A l \in Range(s.subs) : (\E u \in Range(l) : g[u]) <=> (\E u \in Range(l) : h[u])
    BY <2>2
  <2>5. ExitStep(s, loops, g) <=> ExitStep(s, loops, h)
    <3>1. CASE s.op \in {"ret", "fall"}
      BY <3>1, ExitStepFacts
    <3>2. CASE s.op \in {"break", "continue"}
      BY <3>2, ExitStepFacts
    <3>3. CASE s.op = "block"
      BY <2>3, <2>4, <3>3, ExitStepFacts
    <3>4. CASE s.op = "if"
      BY <2>4, <3>4, ExitStepFacts
    <3>5. CASE s.op = "match"
      BY <2>4, <3>5, ExitStepFacts
    <3>6. CASE s.op \notin {"ret", "fall", "break", "continue", "block", "if", "match"}
      BY <3>6, ExitStepFacts
    <3> QED
      BY <3>1, <3>2, <3>3, <3>4, <3>5, <3>6
  <2>6. ExitStep(s, loops, g) = ExitStep(s, loops, h)
    BY <2>5, ExitStepFacts
  <2> QED
    BY <1>1, <2>1, <2>6
<1>4. PICK f \in [Statements -> BOOLEAN] : f = F[f]
  BY <1>2, <1>3, FixedPoint
<1>5. f = [t \in Statements |-> ExitStep(t, loops, f)]
  BY <1>1, <1>4
<1>6. PICK exits : /\ exits = [t \in Statements |-> ExitStep(t, loops, exits)]
                   /\ \A s \in Statements : Exits(s, loops) = exits[s]
  BY <1>5 DEF Exits, ExitStep
<1>7. exits \in [Statements -> BOOLEAN]
  BY <1>6, ExitStepFacts
<1> QED
  BY <1>6, <1>7

ReturnStep(s, returns) ==
    \/ s.op = "ret"
    \/ LoopsForever(s)
    \/ /\ \/ s.op = "block"
          \/ s.op = "if" /\ Len(s.subs) = 2
          \/ s.op = "match" /\ Exhaustive(s)
       /\ \A l \in Range(s.subs) : l # <<>> /\ returns[Final(l)]

\* The last statement of a list is in it.
LEMMA FinalFacts ==
    ASSUME NEW S, NEW l \in Seq(S), l # <<>>
    PROVE  /\ Len(l) \in Nat /\ Len(l) > 0 /\ Len(l) \in DOMAIN l
           /\ Final(l) = l[Len(l)] /\ Final(l) \in Range(l) /\ Final(l) \in S
BY DEF Final, Range

\* Returning is what its recursion says.
LEMMA ReturningDef ==
    ASSUME MaxNesting \in Nat
    PROVE  /\ Returning \in [Statements -> BOOLEAN]
           /\ \A s \in Statements : Returning[s] = ReturnStep(s, Returning)
<1>1. PICK F : F = [g \in [Statements -> BOOLEAN] |-> [t \in Statements |-> ReturnStep(t, g)]]
  OBVIOUS
<1>2. \A t, g : ReturnStep(t, g) \in BOOLEAN
  BY DEF ReturnStep
<1>3. F \in [[Statements -> BOOLEAN] -> [Statements -> BOOLEAN]]
  BY <1>1, <1>2
<1>4. ASSUME NEW n \in Nat, n < MaxNesting,
             NEW g \in [Statements -> BOOLEAN], NEW h \in [Statements -> BOOLEAN],
             \A t \in Nested[n] : g[t] = h[t],
             NEW s \in Nested[n + 1]
      PROVE  F[g][s] = F[h][s]
  <2>1. s \in Statements /\ s \in Nodes
    BY <1>4, LevelFacts
  <2>2. ASSUME NEW l \in Range(s.subs), l # <<>> PROVE g[Final(l)] = h[Final(l)]
    <3>1. l \in Seq(Statements)
      BY <2>1 DEF Nodes, Range
    <3>2. Final(l) \in Range(l)
      BY <2>2, <3>1, FinalFacts
    <3> QED
      BY <1>4, <3>2, InnerStatements
  <2>3. (\A l \in Range(s.subs) : l # <<>> /\ g[Final(l)])
            <=> (\A l \in Range(s.subs) : l # <<>> /\ h[Final(l)])
    BY <2>2
  <2>4. ReturnStep(s, g) <=> ReturnStep(s, h)
    BY <2>3 DEF ReturnStep
  <2>5. ReturnStep(s, g) = ReturnStep(s, h)
    BY <1>2, <2>4
  <2> QED
    BY <1>1, <2>1, <2>5
<1>5. PICK f \in [Statements -> BOOLEAN] : f = F[f]
  BY <1>3, <1>4, FixedPoint
<1>6. f = [s \in Statements |-> ReturnStep(s, f)]
  BY <1>1, <1>5
<1>7. Returning = [s \in Statements |-> ReturnStep(s, Returning)]
  BY <1>6 DEF Returning, ReturnStep
<1>8. \A s \in Statements : Returning[s] = ReturnStep(s, Returning)
  BY <1>7
<1>9. Returning \in [Statements -> BOOLEAN]
  BY <1>2, <1>7
<1> QED
  BY <1>8, <1>9

-----------------------------------------------------------------------------
(* Contexts                                                                *)

Contexts ==
    [stmts : Seq(Statements), loops : SUBSET Labels, falls : BOOLEAN, inMatch : BOOLEAN]

\* The contexts inside others are what their definition says, and hold
\* statements of ever lower levels.
LEMMA WithinDef ==
    ASSUME MaxNesting \in Nat, NEW c, NEW skipped
    PROVE  \E within : /\ within[0] = {c}
                       /\ \A n \in Nat : n < MaxNesting =>
                             within[n + 1] = InnerOf(within[n], skipped)
                       /\ Within(c, skipped) = UNION {within[n] : n \in 0..MaxNesting}
<1> DEFINE Levels(g, k) ==
        g = [n \in 0..k |-> IF n = 0 THEN {c} ELSE InnerOf(g[n - 1], skipped)]
<1>1. PICK T : T = {k \in Nat : \E g : Levels(g, k)}
  OBVIOUS
<1>2. 0 \in T
  <2>1. Levels([n \in 0..0 |-> {c}], 0)
    OBVIOUS
  <2> QED
    BY <1>1, <2>1
<1>3. ASSUME NEW k \in Nat, k \in T PROVE k + 1 \in T
  <2>1. PICK g : Levels(g, k)
    BY <1>1, <1>3
  <2>2. PICK h : h = [n \in 0..(k + 1) |-> IF n = k + 1 THEN InnerOf(g[k], skipped) ELSE g[n]]
    OBVIOUS
  <2>3. \A n \in 0..(k + 1) : h[n] = IF n = 0 THEN {c} ELSE InnerOf(h[n - 1], skipped)
    <3> SUFFICES ASSUME NEW n \in 0..(k + 1)
                 PROVE  h[n] = IF n = 0 THEN {c} ELSE InnerOf(h[n - 1], skipped)
      OBVIOUS
    <3>1. CASE n = 0
      BY <2>1, <2>2, <3>1
    <3>2. CASE n = k + 1
      <4>1. h[n] = InnerOf(g[k], skipped) /\ h[n - 1] = g[k] /\ n # 0
        BY <2>2, <3>2
      <4> QED
        BY <4>1
    <3>3. CASE n # 0 /\ n # k + 1
      <4>1. n \in 0..k /\ n - 1 \in 0..k /\ n - 1 # k + 1
        BY <3>3
      <4>2. h[n] = g[n] /\ h[n - 1] = g[n - 1]
        BY <2>2, <4>1
      <4>3. g[n] = InnerOf(g[n - 1], skipped)
        BY <2>1, <3>3, <4>1
      <4> QED
        BY <3>3, <4>2, <4>3
    <3> QED
      BY <3>1, <3>2, <3>3
  <2>4. Levels(h, k + 1)
    BY <2>2, <2>3
  <2> QED
    BY <1>1, <2>4
<1>4. \E g : Levels(g, MaxNesting)
  <2> HIDE DEF Levels
  <2> QED
    BY <1>1, <1>2, <1>3, Induction
<1>5. PICK g : g = CHOOSE w : w = [n \in 0..MaxNesting |->
                                      IF n = 0 THEN {c} ELSE InnerOf(w[n - 1], skipped)]
  OBVIOUS
<1>6. g = [n \in 0..MaxNesting |-> IF n = 0 THEN {c} ELSE InnerOf(g[n - 1], skipped)]
  BY <1>4, <1>5
<1>7. Within(c, skipped) = UNION {g[n] : n \in DOMAIN g}
  BY <1>5 DEF Within
<1>8. DOMAIN g = 0..MaxNesting /\ g[0] = {c}
  BY <1>6
<1>9. ASSUME NEW n \in Nat, n < MaxNesting PROVE g[n + 1] = InnerOf(g[n], skipped)
  <2>1. n + 1 \in 0..MaxNesting /\ n + 1 # 0 /\ (n + 1) - 1 = n
    BY <1>9
  <2> QED
    BY <1>6, <2>1
<1> QED
  <2> HIDE DEF Levels
  <2>1. Within(c, skipped) = UNION {g[n] : n \in 0..MaxNesting}
    BY <1>7, <1>8
  <2> QED
    BY <1>8, <1>9, <2>1

\* What is inside a context of one level is on the next.
LEMMA InnerFacts ==
    ASSUME MaxNesting \in Nat, NEW n \in 0..MaxNesting, NEW c \in Contexts,
           c.stmts \in Seq(Nested[n]), NEW s \in Range(c.stmts), NEW e \in Inner(c, s)
    PROVE  /\ n - 1 \in 0..MaxNesting /\ e \in Contexts /\ e.stmts \in Seq(Nested[n - 1])
           /\ s \in Statements
           /\ \E i \in DOMAIN s.subs :
                 /\ e.stmts = s.subs[i]
                 /\ e.loops = IF s.op \in {"while", "for"} THEN c.loops \cup {s.label} ELSE c.loops
                 /\ e.falls <=> s.op = "match" /\ i < Len(s.cases) /\ s.type \notin Tagged
                 /\ e.inMatch <=> c.inMatch \/ s.op = "match"
<1>1. s \in Nested[n]
  BY DEF Range
<1>2. n - 1 \in 0..MaxNesting /\ s.subs \in Seq(Seq(Nested[n - 1])) /\ s \in Nodes /\ s \in Statements
  BY <1>1, LevelFacts
<1>3. PICK i \in DOMAIN s.subs :
          e = [stmts |-> s.subs[i],
               loops |-> IF s.op \in {"while", "for"} THEN c.loops \cup {s.label} ELSE c.loops,
               falls |-> s.op = "match" /\ i < Len(s.cases) /\ s.type \notin Tagged,
               inMatch |-> c.inMatch \/ s.op = "match"]
  BY DEF Inner
<1>4. s.subs[i] \in Seq(Nested[n - 1]) /\ s.subs[i] \in Seq(Statements)
  BY <1>2 DEF Nodes
<1>5. e.stmts \in Seq(Nested[n - 1])
  BY <1>3, <1>4
<1>6. s.label \in Labels /\ c.loops \subseteq Labels /\ c.inMatch \in BOOLEAN
  BY <1>2 DEF Nodes, Contexts
<1>7. e.stmts \in Seq(Statements) /\ e.loops \in SUBSET Labels /\ e.falls \in BOOLEAN
      /\ e.inMatch \in BOOLEAN
  BY <1>3, <1>4, <1>6
<1>8. e \in Contexts
  BY <1>3, <1>7 DEF Contexts
<1> QED
  BY <1>2, <1>3, <1>5, <1>8

\* Within(c, skipped) holds c, and with a context whatever is inside it.
LEMMA WithinFacts ==
    ASSUME MaxNesting \in Nat, NEW c \in Contexts, NEW skipped
    PROVE  /\ c \in Within(c, skipped)
           /\ Within(c, skipped) \subseteq Contexts
           /\ \A d \in Within(c, skipped) : \A s \in Range(d.stmts) :
                 s.op \notin skipped => Inner(d, s) \subseteq Within(c, skipped)
<1>1. PICK within : /\ within[0] = {c}
                    /\ \A n \in Nat : n < MaxNesting =>
                          within[n + 1] = InnerOf(within[n], skipped)
                    /\ Within(c, skipped) = UNION {within[n] : n \in 0..MaxNesting}
  BY WithinDef
<1>2. within[0] = {c}
  BY <1>1
<1>3. ASSUME NEW n \in Nat, n < MaxNesting PROVE within[n + 1] = InnerOf(within[n], skipped)
  BY <1>1, <1>3
<1>4. \A n \in Nat : n <= MaxNesting =>
          \A d \in within[n] : d \in Contexts /\ d.stmts \in Seq(Nested[MaxNesting - n])
  <2>1. PICK T : T = {n \in Nat : n <= MaxNesting =>
                    \A d \in within[n] : d \in Contexts /\ d.stmts \in Seq(Nested[MaxNesting - n])}
    OBVIOUS
  <2>2. 0 \in T
    BY <1>2, <2>1 DEF Contexts, Statements
  <2>3. ASSUME NEW n \in Nat, n \in T PROVE n + 1 \in T
    <3> SUFFICES ASSUME n + 1 <= MaxNesting, NEW e \in within[n + 1]
                 PROVE  e \in Contexts /\ e.stmts \in Seq(Nested[MaxNesting - (n + 1)])
      BY <2>1
    <3>1. PICK d \in within[n] : \E s \in Range(d.stmts) : e \in Inner(d, s)
      BY <1>3 DEF InnerOf
    <3>2. d \in Contexts /\ d.stmts \in Seq(Nested[MaxNesting - n])
      BY <2>1, <2>3
    <3>3. MaxNesting - n \in 0..MaxNesting /\ (MaxNesting - n) - 1 = MaxNesting - (n + 1)
      OBVIOUS
    <3> QED
      BY <3>1, <3>2, <3>3, InnerFacts
  <2>4. Nat \subseteq T
    BY <2>2, <2>3, Induction
  <2> QED
    BY <2>1, <2>4
<1>5. c \in Within(c, skipped)
  <2>1. 0 \in 0..MaxNesting
    OBVIOUS
  <2> QED
    BY <1>1, <2>1
<1>6. Within(c, skipped) \subseteq Contexts
  BY <1>1, <1>4
<1>7. ASSUME NEW d \in Within(c, skipped), NEW s \in Range(d.stmts), s.op \notin skipped,
             NEW e \in Inner(d, s)
      PROVE  e \in Within(c, skipped)
  <2>1. PICK n \in 0..MaxNesting : d \in within[n]
    BY <1>1
  <2>2. d \in Contexts /\ d.stmts \in Seq(Nested[MaxNesting - n])
    BY <1>4, <2>1
  <2>3. n < MaxNesting
    <3>1. SUFFICES ASSUME n = MaxNesting PROVE FALSE
      OBVIOUS
    <3>2. d.stmts \in Seq({})
      BY <2>2, <3>1, NestedFacts
    <3> QED
      BY <3>2 DEF Range
  <2>4. e \in within[n + 1] /\ n + 1 \in 0..MaxNesting
    BY <1>3, <1>7, <2>1, <2>3 DEF InnerOf
  <2> QED
    BY <1>1, <2>4
<1> QED
  BY <1>5, <1>6, <1>7

-----------------------------------------------------------------------------
(* The stack                                                               *)

\* Of some positions, one is the last.
LEMMA Latest ==
    ASSUME NEW n \in Nat, NEW S \in SUBSET (1..n), S # {}
    PROVE  \E m \in S : \A x \in S : x <= m
<1>1. PICK T : T = {k \in Nat : \A U \in SUBSET (1..k) : U # {} => \E m \in U : \A x \in U : x <= m}
  OBVIOUS
<1>2. 0 \in T
  <2>1. 1..0 = {}
    OBVIOUS
  <2> QED
    BY <1>1, <2>1
<1>3. ASSUME NEW k \in Nat, k \in T PROVE k + 1 \in T
  <2> SUFFICES ASSUME NEW U \in SUBSET (1..(k + 1)), U # {}
               PROVE  \E m \in U : \A x \in U : x <= m
    BY <1>1
  <2>1. CASE k + 1 \in U
    BY <2>1
  <2>2. CASE k + 1 \notin U
    <3>1. U \in SUBSET (1..k)
      BY <2>2
    <3> QED
      BY <1>1, <1>3, <3>1
  <2> QED
    BY <2>1, <2>2
<1>4. n \in T
  BY <1>2, <1>3, Induction
<1> QED
  BY <1>1, <1>4

\* What the kind of a frame says of what it belongs to.
LEMMA FrameFacts ==
    ASSUME MaxNesting \in Nat, NEW f, FrameOK(f)
    PROVE  /\ f \in Frames /\ f.of \in Nodes /\ Shaped(f.of) /\ f.stmts \in Seq(Statements)
           /\ f.n \in Nat /\ f.n \in DOMAIN f.of.subs /\ f.stmts = f.of.subs[f.n]
           /\ f.stmts \in Range(f.of.subs)
           /\ f.at \in Nat /\ f.at \in 1..(Len(f.stmts) + 1) /\ Len(f.stmts) \in Nat
           /\ f.kind = "function" <=> f.of.op = "function"
           /\ f.kind = "defer" <=> f.of.op = "defer"
           /\ f.kind = "loop" <=> f.of.op \in {"while", "for"}
           /\ f.kind \in {"block", "case"} <=> f.of.op \in {"block", "if", "match"}
           /\ f.kind = "case" <=> f.of.op = "match" /\ f.n <= Len(f.of.cases)
           /\ f.kind \in {"function", "defer", "loop"} => f.n = 1
           /\ f.of.op = "block" => f.n = 1
           /\ Len(f.of.cases) \in Nat /\ f.saved \in Jumps
           /\ f.kind \in {"function", "defer", "loop", "block", "case"}
<1>1. /\ f \in Frames /\ Shaped(f.of) /\ Owns(f)
      /\ f.n \in DOMAIN f.of.subs /\ f.stmts = f.of.subs[f.n]
      /\ f.at \in 1..(Len(f.stmts) + 1)
  BY DEF FrameOK
<1>2. /\ f.of \in Nodes /\ f.stmts \in Seq(Statements) /\ f.n \in Nat /\ f.at \in Nat
      /\ f.saved \in Jumps
  BY <1>1 DEF Frames
<1>3. f.of.subs \in Seq(Seq(Statements)) /\ f.of.cases \in Seq(SUBSET Patterns)
  BY <1>2 DEF Nodes
<1>4. Len(f.of.cases) \in Nat /\ Len(f.stmts) \in Nat
  BY <1>2, <1>3
<1>5. f.stmts \in Range(f.of.subs)
  BY <1>1 DEF Range
<1>6. f.of.op \in {"function", "defer", "while", "for", "block"} => f.n = 1
  BY <1>1, <1>3 DEF Shaped
<1> QED
  BY <1>1, <1>2, <1>4, <1>5, <1>6 DEF Owns

\* The context in which a list runs, looked at from a list around it.
Between(fs, k, i) ==
    [stmts |-> fs[i].stmts,
     loops |-> {fs[m].of.label : m \in {x \in (k + 1)..i : fs[x].kind = "loop"}},
     falls |-> i # k /\ fs[i].kind = "case" /\ fs[i].n < Len(fs[i].of.cases)
                     /\ fs[i].of.type \notin Tagged,
     inMatch |-> \E m \in (k + 1)..i : fs[m].of.op = "match"]

\* The walk over list k meets the lists that run inside it.
LEMMA BetweenWithin ==
    ASSUME MaxNesting \in Nat, NEW stmts, NEW fs, StackOK(fs, stmts), NEW skipped,
           NEW k \in 1..Len(fs), NEW i \in k..Len(fs),
           \A m \in (k + 1)..i : fs[m].of.op \notin skipped
    PROVE  Between(fs, k, i) \in Within(Context(fs[k].stmts), skipped)
<1> DEFINE W == Within(Context(fs[k].stmts), skipped)
<1>1. Len(fs) \in Nat /\ \A m \in 1..Len(fs) : FrameOK(fs[m])
  BY DEF StackOK
<1>2. Context(fs[k].stmts) \in Contexts
  <2>1. fs[k].stmts \in Seq(Statements)
    BY <1>1, FrameFacts
  <2> QED
    BY <2>1 DEF Contexts, Context
<1>3. PICK T : T = {n \in Nat : n \in k..i => Between(fs, k, n) \in W}
  OBVIOUS
<1>4. Between(fs, k, k) \in W
  <2>1. Between(fs, k, k) = Context(fs[k].stmts)
    <3>1. (k + 1)..k = {}
      BY <1>1
    <3>2. {fs[m].of.label : m \in {x \in (k + 1)..k : fs[x].kind = "loop"}} = {}
      BY <3>1
    <3>3. (\E m \in (k + 1)..k : fs[m].of.op = "match") <=> FALSE
      BY <3>1
    <3> QED
      BY <3>2, <3>3 DEF Between, Context
  <2> QED
    BY <1>2, <2>1, WithinFacts
<1>5. 0 \in T
  BY <1>3
<1>6. ASSUME NEW n \in Nat, n \in T PROVE n + 1 \in T
  <2> SUFFICES ASSUME n + 1 \in k..i PROVE Between(fs, k, n + 1) \in W
    BY <1>3
  <2>1. CASE n + 1 = k
    BY <1>4, <2>1
  <2>2. CASE n + 1 # k
    <3>1. n \in k..i /\ n + 1 \in (k + 1)..i /\ n + 1 \in 2..Len(fs) /\ n \in 1..Len(fs)
          /\ (n + 1) - 1 = n /\ n + 1 \in 1..Len(fs)
      BY <1>1, <2>2
    <3>2. PICK c \in W : c = Between(fs, k, n)
      BY <1>3, <1>6, <3>1
    <3>3. PICK f : f = fs[n + 1]
      OBVIOUS
    <3>4. FrameOK(f) /\ f.of \in Range(c.stmts)
      BY <1>1, <3>1, <3>2, <3>3 DEF StackOK, Linked, Between
    <3>5. Inner(c, f.of) \subseteq W
      BY <1>2, <3>1, <3>2, <3>3, <3>4, WithinFacts
    <3>6. PICK e : e = [stmts |-> f.of.subs[f.n],
                        loops |-> IF f.of.op \in {"while", "for"}
                                  THEN c.loops \cup {f.of.label} ELSE c.loops,
                        falls |-> f.of.op = "match" /\ f.n < Len(f.of.cases) /\ f.of.type \notin Tagged,
                        inMatch |-> c.inMatch \/ f.of.op = "match"]
      OBVIOUS
    <3>7. e \in W
      BY <3>4, <3>5, <3>6, FrameFacts DEF Inner
    <3>8. f.stmts = f.of.subs[f.n] /\ (f.kind = "loop" <=> f.of.op \in {"while", "for"})
          /\ (f.kind = "case" <=> f.of.op = "match" /\ f.n <= Len(f.of.cases))
          /\ f.n \in Nat /\ Len(f.of.cases) \in Nat
      BY <3>4, FrameFacts
    <3>9. (k + 1)..(n + 1) = ((k + 1)..n) \cup {n + 1} /\ n + 1 # k
      BY <3>1, <2>2
    <3>10. {fs[m].of.label : m \in {x \in (k + 1)..(n + 1) : fs[x].kind = "loop"}}
              = IF f.of.op \in {"while", "for"} THEN c.loops \cup {f.of.label} ELSE c.loops
      <4>1. c.loops = {fs[m].of.label : m \in {x \in (k + 1)..n : fs[x].kind = "loop"}}
        BY <3>2 DEF Between
      <4> QED
        BY <3>3, <3>8, <3>9, <4>1
    <3>11. (\E m \in (k + 1)..(n + 1) : fs[m].of.op = "match") <=> c.inMatch \/ f.of.op = "match"
      <4>1. c.inMatch <=> \E m \in (k + 1)..n : fs[m].of.op = "match"
        BY <3>2 DEF Between
      <4> QED
        BY <3>3, <3>9, <4>1
    <3>12. (f.kind = "case" /\ f.n < Len(f.of.cases) /\ f.of.type \notin Tagged)
              <=> (f.of.op = "match" /\ f.n < Len(f.of.cases) /\ f.of.type \notin Tagged)
      BY <3>8
    <3>13. Between(fs, k, n + 1) = e
      BY <3>3, <3>6, <3>8, <3>9, <3>10, <3>11, <3>12 DEF Between
    <3> QED
      BY <3>7, <3>13
  <2> QED
    BY <2>1, <2>2
<1>7. i \in T
  <2> HIDE DEF W
  <2>1. i \in Nat /\ Nat \subseteq T
    BY <1>1, <1>5, <1>6, Induction
  <2> QED
    BY <2>1
<1> QED
  BY <1>1, <1>3, <1>7

\* Every list runs in a call of a function.
LEMMA InnermostCall ==
    ASSUME NEW stmts, NEW fs, StackOK(fs, stmts), NEW i \in 1..Len(fs)
    PROVE  \E k \in 1..i : fs[k].kind = "function" /\ SameCall(fs, k, i)
<1>1. Len(fs) \in Nat /\ i \in Nat /\ 1 \in 1..i
  BY DEF StackOK
<1>2. PICK S : S = {k \in 1..i : fs[k].kind = "function"}
  OBVIOUS
<1>3. S \in SUBSET (1..i) /\ S # {}
  BY <1>1, <1>2 DEF StackOK
<1>4. PICK k \in S : \A x \in S : x <= k
  BY <1>1, <1>3, Latest
<1>5. \A m \in (k + 1)..i : fs[m].kind # "function"
  <2> SUFFICES ASSUME NEW m \in (k + 1)..i, fs[m].kind = "function" PROVE FALSE
    OBVIOUS
  <2>1. m \in 1..i /\ ~(m <= k)
    BY <1>3
  <2> QED
    BY <1>2, <1>4, <2>1
<1> QED
  BY <1>2, <1>4, <1>5 DEF SameCall

\* The list of a function that runs is one of those that the validator judges.
LEMMA FunctionFound ==
    ASSUME MaxNesting \in Nat, NEW stmts, NEW fs, StackOK(fs, stmts),
           NEW k \in 1..Len(fs), fs[k].kind = "function"
    PROVE  fs[k].stmts \in FunctionBodies(stmts)
<1>1. Len(fs) \in Nat /\ (\A m \in 1..Len(fs) : FrameOK(fs[m])) /\ fs[1].stmts = stmts
  BY DEF StackOK
<1>2. CASE k = 1
  BY <1>1, <1>2 DEF FunctionBodies
<1>3. CASE k # 1
  <2>1. k - 1 \in 1..Len(fs) /\ 1 \in 1..Len(fs) /\ k \in 2..Len(fs)
    BY <1>1, <1>3
  <2>2. fs[k].of \in Range(fs[k - 1].stmts)
    BY <2>1 DEF StackOK, Linked
  <2>3. PICK c : c = Between(fs, 1, k - 1)
    OBVIOUS
  <2>4. c \in Within(Context(stmts), {}) /\ c.stmts = fs[k - 1].stmts
    <3>1. c \in Within(Context(fs[1].stmts), {})
      BY <1>1, <2>1, <2>3, BetweenWithin
    <3> QED
      BY <1>1, <2>3, <3>1 DEF Between
  <2>5. fs[k].of.op = "function" /\ fs[k].stmts = fs[k].of.subs[1]
    BY <1>1, FrameFacts
  <2> QED
    BY <2>2, <2>4, <2>5 DEF FunctionBodies
<1> QED
  BY <1>2, <1>3

\* What a function without other errors than unreachable code is known for.
Clean(stmts) ==
    /\ Returns(stmts)
    /\ \A c \in Within(Context(stmts), {"function"}) : \A i \in DOMAIN c.stmts :
          /\ IsLoopJump(c.stmts[i]) => ValidJump(c.stmts[i], c.loops)
          /\ c.stmts[i].op = "fall" => c.falls /\ i = Len(c.stmts)
          /\ c.stmts[i].op = "defer" => ~LeavesDefer(c.stmts[i])

\* It is known for that when the checks report no more.
LEMMA CleanFunctions ==
    ASSUME NEW stmts, Validate(stmts) \subseteq {"unreachable_code"}, NEW f \in FunctionBodies(stmts)
    PROVE  Clean(f)
<1>1. FunctionErrors(f) \subseteq {"unreachable_code"}
  BY DEF Validate
<1>2. PICK cs : cs = Within(Context(f), {"function"})
  OBVIOUS
<1>3. Returns(f)
  <2>1. "missing_return" \notin FunctionErrors(f)
    BY <1>1
  <2> QED
    BY <2>1 DEF FunctionErrors
<1>4. ~\E c \in cs : \E i \in DOMAIN c.stmts :
          IsLoopJump(c.stmts[i]) /\ ~ValidJump(c.stmts[i], c.loops)
  <2>1. "outside_loop" \notin FunctionErrors(f)
    BY <1>1
  <2> QED
    BY <1>2, <2>1 DEF FunctionErrors
<1>5. ~\E c \in cs : \E i \in DOMAIN c.stmts :
          c.stmts[i].op = "fall" /\ ~(c.falls /\ i = Len(c.stmts))
  <2>1. "unsupported_fallthrough" \notin FunctionErrors(f)
    BY <1>1
  <2> QED
    BY <1>2, <2>1 DEF FunctionErrors
<1>6. ~\E c \in cs : \E i \in DOMAIN c.stmts :
          c.stmts[i].op = "defer" /\ LeavesDefer(c.stmts[i])
  <2>1. "defer_control_flow" \notin FunctionErrors(f)
    BY <1>1
  <2> QED
    BY <1>2, <2>1 DEF FunctionErrors
<1> QED
  BY <1>2, <1>3, <1>4, <1>5, <1>6 DEF Clean

\* A jump in a list of a function that passed the checks arrives.
LEMMA JumpArrives ==
    ASSUME MaxNesting \in Nat, NEW stmts, NEW fs, StackOK(fs, stmts),
           Validate(stmts) \subseteq {"unreachable_code"},
           NEW i \in 1..Len(fs), NEW p \in DOMAIN fs[i].stmts,
           NEW s, s = fs[i].stmts[p], s.op \in {"ret", "break", "continue", "fall"},
           NEW j, j = [op |-> s.op, label |-> s.label]
    PROVE  Arrives(fs, i, j)
<1>1. Len(fs) \in Nat /\ i \in Nat /\ (\A m \in 1..Len(fs) : FrameOK(fs[m]))
  BY DEF StackOK
<1>2. PICK b \in 1..i : fs[b].kind = "function" /\ SameCall(fs, b, i)
  BY InnermostCall
<1>3. b \in 1..Len(fs) /\ i \in b..Len(fs)
  BY <1>1
<1>4. Clean(fs[b].stmts)
  BY <1>2, <1>3, FunctionFound, CleanFunctions
<1>5. ASSUME NEW m \in b..i PROVE Between(fs, b, m) \in Within(Context(fs[b].stmts), {"function"})
  <2>1. m \in b..Len(fs)
    BY <1>1
  <2>2. ASSUME NEW x \in (b + 1)..m PROVE fs[x].of.op \notin {"function"}
    <3>1. x \in (b + 1)..i /\ x \in 1..Len(fs)
      BY <1>1
    <3> QED
      BY <1>1, <1>2, <3>1, FrameFacts DEF SameCall
  <2> QED
    BY <1>3, <2>1, <2>2, BetweenWithin
<1>6. PICK c : c = Between(fs, b, i)
  OBVIOUS
<1>7. c \in Within(Context(fs[b].stmts), {"function"}) /\ c.stmts = fs[i].stmts
  BY <1>3, <1>5, <1>6 DEF Between
<1>8. /\ IsLoopJump(s) => ValidJump(s, c.loops)
      /\ s.op = "fall" => c.falls
  BY <1>4, <1>7 DEF Clean
<1>9. ASSUME NEW d \in (b + 1)..i, fs[d].kind = "defer", SameRun(fs, d, i)
      PROVE  /\ s.op # "ret"
             /\ IsLoopJump(s) => ValidJump(s, Between(fs, d, i).loops)
  <2>1. d \in 1..Len(fs) /\ d - 1 \in b..i /\ d \in 2..Len(fs) /\ i \in d..Len(fs)
    BY <1>1
  <2>2. fs[d].of \in Range(fs[d - 1].stmts) /\ fs[d].of.op = "defer"
        /\ fs[d].stmts = fs[d].of.subs[1]
    BY <1>1, <1>9, <2>1, FrameFacts DEF StackOK, Linked
  <2>3. ~LeavesDefer(fs[d].of)
    <3>1. PICK e : e = Between(fs, b, d - 1)
      OBVIOUS
    <3>2. e \in Within(Context(fs[b].stmts), {"function"}) /\ e.stmts = fs[d - 1].stmts
      BY <1>5, <2>1, <3>1 DEF Between
    <3>3. PICK q \in DOMAIN e.stmts : e.stmts[q] = fs[d].of
      BY <2>2, <3>2 DEF Range
    <3> QED
      BY <1>4, <2>2, <3>2, <3>3 DEF Clean
  <2>4. ASSUME NEW x \in (d + 1)..i PROVE fs[x].of.op \notin {"defer", "function"}
    <3>1. x \in 1..Len(fs)
      BY <1>1
    <3> QED
      BY <1>1, <1>9, <3>1, FrameFacts DEF SameRun
  <2>5. PICK e : e = Between(fs, d, i)
    OBVIOUS
  <2>6. e \in Within(Context(fs[d].of.subs[1]), {"defer", "function"}) /\ e.stmts = fs[i].stmts
    <3>1. e \in Within(Context(fs[d].stmts), {"defer", "function"})
      BY <2>1, <2>4, <2>5, BetweenWithin
    <3> QED
      BY <2>2, <2>5, <3>1 DEF Between
  <2>7. s \in Range(e.stmts)
    BY <2>6 DEF Range
  <2>8. s.op # "ret" /\ (IsLoopJump(s) => ValidJump(s, e.loops))
    BY <2>3, <2>6, <2>7 DEF LeavesDefer
  <2> QED
    BY <2>5, <2>8
<1>10. \E d \in b..i : /\ SameRun(fs, d, i)
                       /\ IsLoopJump(s) => ValidJump(s, Between(fs, d, i).loops)
                       /\ s.op = "ret" => d = b
  <2>1. PICK S : S = {d \in (b + 1)..i : fs[d].kind = "defer"}
    OBVIOUS
  <2>2. CASE S = {}
    <3>1. SameRun(fs, b, i)
      BY <1>2, <2>1, <2>2 DEF SameCall, SameRun
    <3> QED
      BY <1>3, <1>6, <1>8, <3>1
  <2>3. CASE S # {}
    <3>1. S \in SUBSET (1..i)
      BY <1>1, <2>1
    <3>2. PICK d \in S : \A x \in S : x <= d
      BY <1>1, <2>3, <3>1, Latest
    <3>3. SameRun(fs, d, i)
      <4> SUFFICES ASSUME NEW m \in (d + 1)..i PROVE fs[m].kind \notin {"function", "defer"}
        BY DEF SameRun
      <4>1. m \in (b + 1)..i /\ ~(m <= d)
        BY <1>1, <2>1
      <4> QED
        BY <1>2, <2>1, <3>2, <4>1 DEF SameCall
    <3>4. d \in (b + 1)..i /\ fs[d].kind = "defer" /\ d \in b..i
      BY <1>1, <2>1
    <3> QED
      BY <1>9, <3>3, <3>4
  <2> QED
    BY <2>2, <2>3
<1>11. ASSUME NEW d \in 1..i, IsLoopJump(s), ValidJump(s, Between(fs, d, i).loops)
       PROVE  \E k \in (d + 1)..i : Target(fs[k], j)
  <2>1. Between(fs, d, i).loops = {fs[m].of.label : m \in {x \in (d + 1)..i : fs[x].kind = "loop"}}
    BY DEF Between
  <2>2. CASE s.label = NoLabel
    <3>1. Between(fs, d, i).loops # {}
      BY <1>11, <2>2 DEF ValidJump
    <3> QED
      BY <2>1, <2>2, <3>1 DEF Target
  <2>3. CASE s.label # NoLabel
    <3>1. s.label \in Between(fs, d, i).loops
      BY <1>11, <2>3 DEF ValidJump
    <3> QED
      BY <2>1, <3>1 DEF Target
  <2> QED
    BY <2>2, <2>3
<1>12. j.op = "ret" => \E k \in 1..i : fs[k].kind = "function" /\ SameRun(fs, k, i)
  BY <1>2, <1>10
<1>13. ASSUME j.op \in {"break", "continue"}
       PROVE  \E k \in 1..i : Target(fs[k], j) /\ SameRun(fs, k, i)
  <2>1. IsLoopJump(s)
    BY <1>13 DEF IsLoopJump
  <2>2. PICK d \in b..i : SameRun(fs, d, i) /\ ValidJump(s, Between(fs, d, i).loops)
    BY <1>10, <2>1
  <2>3. d \in 1..i
    BY <1>1
  <2>4. PICK k \in (d + 1)..i : Target(fs[k], j)
    BY <1>11, <2>1, <2>2, <2>3
  <2>5. SameRun(fs, k, i) /\ k \in 1..i
    BY <1>1, <2>2, <2>3 DEF SameRun
  <2> QED
    BY <2>4, <2>5
<1>14. j.op = "fall" => fs[i].kind = "case" /\ fs[i].n < Len(fs[i].of.cases)
  BY <1>6, <1>8 DEF Between
<1>15. ASSUME j.op = "break", NEW k \in 1..i, LoopsForever(fs[k].of), Target(fs[k], j),
              SameCall(fs, k, i)
       PROVE  \E m \in (k + 1)..i : Target(fs[m], j)
  <2>1. k \in 1..Len(fs) /\ i \in k..Len(fs)
    BY <1>1
  <2>2. ASSUME NEW x \in (k + 1)..i PROVE fs[x].of.op \notin {"function"}
    <3>1. x \in 1..Len(fs)
      BY <1>1
    <3> QED
      BY <1>1, <1>15, <3>1, FrameFacts DEF SameCall
  <2>3. fs[k].stmts = fs[k].of.subs[1]
    BY <1>1, <1>15, <2>1, FrameFacts DEF Target
  <2>4. PICK e : e = Between(fs, k, i)
    OBVIOUS
  <2>5. e \in Within(Context(fs[k].of.subs[1]), {"function"}) /\ e.stmts = fs[i].stmts
    <3>1. e \in Within(Context(fs[k].stmts), {"function"})
      BY <2>1, <2>2, <2>4, BetweenWithin
    <3> QED
      BY <2>3, <2>4, <3>1 DEF Between
  <2>6. s \in Range(e.stmts) /\ s.op = "break" /\ IsLoopJump(s)
    BY <1>15, <2>5 DEF Range, IsLoopJump
  <2>7. ValidJump(s, e.loops)
    BY <1>15, <2>5, <2>6 DEF LoopsForever
  <2> QED
    BY <1>11, <2>4, <2>6, <2>7
<1> QED
  BY <1>12, <1>13, <1>14, <1>15 DEF Arrives

-----------------------------------------------------------------------------
(* The steps of a stack                                                    *)

\* gs is fs with f for its top, with f and g in its place, or without it.
Replaced(fs, gs, f) ==
    /\ gs \in Seq(Frames) /\ Len(gs) = Len(fs) /\ gs[Len(fs)] = f
    /\ \A m \in 1..(Len(fs) - 1) : gs[m] = fs[m]
Pushed(fs, gs, f, g) ==
    /\ gs \in Seq(Frames) /\ Len(gs) = Len(fs) + 1 /\ gs[Len(fs)] = f /\ gs[Len(fs) + 1] = g
    /\ \A m \in 1..(Len(fs) - 1) : gs[m] = fs[m]
Popped(fs, gs) ==
    /\ gs \in Seq(Frames) /\ Len(gs) = Len(fs) - 1
    /\ \A m \in 1..(Len(fs) - 1) : gs[m] = fs[m]

\* What the actions write is a stack of one of these forms.
LEMMA StackOps ==
    ASSUME NEW fs \in Seq(Frames), fs # <<>>, NEW f \in Frames, NEW g \in Frames,
           NEW below, below = SubSeq(fs, 1, Len(fs) - 1)
    PROVE  /\ Replaced(fs, Append(below, f), f)
           /\ Pushed(fs, below \o <<f, g>>, f, g)
           /\ Popped(fs, below)
           /\ below = <<>> <=> Len(fs) = 1
<1>1. Len(fs) \in Nat /\ Len(fs) > 0
  OBVIOUS
<1>2. below \in Seq(Frames) /\ Len(below) = Len(fs) - 1
      /\ \A m \in 1..(Len(fs) - 1) : below[m] = fs[m]
  <2>1. \A i \in 1..(Len(fs) - 1) : fs[i] \in Frames
    BY <1>1
  <2>2. 1 \in Int /\ Len(fs) - 1 \in Int
    BY <1>1
  <2>3. /\ below \in Seq(Frames)
        /\ Len(below) = IF 1 <= Len(fs) - 1 THEN (Len(fs) - 1) - 1 + 1 ELSE 0
        /\ \A m \in 1..((Len(fs) - 1) - 1 + 1) : below[m] = fs[1 + m - 1]
    BY <2>1, <2>2, SubSeqProperties
  <2>4. (Len(fs) - 1) - 1 + 1 = Len(fs) - 1 /\ \A m \in 1..(Len(fs) - 1) : 1 + m - 1 = m
    BY <1>1
  <2> QED
    BY <1>1, <2>3, <2>4
<1>3. Append(below, f) \in Seq(Frames) /\ Len(Append(below, f)) = Len(fs)
      /\ Append(below, f)[Len(fs)] = f
      /\ \A m \in 1..(Len(fs) - 1) : Append(below, f)[m] = below[m]
  <2>1. Len(below) + 1 = Len(fs)
    BY <1>1, <1>2
  <2> QED
    BY <1>2, <2>1, AppendProperties
<1>4. PICK two : two = <<f, g>>
  OBVIOUS
<1>5. two \in Seq(Frames) /\ Len(two) = 2 /\ two[1] = f /\ two[2] = g
  BY <1>4
<1>6. PICK both : both = below \o two
  OBVIOUS
<1>7. /\ both \in Seq(Frames) /\ Len(both) = Len(below) + 2
      /\ \A i \in 1..(Len(below) + 2) :
            both[i] = IF i <= Len(below) THEN below[i] ELSE two[i - Len(below)]
  <2>1. below \in Seq(Frames) /\ two \in Seq(Frames) /\ Len(two) = 2
    BY <1>2, <1>5
  <2>2. /\ both \in Seq(Frames) /\ Len(both) = Len(below) + Len(two)
        /\ \A i \in 1..(Len(below) + Len(two)) :
              both[i] = IF i <= Len(below) THEN below[i] ELSE two[i - Len(below)]
    BY <1>6, <2>1, ConcatProperties, Zenon
  <2> QED
    BY <2>1, <2>2
<1>8. Len(both) = Len(fs) + 1 /\ both[Len(fs)] = f /\ both[Len(fs) + 1] = g
      /\ \A m \in 1..(Len(fs) - 1) : both[m] = below[m]
  <2>1. /\ Len(fs) \in 1..(Len(below) + 2) /\ ~(Len(fs) <= Len(below)) /\ Len(fs) - Len(below) = 1
        /\ Len(fs) + 1 \in 1..(Len(below) + 2) /\ ~(Len(fs) + 1 <= Len(below))
        /\ Len(fs) + 1 - Len(below) = 2 /\ Len(below) + 2 = Len(fs) + 1
        /\ \A m \in 1..(Len(fs) - 1) : m \in 1..(Len(below) + 2) /\ m <= Len(below)
    BY <1>1, <1>2
  <2> QED
    BY <1>5, <1>7, <2>1
<1>9. Replaced(fs, Append(below, f), f)
  BY <1>2, <1>3 DEF Replaced
<1>10. Pushed(fs, both, f, g)
  BY <1>2, <1>7, <1>8 DEF Pushed
<1>11. Popped(fs, below)
  BY <1>2 DEF Popped
<1>12. below = <<>> <=> Len(fs) = 1
  <2>1. below = <<>> <=> Len(below) = 0
    BY <1>2, EmptySeq
  <2> QED
    BY <1>1, <1>2, <2>1
<1> QED
  BY <1>4, <1>6, <1>9, <1>10, <1>11, <1>12

\* The same of the stack without its top alone.
LEMMA PopOps ==
    ASSUME NEW fs \in Seq(Frames), fs # <<>>, NEW below, below = SubSeq(fs, 1, Len(fs) - 1)
    PROVE  /\ Popped(fs, below)
           /\ below = <<>> => Len(fs) = 1
           /\ Len(fs) = 1 => below = <<>>
<1>1. PICK f : f = fs[Len(fs)]
  OBVIOUS
<1>2. f \in Frames
  BY <1>1
<1>3. Popped(fs, below)
  BY <1>2, StackOps
<1>4. below = <<>> => Len(fs) = 1
  BY <1>2, StackOps
<1>5. Len(fs) = 1 => below = <<>>
  BY <1>2, StackOps
<1> QED
  BY <1>3, <1>4, <1>5

\* f is another state of the same list as e.
SameList(e, f) == f.kind = e.kind /\ f.of = e.of /\ f.n = e.n /\ f.stmts = e.stmts /\ f.saved = e.saved

\* How a jump arrives is said by what the frames are, not by how far they are.
LEMMA ArrivesStable ==
    ASSUME NEW fs, NEW gs, NEW i \in Nat, NEW j, Arrives(fs, i, j), i >= 1,
           \A m \in 1..i : gs[m].kind = fs[m].kind /\ gs[m].of = fs[m].of /\ gs[m].n = fs[m].n
    PROVE  Arrives(gs, i, j)
<1>1. \A k \in 1..i : /\ SameRun(gs, k, i) <=> SameRun(fs, k, i)
                      /\ SameCall(gs, k, i) <=> SameCall(fs, k, i)
                      /\ Target(gs[k], j) <=> Target(fs[k], j)
                      /\ gs[k].kind = fs[k].kind /\ gs[k].of = fs[k].of
  BY DEF SameRun, SameCall, Target
<1>2. \A k \in 1..i : \A m \in (k + 1)..i : m \in 1..i
  OBVIOUS
<1>3. gs[i].kind = fs[i].kind /\ gs[i].of = fs[i].of /\ gs[i].n = fs[i].n
  OBVIOUS
<1> QED
  BY <1>1, <1>2, <1>3 DEF Arrives

\* The loops around a list likewise.
LEMMA LoopsStable ==
    ASSUME NEW fs, NEW gs, NEW i \in Nat,
           \A m \in 1..i : gs[m].kind = fs[m].kind /\ gs[m].of = fs[m].of
    PROVE  LoopsAround(gs, i) = LoopsAround(fs, i)
<1>1. \A k \in 1..i : /\ SameCall(gs, k, i) <=> SameCall(fs, k, i)
                      /\ gs[k].kind = fs[k].kind /\ gs[k].of = fs[k].of
  BY DEF SameCall
<1>2. {m \in 1..i : gs[m].kind = "loop" /\ SameCall(gs, m, i)}
        = {m \in 1..i : fs[m].kind = "loop" /\ SameCall(fs, m, i)}
  BY <1>1
<1>3. \A m \in {m \in 1..i : fs[m].kind = "loop" /\ SameCall(fs, m, i)} :
          gs[m].of.label = fs[m].of.label
  BY <1>1
<1> QED
  BY <1>2, <1>3 DEF LoopsAround

\* No jump arrives wherever it is.
LEMMA NoJumpArrives ==
    ASSUME NEW fs, NEW i
    PROVE  Arrives(fs, i, NoJump)
BY DEF Arrives, NoJump

\* The three forms of step keep a stack one.
LEMMA ReplacedOK ==
    ASSUME NEW stmts, NEW fs, StackOK(fs, stmts), NEW gs, NEW f, Replaced(fs, gs, f), FrameOK(f),
           NEW e, e = fs[Len(fs)], f.kind = e.kind, f.of = e.of,
           f.kind = "function" => f.stmts = e.stmts
    PROVE  StackOK(gs, stmts)
<1>1. Len(fs) \in Nat /\ Len(fs) > 0 /\ Len(gs) = Len(fs) /\ gs # <<>> /\ gs \in Seq(Frames)
  BY DEF StackOK, Replaced
<1>2. \A m \in 1..Len(fs) : m # Len(fs) => gs[m] = fs[m]
  BY <1>1 DEF Replaced
<1>3. gs[Len(fs)] = f
  BY DEF Replaced
<1>4. gs[1].kind = "function" /\ gs[1].stmts = stmts
  BY <1>1, <1>2, <1>3 DEF StackOK
<1>5. \A i \in 1..Len(gs) : FrameOK(gs[i])
  BY <1>1, <1>2, <1>3 DEF StackOK
<1>6. ASSUME NEW i \in 2..Len(gs) PROVE Linked(gs[i - 1], gs[i])
  <2>1. i \in 2..Len(fs) /\ i - 1 \in 1..Len(fs) /\ i - 1 # Len(fs) /\ i \in 1..Len(fs)
    BY <1>1
  <2>2. Linked(fs[i - 1], fs[i]) /\ gs[i - 1] = fs[i - 1]
    BY <1>2, <2>1 DEF StackOK
  <2>3. gs[i].kind = fs[i].kind /\ gs[i].of = fs[i].of
    BY <1>2, <1>3, <2>1
  <2> QED
    BY <2>2, <2>3 DEF Linked
<1> QED
  BY <1>1, <1>4, <1>5, <1>6 DEF StackOK

\* A list that starts is in the one that was at the top.
LEMMA PushedOK ==
    ASSUME NEW stmts, NEW fs, StackOK(fs, stmts), NEW gs, NEW f, NEW g, Pushed(fs, gs, f, g),
           FrameOK(f), FrameOK(g), NEW e, e = fs[Len(fs)], SameList(e, f), Linked(f, g)
    PROVE  StackOK(gs, stmts)
<1>1. Len(fs) \in Nat /\ Len(fs) > 0 /\ Len(gs) = Len(fs) + 1 /\ gs # <<>> /\ gs \in Seq(Frames)
  BY DEF StackOK, Pushed
<1>2. \A m \in 1..Len(fs) : m # Len(fs) => gs[m] = fs[m]
  BY <1>1 DEF Pushed
<1>3. gs[Len(fs)] = f /\ gs[Len(fs) + 1] = g
  BY DEF Pushed
<1>4. gs[1].kind = "function" /\ gs[1].stmts = stmts
  BY <1>1, <1>2, <1>3 DEF StackOK, SameList
<1>5. \A i \in 1..Len(gs) : FrameOK(gs[i])
  <2>1. \A i \in 1..Len(gs) : i \in 1..Len(fs) \/ i = Len(fs) + 1
    BY <1>1
  <2> QED
    BY <1>1, <1>2, <1>3, <2>1 DEF StackOK
<1>6. ASSUME NEW i \in 2..Len(gs) PROVE Linked(gs[i - 1], gs[i])
  <2>1. CASE i = Len(fs) + 1
    <3>1. i - 1 = Len(fs)
      BY <1>1, <2>1
    <3> QED
      BY <1>3, <2>1, <3>1
  <2>2. CASE i # Len(fs) + 1
    <3>1. i \in 2..Len(fs) /\ i - 1 \in 1..Len(fs) /\ i - 1 # Len(fs) /\ i \in 1..Len(fs)
      BY <1>1, <2>2
    <3>2. Linked(fs[i - 1], fs[i]) /\ gs[i - 1] = fs[i - 1]
      BY <1>2, <3>1 DEF StackOK
    <3>3. gs[i].kind = fs[i].kind /\ gs[i].of = fs[i].of
      BY <1>2, <1>3, <3>1 DEF SameList
    <3> QED
      BY <3>2, <3>3 DEF Linked
  <2> QED
    BY <2>1, <2>2
<1> QED
  BY <1>1, <1>4, <1>5, <1>6 DEF StackOK

\* The list below goes on when the one at the top is left.
LEMMA PoppedOK ==
    ASSUME NEW stmts, NEW fs, StackOK(fs, stmts), NEW gs, Popped(fs, gs), Len(fs) # 1
    PROVE  StackOK(gs, stmts)
<1>1. Len(fs) \in Nat /\ Len(fs) > 1 /\ Len(gs) = Len(fs) - 1 /\ gs # <<>> /\ gs \in Seq(Frames)
  BY DEF StackOK, Popped
<1>2. \A m \in 1..Len(gs) : gs[m] = fs[m] /\ m \in 1..Len(fs)
  BY <1>1 DEF Popped
<1>3. gs[1].kind = "function" /\ gs[1].stmts = stmts
  BY <1>1, <1>2 DEF StackOK
<1>4. \A i \in 1..Len(gs) : FrameOK(gs[i])
  BY <1>1, <1>2 DEF StackOK
<1>5. ASSUME NEW i \in 2..Len(gs) PROVE Linked(gs[i - 1], gs[i])
  <2>1. i \in 2..Len(fs) /\ i - 1 \in 1..Len(gs) /\ i \in 1..Len(gs)
    BY <1>1
  <2> QED
    BY <1>2, <2>1 DEF StackOK
<1> QED
  BY <1>1, <1>3, <1>4, <1>5 DEF StackOK

\* The same for the jumps that wait, when the new one arrives.
LEMMA ReplacedArrives ==
    ASSUME NEW fs \in Seq(Frames), fs # <<>>, NEW gs, NEW f, Replaced(fs, gs, f),
           NEW e, e = fs[Len(fs)], f.kind = e.kind, f.kind = "defer" => f.saved = e.saved,
           NEW j, JumpsArrive(fs, j), NEW k, Arrives(gs, Len(gs), k)
    PROVE  JumpsArrive(gs, k)
<1>1. Len(fs) \in Nat /\ Len(fs) > 0 /\ Len(gs) = Len(fs)
  BY DEF Replaced
<1>2. \A m \in 1..Len(fs) : m # Len(fs) => gs[m] = fs[m]
  BY <1>1 DEF Replaced
<1>3. gs[Len(fs)] = f
  BY DEF Replaced
<1>4. ASSUME NEW i \in 2..Len(gs), gs[i].kind = "defer" PROVE Arrives(gs, i - 1, gs[i].saved)
  <2>1. i \in 2..Len(fs) /\ i - 1 \in Nat /\ i - 1 >= 1 /\ i \in 1..Len(fs)
        /\ \A m \in 1..(i - 1) : m \in 1..Len(fs) /\ m # Len(fs)
    BY <1>1
  <2>2. fs[i].kind = "defer" /\ gs[i].saved = fs[i].saved
    BY <1>2, <1>3, <1>4, <2>1
  <2>3. Arrives(fs, i - 1, gs[i].saved)
    BY <2>1, <2>2 DEF JumpsArrive
  <2> QED
    BY <1>2, <2>1, <2>3, ArrivesStable
<1> QED
  BY <1>4 DEF JumpsArrive

\* A deferred statement keeps a jump that arrives.
LEMMA PushedArrives ==
    ASSUME NEW fs \in Seq(Frames), fs # <<>>, NEW gs, NEW f, NEW g, Pushed(fs, gs, f, g),
           NEW e, e = fs[Len(fs)], SameList(e, f),
           NEW j, JumpsArrive(fs, j), g.kind = "defer" => g.saved = j
    PROVE  JumpsArrive(gs, NoJump)
<1>1. Len(fs) \in Nat /\ Len(fs) > 0 /\ Len(gs) = Len(fs) + 1
  BY DEF Pushed
<1>2. \A m \in 1..Len(fs) : m # Len(fs) => gs[m] = fs[m]
  BY <1>1 DEF Pushed
<1>3. gs[Len(fs)] = f /\ gs[Len(fs) + 1] = g
  BY DEF Pushed
<1>4. \A m \in 1..Len(fs) : /\ gs[m].kind = fs[m].kind /\ gs[m].of = fs[m].of
                            /\ gs[m].n = fs[m].n /\ gs[m].saved = fs[m].saved
  BY <1>2, <1>3 DEF SameList
<1>5. ASSUME NEW i \in 2..Len(gs), gs[i].kind = "defer" PROVE Arrives(gs, i - 1, gs[i].saved)
  <2>1. i - 1 \in Nat /\ i - 1 >= 1 /\ \A m \in 1..(i - 1) : m \in 1..Len(fs)
    BY <1>1
  <2>2. Arrives(fs, i - 1, gs[i].saved)
    <3>1. CASE i = Len(fs) + 1
      <4>1. i - 1 = Len(fs) /\ gs[i].saved = j
        BY <1>1, <1>3, <1>5, <3>1
      <4> QED
        BY <4>1 DEF JumpsArrive
    <3>2. CASE i # Len(fs) + 1
      <4>1. i \in 2..Len(fs) /\ i \in 1..Len(fs)
        BY <1>1, <3>2
      <4>2. fs[i].kind = "defer" /\ gs[i].saved = fs[i].saved
        BY <1>4, <1>5, <4>1
      <4> QED
        BY <4>1, <4>2 DEF JumpsArrive
    <3> QED
      BY <3>1, <3>2
  <2> QED
    BY <1>4, <2>1, <2>2, ArrivesStable
<1> QED
  BY <1>5, NoJumpArrives DEF JumpsArrive

\* A jump that leaves a list goes on below it.
LEMMA PoppedArrives ==
    ASSUME NEW fs \in Seq(Frames), fs # <<>>, Len(fs) # 1, NEW gs, Popped(fs, gs),
           NEW j, JumpsArrive(fs, j), NEW k, Arrives(fs, Len(fs) - 1, k)
    PROVE  JumpsArrive(gs, k)
<1>1. Len(fs) \in Nat /\ Len(fs) > 1 /\ Len(gs) = Len(fs) - 1
  BY DEF Popped
<1>2. \A m \in 1..Len(gs) : gs[m] = fs[m]
  BY <1>1 DEF Popped
<1>3. ASSUME NEW i \in 2..Len(gs), gs[i].kind = "defer" PROVE Arrives(gs, i - 1, gs[i].saved)
  <2>1. i \in 2..Len(fs) /\ i - 1 \in Nat /\ i - 1 >= 1 /\ i \in 1..Len(gs)
        /\ \A m \in 1..(i - 1) : m \in 1..Len(gs)
    BY <1>1
  <2>2. Arrives(fs, i - 1, gs[i].saved)
    BY <1>2, <1>3, <2>1 DEF JumpsArrive
  <2> QED
    BY <1>2, <2>1, <2>2, ArrivesStable
<1>4. Arrives(gs, Len(gs), k)
  BY <1>1, <1>2, ArrivesStable
<1> QED
  BY <1>3, <1>4 DEF JumpsArrive

\* The ends of the lists below the top stay as they are.
LEMMA FallReplaced ==
    ASSUME NEW fs \in Seq(Frames), fs # <<>>, NEW gs, NEW f, Replaced(fs, gs, f),
           NEW e, e = fs[Len(fs)], f.kind = e.kind, f.kind = "defer" => f.saved = e.saved,
           NEW j, NoFallingOff(fs, j), NEW k,
           f.kind \in {"function", "block", "case"} /\ Returns(f.stmts)
               /\ f.at = Len(f.stmts) + 1 => k # NoJump
    PROVE  NoFallingOff(gs, k)
<1>1. Len(fs) \in Nat /\ Len(fs) > 0 /\ Len(gs) = Len(fs)
  BY DEF Replaced
<1>2. \A m \in 1..Len(fs) : m # Len(fs) => gs[m] = fs[m]
  BY <1>1 DEF Replaced
<1>3. gs[Len(fs)] = f
  BY DEF Replaced
<1> SUFFICES ASSUME NEW i \in 1..Len(gs), gs[i].kind \in {"function", "block", "case"},
                    Returns(gs[i].stmts), gs[i].at = Len(gs[i].stmts) + 1
             PROVE  Pending(gs, k, i) # NoJump \/ Inside(gs, i)
  BY DEF NoFallingOff
<1>4. CASE i = Len(fs)
  BY <1>1, <1>3, <1>4 DEF Pending
<1>5. CASE i # Len(fs)
  <2>1. i \in 1..Len(fs) /\ i + 1 \in 1..Len(fs) /\ gs[i] = fs[i] /\ i < Len(fs)
    BY <1>1, <1>2, <1>5
  <2>2. Pending(fs, j, i) # NoJump \/ Inside(fs, i)
    BY <2>1 DEF NoFallingOff
  <2>3. /\ gs[i + 1].kind = fs[i + 1].kind
        /\ gs[i + 1].kind = "defer" => gs[i + 1].saved = fs[i + 1].saved
    BY <1>2, <1>3, <2>1
  <2> QED
    BY <1>1, <1>5, <2>1, <2>2, <2>3 DEF Pending, Inside
<1> QED
  BY <1>4, <1>5

\* So do they when a list starts.
LEMMA FallPushed ==
    ASSUME NEW fs \in Seq(Frames), fs # <<>>, NEW gs, NEW f, NEW g, Pushed(fs, gs, f, g),
           NEW e, e = fs[Len(fs)], SameList(e, f),
           NEW j, NoFallingOff(fs, j), g.at = 1, Len(g.stmts) \in Nat, Returns(g.stmts) => Len(g.stmts) # 0,
           f.kind \in {"function", "block", "case"} /\ Returns(f.stmts)
               /\ f.at = Len(f.stmts) + 1 => g.kind # "defer" \/ g.saved # NoJump
    PROVE  NoFallingOff(gs, NoJump)
<1>1. Len(fs) \in Nat /\ Len(fs) > 0 /\ Len(gs) = Len(fs) + 1
  BY DEF Pushed
<1>2. \A m \in 1..Len(fs) : m # Len(fs) => gs[m] = fs[m]
  BY <1>1 DEF Pushed
<1>3. gs[Len(fs)] = f /\ gs[Len(fs) + 1] = g
  BY DEF Pushed
<1> SUFFICES ASSUME NEW i \in 1..Len(gs), gs[i].kind \in {"function", "block", "case"},
                    Returns(gs[i].stmts), gs[i].at = Len(gs[i].stmts) + 1
             PROVE  Pending(gs, NoJump, i) # NoJump \/ Inside(gs, i)
  BY DEF NoFallingOff
<1>4. CASE i = Len(fs) + 1
  BY <1>3, <1>4
<1>5. CASE i = Len(fs)
  <2>1. i # Len(gs) /\ i < Len(gs)
    BY <1>1, <1>5
  <2> QED
    BY <1>3, <1>5, <2>1 DEF Pending, Inside
<1>6. CASE i # Len(fs) /\ i # Len(fs) + 1
  <2>1. i \in 1..Len(fs) /\ i + 1 \in 1..Len(fs) /\ gs[i] = fs[i] /\ i < Len(fs) /\ i < Len(gs)
        /\ i # Len(gs)
    BY <1>1, <1>2, <1>6
  <2>2. Pending(fs, j, i) # NoJump \/ Inside(fs, i)
    BY <2>1 DEF NoFallingOff
  <2>3. gs[i + 1].kind = fs[i + 1].kind /\ gs[i + 1].saved = fs[i + 1].saved
    BY <1>2, <1>3, <2>1 DEF SameList
  <2> QED
    BY <1>6, <2>1, <2>2, <2>3 DEF Pending, Inside
<1> QED
  BY <1>4, <1>5, <1>6

\* And when one is left, but for the one below it.
LEMMA FallPopped ==
    ASSUME NEW fs \in Seq(Frames), fs # <<>>, Len(fs) # 1, NEW gs, Popped(fs, gs),
           NEW j, NoFallingOff(fs, j), NEW k, NEW b, b = fs[Len(fs) - 1],
           b.kind \in {"function", "block", "case"} /\ Returns(b.stmts)
               /\ b.at = Len(b.stmts) + 1 => k # NoJump
    PROVE  NoFallingOff(gs, k)
<1>1. Len(fs) \in Nat /\ Len(fs) > 1 /\ Len(gs) = Len(fs) - 1
  BY DEF Popped
<1>2. \A m \in 1..Len(gs) : gs[m] = fs[m]
  BY <1>1 DEF Popped
<1> SUFFICES ASSUME NEW i \in 1..Len(gs), gs[i].kind \in {"function", "block", "case"},
                    Returns(gs[i].stmts), gs[i].at = Len(gs[i].stmts) + 1
             PROVE  Pending(gs, k, i) # NoJump \/ Inside(gs, i)
  BY DEF NoFallingOff
<1>3. CASE i = Len(gs)
  <2>1. gs[i] = b
    BY <1>1, <1>2, <1>3
  <2> QED
    BY <1>3, <2>1 DEF Pending
<1>4. CASE i # Len(gs)
  <2>1. i \in 1..Len(fs) /\ i + 1 \in 1..Len(gs) /\ gs[i] = fs[i] /\ i < Len(fs) /\ i < Len(gs)
        /\ i # Len(fs)
    BY <1>1, <1>2, <1>4
  <2>2. Pending(fs, j, i) # NoJump \/ Inside(fs, i)
    BY <2>1 DEF NoFallingOff
  <2>3. gs[i + 1] = fs[i + 1]
    BY <1>2, <2>1
  <2> QED
    BY <1>4, <2>1, <2>2, <2>3 DEF Pending, Inside
<1> QED
  BY <1>3, <1>4

\* What is behind a list likewise, in the three forms.
LEMMA LeftReplaced ==
    ASSUME NEW fs \in Seq(Frames), fs # <<>>, NEW gs, NEW f, Replaced(fs, gs, f), f.at \in Nat,
           NEW e, e = fs[Len(fs)], f.kind = e.kind, f.of = e.of,
           f.kind = "defer" => f.saved = e.saved,
           NEW j, NoneLeft(fs, j), NEW k,
           ~(f.kind = "loop" /\ f.at = Len(f.stmts) + 1) =>
               \A m \in 1..(IF k = NoJump THEN f.at - 1 ELSE f.at - 2) :
                   ~Exits(f.stmts[m], LoopsAround(fs, Len(fs)))
    PROVE  NoneLeft(gs, k)
<1>1. Len(fs) \in Nat /\ Len(fs) > 0 /\ Len(gs) = Len(fs)
  BY DEF Replaced
<1>2. \A m \in 1..Len(fs) : m # Len(fs) => gs[m] = fs[m]
  BY <1>1 DEF Replaced
<1>3. gs[Len(fs)] = f
  BY DEF Replaced
<1> SUFFICES ASSUME NEW i \in 1..Len(gs), ~(gs[i].kind = "loop" /\ gs[i].at = Len(gs[i].stmts) + 1),
                    NEW m \in 1..Behind(gs, k, i)
             PROVE  ~Exits(gs[i].stmts[m], LoopsAround(gs, i))
  BY DEF NoneLeft
<1>4. LoopsAround(gs, i) = LoopsAround(fs, i)
  <2>1. i \in Nat /\ \A x \in 1..i : x \in 1..Len(fs)
    BY <1>1
  <2>2. \A x \in 1..i : gs[x].kind = fs[x].kind /\ gs[x].of = fs[x].of
    BY <1>2, <1>3, <2>1
  <2> QED
    BY <2>1, <2>2, LoopsStable
<1>5. CASE i = Len(fs)
  <2>1. Pending(gs, k, i) = k /\ ~Inside(gs, i)
    BY <1>1, <1>5 DEF Pending, Inside
  <2>2. Behind(gs, k, i) = IF k = NoJump THEN f.at - 1 ELSE f.at - 2
    BY <1>3, <1>5, <2>1 DEF Behind
  <2> QED
    BY <1>3, <1>4, <1>5, <2>2
<1>6. CASE i # Len(fs)
  <2>1. i \in 1..Len(fs) /\ i + 1 \in 1..Len(fs) /\ gs[i] = fs[i] /\ i < Len(fs) /\ i # Len(gs)
    BY <1>1, <1>2, <1>6
  <2>2. /\ gs[i + 1].kind = fs[i + 1].kind
        /\ gs[i + 1].kind = "defer" => gs[i + 1].saved = fs[i + 1].saved
    BY <1>2, <1>3, <2>1
  <2>3. Pending(gs, k, i) = Pending(fs, j, i) /\ (Inside(gs, i) <=> Inside(fs, i))
    BY <1>1, <1>6, <2>1, <2>2 DEF Pending, Inside
  <2>4. Behind(gs, k, i) = Behind(fs, j, i)
    BY <2>1, <2>3 DEF Behind
  <2> QED
    BY <1>4, <2>1, <2>4 DEF NoneLeft
<1> QED
  BY <1>5, <1>6

\* A list that starts has nothing behind it.
LEMMA LeftPushed ==
    ASSUME NEW fs \in Seq(Frames), fs # <<>>, NEW gs, NEW f, NEW g, Pushed(fs, gs, f, g),
           f.at \in Nat, g.at = 1,
           NEW e, e = fs[Len(fs)], SameList(e, f),
           NEW j, NoneLeft(fs, j),
           ~(f.kind = "loop" /\ f.at = Len(f.stmts) + 1) =>
               \A m \in 1..(IF g.kind = "defer" /\ g.saved = NoJump THEN f.at - 1 ELSE f.at - 2) :
                   ~Exits(f.stmts[m], LoopsAround(fs, Len(fs)))
    PROVE  NoneLeft(gs, NoJump)
<1>1. Len(fs) \in Nat /\ Len(fs) > 0 /\ Len(gs) = Len(fs) + 1
  BY DEF Pushed
<1>2. \A m \in 1..Len(fs) : m # Len(fs) => gs[m] = fs[m]
  BY <1>1 DEF Pushed
<1>3. gs[Len(fs)] = f /\ gs[Len(fs) + 1] = g
  BY DEF Pushed
<1> SUFFICES ASSUME NEW i \in 1..Len(gs), ~(gs[i].kind = "loop" /\ gs[i].at = Len(gs[i].stmts) + 1),
                    NEW m \in 1..Behind(gs, NoJump, i)
             PROVE  ~Exits(gs[i].stmts[m], LoopsAround(gs, i))
  BY DEF NoneLeft
<1>4. CASE i = Len(fs) + 1
  <2>1. Behind(gs, NoJump, i) \in {0, 0 - 1}
    BY <1>3, <1>4 DEF Behind
  <2> QED
    BY <2>1
<1>5. ASSUME i # Len(fs) + 1 PROVE LoopsAround(gs, i) = LoopsAround(fs, i)
  <2>1. i \in Nat /\ \A x \in 1..i : x \in 1..Len(fs)
    BY <1>1, <1>5
  <2>2. \A x \in 1..i : gs[x].kind = fs[x].kind /\ gs[x].of = fs[x].of
    BY <1>2, <1>3, <2>1 DEF SameList
  <2> QED
    BY <2>1, <2>2, LoopsStable
<1>6. CASE i = Len(fs)
  <2>1. i # Len(gs) /\ i < Len(gs) /\ i # Len(fs) + 1
    BY <1>1, <1>6
  <2>2. Behind(gs, NoJump, i) = IF g.kind = "defer" /\ g.saved = NoJump THEN f.at - 1 ELSE f.at - 2
    BY <1>3, <1>6, <2>1 DEF Behind, Pending, Inside
  <2> QED
    BY <1>3, <1>5, <1>6, <2>1, <2>2
<1>7. CASE i # Len(fs) /\ i # Len(fs) + 1
  <2>1. i \in 1..Len(fs) /\ i + 1 \in 1..Len(fs) /\ gs[i] = fs[i] /\ i < Len(fs) /\ i < Len(gs)
        /\ i # Len(gs)
    BY <1>1, <1>2, <1>7
  <2>2. gs[i + 1].kind = fs[i + 1].kind /\ gs[i + 1].saved = fs[i + 1].saved
    BY <1>2, <1>3, <2>1 DEF SameList
  <2>3. Pending(gs, NoJump, i) = Pending(fs, j, i) /\ (Inside(gs, i) <=> Inside(fs, i))
    BY <1>7, <2>1, <2>2 DEF Pending, Inside
  <2>4. Behind(gs, NoJump, i) = Behind(fs, j, i)
    BY <2>1, <2>3 DEF Behind
  <2> QED
    BY <1>5, <1>7, <2>1, <2>4 DEF NoneLeft
<1> QED
  BY <1>4, <1>6, <1>7

\* The list below one that is left is past it.
LEMMA LeftPopped ==
    ASSUME NEW fs \in Seq(Frames), fs # <<>>, Len(fs) # 1, NEW gs, Popped(fs, gs),
           NEW j, NoneLeft(fs, j), NEW k, NEW b, b = fs[Len(fs) - 1],
           ~(b.kind = "loop" /\ b.at = Len(b.stmts) + 1) =>
               \A m \in 1..(IF k = NoJump THEN b.at - 1 ELSE b.at - 2) :
                   ~Exits(b.stmts[m], LoopsAround(fs, Len(fs) - 1))
    PROVE  NoneLeft(gs, k)
<1>1. Len(fs) \in Nat /\ Len(fs) > 1 /\ Len(gs) = Len(fs) - 1
  BY DEF Popped
<1>2. \A m \in 1..Len(gs) : gs[m] = fs[m]
  BY <1>1 DEF Popped
<1> SUFFICES ASSUME NEW i \in 1..Len(gs), ~(gs[i].kind = "loop" /\ gs[i].at = Len(gs[i].stmts) + 1),
                    NEW m \in 1..Behind(gs, k, i)
             PROVE  ~Exits(gs[i].stmts[m], LoopsAround(gs, i))
  BY DEF NoneLeft
<1>3. LoopsAround(gs, i) = LoopsAround(fs, i)
  <2>1. i \in Nat /\ \A x \in 1..i : x \in 1..Len(gs)
    BY <1>1
  <2> QED
    BY <1>2, <2>1, LoopsStable
<1>4. CASE i = Len(gs)
  <2>1. gs[i] = b /\ i = Len(fs) - 1
    BY <1>1, <1>2, <1>4
  <2>2. Behind(gs, k, i) = IF k = NoJump THEN b.at - 1 ELSE b.at - 2
    <3>1. Pending(gs, k, i) = k /\ ~Inside(gs, i)
      BY <1>1, <1>4 DEF Pending, Inside
    <3> QED
      BY <2>1, <3>1 DEF Behind
  <2> QED
    BY <1>3, <2>1, <2>2
<1>5. CASE i # Len(gs)
  <2>1. i \in 1..Len(fs) /\ i + 1 \in 1..Len(gs) /\ gs[i] = fs[i] /\ i < Len(fs) /\ i < Len(gs)
        /\ i # Len(fs)
    BY <1>1, <1>2, <1>5
  <2>2. gs[i + 1] = fs[i + 1]
    BY <1>2, <2>1
  <2>3. Pending(gs, k, i) = Pending(fs, j, i) /\ (Inside(gs, i) <=> Inside(fs, i))
    BY <1>5, <2>1, <2>2 DEF Pending, Inside
  <2>4. Behind(gs, k, i) = Behind(fs, j, i)
    BY <2>1, <2>3 DEF Behind
  <2> QED
    BY <1>3, <2>1, <2>4 DEF NoneLeft
<1> QED
  BY <1>4, <1>5

-----------------------------------------------------------------------------
(* The steps of a function                                                 *)

\* Statements after which control may go on, whatever is in them.
GoesOn(s) ==
    \/ s.op \in {"step", "for", "defer", "function"}
    \/ s.op = "if" /\ Len(s.subs) # 2
    \/ s.op = "match" /\ ~Exhaustive(s)

\* The checks take none of them for one that returns or that leaves its list.
LEMMA GoesOnFacts ==
    ASSUME MaxNesting \in Nat, NEW s \in Statements, GoesOn(s)
    PROVE  ~Returning[s] /\ \A loops : ~Exits(s, loops)
<1>1. ~Returning[s]
  <2>1. ~ReturnStep(s, Returning)
    BY DEF GoesOn, ReturnStep, LoopsForever
  <2> QED
    BY <2>1, ReturningDef
<1>2. ASSUME NEW loops PROVE ~Exits(s, loops)
  <2>1. PICK exits \in [Statements -> BOOLEAN] :
            \A t \in Statements :
                exits[t] = ExitStep(t, loops, exits) /\ exits[t] = Exits(t, loops)
    BY ExitsDef
  <2>2. ~ExitStep(s, loops, exits)
    <3>1. CASE s.op \in {"step", "for", "defer", "function"}
      BY <3>1, ExitStepFacts
    <3>2. CASE s.op = "if" /\ Len(s.subs) # 2
      BY <3>2, ExitStepFacts
    <3>3. CASE s.op = "match" /\ ~Exhaustive(s)
      BY <3>3, ExitStepFacts
    <3> QED
      BY <3>1, <3>2, <3>3 DEF GoesOn
  <2> QED
    BY <2>1, <2>2
<1> QED
  BY <1>1, <1>2

\* A loop does not leave its list.
LEMMA LoopsGoOn ==
    ASSUME MaxNesting \in Nat, NEW s \in Statements, s.op \in {"while", "for", "defer", "function"},
           NEW loops
    PROVE  ~Exits(s, loops)
<1>1. PICK exits \in [Statements -> BOOLEAN] :
          \A t \in Statements :
              exits[t] = ExitStep(t, loops, exits) /\ exits[t] = Exits(t, loops)
  BY ExitsDef
<1>2. ~ExitStep(s, loops, exits)
  BY ExitStepFacts
<1> QED
  BY <1>1, <1>2

\* Nor does a statement one list of which has none that leaves it.
LEMMA InsideGoesOn ==
    ASSUME MaxNesting \in Nat, NEW s \in Statements, s.op \in {"block", "if", "match"},
           NEW l \in Range(s.subs), s.op = "block" => l = s.subs[1], NEW loops,
           \A u \in Range(l) : ~Exits(u, loops)
    PROVE  ~Exits(s, loops)
<1>1. PICK exits \in [Statements -> BOOLEAN] :
          \A t \in Statements :
              exits[t] = ExitStep(t, loops, exits) /\ exits[t] = Exits(t, loops)
  BY ExitsDef
<1>2. l \in Seq(Statements)
  BY StatementFacts DEF Range
<1>3. \A u \in Range(l) : ~exits[u]
  BY <1>1, <1>2 DEF Range
<1>4. ~ExitStep(s, loops, exits)
  <2>1. CASE s.op = "block"
    BY <1>3, <2>1, ExitStepFacts
  <2>2. CASE s.op = "if"
    BY <1>3, <2>2, ExitStepFacts
  <2>3. CASE s.op = "match"
    BY <1>3, <2>3, ExitStepFacts
  <2> QED
    BY <2>1, <2>2, <2>3
<1> QED
  BY <1>1, <1>4

\* The top of a stack, and the statement that comes next there.
LEMMA TopFacts ==
    ASSUME MaxNesting \in Nat, NEW stmts, NEW fs, StackOK(fs, stmts), NEW e, e = fs[Len(fs)]
    PROVE  /\ fs \in Seq(Frames) /\ fs # <<>> /\ Len(fs) \in Nat /\ Len(fs) > 0
           /\ Len(fs) \in 1..Len(fs) /\ FrameOK(e)
           /\ e.at <= Len(e.stmts) => e.at \in DOMAIN e.stmts /\ e.stmts[e.at] \in Statements
                                      /\ e.stmts[e.at] \in Range(e.stmts)
<1>1. fs \in Seq(Frames) /\ fs # <<>> /\ Len(fs) \in Nat /\ Len(fs) > 0 /\ Len(fs) \in 1..Len(fs)
  BY DEF StackOK
<1>2. FrameOK(e)
  BY <1>1 DEF StackOK
<1>3. e.stmts \in Seq(Statements) /\ e.at \in 1..(Len(e.stmts) + 1) /\ e.at \in Nat
  BY <1>2, FrameFacts
<1> QED
  BY <1>1, <1>2, <1>3 DEF Range

\* A list goes past a statement after which control may go on.
LEMMA PassStep ==
    ASSUME MaxNesting \in Nat, NEW stmts, NEW fs, StackInv(fs, NoJump, stmts),
           NEW e, e = fs[Len(fs)], e.at <= Len(e.stmts), GoesOn(e.stmts[e.at]),
           NEW f, FrameOK(f), SameList(e, f), f.at = e.at + 1, NEW gs, Replaced(fs, gs, f)
    PROVE  StackInv(gs, NoJump, stmts)
<1>1. StackOK(fs, stmts) /\ JumpsArrive(fs, NoJump) /\ NoFallingOff(fs, NoJump) /\ NoneLeft(fs, NoJump)
  BY DEF StackInv
<1>2. fs \in Seq(Frames) /\ fs # <<>> /\ Len(fs) \in 1..Len(fs) /\ e.stmts[e.at] \in Statements
  BY <1>1, TopFacts
<1>3. f.kind = e.kind /\ f.of = e.of /\ f.stmts = e.stmts /\ f.saved = e.saved
  BY DEF SameList
<1>4. e.at \in Nat /\ Len(e.stmts) \in Nat /\ f.at \in Nat
  <2>1. FrameOK(e)
    BY <1>1, TopFacts
  <2> QED
    BY <2>1, FrameFacts
<1>5. ~Returning[e.stmts[e.at]] /\ \A loops : ~Exits(e.stmts[e.at], loops)
  BY <1>2, GoesOnFacts
<1>6. StackOK(gs, stmts)
  BY <1>1, <1>3, ReplacedOK
<1>7. JumpsArrive(gs, NoJump)
  BY <1>1, <1>2, <1>3, NoJumpArrives, ReplacedArrives
<1>8. NoFallingOff(gs, NoJump)
  <2>1. ~(Returns(f.stmts) /\ f.at = Len(f.stmts) + 1)
    <3> SUFFICES ASSUME Returns(f.stmts), f.at = Len(f.stmts) + 1 PROVE FALSE
      OBVIOUS
    <3>1. e.at = Len(e.stmts)
      BY <1>3, <1>4
    <3> QED
      BY <1>3, <1>5, <3>1 DEF Returns, Final
  <2> QED
    BY <1>1, <1>2, <1>3, <2>1, FallReplaced
<1>9. NoneLeft(gs, NoJump)
  <2>1. ASSUME NEW m \in 1..(f.at - 1)
        PROVE  ~Exits(f.stmts[m], LoopsAround(fs, Len(fs)))
    <3>1. CASE m = e.at
      BY <1>3, <1>5, <3>1
    <3>2. CASE m # e.at
      <4>1. m \in 1..(e.at - 1)
        BY <1>4, <3>2
      <4>2. Behind(fs, NoJump, Len(fs)) = e.at - 1
        BY DEF Behind, Pending, Inside
      <4>3. ~(e.kind = "loop" /\ e.at = Len(e.stmts) + 1)
        BY <1>4
      <4> QED
        BY <1>1, <1>2, <1>3, <4>1, <4>2, <4>3 DEF NoneLeft
    <3> QED
      BY <3>1, <3>2
  <2> QED
    BY <1>1, <1>2, <1>3, <1>4, <2>1, LeftReplaced
<1> QED
  BY <1>6, <1>7, <1>8, <1>9 DEF StackInv

\* A jump that arrives starts.
LEMMA JumpStep ==
    ASSUME MaxNesting \in Nat, NEW stmts, NEW fs, StackInv(fs, NoJump, stmts),
           Validate(stmts) \subseteq {"unreachable_code"},
           NEW e, e = fs[Len(fs)], e.at <= Len(e.stmts),
           NEW s, s = e.stmts[e.at], s.op \in {"ret", "break", "continue", "fall"},
           NEW j, j = [op |-> s.op, label |-> s.label],
           NEW f, FrameOK(f), SameList(e, f), f.at = e.at + 1, NEW gs, Replaced(fs, gs, f)
    PROVE  StackInv(gs, j, stmts)
<1>1. StackOK(fs, stmts) /\ JumpsArrive(fs, NoJump) /\ NoFallingOff(fs, NoJump) /\ NoneLeft(fs, NoJump)
  BY DEF StackInv
<1>2. fs \in Seq(Frames) /\ fs # <<>> /\ Len(fs) \in Nat /\ Len(fs) \in 1..Len(fs)
      /\ e.at \in DOMAIN e.stmts
  BY <1>1, TopFacts
<1>3. f.kind = e.kind /\ f.of = e.of /\ f.stmts = e.stmts /\ f.saved = e.saved
  BY DEF SameList
<1>4. e.at \in Nat /\ Len(e.stmts) \in Nat /\ f.at \in Nat
  <2>1. FrameOK(e)
    BY <1>1, TopFacts
  <2> QED
    BY <2>1, FrameFacts
<1>5. j # NoJump
  BY DEF NoJump
<1>6. StackOK(gs, stmts)
  BY <1>1, <1>3, ReplacedOK
<1>7. JumpsArrive(gs, j)
  <2>1. Arrives(fs, Len(fs), j)
    BY <1>1, <1>2, JumpArrives
  <2>2. \A m \in 1..Len(fs) : gs[m].kind = fs[m].kind /\ gs[m].of = fs[m].of /\ gs[m].n = fs[m].n
    <3>1. \A m \in 1..Len(fs) : m # Len(fs) => m \in 1..(Len(fs) - 1)
      BY <1>2
    <3> QED
      BY <3>1 DEF Replaced, SameList
  <2>3. Len(gs) = Len(fs) /\ Len(fs) >= 1
    BY <1>2 DEF Replaced
  <2>4. Arrives(gs, Len(gs), j)
    BY <1>2, <2>1, <2>2, <2>3, ArrivesStable
  <2> QED
    BY <1>1, <1>2, <1>3, <2>4, ReplacedArrives
<1>8. NoFallingOff(gs, j)
  BY <1>1, <1>2, <1>3, <1>5, FallReplaced
<1>9. NoneLeft(gs, j)
  <2>1. ASSUME NEW m \in 1..(f.at - 2)
        PROVE  ~Exits(f.stmts[m], LoopsAround(fs, Len(fs)))
    <3>1. m \in 1..(e.at - 1)
      BY <1>4
    <3>2. Behind(fs, NoJump, Len(fs)) = e.at - 1
      BY DEF Behind, Pending, Inside
    <3>3. ~(e.kind = "loop" /\ e.at = Len(e.stmts) + 1)
      BY <1>4
    <3> QED
      BY <1>1, <1>2, <1>3, <3>1, <3>2, <3>3 DEF NoneLeft
  <2> QED
    BY <1>1, <1>2, <1>3, <1>4, <1>5, <2>1, LeftReplaced
<1> QED
  BY <1>6, <1>7, <1>8, <1>9 DEF StackInv

\* A loop starts again, or is at the end of its list.
LEMMA LoopStep ==
    ASSUME MaxNesting \in Nat, NEW stmts, NEW fs, NEW j, StackInv(fs, j, stmts),
           NEW e, e = fs[Len(fs)], e.kind = "loop",
           NEW f, FrameOK(f), SameList(e, f), f.at \in {1, Len(f.stmts) + 1},
           NEW gs, Replaced(fs, gs, f)
    PROVE  StackInv(gs, NoJump, stmts)
<1>1. StackOK(fs, stmts) /\ JumpsArrive(fs, j) /\ NoFallingOff(fs, j) /\ NoneLeft(fs, j)
  BY DEF StackInv
<1>2. fs \in Seq(Frames) /\ fs # <<>>
  BY <1>1, TopFacts
<1>3. f.kind = e.kind /\ f.of = e.of /\ f.stmts = e.stmts /\ f.saved = e.saved /\ f.kind = "loop"
  BY DEF SameList
<1>4. f.at \in Nat
  BY FrameFacts
<1>5. StackOK(gs, stmts)
  BY <1>1, <1>3, ReplacedOK
<1>6. JumpsArrive(gs, NoJump)
  BY <1>1, <1>2, <1>3, NoJumpArrives, ReplacedArrives
<1>7. NoFallingOff(gs, NoJump)
  BY <1>1, <1>2, <1>3, FallReplaced
<1>8. NoneLeft(gs, NoJump)
  <2>1. ASSUME ~(f.kind = "loop" /\ f.at = Len(f.stmts) + 1)
        PROVE  \A m \in 1..(f.at - 1) : ~Exits(f.stmts[m], LoopsAround(fs, Len(fs)))
    <3>1. 1..(f.at - 1) = {}
      BY <1>3, <2>1
    <3> QED
      BY <3>1
  <2> QED
    BY <1>1, <1>2, <1>3, <1>4, <2>1, LeftReplaced
<1> QED
  BY <1>5, <1>6, <1>7, <1>8 DEF StackInv

\* The next case starts in the place of one that falls.
LEMMA FallStep ==
    ASSUME MaxNesting \in Nat, NEW stmts, NEW fs, NEW j, StackInv(fs, j, stmts),
           NEW e, e = fs[Len(fs)], e.kind = "case",
           NEW f, FrameOK(f), f.kind = "case", f.of = e.of, f.at = 1,
           NEW gs, Replaced(fs, gs, f)
    PROVE  StackInv(gs, NoJump, stmts)
<1>1. StackOK(fs, stmts) /\ JumpsArrive(fs, j) /\ NoFallingOff(fs, j) /\ NoneLeft(fs, j)
  BY DEF StackInv
<1>2. fs \in Seq(Frames) /\ fs # <<>>
  BY <1>1, TopFacts
<1>3. f.kind = e.kind /\ f.kind # "function" /\ f.kind # "defer" /\ f.at \in Nat
  OBVIOUS
<1>4. StackOK(gs, stmts)
  BY <1>1, <1>3, ReplacedOK
<1>5. JumpsArrive(gs, NoJump)
  BY <1>1, <1>2, <1>3, NoJumpArrives, ReplacedArrives
<1>6. NoFallingOff(gs, NoJump)
  <2>1. f.stmts \in Seq(Statements) /\ Len(f.stmts) \in Nat
    BY FrameFacts
  <2>2. Returns(f.stmts) => f.at # Len(f.stmts) + 1
    BY <2>1 DEF Returns
  <2> QED
    BY <1>1, <1>2, <1>3, <2>2, FallReplaced
<1>7. NoneLeft(gs, NoJump)
  <2>1. 1..(f.at - 1) = {}
    OBVIOUS
  <2> QED
    BY <1>1, <1>2, <1>3, <2>1, LeftReplaced
<1> QED
  BY <1>4, <1>5, <1>6, <1>7 DEF StackInv

\* A list in the next statement starts.
LEMMA EnterStep ==
    ASSUME MaxNesting \in Nat, NEW stmts, NEW fs, StackInv(fs, NoJump, stmts),
           NEW e, e = fs[Len(fs)], e.at <= Len(e.stmts),
           NEW f, FrameOK(f), SameList(e, f), f.at = e.at + 1,
           NEW g, FrameOK(g), g.of = e.stmts[e.at], g.kind # "defer", g.at = 1,
           NEW gs, Pushed(fs, gs, f, g)
    PROVE  StackInv(gs, NoJump, stmts)
<1>1. StackOK(fs, stmts) /\ JumpsArrive(fs, NoJump) /\ NoFallingOff(fs, NoJump) /\ NoneLeft(fs, NoJump)
  BY DEF StackInv
<1>2. fs \in Seq(Frames) /\ fs # <<>> /\ Len(fs) \in 1..Len(fs) /\ e.stmts[e.at] \in Range(e.stmts)
  BY <1>1, TopFacts
<1>3. f.kind = e.kind /\ f.of = e.of /\ f.stmts = e.stmts /\ f.saved = e.saved
  BY DEF SameList
<1>4. e.at \in Nat /\ e.at >= 1 /\ Len(e.stmts) \in Nat /\ f.at \in Nat
  <2>1. FrameOK(e)
    BY <1>1, TopFacts
  <2> QED
    BY <2>1, FrameFacts
<1>5. g.stmts \in Seq(Statements) /\ Len(g.stmts) \in Nat /\ (Returns(g.stmts) => Len(g.stmts) # 0)
  <2>1. g.stmts \in Seq(Statements)
    BY FrameFacts
  <2> QED
    BY <2>1 DEF Returns
<1>6. Linked(f, g)
  <2>1. f.at > 1 /\ f.at - 1 = e.at
    BY <1>4
  <2> QED
    BY <1>2, <1>3, <2>1 DEF Linked
<1>7. StackOK(gs, stmts)
  BY <1>1, <1>6, PushedOK
<1>8. JumpsArrive(gs, NoJump)
  BY <1>1, <1>2, PushedArrives
<1>9. NoFallingOff(gs, NoJump)
  BY <1>1, <1>2, <1>5, FallPushed
<1>10. NoneLeft(gs, NoJump)
  <2>1. ASSUME NEW m \in 1..(f.at - 2)
        PROVE  ~Exits(f.stmts[m], LoopsAround(fs, Len(fs)))
    <3>1. m \in 1..(e.at - 1)
      BY <1>4
    <3>2. Behind(fs, NoJump, Len(fs)) = e.at - 1
      BY DEF Behind, Pending, Inside
    <3>3. ~(e.kind = "loop" /\ e.at = Len(e.stmts) + 1)
      BY <1>4
    <3> QED
      BY <1>1, <1>2, <1>3, <3>1, <3>2, <3>3 DEF NoneLeft
  <2> QED
    BY <1>1, <1>2, <1>4, <2>1, LeftPushed
<1> QED
  BY <1>7, <1>8, <1>9, <1>10 DEF StackInv

\* A deferred statement runs before the list it is deferred in is left.
LEMMA DeferredStep ==
    ASSUME MaxNesting \in Nat, NEW stmts, NEW fs, NEW j, StackInv(fs, j, stmts),
           NEW e, e = fs[Len(fs)],
           NEW f, FrameOK(f), SameList(e, f), f.at = e.at,
           NEW g, FrameOK(g), g.of \in Range(e.stmts), g.kind = "defer", g.at = 1, g.saved = j,
           NEW gs, Pushed(fs, gs, f, g)
    PROVE  StackInv(gs, NoJump, stmts)
<1>1. StackOK(fs, stmts) /\ JumpsArrive(fs, j) /\ NoFallingOff(fs, j) /\ NoneLeft(fs, j)
  BY DEF StackInv
<1>2. fs \in Seq(Frames) /\ fs # <<>> /\ Len(fs) \in 1..Len(fs) /\ Len(fs) \in Nat
  BY <1>1, TopFacts
<1>3. f.kind = e.kind /\ f.of = e.of /\ f.stmts = e.stmts /\ f.saved = e.saved
  BY DEF SameList
<1>4. f.at \in Nat
  BY FrameFacts
<1>5. g.stmts \in Seq(Statements) /\ Len(g.stmts) \in Nat /\ (Returns(g.stmts) => Len(g.stmts) # 0)
  <2>1. g.stmts \in Seq(Statements)
    BY FrameFacts
  <2> QED
    BY <2>1 DEF Returns
<1>6. Linked(f, g)
  BY <1>3 DEF Linked
<1>7. StackOK(gs, stmts)
  BY <1>1, <1>6, PushedOK
<1>8. JumpsArrive(gs, NoJump)
  BY <1>1, <1>2, PushedArrives
<1>9. Pending(fs, j, Len(fs)) = j /\ ~Inside(fs, Len(fs))
  BY <1>2 DEF Pending, Inside
<1>10. NoFallingOff(gs, NoJump)
  <2>1. ASSUME f.kind \in {"function", "block", "case"}, Returns(f.stmts), f.at = Len(f.stmts) + 1
        PROVE  g.saved # NoJump
    BY <1>1, <1>2, <1>3, <1>9, <2>1 DEF NoFallingOff
  <2> QED
    BY <1>1, <1>2, <1>5, <2>1, FallPushed
<1>11. NoneLeft(gs, NoJump)
  <2>1. Behind(fs, j, Len(fs)) = IF g.kind = "defer" /\ g.saved = NoJump THEN f.at - 1 ELSE f.at - 2
    BY <1>9 DEF Behind
  <2>2. ASSUME ~(f.kind = "loop" /\ f.at = Len(f.stmts) + 1)
        PROVE  \A m \in 1..(IF g.kind = "defer" /\ g.saved = NoJump THEN f.at - 1 ELSE f.at - 2) :
                   ~Exits(f.stmts[m], LoopsAround(fs, Len(fs)))
    BY <1>1, <1>2, <1>3, <2>1, <2>2 DEF NoneLeft
  <2> QED
    BY <1>1, <1>2, <1>4, <2>2, LeftPushed
<1> QED
  BY <1>7, <1>8, <1>10, <1>11 DEF StackInv

\* The loops around a list that is neither a loop nor a function are those around
\* the list below it.
LEMMA SameLoops ==
    ASSUME NEW fs, NEW n \in Nat, n > 1, fs[n].kind \notin {"loop", "function"}
    PROVE  LoopsAround(fs, n) = LoopsAround(fs, n - 1)
<1>1. \A m \in 1..(n - 1) : SameCall(fs, m, n) <=> SameCall(fs, m, n - 1)
  <2> SUFFICES ASSUME NEW m \in 1..(n - 1)
               PROVE  SameCall(fs, m, n) <=> SameCall(fs, m, n - 1)
    OBVIOUS
  <2>1. (m + 1)..n = ((m + 1)..(n - 1)) \cup {n}
    OBVIOUS
  <2> QED
    BY <2>1 DEF SameCall
<1>2. \A m \in 1..n : m = n \/ m \in 1..(n - 1)
  OBVIOUS
<1>3. {m \in 1..n : fs[m].kind = "loop" /\ SameCall(fs, m, n)}
        = {m \in 1..(n - 1) : fs[m].kind = "loop" /\ SameCall(fs, m, n - 1)}
  BY <1>1, <1>2
<1> QED
  BY <1>3 DEF LoopsAround

\* A list is left: the one below it goes on after the statement it was in, which
\* was none of those that return or leave their list, or it is left itself.
LEMMA PopStep ==
    ASSUME MaxNesting \in Nat, NEW stmts, NEW fs, NEW j, StackInv(fs, j, stmts),
           NEW e, e = fs[Len(fs)], Len(fs) # 1, NEW gs, Popped(fs, gs),
           NEW k, Arrives(fs, Len(fs) - 1, k), e.kind = "defer" => k = e.saved,
           k = NoJump /\ e.kind # "defer" =>
               ~Returning[e.of] /\ ~Exits(e.of, LoopsAround(fs, Len(fs) - 1))
    PROVE  StackInv(gs, k, stmts)
<1>1. StackOK(fs, stmts) /\ JumpsArrive(fs, j) /\ NoFallingOff(fs, j) /\ NoneLeft(fs, j)
  BY DEF StackInv
<1>2. PICK i : i = Len(fs) - 1
  OBVIOUS
<1>3. fs \in Seq(Frames) /\ fs # <<>> /\ Len(fs) \in Nat /\ Len(fs) > 1
      /\ i \in 1..Len(fs) /\ i # Len(fs) /\ i < Len(fs) /\ i + 1 = Len(fs) /\ Len(fs) \in 2..Len(fs)
  BY <1>1, <1>2, TopFacts
<1>4. PICK b : b = fs[i]
  OBVIOUS
<1>5. FrameOK(b) /\ Linked(b, e)
  BY <1>1, <1>2, <1>3, <1>4 DEF StackOK
<1>6. b.at \in Nat /\ Len(b.stmts) \in Nat /\ b.stmts \in Seq(Statements)
  BY <1>5, FrameFacts
<1>7. Pending(fs, j, i) = (IF e.kind = "defer" THEN e.saved ELSE NoJump)
      /\ (Inside(fs, i) <=> e.kind # "defer")
  BY <1>3 DEF Pending, Inside
<1>8. StackOK(gs, stmts)
  BY <1>1, PoppedOK
<1>9. JumpsArrive(gs, k)
  BY <1>1, <1>3, PoppedArrives
<1>10. NoFallingOff(gs, k)
  <2>1. ASSUME b.kind \in {"function", "block", "case"}, Returns(b.stmts),
               b.at = Len(b.stmts) + 1, k = NoJump
        PROVE  FALSE
    <3>1. CASE e.kind = "defer"
      BY <1>1, <1>3, <1>4, <1>7, <2>1, <3>1 DEF NoFallingOff
    <3>2. CASE e.kind # "defer"
      <4>1. e.of = b.stmts[b.at - 1] /\ b.at - 1 = Len(b.stmts)
        BY <1>5, <1>6, <2>1, <3>2 DEF Linked
      <4> QED
        BY <2>1, <3>2, <4>1 DEF Returns, Final
    <3> QED
      BY <3>1, <3>2
  <2> QED
    BY <1>1, <1>2, <1>3, <1>4, <2>1, FallPopped
<1>11. NoneLeft(gs, k)
  <2>1. ASSUME ~(b.kind = "loop" /\ b.at = Len(b.stmts) + 1),
               NEW m \in 1..(IF k = NoJump THEN b.at - 1 ELSE b.at - 2)
        PROVE  ~Exits(b.stmts[m], LoopsAround(fs, i))
    <3>1. Behind(fs, j, i) = IF e.kind = "defer" /\ k = NoJump THEN b.at - 1 ELSE b.at - 2
      BY <1>4, <1>7 DEF Behind
    <3>2. CASE m \in 1..Behind(fs, j, i)
      BY <1>1, <1>3, <1>4, <2>1, <3>2 DEF NoneLeft
    <3>3. CASE m \notin 1..Behind(fs, j, i)
      <4>1. k = NoJump /\ e.kind # "defer" /\ m = b.at - 1
        BY <1>6, <2>1, <3>1, <3>3
      <4>2. e.of = b.stmts[b.at - 1]
        BY <1>5, <4>1 DEF Linked
      <4> QED
        BY <1>2, <4>1, <4>2
    <3> QED
      BY <3>2, <3>3
  <2> QED
    BY <1>1, <1>2, <1>3, <1>4, <2>1, LeftPopped
<1> QED
  BY <1>8, <1>9, <1>10, <1>11 DEF StackInv

\* What the top belongs to is a statement, unless nothing is below.
LEMMA OwnerFacts ==
    ASSUME MaxNesting \in Nat, NEW stmts, NEW fs, StackOK(fs, stmts), NEW e, e = fs[Len(fs)],
           Len(fs) # 1
    PROVE  e.of \in Statements
<1>1. Len(fs) \in Nat /\ Len(fs) > 0 /\ Len(fs) \in 2..Len(fs) /\ Len(fs) - 1 \in 1..Len(fs)
  <2>1. PICK n : n = Len(fs)
    OBVIOUS
  <2>2. n \in Nat /\ n > 0 /\ n # 1
    BY <2>1, TopFacts
  <2>3. n \in 2..n /\ n - 1 \in 1..n
    BY <2>2
  <2> QED
    BY <2>1, <2>2, <2>3
<1>2. FrameOK(fs[Len(fs) - 1]) /\ e.of \in Range(fs[Len(fs) - 1].stmts)
  BY <1>1 DEF StackOK, Linked
<1>3. fs[Len(fs) - 1].stmts \in Seq(Statements)
  BY <1>2, FrameFacts
<1> QED
  BY <1>2, <1>3 DEF Range

\* The end of a list that is no function's and no endless loop's.
LEMMA FinishStep ==
    ASSUME MaxNesting \in Nat, NEW stmts, NEW fs, StackInv(fs, NoJump, stmts),
           NEW e, e = fs[Len(fs)], e.at = Len(e.stmts) + 1, e.kind # "function",
           e.kind = "loop" => e.of.op = "for",
           NEW gs, Popped(fs, gs)
    PROVE  StackInv(gs, e.saved, stmts)
<1>1. StackOK(fs, stmts) /\ JumpsArrive(fs, NoJump) /\ NoFallingOff(fs, NoJump) /\ NoneLeft(fs, NoJump)
  BY DEF StackInv
<1>2. /\ fs \in Seq(Frames) /\ fs # <<>> /\ FrameOK(e) /\ Len(fs) # 1 /\ Len(fs) \in Nat
      /\ Len(fs) > 1 /\ Len(fs) \in 1..Len(fs) /\ Len(fs) \in 2..Len(fs)
  <2>1. fs \in Seq(Frames) /\ fs # <<>> /\ FrameOK(e)
    BY <1>1, TopFacts
  <2>2. PICK n : n = Len(fs)
    OBVIOUS
  <2>3. n \in Nat /\ n > 0 /\ n # 1
    BY <1>1, <2>2, TopFacts DEF StackOK
  <2>4. n > 1 /\ n \in 1..n /\ n \in 2..n
    BY <2>3
  <2> QED
    BY <2>1, <2>2, <2>3, <2>4
<1>3. Arrives(fs, Len(fs) - 1, e.saved) /\ (e.kind # "defer" => e.saved = NoJump)
  <2>1. CASE e.kind = "defer"
    BY <1>1, <1>2, <2>1 DEF JumpsArrive
  <2>2. CASE e.kind # "defer"
    BY <1>2, <2>2, NoJumpArrives DEF FrameOK
  <2> QED
    BY <2>1, <2>2
<1>4. e.of \in Statements
  BY <1>1, <1>2, OwnerFacts
<1>5. ASSUME e.kind # "defer"
      PROVE  ~Returning[e.of] /\ ~Exits(e.of, LoopsAround(fs, Len(fs) - 1))
  <2>1. CASE e.kind = "loop"
    BY <1>4, <2>1, GoesOnFacts DEF GoesOn
  <2>2. CASE e.kind # "loop"
    <3>1. /\ e.kind \in {"block", "case"} /\ e.of.op \in {"block", "if", "match"}
          /\ e.stmts \in Range(e.of.subs) /\ (e.of.op = "block" => e.stmts = e.of.subs[1])
          /\ e.stmts \in Seq(Statements)
      BY <1>2, <1>5, <2>2, FrameFacts
    <3>2. Pending(fs, NoJump, Len(fs)) = NoJump /\ ~Inside(fs, Len(fs))
      BY <1>2 DEF Pending, Inside
    <3>3. ~Returns(e.stmts)
      BY <1>1, <1>2, <3>1, <3>2 DEF NoFallingOff
    <3>4. ~Returning[e.of]
      <4>1. ~ReturnStep(e.of, Returning)
        BY <3>1, <3>3 DEF ReturnStep, Returns, LoopsForever
      <4> QED
        BY <1>4, <4>1, ReturningDef
    <3>5. \A u \in Range(e.stmts) : ~Exits(u, LoopsAround(fs, Len(fs)))
      <4>1. Behind(fs, NoJump, Len(fs)) = e.at - 1 /\ e.at - 1 = Len(e.stmts)
        BY <3>1, <3>2 DEF Behind
      <4>2. \A m \in 1..Len(e.stmts) : ~Exits(e.stmts[m], LoopsAround(fs, Len(fs)))
        BY <1>1, <1>2, <2>2, <4>1 DEF NoneLeft
      <4> QED
        BY <3>1, <4>2 DEF Range
    <3>6. LoopsAround(fs, Len(fs)) = LoopsAround(fs, Len(fs) - 1)
      BY <1>2, <3>1, SameLoops
    <3>7. ~Exits(e.of, LoopsAround(fs, Len(fs)))
      BY <1>4, <3>1, <3>5, InsideGoesOn
    <3> QED
      BY <3>4, <3>6, <3>7
  <2> QED
    BY <2>1, <2>2
<1> QED
  BY <1>2, <1>3, <1>5, PopStep

\* A jump is caught where it arrives: ret by the call, break by its loop.
LEMMA CaughtStep ==
    ASSUME MaxNesting \in Nat, NEW stmts, NEW fs, NEW j, StackInv(fs, j, stmts),
           NEW e, e = fs[Len(fs)], Len(fs) # 1,
           e.kind = "function" \/ (j.op = "break" /\ Target(e, j)),
           NEW gs, Popped(fs, gs)
    PROVE  StackInv(gs, NoJump, stmts)
<1>1. StackOK(fs, stmts) /\ JumpsArrive(fs, j)
  BY DEF StackInv
<1>2. FrameOK(e) /\ Len(fs) \in 1..Len(fs) /\ Len(fs) \in Nat /\ e.of \in Statements
  BY <1>1, OwnerFacts, TopFacts
<1>3. e.kind \in {"function", "loop"}
  BY DEF Target
<1>4. e.of.op \in {"function", "while", "for"}
  BY <1>2, <1>3, FrameFacts
<1>5. ~Exits(e.of, LoopsAround(fs, Len(fs) - 1))
  BY <1>2, <1>4, LoopsGoOn
<1>6. ~Returning[e.of]
  <2>1. CASE e.of.op # "while"
    BY <1>2, <1>4, <2>1, GoesOnFacts DEF GoesOn
  <2>2. CASE e.of.op = "while"
    <3>1. e.kind # "function"
      BY <1>2, <2>2, FrameFacts
    <3>2. j.op = "break" /\ Target(e, j)
      BY <3>1
    <3>3. SameCall(fs, Len(fs), Len(fs)) /\ (Len(fs) + 1)..Len(fs) = {}
      <4>1. (Len(fs) + 1)..Len(fs) = {}
        BY <1>2
      <4> QED
        BY <4>1 DEF SameCall
    <3>4. ~LoopsForever(e.of)
      BY <1>1, <1>2, <3>2, <3>3 DEF JumpsArrive, Arrives
    <3>5. ~ReturnStep(e.of, Returning)
      BY <2>2, <3>4 DEF ReturnStep
    <3> QED
      BY <1>2, <3>5, ReturningDef
  <2> QED
    BY <2>1, <2>2
<1> QED
  BY <1>3, <1>5, <1>6, NoJumpArrives, PopStep

\* Where a jump is not caught, it is not lost: it goes on below.
LEMMA UncaughtStep ==
    ASSUME MaxNesting \in Nat, NEW stmts, NEW fs, NEW j, StackInv(fs, j, stmts), j \in Jumps,
           j.op # "none", NEW e, e = fs[Len(fs)],
           ~(e.kind = "function" /\ j.op = "ret"),
           ~(j.op \in {"break", "continue"} /\ Target(e, j)),
           ~(j.op = "fall" /\ e.kind = "case" /\ e.n < Len(e.of.cases))
    PROVE  /\ e.kind \notin {"function", "defer"} /\ j.op # "fall" /\ Len(fs) # 1
           /\ \A gs : Popped(fs, gs) => StackInv(gs, j, stmts)
<1>1. StackOK(fs, stmts) /\ JumpsArrive(fs, j)
  BY DEF StackInv
<1>2. FrameOK(e) /\ Len(fs) \in 1..Len(fs) /\ Len(fs) \in Nat /\ Len(fs) > 0
  BY <1>1, TopFacts
<1>3. Arrives(fs, Len(fs), j)
  BY <1>1 DEF JumpsArrive
<1>4. j.op \in {"ret", "break", "continue"}
  <2>1. j.op \in {"ret", "break", "continue", "fall"}
    BY DEF Jumps
  <2>2. j.op # "fall"
    BY <1>3 DEF Arrives
  <2> QED
    BY <2>1, <2>2
<1>5. \E k \in 1..Len(fs) : /\ k # Len(fs) /\ SameRun(fs, k, Len(fs))
                            /\ j.op = "ret" => fs[k].kind = "function"
                            /\ j.op # "ret" => Target(fs[k], j)
  <2>1. CASE j.op = "ret"
    BY <1>3, <2>1 DEF Arrives
  <2>2. CASE j.op \in {"break", "continue"}
    BY <1>3, <2>2 DEF Arrives
  <2> QED
    BY <1>4, <2>1, <2>2
<1>6. PICK k \in 1..Len(fs) : /\ k # Len(fs) /\ SameRun(fs, k, Len(fs))
                              /\ j.op = "ret" => fs[k].kind = "function"
                              /\ j.op # "ret" => Target(fs[k], j)
  BY <1>5
<1>7. PICK i : i = Len(fs) - 1
  OBVIOUS
<1>8. i \in Nat /\ i >= 1 /\ k \in 1..i /\ Len(fs) # 1 /\ Len(fs) \in (k + 1)..Len(fs)
      /\ \A x \in Nat : (x + 1)..i \subseteq (x + 1)..Len(fs)
  BY <1>2, <1>6, <1>7
<1>9. e.kind \notin {"function", "defer"}
  BY <1>6, <1>8 DEF SameRun
<1>10. SameRun(fs, k, i)
  BY <1>6, <1>8 DEF SameRun
<1>11. ASSUME j.op = "break", NEW x \in 1..i, Target(fs[x], j), LoopsForever(fs[x].of),
              SameCall(fs, x, i)
       PROVE  \E m \in (x + 1)..i : Target(fs[m], j)
  <2>1. (x + 1)..Len(fs) = ((x + 1)..i) \cup {Len(fs)} /\ x \in 1..Len(fs)
    BY <1>2, <1>7
  <2>2. SameCall(fs, x, Len(fs))
    BY <1>9, <1>11, <2>1 DEF SameCall
  <2>3. PICK m \in (x + 1)..Len(fs) : Target(fs[m], j)
    BY <1>3, <1>11, <2>1, <2>2 DEF Arrives
  <2> QED
    BY <1>11, <2>1, <2>3
<1>12. Arrives(fs, i, j)
  BY <1>4, <1>6, <1>8, <1>10, <1>11 DEF Arrives
<1>13. j # NoJump
  BY DEF NoJump
<1> QED
  BY <1>4, <1>7, <1>8, <1>9, <1>12, <1>13, PopStep

-----------------------------------------------------------------------------
(* Every action keeps the invariant                                        *)

\* Of some natural numbers, one is the least.
LEMMA Least ==
    ASSUME NEW S \in SUBSET Nat, S # {}
    PROVE  \E n \in S : \A m \in S : n <= m
<1>1. PICK Less : Less = OpToRel(<, Nat)
  OBVIOUS
<1>2. \A m, n \in Nat : <<m, n>> \in Less <=> m < n
  BY <1>1 DEF OpToRel
<1>3. PICK n \in S : \A m \in S : <<m, n>> \notin Less
  BY <1>1, NatLessThanWellFounded, WFMin
<1>4. ASSUME NEW m \in S PROVE n <= m
  <2>1. m \in Nat /\ n \in Nat /\ ~(m < n)
    BY <1>2, <1>3
  <2> QED
    BY <2>1
<1> QED
  BY <1>4

\* A list starts at its beginning.
LEMMA NewFrame ==
    ASSUME ControlFlowParameters, NEW s \in Nodes, Shaped(s), NEW n \in DOMAIN s.subs,
           NEW kind \in Kinds, NEW g, g = Frame(kind, s, n), Owns(g)
    PROVE  FrameOK(g) /\ g.kind = kind /\ g.of = s /\ g.n = n /\ g.at = 1 /\ g.saved = NoJump
<1>1. g = [kind |-> kind, of |-> s, n |-> n, stmts |-> s.subs[n], at |-> 1,
           defers |-> <<>>, saved |-> NoJump]
  BY DEF Frame
<1>2. s.subs \in Seq(Seq(Statements)) /\ n \in Nat /\ s.subs[n] \in Seq(Statements)
  BY DEF Nodes
<1>3. NoJump \in Jumps
  BY DEF NoJump, Jumps, ControlFlowParameters
<1>4. <<>> \in Seq(Statements) /\ Range(<<>>) = {}
  BY DEF Range
<1>5. g \in Frames
  BY <1>1, <1>2, <1>3, <1>4 DEF Frames
<1>6. 1 \in 1..(Len(s.subs[n]) + 1)
  BY <1>2
<1> QED
  BY <1>1, <1>4, <1>5, <1>6 DEF FrameOK

\* A list goes on with its position and what it deferred, and is the same list.
LEMMA NextFrame ==
    ASSUME NEW e, FrameOK(e), NEW at \in 1..(Len(e.stmts) + 1),
           NEW defers \in Seq(Statements),
           \A d \in Range(defers) : d \in Range(e.stmts) /\ d.op = "defer",
           NEW f, f = [kind |-> e.kind, of |-> e.of, n |-> e.n, stmts |-> e.stmts, at |-> at,
                       defers |-> defers, saved |-> e.saved]
    PROVE  FrameOK(f) /\ SameList(e, f) /\ f.at = at /\ f \in Frames
<1>1. e \in Frames
  BY DEF FrameOK
<1>2. e = [kind |-> e.kind, of |-> e.of, n |-> e.n, stmts |-> e.stmts, at |-> e.at,
           defers |-> e.defers, saved |-> e.saved]
      /\ e.kind \in Kinds /\ e.of \in Nodes /\ e.n \in Nat /\ e.stmts \in Seq(Statements)
      /\ e.saved \in Jumps
  BY <1>1 DEF Frames
<1>3. at \in Nat
  BY <1>2
<1>4. f \in Frames
  BY <1>2, <1>3 DEF Frames
<1>5. Owns(f) <=> Owns(e)
  BY DEF Owns
<1>6. SameList(e, f)
  BY DEF SameList
<1> QED
  BY <1>4, <1>5, <1>6 DEF FrameOK

\* What a running function's invariant is made of again after a step.
LEMMA Settled ==
    ASSUME FlowInv, outcome = "running", UNCHANGED <<body, errors, outcome>>,
           jump' \in Jumps, jump'.op = "none" => jump' = NoJump,
           StackInv(frames', jump', body)
    PROVE  FlowInv'
BY DEF FlowInv

\* A running function and its top.
LEMMA RunningFacts ==
    ASSUME ControlFlowParameters, FlowInv, Running
    PROVE  /\ StackInv(frames, jump, body) /\ StackOK(frames, body) /\ outcome = "running"
           /\ Validate(body) \subseteq {"unreachable_code"} /\ MaxNesting \in Nat
           /\ jump \in Jumps /\ (jump.op = "none" => jump = NoJump) /\ NoJump \in Jumps
           /\ Top = frames[Len(frames)] /\ FrameOK(Top) /\ Top \in Frames
           /\ frames \in Seq(Frames) /\ frames # <<>> /\ Len(frames) \in Nat
           /\ Below = SubSeq(frames, 1, Len(frames) - 1)
           /\ AtEnd <=> Top.at = Len(Top.stmts) + 1
           /\ ~AtEnd => /\ Top.at <= Len(Top.stmts) /\ CurrentStatement \in Statements
                        /\ CurrentStatement = Top.stmts[Top.at]
                        /\ CurrentStatement \in Range(Top.stmts)
<1>1. /\ StackInv(frames, jump, body) /\ outcome = "running"
      /\ Validate(body) \subseteq {"unreachable_code"}
      /\ jump \in Jumps /\ (jump.op = "none" => jump = NoJump)
  BY DEF FlowInv, Running
<1>2. MaxNesting \in Nat /\ NoJump \in Jumps
  BY DEF ControlFlowParameters, NoJump, Jumps
<1>3. StackOK(frames, body)
  BY <1>1 DEF StackInv
<1>4. PICK e : e = frames[Len(frames)]
  OBVIOUS
<1>5. Top = e
  BY <1>4 DEF Top, Final
<1>6. /\ frames \in Seq(Frames) /\ frames # <<>> /\ Len(frames) \in Nat /\ FrameOK(e)
      /\ e.at <= Len(e.stmts) => e.stmts[e.at] \in Statements /\ e.stmts[e.at] \in Range(e.stmts)
  BY <1>2, <1>3, <1>4, TopFacts
<1>7. e.at \in Nat /\ e.at \in 1..(Len(e.stmts) + 1) /\ Len(e.stmts) \in Nat /\ e \in Frames
  BY <1>2, <1>6, FrameFacts
<1>8. (e.at > Len(e.stmts)) <=> e.at = Len(e.stmts) + 1
  BY <1>7
<1>9. ~(e.at > Len(e.stmts)) => e.at <= Len(e.stmts)
  BY <1>7
<1> QED
  BY <1>1, <1>2, <1>3, <1>4, <1>5, <1>6, <1>7, <1>8, <1>9 DEF AtEnd, CurrentStatement, Below

\* Passed is the top one statement further.
LEMMA PassedFacts ==
    ASSUME ControlFlowParameters, FlowInv, Running, ~AtEnd
    PROVE  /\ FrameOK(Passed) /\ SameList(Top, Passed) /\ Passed.at = Top.at + 1
           /\ Passed \in Frames
           /\ Replaced(frames, Append(Below, Passed), Passed)
           /\ \A g \in Frames : Pushed(frames, Below \o <<Passed, g>>, Passed, g)
<1>1. PICK e : e = Top
  OBVIOUS
<1>2. FrameOK(e) /\ e \in Frames /\ e.at <= Len(e.stmts) /\ MaxNesting \in Nat
  BY <1>1, RunningFacts
<1>3. e.at \in Nat /\ Len(e.stmts) \in Nat /\ e.at \in 1..(Len(e.stmts) + 1)
  BY <1>2, FrameFacts
<1>4. e.at + 1 \in 1..(Len(e.stmts) + 1)
  BY <1>2, <1>3
<1>5. /\ e.defers \in Seq(Statements)
      /\ \A d \in Range(e.defers) : d \in Range(e.stmts) /\ d.op = "defer"
      /\ e = [kind |-> e.kind, of |-> e.of, n |-> e.n, stmts |-> e.stmts, at |-> e.at,
              defers |-> e.defers, saved |-> e.saved]
  BY <1>2 DEF FrameOK, Frames
<1>6. PICK f : f = [e EXCEPT !.at = e.at + 1]
  OBVIOUS
<1>7. f = [kind |-> e.kind, of |-> e.of, n |-> e.n, stmts |-> e.stmts, at |-> e.at + 1,
           defers |-> e.defers, saved |-> e.saved]
  BY <1>5, <1>6
<1>8. FrameOK(f) /\ SameList(e, f) /\ f.at = e.at + 1 /\ f \in Frames
  BY <1>2, <1>4, <1>5, <1>7, NextFrame
<1>9. Passed = f
  BY <1>1, <1>6 DEF Passed
<1>10. /\ Replaced(frames, Append(Below, f), f)
       /\ \A g \in Frames : Pushed(frames, Below \o <<f, g>>, f, g)
  BY <1>8, RunningFacts, StackOps
<1> QED
  BY <1>1, <1>8, <1>9, <1>10

\* At a statement, going past it.
LEMMA PassInv ==
    ASSUME ControlFlowParameters, FlowInv, Running, ~AtEnd, jump = NoJump,
           GoesOn(CurrentStatement), Pass, UNCHANGED <<body, errors, jump, outcome>>
    PROVE  FlowInv'
<1>1. PICK e : e = Top
  OBVIOUS
<1>2. /\ StackInv(frames, NoJump, body) /\ e = frames[Len(frames)] /\ e.at <= Len(e.stmts)
      /\ CurrentStatement = e.stmts[e.at] /\ MaxNesting \in Nat /\ outcome = "running"
      /\ NoJump \in Jumps
  BY <1>1, RunningFacts
<1>3. FrameOK(Passed) /\ SameList(e, Passed) /\ Passed.at = e.at + 1
      /\ Replaced(frames, frames', Passed)
  BY <1>1, PassedFacts DEF Pass
<1>4. StackInv(frames', NoJump, body)
  BY <1>2, <1>3, PassStep
<1> QED
  BY <1>2, <1>4, Settled

\* At a statement, running a list in it.
LEMMA RunInv ==
    ASSUME ControlFlowParameters, FlowInv, Running, ~AtEnd, jump = NoJump,
           NEW s, s = CurrentStatement,
           NEW kind \in {"block", "case", "loop", "function"}, NEW n \in DOMAIN s.subs,
           NEW g, g = Frame(kind, s, n),
           Owns(g), Run(g), UNCHANGED <<body, errors, jump, outcome>>
    PROVE  FlowInv'
<1>1. PICK e : e = Top
  OBVIOUS
<1>2. /\ StackInv(frames, NoJump, body) /\ e = frames[Len(frames)] /\ e.at <= Len(e.stmts)
      /\ CurrentStatement = e.stmts[e.at] /\ MaxNesting \in Nat /\ outcome = "running"
      /\ NoJump \in Jumps /\ CurrentStatement \in Statements
  BY <1>1, RunningFacts
<1>3. CurrentStatement \in Nodes /\ Shaped(CurrentStatement)
  BY <1>2, StatementFacts
<1>4. FrameOK(g) /\ g.kind = kind /\ g.of = CurrentStatement /\ g.at = 1
  <2>1. kind \in Kinds
    BY DEF Kinds
  <2> QED
    BY <1>3, <2>1, NewFrame
<1>5. g \in Frames
  BY <1>4 DEF FrameOK
<1>6. FrameOK(Passed) /\ SameList(e, Passed) /\ Passed.at = e.at + 1
      /\ Pushed(frames, frames', Passed, g)
  BY <1>1, <1>5, PassedFacts DEF Run
<1>7. StackInv(frames', NoJump, body)
  BY <1>2, <1>4, <1>6, EnterStep
<1> QED
  BY <1>2, <1>7, Settled

\* The fields of a list that starts.
LEMMA FrameFields ==
    ASSUME NEW kind, NEW s, NEW n
    PROVE  Frame(kind, s, n).kind = kind /\ Frame(kind, s, n).of = s /\ Frame(kind, s, n).n = n
BY DEF Frame

\* The steps at a statement: a plain step, and what enters or skips a list.
LEMMA StatementSteps ==
    ASSUME ControlFlowParameters, FlowInv,
           RunStep \/ EnterBlock \/ Branch \/ EnterLoop \/ SkipLoop \/ CallNested
    PROVE  FlowInv'
<1>0. PICK s : s = CurrentStatement
  OBVIOUS
<1>1. Running /\ jump = NoJump /\ ~AtEnd /\ UNCHANGED <<body, errors, jump, outcome>>
  BY <1>0 DEF RunStep, EnterBlock, Branch, Take, EnterLoop, SkipLoop, CallNested, Step
<1>2. s \in Statements /\ MaxNesting \in Nat
  BY <1>0, <1>1, RunningFacts
<1>3. Shaped(s) /\ s.subs \in Seq(Seq(Statements))
  BY <1>2, StatementFacts
<1>4. CASE RunStep \/ SkipLoop
  <2>1. GoesOn(s) /\ Pass
    BY <1>0, <1>4 DEF RunStep, SkipLoop, Step, GoesOn
  <2> QED
    BY <1>0, <1>1, <2>1, PassInv
<1>5. CASE EnterBlock
  <2>1. s.op = "block" /\ Run(Frame("block", s, 1))
    BY <1>0, <1>5 DEF EnterBlock, Step
  <2>2. PICK g : g = Frame("block", s, 1)
    OBVIOUS
  <2>3. 1 \in DOMAIN s.subs
    BY <1>3, <2>1 DEF Shaped
  <2>4. Owns(g)
    BY <2>1, <2>2, FrameFields DEF Owns
  <2> QED
    BY <1>0, <1>1, <2>1, <2>2, <2>3, <2>4, RunInv
<1>6. CASE Branch
  <2>1. PICK n \in {1, 2} : Take(n)
    BY <1>6 DEF Branch
  <2>2. s.op = "if" /\ (IF n \in DOMAIN s.subs THEN Run(Frame("block", s, n)) ELSE Pass)
    BY <1>0, <2>1 DEF Take, Step
  <2>3. CASE n \in DOMAIN s.subs
    <3>1. PICK g : g = Frame("block", s, n)
      OBVIOUS
    <3>2. Owns(g) /\ Run(g)
      BY <2>2, <2>3, <3>1, FrameFields DEF Owns
    <3> QED
      BY <1>0, <1>1, <2>3, <3>1, <3>2, RunInv
  <2>4. CASE n \notin DOMAIN s.subs
    <3>1. GoesOn(s) /\ Pass
      BY <1>3, <2>2, <2>4 DEF GoesOn
    <3> QED
      BY <1>0, <1>1, <3>1, PassInv
  <2> QED
    BY <2>3, <2>4
<1>7. CASE EnterLoop
  <2>1. s.op \in {"while", "for"} /\ Run(Frame("loop", s, 1))
    BY <1>0, <1>7 DEF EnterLoop, Step
  <2>2. PICK g : g = Frame("loop", s, 1)
    OBVIOUS
  <2>3. 1 \in DOMAIN s.subs
    BY <1>3, <2>1 DEF Shaped
  <2>4. Owns(g)
    BY <2>1, <2>2, FrameFields DEF Owns
  <2> QED
    BY <1>0, <1>1, <2>1, <2>2, <2>3, <2>4, RunInv
<1>8. CASE CallNested
  <2>1. s.op = "function" /\ Run(Frame("function", s, 1))
    BY <1>0, <1>8 DEF CallNested, Step
  <2>2. PICK g : g = Frame("function", s, 1)
    OBVIOUS
  <2>3. 1 \in DOMAIN s.subs
    BY <1>3, <2>1 DEF Shaped
  <2>4. Owns(g)
    BY <2>1, <2>2, FrameFields DEF Owns
  <2> QED
    BY <1>0, <1>1, <2>1, <2>2, <2>3, <2>4, RunInv
<1> QED
  BY <1>4, <1>5, <1>6, <1>7, <1>8

\* A match runs the first case with a pattern for the value, which is there when
\* the validator takes the match for exhaustive.
LEMMA SelectInv ==
    ASSUME ControlFlowParameters, FlowInv, SelectCase
    PROVE  FlowInv'
<1>0. PICK s : s = CurrentStatement
  OBVIOUS
<1>1. PICK v \in Values[s.type] : Select(v)
  BY <1>0 DEF SelectCase
<1>2. Running /\ jump = NoJump /\ ~AtEnd /\ s.op = "match" /\ UNCHANGED <<body, errors, jump, outcome>>
  BY <1>0, <1>1 DEF Select, Step
<1>3. s \in Statements /\ MaxNesting \in Nat
  BY <1>0, <1>2, RunningFacts
<1>4. Shaped(s) /\ s.subs \in Seq(Seq(Statements)) /\ s.cases \in Seq(SUBSET Patterns)
  BY <1>3, StatementFacts DEF Nodes
<1>5. PICK taken : taken = {n \in DOMAIN s.cases : {v, Wild} \cap s.cases[n] # {}}
  OBVIOUS
<1>6. IF taken # {}
      THEN Run(Frame("case", s, CHOOSE n \in taken : \A m \in taken : n <= m))
      ELSE IF HasElse(s) THEN Run(Frame("block", s, Len(s.subs))) ELSE Pass
  BY <1>0, <1>1, <1>5 DEF Select
<1>7. Len(s.subs) \in Nat /\ Len(s.cases) \in Nat /\ Len(s.subs) >= Len(s.cases)
      /\ DOMAIN s.subs = 1..Len(s.subs) /\ DOMAIN s.cases = 1..Len(s.cases)
  BY <1>2, <1>4 DEF Shaped
<1>8. CASE taken # {}
  <2>1. taken \in SUBSET Nat
    BY <1>5, <1>7
  <2>2. PICK n : n = CHOOSE k \in taken : \A m \in taken : k <= m
    OBVIOUS
  <2>3. n \in taken
    BY <1>8, <2>1, <2>2, Least
  <2>4. n \in DOMAIN s.subs /\ n <= Len(s.cases)
    BY <1>5, <1>7, <2>3
  <2>5. PICK g : g = Frame("case", s, n)
    OBVIOUS
  <2>6. Owns(g)
    BY <1>2, <2>4, <2>5, FrameFields DEF Owns
  <2>7. Run(g)
    BY <1>6, <1>8, <2>2, <2>5
  <2> QED
    BY <1>0, <1>2, <2>4, <2>5, <2>6, <2>7, RunInv
<1>9. CASE taken = {} /\ HasElse(s)
  <2>1. Len(s.subs) > Len(s.cases) /\ Len(s.subs) \in DOMAIN s.subs
    BY <1>7, <1>9 DEF HasElse
  <2>2. PICK n : n = Len(s.subs)
    OBVIOUS
  <2>3. PICK g : g = Frame("block", s, n)
    OBVIOUS
  <2>4. Owns(g) /\ Run(g)
    BY <1>2, <1>6, <1>9, <2>1, <2>2, <2>3, FrameFields DEF Owns
  <2> QED
    BY <1>0, <1>2, <2>1, <2>2, <2>3, <2>4, RunInv
<1>10. CASE taken = {} /\ ~HasElse(s)
  <2>1. \A p \in Range(s.cases) : v \notin p /\ Wild \notin p
    BY <1>5, <1>10 DEF Range
  <2>2. ~Exhaustive(s)
    <3>1. ~(Values[s.type] \subseteq UNION Range(s.cases))
      BY <1>1, <2>1
    <3> QED
      BY <1>10, <2>1, <3>1 DEF Exhaustive
  <2>3. GoesOn(s) /\ Pass
    BY <1>2, <1>6, <1>10, <2>2 DEF GoesOn
  <2> QED
    BY <1>0, <1>2, <2>3, PassInv
<1> QED
  BY <1>8, <1>9, <1>10

\* A deferred statement is kept for later.
LEMMA DeferInv ==
    ASSUME ControlFlowParameters, FlowInv, Defer
    PROVE  FlowInv'
<1>1. /\ Running /\ jump = NoJump /\ ~AtEnd /\ CurrentStatement.op = "defer"
      /\ UNCHANGED <<body, errors, jump, outcome>>
      /\ frames' = Append(Below, [Passed EXCEPT !.defers = <<CurrentStatement>> \o @])
  BY DEF Defer, Step
<1>2. PICK e : e = Top
  OBVIOUS
<1>3. PICK s : s = CurrentStatement
  OBVIOUS
<1>4. /\ StackInv(frames, NoJump, body) /\ e = frames[Len(frames)] /\ e.at <= Len(e.stmts)
      /\ s = e.stmts[e.at] /\ MaxNesting \in Nat /\ outcome = "running"
      /\ NoJump \in Jumps /\ s \in Statements /\ s \in Range(e.stmts) /\ s.op = "defer"
      /\ FrameOK(e) /\ frames \in Seq(Frames) /\ frames # <<>>
      /\ Below = SubSeq(frames, 1, Len(frames) - 1)
  BY <1>1, <1>2, <1>3, RunningFacts
<1>5. e.at \in Nat /\ Len(e.stmts) \in Nat /\ e.at + 1 \in 1..(Len(e.stmts) + 1)
  BY <1>4, FrameFacts
<1>6. /\ e.defers \in Seq(Statements)
      /\ \A d \in Range(e.defers) : d \in Range(e.stmts) /\ d.op = "defer"
      /\ e = [kind |-> e.kind, of |-> e.of, n |-> e.n, stmts |-> e.stmts, at |-> e.at,
              defers |-> e.defers, saved |-> e.saved]
  BY <1>4 DEF FrameOK, Frames
<1>7. PICK ds : ds = <<s>> \o e.defers
  OBVIOUS
<1>8. <<s>> \in Seq(Statements) /\ Len(<<s>>) = 1 /\ <<s>>[1] = s
  BY <1>4
<1>9. /\ ds \in Seq(Statements) /\ Len(ds) = 1 + Len(e.defers)
      /\ \A i \in 1..(1 + Len(e.defers)) : ds[i] = IF i <= 1 THEN <<s>>[i] ELSE e.defers[i - 1]
  BY <1>6, <1>7, <1>8, ConcatProperties
<1>10. ASSUME NEW d \in Range(ds) PROVE d \in Range(e.stmts) /\ d.op = "defer"
  <2>1. PICK i \in DOMAIN ds : d = ds[i]
    BY DEF Range
  <2>2. i \in 1..(1 + Len(e.defers)) /\ Len(e.defers) \in Nat
    BY <1>6, <1>9, <2>1
  <2>3. CASE i = 1
    BY <1>4, <1>8, <1>9, <2>1, <2>2, <2>3
  <2>4. CASE i # 1
    <3>1. i - 1 \in DOMAIN e.defers /\ d = e.defers[i - 1]
      BY <1>6, <1>9, <2>1, <2>2, <2>4
    <3> QED
      BY <1>6, <3>1 DEF Range
  <2> QED
    BY <2>3, <2>4
<1>11. PICK f : f = [kind |-> e.kind, of |-> e.of, n |-> e.n, stmts |-> e.stmts, at |-> e.at + 1,
                      defers |-> ds, saved |-> e.saved]
  OBVIOUS
<1>12. FrameOK(f) /\ SameList(e, f) /\ f.at = e.at + 1 /\ f \in Frames
  <2>1. PICK at : at = e.at + 1
    OBVIOUS
  <2>2. FrameOK(e) /\ at \in 1..(Len(e.stmts) + 1) /\ ds \in Seq(Statements)
    BY <1>4, <1>5, <1>9, <2>1
  <2>3. \A d \in Range(ds) : d \in Range(e.stmts) /\ d.op = "defer"
    BY <1>10
  <2>4. f = [kind |-> e.kind, of |-> e.of, n |-> e.n, stmts |-> e.stmts, at |-> at,
             defers |-> ds, saved |-> e.saved]
    BY <1>11, <2>1
  <2>5. FrameOK(f) /\ SameList(e, f) /\ f.at = at /\ f \in Frames
    BY <2>2, <2>3, <2>4, NextFrame
  <2> QED
    BY <2>1, <2>5
<1>13. [Passed EXCEPT !.defers = <<CurrentStatement>> \o @] = f
  <2>1. PICK q : q = [e EXCEPT !.at = e.at + 1]
    OBVIOUS
  <2>2. q = [kind |-> e.kind, of |-> e.of, n |-> e.n, stmts |-> e.stmts, at |-> e.at + 1,
             defers |-> e.defers, saved |-> e.saved]
    BY <1>6, <2>1
  <2>3. Passed = q
    BY <1>2, <2>1 DEF Passed
  <2>4. <<CurrentStatement>> \o q.defers = ds
    BY <1>3, <1>7, <2>2
  <2>5. [q EXCEPT !.defers = ds] = f
    BY <1>11, <2>2
  <2> QED
    BY <2>3, <2>4, <2>5
<1>14. Replaced(frames, frames', f)
  BY <1>1, <1>4, <1>12, <1>13, StackOps
<1>15. GoesOn(s)
  BY <1>4 DEF GoesOn
<1>16. StackInv(frames', NoJump, body)
  BY <1>4, <1>12, <1>14, <1>15, PassStep
<1> QED
  BY <1>1, <1>4, <1>16, Settled

\* A jump starts.
LEMMA JumpInv ==
    ASSUME ControlFlowParameters, FlowInv, Jump
    PROVE  FlowInv'
<1>1. PICK s : s = CurrentStatement
  OBVIOUS
<1>2. PICK j : j = [op |-> s.op, label |-> s.label]
  OBVIOUS
<1>3. /\ Running /\ jump = NoJump /\ ~AtEnd /\ s.op \in {"ret", "break", "continue", "fall"}
      /\ UNCHANGED <<body, errors, outcome>> /\ jump' = j /\ Pass
  BY <1>1, <1>2 DEF Jump, Step
<1>4. PICK e : e = Top
  OBVIOUS
<1>5. /\ StackInv(frames, NoJump, body) /\ e = frames[Len(frames)] /\ e.at <= Len(e.stmts)
      /\ s = e.stmts[e.at] /\ MaxNesting \in Nat /\ outcome = "running" /\ s \in Statements
      /\ Validate(body) \subseteq {"unreachable_code"}
  BY <1>1, <1>3, <1>4, RunningFacts
<1>6. FrameOK(Passed) /\ SameList(e, Passed) /\ Passed.at = e.at + 1
      /\ Replaced(frames, frames', Passed)
  BY <1>3, <1>4, PassedFacts DEF Pass
<1>7. StackInv(frames', j, body)
  BY <1>2, <1>3, <1>5, <1>6, JumpStep
<1>8. s.label \in Labels
  BY <1>5, StatementFacts DEF Nodes
<1>9. j \in Jumps /\ j.op # "none"
  BY <1>2, <1>3, <1>8 DEF Jumps
<1> QED
  BY <1>3, <1>5, <1>7, <1>9, Settled

\* What was deferred last runs first, and keeps the jump.
LEMMA DeferredInv ==
    ASSUME ControlFlowParameters, FlowInv, RunDeferred
    PROVE  FlowInv'
<1>1. PICK e : e = Top
  OBVIOUS
<1>2. PICK s : s = Head(e.defers)
  OBVIOUS
<1>3. PICK h : h = Frame("defer", s, 1)
  OBVIOUS
<1>4. PICK g : g = [h EXCEPT !.saved = jump]
  OBVIOUS
<1>5. PICK q : q = [e EXCEPT !.defers = Tail(e.defers)]
  OBVIOUS
<1>6. /\ Running /\ e.defers # <<>> /\ UNCHANGED <<body, errors, outcome>> /\ jump' = NoJump
      /\ frames' = Below \o <<q, g>>
  BY <1>1, <1>2, <1>3, <1>4, <1>5 DEF RunDeferred
<1>7. /\ StackInv(frames, jump, body) /\ e = frames[Len(frames)] /\ MaxNesting \in Nat
      /\ outcome = "running" /\ NoJump \in Jumps /\ FrameOK(e) /\ jump \in Jumps
      /\ (jump.op = "none" => jump = NoJump) /\ frames \in Seq(Frames) /\ frames # <<>>
      /\ Below = SubSeq(frames, 1, Len(frames) - 1)
  BY <1>1, <1>6, RunningFacts
<1>8. /\ e.defers \in Seq(Statements) /\ e.stmts \in Seq(Statements) /\ e.at \in 1..(Len(e.stmts) + 1)
      /\ \A d \in Range(e.defers) : d \in Range(e.stmts) /\ d.op = "defer"
      /\ e = [kind |-> e.kind, of |-> e.of, n |-> e.n, stmts |-> e.stmts, at |-> e.at,
              defers |-> e.defers, saved |-> e.saved]
  BY <1>7 DEF FrameOK, Frames
<1>9. PICK ds : ds = Tail(e.defers)
  OBVIOUS
<1>10. /\ ds \in Seq(Statements) /\ \A d \in Range(ds) : d \in Range(e.defers)
       /\ s \in Range(e.defers)
  <2>1. Len(e.defers) \in Nat /\ Len(e.defers) > 0 /\ s = e.defers[1] /\ 1 \in DOMAIN e.defers
    BY <1>2, <1>6, <1>8
  <2>2. ds \in Seq(Statements) /\ Len(ds) = Len(e.defers) - 1
        /\ \A i \in 1..Len(ds) : ds[i] = e.defers[i + 1]
    BY <1>6, <1>8, <1>9, HeadTailProperties
  <2>3. ASSUME NEW d \in Range(ds) PROVE d \in Range(e.defers)
    <3>1. PICK i \in DOMAIN ds : d = ds[i]
      BY DEF Range
    <3>2. d = e.defers[i + 1] /\ i + 1 \in DOMAIN e.defers
      BY <1>8, <2>1, <2>2, <3>1
    <3> QED
      BY <3>2 DEF Range
  <2> QED
    BY <2>1, <2>2, <2>3 DEF Range
<1>11. \A d \in Range(ds) : d \in Range(e.stmts) /\ d.op = "defer"
  BY <1>8, <1>10
<1>12. PICK f : f = [kind |-> e.kind, of |-> e.of, n |-> e.n, stmts |-> e.stmts, at |-> e.at,
                     defers |-> ds, saved |-> e.saved]
  OBVIOUS
<1>13. FrameOK(f) /\ SameList(e, f) /\ f.at = e.at /\ f \in Frames
  BY <1>7, <1>8, <1>10, <1>11, <1>12, NextFrame
<1>14. q = f
  <2>1. e = [kind |-> e.kind, of |-> e.of, n |-> e.n, stmts |-> e.stmts, at |-> e.at,
             defers |-> e.defers, saved |-> e.saved]
    BY <1>8
  <2>2. q = [e EXCEPT !.defers = ds]
    BY <1>5, <1>9
  <2> QED
    BY <1>12, <2>1, <2>2
<1>15. s \in Range(e.stmts) /\ s.op = "defer" /\ s \in Statements
  BY <1>8, <1>10 DEF Range
<1>16. s \in Nodes /\ Shaped(s) /\ s.subs \in Seq(Seq(Statements))
  BY <1>7, <1>15, StatementFacts
<1>17. 1 \in DOMAIN s.subs /\ "defer" \in Kinds
  BY <1>15, <1>16 DEF Shaped, Kinds
<1>18. Owns(h)
  BY <1>3, <1>15, FrameFields DEF Owns
<1>19. FrameOK(h) /\ h.kind = "defer" /\ h.of = s /\ h.at = 1
  BY <1>3, <1>16, <1>17, <1>18, NewFrame
<1>20. FrameOK(g) /\ g \in Frames /\ g.kind = "defer" /\ g.of = s /\ g.at = 1 /\ g.saved = jump
  <2>1. /\ h = [kind |-> h.kind, of |-> h.of, n |-> h.n, stmts |-> h.stmts, at |-> h.at,
                defers |-> h.defers, saved |-> h.saved]
        /\ h.kind \in Kinds /\ h.of \in Nodes /\ h.n \in Nat /\ h.stmts \in Seq(Statements)
        /\ h.at \in Nat /\ h.defers \in Seq(Statements)
    BY <1>19 DEF FrameOK, Frames
  <2>2. g = [kind |-> h.kind, of |-> h.of, n |-> h.n, stmts |-> h.stmts, at |-> h.at,
             defers |-> h.defers, saved |-> jump]
    BY <1>4, <2>1
  <2>3. g \in Frames
    BY <1>7, <2>1, <2>2 DEF Frames
  <2>4. Owns(g)
    BY <1>18, <2>2 DEF Owns
  <2> QED
    BY <1>7, <1>19, <2>2, <2>3, <2>4 DEF FrameOK
<1>21. Pushed(frames, frames', f, g)
  BY <1>6, <1>7, <1>13, <1>14, <1>20, StackOps
<1>22. StackInv(frames', NoJump, body)
  BY <1>7, <1>13, <1>15, <1>20, <1>21, DeferredStep
<1> QED
  BY <1>6, <1>7, <1>22, Settled

\* A loop starts again.
LEMMA AgainInv ==
    ASSUME ControlFlowParameters, FlowInv, Again
    PROVE  FlowInv'
<1>1. PICK e : e = Top
  OBVIOUS
<1>2. PICK q : q = [e EXCEPT !.at = 1]
  OBVIOUS
<1>3. /\ Running /\ jump = NoJump /\ e.kind = "loop" /\ frames' = Append(Below, q)
      /\ UNCHANGED <<body, errors, jump, outcome>>
  BY <1>1, <1>2 DEF Again, Done
<1>4. /\ StackInv(frames, jump, body) /\ e = frames[Len(frames)] /\ MaxNesting \in Nat
      /\ outcome = "running" /\ NoJump \in Jumps /\ FrameOK(e)
      /\ frames \in Seq(Frames) /\ frames # <<>>
      /\ Below = SubSeq(frames, 1, Len(frames) - 1)
  BY <1>1, <1>3, RunningFacts
<1>5. /\ e.defers \in Seq(Statements) /\ e.stmts \in Seq(Statements)
      /\ \A d \in Range(e.defers) : d \in Range(e.stmts) /\ d.op = "defer"
      /\ e = [kind |-> e.kind, of |-> e.of, n |-> e.n, stmts |-> e.stmts, at |-> e.at,
              defers |-> e.defers, saved |-> e.saved]
  BY <1>4 DEF FrameOK, Frames
<1>6. PICK at : at = 1
  OBVIOUS
<1>7. at \in 1..(Len(e.stmts) + 1) /\
      q = [kind |-> e.kind, of |-> e.of, n |-> e.n, stmts |-> e.stmts, at |-> at,
           defers |-> e.defers, saved |-> e.saved]
  BY <1>2, <1>5, <1>6
<1>8. FrameOK(q) /\ SameList(e, q) /\ q.at = 1 /\ q \in Frames
  <2>1. PICK ds : ds = e.defers
    OBVIOUS
  <2>2. /\ FrameOK(e) /\ at \in 1..(Len(e.stmts) + 1) /\ ds \in Seq(Statements)
        /\ q = [kind |-> e.kind, of |-> e.of, n |-> e.n, stmts |-> e.stmts, at |-> at,
                defers |-> ds, saved |-> e.saved]
    BY <1>4, <1>5, <1>7, <2>1
  <2>3. \A d \in Range(ds) : d \in Range(e.stmts) /\ d.op = "defer"
    BY <1>5, <2>1
  <2>4. FrameOK(q) /\ SameList(e, q) /\ q.at = at /\ q \in Frames
    BY <2>2, <2>3, NextFrame
  <2> QED
    BY <1>6, <2>4
<1>9. Replaced(frames, frames', q)
  BY <1>3, <1>4, <1>8, StackOps
<1>10. StackInv(frames', NoJump, body)
  BY <1>3, <1>4, <1>8, <1>9, LoopStep
<1> QED
  BY <1>3, <1>4, <1>10, Settled

\* A list ends: never that of a function, which would return nothing.
LEMMA FinishInv ==
    ASSUME ControlFlowParameters, FlowInv, Finish
    PROVE  FlowInv'
<1>1. PICK e : e = Top
  OBVIOUS
<1>2. /\ Running /\ AtEnd /\ jump = NoJump /\ (e.kind = "loop" => e.of.op = "for")
      /\ UNCHANGED <<body, errors>>
      /\ e.kind # "function" => frames' = Below /\ jump' = e.saved /\ UNCHANGED outcome
  BY <1>1 DEF Finish, Done
<1>3. /\ StackInv(frames, NoJump, body) /\ e = frames[Len(frames)] /\ MaxNesting \in Nat
      /\ outcome = "running" /\ FrameOK(e) /\ e.at = Len(e.stmts) + 1
      /\ frames \in Seq(Frames) /\ frames # <<>> /\ StackOK(frames, body) /\ Len(frames) \in Nat
      /\ Below = SubSeq(frames, 1, Len(frames) - 1) /\ Validate(body) \subseteq {"unreachable_code"}
  BY <1>1, <1>2, RunningFacts
<1>4. e.saved \in Jumps /\ (e.saved.op = "none" => e.saved = NoJump) /\ e \in Frames
  BY <1>3, FrameFacts DEF FrameOK
<1>5. e.kind # "function"
  <2> SUFFICES ASSUME e.kind = "function" PROVE FALSE
    OBVIOUS
  <2>1. Len(frames) \in 1..Len(frames) /\ Len(frames) > 0
    BY <1>3
  <2>2. Returns(e.stmts)
    <3>1. e.stmts \in FunctionBodies(body)
      BY <1>3, <2>1, FunctionFound
    <3> QED
      BY <1>3, <3>1, CleanFunctions DEF Clean
  <2>3. Pending(frames, NoJump, Len(frames)) = NoJump /\ ~Inside(frames, Len(frames))
    BY <1>3 DEF Pending, Inside
  <2> QED
    BY <1>3, <2>1, <2>2, <2>3 DEF StackInv, NoFallingOff
<1>6. Popped(frames, frames')
  BY <1>2, <1>3, <1>5, PopOps
<1>7. StackInv(frames', e.saved, body)
  BY <1>2, <1>3, <1>5, <1>6, FinishStep
<1> QED
  BY <1>2, <1>3, <1>4, <1>5, <1>7, Settled

\* A jump on its way is caught, or leaves a list.
LEMMA UnwindInv ==
    ASSUME ControlFlowParameters, FlowInv, Unwind
    PROVE  FlowInv'
<1>1. PICK e : e = Top
  OBVIOUS
<1>2. Running /\ jump # NoJump /\ UNCHANGED <<body, errors>>
  BY DEF Unwind
<1>3. /\ StackInv(frames, jump, body) /\ e = frames[Len(frames)] /\ MaxNesting \in Nat
      /\ outcome = "running" /\ FrameOK(e) /\ e \in Frames /\ NoJump \in Jumps
      /\ jump \in Jumps /\ jump.op # "none"
      /\ frames \in Seq(Frames) /\ frames # <<>> /\ StackOK(frames, body) /\ Len(frames) \in Nat
      /\ Below = SubSeq(frames, 1, Len(frames) - 1)
  BY <1>1, <1>2, RunningFacts
<1>4. /\ Catches => \/ e.kind = "function" /\ jump.op = "ret"
                    \/ jump.op \in {"break", "continue"} /\ Target(e, jump)
                    \/ jump.op = "fall" /\ e.kind = "case" /\ e.n < Len(e.of.cases)
      /\ ~Catches => /\ ~(e.kind = "function" /\ jump.op = "ret")
                     /\ ~(jump.op \in {"break", "continue"} /\ Target(e, jump))
                     /\ ~(jump.op = "fall" /\ e.kind = "case" /\ e.n < Len(e.of.cases))
  BY <1>1 DEF Catches, Target
<1>5. Popped(frames, Below) /\ (Below = <<>> => Len(frames) = 1)
      /\ (Len(frames) = 1 => Below = <<>>)
  <2>1. frames \in Seq(Frames) /\ frames # <<>> /\ Below = SubSeq(frames, 1, Len(frames) - 1)
    BY <1>3
  <2> QED
    BY <2>1, PopOps
<1>6. CASE ~Catches
  <2>1. e.kind \notin {"function", "defer"} /\ jump.op # "fall" /\ StackInv(Below, jump, body)
    BY <1>3, <1>4, <1>5, <1>6, UncaughtStep
  <2>2. frames' = Below /\ UNCHANGED <<jump, outcome>>
    BY <1>1, <1>6, <2>1 DEF Unwind
  <2> QED
    BY <1>2, <1>3, <2>1, <2>2, Settled
<1>7. ASSUME Catches
      PROVE  jump' = NoJump /\ outcome' = (IF Below = <<>> THEN "returned" ELSE outcome)
  BY <1>7 DEF Unwind
<1>8. ASSUME e.kind # "function" PROVE Below # <<>>
  BY <1>3, <1>5, <1>8 DEF StackOK
<1>9. CASE Catches /\ jump.op = "continue"
  <2>1. PICK q : q = [e EXCEPT !.at = Len(e.stmts) + 1]
    OBVIOUS
  <2>2. frames' = Append(Below, q)
    BY <1>1, <1>9, <2>1 DEF Unwind
  <2>3. e.kind = "loop"
    BY <1>4, <1>9 DEF Target
  <2>4. /\ e.defers \in Seq(Statements) /\ e.stmts \in Seq(Statements)
        /\ \A d \in Range(e.defers) : d \in Range(e.stmts) /\ d.op = "defer"
        /\ e = [kind |-> e.kind, of |-> e.of, n |-> e.n, stmts |-> e.stmts, at |-> e.at,
                defers |-> e.defers, saved |-> e.saved]
    BY <1>3 DEF FrameOK, Frames
  <2>5. PICK at : at = Len(e.stmts) + 1
    OBVIOUS
  <2>6. at \in 1..(Len(e.stmts) + 1)
    BY <2>4, <2>5
  <2>7. q = [kind |-> e.kind, of |-> e.of, n |-> e.n, stmts |-> e.stmts, at |-> at,
             defers |-> e.defers, saved |-> e.saved]
    BY <2>1, <2>4, <2>5
  <2>8. FrameOK(q) /\ SameList(e, q) /\ q.at = at /\ q \in Frames
    BY <1>3, <2>4, <2>6, <2>7, NextFrame
  <2>9. Replaced(frames, frames', q)
    BY <1>3, <2>2, <2>8, StackOps
  <2>10. q.at = Len(q.stmts) + 1
    BY <2>5, <2>8 DEF SameList
  <2>11. StackInv(frames', NoJump, body)
    BY <1>3, <2>3, <2>8, <2>9, <2>10, LoopStep
  <2> QED
    BY <1>2, <1>3, <1>7, <1>8, <1>9, <2>3, <2>11, Settled
<1>10. CASE Catches /\ jump.op = "fall"
  <2>1. PICK n : n = e.n + 1
    OBVIOUS
  <2>2. PICK g : g = Frame("case", e.of, n)
    OBVIOUS
  <2>3. frames' = Append(Below, g)
    BY <1>1, <1>10, <2>1, <2>2 DEF Unwind
  <2>4. e.kind = "case" /\ e.n < Len(e.of.cases)
    BY <1>4, <1>10
  <2>5. e.of \in Nodes /\ Shaped(e.of) /\ e.n \in Nat /\ e.of.op = "match" /\ Len(e.of.cases) \in Nat
    BY <1>3, <2>4, FrameFacts
  <2>6. n \in DOMAIN e.of.subs /\ n <= Len(e.of.cases)
    <3>1. e.of.subs \in Seq(Seq(Statements))
      BY <2>5 DEF Nodes
    <3>2. Len(e.of.subs) \in Nat /\ Len(e.of.subs) >= Len(e.of.cases)
          /\ DOMAIN e.of.subs = 1..Len(e.of.subs)
      BY <2>5, <3>1 DEF Shaped
    <3> QED
      BY <2>1, <2>4, <2>5, <3>2
  <2>7. Owns(g)
    BY <2>2, <2>5, <2>6, FrameFields DEF Owns
  <2>8. FrameOK(g) /\ g.kind = "case" /\ g.of = e.of /\ g.at = 1
    <3>1. "case" \in Kinds
      BY DEF Kinds
    <3> QED
      BY <2>2, <2>5, <2>6, <2>7, <3>1, NewFrame
  <2>9. g \in Frames
    BY <2>8 DEF FrameOK
  <2>10. Replaced(frames, frames', g)
    BY <1>3, <2>3, <2>9, StackOps
  <2>11. StackInv(frames', NoJump, body)
    BY <1>3, <2>4, <2>8, <2>10, FallStep
  <2> QED
    BY <1>2, <1>3, <1>7, <1>8, <1>10, <2>4, <2>11, Settled
<1>11. CASE Catches /\ jump.op \notin {"continue", "fall"}
  <2>1. frames' = Below
    BY <1>11 DEF Unwind
  <2>2. e.kind = "function" \/ (jump.op = "break" /\ Target(e, jump))
    BY <1>4, <1>11
  <2>3. CASE Below = <<>>
    BY <1>2, <1>3, <1>7, <1>11, <2>3 DEF FlowInv
  <2>4. CASE Below # <<>>
    <3>1. StackInv(frames', NoJump, body)
      BY <1>3, <1>5, <2>1, <2>2, <2>4, CaughtStep
    <3> QED
      BY <1>2, <1>3, <1>7, <1>11, <2>4, <3>1, Settled
  <2> QED
    BY <2>3, <2>4
<1> QED
  BY <1>6, <1>9, <1>10, <1>11

-----------------------------------------------------------------------------
(* The theorems                                                            *)

\* A call starts at the beginning of the function, with nothing on its way.
LEMMA InitInv ==
    ASSUME ControlFlowParameters, FlowInit
    PROVE  FlowInv
<1>1. body \in Seq(Statements) /\ MaxNesting \in Nat /\ body \in Bodies
  BY DEF FlowInit, ControlFlowParameters
<1>2. PICK s : s = Nest("function", NoLabel, <<body>>)
  OBVIOUS
<1>3. s = [op |-> "function", label |-> NoLabel, subs |-> <<body>>, type |-> "", cases |-> <<>>]
  BY <1>2 DEF Nest, Simple
<1>4. PICK subs : subs = <<body>>
  OBVIOUS
<1>5. subs \in Seq(Seq(Statements)) /\ Len(subs) = 1 /\ subs[1] = body /\ 1 \in DOMAIN subs
  BY <1>1, <1>4
<1>6. s.op = "function" /\ s.label = NoLabel /\ s.subs = subs /\ s.type = "" /\ s.cases = <<>>
  BY <1>3, <1>4
<1>7. s \in Nodes
  <2>1. "function" \in Ops /\ NoLabel \in Labels /\ "" \in Types /\ <<>> \in Seq(SUBSET Patterns)
    BY DEF Ops, Types, ControlFlowParameters
  <2> QED
    BY <1>3, <1>4, <1>5, <2>1 DEF Nodes
<1>8. Shaped(s)
  BY <1>5, <1>6 DEF Shaped
<1>9. PICK f : f = Frame("function", s, 1)
  OBVIOUS
<1>10. FrameOK(f) /\ f.kind = "function" /\ f.of = s /\ f.n = 1 /\ f.at = 1 /\ f.saved = NoJump
  <2>1. Owns(f)
    <3>1. f.kind = "function" /\ f.of = s
      BY <1>9, FrameFields
    <3>2. f.of.op = "function"
      BY <1>6, <3>1
    <3> QED
      BY <3>1, <3>2 DEF Owns
  <2>2. "function" \in Kinds /\ 1 \in DOMAIN s.subs
    BY <1>5, <1>6 DEF Kinds
  <2> QED
    BY <1>7, <1>8, <1>9, <2>1, <2>2, NewFrame
<1>11. f.stmts = body
  BY <1>5, <1>6, <1>10 DEF FrameOK
<1>12. frames = <<f>> /\ jump = NoJump /\ errors = Validate(body)
       /\ outcome = IF errors \subseteq {"unreachable_code"} THEN "running" ELSE "rejected"
  BY <1>2, <1>9 DEF FlowInit, FunctionFrame
<1>13. PICK fs : fs = frames
  OBVIOUS
<1>14. fs \in Seq(Frames) /\ fs # <<>> /\ Len(fs) = 1 /\ fs[1] = f
  <2>1. f \in Frames
    BY <1>10 DEF FrameOK
  <2> QED
    BY <1>12, <1>13, <2>1
<1>15. 1..Len(fs) = {1} /\ 2..Len(fs) = {}
  BY <1>14
<1>16. StackOK(fs, body)
  BY <1>10, <1>11, <1>14, <1>15 DEF StackOK
<1>17. JumpsArrive(fs, NoJump)
  BY <1>15, NoJumpArrives DEF JumpsArrive
<1>18. NoFallingOff(fs, NoJump)
  <2>1. Len(f.stmts) # 0 \/ ~Returns(f.stmts)
    BY <1>1, <1>11 DEF Returns
  <2>2. Len(f.stmts) \in Nat
    BY <1>1, <1>11
  <2> QED
    BY <1>10, <1>14, <1>15, <2>1, <2>2 DEF NoFallingOff
<1>19. NoneLeft(fs, NoJump)
  <2>1. Behind(fs, NoJump, 1) \in {0, 0 - 1}
    BY <1>10, <1>14 DEF Behind
  <2>2. 1..Behind(fs, NoJump, 1) = {}
    BY <2>1
  <2> QED
    BY <1>15, <2>2 DEF NoneLeft
<1>20. jump \in Jumps
  BY <1>12 DEF Jumps, NoJump, ControlFlowParameters
<1>21. StackInv(frames, jump, body)
  BY <1>12, <1>13, <1>16, <1>17, <1>18, <1>19 DEF StackInv
<1> QED
  BY <1>1, <1>12, <1>20, <1>21 DEF FlowInv

\* The invariant holds in every execution.
LEMMA FlowInvariant ==
    ASSUME ControlFlowParameters
    PROVE  FlowSpec => []FlowInv
<1>1. FlowInit => FlowInv
  BY InitInv
<1>2. FlowInv /\ [FlowNext]_flowVars => FlowInv'
  <2> SUFFICES ASSUME FlowInv, [FlowNext]_flowVars PROVE FlowInv'
    OBVIOUS
  <2>1. CASE UNCHANGED flowVars
    BY <2>1 DEF flowVars, FlowInv
  <2>2. CASE RunStep \/ EnterBlock \/ Branch \/ EnterLoop \/ SkipLoop \/ CallNested
    BY <2>2, StatementSteps
  <2>3. CASE SelectCase
    BY <2>3, SelectInv
  <2>4. CASE Defer
    BY <2>4, DeferInv
  <2>5. CASE Jump
    BY <2>5, JumpInv
  <2>6. CASE RunDeferred
    BY <2>6, DeferredInv
  <2>7. CASE Again
    BY <2>7, AgainInv
  <2>8. CASE Finish
    BY <2>8, FinishInv
  <2>9. CASE Unwind
    BY <2>9, UnwindInv
  <2> QED
    BY <2>1, <2>2, <2>3, <2>4, <2>5, <2>6, <2>7, <2>8, <2>9 DEF FlowNext
<1> QED
  BY <1>1, <1>2, PTL DEF FlowSpec

\* A function that passed the checks never ends without a value, whatever its
\* conditions and the values it matches, and no jump in it is lost: not in a
\* deferred statement, a nested function or a case without a next one.
THEOREM ChecksImplyReturn ==
    ASSUME ControlFlowParameters
    PROVE  FlowSpec => []AlwaysReturns
<1>1. FlowInv => AlwaysReturns
  BY DEF FlowInv, AlwaysReturns
<1> QED
  BY <1>1, FlowInvariant, PTL

\* What the validator reports as unreachable, with the loops it has around it, is
\* never the next statement of a running function.
THEOREM ReportedDeadIsDead ==
    ASSUME ControlFlowParameters
    PROVE  FlowSpec => []UnreachableNeverRuns
<1>1. FlowInv => UnreachableNeverRuns
  <2> SUFFICES ASSUME FlowInv, Running, jump = NoJump, ~AtEnd
               PROVE  ~UnreachableAt(Top.stmts, Top.at, RunningLoops)
    BY DEF UnreachableNeverRuns
  <2>1. PICK e : e = Top
    OBVIOUS
  <2>2. PICK n : n = Len(frames)
    OBVIOUS
  <2>3. /\ StackInv(frames, NoJump, body) /\ e = frames[n] /\ MaxNesting \in Nat
        /\ FrameOK(e) /\ frames \in Seq(Frames) /\ frames # <<>> /\ n \in Nat
        /\ e.at <= Len(e.stmts)
    BY <2>1, <2>2, RunningFacts
  <2>4. n > 0 /\ DOMAIN frames = 1..n /\ n \in 1..n /\ e.at \in Nat /\ Len(e.stmts) \in Nat
    <3>1. n > 0 /\ DOMAIN frames = 1..n
      BY <2>2, <2>3
    <3>2. e.at \in Nat /\ Len(e.stmts) \in Nat
      BY <2>3, FrameFacts
    <3> QED
      BY <2>3, <3>1, <3>2
  <2>5. RunningLoops = LoopsAround(frames, n)
    <3>1. ASSUME NEW k \in 1..n, frames[k].kind = "loop"
          PROVE  (\A m \in k..n : frames[m].kind # "function") <=> SameCall(frames, k, n)
      <4>1. k..n = ((k + 1)..n) \cup {k}
        BY <2>3
      <4> QED
        BY <3>1, <4>1 DEF SameCall
    <3>2. {k \in DOMAIN frames : frames[k].kind = "loop"
                                 /\ \A m \in k..Len(frames) : frames[m].kind # "function"}
            = {m \in 1..n : frames[m].kind = "loop" /\ SameCall(frames, m, n)}
      BY <2>2, <2>4, <3>1
    <3> QED
      BY <3>2 DEF RunningLoops, LoopsAround
  <2>6. Behind(frames, NoJump, n) = e.at - 1
    BY <2>2, <2>3 DEF Behind, Pending, Inside
  <2>7. \A m \in 1..(e.at - 1) : ~Exits(e.stmts[m], LoopsAround(frames, n))
    <3>1. ~(e.kind = "loop" /\ e.at = Len(e.stmts) + 1)
      BY <2>3, <2>4
    <3> QED
      BY <2>2, <2>3, <2>4, <2>6, <3>1 DEF StackInv, NoneLeft
  <2> QED
    BY <2>1, <2>5, <2>7 DEF UnreachableAt
<1> QED
  BY <1>1, FlowInvariant, PTL

-----------------------------------------------------------------------------
(* The return check is exact                                               *)

\* How statement s can end when the lists in it end as in all.
EndStep(s, all) ==
    LET Mine(j) == j.op \in {"break", "continue"} /\ j.label \in {NoLabel, s.label}
        broken == \E j \in all : Mine(j) /\ j.op = "break"
        end == {NoJump}
    IN  CASE s.op \in {"step", "defer", "function"} -> end
          [] s.op = "block" -> all
          [] s.op = "if" -> all \cup (IF Len(s.subs) = 1 THEN end ELSE {})
          [] s.op \in {"while", "for"} ->
                {j \in all \ end : ~Mine(j)} \cup (IF s.op = "for" \/ broken THEN end ELSE {})
          [] s.op = "match" ->
                {j \in all : j.op # "fall"} \cup
                (IF HasElse(s) \/ \A v \in Values[s.type] : \E p \in Range(s.cases) :
                                      {v, Wild} \cap p # {}
                 THEN {} ELSE end)
          [] OTHER -> {[op |-> s.op, label |-> s.label]}

AllEnds(s, ends) == UNION {ListEnds(l, ends) : l \in Range(s.subs)}

Takes(s, j) == j.op \in {"break", "continue"} /\ j.label \in {NoLabel, s.label}

\* The parts of the definition, one by one.
LEMMA EndStepFacts ==
    ASSUME NEW s, NEW all
    PROVE  /\ s.op \in {"step", "defer", "function"} => EndStep(s, all) = {NoJump}
           /\ s.op = "block" => EndStep(s, all) = all
           /\ s.op = "if" =>
                 EndStep(s, all) = all \cup (IF Len(s.subs) = 1 THEN {NoJump} ELSE {})
           /\ s.op \in {"while", "for"} =>
                 EndStep(s, all) =
                    {j \in all \ {NoJump} : ~Takes(s, j)} \cup
                    (IF s.op = "for" \/ \E j \in all : Takes(s, j) /\ j.op = "break"
                     THEN {NoJump} ELSE {})
           /\ s.op = "match" =>
                 EndStep(s, all) =
                    {j \in all : j.op # "fall"} \cup
                    (IF HasElse(s) \/ \A v \in Values[s.type] : \E p \in Range(s.cases) :
                                          {v, Wild} \cap p # {}
                     THEN {} ELSE {NoJump})
           /\ s.op \in {"ret", "break", "continue", "fall"} =>
                 EndStep(s, all) = {[op |-> s.op, label |-> s.label]}
<1>1. CASE s.op \in {"step", "defer", "function"}
  BY <1>1 DEF EndStep
<1>2. CASE s.op = "block"
  BY <1>2 DEF EndStep
<1>3. CASE s.op = "if"
  BY <1>3 DEF EndStep
<1>4. CASE s.op \in {"while", "for"}
  BY <1>4 DEF EndStep, Takes
<1>5. CASE s.op = "match"
  BY <1>5 DEF EndStep
<1>6. CASE s.op \in {"ret", "break", "continue", "fall"}
  BY <1>6 DEF EndStep
<1>7. CASE s.op \notin {"step", "defer", "function", "block", "if", "while", "for", "match", "ret",
                        "break", "continue", "fall"}
  BY <1>7
<1> QED
  BY <1>1, <1>2, <1>3, <1>4, <1>5, <1>6, <1>7

\* A list ends as its statements do.
LEMMA ListEndsType ==
    ASSUME NoJump \in Jumps, NEW l \in Seq(Statements), NEW ends \in [Statements -> SUBSET Jumps]
    PROVE  ListEnds(l, ends) \subseteq Jumps
<1>1. \A i \in DOMAIN l : ends[l[i]] \subseteq Jumps
  OBVIOUS
<1>2. PICK reached : reached = {i \in DOMAIN l : \A j \in 1..(i - 1) : NoJump \in ends[l[j]]}
  OBVIOUS
<1>3. reached \subseteq DOMAIN l
  BY <1>2
<1>4. (UNION {ends[l[i]] : i \in reached}) \subseteq Jumps
  BY <1>1, <1>3
<1>5. ListEnds(l, ends) \subseteq (UNION {ends[l[i]] : i \in reached}) \cup {NoJump}
  BY <1>2 DEF ListEnds
<1> QED
  BY <1>4, <1>5

\* What statements end with are jumps, or NoJump.
LEMMA EndStepType ==
    ASSUME NoJump \in Jumps, NEW s \in Statements, s \in Nodes, NEW all \in SUBSET Jumps
    PROVE  EndStep(s, all) \in SUBSET Jumps
<1>1. s.op \in Ops /\ s.label \in Labels
  BY DEF Nodes
<1>2. CASE s.op \in {"step", "defer", "function", "block", "if"}
  BY <1>2, EndStepFacts
<1>3. CASE s.op \in {"while", "for"}
  BY <1>3, EndStepFacts
<1>4. CASE s.op = "match"
  BY <1>4, EndStepFacts
<1>5. CASE s.op \in {"ret", "break", "continue", "fall"}
  <2>1. [op |-> s.op, label |-> s.label] \in Jumps
    BY <1>1, <1>5 DEF Jumps
  <2> QED
    BY <1>5, <2>1, EndStepFacts
<1> QED
  BY <1>1, <1>2, <1>3, <1>4, <1>5 DEF Ops

\* StatementEnds is what its recursion says.
LEMMA StatementEndsDef ==
    ASSUME MaxNesting \in Nat, NoJump \in Jumps
    PROVE  \A s \in Statements : StatementEnds[s] = EndStep(s, AllEnds(s, StatementEnds))
<1>1. PICK F : F = [g \in [Statements -> SUBSET Jumps] |->
                       [t \in Statements |-> EndStep(t, AllEnds(t, g))]]
  OBVIOUS
<1>2. ASSUME NEW g \in [Statements -> SUBSET Jumps], NEW t \in Statements
      PROVE  EndStep(t, AllEnds(t, g)) \in SUBSET Jumps
  <2>1. t \in Nodes /\ t.subs \in Seq(Seq(Statements))
    BY StatementFacts
  <2>2. \A l \in Range(t.subs) : ListEnds(l, g) \subseteq Jumps
    BY <2>1, ListEndsType DEF Range
  <2>3. AllEnds(t, g) \in SUBSET Jumps
    BY <2>2 DEF AllEnds
  <2> QED
    BY <2>1, <2>3, EndStepType
<1>3. F \in [[Statements -> SUBSET Jumps] -> [Statements -> SUBSET Jumps]]
  BY <1>1, <1>2
<1>4. ASSUME NEW n \in Nat, n < MaxNesting,
             NEW g \in [Statements -> SUBSET Jumps], NEW h \in [Statements -> SUBSET Jumps],
             \A t \in Nested[n] : g[t] = h[t],
             NEW s \in Nested[n + 1]
      PROVE  F[g][s] = F[h][s]
  <2>1. s \in Statements /\ s \in Nodes
    BY <1>4, LevelFacts
  <2>2. ASSUME NEW l \in Range(s.subs) PROVE ListEnds(l, g) = ListEnds(l, h)
    <3>1. l \in Seq(Statements)
      BY <2>1 DEF Nodes, Range
    <3>2. \A u \in Range(l) : g[u] = h[u]
      BY <1>4, InnerStatements
    <3>3. \A i \in DOMAIN l : g[l[i]] = h[l[i]]
      BY <3>2 DEF Range
    <3>4. \A i \in DOMAIN l : \A j \in 1..(i - 1) : j \in DOMAIN l
      BY <3>1
    <3>5. {i \in DOMAIN l : \A j \in 1..(i - 1) : NoJump \in g[l[j]]}
            = {i \in DOMAIN l : \A j \in 1..(i - 1) : NoJump \in h[l[j]]}
      BY <3>3, <3>4
    <3>6. PICK reached : reached = {i \in DOMAIN l : \A j \in 1..(i - 1) : NoJump \in g[l[j]]}
      OBVIOUS
    <3>7. {g[l[i]] : i \in reached} = {h[l[i]] : i \in reached}
      BY <3>3, <3>6
    <3>8. (\A u \in Range(l) : NoJump \in g[u]) <=> (\A u \in Range(l) : NoJump \in h[u])
      BY <3>2
    <3>9. ListEnds(l, g) = ((UNION {g[l[i]] : i \in reached}) \ {NoJump})
                              \cup (IF \A u \in Range(l) : NoJump \in g[u] THEN {NoJump} ELSE {})
      BY <3>6 DEF ListEnds
    <3>10. ListEnds(l, h) = ((UNION {h[l[i]] : i \in reached}) \ {NoJump})
                              \cup (IF \A u \in Range(l) : NoJump \in h[u] THEN {NoJump} ELSE {})
      BY <3>5, <3>6 DEF ListEnds
    <3> QED
      BY <3>7, <3>8, <3>9, <3>10
  <2>3. AllEnds(s, g) = AllEnds(s, h)
    BY <2>2 DEF AllEnds
  <2> QED
    BY <1>1, <2>1, <2>3
<1>5. {} \in SUBSET Jumps
  OBVIOUS
<1>6. PICK f \in [Statements -> SUBSET Jumps] : f = F[f]
  BY <1>3, <1>4, <1>5, FixedPoint
<1>7. f = [s \in Statements |-> EndStep(s, AllEnds(s, f))]
  BY <1>1, <1>6
<1>8. PICK g : g = CHOOSE e : e = [s \in Statements |-> EndStep(s, AllEnds(s, e))]
  OBVIOUS
<1>9. g = [s \in Statements |-> EndStep(s, AllEnds(s, g))]
  BY <1>7, <1>8
<1>10. StatementEnds = g
  BY <1>8, Zenon DEF StatementEnds, EndStep, AllEnds
<1> QED
  BY <1>9, <1>10

\* Contexts of the same list, in e1 and in e2, but for the loops around these two.
Alike(d1, e1, d2, e2) ==
    /\ d2.stmts = d1.stmts
    /\ \E X : d1.loops = e1.loops \cup X /\ d2.loops = e2.loops \cup X

\* The same walk from another context of the same list: only the loops around
\* it differ.
LEMMA Shifted ==
    ASSUME MaxNesting \in Nat, NEW skipped, NEW e1 \in Contexts, NEW e2 \in Contexts,
           e1.stmts = e2.stmts, NEW d1, d1 \in Within(e1, skipped)
    PROVE  \E d2 : d2 \in Within(e2, skipped) /\ Alike(d1, e1, d2, e2)
<1>1. PICK within : /\ within[0] = {e1}
                    /\ \A n \in Nat : n < MaxNesting =>
                          within[n + 1] = InnerOf(within[n], skipped)
                    /\ Within(e1, skipped) = UNION {within[n] : n \in 0..MaxNesting}
  BY WithinDef
<1>2. PICK T : T = {n \in Nat : n <= MaxNesting =>
                       \A a \in within[n] : \E b \in Within(e2, skipped) : Alike(a, e1, b, e2)}
  OBVIOUS
<1>3. 0 \in T
  <2>1. e2 \in Within(e2, skipped)
    BY WithinFacts
  <2>2. Alike(e1, e1, e2, e2)
    <3>1. e1.loops = e1.loops \cup {} /\ e2.loops = e2.loops \cup {}
      OBVIOUS
    <3> QED
      BY <3>1 DEF Alike
  <2> QED
    BY <1>1, <1>2, <2>1, <2>2
<1>4. ASSUME NEW n \in Nat, n \in T PROVE n + 1 \in T
  <2> SUFFICES ASSUME n + 1 <= MaxNesting, NEW a \in within[n + 1]
               PROVE  \E b \in Within(e2, skipped) : Alike(a, e1, b, e2)
    BY <1>2
  <2>1. n < MaxNesting /\ n \in 0..MaxNesting
    OBVIOUS
  <2>2. within[n + 1] = InnerOf(within[n], skipped)
    BY <1>1, <2>1
  <2>3. PICK d, s : d \in within[n] /\ s \in Range(d.stmts) /\ s.op \notin skipped /\ a \in Inner(d, s)
    BY <2>2 DEF InnerOf
  <2>4. PICK b \in Within(e2, skipped) : Alike(d, e1, b, e2)
    BY <1>2, <1>4, <2>1, <2>3
  <2>5. PICK X : b.stmts = d.stmts /\ d.loops = e1.loops \cup X /\ b.loops = e2.loops \cup X
    BY <2>4 DEF Alike
  <2>6. PICK i \in DOMAIN s.subs :
            a = [stmts |-> s.subs[i],
                 loops |-> IF s.op \in {"while", "for"} THEN d.loops \cup {s.label} ELSE d.loops,
                 falls |-> s.op = "match" /\ i < Len(s.cases) /\ s.type \notin Tagged,
                 inMatch |-> d.inMatch \/ s.op = "match"]
    BY <2>3 DEF Inner
  <2>7. PICK c : c = [stmts |-> s.subs[i],
                 loops |-> IF s.op \in {"while", "for"} THEN b.loops \cup {s.label} ELSE b.loops,
                 falls |-> s.op = "match" /\ i < Len(s.cases) /\ s.type \notin Tagged,
                 inMatch |-> b.inMatch \/ s.op = "match"]
    OBVIOUS
  <2>8. c \in Within(e2, skipped)
    <3>1. c \in Inner(b, s)
      BY <2>7 DEF Inner
    <3>2. s \in Range(b.stmts) /\ s.op \notin skipped
      BY <2>3, <2>5
    <3> QED
      BY <3>1, <3>2, WithinFacts
  <2>9. PICK Y : Y = IF s.op \in {"while", "for"} THEN X \cup {s.label} ELSE X
    OBVIOUS
  <2>10. a.stmts = c.stmts
    BY <2>6, <2>7
  <2>11. a.loops = e1.loops \cup Y
    BY <2>5, <2>6, <2>9
  <2>12. c.loops = e2.loops \cup Y
    BY <2>5, <2>7, <2>9
  <2>13. Alike(a, e1, c, e2)
    BY <2>10, <2>11, <2>12 DEF Alike
  <2> QED
    BY <2>8, <2>13
<1>5. Nat \subseteq T
  BY <1>3, <1>4, Induction
<1>6. PICK n \in 0..MaxNesting : d1 \in within[n]
  BY <1>1
<1>7. \E b \in Within(e2, skipped) : Alike(d1, e1, b, e2)
  BY <1>2, <1>5, <1>6
<1> QED
  BY <1>7

\* What is inside a context is the context, or inside one of its inner ones.
LEMMA Decomposed ==
    ASSUME MaxNesting \in Nat, NEW skipped, NEW c \in Contexts, NEW d \in Within(c, skipped)
    PROVE  \/ d = c
           \/ \E s \in Range(c.stmts) : /\ s.op \notin skipped
                                        /\ \E e \in Inner(c, s) : d \in Within(e, skipped)
<1> DEFINE Deeper(a) ==
        \E s \in Range(c.stmts) : /\ s.op \notin skipped
                                  /\ \E e \in Inner(c, s) : a \in Within(e, skipped)
<1>1. PICK within : /\ within[0] = {c}
                    /\ \A n \in Nat : n < MaxNesting =>
                          within[n + 1] = InnerOf(within[n], skipped)
                    /\ Within(c, skipped) = UNION {within[n] : n \in 0..MaxNesting}
  BY WithinDef
<1>2. PICK T : T = {n \in Nat : n <= MaxNesting => \A a \in within[n] : a = c \/ Deeper(a)}
  OBVIOUS
<1>3. 0 \in T
  BY <1>1, <1>2
<1>4. ASSUME NEW n \in Nat, n \in T PROVE n + 1 \in T
  <2> SUFFICES ASSUME n + 1 <= MaxNesting, NEW a \in within[n + 1] PROVE Deeper(a)
    BY <1>2
  <2>1. n < MaxNesting /\ n \in 0..MaxNesting
    OBVIOUS
  <2>2. within[n + 1] = InnerOf(within[n], skipped)
    BY <1>1, <2>1
  <2>3. PICK b, u : b \in within[n] /\ u \in Range(b.stmts) /\ u.op \notin skipped /\ a \in Inner(b, u)
    BY <2>2 DEF InnerOf
  <2>4. Inner(c, u) \subseteq Contexts \/ b # c
    BY <2>3, WithinFacts
  <2>5. CASE b = c
    <3>1. a \in Contexts
      BY <2>3, <2>4, <2>5
    <3>2. a \in Within(a, skipped)
      BY <3>1, WithinFacts
    <3> QED
      BY <2>3, <2>5, <3>2
  <2>6. CASE b # c
    <3>1. PICK s \in Range(c.stmts) :
              s.op \notin skipped /\ \E e \in Inner(c, s) : b \in Within(e, skipped)
      BY <1>2, <1>4, <2>1, <2>3, <2>6
    <3>2. PICK e \in Inner(c, s) : b \in Within(e, skipped)
      BY <3>1
    <3>3. e \in Contexts
      BY <3>1, WithinFacts
    <3>4. a \in Within(e, skipped)
      BY <2>3, <3>2, <3>3, WithinFacts
    <3> QED
      BY <3>1, <3>2, <3>4
  <2> QED
    BY <2>5, <2>6
<1>5. Nat \subseteq T
  <2> HIDE DEF Deeper
  <2> QED
    BY <1>3, <1>4, Induction
<1>6. PICK n \in 0..MaxNesting : d \in within[n]
  BY <1>1
<1>7. d = c \/ Deeper(d)
  BY <1>2, <1>5, <1>6
<1> QED
  BY <1>7

\* What is inside an inner context is inside the outer one.
LEMMA Composed ==
    ASSUME MaxNesting \in Nat, NEW skipped, NEW k \in Contexts, NEW e, e \in Within(k, skipped)
    PROVE  Within(e, skipped) \subseteq Within(k, skipped)
<1>1. e \in Contexts
  BY WithinFacts
<1>2. PICK within : /\ within[0] = {e}
                    /\ \A n \in Nat : n < MaxNesting =>
                          within[n + 1] = InnerOf(within[n], skipped)
                    /\ Within(e, skipped) = UNION {within[n] : n \in 0..MaxNesting}
  BY WithinDef
<1>3. PICK T : T = {n \in Nat : n <= MaxNesting => within[n] \subseteq Within(k, skipped)}
  OBVIOUS
<1>4. 0 \in T
  BY <1>2, <1>3
<1>5. ASSUME NEW n \in Nat, n \in T PROVE n + 1 \in T
  <2> SUFFICES ASSUME n + 1 <= MaxNesting, NEW a \in within[n + 1] PROVE a \in Within(k, skipped)
    BY <1>3
  <2>1. n < MaxNesting /\ within[n] \subseteq Within(k, skipped)
    BY <1>3, <1>5
  <2>2. within[n + 1] = InnerOf(within[n], skipped)
    BY <1>2, <2>1
  <2>3. PICK b, u : b \in within[n] /\ u \in Range(b.stmts) /\ u.op \notin skipped /\ a \in Inner(b, u)
    BY <2>2 DEF InnerOf
  <2> QED
    BY <2>1, <2>3, WithinFacts
<1>6. Nat \subseteq T
  BY <1>4, <1>5, Induction
<1> QED
  <2>1. \A n \in 0..MaxNesting : within[n] \subseteq Within(k, skipped)
    BY <1>3, <1>6
  <2> QED
    BY <1>2, <2>1

\* The i-th of the contexts inside statement s of context c.
InnerAt(c, s, i) ==
    [stmts |-> s.subs[i],
     loops |-> IF s.op \in {"while", "for"} THEN c.loops \cup {s.label} ELSE c.loops,
     falls |-> s.op = "match" /\ i < Len(s.cases) /\ s.type \notin Tagged,
     inMatch |-> c.inMatch \/ s.op = "match"]

\* When every statement but the last completes, a list ends as any of its
\* statements does, and at its end if its last statement completes.
LEMMA ListEndsFacts ==
    ASSUME NEW l \in Seq(Statements), NEW ends,
           \A i \in 1..(Len(l) - 1) : NoJump \in ends[l[i]]
    PROVE  /\ \A s \in Range(l) : \A j \in ends[s] : j # NoJump => j \in ListEnds(l, ends)
           /\ (l # <<>> => NoJump \in ends[Final(l)]) => NoJump \in ListEnds(l, ends)
<1>1. Len(l) \in Nat /\ DOMAIN l = 1..Len(l)
  OBVIOUS
<1>2. PICK reached : reached = {i \in DOMAIN l : \A j \in 1..(i - 1) : NoJump \in ends[l[j]]}
  OBVIOUS
<1>3. reached = DOMAIN l
  <2> SUFFICES ASSUME NEW i \in DOMAIN l, NEW j \in 1..(i - 1) PROVE NoJump \in ends[l[j]]
    BY <1>2
  <2>1. j \in 1..(Len(l) - 1)
    BY <1>1
  <2> QED
    BY <2>1
<1>4. ListEnds(l, ends) = ((UNION {ends[l[i]] : i \in reached}) \ {NoJump})
                             \cup (IF \A s \in Range(l) : NoJump \in ends[s] THEN {NoJump} ELSE {})
  BY <1>2 DEF ListEnds
<1>5. ASSUME NEW s \in Range(l), NEW j \in ends[s], j # NoJump PROVE j \in ListEnds(l, ends)
  <2>1. PICK i \in DOMAIN l : s = l[i]
    BY DEF Range
  <2>2. j \in UNION {ends[l[x]] : x \in reached}
    BY <1>3, <1>5, <2>1
  <2> QED
    BY <1>4, <1>5, <2>2
<1>6. ASSUME l # <<>> => NoJump \in ends[Final(l)] PROVE NoJump \in ListEnds(l, ends)
  <2>1. \A s \in Range(l) : NoJump \in ends[s]
    <3> SUFFICES ASSUME NEW i \in DOMAIN l PROVE NoJump \in ends[l[i]]
      BY DEF Range
    <3>1. i = Len(l) \/ i \in 1..(Len(l) - 1)
      BY <1>1
    <3>2. i = Len(l) => l[i] = Final(l) /\ l # <<>>
      BY <1>1 DEF Final
    <3> QED
      BY <1>6, <3>1, <3>2
  <2> QED
    BY <1>4, <2>1
<1> QED
  BY <1>5, <1>6

\* A break that ends a list ends the statement around it, but for a loop that it
\* is for.
LEMMA BreakPasses ==
    ASSUME MaxNesting \in Nat, NoJump \in Jumps, NEW s \in Statements, NEW k \in DOMAIN s.subs,
           s.op \notin {"defer", "function"},
           NEW j \in ListEnds(s.subs[k], StatementEnds), j.op = "break",
           s.op \in {"while", "for"} => ~Takes(s, j)
    PROVE  j \in StatementEnds[s]
<1>1. s \in Nodes /\ Shaped(s)
  BY StatementFacts
<1>2. StatementEnds[s] = EndStep(s, AllEnds(s, StatementEnds))
  BY StatementEndsDef
<1>3. j \in AllEnds(s, StatementEnds)
  BY DEF AllEnds, Range
<1>4. j # NoJump
  <2>1. NoJump.op = "none"
    BY DEF NoJump
  <2> QED
    BY <2>1
<1>5. s.subs # <<>>
  OBVIOUS
<1>6. s.op \in {"block", "if", "while", "for", "match"}
  BY <1>1, <1>5 DEF Shaped
<1>7. CASE s.op \in {"block", "if"}
  BY <1>2, <1>3, <1>7, EndStepFacts
<1>8. CASE s.op \in {"while", "for"}
  BY <1>2, <1>3, <1>4, <1>8, EndStepFacts
<1>9. CASE s.op = "match"
  BY <1>2, <1>3, <1>9, EndStepFacts
<1> QED
  BY <1>6, <1>7, <1>8, <1>9

\* A walk in which every statement but the last of its list completes, and no
\* jump leaves a deferred statement.
Calm(contexts) ==
    \A c \in contexts :
        /\ \A i \in 1..(Len(c.stmts) - 1) : NoJump \in StatementEnds[c.stmts[i]]
        /\ \A s \in Range(c.stmts) : s.op = "defer" => ~LeavesDefer(s)

\* A break that leaves a list: it is in context d of the list, for no loop in it.
LeavingBreak(t, d) == t \in Range(d.stmts) /\ t.op = "break" /\ ~ValidJump(t, d.loops)

\* In such a walk a list can end with each break that leaves it, and no such break
\* is deferred.
LEMMA BreakReached ==
    ASSUME MaxNesting \in Nat, NoJump \in Jumps, NEW W, NEW f \in Seq(Statements),
           W = Within(Context(f), {"function"}), Calm(W), NEW e \in W,
           NEW d, d \in Within(Context(e.stmts), {"function"}), NEW t, LeavingBreak(t, d)
    PROVE  /\ [op |-> "break", label |-> t.label] \in ListEnds(e.stmts, StatementEnds)
           /\ \E d2 \in Within(Context(e.stmts), {"defer", "function"}) :
                 d2.stmts = d.stmts /\ d2.loops = d.loops
<1> DEFINE Reached(l, c, u) ==
        /\ [op |-> "break", label |-> u.label] \in ListEnds(l, StatementEnds)
        /\ \E d2 \in Within(Context(l), {"defer", "function"}) :
              d2.stmts = c.stmts /\ d2.loops = c.loops
<1>1. Context(f) \in Contexts
  BY DEF Contexts, Context
<1>2. W \subseteq Contexts
  BY <1>1, WithinFacts
<1>3. PICK T : T = {n \in Nat : n <= MaxNesting =>
          \A a \in W : a.stmts \in Seq(Nested[n]) =>
              \A c \in Within(Context(a.stmts), {"function"}) : \A u \in Range(c.stmts) :
                  LeavingBreak(u, c) => Reached(a.stmts, c, u)}
  OBVIOUS
<1>4. ASSUME NEW n \in Nat, n <= MaxNesting, n > 0 => n - 1 \in T,
             NEW a \in W, a.stmts \in Seq(Nested[n]),
             NEW c, c \in Within(Context(a.stmts), {"function"}), NEW u \in Range(c.stmts),
             LeavingBreak(u, c)
      PROVE  Reached(a.stmts, c, u)
  <2>1. PICK l : l = a.stmts
    OBVIOUS
  <2>2. PICK b : b = Context(l)
    OBVIOUS
  <2>3. PICK j : j = [op |-> "break", label |-> u.label]
    OBVIOUS
  <2>4. a \in Contexts /\ l \in Seq(Statements) /\ b \in Contexts
        /\ b.stmts = l /\ b.loops = {}
    BY <1>2, <2>1, <2>2 DEF Contexts, Context
  <2>5. \A i \in 1..(Len(l) - 1) : NoJump \in StatementEnds[l[i]]
    BY <2>1 DEF Calm
  <2>6. j # NoJump /\ j.op = "break" /\ j.label = u.label
    BY <2>3 DEF NoJump
  <2>7. b \in Within(b, {"defer", "function"})
    BY <2>4, WithinFacts
  <2>8. CASE c = b
    <3>1. u \in Range(l) /\ u.op = "break" /\ u \in Statements
      <4>1. u \in Range(l)
        BY <1>4, <2>4, <2>8
      <4>2. u \in Statements
        BY <2>4, <4>1 DEF Range
      <4> QED
        BY <1>4, <4>1, <4>2 DEF LeavingBreak
    <3>2. StatementEnds[u] = {j}
      BY <2>3, <3>1, StatementEndsDef, EndStepFacts
    <3>3. j \in ListEnds(l, StatementEnds)
      BY <2>4, <2>5, <2>6, <3>1, <3>2, ListEndsFacts
    <3> QED
      BY <2>1, <2>2, <2>3, <2>7, <2>8, <3>3
  <2>9. CASE c # b
    <3>1. PICK s \in Range(l) : /\ s.op \notin {"function"}
                                /\ \E e1 \in Inner(b, s) : c \in Within(e1, {"function"})
      BY <1>4, <2>1, <2>2, <2>4, <2>9, Decomposed
    <3>2. PICK i \in DOMAIN s.subs : c \in Within(InnerAt(b, s, i), {"function"})
      BY <3>1 DEF Inner, InnerAt
    <3>3. s \in Statements /\ s \in Nested[n]
      BY <1>4, <2>1, <2>4 DEF Range
    <3>4. PICK e1 : e1 = InnerAt(b, s, i)
      OBVIOUS
    <3>5. PICK e2 : e2 = InnerAt(a, s, i)
      OBVIOUS
    <3>6. e1 \in Inner(b, s) /\ e2 \in Inner(a, s)
      BY <3>4, <3>5 DEF Inner, InnerAt
    <3>7. e1.stmts = s.subs[i] /\ e2.stmts = s.subs[i]
          /\ e1.loops = IF s.op \in {"while", "for"} THEN {s.label} ELSE {}
      BY <2>4, <3>4, <3>5 DEF InnerAt
    <3>8. n - 1 \in 0..MaxNesting /\ n > 0 /\ e2.stmts \in Seq(Nested[n - 1]) /\ e2 \in Contexts
      <4>1. n \in 0..MaxNesting /\ s \in Range(a.stmts)
        BY <1>4, <2>1, <3>1
      <4>2. n - 1 \in 0..MaxNesting /\ e2.stmts \in Seq(Nested[n - 1]) /\ e2 \in Contexts
        BY <1>4, <2>4, <3>6, <4>1, InnerFacts
      <4> QED
        BY <4>2
    <3>9. e2 \in W
      BY <1>1, <2>1, <3>1, <3>6, WithinFacts
    <3>10. e1 \in Contexts
      <4>1. e1 \in Within(b, {"function"})
        BY <2>4, <3>1, <3>6, WithinFacts
      <4> QED
        BY <2>4, <4>1, WithinFacts
    <3>11. PICK m : m = Context(e2.stmts)
      OBVIOUS
    <3>12. m \in Contexts /\ m.stmts = e1.stmts /\ m.loops = {}
      BY <3>7, <3>8, <3>11 DEF Contexts, Context
    <3>13. PICK c0, X :
               c0 \in Within(m, {"function"}) /\ c0.stmts = c.stmts
               /\ c.loops = e1.loops \cup X /\ c0.loops = m.loops \cup X
      <4>1. c \in Within(e1, {"function"})
        BY <3>2, <3>4
      <4>2. PICK d2 : d2 \in Within(m, {"function"}) /\ Alike(c, e1, d2, m)
        BY <3>10, <3>12, <4>1, Shifted
      <4>3. PICK X : c.loops = e1.loops \cup X /\ d2.loops = m.loops \cup X
        BY <4>2 DEF Alike
      <4> QED
        BY <4>2, <4>3 DEF Alike
    <3>14. c0.loops = X
      BY <3>12, <3>13
    <3>15. LeavingBreak(u, c0)
      <4>1. ~ValidJump(u, X)
        BY <1>4, <3>13 DEF LeavingBreak, ValidJump
      <4> QED
        BY <1>4, <3>13, <3>14, <4>1 DEF LeavingBreak
    <3>16. Reached(e2.stmts, c0, u)
      <4>1. u \in Range(c0.stmts)
        BY <3>13
      <4> HIDE DEF Reached
      <4> QED
        BY <1>3, <1>4, <3>8, <3>9, <3>11, <3>13, <3>15, <4>1
    <3>17. PICK d2 \in Within(m, {"defer", "function"}) : d2.stmts = c0.stmts /\ d2.loops = c0.loops
      BY <3>11, <3>16
    <3>18. s.op # "defer"
      <4> SUFFICES ASSUME s.op = "defer" PROVE FALSE
        OBVIOUS
      <4>1. Shaped(s) /\ s \in Nodes
        BY <3>3, StatementFacts
      <4>2. i = 1 /\ m = Context(s.subs[1])
        BY <3>7, <3>11, <4>1 DEF Shaped, Nodes
      <4>3. ~LeavesDefer(s)
        BY <2>1, <3>1 DEF Calm
      <4>4. u \in Range(d2.stmts) /\ IsLoopJump(u) /\ ~ValidJump(u, d2.loops)
        BY <3>15, <3>17 DEF LeavingBreak, IsLoopJump
      <4> QED
        BY <3>17, <4>2, <4>3, <4>4 DEF LeavesDefer
    <3>19. s.op \in {"while", "for"} => ~Takes(s, j)
      <4> SUFFICES ASSUME s.op \in {"while", "for"} PROVE ~Takes(s, j)
        OBVIOUS
      <4>1. s.label \in c.loops /\ ~ValidJump(u, c.loops)
        BY <1>4, <3>7, <3>13 DEF LeavingBreak
      <4>2. u.label # NoLabel /\ u.label # s.label
        BY <4>1 DEF ValidJump
      <4> QED
        BY <2>6, <4>2 DEF Takes
    <3>20. j \in StatementEnds[s]
      <4>1. j \in ListEnds(s.subs[i], StatementEnds)
        BY <2>3, <3>7, <3>16
      <4> QED
        BY <2>6, <3>1, <3>3, <3>18, <3>19, <4>1, BreakPasses
    <3>21. j \in ListEnds(l, StatementEnds)
      BY <2>4, <2>5, <2>6, <3>1, <3>20, ListEndsFacts
    <3>22. PICK d3, Y :
               d3 \in Within(e1, {"defer", "function"}) /\ d3.stmts = d2.stmts
               /\ d2.loops = m.loops \cup Y /\ d3.loops = e1.loops \cup Y
      <4>1. PICK d4 : d4 \in Within(e1, {"defer", "function"}) /\ Alike(d2, m, d4, e1)
        BY <3>10, <3>12, <3>17, Shifted
      <4>2. PICK Y : d2.loops = m.loops \cup Y /\ d4.loops = e1.loops \cup Y
        BY <4>1 DEF Alike
      <4> QED
        BY <4>1, <4>2 DEF Alike
    <3>23. d3.stmts = c.stmts /\ d3.loops = c.loops
      BY <3>12, <3>13, <3>17, <3>22
    <3>24. d3 \in Within(b, {"defer", "function"})
      <4>1. e1 \in Within(b, {"defer", "function"})
        BY <2>4, <2>7, <3>1, <3>6, <3>18, WithinFacts
      <4> QED
        BY <2>4, <3>22, <4>1, Composed
    <3> QED
      BY <2>1, <2>2, <2>3, <3>21, <3>23, <3>24
  <2> QED
    BY <2>8, <2>9
<1>5. 0 \in T
  <2> HIDE DEF Reached
  <2> QED
    BY <1>3, <1>4
<1>6. ASSUME NEW n \in Nat, n \in T PROVE n + 1 \in T
  <2>1. n + 1 \in Nat /\ (n + 1) - 1 = n
    OBVIOUS
  <2> HIDE DEF Reached
  <2> QED
    BY <1>3, <1>4, <1>6, <2>1
<1>7. MaxNesting \in T
  BY <1>5, <1>6, Induction
<1>8. e.stmts \in Seq(Nested[MaxNesting]) /\ t \in Range(d.stmts)
  BY <1>2 DEF Contexts, Statements, LeavingBreak
<1>9. Reached(e.stmts, d, t)
  <2> HIDE DEF Reached
  <2> QED
    BY <1>3, <1>7, <1>8
<1> QED
  BY <1>9

\* In a walk with no fall and no loop jump without its loop, all that is left to
\* judge is the last statements.
Judged(contexts) ==
    \A c \in contexts : \A s \in Range(c.stmts) :
        s.op # "fall" /\ (IsLoopJump(s) => ValidJump(s, c.loops))

\* A match that is not exhaustive has a value for which no case is taken: a type
\* whose values its patterns cannot cover has a value none of them names.
LEMMA ValueLeft ==
    ASSUME ControlFlowParameters, NEW s \in Statements, s.op = "match", ~Exhaustive(s)
    PROVE  ~HasElse(s) /\ \E v \in Values[s.type] : \A p \in Range(s.cases) : {v, Wild} \cap p = {}
<1>1. s \in Nodes /\ Shaped(s)
  BY StatementFacts DEF ControlFlowParameters
<1>2. s.type \in DOMAIN Values /\ s.cases \in Seq(SUBSET Patterns)
  BY <1>1 DEF Shaped, Nodes
<1>3. ~HasElse(s) /\ \A p \in Range(s.cases) : Wild \notin p
  BY DEF Exhaustive
<1>4. PICK named : named = UNION Range(s.cases)
  OBVIOUS
<1>5. named \subseteq Patterns
  BY <1>2, <1>4 DEF Range
<1>6. \E v \in Values[s.type] : v \notin named
  <2>1. CASE s.type \in Covered
    BY <1>4, <2>1 DEF Exhaustive
  <2>2. CASE s.type \notin Covered
    <3>1. ~(Values[s.type] \subseteq Patterns)
      BY <1>2, <2>2 DEF ControlFlowParameters
    <3> QED
      BY <1>5, <3>1
  <2> QED
    BY <2>1, <2>2
<1>7. PICK v \in Values[s.type] : v \notin named
  BY <1>6
<1>8. \A p \in Range(s.cases) : {v, Wild} \cap p = {}
  BY <1>3, <1>4, <1>7
<1> QED
  BY <1>3, <1>8

\* A `while true` that does not loop forever ends: the break that leaves it is for
\* it, and is reached.
LEMMA LoopEnds ==
    ASSUME MaxNesting \in Nat, NoJump \in Jumps, NEW W, NEW f \in Seq(Statements),
           W = Within(Context(f), {"function"}), Calm(W), Judged(W), NEW e \in W,
           NEW s \in Range(e.stmts), s.op = "while", ~LoopsForever(s), e.loops = {}
    PROVE  NoJump \in StatementEnds[s]
<1>1. Context(f) \in Contexts
  BY DEF Contexts, Context
<1>2. e \in Contexts /\ s \in Statements
  <2>1. e \in Contexts
    BY <1>1, WithinFacts
  <2> QED
    BY <2>1 DEF Contexts, Range
<1>3. Shaped(s) /\ s \in Nodes
  BY <1>2, StatementFacts
<1>4. 1 \in DOMAIN s.subs
  BY <1>3 DEF Shaped, Nodes
<1>5. PICK k : k = InnerAt(e, s, 1)
  OBVIOUS
<1>6. k \in Inner(e, s)
  BY <1>4, <1>5 DEF Inner, InnerAt
<1>7. k \in W
  BY <1>1, <1>6, WithinFacts
<1>8. k \in Contexts /\ k.stmts = s.subs[1] /\ k.loops = {s.label}
  <2>1. k \in Contexts
    BY <1>1, <1>7, WithinFacts
  <2> QED
    BY <1>5, <2>1 DEF InnerAt
<1>9. PICK m : m = Context(k.stmts)
  OBVIOUS
<1>10. m \in Contexts /\ m.stmts = k.stmts /\ m.loops = {}
  BY <1>8, <1>9 DEF Contexts, Context
<1>11. PICK c, t : c \in Within(m, {"function"}) /\ LeavingBreak(t, c)
  BY <1>8, <1>9 DEF LoopsForever, LeavingBreak
<1>12. PICK j : j = [op |-> "break", label |-> t.label]
  OBVIOUS
<1>13. j \in ListEnds(k.stmts, StatementEnds)
  BY <1>7, <1>9, <1>11, <1>12, BreakReached
<1>14. PICK d : d \in Within(k, {"function"}) /\ Alike(c, m, d, k)
  BY <1>8, <1>10, <1>11, Shifted
<1>15. PICK X : c.loops = m.loops \cup X /\ d.loops = k.loops \cup X
  BY <1>14 DEF Alike
<1>16. d.stmts = c.stmts
  BY <1>14 DEF Alike
<1>17. d \in W
  BY <1>1, <1>7, <1>14, Composed
<1>18. t \in Range(d.stmts) /\ t.op = "break" /\ ~ValidJump(t, X)
  BY <1>10, <1>11, <1>15, <1>16 DEF LeavingBreak, ValidJump
<1>19. ValidJump(t, {s.label} \cup X)
  <2>1. ValidJump(t, d.loops)
    BY <1>17, <1>18 DEF Judged, IsLoopJump
  <2> QED
    BY <1>8, <1>15, <2>1 DEF ValidJump
<1>20. Takes(s, j)
  <2>1. t.label = NoLabel \/ t.label = s.label
    BY <1>18, <1>19 DEF ValidJump
  <2> QED
    BY <1>12, <2>1 DEF Takes
<1>21. j \in AllEnds(s, StatementEnds)
  BY <1>4, <1>8, <1>13 DEF AllEnds, Range
<1>22. StatementEnds[s] = EndStep(s, AllEnds(s, StatementEnds))
  BY <1>2, StatementEndsDef
<1> QED
  BY <1>12, <1>20, <1>21, <1>22, EndStepFacts

\* A list with no loop around it that does not return on all paths, as the check
\* sees it, can be run to its end.
LEMMA TailEnds ==
    ASSUME ControlFlowParameters, NEW W, NEW f \in Seq(Statements),
           W = Within(Context(f), {"function"}), Calm(W), Judged(W), ~Returns(f)
    PROVE  MayFallOff(f)
<1>1. MaxNesting \in Nat /\ NoJump \in Jumps
  BY DEF ControlFlowParameters, NoJump, Jumps
<1>2. Context(f) \in Contexts /\ Context(f).stmts = f /\ Context(f).loops = {}
  BY DEF Contexts, Context
<1>3. W \subseteq Contexts /\ Context(f) \in W
  BY <1>1, <1>2, WithinFacts
<1>4. PICK T : T = {n \in Nat : n <= MaxNesting =>
          \A a \in W : (a.stmts \in Seq(Nested[n]) /\ a.loops = {} /\ ~Returns(a.stmts))
                          => NoJump \in ListEnds(a.stmts, StatementEnds)}
  OBVIOUS
<1>5. ASSUME NEW n \in Nat, n <= MaxNesting, n > 0 => n - 1 \in T,
             NEW a \in W, a.stmts \in Seq(Nested[n]), a.loops = {}, ~Returns(a.stmts)
      PROVE  NoJump \in ListEnds(a.stmts, StatementEnds)
  <2>1. PICK l : l = a.stmts
    OBVIOUS
  <2>2. l \in Seq(Statements) /\ a \in Contexts
    BY <1>3, <2>1 DEF Contexts
  <2>3. \A i \in 1..(Len(l) - 1) : NoJump \in StatementEnds[l[i]]
    BY <2>1 DEF Calm
  <2>4. SUFFICES ASSUME l # <<>> PROVE NoJump \in StatementEnds[Final(l)]
    BY <2>1, <2>2, <2>3, ListEndsFacts
  <2>5. PICK s : s = Final(l)
    OBVIOUS
  <2>6. s \in Range(a.stmts) /\ s \in Statements
    BY <2>1, <2>2, <2>4, <2>5, FinalFacts
  <2>7. s \in Nodes /\ Shaped(s)
    BY <1>1, <2>6, StatementFacts
  <2>8. ~ReturnStep(s, Returning)
    <3>1. ~Returning[s]
      BY <1>5, <2>1, <2>4, <2>5 DEF Returns
    <3> QED
      BY <1>1, <2>6, <3>1, ReturningDef
  <2>9. StatementEnds[s] = EndStep(s, AllEnds(s, StatementEnds))
    BY <1>1, <2>6, StatementEndsDef
  <2>10. s.op # "fall" /\ ~IsLoopJump(s)
    <3>1. s.op # "fall" /\ (IsLoopJump(s) => ValidJump(s, a.loops))
      BY <2>6 DEF Judged
    <3>2. ~ValidJump(s, {})
      BY DEF ValidJump
    <3> QED
      BY <1>5, <3>1, <3>2
  <2>11. ASSUME s.op \in {"block", "if", "match"}, \E q \in Range(s.subs) : ~Returns(q)
         PROVE  NoJump \in AllEnds(s, StatementEnds)
    <3>1. PICK i \in DOMAIN s.subs : ~Returns(s.subs[i])
      BY <2>11 DEF Range
    <3>2. PICK e : e = InnerAt(a, s, i)
      OBVIOUS
    <3>3. e \in Inner(a, s)
      BY <3>2 DEF Inner, InnerAt
    <3>4. e \in W
      BY <1>1, <1>2, <2>6, <2>11, <3>3, WithinFacts
    <3>5. e.stmts = s.subs[i] /\ e.loops = {}
      BY <1>5, <2>11, <3>2 DEF InnerAt
    <3>6. n \in 0..MaxNesting
      BY <1>5
    <3>7. n - 1 \in 0..MaxNesting /\ e.stmts \in Seq(Nested[n - 1])
      BY <1>1, <1>5, <2>2, <2>6, <3>3, <3>6, InnerFacts
    <3>8. n - 1 \in T /\ n - 1 <= MaxNesting
      BY <1>5, <3>7
    <3>9. NoJump \in ListEnds(e.stmts, StatementEnds)
      BY <1>4, <3>1, <3>4, <3>5, <3>7, <3>8
    <3> QED
      BY <3>5, <3>9 DEF AllEnds, Range
  <2>12. (s.op = "block" \/ (s.op = "if" /\ Len(s.subs) = 2) \/ (s.op = "match" /\ Exhaustive(s)))
            => \E q \in Range(s.subs) : ~Returns(q)
    BY <2>8 DEF ReturnStep, Returns
  <2>13. CASE s.op \in {"step", "defer", "function"}
    BY <2>5, <2>9, <2>13, EndStepFacts
  <2>14. CASE s.op = "ret"
    BY <2>8, <2>14 DEF ReturnStep
  <2>15. CASE s.op = "block"
    BY <2>5, <2>9, <2>11, <2>12, <2>15, EndStepFacts
  <2>16. CASE s.op = "if"
    <3>1. Len(s.subs) \in {1, 2}
      BY <2>7, <2>16 DEF Shaped
    <3>2. CASE Len(s.subs) = 1
      BY <2>5, <2>9, <2>16, <3>2, EndStepFacts
    <3>3. CASE Len(s.subs) = 2
      BY <2>5, <2>9, <2>11, <2>12, <2>16, <3>3, EndStepFacts
    <3> QED
      BY <3>1, <3>2, <3>3
  <2>17. CASE s.op = "match"
    <3>1. CASE Exhaustive(s)
      <4>1. NoJump \in AllEnds(s, StatementEnds)
        BY <2>11, <2>12, <2>17, <3>1
      <4>2. NoJump.op # "fall"
        BY DEF NoJump
      <4> QED
        BY <2>5, <2>9, <2>17, <4>1, <4>2, EndStepFacts
    <3>2. CASE ~Exhaustive(s)
      <4>1. ~HasElse(s)
            /\ ~\A v \in Values[s.type] : \E p \in Range(s.cases) : {v, Wild} \cap p # {}
        BY <2>6, <2>17, <3>2, ValueLeft
      <4> QED
        BY <2>5, <2>9, <2>17, <4>1, EndStepFacts
    <3> QED
      BY <3>1, <3>2
  <2>18. CASE s.op = "for"
    BY <2>5, <2>9, <2>18, EndStepFacts
  <2>19. CASE s.op = "while"
    <3>1. ~LoopsForever(s)
      BY <2>8 DEF ReturnStep
    <3> QED
      BY <1>1, <1>5, <2>5, <2>6, <2>19, <3>1, LoopEnds
  <2>20. s.op \in Ops
    BY <2>7 DEF Nodes
  <2> QED
    BY <2>10, <2>13, <2>14, <2>15, <2>16, <2>17, <2>18, <2>19, <2>20 DEF Ops, IsLoopJump
<1>6. 0 \in T
  BY <1>4, <1>5
<1>7. ASSUME NEW n \in Nat, n \in T PROVE n + 1 \in T
  <2>1. n + 1 \in Nat /\ (n + 1) - 1 = n
    OBVIOUS
  <2> QED
    BY <1>4, <1>5, <1>7, <2>1
<1>8. MaxNesting \in T
  BY <1>1, <1>6, <1>7, Induction
<1>9. NoJump \in ListEnds(f, StatementEnds)
  <2>1. f \in Seq(Nested[MaxNesting])
    BY DEF Statements
  <2>2. MaxNesting \in Nat /\ MaxNesting <= MaxNesting
    BY <1>1
  <2> QED
    BY <1>2, <1>3, <1>4, <1>8, <2>1, <2>2
<1> QED
  BY <1>9 DEF MayFallOff

\* The functions in a body are lists of statements.
LEMMA BodiesAreLists ==
    ASSUME MaxNesting \in Nat, NEW stmts \in Seq(Statements)
    PROVE  FunctionBodies(stmts) \subseteq Seq(Statements)
<1>1. Context(stmts) \in Contexts
  BY DEF Contexts, Context
<1>2. ASSUME NEW c, c \in Within(Context(stmts), {}), NEW s \in Range(c.stmts), s.op = "function"
      PROVE  s.subs[1] \in Seq(Statements)
  <2>1. c \in Contexts
    BY <1>1, <1>2, WithinFacts
  <2>2. s \in Statements
    BY <2>1 DEF Contexts, Range
  <2>3. Shaped(s) /\ s.subs \in Seq(Seq(Statements))
    BY <2>2, StatementFacts
  <2>4. Len(s.subs) = 1
    BY <1>2, <2>3 DEF Shaped
  <2> QED
    BY <2>3, <2>4
<1> QED
  BY <1>2 DEF FunctionBodies

\* What a function is when a missing return is all that is reported, none of its
\* statements is fall and none that does not complete has others after it.
LEMMA OnlyReturnMissing ==
    ASSUME NEW f, FunctionErrors(f) \subseteq {"missing_return"},
           NEW W, W = Within(Context(f), {"function"}),
           \A c \in W : \A s \in Range(c.stmts) : s.op # "fall",
           \A c \in W : \A i \in 1..(Len(c.stmts) - 1) : NoJump \in StatementEnds[c.stmts[i]]
    PROVE  Calm(W) /\ Judged(W)
<1>1. ~\E c \in W : \E i \in DOMAIN c.stmts :
          IsLoopJump(c.stmts[i]) /\ ~ValidJump(c.stmts[i], c.loops)
  <2>1. "outside_loop" \notin FunctionErrors(f)
    OBVIOUS
  <2> QED
    BY <2>1 DEF FunctionErrors
<1>2. ~\E c \in W : \E i \in DOMAIN c.stmts :
          c.stmts[i].op = "defer" /\ LeavesDefer(c.stmts[i])
  <2>1. "defer_control_flow" \notin FunctionErrors(f)
    OBVIOUS
  <2> QED
    BY <2>1 DEF FunctionErrors
<1>3. \A c \in W : \A s \in Range(c.stmts) : IsLoopJump(s) => ValidJump(s, c.loops)
  BY <1>1 DEF Range
<1>4. \A c \in W : \A s \in Range(c.stmts) : s.op = "defer" => ~LeavesDefer(s)
  BY <1>2 DEF Range
<1> QED
  BY <1>3, <1>4 DEF Calm, Judged

\* A function that is reported for nothing but a missing return can be run to its
\* end without one, or a function nested in it can: looking at the last statement
\* of every list loses nothing, unless a case falls or a statement that never
\* completes has others after it.
THEOREM ReportedReturnsAreMissing ==
    ASSUME ControlFlowParameters
    PROVE  FlowSpec => []MissingReturnIsReal
<1>1. FlowInv => MissingReturnIsReal
  <2> SUFFICES ASSUME FlowInv, OnlyMissingReturn, ~Falls, ~CutOff
               PROVE  \E f \in FunctionBodies(body) : MayFallOff(f)
    BY DEF MissingReturnIsReal
  <2>1. body \in Seq(Statements) /\ MaxNesting \in Nat
    BY DEF FlowInv, ControlFlowParameters
  <2>2. Validate(body) = {"missing_return"}
    BY DEF FlowInv, OnlyMissingReturn
  <2>3. PICK f \in FunctionBodies(body) : "missing_return" \in FunctionErrors(f)
    BY <2>2 DEF Validate
  <2>4. FunctionErrors(f) \subseteq {"missing_return"}
    BY <2>2, <2>3 DEF Validate
  <2>5. ~Returns(f)
    BY <2>3 DEF FunctionErrors
  <2>6. f \in Seq(Statements)
    BY <2>1, <2>3, BodiesAreLists
  <2>7. PICK W : W = Within(Context(f), {"function"})
    OBVIOUS
  <2>8. \A c \in W : \A s \in Range(c.stmts) : s.op # "fall"
    BY <2>3, <2>7 DEF Falls
  <2>9. \A c \in W : \A i \in 1..(Len(c.stmts) - 1) : NoJump \in StatementEnds[c.stmts[i]]
    BY <2>3, <2>7 DEF CutOff
  <2>10. Calm(W) /\ Judged(W)
    BY <2>4, <2>7, <2>8, <2>9, OnlyReturnMissing
  <2>11. MayFallOff(f)
    BY <2>5, <2>6, <2>7, <2>10, TailEnds
  <2> QED
    BY <2>3, <2>11
<1> QED
  BY <1>1, FlowInvariant, PTL

=============================================================================
