----------------------- MODULE ModuleResolverResults -----------------------
(* Proofs about the results of the import loader: it accepts exactly the     *)
(* acceptable programs, merges their modules in the promised order, and      *)
(* binds every import to its module, for every import graph.                 *)
EXTENDS ModuleResolverProofs, FiniteSetTheorems

(***************************************************************************)
(* The imports of a project                                                *)
(***************************************************************************)

\* An import is a path and the file it stands in, like the entries of the
\* queue of load_program_dependencies.
Import(p, f) == [path |-> p, importer |-> f]
EventOf(d) == Enter(d.path, d.importer)

\* The imports that are written in files, the cache key that serves each of them,
\* its identity, and whether load_module finds it, and has loaded it.
Written == {d \in QueueEntries : d.path \in Imports(d.importer)}
Target == [d \in QueueEntries |-> IF d.path \in VirtualPaths THEN VirtualKey[d.path]
                                  ELSE Resolve(d.path, d.importer)]
IdentityOf == [d \in QueueEntries |-> Identity(d.path, d.importer)]
Found == {d \in QueueEntries : ~Shadowed(d.path, d.importer) /\ Target[d] # NoModule}
Got == {d \in Found : loaded[Target[d]] # 0}

\* The files that import something twice.
Doubled == {f \in Files : HasDuplicate(disk[f].imports, f)}

\* The files that each file reaches, those of the program, and its imports.
ReachOf == [f \in Files |-> Reach(Succ(f))]
Below == Reach(Succ(Entry))
Due == {d \in Written : d.importer \in {Entry} \cup Below}

\* The entry's imports, in order.
EntryImports == [i \in 1..Len(disk[Entry].imports) |-> Import(disk[Entry].imports[i], Entry)]

(***************************************************************************)
(* The inductive invariant of a program that is loaded                     *)
(***************************************************************************)

\* The operation is one that the properties about results speak of.
Judging == call = "program" /\ pristine

\* The enter events belong to the program; each waits before the exit event of
\* its importer, the first one after it, but for the event that load_module
\* begins with.
EventsOK ==
    /\ \A i \in DOMAIN pending : pending[i].kind = "enter" =>
           /\ Import(pending[i].path, pending[i].importer) \in Due
           /\ stack # <<>> => \E j \in DOMAIN pending :
                  /\ i < j /\ pending[j] = Exit(pending[i].importer)
                  /\ \A k \in i..(j - 1) : pending[k].kind = "enter"
    /\ Loading /\ stack = <<>> => current # NoEntry /\ pending = <<EventOf(current)>>
    /\ Elements(queue) \subseteq Due
    /\ current # NoEntry =>
           /\ current \in Due
           /\ current \in Got \/ (stack = <<>> /\ pending = <<EventOf(current)>>)

\* What is in the cache was read without error from the program's files.
FilesOK ==
    \A f \in Files : loaded[f] # 0 =>
        f \in Below /\ disk[f].state = "ok" /\ deps[f] = disk[f].imports /\ f \notin Doubled

\* A module being loaded is imported by the one below it; an import of it
\* has its event still to come, or is served by none of the modules that wait.
ChainOK ==
    /\ \A i, j \in DOMAIN stack : i < j => stack[j] \in ReachOf[stack[i]]
    /\ \A i \in DOMAIN stack : \A d \in Written : d.importer = stack[i] =>
           \/ EventOf(d) \in Elements(pending)
           \/ d \in Got /\ \A j \in 1..i : stack[j] # Target[d]

\* A complete module was completed after the very modules that its imports name.
RanksOK ==
    \A d \in Written : d.importer \in Complete =>
        /\ d \in Got /\ Target[d] \notin Active
        /\ d.path \notin VirtualPaths => rank[Target[d]] < rank[d.importer]

\* How far the imports of the entry are: n of them are merged, in order, and
\* the others come first in the queue.
Identities(n) == {IdentityOf[EntryImports[i]] : i \in 1..n}
Queued(n) == \A i \in DOMAIN EntryImports : n < i =>
                 i - n \in DOMAIN queue /\ queue[i - n] = EntryImports[i]
Merged(n) == /\ n <= Len(result)
             /\ \A i \in 1..n : EntryImports[i] \in Got /\ result[i] = Target[EntryImports[i]]
Waits(n) == /\ Len(result) = n
            /\ \/ current = NoEntry /\ seen = Identities(n) /\ Queued(n)
               \/ current = EntryImports[n + 1] /\ seen = Identities(n + 1) /\ Queued(n + 1)

EntryPlan == \E n \in {0} \cup DOMAIN EntryImports :
                 Merged(n) /\ (n + 1 \in DOMAIN EntryImports => Waits(n))

\* The merged modules are those whose identity was seen, once each, and all
\* that they import has been seen or is queued.
KeyIdentity(k) == IF k \in Files THEN <<"file", k>> ELSE <<"virtual", k>>

MergedOK ==
    /\ current # NoEntry => IdentityOf[current] \in seen
    /\ \A id \in seen : \/ id[2] \in Elements(result)
                        \/ current # NoEntry /\ id = IdentityOf[current]
    /\ \A k \in Elements(result) :
           /\ KeyIdentity(k) \in seen /\ loaded[k] # 0 /\ k \in ReachedKeys
           /\ current # NoEntry => KeyIdentity(k) # IdentityOf[current]
    /\ \A i, j \in DOMAIN result : i # j => result[i] # result[j]
    /\ \A d \in Written : d.importer \in Elements(result) =>
           d \in Elements(queue) \/ IdentityOf[d] \in seen

ProgramOK ==
    /\ disk[Entry].state = "ok" /\ Entry \notin Doubled
    /\ EventsOK /\ FilesOK /\ ChainOK /\ RanksOK /\ EntryPlan /\ MergedOK

ProgramInv == Judging => ProgramOK

(***************************************************************************)
(* The inductive invariant of what the imports are bound to                *)
(***************************************************************************)

\* A name of the table that is in use has the symbols of its own module.
TableInv ==
    /\ \A p \in VirtualPaths : table[p] \in {NoModule, VirtualKey[p]}
    /\ \A f \in Files : loaded[f] # 0 => table[f] = f /\ f \notin VirtualPaths

\* The name that an import is bound to, and the imports whose name is registered:
\* that of a file is as long as the file is loaded.
NameOf == [d \in QueueEntries |-> IF d.path \in VirtualPaths \/ Target[d] = NoModule
                                  THEN d.path ELSE Target[d]]
Registered == {d \in QueueEntries : d.path \in VirtualPaths => table[d.path] = VirtualKey[d.path]}

BindingsOK ==
    /\ \A i \in DOMAIN EntryImports : bindings[EntryImports[i].path] = NameOf[EntryImports[i]]
    /\ \A i \in DOMAIN EntryImports : i <= Len(result) => EntryImports[i] \in Registered
    /\ current # NoEntry =>
           current \in Registered \/ (stack = <<>> /\ pending = <<EventOf(current)>>)

BindingsInv == TableInv /\ (Judging => BindingsOK)

(***************************************************************************)
(* Lemmas on imports                                                       *)
(***************************************************************************)

\* What an import means depends on the files alone.
LEMMA SameDisk ==
    ASSUME disk' = disk
    PROVE  /\ Written' = Written /\ Target' = Target /\ IdentityOf' = IdentityOf
           /\ Found' = Found /\ Doubled' = Doubled /\ ReachOf' = ReachOf
           /\ Below' = Below /\ Due' = Due /\ ReachedKeys' = ReachedKeys
           /\ EntryImports' = EntryImports
<1>1. \A c : FirstExisting(c)' = FirstExisting(c)
  BY DEF FirstExisting, Exists
<1>2. \A p, f : Resolve(p, f)' = Resolve(p, f)
  BY <1>1 DEF Resolve
<1>3. \A p, f : Identity(p, f)' = Identity(p, f)
  BY <1>2 DEF Identity
<1>4. \A p, f : Shadowed(p, f)' = Shadowed(p, f)
  BY DEF Shadowed, Exists
<1>5. Target' = Target /\ IdentityOf' = IdentityOf
  BY <1>2, <1>3 DEF Target, IdentityOf
<1>6. Found' = Found
  BY <1>4, <1>5 DEF Found
<1>7. \A f : Imports(f)' = Imports(f) /\ Succ(f)' = Succ(f)
  BY <1>2 DEF Imports, Succ
<1>8. \A S : Reach(S)' = Reach(S)
  BY <1>7 DEF Reach, Closed
<1>9. \A f : Reach(Succ(f))' = Reach(Succ(f))
  BY <1>7, <1>8
<1>10. Below' = Below /\ ReachOf' = ReachOf /\ Written' = Written
  BY <1>7, <1>9 DEF Below, ReachOf, Written
<1>11. Due' = Due
  BY <1>10 DEF Due
<1>12. \A s, f : HasDuplicate(s, f)' = HasDuplicate(s, f)
  BY <1>3 DEF HasDuplicate
<1>13. Doubled' = Doubled
  BY <1>12 DEF Doubled
<1>14. ReachedKeys' = ReachedKeys
  BY <1>7, <1>9 DEF ReachedKeys
<1>15. EntryImports' = EntryImports
  BY DEF EntryImports
<1> QED
  BY <1>5, <1>6, <1>10, <1>11, <1>13, <1>14, <1>15

\* Events and imports differ by what they name.
LEMMA EventFacts ==
    /\ \A k, l : Exit(k) = Exit(l) => k = l
    /\ \A k : Exit(k).kind = "exit"
    /\ \A d : /\ EventOf(d).kind = "enter"
              /\ EventOf(d).path = d.path /\ EventOf(d).importer = d.importer
    /\ \A p, f : Import(p, f).path = p /\ Import(p, f).importer = f
    /\ \A p \in Paths, f \in Files : Import(p, f) \in QueueEntries
    /\ \A d \in QueueEntries : /\ d.path \in Paths /\ d.importer \in Files
                               /\ d = Import(d.path, d.importer)
    /\ \A e \in EnterEvents : e = EventOf(Import(e.path, e.importer))
    /\ \A d, e \in QueueEntries : EventOf(d) = EventOf(e) => d = e
BY DEF Exit, Enter, EventOf, Import, EnterEvents, QueueEntries

\* Types of what a file imports.
LEMMA ImportTypes ==
    ASSUME TypeOK, NEW f \in Files
    PROVE  /\ disk[f].imports \in Seq(Paths) /\ Len(disk[f].imports) \in Nat
           /\ DOMAIN disk[f].imports = 1..Len(disk[f].imports)
           /\ Imports(f) \subseteq Paths
           /\ Succ(f) \subseteq Files
<1>1. disk[f].imports \in Seq(Paths)
  BY DiskImports DEF TypeOK
<1>2. \A i \in DOMAIN disk[f].imports : disk[f].imports[i] \in Paths
  BY <1>1, ElementOfSeq, LenProperties
<1>3. Imports(f) \subseteq Paths
  BY <1>2 DEF Imports, Elements
<1>4. \A p \in Imports(f) : Resolve(p, f) # NoModule => Resolve(p, f) \in Files
  BY <1>3, ResolveIsCandidate
<1>5. Succ(f) \subseteq Files
  BY <1>4 DEF Succ
<1> QED
  BY <1>1, <1>3, <1>5, LenProperties

\* The imports of a file are the entries made from its list.
LEMMA WrittenFacts ==
    ASSUME TypeOK
    PROVE  /\ Due \subseteq Written /\ Written \subseteq QueueEntries
           /\ \A f \in Files : \A p \in Imports(f) : Import(p, f) \in Written
           /\ DOMAIN EntryImports = 1..Len(EntryImports) /\ Len(EntryImports) \in Nat
           /\ Len(EntryImports) = Len(disk[Entry].imports)
           /\ \A i \in DOMAIN EntryImports : /\ EntryImports[i] \in Due
                                             /\ EntryImports[i].path = disk[Entry].imports[i]
                                             /\ EntryImports[i].importer = Entry
           /\ \A d \in Written : d.importer = Entry =>
                  \E i \in DOMAIN EntryImports : d = EntryImports[i]
<1>1. Due \subseteq Written /\ Written \subseteq QueueEntries
  BY DEF Due, Written
<1>2. \A f \in Files : \A p \in Imports(f) : Import(p, f) \in Written
  BY ImportTypes, EventFacts DEF Written
<1>3. Entry \in Files
  BY ConstantsAssumption
<1>4. PICK imports : imports = disk[Entry].imports
  OBVIOUS
<1>5. imports \in Seq(Paths) /\ DOMAIN imports = 1..Len(imports) /\ Len(imports) \in Nat
  BY <1>3, <1>4, ImportTypes
<1>6. EntryImports = [i \in 1..Len(imports) |-> Import(imports[i], Entry)]
  BY <1>4 DEF EntryImports
<1>7. DOMAIN EntryImports = 1..Len(imports) /\ Len(EntryImports) = Len(imports)
  BY <1>5, <1>6
<1>8. \A i \in 1..Len(imports) : imports[i] \in Imports(Entry) /\ EntryImports[i] = Import(imports[i], Entry)
  BY <1>4, <1>5, <1>6 DEF Imports, Elements
<1>9. \A i \in DOMAIN EntryImports : /\ EntryImports[i] \in Due
                                     /\ EntryImports[i].path = imports[i]
                                     /\ EntryImports[i].importer = Entry
  BY <1>2, <1>3, <1>7, <1>8, EventFacts DEF Due
<1>10. ASSUME NEW d \in Written, d.importer = Entry
       PROVE  \E i \in DOMAIN EntryImports : d = EntryImports[i]
  <2>1. d \in QueueEntries /\ d.path \in Imports(Entry)
    BY <1>10 DEF Written
  <2>2. PICK i \in 1..Len(imports) : d.path = imports[i]
    BY <2>1, <1>4, <1>5 DEF Imports, Elements
  <2> QED
    BY <2>1, <2>2, <1>7, <1>8, <1>10, EventFacts
<1> QED
  BY <1>1, <1>2, <1>4, <1>5, <1>7, <1>9, <1>10

\* Reach(S) is the smallest closed set around S.
LEMMA ReachIsClosed ==
    ASSUME TypeOK, NEW S \in SUBSET Files
    PROVE  /\ S \subseteq Reach(S) /\ Reach(S) \subseteq Files
           /\ \A f \in Reach(S) : Succ(f) \subseteq Reach(S)
           /\ \A C \in SUBSET Files : S \subseteq C /\ Closed(C) => Reach(S) \subseteq C
<1>1. \A f \in Reach(S) : f \in Files /\ Succ(f) \subseteq Files
  BY ImportTypes DEF Reach
<1>2. ASSUME NEW f \in Reach(S), NEW g \in Succ(f) PROVE g \in Reach(S)
  <2>1. ASSUME NEW C \in SUBSET Files, S \subseteq C, Closed(C) PROVE g \in C
    BY <2>1, <1>2 DEF Reach, Closed
  <2> QED
    BY <2>1, <1>1, <1>2 DEF Reach
<1> QED
  BY <1>1, <1>2 DEF Reach

\* The key that serves an import, and its identity.
LEMMA TargetFacts ==
    ASSUME NEW d \in QueueEntries
    PROVE  /\ Target[d] \in Keys \cup {NoModule}
           /\ d.path \in VirtualPaths => /\ Target[d] = VirtualKey[d.path]
                                         /\ Target[d] \in Keys \ Files /\ Target[d] # NoModule
           /\ d.path \notin VirtualPaths =>
                  /\ Target[d] = Resolve(d.path, d.importer)
                  /\ Target[d] # NoModule => Target[d] \in Files /\ d.path \notin StdPaths
           /\ d \in Found => Target[d] \in Keys /\ IdentityOf[d] = KeyIdentity(Target[d])
           /\ d \in Got => GetModule(d.path, d.importer) = Target[d]
<1>1. d.path \in Paths /\ d.importer \in Files
  BY EventFacts
<1>2. /\ Target[d] = IF d.path \in VirtualPaths THEN VirtualKey[d.path]
                     ELSE Resolve(d.path, d.importer)
      /\ IdentityOf[d] = Identity(d.path, d.importer)
      /\ d \in Found => Target[d] # NoModule
      /\ d \in Got => d \in Found /\ loaded[Target[d]] # 0
  BY DEF Target, IdentityOf, Found, Got
<1>3. CASE d.path \in VirtualPaths
  <2>1. VirtualKey[d.path] \in Keys /\ VirtualKey[d.path] \notin Files /\ VirtualKey[d.path] # NoModule
    BY <1>3, ConstantsAssumption
  <2> HIDE DEF Keys
  <2> QED
    BY <1>2, <1>3, <2>1 DEF Identity, KeyIdentity, GetModule
<1>4. CASE d.path \notin VirtualPaths
  <2>1. Resolve(d.path, d.importer) # NoModule =>
            Resolve(d.path, d.importer) \in Files /\ d.path \notin StdPaths
    BY <1>1, ResolveIsCandidate
  <2>2. Resolve(d.path, d.importer) \in Files => Resolve(d.path, d.importer) \in Keys
    BY DEF Keys
  <2> QED
    BY <1>2, <1>4, <2>1, <2>2 DEF Identity, KeyIdentity, GetModule
<1> QED
  BY <1>3, <1>4

\* Different keys have different identities.
LEMMA IdentityFacts ==
    /\ \A k : KeyIdentity(k)[2] = k
    /\ \A k, l : KeyIdentity(k) = KeyIdentity(l) => k = l
BY DEF KeyIdentity

\* The files of the program, and what their imports lead to.
LEMMA BelowFacts ==
    ASSUME TypeOK
    PROVE  /\ Below \subseteq Files
           /\ \A d \in Written : d.path \notin VirtualPaths /\ Target[d] # NoModule =>
                  /\ Target[d] \in Succ(d.importer)
                  /\ Target[d] \in ReachOf[d.importer]
                  /\ d \in Due => Target[d] \in Below
           /\ \A d \in Due : Target[d] # NoModule => Target[d] \in ReachedKeys
           /\ \A d \in Written : d.importer \in Below => d \in Due
<1>1. Entry \in Files /\ Succ(Entry) \subseteq Files
  BY ConstantsAssumption, ImportTypes
<1>2. /\ Succ(Entry) \subseteq Below /\ Below \subseteq Files
      /\ \A f \in Below : Succ(f) \subseteq Below
  BY <1>1, ReachIsClosed DEF Below
<1>3. ASSUME NEW d \in Written, d.path \notin VirtualPaths, Target[d] # NoModule
      PROVE  /\ Target[d] \in Succ(d.importer)
             /\ Target[d] \in ReachOf[d.importer]
             /\ d \in Due => Target[d] \in Below
  <2>1. d \in QueueEntries /\ d.path \in Imports(d.importer) /\ d.importer \in Files
    BY EventFacts DEF Written
  <2>2. Target[d] = Resolve(d.path, d.importer)
    BY <2>1, <1>3, TargetFacts
  <2>3. Target[d] \in Succ(d.importer)
    BY <2>1, <2>2, <1>3 DEF Succ
  <2>4. Target[d] \in ReachOf[d.importer]
    BY <2>1, <2>3, ImportTypes, ReachIsClosed DEF ReachOf
  <2>5. d \in Due => Target[d] \in Below
    BY <2>3, <1>2 DEF Due
  <2> QED
    BY <2>3, <2>4, <2>5
<1>4. ASSUME NEW d \in Due, Target[d] # NoModule
      PROVE  Target[d] \in ReachedKeys
  <2>1. d \in Written /\ d \in QueueEntries /\ d.path \in Imports(d.importer)
        /\ d.importer \in {Entry} \cup Below
    BY DEF Due, Written
  <2>2. CASE d.path \in VirtualPaths
    BY <2>1, <2>2, TargetFacts DEF ReachedKeys, Below
  <2>3. CASE d.path \notin VirtualPaths
    BY <2>1, <2>3, <1>3, <1>4 DEF ReachedKeys, Below
  <2> QED
    BY <2>2, <2>3
<1>5. \A d \in Written : d.importer \in Below => d \in Due
  BY DEF Due
<1> QED
  BY <1>2, <1>3, <1>4, <1>5

\* A duplicate that _raise_on_duplicate_imports finds is a module that is named
\* twice, or a name that nothing has.
LEMMA DuplicatesAreReal ==
    ASSUME TypeOK, NEW f \in Files
    PROVE  /\ f \in Doubled => ImportsTwice(f) \/ ~ImportsResolve(f)
           /\ f \notin Doubled => ~ImportsTwice(f)
<1> DEFINE imports == disk[f].imports
<1>1. /\ DOMAIN imports = 1..Len(imports) /\ Len(imports) \in Nat
      /\ \A i \in DOMAIN imports : imports[i] \in Imports(f) /\ imports[i] \in Paths
  BY ImportTypes DEF Imports, Elements
<1>2. ASSUME HasDuplicate(imports, f), ImportsResolve(f)
      PROVE  ImportsTwice(f)
  <2>1. PICK i, j \in DOMAIN imports :
            i # j /\ Identity(imports[i], f) = Identity(imports[j], f)
    BY <1>2 DEF HasDuplicate
  <2>2. \/ {imports[i], imports[j]} \cap VirtualPaths = {}
           /\ Resolve(imports[i], f) # NoModule
           /\ Resolve(imports[i], f) = Resolve(imports[j], f)
        \/ {imports[i], imports[j]} \subseteq VirtualPaths
           /\ VirtualKey[imports[i]] = VirtualKey[imports[j]]
    <3>1. \A k \in DOMAIN imports : imports[k] \in VirtualPaths \/ Resolve(imports[k], f) # NoModule
      BY <1>1, <1>2 DEF ImportsResolve
    <3> QED
      BY <2>1, <3>1 DEF Identity
  <2>3. i < j \/ j < i
    BY <2>1, <1>1
  <2> QED
    BY <2>2, <2>3 DEF ImportsTwice
<1>3. ASSUME ImportsTwice(f)
      PROVE  HasDuplicate(imports, f)
  <2>1. PICK i, j \in DOMAIN imports :
            /\ i < j
            /\ \/ {imports[i], imports[j]} \cap VirtualPaths = {}
                  /\ Resolve(imports[i], f) # NoModule
                  /\ Resolve(imports[i], f) = Resolve(imports[j], f)
               \/ {imports[i], imports[j]} \subseteq VirtualPaths
                  /\ VirtualKey[imports[i]] = VirtualKey[imports[j]]
    BY <1>3 DEF ImportsTwice
  <2>2. i # j
    BY <2>1, <1>1
  <2>3. Identity(imports[i], f) = Identity(imports[j], f)
    BY <2>1 DEF Identity
  <2> QED
    BY <2>2, <2>3 DEF HasDuplicate
<1> QED
  BY <1>2, <1>3 DEF Doubled

\* All imports of a file resolve when each is found.
LEMMA ResolvedImports ==
    ASSUME TypeOK, NEW f \in Files
    PROVE  ImportsResolve(f) <=> \A d \in Written : d.importer = f => d \in Found
<1>1. \A p \in Imports(f) : Import(p, f) \in Written
  BY WrittenFacts
<1>2. ASSUME NEW p \in Paths
      PROVE  Import(p, f) \in Found <=>
                 ~Shadowed(p, f) /\ (p \in VirtualPaths \/ Resolve(p, f) # NoModule)
  <2>1. Import(p, f) \in QueueEntries /\ Import(p, f).path = p /\ Import(p, f).importer = f
    BY EventFacts
  <2>2. PICK d \in QueueEntries : d = Import(p, f) /\ d.path = p /\ d.importer = f
    BY <2>1
  <2>3. d \in Found <=> ~Shadowed(p, f) /\ Target[d] # NoModule
    BY <2>2 DEF Found
  <2>4. Target[d] # NoModule <=> p \in VirtualPaths \/ Resolve(p, f) # NoModule
    BY <2>2, TargetFacts
  <2> QED
    BY <2>2, <2>3, <2>4
<1>3. \A d \in Written : d.importer = f => d.path \in Imports(f) /\ d = Import(d.path, f)
  BY EventFacts DEF Written
<1>4. Imports(f) \subseteq Paths
  BY ImportTypes
<1> QED
  BY <1>1, <1>2, <1>3, <1>4, EventFacts DEF ImportsResolve

(***************************************************************************)
(* The events of a load                                                    *)
(***************************************************************************)

\* The cache loses nothing but in a failure.
CacheGrows == \A k \in Keys : loaded[k] # 0 => loaded'[k] # 0

\* What the steps of a load leave alone.
LoadFrame == /\ disk' = disk /\ pristine' = pristine /\ call' = call
             /\ UNCHANGED programVars

\* What is loaded stays loaded.
LEMMA GotStays ==
    ASSUME disk' = disk, CacheGrows
    PROVE  Got \subseteq Got'
<1>1. Found' = Found /\ Target' = Target
  BY SameDisk
<1>2. \A d \in Got : d \in QueueEntries /\ d \in Found /\ Target[d] \in Keys /\ loaded[Target[d]] # 0
  BY TargetFacts DEF Got, Found
<1> QED
  BY <1>1, <1>2 DEF Got, CacheGrows

\* The event that runs next belongs to the module on top of the stack.
LEMMA NextImporter ==
    ASSUME TypeOK, StackPlan, EventsOK, Entering, stack # <<>>
    PROVE  Importer = stack[Len(stack)] /\ Len(stack) \in DOMAIN stack
<1>1. PICK ex \in [DOMAIN stack -> DOMAIN pending] : ExitsAt(ex)
  BY DEF StackPlan
<1>2. PICK n : n = Len(stack)
  OBVIOUS
<1>3. /\ 1 \in DOMAIN pending /\ pending[1].kind = "enter" /\ pending[1] = Head(pending)
      /\ DOMAIN pending = 1..Len(pending) /\ Len(pending) \in Nat
      /\ DOMAIN stack = 1..n /\ n \in DOMAIN stack
  <2>1. Loading /\ pending[1] = Head(pending) /\ Len(pending) \in Nat \ {0}
    BY TailFacts DEF Entering
  <2>2. n # 0
    BY <1>2, EmptySeq DEF TypeOK
  <2> QED
    BY <1>2, <2>1, <2>2, SequenceFacts DEF Entering
<1>4. PICK j \in DOMAIN pending : /\ 1 < j /\ pending[j] = Exit(Importer)
                                  /\ \A k \in 1..(j - 1) : pending[k].kind = "enter"
  BY <1>3 DEF EventsOK, Importer
<1>5. \A i \in DOMAIN stack : /\ ex[i] \in DOMAIN pending
                              /\ pending[ex[i]] = Exit(stack[i])
                              /\ pending[ex[i]].kind = "exit"
  BY <1>1, EventFacts DEF ExitsAt
<1>6. pending[j].kind = "exit"
  BY <1>4, EventFacts
<1>7. PICK i \in DOMAIN stack : ex[i] = j
  BY <1>1, <1>6 DEF ExitsAt
<1>8. stack[i] = Importer
  BY <1>4, <1>5, <1>7, EventFacts
<1>9. i = n
  <2>1. CASE i < n
    <3>1. ex[n] < j
      BY <1>1, <1>3, <1>7, <2>1 DEF ExitsAt
    <3>2. ex[n] \in 1..(j - 1)
      BY <3>1, <1>3, <1>5
    <3> QED
      BY <3>2, <1>3, <1>4, <1>5
  <2> QED
    BY <2>1, <1>3
<1> QED
  BY <1>2, <1>3, <1>8, <1>9

\* The exit event at the front is that of the module on top of the stack, which
\* has no other.
LEMMA NextExit ==
    ASSUME TypeOK, StackInv, Loading, Head(pending).kind = "exit"
    PROVE  /\ Len(stack) \in DOMAIN stack /\ pending[1] = Exit(stack[Len(stack)])
           /\ \A j \in DOMAIN pending : j # 1 => pending[j] # Exit(stack[Len(stack)])
           /\ Len(stack) = 1 => \A j \in DOMAIN pending : j # 1 => pending[j].kind = "enter"
<1>1. PICK ex \in [DOMAIN stack -> DOMAIN pending] : ExitsAt(ex)
  BY DEF StackInv, StackPlan
<1>2. PICK n : n = Len(stack)
  OBVIOUS
<1>3. /\ 1 \in DOMAIN pending /\ pending[1] = Head(pending)
      /\ DOMAIN pending = 1..Len(pending) /\ Len(pending) \in Nat
      /\ DOMAIN stack = 1..n /\ n \in Nat
      /\ \A j \in DOMAIN pending : pending[j].kind \in {"enter", "exit"}
  BY <1>2, TailFacts, SequenceFacts DEF EnterEvents, ExitEvents
<1>4. \A i \in DOMAIN stack : /\ ex[i] \in DOMAIN pending
                              /\ pending[ex[i]] = Exit(stack[i])
                              /\ pending[ex[i]].kind = "exit"
  BY <1>1, EventFacts DEF ExitsAt
<1>5. PICK i \in DOMAIN stack : ex[i] = 1
  BY <1>1, <1>3 DEF ExitsAt
<1>6. n \in DOMAIN stack
  BY <1>3, <1>5
<1>7. i = n
  <2>1. CASE i < n
    <3>1. ex[n] < 1 /\ ex[n] \in 1..Len(pending)
      BY <1>1, <1>3, <1>5, <1>6, <2>1 DEF ExitsAt
    <3> QED
      BY <3>1, <1>3
  <2> QED
    BY <2>1, <1>3
<1>8. \A j \in DOMAIN pending : j # 1 => pending[j] # Exit(stack[n])
  <2> SUFFICES ASSUME NEW j \in DOMAIN pending, pending[j] = Exit(stack[n])
               PROVE  j = 1
    OBVIOUS
  <2>1. PICK k \in DOMAIN stack : ex[k] = j
    BY <1>1, EventFacts DEF ExitsAt
  <2>2. stack[k] = stack[n]
    BY <2>1, <1>4, EventFacts
  <2>3. k = n
    BY <2>2, <1>6 DEF StackInv
  <2> QED
    BY <2>1, <2>3, <1>5, <1>7
<1>9. n = 1 => \A j \in DOMAIN pending : j # 1 => pending[j].kind = "enter"
  <2> SUFFICES ASSUME n = 1, NEW j \in DOMAIN pending, pending[j].kind # "enter"
               PROVE  j = 1
    OBVIOUS
  <2>1. PICK k \in DOMAIN stack : ex[k] = j
    BY <1>1, <1>3 DEF ExitsAt
  <2>2. k = i
    BY <1>3
  <2> QED
    BY <2>1, <2>2, <1>5
<1> QED
  BY <1>2, <1>4, <1>5, <1>6, <1>7, <1>8, <1>9

\* Popping an event keeps the order of the others.
LEMMA TailKeepsEvents ==
    ASSUME TypeOK, EventsOK, Loading, pending' = Tail(pending),
           NEW i \in DOMAIN pending', pending'[i].kind = "enter"
    PROVE  /\ Import(pending'[i].path, pending'[i].importer) \in Due
           /\ stack # <<>> => \E j \in DOMAIN pending' :
                  /\ i < j /\ pending'[j] = Exit(pending'[i].importer)
                  /\ \A k \in i..(j - 1) : pending'[k].kind = "enter"
<1>1. /\ Len(pending) \in Nat \ {0}
      /\ DOMAIN pending = 1..Len(pending) /\ DOMAIN pending' = 1..(Len(pending) - 1)
      /\ \A k \in DOMAIN pending' : pending'[k] = pending[k + 1]
  BY TailFacts, SequenceFacts
<1>2. PICK e : e = pending'[i]
  OBVIOUS
<1>3. i + 1 \in DOMAIN pending /\ pending[i + 1] = e /\ e.kind = "enter"
  BY <1>1, <1>2
<1>4. Import(e.path, e.importer) \in Due
  BY <1>3 DEF EventsOK
<1>5. ASSUME stack # <<>>
      PROVE  \E j \in DOMAIN pending' :
                  /\ i < j /\ pending'[j] = Exit(e.importer)
                  /\ \A k \in i..(j - 1) : pending'[k].kind = "enter"
  <2>1. PICK j \in DOMAIN pending :
            /\ i + 1 < j /\ pending[j] = Exit(e.importer)
            /\ \A k \in (i + 1)..(j - 1) : pending[k].kind = "enter"
    BY <1>3, <1>5 DEF EventsOK
  <2>2. j - 1 \in DOMAIN pending' /\ i < j - 1 /\ pending'[j - 1] = pending[j]
    BY <1>1, <2>1
  <2>3. ASSUME NEW k \in i..((j - 1) - 1) PROVE pending'[k].kind = "enter"
    <3>1. k + 1 \in (i + 1)..(j - 1) /\ k \in DOMAIN pending'
      BY <1>1, <2>1
    <3> QED
      BY <3>1, <1>1, <2>1
  <2> QED
    BY <2>1, <2>2, <2>3
<1> QED
  BY <1>2, <1>4, <1>5

\* The order of the events when that of an import that is loaded is popped.
LEMMA PopKeepsEvents ==
    ASSUME TypeOK, EventsOK, Entering, LoadFrame, CacheGrows,
           pending' = Tail(pending), stack' = stack, Import(Path, Importer) \in Got'
    PROVE  EventsOK'
<1>1. Loading /\ pending # <<>>
  BY DEF Entering, Loading
<1>2. disk' = disk /\ queue' = queue /\ current' = current
  BY DEF LoadFrame, programVars
<1>3. Due' = Due /\ Got \subseteq Got' /\ Due \subseteq QueueEntries
  BY <1>2, SameDisk, GotStays, WrittenFacts
<1>4. ASSUME NEW i \in DOMAIN pending', pending'[i].kind = "enter"
      PROVE  /\ Import(pending'[i].path, pending'[i].importer) \in Due
             /\ stack # <<>> => \E j \in DOMAIN pending' :
                    /\ i < j /\ pending'[j] = Exit(pending'[i].importer)
                    /\ \A k \in i..(j - 1) : pending'[k].kind = "enter"
  BY <1>1, <1>4, TailKeepsEvents
<1>5. Loading' => stack # <<>>
  <2> SUFFICES ASSUME stack = <<>> PROVE pending' = <<>>
    BY DEF Loading
  <2>1. pending = <<EventOf(current)>>
    BY <1>1 DEF EventsOK
  <2> QED
    BY <2>1
<1>6. ASSUME current # NoEntry
      PROVE  current \in Due /\ current \in Got'
  <2>1. current \in Due
    BY <1>6 DEF EventsOK
  <2>2. CASE current \in Got
    BY <2>1, <2>2, <1>3
  <2>3. CASE pending = <<EventOf(current)>>
    <3>1. Head(pending) = EventOf(current)
      BY <2>3
    <3>2. Path = current.path /\ Importer = current.importer
      BY <3>1, EventFacts DEF Path, Importer
    <3>3. Import(Path, Importer) = current
      BY <3>2, <2>1, <1>3, EventFacts
    <3> QED
      BY <3>3, <2>1
  <2> QED
    BY <2>2, <2>3, <1>6 DEF EventsOK
<1>7. Elements(queue) \subseteq Due
  BY DEF EventsOK
<1> QED
  BY <1>2, <1>3, <1>4, <1>5, <1>6, <1>7 DEF EventsOK, Loading

\* So does it the chain of the modules that wait, when it is none of them that is
\* loaded.
LEMMA PopKeepsChain ==
    ASSUME TypeOK, ChainOK, Entering, LoadFrame, CacheGrows,
           pending' = Tail(pending), stack' = stack, Import(Path, Importer) \in Got',
           Target[Import(Path, Importer)] \notin Active
    PROVE  ChainOK'
<1>1. disk' = disk
  BY DEF LoadFrame
<1>2. /\ ReachOf' = ReachOf /\ Target' = Target /\ Written' = Written
      /\ Got \subseteq Got' /\ Written \subseteq QueueEntries
  BY <1>1, SameDisk, GotStays, WrittenFacts
<1>3. ASSUME NEW i \in DOMAIN stack, NEW d \in Written, d.importer = stack[i]
      PROVE  \/ EventOf(d) \in Elements(pending')
             \/ d \in Got' /\ \A j \in 1..i : stack[j] # Target[d]
  <2>1. CASE EventOf(d) \in Elements(pending)
    <3>1. PICK k \in DOMAIN pending : pending[k] = EventOf(d)
      BY <2>1 DEF Elements
    <3>2. /\ Loading /\ Head(pending) = pending[1] /\ Len(pending) \in Nat \ {0}
          /\ DOMAIN pending = 1..Len(pending) /\ DOMAIN pending' = 1..(Len(pending) - 1)
          /\ \A n \in DOMAIN pending' : pending'[n] = pending[n + 1]
      BY TailFacts, SequenceFacts DEF Entering
    <3>3. CASE k = 1
      <4>1. Head(pending) = EventOf(d)
        BY <3>1, <3>2, <3>3
      <4>2. Path = d.path /\ Importer = d.importer
        BY <4>1, EventFacts DEF Path, Importer
      <4>3. Import(Path, Importer) = d
        BY <4>2, <1>2, EventFacts
      <4>4. \A j \in 1..i : stack[j] \in Active
        BY SequenceFacts DEF Active, Elements
      <4> QED
        BY <4>3, <4>4
    <3>4. CASE k # 1
      <4>1. k - 1 \in DOMAIN pending' /\ pending'[k - 1] = EventOf(d)
        BY <3>1, <3>2, <3>4
      <4> QED
        BY <4>1 DEF Elements
    <3> QED
      BY <3>3, <3>4
  <2>2. CASE d \in Got /\ \A j \in 1..i : stack[j] # Target[d]
    BY <2>2, <1>2
  <2> QED
    BY <2>1, <2>2, <1>3 DEF ChainOK
<1>4. \A i \in DOMAIN stack' : \A d \in Written' : d.importer = stack'[i] =>
           \/ EventOf(d) \in Elements(pending')
           \/ d \in Got' /\ \A j \in 1..i : stack'[j] # Target'[d]
  BY <1>2, <1>3
<1>5. \A i, j \in DOMAIN stack' : i < j => stack'[j] \in ReachOf'[stack'[i]]
  BY <1>2 DEF ChainOK
<1>6. Elements(pending)' = Elements(pending')
  BY DEF Elements
<1> QED
  BY <1>4, <1>5, <1>6 DEF ChainOK

\* What the loop over the program has done is left alone by a load.
LEMMA LoadKeepsPlan ==
    ASSUME TypeOK, EntryPlan, MergedOK, LoadFrame, CacheGrows
    PROVE  EntryPlan' /\ MergedOK'
<1>1. disk' = disk /\ queue' = queue /\ seen' = seen /\ result' = result /\ current' = current
  BY DEF LoadFrame, programVars
<1>2. /\ EntryImports' = EntryImports /\ IdentityOf' = IdentityOf /\ Written' = Written
      /\ ReachedKeys' = ReachedKeys /\ Target' = Target /\ Got \subseteq Got'
  BY <1>1, SameDisk, GotStays
<1>3. EntryPlan'
  <2>1. PICK n \in {0} \cup DOMAIN EntryImports :
            Merged(n) /\ (n + 1 \in DOMAIN EntryImports => Waits(n))
    BY DEF EntryPlan
  <2>2. Merged(n)'
    BY <2>1, <1>1, <1>2 DEF Merged
  <2>3. (n + 1 \in DOMAIN EntryImports => Waits(n))'
    BY <2>1, <1>1, <1>2 DEF Waits, Identities, Queued
  <2> QED
    BY <2>1, <2>2, <2>3, <1>2 DEF EntryPlan
<1>4. MergedOK'
  <2>1. \A k \in Elements(result) : k \in Keys
    BY ElementOfSeq, LenProperties DEF TypeOK, Elements
  <2>2. \A k \in Elements(result) : loaded'[k] # 0
    BY <2>1 DEF MergedOK, CacheGrows
  <2> QED
    BY <2>2, <1>1, <1>2 DEF MergedOK, Elements
<1> QED
  BY <1>3, <1>4

\* Files in the cache are left alone by the steps that read none.
LEMMA LoadKeepsFiles ==
    ASSUME TypeOK, FilesOK, RanksOK, disk' = disk, CacheGrows, stack' = stack,
           \A f \in Files : loaded'[f] = loaded[f] /\ deps'[f] = deps[f] /\ rank'[f] = rank[f]
    PROVE  FilesOK' /\ RanksOK'
<1>1. disk' = disk
  OBVIOUS
<1>2. /\ Below' = Below /\ Doubled' = Doubled /\ Target' = Target /\ Written' = Written
      /\ Got \subseteq Got' /\ Written \subseteq QueueEntries
  BY <1>1, SameDisk, GotStays, WrittenFacts
<1>3. FilesOK'
  BY <1>1, <1>2 DEF FilesOK
<1>4. ASSUME NEW d \in Written, d.importer \in Complete'
      PROVE  /\ d \in Got' /\ Target[d] \notin Active
             /\ d.path \notin VirtualPaths => rank'[Target[d]] < rank'[d.importer]
  <2>1. d \in QueueEntries /\ d.importer \in Files
    BY <1>2, EventFacts
  <2>2. d.importer \in Complete
    BY <2>1, <1>4 DEF Complete, Active, Elements
  <2>3. d \in Got /\ Target[d] \notin Active
    BY <2>2 DEF RanksOK
  <2>4. d.path \notin VirtualPaths => Target[d] \in Files /\ rank[Target[d]] < rank[d.importer]
    BY <2>1, <2>2, <2>3, TargetFacts DEF RanksOK, Got, Found
  <2> QED
    BY <2>1, <2>3, <2>4, <1>2
<1>5. Active' = Active
  BY DEF Active, Elements
<1> QED
  BY <1>2, <1>3, <1>4, <1>5 DEF RanksOK

\* The import of the next event.
LEMMA NextImport ==
    ASSUME TypeOK, Entering, NEW d, d = Import(Path, Importer)
    PROVE  /\ d \in QueueEntries /\ d.path = Path /\ d.importer = Importer
           /\ EventOf(d) = Head(pending)
           /\ Path \notin VirtualPaths => Target[d] = File
           /\ Path \notin VirtualPaths /\ File # NoModule => d \in Found
           /\ EventsOK => d \in Due
<1>1. Path \in Paths /\ Importer \in Files /\ Loading
  BY NextEvent DEF Entering
<1>2. d \in QueueEntries /\ d.path = Path /\ d.importer = Importer
  BY <1>1, EventFacts
<1>3. Path \notin VirtualPaths => Target[d] = File
  BY <1>2, TargetFacts DEF File
<1>4. Path \notin VirtualPaths /\ File # NoModule => d \in Found
  <2>1. Path \notin VirtualPaths /\ File # NoModule => Path \notin StdPaths
    BY <1>1, ResolveIsCandidate DEF File
  <2> QED
    BY <2>1, <1>2, <1>3 DEF Found, Shadowed
<1>5. EventsOK => d \in Due
  <2>1. 1 \in DOMAIN pending /\ pending[1] = Head(pending) /\ pending[1].kind = "enter"
    BY <1>1, TailFacts, SequenceFacts DEF Entering
  <2> QED
    BY <2>1 DEF EventsOK, Path, Importer
<1>6. EventOf(d) = Head(pending)
  <2>1. Head(pending) \in EnterEvents
    BY <1>1, NextEvent DEF Entering, ExitEvents
  <2> QED
    BY <2>1, EventFacts DEF Path, Importer
<1> QED
  BY <1>2, <1>3, <1>4, <1>5, <1>6

\* A step of a load that fills the cache, or only pops an event.
LEMMA PopKeepsProgram ==
    ASSUME TypeOK, ProgramOK, Entering, LoadFrame, CacheGrows,
           pending' = Tail(pending), stack' = stack, Import(Path, Importer) \in Got',
           Target[Import(Path, Importer)] \notin Active,
           \A f \in Files : loaded'[f] = loaded[f] /\ deps'[f] = deps[f] /\ rank'[f] = rank[f]
    PROVE  ProgramOK'
<1>1. disk' = disk /\ Doubled' = Doubled
  BY SameDisk DEF LoadFrame
<1> QED
  BY <1>1, PopKeepsEvents, PopKeepsChain, LoadKeepsFiles, LoadKeepsPlan DEF ProgramOK

\* A standard module is loaded.
LEMMA VirtualKeepsProgram ==
    ASSUME TypeOK, ProgramOK, LoadVirtualModule
    PROVE  ProgramOK'
<1>1. /\ Entering /\ Path \in VirtualPaths /\ ~Shadowed(Path, Importer)
      /\ pending' = Tail(pending) /\ stack' = stack
      /\ UNCHANGED programVars /\ UNCHANGED envVars /\ call' = call
  BY DEF LoadVirtualModule
<1>2. LoadFrame
  BY <1>1 DEF LoadFrame, envVars
<1>3. PICK key : key = VirtualKey[Path]
  OBVIOUS
<1>4. key \in Keys /\ key \notin Files /\ key # NoModule
  BY <1>1, <1>3, ConstantsAssumption
<1>5. IF loaded[key] = 0
      THEN /\ loaded' = [loaded EXCEPT ![key] = clock + 1]
           /\ rank' = [rank EXCEPT ![key] = clock + 1]
           /\ deps' = [deps EXCEPT ![key] = <<>>]
      ELSE UNCHANGED <<loaded, rank, deps>>
  BY <1>3 DEF LoadVirtualModule
<1>6. /\ CacheGrows /\ loaded'[key] # 0
      /\ \A f \in Files : loaded'[f] = loaded[f] /\ deps'[f] = deps[f] /\ rank'[f] = rank[f]
  <2>1. loaded \in [Keys -> Nat] /\ rank \in [Keys -> Nat] /\ DOMAIN deps = Keys /\ clock + 1 # 0
    BY DEF TypeOK
  <2>2. Files \subseteq Keys
    BY DEF Keys
  <2> HIDE DEF Keys
  <2>3. CASE loaded[key] = 0
    BY <1>4, <1>5, <2>1, <2>2, <2>3 DEF CacheGrows
  <2>4. CASE loaded[key] # 0
    BY <1>4, <1>5, <2>1, <2>2, <2>4 DEF CacheGrows
  <2> QED
    BY <2>3, <2>4
<1>7. PICK d : d = Import(Path, Importer)
  OBVIOUS
<1>8. d \in QueueEntries /\ d.path = Path /\ d.importer = Importer
  BY <1>1, <1>7, NextImport
<1>9. Target[d] = key
  BY <1>1, <1>3, <1>8, TargetFacts
<1>10. d \in Got'
  <2>1. Found' = Found /\ Target' = Target
    BY <1>2, SameDisk DEF LoadFrame
  <2>2. d \in Found
    BY <1>1, <1>4, <1>8, <1>9 DEF Found
  <2> QED
    BY <2>1, <2>2, <1>6, <1>9 DEF Got
<1>11. Target[d] \notin Active
  BY <1>4, <1>9, SequenceFacts DEF Active, Elements
<1> QED
  BY <1>1, <1>2, <1>6, <1>7, <1>10, <1>11, PopKeepsProgram

\* A cached file is found.
LEMMA SkipKeepsProgram ==
    ASSUME TypeOK, ProgramOK, SkipCached
    PROVE  ProgramOK'
<1>1. /\ Entering /\ Path \notin VirtualPaths /\ File # NoModule /\ File \notin Active
      /\ loaded[File] # 0 /\ pending' = Tail(pending) /\ stack' = stack
      /\ UNCHANGED programVars /\ UNCHANGED envVars /\ UNCHANGED cacheVars /\ call' = call
  BY DEF SkipCached
<1>2. LoadFrame
  BY <1>1 DEF LoadFrame, envVars
<1>3. /\ CacheGrows
      /\ \A f \in Files : loaded'[f] = loaded[f] /\ deps'[f] = deps[f] /\ rank'[f] = rank[f]
  BY <1>1 DEF CacheGrows, cacheVars
<1>4. PICK d : d = Import(Path, Importer)
  OBVIOUS
<1>5. Target[d] = File /\ d \in Found
  BY <1>1, <1>4, NextImport
<1>6. d \in Got /\ Target[d] \notin Active
  BY <1>1, <1>5 DEF Got
<1>7. d \in Got'
  BY <1>2, <1>3, <1>6, GotStays DEF LoadFrame
<1> QED
  BY <1>1, <1>2, <1>3, <1>4, <1>6, <1>7, PopKeepsProgram

\* The events when a file is read: those of its imports come first.
LEMMA ReadKeepsEvents ==
    ASSUME TypeOK, EventsOK, ReadModule, LoadFrame, CacheGrows,
           Import(Path, Importer) \in Got', File \in Below
    PROVE  EventsOK'
<1> DEFINE imports == disk[File].imports
           m == Len(imports)
<1>1. /\ Entering /\ Loading /\ pending # <<>> /\ File # NoModule /\ File \in Files
      /\ disk' = disk /\ queue' = queue /\ current' = current
  BY NextEvent DEF ReadModule, Uncached, Entering, Loading, LoadFrame, programVars
<1>2. /\ imports \in Seq(Paths) /\ m \in Nat /\ DOMAIN imports = 1..m
      /\ DOMAIN pending' = 1..(m + Len(pending))
      /\ \A q \in 1..m : pending'[q] = Enter(imports[q], File)
      /\ pending'[m + 1] = Exit(File)
      /\ \A q \in 2..Len(pending) : pending'[m + q] = pending[q]
      /\ Len(stack') = Len(stack) + 1
  BY ReadShape
<1>3. /\ Due' = Due /\ Got \subseteq Got' /\ Due \subseteq QueueEntries
      /\ \A d \in Written : d.importer \in Below => d \in Due
  BY <1>1, SameDisk, GotStays, WrittenFacts, BelowFacts
<1>4. /\ DOMAIN pending = 1..Len(pending) /\ Len(pending) \in Nat \ {0}
      /\ \A q \in 1..m : imports[q] \in Imports(File)
  BY <1>1, <1>2, TailFacts, SequenceFacts DEF Imports, Elements
<1> HIDE DEF imports, m
<1>5. ASSUME NEW i \in DOMAIN pending', pending'[i].kind = "enter"
      PROVE  /\ Import(pending'[i].path, pending'[i].importer) \in Due
             /\ \E j \in DOMAIN pending' :
                    /\ i < j /\ pending'[j] = Exit(pending'[i].importer)
                    /\ \A k \in i..(j - 1) : pending'[k].kind = "enter"
  <2>1. CASE i \in 1..m
    <3>1. PICK p : p = imports[i] /\ pending'[i] = Enter(p, File) /\ p \in Imports(File)
      BY <2>1, <1>2, <1>4
    <3>2. Import(p, File) \in Written /\ Import(p, File).importer = File
      BY <3>1, <1>1, WrittenFacts, EventFacts
    <3>3. Import(p, File) \in Due
      BY <3>2, <1>3
    <3>4. ASSUME NEW q \in 1..m PROVE pending'[q].kind = "enter"
      <4>1. PICK e : e = imports[q] /\ pending'[q] = Enter(e, File)
        BY <1>2
      <4> QED
        BY <4>1 DEF Enter
    <3>5. m + 1 \in DOMAIN pending' /\ i < m + 1 /\ \A k \in i..((m + 1) - 1) : k \in 1..m
      BY <2>1, <1>2, <1>4
    <3>6. pending'[i].path = p /\ pending'[i].importer = File
      BY <3>1 DEF Enter
    <3> QED
      BY <3>3, <3>4, <3>5, <3>6, <1>2
  <2>2. CASE i = m + 1
    BY <2>2, <1>2, <1>5, EventFacts
  <2>3. CASE i \notin 1..m /\ i # m + 1
    <3>1. PICK q \in 2..Len(pending) : i = m + q
      <4>1. i - m \in 2..Len(pending) /\ i = m + (i - m)
        BY <2>3, <1>2, <1>4
      <4> QED
        BY <4>1
    <3>2. PICK e : e = pending[q] /\ e = pending'[i] /\ e.kind = "enter"
      BY <3>1, <1>2, <1>5
    <3>3. q \in DOMAIN pending /\ Import(e.path, e.importer) \in Due
      <4>1. q \in DOMAIN pending
        BY <3>1, <1>4
      <4> QED
        BY <4>1, <3>2 DEF EventsOK
    <3>4. stack # <<>>
      <4> SUFFICES ASSUME stack = <<>> PROVE FALSE
        OBVIOUS
      <4>1. pending = <<EventOf(current)>>
        BY <1>1 DEF EventsOK
      <4>2. Len(pending) = 1
        BY <4>1
      <4> QED
        BY <3>1, <4>2
    <3>5. PICK j \in DOMAIN pending : /\ q < j /\ pending[j] = Exit(e.importer)
                                      /\ \A k \in q..(j - 1) : pending[k].kind = "enter"
      BY <3>2, <3>3, <3>4 DEF EventsOK
    <3>6. /\ m + j \in DOMAIN pending' /\ i < m + j /\ pending'[m + j] = Exit(e.importer)
      BY <3>1, <3>5, <1>2, <1>4
    <3>7. ASSUME NEW k \in i..((m + j) - 1) PROVE pending'[k].kind = "enter"
      <4>1. k - m \in q..(j - 1) /\ k - m \in 2..Len(pending) /\ m + (k - m) = k
        BY <3>1, <3>5, <1>2, <1>4
      <4> QED
        BY <4>1, <3>5, <1>2
    <3> QED
      BY <3>2, <3>3, <3>6, <3>7
  <2> QED
    BY <2>1, <2>2, <2>3
<1>6. stack' # <<>>
  <2> SUFFICES ASSUME stack' = <<>> PROVE FALSE
    OBVIOUS
  <2>1. Len(stack') = 0 /\ Len(stack) \in Nat
    BY EmptySeq, SequenceFacts
  <2> QED
    BY <2>1, <1>2
<1>7. ASSUME current # NoEntry
      PROVE  current \in Due /\ current \in Got'
  <2>1. current \in Due
    BY <1>7 DEF EventsOK
  <2>2. CASE current \in Got
    BY <2>1, <2>2, <1>3
  <2>3. CASE pending = <<EventOf(current)>>
    <3>1. Head(pending) = EventOf(current)
      BY <2>3
    <3>2. Path = current.path /\ Importer = current.importer
      BY <3>1, EventFacts DEF Path, Importer
    <3>3. Import(Path, Importer) = current
      BY <3>2, <2>1, <1>3, EventFacts
    <3> QED
      BY <3>3, <2>1
  <2> QED
    BY <2>2, <2>3, <1>7 DEF EventsOK
<1>8. Elements(queue) \subseteq Due
  BY DEF EventsOK
<1> QED
  BY <1>1, <1>3, <1>5, <1>6, <1>7, <1>8 DEF EventsOK

\* Every module that waits reaches the file that is next.
LEMMA NextReached ==
    ASSUME TypeOK, StackPlan, EventsOK, ChainOK, Entering,
           Path \notin VirtualPaths, File # NoModule, NEW i \in DOMAIN stack
    PROVE  File \in ReachOf[stack[i]]
<1>1. PICK n : n = Len(stack)
  OBVIOUS
<1>2. DOMAIN stack = 1..n /\ n \in Nat /\ \A j \in DOMAIN stack : stack[j] \in Files
  BY <1>1, SequenceFacts
<1>3. PICK d : d = Import(Path, Importer)
  OBVIOUS
<1>4. /\ d \in Due /\ d \in Written /\ Target[d] = File /\ d.importer = Importer
      /\ d.path = Path
  BY <1>3, NextImport, WrittenFacts
<1>5. File \in Succ(Importer) /\ File \in ReachOf[Importer]
  BY <1>4, BelowFacts
<1>6. Importer = stack[n] /\ n \in DOMAIN stack
  <2>1. stack # <<>>
    BY <1>1, <1>2, EmptySeq
  <2> QED
    BY <2>1, <1>1, NextImporter
<1>7. CASE i = n
  BY <1>5, <1>6, <1>7
<1>8. CASE i # n
  <2>1. PICK f : f = stack[i] /\ f \in Files
    BY <1>2
  <2>2. i < n
    BY <1>2, <1>8
  <2>3. Importer \in Reach(Succ(f))
    BY <2>1, <2>2, <1>6 DEF ChainOK, ReachOf
  <2>4. File \in Reach(Succ(f))
    BY <2>1, <2>3, <1>5, ImportTypes, ReachIsClosed
  <2> QED
    BY <2>1, <2>4 DEF ReachOf
<1> QED
  BY <1>7, <1>8

\* The chain of the modules that wait grows by an import of the last one.
LEMMA ReadKeepsChain ==
    ASSUME TypeOK, StackPlan, EventsOK, ChainOK, ReadModule, LoadFrame, CacheGrows,
           Import(Path, Importer) \in Got'
    PROVE  ChainOK'
<1>1. /\ Entering /\ Loading /\ pending # <<>> /\ File # NoModule /\ File \in Files
      /\ File \notin Active /\ Path \notin VirtualPaths /\ disk' = disk
  BY NextEvent DEF ReadModule, Uncached, Entering, Loading, LoadFrame
<1>2. PICK imports, m, n : imports = disk[File].imports /\ m = Len(imports) /\ n = Len(stack)
  OBVIOUS
<1>3. /\ m \in Nat /\ n \in Nat /\ DOMAIN imports = 1..m /\ DOMAIN stack = 1..n
      /\ DOMAIN pending' = 1..(m + Len(pending))
      /\ \A q \in 1..m : pending'[q] = Enter(imports[q], File)
      /\ \A q \in 2..Len(pending) : pending'[m + q] = pending[q]
      /\ DOMAIN stack' = 1..(n + 1)
      /\ \A i \in 1..n : stack'[i] = stack[i] /\ stack[i] \in Files
      /\ stack'[n + 1] = File
  <2>1. /\ m \in Nat /\ DOMAIN imports = 1..m
        /\ DOMAIN pending' = 1..(m + Len(pending))
        /\ \A q \in 1..m : pending'[q] = Enter(imports[q], File)
        /\ \A q \in 2..Len(pending) : pending'[m + q] = pending[q]
        /\ DOMAIN stack' = 1..(n + 1)
        /\ \A i \in DOMAIN stack : stack'[i] = stack[i]
        /\ stack'[n + 1] = File
    BY <1>2, ReadShape
  <2>2. n \in Nat /\ DOMAIN stack = 1..n /\ \A i \in DOMAIN stack : stack[i] \in Files
    BY <1>2, SequenceFacts
  <2> QED
    BY <2>1, <2>2
<1>4. PICK d0 : d0 = Import(Path, Importer)
  OBVIOUS
<1>5. /\ d0 \in Due /\ EventOf(d0) = Head(pending) /\ Target[d0] = File
      /\ d0 \in QueueEntries /\ d0.importer = Importer /\ d0 \in Got'
  BY <1>1, <1>4, NextImport
<1>6. /\ ReachOf' = ReachOf /\ Target' = Target /\ Written' = Written
      /\ Got \subseteq Got' /\ Due \subseteq Written /\ Written \subseteq QueueEntries
      /\ Head(pending) = pending[1] /\ DOMAIN pending = 1..Len(pending) /\ Len(pending) \in Nat \ {0}
  BY <1>1, SameDisk, GotStays, WrittenFacts, TailFacts, SequenceFacts
<1>7. \A i \in 1..n : File \in ReachOf[stack[i]]
  BY <1>1, <1>3, NextReached
<1>8. \A i, j \in DOMAIN stack' : i < j => stack'[j] \in ReachOf'[stack'[i]]
  <2> SUFFICES ASSUME NEW i \in DOMAIN stack', NEW j \in DOMAIN stack', i < j
               PROVE  stack'[j] \in ReachOf'[stack'[i]]
    OBVIOUS
  <2>1. i \in 1..n
    BY <1>3
  <2>2. CASE j = n + 1
    BY <2>1, <2>2, <1>3, <1>6, <1>7
  <2>3. CASE j # n + 1
    <3>1. j \in 1..n
      BY <2>3, <1>3
    <3> QED
      BY <2>1, <3>1, <1>3, <1>6 DEF ChainOK
  <2> QED
    BY <2>2, <2>3
<1>9. ASSUME NEW i \in DOMAIN stack', NEW d \in Written, d.importer = stack'[i]
      PROVE  \/ EventOf(d) \in Elements(pending')
             \/ d \in Got' /\ \A j \in 1..i : stack'[j] # Target[d]
  <2>1. CASE i = n + 1
    <3>1. d.importer = File /\ d.path \in Imports(File)
      BY <2>1, <1>3, <1>9 DEF Written
    <3>2. PICK q \in 1..m : imports[q] = d.path
      BY <3>1, <1>2, <1>3 DEF Imports, Elements
    <3>3. pending'[q] = EventOf(d) /\ q \in DOMAIN pending'
      BY <3>1, <3>2, <1>3, <1>6 DEF EventOf
    <3> QED
      BY <3>3 DEF Elements
  <2>2. CASE i # n + 1
    <3>1. i \in 1..n /\ d.importer = stack[i] /\ \A j \in 1..i : j \in 1..n /\ stack'[j] = stack[j]
      <4>1. i \in 1..n
        BY <2>2, <1>3
      <4>2. \A j \in 1..i : j \in 1..n
        BY <4>1, <1>3
      <4> QED
        BY <4>1, <4>2, <1>3, <1>9
    <3>2. CASE EventOf(d) \in Elements(pending)
      <4>1. PICK k \in DOMAIN pending : pending[k] = EventOf(d)
        BY <3>2 DEF Elements
      <4>2. CASE k = 1
        <5>1. d = d0
          BY <4>1, <4>2, <1>5, <1>6, EventFacts
        <5>2. \A j \in 1..n : stack[j] \in Active
          BY <1>3 DEF Active, Elements
        <5> QED
          BY <5>1, <5>2, <3>1, <1>1, <1>5
      <4>3. CASE k # 1
        <5>1. k \in 2..Len(pending) /\ m + k \in DOMAIN pending'
          BY <4>3, <1>3, <1>6
        <5>2. pending'[m + k] = EventOf(d)
          BY <4>1, <5>1, <1>3
        <5> QED
          BY <5>1, <5>2 DEF Elements
      <4> QED
        BY <4>2, <4>3
    <3>3. CASE d \in Got /\ \A j \in 1..i : stack[j] # Target[d]
      BY <3>1, <3>3, <1>6
    <3> QED
      BY <3>1, <3>2, <3>3, <1>3 DEF ChainOK
  <2> QED
    BY <2>1, <2>2
<1>10. \A i \in DOMAIN stack' : \A d \in Written' : d.importer = stack'[i] =>
           \/ EventOf(d) \in Elements(pending')
           \/ d \in Got' /\ \A j \in 1..i : stack'[j] # Target'[d]
  BY <1>6, <1>9
<1>11. Elements(pending)' = Elements(pending')
  BY DEF Elements
<1> QED
  BY <1>8, <1>10, <1>11 DEF ChainOK

\* A file is read.
LEMMA ReadKeepsProgram ==
    ASSUME TypeOK, StackPlan, ProgramOK, ReadModule
    PROVE  ProgramOK'
<1>1. /\ EventsOK /\ FilesOK /\ ChainOK /\ RanksOK /\ EntryPlan /\ MergedOK
  BY DEF ProgramOK
<1>2. /\ Entering /\ Loading /\ File # NoModule /\ File \in Files /\ File \in Keys
      /\ loaded[File] = 0 /\ Path \notin VirtualPaths
      /\ disk[File].state = "ok" /\ ~HasDuplicate(disk[File].imports, File)
      /\ loaded' = [loaded EXCEPT ![File] = clock + 1]
      /\ deps' = [deps EXCEPT ![File] = disk[File].imports]
      /\ rank' = rank /\ stack' = Append(stack, File)
      /\ UNCHANGED programVars /\ UNCHANGED envVars /\ call' = call
  BY NextEvent DEF ReadModule, Uncached, Entering, Keys
<1>3. LoadFrame /\ disk' = disk
  BY <1>2 DEF LoadFrame, envVars
<1>4. loaded \in [Keys -> Nat] /\ DOMAIN deps = Keys /\ clock + 1 # 0 /\ stack \in Seq(Files)
  BY DEF TypeOK
<1>5. CacheGrows /\ loaded'[File] # 0
  BY <1>2, <1>4 DEF CacheGrows
<1>6. PICK d : d = Import(Path, Importer)
  OBVIOUS
<1>7. d \in Due /\ d \in Found /\ Target[d] = File /\ d \in QueueEntries /\ d.path = Path
  BY <1>1, <1>2, <1>6, NextImport
<1>8. File \in Below
  BY <1>2, <1>7, BelowFacts, WrittenFacts
<1>9. /\ Found' = Found /\ Target' = Target /\ Below' = Below /\ Doubled' = Doubled
      /\ Written' = Written /\ Got \subseteq Got' /\ Written \subseteq QueueEntries
  BY <1>3, <1>5, SameDisk, GotStays, WrittenFacts
<1>10. Import(Path, Importer) \in Got'
  BY <1>5, <1>6, <1>7, <1>9 DEF Got
<1>11. EventsOK' /\ ChainOK' /\ EntryPlan' /\ MergedOK'
  BY <1>1, <1>3, <1>5, <1>8, <1>10, ReadKeepsEvents, ReadKeepsChain, LoadKeepsPlan
<1>12. FilesOK'
  <2>1. \A f \in Files : f \in Keys
    BY DEF Keys
  <2>2. File \notin Doubled
    BY <1>2 DEF Doubled
  <2> QED
    BY <2>1, <2>2, <1>1, <1>2, <1>3, <1>4, <1>8, <1>9 DEF FilesOK
<1>13. Elements(stack') = Active \cup {File}
  BY <1>2, <1>4, AppendProperties, LenProperties DEF Active, Elements
<1>14. RanksOK'
  <2>0. Active' = Elements(stack')
    BY DEF Active, Elements
  <2> SUFFICES ASSUME NEW e \in Written, e.importer \in Complete'
               PROVE  /\ e \in Got' /\ Target[e] \notin Elements(stack')
                      /\ e.path \notin VirtualPaths => rank[Target[e]] < rank[e.importer]
    BY <2>0, <1>2, <1>9 DEF RanksOK
  <2>1. e.importer \in Keys /\ e.importer \notin Elements(stack') /\ loaded'[e.importer] # 0
    BY DEF Complete, Active, Elements
  <2>2. e.importer \in Complete
    BY <2>1, <1>2, <1>4, <1>13 DEF Complete
  <2>3. e \in Got /\ Target[e] \notin Active
    BY <2>2, <1>1 DEF RanksOK
  <2>4. Target[e] # File
    BY <2>3, <1>2 DEF Got
  <2> QED
    BY <2>2, <2>3, <2>4, <1>1, <1>9, <1>13 DEF RanksOK
<1> QED
  BY <1>3, <1>9, <1>11, <1>12, <1>14 DEF ProgramOK

\* A module is complete: nothing that it imports was still to be loaded, or is
\* a module that waits.
LEMMA ExitKeepsProgram ==
    ASSUME TypeOK, StackInv, ProgramOK, ExitModule
    PROVE  ProgramOK'
<1>1. /\ EventsOK /\ FilesOK /\ ChainOK /\ RanksOK /\ EntryPlan /\ MergedOK
  BY DEF ProgramOK
<1>2. PICK n, key : n = Len(stack) /\ key = stack[n]
  OBVIOUS
<1>3. /\ Loading /\ Head(pending).kind = "exit" /\ pending # <<>>
      /\ stack' = SubSeq(stack, 1, n - 1) /\ rank' = [rank EXCEPT ![key] = clock + 1]
      /\ pending' = Tail(pending) /\ loaded' = loaded /\ deps' = deps /\ call' = call
      /\ UNCHANGED programVars /\ UNCHANGED envVars
  BY <1>2 DEF ExitModule, Loading
<1>4. LoadFrame /\ CacheGrows /\ disk' = disk /\ queue' = queue /\ current' = current
  BY <1>3 DEF LoadFrame, CacheGrows, envVars, programVars
<1>5. /\ n \in DOMAIN stack /\ pending[1] = Exit(key) /\ Head(pending) = pending[1]
      /\ \A j \in DOMAIN pending : j # 1 => pending[j] # Exit(key)
      /\ n = 1 => \A j \in DOMAIN pending : j # 1 => pending[j].kind = "enter"
      /\ Len(pending) \in Nat \ {0} /\ DOMAIN pending = 1..Len(pending)
      /\ DOMAIN pending' = 1..(Len(pending) - 1)
      /\ \A k \in DOMAIN pending' : pending'[k] = pending[k + 1]
  BY <1>2, <1>3, NextExit, TailFacts, SequenceFacts
<1>6. /\ DOMAIN stack = 1..n /\ n \in Nat \ {0} /\ DOMAIN stack' = 1..(n - 1)
      /\ \A i \in 1..(n - 1) : stack'[i] = stack[i]
      /\ key \in Files /\ key \in Active
  <2>1. stack \in Seq(Files) /\ DOMAIN stack = 1..n /\ n \in Nat /\ stack[n] \in Files
    BY <1>2, <1>5, SequenceFacts DEF TypeOK
  <2>2. n # 0
    BY <1>5, <2>1
  <2> QED
    BY <2>1, <2>2, <1>2, <1>3, <1>5, PopProperties DEF Active, Elements
<1>7. /\ Due' = Due /\ ReachOf' = ReachOf /\ Target' = Target /\ Written' = Written
      /\ Below' = Below /\ Doubled' = Doubled
      /\ Got \subseteq Got' /\ Due \subseteq Written /\ Written \subseteq QueueEntries
  BY <1>4, SameDisk, GotStays, WrittenFacts
<1>8. EventsOK'
  <2>1. ASSUME NEW i \in DOMAIN pending', pending'[i].kind = "enter"
        PROVE  /\ Import(pending'[i].path, pending'[i].importer) \in Due
               /\ \E j \in DOMAIN pending' :
                      /\ i < j /\ pending'[j] = Exit(pending'[i].importer)
                      /\ \A k \in i..(j - 1) : pending'[k].kind = "enter"
    <3>1. stack # <<>>
      BY <1>6
    <3> QED
      BY <2>1, <3>1, <1>1, <1>3, TailKeepsEvents
  <2>2. Loading' => stack' # <<>>
    <3> SUFFICES ASSUME stack' = <<>>, pending' # <<>> PROVE FALSE
      BY DEF Loading
    <3>1. n = 1
      BY <1>6
    <3>2. \A i \in DOMAIN pending' : pending'[i].kind = "enter"
      BY <3>1, <1>5
    <3>3. 1 \in DOMAIN pending'
      <4>1. pending' \in Seq(EnterEvents \cup ExitEvents)
        BY <1>3, NextEvent
      <4>2. Len(pending') \in Nat \ {0} /\ DOMAIN pending' = 1..Len(pending')
        BY <4>1, EmptySeq, LenProperties
      <4> QED
        BY <4>2
    <3>4. PICK j \in DOMAIN pending' : pending'[j] = Exit(pending'[1].importer)
      BY <2>1, <3>2, <3>3
    <3> QED
      BY <3>2, <3>4, EventFacts
  <2>3. current # NoEntry => current \in Due /\ current \in Got'
    BY <1>1, <1>6, <1>7 DEF EventsOK
  <2>4. Elements(queue) \subseteq Due
    BY <1>1 DEF EventsOK
  <2> QED
    BY <2>1, <2>2, <2>3, <2>4, <1>4, <1>7 DEF EventsOK, Loading
<1>9. FilesOK'
  BY <1>1, <1>3, <1>4, <1>7 DEF FilesOK
<1>10. ASSUME NEW d \in Written, EventOf(d) \in Elements(pending)
       PROVE  EventOf(d) \in Elements(pending')
  <2>1. PICK k \in DOMAIN pending : pending[k] = EventOf(d)
    BY <1>10 DEF Elements
  <2>2. k # 1
    BY <2>1, <1>5, EventFacts
  <2>3. k - 1 \in DOMAIN pending' /\ pending'[k - 1] = EventOf(d)
    BY <2>1, <2>2, <1>5
  <2> QED
    BY <2>3 DEF Elements
<1>11. ChainOK'
  <2>1. \A i, j \in DOMAIN stack' : i < j => stack'[j] \in ReachOf[stack'[i]]
    <3>1. \A i \in DOMAIN stack' : i \in DOMAIN stack /\ stack'[i] = stack[i]
      BY <1>6
    <3> QED
      BY <3>1, <1>1 DEF ChainOK
  <2>2. ASSUME NEW i \in DOMAIN stack', NEW d \in Written, d.importer = stack'[i]
        PROVE  \/ EventOf(d) \in Elements(pending')
               \/ d \in Got' /\ \A j \in 1..i : stack'[j] # Target[d]
    <3>1. i \in DOMAIN stack /\ d.importer = stack[i]
      BY <2>2, <1>6
    <3>2. \A j \in 1..i : stack'[j] = stack[j]
      BY <1>6
    <3> QED
      BY <3>1, <3>2, <1>1, <1>7, <1>10 DEF ChainOK
  <2>3. Elements(pending)' = Elements(pending')
    BY DEF Elements
  <2> QED
    BY <2>1, <2>2, <2>3, <1>7 DEF ChainOK
<1>12. Elements(stack') \subseteq Active /\ \A k \in Active : k # key => k \in Elements(stack')
  <2>1. \A i \in DOMAIN stack' : i \in DOMAIN stack /\ stack'[i] = stack[i]
    BY <1>6
  <2>2. ASSUME NEW k \in Active, k # key PROVE k \in Elements(stack')
    <3>1. PICK i \in DOMAIN stack : k = stack[i]
      BY DEF Active, Elements
    <3>2. i \in DOMAIN stack'
      BY <3>1, <2>2, <1>2, <1>6
    <3> QED
      BY <3>1, <3>2, <2>1 DEF Elements
  <2> QED
    BY <2>1, <2>2 DEF Active, Elements
<1>13. ASSUME NEW d \in Written, d.importer = key
       PROVE  /\ d \in Got /\ Target[d] \notin Active
  <2>1. EventOf(d) \notin Elements(pending)
    <3> SUFFICES ASSUME NEW i \in DOMAIN pending, pending[i] = EventOf(d) PROVE FALSE
      BY DEF Elements
    <3>1. pending[i].kind = "enter" /\ pending[i].importer = key /\ stack # <<>>
      BY <1>6, <1>13, EventFacts
    <3>2. PICK j \in DOMAIN pending : i < j /\ pending[j] = Exit(key)
      BY <3>1, <1>1 DEF EventsOK
    <3>3. j # 1
      BY <3>2, <1>5
    <3> QED
      BY <3>2, <3>3, <1>5
  <2>2. d \in Got /\ \A j \in 1..n : stack[j] # Target[d]
    BY <2>1, <1>1, <1>2, <1>5, <1>13 DEF ChainOK
  <2> QED
    BY <2>2, <1>6 DEF Active, Elements
<1>14. RanksOK'
  <2>0. Active' = Elements(stack')
    BY DEF Active, Elements
  <2> SUFFICES ASSUME NEW d \in Written, d.importer \in Complete'
               PROVE  /\ d \in Got' /\ Target[d] \notin Elements(stack')
                      /\ d.path \notin VirtualPaths => rank'[Target[d]] < rank'[d.importer]
    BY <2>0, <1>7 DEF RanksOK
  <2>1. d.importer \in Keys /\ loaded[d.importer] # 0 /\ d.importer \notin Elements(stack')
        /\ d \in QueueEntries
    BY <2>0, <1>3, <1>7 DEF Complete
  <2>2. d.importer # key => d.importer \in Complete
    BY <2>1, <1>12 DEF Complete
  <2>3. d \in Got /\ Target[d] \notin Active
    BY <2>2, <1>1, <1>13 DEF RanksOK
  <2>4. rank \in [Keys -> Nat] /\ clock \in Nat
    BY DEF TypeOK
  <2>5. ASSUME d.path \notin VirtualPaths
        PROVE  rank'[Target[d]] < rank'[d.importer]
    <3>1. Target[d] \in Keys /\ loaded[Target[d]] # 0 /\ Target[d] # key
      BY <2>1, <2>3, <1>6, TargetFacts DEF Got
    <3>2. Target[d] \in Complete
      BY <2>3, <3>1 DEF Complete
    <3>3. rank'[Target[d]] = rank[Target[d]] /\ rank[Target[d]] \in 1..clock
      BY <3>1, <3>2, <2>4, <1>3 DEF StackInv
    <3>4. CASE d.importer = key
      <4>1. rank'[d.importer] = clock + 1
        BY <3>4, <2>1, <2>4, <1>3
      <4> QED
        BY <4>1, <3>3, <2>4
    <3>5. CASE d.importer # key
      <4>1. rank'[d.importer] = rank[d.importer]
        BY <3>5, <2>1, <2>4, <1>3
      <4>2. rank[Target[d]] < rank[d.importer]
        BY <3>5, <2>2, <2>5, <1>1 DEF RanksOK
      <4> QED
        BY <4>1, <4>2, <3>3
    <3> QED
      BY <3>4, <3>5
  <2> QED
    BY <2>3, <2>5, <1>7, <1>12
<1> QED
  BY <1>1, <1>4, <1>7, <1>8, <1>9, <1>11, <1>14, LoadKeepsPlan DEF ProgramOK

(***************************************************************************)
(* The loop over the imports of a program                                  *)
(***************************************************************************)

\* Between two loads no module waits; the cache is left alone.
LEMMA IdleFacts ==
    ASSUME TypeOK, StackInv, FilesOK, RanksOK, ~Loading,
           disk' = disk, UNCHANGED cacheVars, stack' = stack
    PROVE  /\ stack = <<>> /\ pending = <<>>
           /\ FilesOK' /\ RanksOK' /\ ChainOK'
           /\ Due' = Due /\ Got' = Got /\ Written' = Written /\ Target' = Target
           /\ IdentityOf' = IdentityOf /\ EntryImports' = EntryImports
           /\ ReachedKeys' = ReachedKeys /\ Doubled' = Doubled
<1>1. stack = <<>> /\ pending = <<>>
  BY PlanUnwinds DEF StackInv, StackUnwound, Loading
<1>2. loaded' = loaded /\ deps' = deps /\ rank' = rank
  BY DEF cacheVars
<1>3. FilesOK' /\ RanksOK'
  BY <1>2, LoadKeepsFiles DEF CacheGrows
<1>4. DOMAIN stack' = {}
  BY <1>1
<1>5. ChainOK'
  BY <1>4 DEF ChainOK
<1>6. Got' = Got
  BY <1>2, SameDisk DEF Got
<1> QED
  BY <1>1, <1>3, <1>5, <1>6, SameDisk

\* The imports of the entry have different identities.
LEMMA EntryIdentities ==
    ASSUME TypeOK, Entry \notin Doubled,
           NEW i \in DOMAIN EntryImports, NEW j \in DOMAIN EntryImports,
           IdentityOf[EntryImports[i]] = IdentityOf[EntryImports[j]]
    PROVE  i = j
<1>1. Entry \in Files
  BY ConstantsAssumption
<1>2. PICK imports : imports = disk[Entry].imports
  OBVIOUS
<1>3. /\ i \in DOMAIN imports /\ j \in DOMAIN imports
      /\ EntryImports[i].path = imports[i] /\ EntryImports[j].path = imports[j]
      /\ EntryImports[i].importer = Entry /\ EntryImports[j].importer = Entry
      /\ EntryImports[i] \in QueueEntries /\ EntryImports[j] \in QueueEntries
  BY <1>1, <1>2, WrittenFacts, ImportTypes
<1>4. Identity(imports[i], Entry) = Identity(imports[j], Entry)
  BY <1>3 DEF IdentityOf
<1>5. ~HasDuplicate(imports, Entry)
  BY <1>1, <1>2 DEF Doubled
<1> QED
  BY <1>3, <1>4, <1>5 DEF HasDuplicate

\* A queued import is visited, or was merged before.
LEMMA VisitKeepsProgram ==
    ASSUME TypeOK, StackInv, ProgramOK, VisitImport
    PROVE  ProgramOK'
<1>1. /\ EventsOK /\ FilesOK /\ ChainOK /\ RanksOK /\ EntryPlan /\ MergedOK
      /\ Entry \notin Doubled
  BY DEF ProgramOK
<1>2. PICK e, id : e = Head(queue) /\ id = Identity(e.path, e.importer)
  OBVIOUS
<1>3. /\ ~Loading /\ current = NoEntry /\ queue # <<>> /\ queue' = Tail(queue)
      /\ \/ id \in seen /\ UNCHANGED <<seen, current, pending>>
         \/ /\ id \notin seen /\ seen' = seen \cup {id} /\ current' = e
            /\ pending' = <<Enter(e.path, e.importer)>>
      /\ result' = result /\ stack' = stack /\ disk' = disk /\ UNCHANGED cacheVars
      /\ loaded' = loaded
  BY <1>2 DEF VisitImport, Waiting, envVars, cacheVars
<1>4. /\ stack = <<>> /\ pending = <<>>
      /\ FilesOK' /\ RanksOK' /\ ChainOK'
      /\ Due' = Due /\ Got' = Got /\ Written' = Written /\ Target' = Target
      /\ IdentityOf' = IdentityOf /\ EntryImports' = EntryImports
      /\ ReachedKeys' = ReachedKeys /\ Doubled' = Doubled
  BY <1>1, <1>3, IdleFacts
<1>5. /\ queue \in Seq(QueueEntries) /\ Len(queue) \in Nat \ {0} /\ DOMAIN queue = 1..Len(queue)
      /\ e = queue[1] /\ DOMAIN queue' = 1..(Len(queue) - 1)
      /\ \A i \in DOMAIN queue' : queue'[i] = queue[i + 1]
  <2>1. queue \in Seq(QueueEntries) /\ queue # <<>>
    BY <1>3 DEF TypeOK
  <2>2. Len(queue) \in Nat \ {0} /\ DOMAIN queue = 1..Len(queue)
    BY <2>1, EmptySeq, LenProperties
  <2>3. /\ queue' \in Seq(QueueEntries) /\ Len(queue') = Len(queue) - 1
        /\ \A i \in 1..(Len(queue) - 1) : queue'[i] = queue[i + 1]
    BY <2>1, <2>2, <1>3, HeadTailProperties
  <2>4. e = queue[1]
    BY <2>1, <1>2
  <2> QED
    BY <2>1, <2>2, <2>3, <2>4, LenProperties
<1>6. e \in Due /\ e \in QueueEntries /\ IdentityOf[e] = id
  <2>1. e \in Due
    BY <1>1, <1>5 DEF EventsOK, Elements
  <2> QED
    BY <2>1, <1>2, WrittenFacts DEF IdentityOf
<1>7. /\ \A x \in Elements(queue') : x \in Elements(queue)
      /\ \A x \in Elements(queue) : x = e \/ x \in Elements(queue')
  <2>1. \A x \in Elements(queue') : x \in Elements(queue)
    BY <1>5 DEF Elements
  <2>2. ASSUME NEW x \in Elements(queue), x # e PROVE x \in Elements(queue')
    <3>1. PICK i \in DOMAIN queue : x = queue[i]
      BY DEF Elements
    <3>2. i - 1 \in DOMAIN queue' /\ queue'[i - 1] = x
      BY <3>1, <2>2, <1>5
    <3> QED
      BY <3>2 DEF Elements
  <2> QED
    BY <2>1, <2>2
<1>8. PICK n \in {0} \cup DOMAIN EntryImports :
          Merged(n) /\ (n + 1 \in DOMAIN EntryImports => Waits(n))
  BY <1>1 DEF EntryPlan
<1>9. Merged(n)'
  BY <1>3, <1>4, <1>8 DEF Merged
<1>10. n + 1 \in DOMAIN EntryImports =>
           /\ Len(result) = n /\ seen = Identities(n) /\ e = EntryImports[n + 1]
           /\ \A i \in DOMAIN EntryImports : n < i =>
                  i - n \in DOMAIN queue /\ queue[i - n] = EntryImports[i]
           /\ n \in Nat /\ DOMAIN EntryImports \subseteq Nat
  <2> SUFFICES ASSUME n + 1 \in DOMAIN EntryImports
               PROVE  /\ Len(result) = n /\ seen = Identities(n) /\ e = EntryImports[n + 1]
                      /\ Queued(n) /\ n \in Nat /\ DOMAIN EntryImports \subseteq Nat
    BY DEF Queued
  <2>1. n \in Nat /\ DOMAIN EntryImports \subseteq Nat
    BY WrittenFacts
  <2>2. EntryImports[n + 1] # NoEntry
    <3>1. EntryImports[n + 1].path \in Paths /\ EntryImports[n + 1].importer \in Files
      BY WrittenFacts, EventFacts
    <3>2. NoEntry.importer = NoModule /\ NoModule \notin Files
      BY ConstantsAssumption DEF NoEntry, Keys
    <3> QED
      BY <3>1, <3>2
  <2>3. Len(result) = n /\ seen = Identities(n) /\ Queued(n)
    BY <2>2, <1>3, <1>8 DEF Waits
  <2>4. queue[(n + 1) - n] = EntryImports[n + 1]
    BY <2>1, <2>3 DEF Queued
  <2> QED
    BY <2>1, <2>3, <2>4, <1>5
<1>11. CASE id \in seen /\ UNCHANGED <<seen, current, pending>>
  <2>1. n + 1 \notin DOMAIN EntryImports
    <3> SUFFICES ASSUME n + 1 \in DOMAIN EntryImports PROVE FALSE
      OBVIOUS
    <3>1. PICK i \in 1..n : id = IdentityOf[EntryImports[i]]
      BY <1>10, <1>11 DEF Identities
    <3>2. i \in DOMAIN EntryImports
      BY <1>8, <1>10, WrittenFacts
    <3>3. i = n + 1
      BY <3>1, <3>2, <1>1, <1>6, <1>10, EntryIdentities
    <3> QED
      BY <3>3, <1>10
  <2>2. EntryPlan'
    BY <2>1, <1>4, <1>9 DEF EntryPlan
  <2>3. EventsOK'
    BY <1>1, <1>3, <1>4, <1>7, <1>11 DEF EventsOK, Loading, Elements
  <2>4. MergedOK'
    <3>1. \A d \in Written : d.importer \in Elements(result) =>
              d \in Elements(queue') \/ IdentityOf[d] \in seen
      BY <1>1, <1>6, <1>7, <1>11 DEF MergedOK
    <3>2. Elements(queue)' = Elements(queue')
      BY DEF Elements
    <3> QED
      BY <3>1, <3>2, <1>1, <1>3, <1>4, <1>11 DEF MergedOK, Elements
  <2> QED
    BY <2>2, <2>3, <2>4, <1>3, <1>4 DEF ProgramOK
<1>12. CASE /\ id \notin seen /\ seen' = seen \cup {id} /\ current' = e
            /\ pending' = <<Enter(e.path, e.importer)>>
  <2>0. Elements(queue)' = Elements(queue') /\ pending' = <<EventOf(e)>>
    BY <1>12 DEF Elements, EventOf
  <2>1. n + 1 \in DOMAIN EntryImports => Waits(n)'
    <3> SUFFICES ASSUME n + 1 \in DOMAIN EntryImports
                 PROVE  /\ seen' = Identities(n + 1)
                        /\ \A i \in DOMAIN EntryImports : n + 1 < i =>
                               i - (n + 1) \in DOMAIN queue' /\ queue'[i - (n + 1)] = EntryImports[i]
      BY <1>3, <1>4, <1>10, <1>12 DEF Waits, Identities, Queued
    <3>1. 1..(n + 1) = 1..n \cup {n + 1}
      BY <1>10
    <3>2. seen' = Identities(n + 1)
      BY <3>1, <1>6, <1>10, <1>12 DEF Identities
    <3>3. ASSUME NEW i \in DOMAIN EntryImports, n + 1 < i
          PROVE  i - (n + 1) \in DOMAIN queue' /\ queue'[i - (n + 1)] = EntryImports[i]
      <4>1. n < i /\ i \in Nat /\ n \in Nat
        BY <3>3, <1>10
      <4>2. i - n \in DOMAIN queue /\ queue[i - n] = EntryImports[i]
        BY <4>1, <1>10
      <4>3. i - (n + 1) \in DOMAIN queue' /\ (i - (n + 1)) + 1 = i - n
        BY <4>1, <4>2, <3>3, <1>5
      <4> QED
        BY <4>2, <4>3, <1>5
    <3> QED
      BY <3>2, <3>3
  <2>2. EntryPlan'
    BY <2>1, <1>4, <1>8, <1>9 DEF EntryPlan
  <2>3. EventsOK'
    <3>1. DOMAIN pending' = {1} /\ pending'[1] = EventOf(e)
      BY <2>0
    <3>2. pending'[1].path = e.path /\ pending'[1].importer = e.importer
          /\ Import(e.path, e.importer) = e
      BY <3>1, <1>6, EventFacts
    <3>3. \A i \in DOMAIN pending' : Import(pending'[i].path, pending'[i].importer) \in Due
      BY <3>1, <3>2, <1>6
    <3>4. current' # NoEntry
      <4>1. NoEntry.importer = NoModule /\ NoModule \notin Files /\ e.importer \in Files
        BY <1>6, EventFacts, ConstantsAssumption DEF NoEntry, Keys
      <4> QED
        BY <4>1, <1>12
    <3>5. Elements(queue') \subseteq Due
      BY <1>1, <1>7 DEF EventsOK
    <3> QED
      BY <3>3, <3>4, <3>5, <2>0, <1>3, <1>4, <1>6, <1>12 DEF EventsOK
  <2>4. MergedOK'
    <3>1. \A d \in Written : d.importer \in Elements(result) =>
              d \in Elements(queue') \/ IdentityOf[d] \in seen'
      BY <1>1, <1>6, <1>7, <1>12 DEF MergedOK
    <3>2. \A x \in seen' : \/ x[2] \in Elements(result)
                           \/ current' # NoEntry /\ x = IdentityOf[current']
      <4>1. current' # NoEntry
        <5>1. NoEntry.importer = NoModule /\ NoModule \notin Files /\ e.importer \in Files
          BY <1>6, EventFacts, ConstantsAssumption DEF NoEntry, Keys
        <5> QED
          BY <5>1, <1>12
      <4> QED
        BY <4>1, <1>1, <1>3, <1>6, <1>12 DEF MergedOK
    <3>3. \A k \in Elements(result) :
              /\ KeyIdentity(k) \in seen' /\ loaded[k] # 0 /\ k \in ReachedKeys
              /\ KeyIdentity(k) # id
      BY <1>1, <1>12 DEF MergedOK
    <3>4. Elements(result)' = Elements(result)
      BY <1>3 DEF Elements
    <3>5. \A i, j \in DOMAIN result : i # j => result[i] # result[j]
      BY <1>1 DEF MergedOK
    <3> QED
      BY <3>1, <3>2, <3>3, <3>4, <3>5, <2>0, <1>3, <1>4, <1>6, <1>12 DEF MergedOK
  <2> QED
    BY <2>2, <2>3, <2>4, <1>3, <1>4 DEF ProgramOK
<1> QED
  BY <1>3, <1>11, <1>12

\* The imports of a module of the program are queued when it is merged.
LEMMA CollectedImports ==
    ASSUME TypeOK, FilesOK, NEW key \in Keys, loaded[key] # 0, NEW s,
           s = [i \in 1..Len(deps[key]) |-> [path |-> deps[key][i], importer |-> key]]
    PROVE  /\ s \in Seq(QueueEntries) /\ Elements(s) \subseteq Due
           /\ \A d \in Written : d.importer = key => d \in Elements(s)
<1>1. CASE key \in Files
  <2>1. PICK imports : imports = disk[key].imports /\ deps[key] = imports /\ key \in Below
    BY <1>1 DEF FilesOK
  <2>2. /\ imports \in Seq(Paths) /\ DOMAIN imports = 1..Len(imports) /\ Len(imports) \in Nat
        /\ \A i \in DOMAIN imports : imports[i] \in Imports(key)
    BY <1>1, <2>1, ImportTypes DEF Imports, Elements
  <2>3. s = [i \in 1..Len(imports) |-> Import(imports[i], key)]
    BY <2>1 DEF Import
  <2>4. s \in Seq(QueueEntries)
    BY <1>1, <2>1, <2>2, ImportEntries
  <2>5. Elements(s) \subseteq Due
    <3> SUFFICES ASSUME NEW i \in 1..Len(imports) PROVE s[i] \in Due
      BY <2>3 DEF Elements
    <3>1. s[i] \in Written /\ s[i].importer = key
      BY <1>1, <2>2, <2>3, WrittenFacts, EventFacts
    <3> QED
      BY <3>1, <2>1, BelowFacts
  <2>6. ASSUME NEW d \in Written, d.importer = key PROVE d \in Elements(s)
    <3>1. d \in QueueEntries /\ d.path \in Imports(key)
      BY <2>6 DEF Written
    <3>2. PICK i \in DOMAIN imports : d.path = imports[i]
      BY <3>1, <2>1 DEF Imports, Elements
    <3>3. i \in DOMAIN s /\ s[i] = d
      BY <3>1, <3>2, <2>2, <2>3, <2>6, EventFacts
    <3> QED
      BY <3>3 DEF Elements
  <2> QED
    BY <2>4, <2>5, <2>6
<1>2. CASE key \notin Files
  <2>1. deps[key] = <<>>
    BY <1>2 DEF TypeOK
  <2>2. s = <<>> /\ DOMAIN s = {}
    <3>1. Len(deps[key]) = 0
      BY <2>1
    <3> QED
      BY <3>1
  <2>3. \A d \in Written : d.importer # key
    BY <1>2, WrittenFacts, EventFacts
  <2>4. Elements(s) = {}
    BY <2>2 DEF Elements
  <2> QED
    BY <2>2, <2>3, <2>4, EmptySeq
<1> QED
  BY <1>1, <1>2

\* A module is merged.
LEMMA CollectKeepsProgram ==
    ASSUME TypeOK, StackInv, ProgramOK, CollectModule
    PROVE  ProgramOK'
<1>1. /\ EventsOK /\ FilesOK /\ ChainOK /\ RanksOK /\ EntryPlan /\ MergedOK
      /\ Entry \notin Doubled
  BY DEF ProgramOK
<1>2. PICK key, s : /\ key = GetModule(current.path, current.importer)
                    /\ s = [i \in 1..Len(deps[key]) |->
                               [path |-> deps[key][i], importer |-> key]]
  OBVIOUS
<1>3. /\ ~Loading /\ current # NoEntry /\ current' = NoEntry
      /\ IF key = NoModule THEN UNCHANGED <<result, queue>>
         ELSE result' = Append(result, key) /\ queue' = queue \o s
      /\ seen' = seen /\ pending' = pending /\ stack' = stack /\ disk' = disk
      /\ UNCHANGED cacheVars /\ loaded' = loaded
  BY <1>2 DEF CollectModule, envVars, cacheVars
<1>4. /\ stack = <<>> /\ pending = <<>>
      /\ FilesOK' /\ RanksOK' /\ ChainOK'
      /\ Due' = Due /\ Got' = Got /\ Written' = Written /\ Target' = Target
      /\ IdentityOf' = IdentityOf /\ EntryImports' = EntryImports
      /\ ReachedKeys' = ReachedKeys /\ Doubled' = Doubled
  BY <1>1, <1>3, IdleFacts
<1>5. current \in Due /\ current \in Got /\ current \in QueueEntries
  <2>1. pending # <<EventOf(current)>>
    BY <1>4
  <2> QED
    BY <2>1, <1>1, <1>3, WrittenFacts DEF EventsOK
<1>6. /\ key = Target[current] /\ key \in Keys /\ key # NoModule /\ loaded[key] # 0
      /\ IdentityOf[current] = KeyIdentity(key) /\ key \in ReachedKeys
  <2>1. key = Target[current] /\ key \in Keys /\ loaded[key] # 0
        /\ IdentityOf[current] = KeyIdentity(key)
    BY <1>2, <1>5, TargetFacts DEF Got
  <2>2. key # NoModule
    BY <2>1, ConstantsAssumption
  <2> QED
    BY <2>1, <2>2, <1>5, BelowFacts
<1>7. /\ s \in Seq(QueueEntries) /\ Elements(s) \subseteq Due
      /\ \A d \in Written : d.importer = key => d \in Elements(s)
  BY <1>1, <1>2, <1>6, CollectedImports
<1>8. result' = Append(result, key) /\ queue' = queue \o s
  BY <1>3, <1>6
<1>9. /\ Len(result) \in Nat /\ DOMAIN result = 1..Len(result)
      /\ Len(result') = Len(result) + 1 /\ DOMAIN result' = 1..(Len(result) + 1)
      /\ \A i \in 1..Len(result) : result'[i] = result[i]
      /\ result'[Len(result) + 1] = key
  <2>1. result \in Seq(Keys)
    BY DEF TypeOK
  <2> HIDE DEF Keys
  <2> QED
    BY <2>1, <1>6, <1>8, AppendProperties, LenProperties
<1>10. Elements(result') = Elements(result) \cup {key}
  BY <1>9 DEF Elements
<1>11. /\ Len(queue) \in Nat /\ Len(s) \in Nat /\ DOMAIN queue = 1..Len(queue)
       /\ DOMAIN s = 1..Len(s) /\ DOMAIN queue' = 1..(Len(queue) + Len(s))
       /\ \A i \in 1..Len(queue) : queue'[i] = queue[i]
       /\ \A i \in (Len(queue) + 1)..(Len(queue) + Len(s)) : queue'[i] = s[i - Len(queue)]
  <2>1. queue \in Seq(QueueEntries) /\ s \in Seq(QueueEntries)
    BY <1>7 DEF TypeOK
  <2>2. /\ queue' \in Seq(QueueEntries) /\ Len(queue') = Len(queue) + Len(s)
        /\ \A i \in 1..(Len(queue) + Len(s)) :
               queue'[i] = IF i <= Len(queue) THEN queue[i] ELSE s[i - Len(queue)]
    BY <2>1, <1>8, ConcatProperties
  <2>3. /\ Len(queue) \in Nat /\ Len(s) \in Nat /\ DOMAIN queue = 1..Len(queue)
        /\ DOMAIN s = 1..Len(s) /\ DOMAIN queue' = 1..(Len(queue) + Len(s))
    BY <2>1, <2>2, LenProperties
  <2> QED
    BY <2>2, <2>3
<1>12. Elements(queue') = Elements(queue) \cup Elements(s)
  <2>1. ASSUME NEW x \in Elements(queue') PROVE x \in Elements(queue) \cup Elements(s)
    <3>1. PICK i \in DOMAIN queue' : x = queue'[i]
      BY DEF Elements
    <3>2. CASE i \in 1..Len(queue)
      BY <3>1, <3>2, <1>11 DEF Elements
    <3>3. CASE i \notin 1..Len(queue)
      <4>1. i \in (Len(queue) + 1)..(Len(queue) + Len(s)) /\ i - Len(queue) \in DOMAIN s
        BY <3>3, <1>11
      <4> QED
        BY <3>1, <4>1, <1>11 DEF Elements
    <3> QED
      BY <3>2, <3>3
  <2>2. ASSUME NEW x \in Elements(queue) PROVE x \in Elements(queue')
    <3>1. PICK i \in 1..Len(queue) : x = queue[i]
      BY <1>11 DEF Elements
    <3>2. i \in DOMAIN queue' /\ x = queue'[i]
      BY <3>1, <1>11
    <3> QED
      BY <3>2 DEF Elements
  <2>3. ASSUME NEW x \in Elements(s) PROVE x \in Elements(queue')
    <3>1. PICK i \in 1..Len(s) : x = s[i]
      BY <1>11 DEF Elements
    <3>2. /\ Len(queue) + i \in (Len(queue) + 1)..(Len(queue) + Len(s))
          /\ Len(queue) + i \in DOMAIN queue' /\ (Len(queue) + i) - Len(queue) = i
      BY <3>1, <1>11
    <3>3. queue'[Len(queue) + i] = s[i]
      BY <3>2, <1>11
    <3> QED
      BY <3>1, <3>2, <3>3 DEF Elements
  <2> QED
    BY <2>1, <2>2, <2>3
<1>13. EventsOK'
  <2>1. Elements(queue)' \subseteq Due /\ Elements(queue)' = Elements(queue')
    BY <1>1, <1>7, <1>12 DEF EventsOK, Elements
  <2>2. pending' = <<>> /\ DOMAIN pending' = {}
    BY <1>3, <1>4
  <2> QED
    BY <2>1, <2>2, <1>3, <1>4 DEF EventsOK, Loading
<1>14. EntryPlan'
  <2>1. PICK n \in {0} \cup DOMAIN EntryImports :
            Merged(n) /\ (n + 1 \in DOMAIN EntryImports => Waits(n))
    BY <1>1 DEF EntryPlan
  <2>2. DOMAIN EntryImports = 1..Len(EntryImports) /\ Len(EntryImports) \in Nat /\ n \in Nat
    BY <2>1, WrittenFacts
  <2>3. n <= Len(result) /\ \A i \in 1..n : EntryImports[i] \in Got /\ result[i] = Target[EntryImports[i]]
    BY <2>1 DEF Merged
  <2>4. \A i \in 1..n : EntryImports[i] \in Got /\ result'[i] = Target[EntryImports[i]]
    BY <2>2, <2>3, <1>9
  <2>5. CASE n + 1 \notin DOMAIN EntryImports
    <3>1. Merged(n)'
      BY <2>2, <2>3, <2>4, <1>4, <1>9 DEF Merged
    <3> QED
      BY <3>1, <2>1, <2>5, <1>4 DEF EntryPlan
  <2>6. CASE n + 1 \in DOMAIN EntryImports
    <3>1. /\ Len(result) = n /\ current = EntryImports[n + 1] /\ seen = Identities(n + 1)
          /\ Queued(n + 1)
      BY <2>1, <2>6, <1>3 DEF Waits
    <3>2. n + 1 <= Len(result')
      BY <3>1, <1>9
    <3>3. ASSUME NEW i \in 1..(n + 1)
          PROVE  EntryImports[i] \in Got /\ result'[i] = Target[EntryImports[i]]
      <4>1. CASE i = n + 1
        BY <4>1, <3>1, <1>5, <1>6, <1>9
      <4>2. CASE i # n + 1
        BY <4>2, <2>2, <2>4
      <4> QED
        BY <4>1, <4>2
    <3>4. Merged(n + 1)'
      BY <3>2, <3>3, <1>4 DEF Merged
    <3>5. \A i \in DOMAIN EntryImports : n + 1 < i =>
              i - (n + 1) \in DOMAIN queue' /\ queue'[i - (n + 1)] = EntryImports[i]
      <4> SUFFICES ASSUME NEW i \in DOMAIN EntryImports, n + 1 < i
                   PROVE  i - (n + 1) \in DOMAIN queue' /\ queue'[i - (n + 1)] = EntryImports[i]
        OBVIOUS
      <4>1. i - (n + 1) \in 1..Len(queue) /\ queue[i - (n + 1)] = EntryImports[i]
        BY <3>1, <1>11 DEF Queued
      <4> QED
        BY <4>1, <1>11
    <3>6. Queued(n + 1)'
      BY <3>5, <1>4 DEF Queued
    <3>7. Identities(n + 1)' = Identities(n + 1)
      BY <1>4 DEF Identities
    <3>8. Waits(n + 1)'
      BY <3>1, <3>6, <3>7, <1>3, <1>9 DEF Waits
    <3> QED
      BY <3>4, <3>8, <2>6, <1>4 DEF EntryPlan
  <2> QED
    BY <2>5, <2>6
<1>15. MergedOK'
  <2>1. \A id \in seen : id[2] \in Elements(result')
    <3>1. KeyIdentity(key)[2] = key
      BY IdentityFacts
    <3> QED
      BY <3>1, <1>1, <1>6, <1>10 DEF MergedOK
  <2>2. \A k \in Elements(result') : KeyIdentity(k) \in seen /\ loaded[k] # 0 /\ k \in ReachedKeys
    BY <1>1, <1>3, <1>6, <1>10 DEF MergedOK
  <2>3. \A k \in Elements(result) : k # key
    BY <1>1, <1>3, <1>6 DEF MergedOK
  <2>4. ASSUME NEW i \in DOMAIN result', NEW j \in DOMAIN result', i # j
        PROVE  result'[i] # result'[j]
    <3>1. \A k \in DOMAIN result' : k \in DOMAIN result \/ k = Len(result) + 1
      BY <1>9
    <3>2. \A k \in DOMAIN result : result'[k] = result[k] /\ result[k] # key
      BY <2>3, <1>9 DEF Elements
    <3>3. \A k, l \in DOMAIN result : k # l => result[k] # result[l]
      BY <1>1 DEF MergedOK
    <3> QED
      BY <3>1, <3>2, <3>3, <2>4, <1>9
  <2>5. \A d \in Written : d.importer \in Elements(result') =>
            d \in Elements(queue') \/ IdentityOf[d] \in seen
    BY <1>1, <1>7, <1>10, <1>12 DEF MergedOK
  <2>6. Elements(result)' = Elements(result') /\ Elements(queue)' = Elements(queue')
    BY DEF Elements
  <2> QED
    BY <2>1, <2>2, <2>4, <2>5, <2>6, <1>3, <1>4 DEF MergedOK
<1> QED
  BY <1>3, <1>4, <1>13, <1>14, <1>15, <1>1 DEF ProgramOK

\* A program is begun on a new resolver.
LEMMA StartKeepsProgram ==
    ASSUME TypeOK, StackInv, StartProgram, Judging'
    PROVE  ProgramOK'
<1>1. PICK imports : imports = disk[Entry].imports
  OBVIOUS
<1>2. /\ disk[Entry].state = "ok" /\ call = "none" /\ disk' = disk /\ UNCHANGED stack
      /\ UNCHANGED cacheVars /\ \A k \in Keys : loaded[k] = 0
      /\ ~HasDuplicate(imports, Entry)
      /\ queue' = [i \in 1..Len(imports) |-> [path |-> imports[i], importer |-> Entry]]
      /\ seen' = {} /\ result' = <<>> /\ current' = NoEntry /\ pending' = <<>>
  BY <1>1 DEF StartProgram, Begin, Judging
<1>3. Entry \in Files /\ Files \subseteq Keys
  BY ConstantsAssumption DEF Keys
<1>4. /\ imports \in Seq(Paths) /\ DOMAIN imports = 1..Len(imports) /\ Len(imports) \in Nat
  BY <1>1, <1>3, ImportTypes
<1>5. stack = <<>> /\ ~Loading
  BY <1>2, PlanUnwinds DEF StackInv, StackUnwound
<1>6. /\ Due' = Due /\ EntryImports' = EntryImports /\ Doubled' = Doubled /\ Written' = Written
      /\ loaded' = loaded
  BY <1>2, SameDisk DEF cacheVars
<1>7. queue' = EntryImports
  BY <1>1, <1>2 DEF EntryImports, Import
<1>8. /\ DOMAIN EntryImports = 1..Len(EntryImports) /\ Len(EntryImports) \in Nat
      /\ \A i \in DOMAIN EntryImports : EntryImports[i] \in Due
  BY WrittenFacts
<1>9. Entry \notin Doubled
  BY <1>1, <1>2 DEF Doubled
<1>10. DOMAIN stack' = {} /\ DOMAIN pending' = {} /\ DOMAIN result' = {} /\ Len(result') = 0
  BY <1>2, <1>5
<1>11. EventsOK'
  <2>1. Elements(queue)' \subseteq Due
    BY <1>7, <1>8 DEF Elements
  <2> QED
    BY <2>1, <1>2, <1>6, <1>10 DEF EventsOK, Loading
<1>12. FilesOK' /\ RanksOK' /\ ChainOK'
  <2>1. \A k \in Files : loaded'[k] = 0
    BY <1>2, <1>3, <1>6
  <2>2. Complete' = {}
    BY <1>2, <1>6 DEF Complete
  <2> QED
    BY <2>1, <2>2, <1>10 DEF FilesOK, RanksOK, ChainOK
<1>13. EntryPlan'
  <2>1. Merged(0)'
    BY <1>10 DEF Merged
  <2>2. \A i \in DOMAIN EntryImports : i - 0 = i
    BY <1>8
  <2>3. Queued(0)'
    BY <2>2, <1>6, <1>7 DEF Queued
  <2>4. Identities(0)' = {}
    BY DEF Identities
  <2>5. Waits(0)'
    BY <2>3, <2>4, <1>2, <1>10 DEF Waits
  <2> QED
    BY <2>1, <2>5 DEF EntryPlan
<1>14. MergedOK'
  <2>1. Elements(result)' = {}
    BY <1>10 DEF Elements
  <2> QED
    BY <2>1, <1>2, <1>10 DEF MergedOK
<1> QED
  BY <1>2, <1>6, <1>9, <1>11, <1>12, <1>13, <1>14 DEF ProgramOK

\* Nothing changes.
LEMMA StutterKeepsProgram ==
    ASSUME TypeOK, ProgramOK, UNCHANGED vars
    PROVE  ProgramOK'
<1>1. /\ LoadFrame /\ CacheGrows /\ disk' = disk /\ loaded' = loaded /\ deps' = deps
      /\ rank' = rank /\ stack' = stack /\ pending' = pending /\ queue' = queue
      /\ current' = current
  BY DEF vars, LoadFrame, CacheGrows, programVars
<1>2. /\ EventsOK /\ FilesOK /\ ChainOK /\ RanksOK /\ EntryPlan /\ MergedOK
  BY DEF ProgramOK
<1>3. /\ Due' = Due /\ ReachOf' = ReachOf /\ Written' = Written /\ Target' = Target
      /\ Doubled' = Doubled
  BY <1>1, SameDisk
<1>4. Got' = Got
  BY <1>1, SameDisk DEF Got
<1>5. EventsOK' /\ ChainOK'
  BY <1>1, <1>2, <1>3, <1>4 DEF EventsOK, ChainOK, Loading, Elements
<1> QED
  BY <1>1, <1>2, <1>3, <1>5, LoadKeepsFiles, LoadKeepsPlan DEF ProgramOK

\* The invariant of a program that is loaded holds at first and survives every step.
LEMMA InitProgramInv == Init => ProgramInv
BY DEF Init, ProgramInv, Judging

\* It survives every step.
LEMMA StepProgramInv == IInv /\ ProgramInv /\ [Next]_vars => ProgramInv'
<1> SUFFICES ASSUME IInv, ProgramInv, [Next]_vars, Judging'
             PROVE  ProgramOK'
  BY DEF ProgramInv
<1>1. TypeOK /\ StackInv /\ StackPlan
  BY DEF IInv, StackInv
<1>2. CASE LoadVirtualModule \/ SkipCached \/ ReadModule \/ ExitModule
  <2>1. Judging
    BY <1>2 DEF Judging, LoadVirtualModule, SkipCached, ReadModule, ExitModule, envVars
  <2> QED
    BY <2>1, <1>1, <1>2, VirtualKeepsProgram, SkipKeepsProgram, ReadKeepsProgram,
       ExitKeepsProgram DEF ProgramInv
<1>3. CASE VisitImport \/ CollectModule
  <2>1. Judging
    BY <1>3 DEF Judging, VisitImport, CollectModule, Waiting, envVars
  <2> QED
    BY <2>1, <1>1, <1>3, VisitKeepsProgram, CollectKeepsProgram DEF ProgramInv
<1>4. CASE StartProgram
  BY <1>1, <1>4, StartKeepsProgram
<1>5. CASE FailEvent \/ FinishProgram \/ FinishModule
  BY <1>5 DEF Judging, FailEvent, FinishProgram, FinishModule
<1>6. ASSUME NEW p \in Requested, StartModule(p) PROVE FALSE
  BY <1>6 DEF Judging, StartModule
<1>7. ASSUME NEW f \in Files, NEW c \in Contents[f], Edit(f, c) PROVE FALSE
  BY <1>7 DEF Judging, Edit
<1>8. CASE UNCHANGED vars
  <2>1. Judging
    BY <1>8 DEF Judging, vars
  <2> QED
    BY <2>1, <1>1, <1>8, StutterKeepsProgram DEF ProgramInv
<1> QED
  BY <1>2, <1>3, <1>4, <1>5, <1>6, <1>7, <1>8 DEF Next, Load, Program

(***************************************************************************)
(* The verdict                                                             *)
(***************************************************************************)

\* A file imports what one of its declarations names.
LEMMA SuccImports ==
    ASSUME TypeOK, NEW f \in Files, NEW g \in Succ(f)
    PROVE  \E d \in Written : d.importer = f /\ d.path \notin VirtualPaths /\ Target[d] = g
<1>1. PICK p \in Imports(f) \ VirtualPaths : g = Resolve(p, f)
  BY DEF Succ
<1>2. PICK d : d = Import(p, f)
  OBVIOUS
<1>3. d \in Written /\ d \in QueueEntries /\ d.path = p /\ d.importer = f
  BY <1>1, <1>2, WrittenFacts, EventFacts
<1>4. Target[d] = g
  BY <1>1, <1>3, TargetFacts
<1> QED
  BY <1>1, <1>3, <1>4

\* An event fails only for a reason that makes the program unacceptable.
LEMMA FailureIsRight ==
    ASSUME TypeOK, StackInv, ProgramOK, FailEvent
    PROVE  ~Acceptable /\ outcome' # "ok"
<1>1. Entering /\ EventError # "none" /\ outcome' = EventError
  BY DEF FailEvent
<1>2. outcome' # "ok"
  <2>1. EventError # "ok"
    BY DEF EventError
  <2> QED
    BY <2>1, <1>1
<1> SUFFICES ASSUME Acceptable PROVE FALSE
  BY <1>2
<1>3. StackPlan /\ EventsOK /\ ChainOK
  BY DEF StackInv, ProgramOK
<1>4. PICK d : d = Import(Path, Importer)
  OBVIOUS
<1>5. /\ d \in Due /\ d \in Written /\ d \in QueueEntries
      /\ d.path = Path /\ d.importer = Importer
      /\ Path \notin VirtualPaths => Target[d] = File
  BY <1>1, <1>3, <1>4, NextImport, WrittenFacts
<1>6. Importer \in {Entry} \cup Below /\ Importer \in Files
  BY <1>5, EventFacts DEF Due
<1>7. d \in Found
  BY <1>5, <1>6, ResolvedImports DEF Acceptable, Below
<1>8. ~Shadowed(Path, Importer) /\ Target[d] # NoModule
  BY <1>5, <1>7 DEF Found
<1>9. Path \notin VirtualPaths
  BY <1>1, <1>8 DEF EventError
<1>10. File # NoModule /\ File \in Below /\ File \in Files
  BY <1>5, <1>8, <1>9, BelowFacts
<1>11. File \notin Active
  <2> SUFFICES ASSUME NEW i \in DOMAIN stack, File = stack[i] PROVE FALSE
    BY DEF Active, Elements
  <2>1. File \in ReachOf[File]
    BY <1>1, <1>3, <1>9, <1>10, NextReached
  <2> QED
    BY <2>1, <1>10 DEF ReachOf, Acceptable, Below
<1>12. /\ disk[File].state = "ok" /\ ~ImportsTwice(File) /\ ImportsResolve(File)
  BY <1>10 DEF Acceptable, Below
<1>13. ~HasDuplicate(disk[File].imports, File)
  <2>1. PICK f : f = File /\ f \in Files
    BY <1>10
  <2>2. f \notin Doubled
    BY <2>1, <1>12, DuplicatesAreReal
  <2>3. ~HasDuplicate(disk[f].imports, f)
    BY <2>1, <2>2 DEF Doubled
  <2> QED
    BY <2>1, <2>3
<1>14. EventError = "none"
  BY <1>8, <1>9, <1>10, <1>11, <1>12, <1>13 DEF EventError
<1> QED
  BY <1>1, <1>14

\* When the loop ends all imports of the entry are merged, and no module waits.
LEMMA FinishFacts ==
    ASSUME TypeOK, StackInv, ProgramOK, ~Loading, current = NoEntry, queue = <<>>
    PROVE  /\ Active = {} /\ \A k \in Keys : loaded[k] # 0 => k \in Complete
           /\ Len(EntryImports) <= Len(result)
           /\ \A i \in DOMAIN EntryImports :
                  EntryImports[i] \in Got /\ result[i] = Target[EntryImports[i]]
           /\ \A d \in Written : d.importer \in {Entry} \cup Complete => d \in Got
<1>1. DOMAIN stack = {} /\ DOMAIN queue = {}
  BY PlanUnwinds DEF StackInv, StackUnwound
<1>2. Active = {} /\ \A k \in Keys : loaded[k] # 0 => k \in Complete
  BY <1>1 DEF Active, Elements, Complete
<1>3. PICK n \in {0} \cup DOMAIN EntryImports :
          Merged(n) /\ (n + 1 \in DOMAIN EntryImports => Waits(n))
  BY DEF ProgramOK, EntryPlan
<1>4. DOMAIN EntryImports = 1..Len(EntryImports) /\ Len(EntryImports) \in Nat /\ n \in Nat
  BY <1>3, WrittenFacts
<1>5. n + 1 \notin DOMAIN EntryImports
  <2> SUFFICES ASSUME n + 1 \in DOMAIN EntryImports PROVE FALSE
    OBVIOUS
  <2>1. EntryImports[n + 1] # NoEntry
    <3>1. EntryImports[n + 1].path \in Paths /\ EntryImports[n + 1].importer \in Files
      BY WrittenFacts, EventFacts
    <3>2. NoEntry.importer = NoModule /\ NoModule \notin Files
      BY ConstantsAssumption DEF NoEntry, Keys
    <3> QED
      BY <3>1, <3>2
  <2>2. Queued(n)
    BY <2>1, <1>3 DEF Waits
  <2>3. (n + 1) - n \in DOMAIN queue
    BY <2>2, <1>4 DEF Queued
  <2> QED
    BY <2>3, <1>1
<1>6. n = Len(EntryImports)
  <2>1. PICK l : l = Len(EntryImports)
    OBVIOUS
  <2>2. n \in {0} \cup 1..l /\ n + 1 \notin 1..l /\ l \in Nat
    BY <2>1, <1>4, <1>5
  <2> QED
    BY <2>1, <2>2
<1>7. /\ Len(EntryImports) <= Len(result)
      /\ \A i \in DOMAIN EntryImports :
             EntryImports[i] \in Got /\ result[i] = Target[EntryImports[i]]
  BY <1>3, <1>4, <1>6 DEF Merged
<1>8. ASSUME NEW d \in Written, d.importer \in {Entry} \cup Complete
      PROVE  d \in Got
  <2>1. CASE d.importer = Entry
    BY <2>1, <1>7, WrittenFacts
  <2>2. CASE d.importer \in Complete
    BY <2>2 DEF ProgramOK, RanksOK
  <2> QED
    BY <2>1, <2>2, <1>8
<1> QED
  BY <1>2, <1>7, <1>8

\* A program that is loaded to its end is acceptable.
LEMMA SuccessIsRight ==
    ASSUME TypeOK, StackInv, ProgramOK, ~Loading, current = NoEntry, queue = <<>>
    PROVE  Acceptable
<1>1. /\ Active = {} /\ \A k \in Keys : loaded[k] # 0 => k \in Complete
      /\ \A d \in Written : d.importer \in {Entry} \cup Complete => d \in Got
  BY FinishFacts
<1>2. FilesOK /\ RanksOK /\ Entry \notin Doubled /\ Entry \in Files /\ Files \subseteq Keys
  BY ConstantsAssumption DEF ProgramOK, Keys
<1>3. PICK C : C = Complete \cap Files
  OBVIOUS
<1>4. ASSUME NEW f \in {Entry} \cup C, NEW g \in Succ(f)
      PROVE  g \in C /\ (f \in C => rank[g] < rank[f])
  <2>1. f \in Files /\ g \in Files
    BY <1>2, <1>3, ImportTypes
  <2>2. PICK d \in Written : d.importer = f /\ d.path \notin VirtualPaths /\ Target[d] = g
    BY <2>1, SuccImports
  <2>3. d \in Got
    BY <2>2, <1>1, <1>3
  <2>4. g \in Complete
    BY <2>1, <2>2, <2>3, <1>1, <1>2 DEF Got
  <2>5. f \in C => rank[g] < rank[f]
    BY <2>2, <1>2, <1>3 DEF RanksOK
  <2> QED
    BY <2>1, <2>4, <2>5, <1>3
<1>5. Succ(Entry) \subseteq C /\ Closed(C) /\ C \in SUBSET Files
  BY <1>3, <1>4 DEF Closed
<1>6. Below \subseteq C
  BY <1>2, <1>5, ImportTypes, ReachIsClosed DEF Below
<1>7. \A f \in {Entry} \cup C : ImportsResolve(f)
  <2>1. \A f \in {Entry} \cup C : f \in Files
    BY <1>2, <1>3
  <2>2. \A d \in Written : d.importer \in {Entry} \cup C => d \in Found
    BY <1>1, <1>3 DEF Got
  <2> QED
    BY <2>1, <2>2, ResolvedImports
<1>8. ~ImportsTwice(Entry)
  BY <1>2, DuplicatesAreReal
<1>9. ASSUME NEW f \in Below
      PROVE  disk[f].state = "ok" /\ ~ImportsTwice(f)
  <2>1. f \in Files /\ loaded[f] # 0
    BY <1>3, <1>6 DEF Complete
  <2> QED
    BY <2>1, <1>2, DuplicatesAreReal DEF FilesOK
<1>10. ASSUME NEW f \in Below
       PROVE  f \notin Reach(Succ(f))
  <2>1. f \in C
    BY <1>6
  <2>2. PICK D : D = {g \in C : rank[g] < rank[f]}
    OBVIOUS
  <2>3. \A g \in C : rank[g] \in Nat /\ g \in Files
    BY <1>3 DEF TypeOK, Complete
  <2>4. Succ(f) \subseteq D
    BY <2>1, <2>2, <1>4
  <2>5. ASSUME NEW g \in D, NEW h \in Succ(g) PROVE h \in D
    <3>1. g \in C /\ rank[g] < rank[f] /\ h \in C /\ rank[h] < rank[g]
      BY <2>2, <2>5, <1>4
    <3> QED
      BY <3>1, <2>1, <2>2, <2>3
  <2>6. D \in SUBSET Files /\ Closed(D)
    BY <2>2, <2>3, <2>5 DEF Closed
  <2>7. Reach(Succ(f)) \subseteq D
    BY <2>1, <2>3, <2>4, <2>6, ImportTypes, ReachIsClosed
  <2>8. f \notin D
    BY <2>1, <2>2, <2>3
  <2> QED
    BY <2>7, <2>8
<1> QED
  BY <1>6, <1>7, <1>8, <1>9, <1>10 DEF Acceptable, Below

\* A sequence without repetition is as long as its set of elements is large.
LEMMA DistinctElements ==
    ASSUME NEW S, NEW s \in Seq(S), \A i, j \in DOMAIN s : i # j => s[i] # s[j]
    PROVE  Cardinality(Elements(s)) = Len(s)
<1>1. PICK n : n = Len(s)
  OBVIOUS
<1>2. n \in Nat /\ DOMAIN s = 1..n /\ s \in [1..n -> S]
  BY <1>1, LenProperties
<1>3. s \in [1..n -> Elements(s)]
  BY <1>2 DEF Elements
<1>4. s \in Injection(1..n, Elements(s))
  BY <1>2, <1>3 DEF Injection, IsInjective
<1>5. s \in Surjection(1..n, Elements(s))
  BY <1>2, <1>3 DEF Surjection, Elements
<1>6. ExistsBijection(1..n, Elements(s))
  BY <1>4, <1>5 DEF ExistsBijection, Bijection
<1>7. IsFiniteSet(1..n) /\ Cardinality(1..n) = n
  BY <1>2, FS_Interval
<1> QED
  BY <1>1, <1>6, <1>7, FS_Bijection

\* The modules that are merged are those that the entry reaches.
LEMMA MergedIsReached ==
    ASSUME TypeOK, StackInv, ProgramOK, ~Loading, current = NoEntry, queue = <<>>
    PROVE  Elements(result) = ReachedKeys
<1>1. /\ Active = {} /\ \A k \in Keys : loaded[k] # 0 => k \in Complete
      /\ \A i \in DOMAIN EntryImports :
             EntryImports[i] \in Got /\ result[i] = Target[EntryImports[i]]
      /\ \A d \in Written : d.importer \in {Entry} \cup Complete => d \in Got
      /\ Len(EntryImports) <= Len(result)
  BY FinishFacts
<1>2. /\ result \in Seq(Keys) /\ DOMAIN result = 1..Len(result) /\ Len(result) \in Nat
      /\ \A k \in Elements(result) : k \in Keys
  <2>1. result \in Seq(Keys)
    BY DEF TypeOK
  <2> HIDE DEF Keys
  <2> QED
    BY <2>1, ElementOfSeq, LenProperties DEF Elements
<1>3. MergedOK
  BY DEF ProgramOK
<1>4. \A k \in Elements(result) : k \in ReachedKeys /\ k \in Complete
  BY <1>1, <1>2, <1>3 DEF MergedOK
<1>5. DOMAIN queue = {} /\ Elements(queue) = {}
  BY DEF Elements
<1>6. ASSUME NEW d \in Written, d.importer \in {Entry} \cup Elements(result)
      PROVE  Target[d] \in Elements(result)
  <2>1. CASE d.importer = Entry
    <3>1. PICK i \in DOMAIN EntryImports : d = EntryImports[i]
      BY <2>1, WrittenFacts
    <3>2. i \in DOMAIN result
      BY <1>1, <1>2, WrittenFacts
    <3> QED
      BY <3>1, <3>2, <1>1 DEF Elements
  <2>2. CASE d.importer \in Elements(result)
    <3>1. d \in Got /\ d \in QueueEntries
      BY <2>2, <1>1, <1>4, WrittenFacts
    <3>2. IdentityOf[d] \in seen
      BY <2>2, <1>3, <1>5 DEF MergedOK
    <3>3. IdentityOf[d][2] \in Elements(result)
      BY <3>2, <1>3 DEF MergedOK
    <3>4. IdentityOf[d] = KeyIdentity(Target[d])
      BY <3>1, TargetFacts DEF Got
    <3> QED
      BY <3>3, <3>4, IdentityFacts
  <2> QED
    BY <2>1, <2>2, <1>6
<1>7. PICK R : R = Elements(result) \cap Files
  OBVIOUS
<1>8. Entry \in Files
  BY ConstantsAssumption
<1>9. ASSUME NEW f \in {Entry} \cup R, NEW g \in Succ(f)
      PROVE  g \in R
  <2>1. f \in Files /\ g \in Files
    BY <1>7, <1>8, ImportTypes
  <2>2. PICK d \in Written : d.importer = f /\ Target[d] = g
    BY <2>1, SuccImports
  <2> QED
    BY <2>1, <2>2, <1>6, <1>7
<1>10. Succ(Entry) \subseteq R /\ Closed(R) /\ R \in SUBSET Files
  BY <1>7, <1>9 DEF Closed
<1>11. Below \subseteq R
  BY <1>8, <1>10, ImportTypes, ReachIsClosed DEF Below
<1>12. ASSUME NEW p \in VirtualPaths, NEW f \in {Entry} \cup Below, p \in Imports(f)
       PROVE  VirtualKey[p] \in Elements(result)
  <2>1. f \in Files /\ f \in {Entry} \cup Elements(result)
    BY <1>7, <1>8, <1>11
  <2>2. PICK d : d = Import(p, f)
    OBVIOUS
  <2>3. d \in Written /\ d \in QueueEntries /\ d.path = p /\ d.importer = f
    BY <1>12, <2>1, <2>2, WrittenFacts, EventFacts
  <2>4. Target[d] = VirtualKey[p]
    BY <2>3, TargetFacts
  <2> QED
    BY <2>1, <2>3, <2>4, <1>6
<1>13. ReachedKeys \subseteq Elements(result)
  BY <1>7, <1>11, <1>12 DEF ReachedKeys, Below
<1> QED
  BY <1>4, <1>13

\* The merge order of an accepted program.
LEMMA MergedInOrder ==
    ASSUME TypeOK, StackInv, ProgramOK, ~Loading, current = NoEntry, queue = <<>>
    PROVE  LET imports == disk[Entry].imports
           IN  /\ Elements(result) = ReachedKeys
               /\ Len(result) = Cardinality(ReachedKeys)
               /\ \A i \in DOMAIN imports : result[i] = GetModule(imports[i], Entry)
               /\ Entry \notin Elements(result)
<1>1. PICK imports : imports = disk[Entry].imports
  OBVIOUS
<1>2. Entry \in Files
  BY ConstantsAssumption
<1>3. Elements(result) = ReachedKeys
  BY MergedIsReached
<1>4. Len(result) = Cardinality(ReachedKeys)
  <2>1. result \in Seq(Keys) /\ \A i, j \in DOMAIN result : i # j => result[i] # result[j]
    BY DEF TypeOK, ProgramOK, MergedOK
  <2> HIDE DEF Keys
  <2> QED
    BY <2>1, <1>3, DistinctElements
<1>5. ASSUME NEW i \in DOMAIN imports
      PROVE  result[i] = GetModule(imports[i], Entry)
  <2>1. /\ i \in DOMAIN EntryImports /\ EntryImports[i].path = imports[i]
        /\ EntryImports[i].importer = Entry /\ EntryImports[i] \in QueueEntries
    BY <1>1, <1>2, ImportTypes, WrittenFacts
  <2>2. EntryImports[i] \in Got /\ result[i] = Target[EntryImports[i]]
    BY <2>1, FinishFacts
  <2> QED
    BY <2>1, <2>2, TargetFacts
<1>6. Entry \notin Elements(result)
  <2>1. \A p \in VirtualPaths : VirtualKey[p] # Entry
    BY <1>2, ConstantsAssumption
  <2>2. Entry \notin Reach(Succ(Entry))
    BY SuccessIsRight DEF Acceptable
  <2> QED
    BY <2>1, <2>2, <1>3 DEF ReachedKeys
<1> QED
  BY <1>1, <1>3, <1>4, <1>5, <1>6

(***************************************************************************)
(* What the imports are bound to                                           *)
(***************************************************************************)

\* The names of standard modules, and their keys.
LEMMA NameFacts ==
    /\ Files \subseteq Names /\ Files \subseteq Keys /\ VirtualPaths \subseteq Names
    /\ VirtualPaths \subseteq Paths /\ NoModule \notin Files
    /\ \A p \in VirtualPaths :
           /\ VirtualKey[p] \notin Files /\ VirtualKey[p] # NoModule
           /\ CanonicalName[p] \in VirtualPaths
           /\ VirtualKey[CanonicalName[p]] = VirtualKey[p]
BY ConstantsAssumption DEF Names, Keys, Paths

\* A name registered for a standard module keeps standing for it, and a load of
\* one registers its spelling.
LEMMA LoadKeepsTable ==
    ASSUME NamesApart, TypeOK, TableInv, Load
    PROVE  /\ TableInv'
           /\ FailEvent \/ \A p \in VirtualPaths : table[p] = VirtualKey[p] =>
                                                        table'[p] = VirtualKey[p]
           /\ LoadVirtualModule => table'[Path] = VirtualKey[Path]
<1>1. /\ \A p \in VirtualPaths : table[p] \in {NoModule, VirtualKey[p]}
      /\ \A f \in Files : loaded[f] # 0 => table[f] = f /\ f \notin VirtualPaths
  BY DEF TableInv
<1>2. table \in [Names -> Keys \cup {NoModule}] /\ loaded \in [Keys -> Nat]
  BY DEF TypeOK
<1>3. CASE LoadVirtualModule
  <2>1. PICK new, registered : /\ new = (loaded[VirtualKey[Path]] = 0)
                               /\ registered = NamesRegistered(Path, new)
    OBVIOUS
  <2>2. /\ Path \in VirtualPaths
        /\ table' = [n \in Names |-> IF n \in registered THEN VirtualKey[Path] ELSE table[n]]
        /\ loaded' = loaded \/ \E x : loaded' = [loaded EXCEPT ![VirtualKey[Path]] = x]
    BY <1>3, <2>1 DEF LoadVirtualModule
  <2>3. /\ registered \subseteq VirtualPaths /\ Path \in registered
        /\ \A p \in registered : VirtualKey[p] = VirtualKey[Path]
    BY <2>1, <2>2, NameFacts DEF NamesRegistered
  <2>4. \A f \in Files : loaded'[f] = loaded[f]
    BY <1>2, <2>2, NameFacts
  <2>5. \A n \in Names : table'[n] = IF n \in registered THEN VirtualKey[Path] ELSE table[n]
    BY <2>2
  <2>6. \A p \in VirtualPaths : table'[p] \in {table[p], VirtualKey[p]}
    BY <2>3, <2>5, NameFacts
  <2>7. \A f \in Files : loaded[f] # 0 => table'[f] = table[f]
    BY <1>1, <2>3, <2>5, NameFacts
  <2>8. TableInv'
    BY <1>1, <2>4, <2>6, <2>7 DEF TableInv
  <2> QED
    BY <2>2, <2>3, <2>5, <2>6, <2>8, NameFacts
<1>4. CASE SkipCached \/ ExitModule
  <2>1. table' = table /\ loaded' = loaded
    BY <1>4 DEF SkipCached, ExitModule, cacheVars
  <2> QED
    BY <1>1, <2>1, <1>4 DEF TableInv, LoadVirtualModule, SkipCached, ExitModule, Entering
<1>5. CASE ReadModule
  <2>1. /\ Entering /\ Path \notin VirtualPaths /\ File # NoModule
        /\ loaded' = [loaded EXCEPT ![File] = clock + 1]
        /\ table' = [table EXCEPT ![File] = File]
    BY <1>5 DEF ReadModule, Uncached
  <2>2. Path \in Paths /\ Importer \in Files
    BY <2>1, NextEvent DEF Entering
  <2>3. /\ File \in Files /\ Path \notin StdPaths
        /\ File \in Elements(Candidates[Importer][Path])
    BY <2>1, <2>2, ResolveIsCandidate DEF File
  <2>4. File \notin VirtualPaths
    BY <2>1, <2>2, <2>3 DEF NamesApart
  <2>5. PICK file : file = File
    OBVIOUS
  <2>6. /\ table'[file] = file
        /\ \A n \in Names : n # file => table'[n] = table[n]
        /\ \A f \in Files : f # file => loaded'[f] = loaded[f]
    BY <1>2, <2>1, <2>3, <2>5, NameFacts
  <2>7. \A p \in VirtualPaths : table'[p] = table[p]
    BY <2>4, <2>5, <2>6, NameFacts
  <2>8. TableInv'
    BY <1>1, <2>4, <2>5, <2>6, <2>7, NameFacts DEF TableInv
  <2> QED
    BY <2>1, <2>7, <2>8 DEF LoadVirtualModule
<1>6. CASE FailEvent
  <2>1. PICK failed : failed = Failed
    OBVIOUS
  <2>2. /\ loaded' = [k \in Keys |-> IF k \in failed THEN 0 ELSE loaded[k]]
        /\ table' = [n \in Names |-> IF n \in failed THEN NoModule ELSE table[n]]
    BY <1>6, <2>1 DEF FailEvent, Unwind
  <2>3. /\ \A f \in Files : loaded'[f] = IF f \in failed THEN 0 ELSE loaded[f]
        /\ \A n \in Names : table'[n] = IF n \in failed THEN NoModule ELSE table[n]
    BY <2>2, NameFacts
  <2>4. TableInv'
    BY <1>1, <2>3, NameFacts DEF TableInv
  <2>5. ~LoadVirtualModule
    BY <1>6 DEF FailEvent, EventError, LoadVirtualModule
  <2> QED
    BY <1>6, <2>4, <2>5
<1> QED
  BY <1>3, <1>4, <1>5, <1>6 DEF Load

\* Every step keeps the table right.
LEMMA StepKeepsTable ==
    ASSUME NamesApart, TypeOK, TableInv, [Next]_vars
    PROVE  TableInv'
<1>1. CASE Load
  BY <1>1, LoadKeepsTable
<1>2. CASE ~Load
  <2>1. table' = table /\ loaded' = loaded
    <3>1. CASE Program
      BY <3>1 DEF Program, VisitImport, CollectModule, FinishProgram, cacheVars
    <3>2. CASE FinishModule \/ StartProgram
      BY <3>2 DEF FinishModule, StartProgram, Begin, cacheVars
    <3>3. ASSUME NEW p \in Requested, StartModule(p) PROVE table' = table /\ loaded' = loaded
      BY <3>3 DEF StartModule, Begin, cacheVars
    <3>4. ASSUME NEW f \in Files, NEW c \in Contents[f], Edit(f, c) PROVE table' = table /\ loaded' = loaded
      BY <3>4 DEF Edit, cacheVars
    <3>5. CASE UNCHANGED vars
      BY <3>5 DEF vars
    <3> QED
      BY <1>2, <3>1, <3>2, <3>3, <3>4, <3>5 DEF Next
  <2> QED
    BY <2>1 DEF TableInv
<1> QED
  BY <1>1, <1>2

\* A step of load_module keeps the bindings, and registers the name it loads.
LEMMA LoadKeepsBindings ==
    ASSUME NamesApart, TypeOK, TableInv, BindingsOK, Load, ~FailEvent
    PROVE  BindingsOK'
<1>1. /\ disk' = disk /\ UNCHANGED programVars
      /\ bindings' = bindings /\ result' = result /\ current' = current
  BY DEF Load, LoadVirtualModule, SkipCached, ReadModule, ExitModule, envVars, programVars
<1>2. EntryImports' = EntryImports /\ NameOf' = NameOf
  BY <1>1, SameDisk DEF NameOf
<1>3. Registered \subseteq Registered'
  BY LoadKeepsTable DEF Registered
<1>4. /\ \A i \in DOMAIN EntryImports : bindings[EntryImports[i].path] = NameOf[EntryImports[i]]
      /\ \A i \in DOMAIN EntryImports : i <= Len(result) => EntryImports[i] \in Registered
  BY DEF BindingsOK
<1>5. ASSUME current # NoEntry, current \notin Registered
      PROVE  current \in Registered'
  <2>1. current \in QueueEntries /\ pending = <<EventOf(current)>>
    BY <1>5 DEF BindingsOK, TypeOK
  <2>2. current.path \in VirtualPaths
    BY <1>5, <2>1 DEF Registered
  <2>3. Head(pending).kind = "enter" /\ Path = current.path
    BY <2>1 DEF Path, EventOf, Enter
  <2>4. LoadVirtualModule
    BY <2>2, <2>3 DEF Load, SkipCached, ReadModule, Uncached, ExitModule
  <2> QED
    BY <2>1, <2>3, <2>4, LoadKeepsTable DEF Registered
<1>6. /\ \A i \in DOMAIN EntryImports' :
             bindings'[EntryImports'[i].path] = NameOf'[EntryImports'[i]]
      /\ \A i \in DOMAIN EntryImports' : i <= Len(result') => EntryImports'[i] \in Registered'
  BY <1>1, <1>2, <1>3, <1>4
<1>7. current' # NoEntry => current' \in Registered'
  BY <1>1, <1>3, <1>5
<1> QED
  BY <1>6, <1>7 DEF BindingsOK

\* The table and the files stay, and the names with them.
LEMMA SameTable ==
    ASSUME disk' = disk, table' = table
    PROVE  EntryImports' = EntryImports /\ NameOf' = NameOf /\ Registered' = Registered
BY SameDisk DEF NameOf, Registered

\* An import is taken from the queue.
LEMMA VisitKeepsBindings ==
    ASSUME TypeOK, StackInv, BindingsOK, VisitImport
    PROVE  BindingsOK'
<1>1. PICK e : e = Head(queue)
  OBVIOUS
<1>2. /\ disk' = disk /\ table' = table /\ bindings' = bindings /\ result' = result
      /\ stack' = stack /\ ~Loading /\ current = NoEntry
      /\ current' = current \/ (current' = e /\ pending' = <<EventOf(e)>>)
  BY <1>1 DEF VisitImport, Waiting, envVars, cacheVars, EventOf
<1>3. stack' = <<>>
  BY <1>2, PlanUnwinds DEF StackInv, StackUnwound
<1>4. /\ \A i \in DOMAIN EntryImports : bindings[EntryImports[i].path] = NameOf[EntryImports[i]]
      /\ \A i \in DOMAIN EntryImports : i <= Len(result) => EntryImports[i] \in Registered
  BY DEF BindingsOK
<1>5. /\ \A i \in DOMAIN EntryImports' :
             bindings'[EntryImports'[i].path] = NameOf'[EntryImports'[i]]
      /\ \A i \in DOMAIN EntryImports' : i <= Len(result') => EntryImports'[i] \in Registered'
  BY <1>2, <1>4, SameTable
<1>6. current' = NoEntry \/ pending' = <<EventOf(current')>>
  BY <1>2
<1> QED
  BY <1>3, <1>5, <1>6 DEF BindingsOK, EventOf

\* A module is merged: if it serves an import of the entry, that is the one whose
\* name was registered by the load that ended.
LEMMA CollectKeepsBindings ==
    ASSUME TypeOK, EntryPlan, BindingsOK, CollectModule
    PROVE  BindingsOK'
<1>1. PICK key : key = GetModule(current.path, current.importer)
  OBVIOUS
<1>2. /\ disk' = disk /\ table' = table /\ bindings' = bindings
      /\ result' = result \/ result' = Append(result, key)
      /\ ~Loading /\ current # NoEntry /\ current' = NoEntry
  BY <1>1 DEF CollectModule, envVars, cacheVars
<1>3. current \in Registered
  BY <1>2 DEF BindingsOK, Loading
<1>4. /\ \A i \in DOMAIN EntryImports : bindings[EntryImports[i].path] = NameOf[EntryImports[i]]
      /\ \A i \in DOMAIN EntryImports : i <= Len(result) => EntryImports[i] \in Registered
  BY DEF BindingsOK
<1>5. Len(result) \in Nat /\ (Len(result') = Len(result) \/ Len(result') = Len(result) + 1)
  BY <1>2 DEF TypeOK
<1>6. ASSUME NEW i \in DOMAIN EntryImports, i <= Len(result'), ~(i <= Len(result))
      PROVE  EntryImports[i] \in Registered
  <2>1. PICK n \in {0} \cup DOMAIN EntryImports :
            Merged(n) /\ (n + 1 \in DOMAIN EntryImports => Waits(n))
    BY DEF EntryPlan
  <2>2. /\ DOMAIN EntryImports = 1..Len(EntryImports) /\ Len(EntryImports) \in Nat
    BY WrittenFacts
  <2>3. n <= Len(result)
    BY <2>1 DEF Merged
  <2>4. n + 1 \in DOMAIN EntryImports
    BY <1>5, <1>6, <2>2, <2>3
  <2>5. Len(result) = n /\ (current = NoEntry \/ current = EntryImports[n + 1])
    BY <2>1, <2>4 DEF Waits
  <2>6. i = n + 1
    BY <1>5, <1>6, <2>2, <2>5
  <2> QED
    BY <1>2, <1>3, <2>5, <2>6
<1>7. /\ \A i \in DOMAIN EntryImports' :
             bindings'[EntryImports'[i].path] = NameOf'[EntryImports'[i]]
      /\ \A i \in DOMAIN EntryImports' : i <= Len(result') => EntryImports'[i] \in Registered'
  BY <1>2, <1>4, <1>6, SameTable
<1> QED
  BY <1>2, <1>7 DEF BindingsOK

\* process_imports binds the imports of the entry on a new resolver.
LEMMA StartKeepsBindings ==
    ASSUME TypeOK, StartProgram, Judging'
    PROVE  BindingsOK'
<1>1. PICK imports : imports = disk[Entry].imports
  OBVIOUS
<1>2. /\ disk' = disk /\ table' = table /\ result' = <<>> /\ current' = NoEntry
      /\ \A p \in Paths : bindings[p] = NoModule
      /\ bindings' = [p \in Paths |->
             IF p \in Elements(imports) /\ bindings[p] = NoModule
             THEN TablePath(p, Entry) ELSE bindings[p]]
  BY <1>1 DEF StartProgram, Begin, Judging, cacheVars
<1>3. EntryImports' = EntryImports /\ NameOf' = NameOf
  BY <1>2, SameTable
<1>4. /\ DOMAIN EntryImports = 1..Len(EntryImports) /\ Len(EntryImports) \in Nat
      /\ Len(EntryImports) = Len(imports) /\ Entry \in Files
  BY <1>1, WrittenFacts, ConstantsAssumption
<1>5. imports \in Seq(Paths) /\ DOMAIN imports = 1..Len(imports)
  BY <1>1, <1>4, ImportTypes
<1>6. ASSUME NEW i \in DOMAIN EntryImports
      PROVE  bindings'[EntryImports[i].path] = NameOf[EntryImports[i]]
  <2>1. PICK d, p : d = EntryImports[i] /\ p = imports[i]
    OBVIOUS
  <2>2. i \in DOMAIN imports /\ p \in Paths /\ p \in Elements(imports)
    BY <1>4, <1>5, <2>1 DEF Elements
  <2>3. d = Import(p, Entry) /\ d \in QueueEntries /\ d.path = p /\ d.importer = Entry
    BY <1>1, <1>4, <2>1, <2>2, EventFacts DEF EntryImports
  <2>4. bindings'[p] = TablePath(p, Entry)
    BY <1>2, <2>2
  <2>5. NameOf[d] = TablePath(p, Entry)
    BY <2>3, TargetFacts DEF NameOf, TablePath
  <2> QED
    BY <2>1, <2>3, <2>4, <2>5
<1>7. \A i \in DOMAIN EntryImports : ~(i <= Len(result'))
  BY <1>2, <1>4
<1>8. /\ \A i \in DOMAIN EntryImports' :
             bindings'[EntryImports'[i].path] = NameOf'[EntryImports'[i]]
      /\ \A i \in DOMAIN EntryImports' : i <= Len(result') => EntryImports'[i] \in Registered'
  BY <1>3, <1>6, <1>7
<1> QED
  BY <1>2, <1>8 DEF BindingsOK

\* The invariant of the bindings holds at first.
LEMMA InitBindingsInv == Init => BindingsInv
BY NameFacts DEF Init, BindingsInv, TableInv, Judging

\* It survives every step.
LEMMA StepBindingsInv ==
    NamesApart => (IInv /\ ProgramInv /\ BindingsInv /\ [Next]_vars => BindingsInv')
<1> SUFFICES ASSUME NamesApart, IInv, ProgramInv, BindingsInv, [Next]_vars
             PROVE  TableInv' /\ (Judging' => BindingsOK')
  BY DEF BindingsInv
<1>1. TypeOK /\ StackInv /\ TableInv
  BY DEF IInv, BindingsInv
<1>2. TableInv'
  BY <1>1, StepKeepsTable
<1> SUFFICES ASSUME Judging' PROVE BindingsOK'
  BY <1>2
<1>3. CASE Load /\ ~FailEvent
  <2>1. Judging
    BY <1>3 DEF Judging, Load, LoadVirtualModule, SkipCached, ReadModule, ExitModule, envVars
  <2> QED
    BY <2>1, <1>1, <1>3, LoadKeepsBindings DEF BindingsInv
<1>4. CASE VisitImport \/ CollectModule
  <2>1. Judging
    BY <1>4 DEF Judging, VisitImport, CollectModule, Waiting, envVars
  <2>2. BindingsOK /\ EntryPlan
    BY <2>1 DEF BindingsInv, ProgramInv, ProgramOK
  <2> QED
    BY <2>2, <1>1, <1>4, VisitKeepsBindings, CollectKeepsBindings
<1>5. CASE StartProgram
  BY <1>1, <1>5, StartKeepsBindings
<1>6. CASE FailEvent \/ FinishProgram \/ FinishModule
  BY <1>6 DEF Judging, FailEvent, FinishProgram, FinishModule
<1>7. ASSUME NEW p \in Requested, StartModule(p) PROVE FALSE
  BY <1>7 DEF Judging, StartModule
<1>8. ASSUME NEW f \in Files, NEW c \in Contents[f], Edit(f, c) PROVE FALSE
  BY <1>8 DEF Judging, Edit
<1>9. CASE UNCHANGED vars
  <2>1. Judging /\ disk' = disk /\ table' = table /\ bindings' = bindings /\ result' = result
        /\ current' = current /\ stack' = stack /\ pending' = pending
    BY <1>9 DEF Judging, vars
  <2>2. EntryImports' = EntryImports /\ NameOf' = NameOf /\ Registered' = Registered
    BY <2>1, SameTable
  <2>3. BindingsOK
    BY <2>1 DEF BindingsInv
  <2> QED
    BY <2>1, <2>2, <2>3 DEF BindingsOK, EventOf
<1> QED
  BY <1>3, <1>4, <1>5, <1>6, <1>7, <1>8, <1>9 DEF Next, Program

\* The name that an import is bound to has the symbols of the import's module
\* when load_program_dependencies returns.
LEMMA BindingsAtTheEnd ==
    ASSUME TypeOK, StackInv, ProgramOK, TableInv, BindingsOK,
           ~Loading, current = NoEntry, queue = <<>>, NEW p \in Imports(Entry)
    PROVE  bindings[p] \in Names /\ table[bindings[p]] = GetModule(p, Entry)
<1>1. PICK imports : imports = disk[Entry].imports
  OBVIOUS
<1>2. PICK i \in DOMAIN imports : p = imports[i]
  BY <1>1 DEF Imports, Elements
<1>3. /\ DOMAIN EntryImports = 1..Len(EntryImports) /\ Len(EntryImports) \in Nat
      /\ Len(EntryImports) = Len(imports) /\ Entry \in Files
  BY <1>1, WrittenFacts, ConstantsAssumption
<1>4. imports \in Seq(Paths) /\ DOMAIN imports = 1..Len(imports) /\ p \in Paths
  BY <1>1, <1>2, <1>3, ImportTypes
<1>5. PICK d : d = Import(p, Entry)
  OBVIOUS
<1>6. /\ i \in DOMAIN EntryImports /\ d = EntryImports[i]
      /\ d \in QueueEntries /\ d.path = p /\ d.importer = Entry
  BY <1>1, <1>2, <1>3, <1>4, <1>5, EventFacts DEF EntryImports
<1>7. d \in Got /\ i <= Len(result)
  <2>1. Len(EntryImports) <= Len(result) /\ \A j \in DOMAIN EntryImports : EntryImports[j] \in Got
    BY FinishFacts
  <2>2. Len(result) \in Nat
    BY DEF TypeOK
  <2> QED
    BY <2>1, <2>2, <1>3, <1>6
<1>8. bindings[p] = NameOf[d] /\ d \in Registered
  BY <1>6, <1>7 DEF BindingsOK
<1>9. Target[d] # NoModule /\ loaded[Target[d]] # 0
  BY <1>7 DEF Got, Found
<1>10. CASE p \in VirtualPaths
  <2>1. bindings[p] = p /\ table[p] = VirtualKey[p] /\ Target[d] = VirtualKey[p]
    BY <1>6, <1>8, <1>10, TargetFacts DEF NameOf, Registered
  <2> QED
    BY <1>9, <1>10, <2>1, NameFacts DEF GetModule
<1>11. CASE p \notin VirtualPaths
  <2>1. PICK f : f = Resolve(p, Entry)
    OBVIOUS
  <2>2. bindings[p] = f /\ Target[d] = f /\ f # NoModule /\ loaded[f] # 0
    BY <1>6, <1>8, <1>9, <1>11, <2>1, TargetFacts DEF NameOf
  <2>3. f \in Files
    BY <1>3, <1>4, <2>1, <2>2, ResolveIsCandidate
  <2>4. table[f] = f
    BY <2>2, <2>3 DEF TableInv
  <2> QED
    BY <1>11, <2>1, <2>2, <2>3, <2>4, NameFacts DEF GetModule
<1> QED
  BY <1>10, <1>11

(***************************************************************************)
(* The theorems                                                            *)
(***************************************************************************)

\* A call of load_program_dependencies ends in one of two ways.
LEMMA ProgramEnds ==
    ASSUME IInv, ProgramInv, Next, call = "program", call' = "none", pristine
    PROVE  /\ TypeOK /\ StackInv /\ ProgramOK
           /\ \/ FailEvent
              \/ ~Loading /\ current = NoEntry /\ queue = <<>> /\ outcome' = "ok"
<1>1. TypeOK /\ StackInv /\ ProgramOK
  BY DEF IInv, ProgramInv, Judging
<1>2. FailEvent \/ FinishProgram
  <2>1. ~(LoadVirtualModule \/ SkipCached \/ ReadModule \/ ExitModule)
    BY DEF LoadVirtualModule, SkipCached, ReadModule, ExitModule
  <2>2. ~(VisitImport \/ CollectModule \/ FinishModule)
    BY DEF VisitImport, CollectModule, FinishModule
  <2>3. ~StartProgram /\ ~(\E p \in Requested : StartModule(p))
    BY DEF StartProgram, StartModule, Begin
  <2>4. ~(\E f \in Files : \E c \in Contents[f] : Edit(f, c))
    BY DEF Edit
  <2> QED
    BY <2>1, <2>2, <2>3, <2>4 DEF Next, Load, Program
<1>3. FinishProgram => ~Loading /\ current = NoEntry /\ queue = <<>> /\ outcome' = "ok"
  BY DEF FinishProgram, Waiting
<1> QED
  BY <1>1, <1>2, <1>3

\* A new resolver accepts a program exactly when every file that the entry
\* reaches can be read, imports nothing twice, names only modules that exist, and
\* does not reach itself: for every import graph, and in whatever order the
\* events and the queue of load_program_dependencies come upon an error.
THEOREM VerdictIsRight == Spec => ProgramVerdict
<1>1. ASSUME IInv, ProgramInv, Next, call = "program", call' = "none", pristine
      PROVE  outcome' = "ok" <=> Acceptable
  BY <1>1, ProgramEnds, FailureIsRight, SuccessIsRight
<1>2. IInv /\ ProgramInv /\ [Next]_vars =>
          [call = "program" /\ call' = "none" /\ pristine
           => (outcome' = "ok" <=> Acceptable)]_vars
  BY <1>1
<1> QED
  BY <1>2, InitIInv, StepIInv, InitProgramInv, StepProgramInv, PTL DEF Spec, ProgramVerdict

\* The modules of an accepted program are merged once each, the entry's own
\* imports first and in source order, and never the entry itself.
THEOREM ModulesMergeInOrder == Spec => MergeOrder
<1>1. ASSUME IInv, ProgramInv, Next, call = "program", call' = "none", outcome' = "ok", pristine
      PROVE  LET imports == disk[Entry].imports
             IN  /\ Elements(result) = ReachedKeys
                 /\ Len(result) = Cardinality(ReachedKeys)
                 /\ \A i \in DOMAIN imports : result[i] = GetModule(imports[i], Entry)
                 /\ Entry \notin Elements(result)
  BY <1>1, ProgramEnds, FailureIsRight, MergedInOrder
<1>2. IInv /\ ProgramInv /\ [Next]_vars =>
          [call = "program" /\ call' = "none" /\ outcome' = "ok" /\ pristine
           => LET imports == disk[Entry].imports
              IN  /\ Elements(result) = ReachedKeys
                  /\ Len(result) = Cardinality(ReachedKeys)
                  /\ \A i \in DOMAIN imports : result[i] = GetModule(imports[i], Entry)
                  /\ Entry \notin Elements(result)]_vars
  BY <1>1
<1> QED
  BY <1>2, InitIInv, StepIInv, InitProgramInv, StepProgramInv, PTL DEF Spec, MergeOrder

\* After an accepted program every name an import of the entry bound stands for
\* the symbols of the module that the import loads, whichever spelling of a
\* standard module came first; provided that no project file is spelled so that
\* its cache key is a name of a standard module.
THEOREM BindingsAreRight ==
    ASSUME NamesApart
    PROVE  Spec => BindingsResolve
<1>1. ASSUME IInv, ProgramInv, BindingsInv, Next,
             call = "program", call' = "none", outcome' = "ok", pristine, NEW p \in Imports(Entry)
      PROVE  bindings[p] \in Names /\ table[bindings[p]] = GetModule(p, Entry)
  <2>1. TableInv /\ BindingsOK
    BY <1>1 DEF BindingsInv, Judging
  <2> QED
    BY <2>1, <1>1, ProgramEnds, FailureIsRight, BindingsAtTheEnd
<1>2. IInv /\ ProgramInv /\ BindingsInv /\ [Next]_vars =>
          [call = "program" /\ call' = "none" /\ outcome' = "ok" /\ pristine
           => \A p \in Imports(Entry) :
                  /\ bindings[p] \in Names
                  /\ table[bindings[p]] = GetModule(p, Entry)]_vars
  BY <1>1
<1>3. IInv /\ ProgramInv /\ BindingsInv /\ [Next]_vars => BindingsInv'
  BY StepBindingsInv
<1> QED
  BY <1>2, <1>3, InitIInv, StepIInv, InitProgramInv, StepProgramInv, InitBindingsInv,
     PTL DEF Spec, BindingsResolve

=============================================================================
