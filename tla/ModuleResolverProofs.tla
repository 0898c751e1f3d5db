------------------------ MODULE ModuleResolverProofs ------------------------
(* Proofs about the import loader, for every project layout, every number of *)
(* edits and every number of calls.                                          *)
EXTENDS ModuleResolver, SequenceTheorems, TLAPS

(***************************************************************************)
(* Lemmas on path resolution and on the next event                         *)
(***************************************************************************)

\* A resolved path is one of the files tried for it (resolve_module_path).
LEMMA ResolveIsCandidate ==
    ASSUME NEW path \in Paths, NEW f \in Files, Resolve(path, f) # NoModule
    PROVE  /\ path \notin StdPaths
           /\ Resolve(path, f) \in Elements(Candidates[f][path])
           /\ Resolve(path, f) \in Files
<1> DEFINE c == Candidates[f][path]
           IsFirst(i) == /\ Exists(c[i])
                         /\ \A j \in 1..(i - 1) : ~Exists(c[j])
<1>1. c \in Seq(Files)
  BY ConstantsAssumption
<1>2. path \notin StdPaths /\ Resolve(path, f) = FirstExisting(c)
  BY DEF Resolve
<1>3. PICK i \in DOMAIN c : FirstExisting(c) = c[i]
  <2>1. \E i \in DOMAIN c : IsFirst(i)
    BY <1>2 DEF FirstExisting
  <2>2. FirstExisting(c) = c[CHOOSE i \in DOMAIN c : IsFirst(i)]
    BY <2>1 DEF FirstExisting
  <2> QED
    BY <2>1, <2>2
<1>4. c[i] \in Files
  BY <1>1, <1>3, ElementOfSeq, LenProperties
<1> QED
  BY <1>2, <1>3, <1>4 DEF Elements

\* The event that runs next, and the events left when it has been popped.
LEMMA NextEvent ==
    ASSUME TypeOK, Loading
    PROVE  /\ Head(pending) \in EnterEvents \cup ExitEvents
           /\ Tail(pending) \in Seq(EnterEvents \cup ExitEvents)
           /\ Entering => /\ Path \in Paths
                          /\ Importer \in Files
                          /\ File # NoModule => File \in Files
<1> DEFINE E == EnterEvents \cup ExitEvents
<1>1. pending \in Seq(E) /\ pending # <<>>
  BY DEF TypeOK, Loading
<1>2. Head(pending) \in E /\ Tail(pending) \in Seq(E)
  BY <1>1, HeadTailProperties
<1>3. ASSUME Entering
      PROVE  Path \in Paths /\ Importer \in Files
  BY <1>2, <1>3 DEF Entering, Path, Importer, EnterEvents, ExitEvents
<1>4. ASSUME Entering, File # NoModule
      PROVE  File \in Files
  BY <1>3, <1>4, ResolveIsCandidate DEF File
<1> QED
  BY <1>2, <1>3, <1>4

\* Unwinding only drops entries (the except and finally clauses of load_module).
LEMMA UnwindTypes ==
    ASSUME TypeOK, Unwind
    PROVE  /\ loaded' \in [Keys -> Nat]
           /\ deps' \in [Keys -> Seq(Paths)]
           /\ \A k \in Keys \ Files : deps'[k] = <<>>
           /\ table' \in [Names -> Keys \cup {NoModule}]
           /\ stack' \in Seq(Files)
<1> USE DEF TypeOK, Unwind
<1>1. loaded' \in [Keys -> Nat]
  OBVIOUS
<1>2. deps' \in [Keys -> Seq(Paths)] /\ \A k \in Keys \ Files : deps'[k] = <<>>
  <2>1. <<>> \in Seq(Paths)
    BY EmptySeq
  <2> QED
    BY <2>1
<1>3. table' \in [Names -> Keys \cup {NoModule}]
  OBVIOUS
<1>4. stack' \in Seq(Files)
  BY EmptySeq
<1> QED
  BY <1>1, <1>2, <1>3, <1>4

\* Functions on an initial segment, and singletons, are sequences.
LEMMA MakeSeq ==
    ASSUME NEW S
    PROVE  /\ \A n \in Nat : \A g \in [1..n -> S] : g \in Seq(S) /\ Len(g) = n
           /\ \A e \in S : <<e>> \in Seq(S) /\ Len(<<e>>) = 1 /\ <<e>>[1] = e
<1>1. \A n \in Nat : \A g \in [1..n -> S] : g \in Seq(S) /\ Len(g) = n
  OBVIOUS
<1>2. \A e \in S : <<e>> \in Seq(S) /\ Len(<<e>>) = 1 /\ <<e>>[1] = e
  OBVIOUS
<1> QED
  BY <1>1, <1>2

\* Removing the last element of a sequence.
LEMMA PopProperties ==
    ASSUME NEW S, NEW s \in Seq(S), NEW t, t = SubSeq(s, 1, Len(s) - 1)
    PROVE  /\ t \in Seq(S)
           /\ DOMAIN t = 1..(Len(s) - 1)
           /\ \A i \in 1..(Len(s) - 1) : t[i] = s[i]
           /\ Len(s) \in Nat
           /\ s # <<>> => Len(t) = Len(s) - 1
<1>1. Len(s) \in Nat /\ DOMAIN s = 1..Len(s) /\ \A i \in 1..(Len(s) - 1) : s[i] \in S
  BY LenProperties
<1>2. /\ t \in Seq(S)
      /\ Len(t) = IF 1 <= Len(s) - 1 THEN Len(s) - 1 ELSE 0
      /\ \A i \in 1..(Len(s) - 1) : t[i] = s[i]
  BY <1>1, SubSeqProperties
<1>3. 1..Len(t) = 1..(Len(s) - 1)
  <2>1. CASE 1 <= Len(s) - 1
    BY <1>2, <2>1
  <2>2. CASE ~(1 <= Len(s) - 1)
    BY <1>1, <1>2, <2>2
  <2> QED
    BY <2>1, <2>2
<1>4. DOMAIN t = 1..Len(t)
  BY <1>2, LenProperties
<1>5. s # <<>> => Len(s) # 0
  BY EmptySeq
<1> QED
  BY <1>1, <1>2, <1>3, <1>4, <1>5

\* The queue entries made from a list of imports.
LEMMA ImportEntries ==
    ASSUME NEW imports \in Seq(Paths), NEW f \in Files
    PROVE  [i \in 1..Len(imports) |-> [path |-> imports[i], importer |-> f]]
               \in Seq(QueueEntries)
<1>1. Len(imports) \in Nat /\ \A i \in 1..Len(imports) : imports[i] \in Paths
  BY LenProperties
<1>2. \A i \in 1..Len(imports) : [path |-> imports[i], importer |-> f] \in QueueEntries
  BY <1>1 DEF QueueEntries
<1> QED
  BY <1>1, <1>2

\* The events that read a file: its imports, then its exit.
LEMMA FileEvents ==
    ASSUME NEW imports \in Seq(Paths), NEW f \in Files
    PROVE  [i \in 1..Len(imports) |-> Enter(imports[i], f)]
               \o <<Exit(f)>> \in Seq(EnterEvents \cup ExitEvents)
<1> DEFINE E == EnterEvents \cup ExitEvents
           s == [i \in 1..Len(imports) |-> Enter(imports[i], f)]
<1>1. Len(imports) \in Nat /\ \A i \in 1..Len(imports) : imports[i] \in Paths
  BY LenProperties
<1>2. \A i \in 1..Len(imports) : Enter(imports[i], f) \in E
  BY <1>1 DEF Enter, EnterEvents
<1>3. Exit(f) \in E
  BY DEF Exit, ExitEvents
<1> HIDE DEF E
<1>4. s \in [1..Len(imports) -> E]
  BY <1>2
<1>5. s \in Seq(E)
  <2> HIDE DEF s
  <2> QED
    BY <1>1, <1>4, MakeSeq
<1>6. <<Exit(f)>> \in Seq(E)
  BY <1>3, MakeSeq
<1>7. s \o <<Exit(f)>> \in Seq(E)
  BY <1>5, <1>6, ConcatProperties
<1> QED
  BY <1>7 DEF E

\* What a readable file holds.
LEMMA DiskImports ==
    ASSUME NEW d \in Disks, NEW f \in Files
    PROVE  d[f].imports \in Seq(Paths) /\ d[f].state \in FileStates
<1>1. d[f] \in Contents[f]
  BY DEF Disks
<1>2. Contents[f] \subseteq [state : FileStates, imports : Seq(Paths)]
  BY ConstantsAssumption
<1> QED
  BY <1>1, <1>2

(***************************************************************************)
(* Type correctness                                                        *)
(***************************************************************************)

\* The frames of the actions, conjunct by conjunct.
LEMMA CacheTypes ==
    ASSUME TypeOK, UNCHANGED cacheVars
    PROVE  /\ loaded' \in [Keys -> Nat]
           /\ deps' \in [Keys -> Seq(Paths)]
           /\ \A k \in Keys \ Files : deps'[k] = <<>>
           /\ table' \in [Names -> Keys \cup {NoModule}]
           /\ clock' \in Nat
           /\ rank' \in [Keys -> Nat]
BY DEF TypeOK, cacheVars

\* The same of what the loop over a program keeps.
LEMMA ProgramTypes ==
    ASSUME TypeOK, UNCHANGED programVars
    PROVE  /\ bindings' \in [Paths -> Paths \cup Files \cup {NoModule}]
           /\ queue' \in Seq(QueueEntries)
           /\ seen' \subseteq ({"virtual", "file", "unresolved"} \X (Keys \cup Paths))
           /\ result' \in Seq(Keys)
           /\ current' \in QueueEntries \cup {NoEntry}
BY DEF TypeOK, programVars

\* The same of the environment.
LEMMA EnvTypes ==
    ASSUME TypeOK, UNCHANGED envVars
    PROVE  /\ disk' \in Disks
           /\ pristine' \in BOOLEAN
           /\ edits' \in Nat
           /\ calls' \in Nat
BY DEF TypeOK, envVars

\* Changing one entry of a cache field.
LEMMA EntryTypes ==
    ASSUME NEW S, NEW f \in [Keys -> S], NEW k, NEW e \in S
    PROVE  [f EXCEPT ![k] = e] \in [Keys -> S]
OBVIOUS

\* Every step of load_module preserves the types.
LEMMA LoadTypes ==
    ASSUME TypeOK, Load
    PROVE  TypeOK'
<1>1. CASE LoadVirtualModule
  <2> DEFINE key == VirtualKey[Path]
  <2>1. /\ Path \in VirtualPaths
        /\ pending' = Tail(pending) /\ UNCHANGED <<stack, call, outcome>>
        /\ UNCHANGED programVars /\ UNCHANGED envVars
        /\ Loading
    BY <1>1 DEF LoadVirtualModule, Entering
  <2>2. key \in Keys /\ key \notin Files
    BY <2>1, ConstantsAssumption
  <2>3. table' \in [Names -> Keys \cup {NoModule}]
    BY <1>1, <2>2 DEF LoadVirtualModule, TypeOK
  <2>4. /\ loaded' \in [Keys -> Nat] /\ rank' \in [Keys -> Nat] /\ clock' \in Nat
        /\ deps' \in [Keys -> Seq(Paths)] /\ \A k \in Keys \ Files : deps'[k] = <<>>
    <3>1. CASE loaded[key] # 0
      BY <1>1, <3>1 DEF LoadVirtualModule, TypeOK
    <3>2. CASE loaded[key] = 0
      <4>1. /\ clock' = clock + 1
            /\ loaded' = [loaded EXCEPT ![key] = clock + 1]
            /\ rank' = [rank EXCEPT ![key] = clock + 1]
            /\ deps' = [deps EXCEPT ![key] = <<>>]
        BY <1>1, <3>2 DEF LoadVirtualModule
      <4>2. clock + 1 \in Nat /\ <<>> \in Seq(Paths)
        BY EmptySeq DEF TypeOK
      <4>3. /\ loaded' \in [Keys -> Nat] /\ rank' \in [Keys -> Nat]
            /\ deps' \in [Keys -> Seq(Paths)]
        BY <4>1, <4>2, EntryTypes DEF TypeOK
      <4>4. \A k \in Keys \ Files : deps'[k] = <<>>
        BY <4>1 DEF TypeOK
      <4> QED
        BY <4>1, <4>2, <4>3, <4>4
    <3> QED
      BY <3>1, <3>2
  <2>6. pending' \in Seq(EnterEvents \cup ExitEvents)
    BY <2>1, NextEvent
  <2> QED
    BY <2>1, <2>3, <2>4, <2>6, ProgramTypes, EnvTypes DEF TypeOK
<1>2. CASE SkipCached
  <2>1. /\ pending' = Tail(pending) /\ UNCHANGED <<stack, call, outcome>>
        /\ UNCHANGED cacheVars /\ UNCHANGED programVars /\ UNCHANGED envVars
        /\ Loading
    BY <1>2 DEF SkipCached, Entering
  <2>2. pending' \in Seq(EnterEvents \cup ExitEvents)
    BY <2>1, NextEvent
  <2> QED
    BY <2>1, <2>2, CacheTypes, ProgramTypes, EnvTypes DEF TypeOK
<1>3. CASE ReadModule
  <2> DEFINE imports == disk[File].imports
  <2>1. /\ UNCHANGED <<rank, call, outcome>>
        /\ UNCHANGED programVars /\ UNCHANGED envVars
        /\ Loading /\ Entering /\ File # NoModule
    BY <1>3 DEF ReadModule, Uncached, Entering
  <2>2. File \in Files /\ File \in Keys /\ File \in Names
    BY <2>1, NextEvent DEF Keys, Names
  <2>3. imports \in Seq(Paths)
    BY <2>2, DiskImports DEF TypeOK
  <2>4. stack' \in Seq(Files)
    BY <1>3, <2>2, AppendProperties DEF ReadModule, TypeOK
  <2>5. clock' \in Nat /\ loaded' \in [Keys -> Nat]
    <3>1. clock' = clock + 1 /\ loaded' = [loaded EXCEPT ![File] = clock + 1]
      BY <1>3 DEF ReadModule
    <3>2. clock + 1 \in Nat
      BY DEF TypeOK
    <3> QED
      BY <3>1, <3>2, EntryTypes DEF TypeOK
  <2>6. deps' \in [Keys -> Seq(Paths)] /\ \A k \in Keys \ Files : deps'[k] = <<>>
    <3>1. deps' = [deps EXCEPT ![File] = imports]
      BY <1>3 DEF ReadModule
    <3>2. \A k \in Keys \ Files : deps'[k] = <<>>
      BY <3>1, <2>2 DEF TypeOK
    <3> QED
      BY <3>1, <3>2, <2>3, EntryTypes DEF TypeOK
  <2>7. table' \in [Names -> Keys \cup {NoModule}]
    BY <1>3, <2>2 DEF ReadModule, TypeOK
  <2>8. pending' \in Seq(EnterEvents \cup ExitEvents)
    <3> DEFINE E == EnterEvents \cup ExitEvents
               new == [i \in 1..Len(imports) |-> Enter(imports[i], File)]
                          \o <<Exit(File)>>
    <3>1. new \in Seq(E)
      BY <2>2, <2>3, FileEvents
    <3>2. Tail(pending) \in Seq(E)
      BY <2>1, NextEvent
    <3>3. pending' = new \o Tail(pending)
      BY <1>3 DEF ReadModule
    <3> HIDE DEF E, new
    <3>4. pending' \in Seq(E)
      BY <3>1, <3>2, <3>3, ConcatProperties
    <3> QED
      BY <3>4 DEF E
  <2> QED
    BY <2>1, <2>4, <2>5, <2>6, <2>7, <2>8, ProgramTypes, EnvTypes DEF TypeOK
<1>4. CASE ExitModule
  <2>1. /\ UNCHANGED <<loaded, deps, table, call, outcome>>
        /\ UNCHANGED programVars /\ UNCHANGED envVars
        /\ Loading /\ pending' = Tail(pending)
        /\ stack' = SubSeq(stack, 1, Len(stack) - 1)
    BY <1>4 DEF ExitModule
  <2>2. stack' \in Seq(Files)
    BY <2>1, PopProperties DEF TypeOK
  <2>3. clock' \in Nat /\ rank' \in [Keys -> Nat]
    <3>1. clock' = clock + 1 /\ rank' = [rank EXCEPT ![stack[Len(stack)]] = clock + 1]
      BY <1>4 DEF ExitModule
    <3>2. clock + 1 \in Nat
      BY DEF TypeOK
    <3> QED
      BY <3>1, <3>2, EntryTypes DEF TypeOK
  <2>4. pending' \in Seq(EnterEvents \cup ExitEvents)
    BY <2>1, NextEvent
  <2> QED
    BY <2>1, <2>2, <2>3, <2>4, ProgramTypes, EnvTypes DEF TypeOK
<1>5. CASE FailEvent
  <2>1. /\ Unwind /\ pending' = <<>> /\ queue' = <<>> /\ current' = NoEntry
        /\ call' = "none" /\ outcome' = EventError
        /\ UNCHANGED <<rank, clock, seen, result, bindings>>
        /\ UNCHANGED envVars
    BY <1>5 DEF FailEvent
  <2>2. EventError \in Outcomes
    BY DEF EventError, Outcomes
  <2>3. pending' \in Seq(EnterEvents \cup ExitEvents) /\ queue' \in Seq(QueueEntries)
    BY <2>1, EmptySeq
  <2> QED
    BY <2>1, <2>2, <2>3, UnwindTypes, EnvTypes DEF TypeOK
<1> QED
  BY <1>1, <1>2, <1>3, <1>4, <1>5 DEF Load

\* Identity and GetModule name a cache key or a path (_canonical_import_key).
LEMMA IdentityTypes ==
    ASSUME NEW path \in Paths, NEW f \in Files
    PROVE  Identity(path, f) \in {"virtual", "file", "unresolved"} \X (Keys \cup Paths)
<1>1. path \in VirtualPaths => VirtualKey[path] \in Keys
  BY ConstantsAssumption
<1>2. Resolve(path, f) # NoModule => Resolve(path, f) \in Keys
  BY ResolveIsCandidate DEF Keys
<1> QED
  BY <1>1, <1>2 DEF Identity

\* get_module finds a key of the cache, or nothing.
LEMMA GetModuleTypes ==
    ASSUME NEW path \in Paths, NEW f \in Files
    PROVE  GetModule(path, f) \in Keys \cup {NoModule}
<1>1. path \in VirtualPaths => VirtualKey[path] \in Keys
  BY ConstantsAssumption
<1>2. Resolve(path, f) # NoModule => Resolve(path, f) \in Keys
  BY ResolveIsCandidate DEF Keys
<1> QED
  BY <1>1, <1>2 DEF GetModule

\* What every public operation starts from.
LEMMA BeginTypes ==
    ASSUME TypeOK, Begin
    PROVE  /\ disk' \in Disks
           /\ loaded' \in [Keys -> Nat]
           /\ deps' \in [Keys -> Seq(Paths)]
           /\ \A k \in Keys \ Files : deps'[k] = <<>>
           /\ table' \in [Names -> Keys \cup {NoModule}]
           /\ stack' \in Seq(Files)
           /\ clock' \in Nat
           /\ rank' \in [Keys -> Nat]
           /\ pristine' \in BOOLEAN
           /\ edits' \in Nat
           /\ calls' \in Nat
<1>1. /\ disk' = disk /\ edits' = edits /\ stack' = stack
      /\ UNCHANGED cacheVars /\ calls' = calls + 1
  BY DEF Begin
<1>2. pristine' \in BOOLEAN
  BY DEF Begin
<1> QED
  BY <1>1, <1>2, CacheTypes DEF TypeOK

\* Every step of load_program_dependencies preserves the types.
LEMMA ProgramStepTypes ==
    ASSUME TypeOK, Program
    PROVE  TypeOK'
<1>1. CASE VisitImport
  <2> DEFINE e == Head(queue)
  <2>1. /\ queue # <<>> /\ queue' = Tail(queue)
        /\ UNCHANGED <<result, bindings, stack, call, outcome>>
        /\ UNCHANGED cacheVars /\ UNCHANGED envVars
    BY <1>1 DEF VisitImport
  <2>2. e \in QueueEntries /\ queue' \in Seq(QueueEntries)
    BY <2>1, HeadTailProperties DEF TypeOK
  <2>3. e.path \in Paths /\ e.importer \in Files
    BY <2>2 DEF QueueEntries
  <2>4. /\ seen' \subseteq ({"virtual", "file", "unresolved"} \X (Keys \cup Paths))
        /\ current' \in QueueEntries \cup {NoEntry}
        /\ pending' \in Seq(EnterEvents \cup ExitEvents)
    <3>1. CASE Identity(e.path, e.importer) \in seen
      BY <1>1, <3>1 DEF VisitImport, TypeOK
    <3>2. CASE Identity(e.path, e.importer) \notin seen
      <4>1. /\ seen' = seen \cup {Identity(e.path, e.importer)}
            /\ current' = e
            /\ pending' = <<Enter(e.path, e.importer)>>
        BY <1>1, <3>2 DEF VisitImport
      <4>2. Enter(e.path, e.importer) \in EnterEvents \cup ExitEvents
        BY <2>3 DEF Enter, EnterEvents
      <4>3. pending' \in Seq(EnterEvents \cup ExitEvents)
        BY <4>1, <4>2, MakeSeq
      <4>4. seen' \subseteq ({"virtual", "file", "unresolved"} \X (Keys \cup Paths))
        BY <4>1, <2>3, IdentityTypes DEF TypeOK
      <4> QED
        BY <4>1, <4>3, <4>4, <2>2
    <3> QED
      BY <3>1, <3>2
  <2> QED
    BY <2>1, <2>2, <2>4, CacheTypes, EnvTypes DEF TypeOK
<1>2. CASE CollectModule
  <2> DEFINE key == GetModule(current.path, current.importer)
             more == [i \in 1..Len(deps[key]) |->
                          [path |-> deps[key][i], importer |-> key]]
  <2>1. /\ current # NoEntry /\ current' = NoEntry
        /\ UNCHANGED <<seen, bindings, stack, pending, call, outcome>>
        /\ UNCHANGED cacheVars /\ UNCHANGED envVars
    BY <1>2 DEF CollectModule
  <2>2. current.path \in Paths /\ current.importer \in Files
    BY <2>1 DEF TypeOK, QueueEntries
  <2>3. result' \in Seq(Keys) /\ queue' \in Seq(QueueEntries)
    <3>1. CASE key = NoModule
      BY <1>2, <3>1 DEF CollectModule, TypeOK
    <3>2. CASE key # NoModule
      <4>1. key \in Keys
        BY <2>2, <3>2, GetModuleTypes
      <4>2. result' = Append(result, key) /\ queue' = queue \o more
        BY <1>2, <3>2 DEF CollectModule
      <4>3. more \in Seq(QueueEntries)
        <5>1. CASE key \in Files
          BY <5>1, <4>1, ImportEntries DEF TypeOK
        <5>2. CASE key \notin Files
          <6>1. Len(deps[key]) = 0
            BY <5>2, <4>1, EmptySeq DEF TypeOK
          <6>2. more \in [1..0 -> QueueEntries]
            BY <6>1
          <6> HIDE DEF more
          <6> QED
            BY <6>2, MakeSeq
        <5> QED
          BY <5>1, <5>2
      <4> HIDE DEF more, key
      <4>4. result' \in Seq(Keys)
        BY <4>1, <4>2, AppendProperties DEF TypeOK
      <4>5. queue' \in Seq(QueueEntries)
        BY <4>2, <4>3, ConcatProperties DEF TypeOK
      <4> QED
        BY <4>4, <4>5
    <3> QED
      BY <3>1, <3>2
  <2> QED
    BY <2>1, <2>3, CacheTypes, EnvTypes DEF TypeOK
<1>3. CASE FinishProgram
  <2>1. /\ call' = "none" /\ outcome' = "ok" /\ UNCHANGED <<stack, pending>>
        /\ UNCHANGED cacheVars /\ UNCHANGED programVars /\ UNCHANGED envVars
    BY <1>3 DEF FinishProgram
  <2> QED
    BY <2>1, CacheTypes, ProgramTypes, EnvTypes DEF TypeOK, Outcomes
<1> QED
  BY <1>1, <1>2, <1>3 DEF Program

\* Starting or ending a public operation preserves the types.
LEMMA OperationTypes ==
    ASSUME TypeOK,
           FinishModule \/ StartProgram \/ \E p \in Requested : StartModule(p)
    PROVE  TypeOK'
<1>1. CASE FinishModule
  <2>1. /\ call' = "none" /\ outcome' = "ok" /\ UNCHANGED <<stack, pending>>
        /\ UNCHANGED cacheVars /\ UNCHANGED programVars /\ UNCHANGED envVars
    BY <1>1 DEF FinishModule
  <2> QED
    BY <2>1, CacheTypes, ProgramTypes, EnvTypes DEF TypeOK, Outcomes
<1>2. CASE StartProgram
  <2> DEFINE imports == disk[Entry].imports
  <2>1. /\ Begin /\ seen' = {} /\ result' = <<>> /\ current' = NoEntry
        /\ pending' = <<>>
    BY <1>2 DEF StartProgram
  <2>2. Entry \in Files /\ imports \in Seq(Paths)
    BY ConstantsAssumption, DiskImports DEF TypeOK
  <2>3. bindings' \in [Paths -> Paths \cup Files \cup {NoModule}]
    <3>1. bindings' = [p \in Paths |->
                          IF p \in Elements(imports) /\ bindings[p] = NoModule
                          THEN TablePath(p, Entry) ELSE bindings[p]]
      BY <1>2 DEF StartProgram
    <3>2. \A p \in Paths : TablePath(p, Entry) \in Paths \cup Files
      BY <2>2, ResolveIsCandidate DEF TablePath
    <3> QED
      BY <3>1, <3>2 DEF TypeOK
  <2>4. /\ queue' \in Seq(QueueEntries)
        /\ call' \in {"none", "module", "program"}
        /\ outcome' \in Outcomes
    <3>1. CASE HasDuplicate(imports, Entry)
      BY <1>2, <3>1, EmptySeq DEF StartProgram, Outcomes
    <3>2. CASE ~HasDuplicate(imports, Entry)
      BY <1>2, <2>2, <3>2, ImportEntries DEF StartProgram, Outcomes
    <3> QED
      BY <3>1, <3>2
  <2>5. pending' \in Seq(EnterEvents \cup ExitEvents) /\ result' \in Seq(Keys)
    BY <2>1, EmptySeq
  <2> QED
    BY <2>1, <2>3, <2>4, <2>5, BeginTypes DEF TypeOK
<1>3. ASSUME NEW p \in Requested, StartModule(p)
      PROVE  TypeOK'
  <2>1. /\ Begin /\ call' = "module" /\ outcome' = "none"
        /\ pending' = <<Enter(p, Entry)>> /\ UNCHANGED programVars
    BY <1>3 DEF StartModule
  <2>2. Enter(p, Entry) \in EnterEvents \cup ExitEvents
    BY ConstantsAssumption DEF Enter, EnterEvents
  <2>3. pending' \in Seq(EnterEvents \cup ExitEvents)
    BY <2>1, <2>2, MakeSeq
  <2> QED
    BY <2>1, <2>3, BeginTypes, ProgramTypes DEF TypeOK, Outcomes
<1> QED
  BY <1>1, <1>2, <1>3

\* An edit keeps the types.
LEMMA EditTypes ==
    ASSUME TypeOK, NEW f \in Files, NEW c \in Contents[f], Edit(f, c)
    PROVE  TypeOK'
<1>1. /\ disk' = [disk EXCEPT ![f] = c] /\ edits' = edits + 1 /\ pristine' = FALSE
      /\ UNCHANGED <<calls, stack, pending, call, outcome>>
      /\ UNCHANGED cacheVars /\ UNCHANGED programVars
  BY DEF Edit
<1>2. disk' \in Disks
  BY <1>1 DEF TypeOK, Disks
<1>3. edits' \in Nat
  BY <1>1 DEF TypeOK
<1>4. pristine' \in BOOLEAN
  BY <1>1
<1> QED
  BY <1>1, <1>2, <1>3, <1>4, CacheTypes, ProgramTypes DEF TypeOK

\* The initial state is well typed.
LEMMA InitTypes == Init => TypeOK
<1> SUFFICES ASSUME Init PROVE TypeOK
  OBVIOUS
<1>1. \A S : <<>> \in Seq(S)
  BY EmptySeq
<1> QED
  BY <1>1 DEF Init, TypeOK, Outcomes

\* So is the state after every step.
LEMMA StepTypes == TypeOK /\ [Next]_vars => TypeOK'
<1> SUFFICES ASSUME TypeOK, [Next]_vars PROVE TypeOK'
  OBVIOUS
<1>1. CASE UNCHANGED vars
  BY <1>1 DEF vars, TypeOK
<1>2. CASE Next
  BY <1>2, LoadTypes, ProgramStepTypes, OperationTypes, EditTypes DEF Next
<1> QED
  BY <1>1, <1>2

\* The resolver's fields keep their shape whatever is edited and whichever
\* operations are called: only files are ever on the loading stack, only files
\* import, and a stdlib module depends on nothing.
THEOREM TypeCorrect == Spec => []TypeOK
<1>1. Init => TypeOK
  BY InitTypes
<1>2. TypeOK /\ [Next]_vars => TypeOK'
  BY StepTypes
<1> QED
  BY <1>1, <1>2, PTL DEF Spec

(***************************************************************************)
(* Completed modules keep their identity                                   *)
(***************************************************************************)

Retained == \A k \in Complete : /\ loaded'[k] = loaded[k]
                                /\ deps'[k] = deps[k]
                                /\ k \notin Elements(stack')

\* Steps that leave the cache and the loading stack alone.
LEMMA FrameRetains ==
    ASSUME UNCHANGED <<loaded, deps, stack>>
    PROVE  Retained
BY DEF Retained, Complete, Active

\* No event of a load takes a completed module back.
LEMMA LoadRetains ==
    ASSUME TypeOK, Load
    PROVE  Retained
<1> SUFFICES ASSUME NEW k \in Complete
             PROVE  /\ loaded'[k] = loaded[k]
                    /\ deps'[k] = deps[k]
                    /\ k \notin Elements(stack')
  BY DEF Retained
<1>1. k \in Keys /\ loaded[k] # 0 /\ k \notin Elements(stack)
  BY DEF Complete, Active
<1>2. stack \in Seq(Files) /\ loaded \in [Keys -> Nat] /\ deps \in [Keys -> Seq(Paths)]
  BY DEF TypeOK
<1>3. CASE LoadVirtualModule
  <2> DEFINE key == VirtualKey[Path]
  <2>1. stack' = stack
    BY <1>3 DEF LoadVirtualModule
  <2>2. CASE loaded[key] # 0
    <3>1. UNCHANGED <<loaded, deps>>
      BY <1>3, <2>2 DEF LoadVirtualModule
    <3> QED
      BY <2>1, <3>1, <1>1
  <2>3. CASE loaded[key] = 0
    <3>1. /\ loaded' = [loaded EXCEPT ![key] = clock + 1]
          /\ deps' = [deps EXCEPT ![key] = <<>>]
      BY <1>3, <2>3 DEF LoadVirtualModule
    <3>2. k # key
      BY <1>1, <2>3
    <3> QED
      BY <2>1, <3>1, <3>2, <1>1, <1>2
  <2> QED
    BY <2>2, <2>3
<1>4. CASE SkipCached
  <2>1. UNCHANGED <<loaded, deps, stack>>
    BY <1>4 DEF SkipCached, cacheVars
  <2> QED
    BY <2>1, <1>1
<1>5. CASE ReadModule
  <2>1. /\ loaded[File] = 0 /\ stack' = Append(stack, File)
        /\ loaded' = [loaded EXCEPT ![File] = clock + 1]
        /\ deps' = [deps EXCEPT ![File] = disk[File].imports]
        /\ Loading /\ Entering /\ File # NoModule
    BY <1>5 DEF ReadModule, Uncached, Entering
  <2>2. k # File /\ File \in Files
    BY <2>1, <1>1, NextEvent
  <2>3. k \notin Elements(stack')
    <3>1. Len(stack') = Len(stack) + 1 /\ stack' \in Seq(Files)
      BY <2>1, <2>2, <1>2, AppendProperties
    <3>2. \A i \in 1..Len(stack) : stack'[i] = stack[i]
      BY <2>1, <2>2, <1>2, AppendProperties
    <3>3. stack'[Len(stack) + 1] = File
      BY <2>1, <2>2, <1>2, AppendProperties
    <3>4. Len(stack) \in Nat /\ DOMAIN stack = 1..Len(stack)
          /\ DOMAIN stack' = 1..(Len(stack) + 1)
      BY <3>1, <1>2, LenProperties
    <3> QED
      BY <3>1, <3>2, <3>3, <3>4, <2>2, <1>1 DEF Elements
  <2> QED
    BY <2>1, <2>2, <2>3, <1>1, <1>2
<1>6. CASE ExitModule
  <2>1. UNCHANGED <<loaded, deps>> /\ stack' = SubSeq(stack, 1, Len(stack) - 1)
    BY <1>6 DEF ExitModule
  <2>2. k \notin Elements(stack')
    <3>1. /\ DOMAIN stack' = 1..(Len(stack) - 1) /\ Len(stack) \in Nat
          /\ \A i \in 1..(Len(stack) - 1) : stack'[i] = stack[i]
      BY <2>1, <1>2, PopProperties
    <3>2. DOMAIN stack = 1..Len(stack)
      BY <1>2, LenProperties
    <3>3. \A i \in DOMAIN stack' : i \in DOMAIN stack /\ stack'[i] = stack[i]
      BY <3>1, <3>2
    <3> QED
      BY <3>3, <1>1 DEF Elements
  <2> QED
    BY <2>1, <2>2
<1>7. CASE FailEvent
  <2>1. Unwind
    BY <1>7 DEF FailEvent
  <2>2. k \notin Failed
    BY <1>1 DEF Failed, Uncached, Active
  <2> QED
    BY <2>1, <2>2, <1>1 DEF Unwind, Elements
<1> QED
  BY <1>3, <1>4, <1>5, <1>6, <1>7 DEF Load

\* No step drops or replaces a module that was loaded completely, the
\* unwinding of a failed load included ("Completed dependencies retain their
\* existing identities").
THEOREM CompletedRetained == Spec => RetainsCompleted
<1>1. TypeOK /\ [Next]_vars => [Retained]_vars
  <2> SUFFICES ASSUME TypeOK, Next PROVE Retained
    OBVIOUS
  <2>1. CASE Load
    BY <2>1, LoadRetains
  <2>2. CASE ~Load
    <3>1. UNCHANGED <<loaded, deps, stack>>
      BY <2>2 DEF Next, Program, VisitImport, CollectModule, FinishProgram,
                  FinishModule, StartProgram, StartModule, Begin, Edit, cacheVars
    <3> QED
      BY <3>1, FrameRetains
  <2> QED
    BY <2>1, <2>2
<1> QED
  BY <1>1, TypeCorrect, PTL DEF Spec, RetainsCompleted, Retained

(***************************************************************************)
(* The cache is closed and the stack is unwound                            *)
(***************************************************************************)

\* What the types say of the stack, the work list and the imports.
LEMMA SequenceFacts ==
    ASSUME TypeOK
    PROVE  /\ Len(stack) \in Nat /\ DOMAIN stack = 1..Len(stack)
           /\ \A i \in DOMAIN stack : stack[i] \in Files
           /\ Len(pending) \in Nat /\ DOMAIN pending = 1..Len(pending)
           /\ \A p \in DOMAIN pending : pending[p] \in EnterEvents \cup ExitEvents
           /\ \A k \in Keys : deps[k] \in Seq(Paths)
           /\ \A k \in Keys : \A n \in DOMAIN deps[k] : deps[k][n] \in Paths
<1> DEFINE E == EnterEvents \cup ExitEvents
<1>1. stack \in Seq(Files) /\ pending \in Seq(E) /\ \A k \in Keys : deps[k] \in Seq(Paths)
  BY DEF TypeOK
<1>2. /\ Len(stack) \in Nat /\ DOMAIN stack = 1..Len(stack)
      /\ \A i \in DOMAIN stack : stack[i] \in Files
  BY <1>1, LenProperties, ElementOfSeq
<1>3. /\ Len(pending) \in Nat /\ DOMAIN pending = 1..Len(pending)
      /\ \A p \in DOMAIN pending : pending[p] \in E
  <2> HIDE DEF E
  <2> QED
    BY <1>1, LenProperties, ElementOfSeq
<1>4. \A k \in Keys : \A n \in DOMAIN deps[k] : deps[k][n] \in Paths
  BY <1>1, LenProperties, ElementOfSeq
<1> QED
  BY <1>1, <1>2, <1>3, <1>4

\* What is left of the work list after its first event.
LEMMA TailFacts ==
    ASSUME TypeOK, Loading
    PROVE  /\ Len(pending) \in Nat \ {0} /\ Head(pending) = pending[1]
           /\ Len(Tail(pending)) = Len(pending) - 1
           /\ DOMAIN Tail(pending) = 1..(Len(pending) - 1)
           /\ \A p \in 1..(Len(pending) - 1) : Tail(pending)[p] = pending[p + 1]
<1> DEFINE E == EnterEvents \cup ExitEvents
<1>1. pending \in Seq(E) /\ pending # <<>>
  BY DEF TypeOK, Loading
<1> HIDE DEF E
<1>2. Len(pending) \in Nat \ {0}
  BY <1>1, EmptySeq
<1>3. Head(pending) = pending[1]
  BY <1>1
<1>4. /\ Tail(pending) \in Seq(E) /\ Len(Tail(pending)) = Len(pending) - 1
      /\ \A p \in 1..Len(Tail(pending)) : Tail(pending)[p] = pending[p + 1]
  BY <1>1, HeadTailProperties
<1>5. DOMAIN Tail(pending) = 1..Len(Tail(pending))
  BY <1>4, LenProperties
<1> QED
  BY <1>2, <1>3, <1>4, <1>5

\* When no event is left, no module is still being loaded.
LEMMA PlanUnwinds == TypeOK /\ StackPlan => StackUnwound
<1> SUFFICES ASSUME TypeOK, StackPlan, pending = <<>>, stack # <<>>
             PROVE  FALSE
  BY DEF StackUnwound, Loading
<1>1. PICK ex \in [DOMAIN stack -> DOMAIN pending] : TRUE
  BY DEF StackPlan
<1>2. Len(pending) = 0 /\ Len(stack) # 0
  BY EmptySeq DEF TypeOK
<1>3. 1 \in DOMAIN stack /\ DOMAIN pending = {}
  BY <1>2, SequenceFacts
<1> QED
  BY <1>1, <1>3

\* The event at the front, when it enters a module, precedes every exit event.
LEMMA EnterBeforeExits ==
    ASSUME TypeOK, Entering,
           NEW ex \in [DOMAIN stack -> DOMAIN pending], ExitsAt(ex)
    PROVE  \A i \in DOMAIN stack : ex[i] \in 2..Len(pending)
<1> SUFFICES ASSUME NEW i \in DOMAIN stack PROVE ex[i] \in 2..Len(pending)
  OBVIOUS
<1>1. ex[i] \in 1..Len(pending) /\ Len(pending) \in Nat
  BY SequenceFacts
<1>2. pending[ex[i]] = Exit(stack[i])
  BY DEF ExitsAt
<1>3. pending[1].kind = "enter"
  BY TailFacts DEF Entering
<1>4. ex[i] # 1
  BY <1>2, <1>3 DEF Exit
<1> QED
  BY <1>1, <1>4

\* The file an import names is among its targets.
LEMMA FileIsTarget ==
    ASSUME NEW path \in Paths, NEW f \in Files,
           path \notin VirtualPaths, Resolve(path, f) # NoModule
    PROVE  Resolve(path, f) \in Targets(path, f)
BY ResolveIsCandidate DEF Targets

\* Popping an enter event whose module is complete keeps the plan.
LEMMA PopKeepsPlan ==
    ASSUME TypeOK, StackPlan, Entering,
           pending' = Tail(pending), stack' = stack,
           \A k \in Active : deps'[k] = deps[k],
           Complete \subseteq Complete',
           \E t \in Targets(Path, Importer) : t \in Complete'
    PROVE  StackPlan'
<1>1. PICK ex \in [DOMAIN stack -> DOMAIN pending] :
          /\ ExitsAt(ex)
          /\ \A i \in DOMAIN stack : \A n \in DOMAIN deps[stack[i]] :
                 Served(ex, i, deps[stack[i]][n])
  BY DEF StackPlan
<1>2. Loading
  BY DEF Entering
<1>3. \A i \in DOMAIN stack : ex[i] \in 2..Len(pending)
  BY <1>1, EnterBeforeExits
<1>4. PICK f : f = [i \in DOMAIN stack |-> ex[i] - 1]
  OBVIOUS
<1>5. /\ DOMAIN pending' = 1..(Len(pending) - 1)
      /\ \A p \in 1..(Len(pending) - 1) : pending'[p] = pending[p + 1]
      /\ Len(pending) \in Nat /\ DOMAIN pending = 1..Len(pending)
      /\ Len(stack) \in Nat /\ DOMAIN stack = 1..Len(stack)
  BY <1>2, TailFacts, SequenceFacts
<1>6. f \in [DOMAIN stack' -> DOMAIN pending'] /\ \A i \in DOMAIN stack : f[i] = ex[i] - 1
  BY <1>3, <1>4, <1>5
<1>7. ExitsAt(f)'
  <2>1. \A i, j \in DOMAIN stack' : i < j => f[j] < f[i]
    BY <1>1, <1>3, <1>6 DEF ExitsAt
  <2>2. \A i \in DOMAIN stack' : pending'[f[i]] = Exit(stack'[i])
    BY <1>1, <1>3, <1>5, <1>6 DEF ExitsAt
  <2>3. \A p \in DOMAIN pending' : pending'[p].kind = "exit" => \E i \in DOMAIN stack' : f[i] = p
    <3> SUFFICES ASSUME NEW p \in DOMAIN pending', pending'[p].kind = "exit"
                 PROVE  \E i \in DOMAIN stack : f[i] = p
      OBVIOUS
    <3>1. p + 1 \in DOMAIN pending /\ pending[p + 1].kind = "exit"
      BY <1>5
    <3>2. PICK i \in DOMAIN stack : ex[i] = p + 1
      BY <3>1, <1>1 DEF ExitsAt
    <3> QED
      BY <3>2, <1>5, <1>6
  <2> QED
    BY <2>1, <2>2, <2>3 DEF ExitsAt
<1>8. ASSUME NEW i \in DOMAIN stack, NEW d, Served(ex, i, d)
      PROVE  Served(f, i, d)'
  <2> SUFFICES \/ \E t \in Targets(d, stack[i]) : t \in Complete'
               \/ i < Len(stack) /\ stack[i + 1] \in Targets(d, stack[i])
               \/ \E p \in DOMAIN pending' : /\ pending'[p] = Enter(d, stack[i])
                                             /\ p < f[i]
                                             /\ i < Len(stack) => f[i + 1] < p
    BY DEF Served
  <2>1. CASE \E t \in Targets(d, stack[i]) : t \in Complete
    BY <2>1
  <2>2. CASE i < Len(stack) /\ stack[i + 1] \in Targets(d, stack[i])
    BY <2>2
  <2>3. ASSUME NEW p \in DOMAIN pending, pending[p] = Enter(d, stack[i]), p < ex[i],
               i < Len(stack) => ex[i + 1] < p
        PROVE  \/ \E t \in Targets(d, stack[i]) : t \in Complete'
               \/ \E q \in DOMAIN pending' : /\ pending'[q] = Enter(d, stack[i])
                                             /\ q < f[i]
                                             /\ i < Len(stack) => f[i + 1] < q
    <3>1. CASE p = 1
      <4>1. Head(pending) = Enter(d, stack[i])
        BY <2>3, <3>1, <1>2, TailFacts
      <4>2. Path = d /\ Importer = stack[i]
        BY <4>1 DEF Enter, Path, Importer
      <4> QED
        BY <4>2
    <3>2. CASE p # 1
      <4>1. p - 1 \in 1..(Len(pending) - 1) /\ p \in Int
        BY <3>2, <1>5
      <4>2. pending'[p - 1] = Enter(d, stack[i])
        BY <4>1, <1>5, <2>3
      <4>3. p - 1 < f[i]
        BY <4>1, <2>3, <1>3, <1>6
      <4>4. ASSUME i < Len(stack) PROVE f[i + 1] < p - 1
        <5>1. i + 1 \in DOMAIN stack
          BY <4>4, <1>5
        <5>2. f[i + 1] = ex[i + 1] - 1 /\ ex[i + 1] \in Int
          BY <5>1, <1>3, <1>6
        <5> QED
          BY <5>2, <4>4, <4>1, <2>3
      <4> QED
        BY <4>1, <4>2, <4>3, <4>4, <1>5
    <3> QED
      BY <3>1, <3>2
  <2>4. \/ \E t \in Targets(d, stack[i]) : t \in Complete
        \/ i < Len(stack) /\ stack[i + 1] \in Targets(d, stack[i])
        \/ \E p \in DOMAIN pending : /\ pending[p] = Enter(d, stack[i])
                                     /\ p < ex[i]
                                     /\ i < Len(stack) => ex[i + 1] < p
    BY <1>8 DEF Served
  <2>5. CASE \E p \in DOMAIN pending : /\ pending[p] = Enter(d, stack[i])
                                       /\ p < ex[i]
                                       /\ i < Len(stack) => ex[i + 1] < p
    <3>1. PICK p \in DOMAIN pending : /\ pending[p] = Enter(d, stack[i])
                                      /\ p < ex[i]
                                      /\ i < Len(stack) => ex[i + 1] < p
      BY <2>5
    <3> QED
      BY <3>1, <2>3, Zenon
  <2> QED
    BY <2>1, <2>2, <2>4, <2>5
<1>9. \A i \in DOMAIN stack' : \A n \in DOMAIN deps'[stack'[i]] :
          Served(f, i, deps[stack[i]][n])'
  <2> SUFFICES ASSUME NEW i \in DOMAIN stack, NEW n \in DOMAIN deps[stack[i]]
               PROVE  Served(f, i, deps[stack[i]][n])'
    BY DEF Active, Elements
  <2>1. PICK d : d = deps[stack[i]][n]
    OBVIOUS
  <2>2. deps'[stack'[i]][n] = d
    BY <2>1 DEF Active, Elements
  <2>3. Served(f, i, d)'
    BY <2>1, <1>1, <1>8
  <2> QED
    BY <2>2, <2>3
<1> QED
  BY <1>6, <1>7, <1>9 DEF StackPlan

\* What the steps of one load know.
LEMMA CompleteGrows ==
    ASSUME TypeOK, Load
    PROVE  /\ Complete \subseteq Complete'
           /\ \A k \in Complete : deps'[k] = deps[k]
BY LoadRetains DEF Retained, Complete, Active

\* A stdlib module is complete as soon as it is loaded.
LEMMA VirtualKeepsIInv ==
    ASSUME IInv, LoadVirtualModule
    PROVE  StackInv' /\ CacheClosed'
<1> DEFINE key == VirtualKey[Path]
<1>1. /\ TypeOK /\ StackInv /\ CacheClosed /\ Load
  BY DEF IInv, Load
<1>2. /\ Loading /\ Entering /\ Path \in VirtualPaths
      /\ stack' = stack /\ pending' = Tail(pending) /\ call' = call
  BY DEF LoadVirtualModule, Entering
<1>3. /\ key \in Keys /\ key \notin Files /\ key \notin Active
  <2>1. key \in Keys /\ key \notin Files
    BY <1>2, ConstantsAssumption
  <2> QED
    BY <2>1, <1>1, SequenceFacts DEF Active, Elements
<1>4. \/ loaded[key] # 0 /\ UNCHANGED <<clock, loaded, rank, deps>>
      \/ /\ loaded[key] = 0
         /\ clock' = clock + 1
         /\ loaded' = [loaded EXCEPT ![key] = clock + 1]
         /\ rank' = [rank EXCEPT ![key] = clock + 1]
         /\ deps' = [deps EXCEPT ![key] = <<>>]
  BY DEF LoadVirtualModule
<1>5. /\ loaded \in [Keys -> Nat] /\ rank \in [Keys -> Nat] /\ clock \in Nat
      /\ deps \in [Keys -> Seq(Paths)]
  BY <1>1 DEF TypeOK
<1>6. Active' = Active
  BY <1>2 DEF Active, Elements
<1>7. /\ Complete' = Complete \cup {key}
      /\ \A k \in Keys \ {key} : /\ loaded'[k] = loaded[k] /\ deps'[k] = deps[k]
                                 /\ rank'[k] = rank[k]
      /\ clock' \in Nat /\ clock <= clock'
  <2>1. CASE loaded[key] # 0 /\ UNCHANGED <<clock, loaded, rank, deps>>
    BY <2>1, <1>3, <1>5, <1>6 DEF Complete
  <2>2. CASE /\ loaded[key] = 0
             /\ clock' = clock + 1
             /\ loaded' = [loaded EXCEPT ![key] = clock + 1]
             /\ rank' = [rank EXCEPT ![key] = clock + 1]
             /\ deps' = [deps EXCEPT ![key] = <<>>]
    <3>1. \A k \in Keys \ {key} : /\ loaded'[k] = loaded[k] /\ deps'[k] = deps[k]
                                  /\ rank'[k] = rank[k]
      BY <2>2, <1>5
    <3>2. loaded'[key] = clock + 1 /\ clock + 1 # 0
      BY <2>2, <1>3, <1>5
    <3>3. Complete' = Complete \cup {key}
      BY <3>1, <3>2, <1>3, <1>6 DEF Complete
    <3> QED
      BY <2>2, <3>1, <3>3, <1>5
  <2> QED
    BY <1>4, <2>1, <2>2
<1>8. \A k \in Complete' : rank'[k] \in 1..clock'
  <2>1. \A k \in Complete : rank[k] \in 1..clock
    BY <1>1 DEF StackInv
  <2>2. CASE loaded[key] # 0 /\ UNCHANGED <<clock, loaded, rank, deps>>
    BY <2>1, <2>2, <1>3, <1>7 DEF Complete
  <2>3. CASE /\ loaded[key] = 0
             /\ clock' = clock + 1
             /\ rank' = [rank EXCEPT ![key] = clock + 1]
    <3>1. rank'[key] = clock + 1
      BY <2>3, <1>3, <1>5
    <3>2. \A k \in Complete : k # key
      BY <2>3 DEF Complete
    <3>3. \A k \in Complete : rank'[k] \in 1..clock'
      BY <3>2, <2>1, <1>7, <1>5 DEF Complete
    <3> QED
      BY <3>1, <3>3, <2>3, <1>5, <1>7
  <2> QED
    BY <1>4, <2>2, <2>3
<1>9. StackPlan'
  <2>1. \E t \in Targets(Path, Importer) : t \in Complete'
    BY <1>2, <1>7 DEF Targets
  <2>2. \A k \in Active : deps'[k] = deps[k]
    <3>1. Active \subseteq Files
      BY <1>1, SequenceFacts DEF Active, Elements
    <3> QED
      BY <3>1, <1>3, <1>7 DEF Keys
  <2> QED
    BY <1>1, <1>2, <1>7, <2>1, <2>2, PopKeepsPlan DEF StackInv
<1>10. /\ call' = "none" => ~Loading'
       /\ \A i, j \in DOMAIN stack' : i # j => stack'[i] # stack'[j]
       /\ \A i \in DOMAIN stack' : loaded'[stack'[i]] # 0
  <2>1. call # "none"
    BY <1>1, <1>2 DEF StackInv
  <2>2. \A i \in DOMAIN stack : stack[i] \in Keys \ {key} /\ loaded[stack[i]] # 0
    BY <1>1, <1>3, SequenceFacts DEF Keys, StackInv
  <2>3. \A i, j \in DOMAIN stack : i # j => stack[i] # stack[j]
    BY <1>1 DEF StackInv
  <2> QED
    BY <2>1, <2>2, <2>3, <1>2, <1>7
<1>11. CacheClosed'
  <2> SUFFICES ASSUME NEW k \in Complete' \cap Files, NEW i \in DOMAIN deps'[k]
               PROVE  \E t \in Targets(deps'[k][i], k) :
                          t \in Complete' /\ rank'[t] < rank'[k]
    BY DEF CacheClosed
  <2>1. k \in Complete /\ k # key /\ k \in Keys /\ deps'[k] = deps[k] /\ rank'[k] = rank[k]
    BY <1>3, <1>7 DEF Keys
  <2>2. PICK t \in Targets(deps[k][i], k) : t \in Complete /\ rank[t] < rank[k]
    BY <2>1, <1>1 DEF CacheClosed
  <2>3. rank'[t] = rank[t]
    BY <2>2, <1>4, <1>7 DEF Complete
  <2> QED
    BY <2>1, <2>2, <2>3, <1>7
<1> QED
  BY <1>8, <1>9, <1>10, <1>11 DEF StackInv

\* The event of a module that is cached already.
LEMMA SkipKeepsIInv ==
    ASSUME IInv, SkipCached
    PROVE  StackInv' /\ CacheClosed'
<1>1. /\ TypeOK /\ StackInv /\ CacheClosed
  BY DEF IInv
<1>2. /\ Loading /\ Entering /\ Path \notin VirtualPaths
      /\ File # NoModule /\ File \notin Active /\ loaded[File] # 0
      /\ stack' = stack /\ pending' = Tail(pending) /\ call' = call
      /\ UNCHANGED <<loaded, deps, rank, clock>>
  BY DEF SkipCached, Entering, cacheVars
<1>3. Complete' = Complete /\ Active' = Active
  BY <1>2 DEF Complete, Active, Elements
<1>4. \E t \in Targets(Path, Importer) : t \in Complete'
  <2>1. File \in Files /\ Path \in Paths /\ Importer \in Files
    BY <1>1, <1>2, NextEvent
  <2>2. File \in Targets(Path, Importer)
    BY <2>1, <1>2, FileIsTarget DEF File
  <2> QED
    BY <1>2, <1>3, <2>1, <2>2 DEF Complete, Keys
<1>5. StackPlan'
  BY <1>1, <1>2, <1>3, <1>4, PopKeepsPlan DEF StackInv
<1>6. call # "none"
  BY <1>1, <1>2 DEF StackInv
<1>7. CacheClosed'
  BY <1>1, <1>2, <1>3 DEF CacheClosed
<1> QED
  BY <1>1, <1>2, <1>3, <1>5, <1>6, <1>7 DEF StackInv

\* The events and the stack after a file has been read.
LEMMA ReadShape ==
    ASSUME TypeOK, ReadModule
    PROVE  LET imports == disk[File].imports
               m == Len(imports)
           IN  /\ imports \in Seq(Paths) /\ m \in Nat /\ DOMAIN imports = 1..m
               /\ DOMAIN pending' = 1..(m + Len(pending))
               /\ \A q \in 1..m : pending'[q] = Enter(imports[q], File)
               /\ pending'[m + 1] = Exit(File)
               /\ \A q \in 2..Len(pending) : pending'[m + q] = pending[q]
               /\ Len(stack') = Len(stack) + 1
               /\ DOMAIN stack' = 1..(Len(stack) + 1)
               /\ \A i \in DOMAIN stack : stack'[i] = stack[i]
               /\ stack'[Len(stack) + 1] = File
<1> DEFINE imports == disk[File].imports
           m == Len(imports)
           E == EnterEvents \cup ExitEvents
           enters == [i \in 1..m |-> Enter(imports[i], File)]
           exit == <<Exit(File)>>
           rest == Tail(pending)
<1>1. /\ Loading /\ Entering /\ File # NoModule
      /\ stack' = Append(stack, File)
      /\ pending' = enters \o exit \o rest
  BY DEF ReadModule, Uncached, Entering
<1>2. File \in Files
  BY <1>1, NextEvent
<1>3. imports \in Seq(Paths) /\ m \in Nat /\ DOMAIN imports = 1..m
      /\ \A i \in 1..m : imports[i] \in Paths
  <2>1. imports \in Seq(Paths)
    BY <1>2, DiskImports DEF TypeOK
  <2> QED
    BY <2>1, LenProperties, ElementOfSeq
<1>4. enters \in Seq(E) /\ Len(enters) = m /\ \A q \in 1..m : enters[q] = Enter(imports[q], File)
  <2>1. \A i \in 1..m : Enter(imports[i], File) \in E
    BY <1>2, <1>3 DEF Enter, EnterEvents
  <2> HIDE DEF E, m, imports
  <2>2. enters \in [1..m -> E] /\ \A q \in 1..m : enters[q] = Enter(imports[q], File)
    BY <2>1
  <2> HIDE DEF enters
  <2> QED
    BY <1>3, <2>2, MakeSeq
<1>5. exit \in Seq(E) /\ Len(exit) = 1 /\ exit[1] = Exit(File)
  <2>1. Exit(File) \in E
    BY <1>2 DEF Exit, ExitEvents
  <2> QED
    BY <2>1, MakeSeq
<1>6. /\ rest \in Seq(E) /\ Len(rest) = Len(pending) - 1 /\ Len(pending) \in Nat \ {0}
      /\ \A p \in 1..(Len(pending) - 1) : rest[p] = pending[p + 1]
  BY <1>1, NextEvent, TailFacts
<1>7. /\ pending' \in Seq(E) /\ Len(pending') = m + Len(pending)
      /\ \A q \in 1..(m + Len(pending)) :
             pending'[q] = IF q <= m THEN enters[q]
                           ELSE IF q = m + 1 THEN exit[1] ELSE rest[q - (m + 1)]
  <2> HIDE DEF E, enters, exit, rest, m
  <2> DEFINE front == enters \o exit
  <2>1. /\ front \in Seq(E) /\ Len(front) = m + 1
        /\ \A q \in 1..(m + 1) : front[q] = IF q <= m THEN enters[q] ELSE exit[q - m]
    <3>1. /\ front \in Seq(E) /\ Len(front) = Len(enters) + Len(exit)
          /\ \A q \in 1..(Len(enters) + Len(exit)) :
                 front[q] = IF q <= Len(enters) THEN enters[q] ELSE exit[q - Len(enters)]
      BY <1>4, <1>5, ConcatProperties
    <3> HIDE DEF front
    <3> QED
      BY <3>1, <1>4, <1>5
  <2>2. pending' = front \o rest
    BY <1>1
  <2> HIDE DEF front
  <2>3. /\ pending' \in Seq(E) /\ Len(pending') = (m + 1) + (Len(pending) - 1)
        /\ \A q \in 1..((m + 1) + (Len(pending) - 1)) :
               pending'[q] = IF q <= m + 1 THEN front[q] ELSE rest[q - (m + 1)]
    BY <2>1, <2>2, <1>6, ConcatProperties
  <2>4. (m + 1) + (Len(pending) - 1) = m + Len(pending)
    BY <1>3, <1>6
  <2>5. \A q \in 1..(m + Len(pending)) :
             pending'[q] = IF q <= m THEN enters[q]
                           ELSE IF q = m + 1 THEN exit[1] ELSE rest[q - (m + 1)]
    <3> SUFFICES ASSUME NEW q \in 1..(m + Len(pending))
                 PROVE  pending'[q] = IF q <= m THEN enters[q]
                                      ELSE IF q = m + 1 THEN exit[1] ELSE rest[q - (m + 1)]
      OBVIOUS
    <3>1. CASE q <= m
      BY <3>1, <2>1, <2>3, <2>4, <1>3, <1>6
    <3>2. CASE q = m + 1
      <4>1. pending'[q] = front[q] /\ q \in 1..(m + 1) /\ ~(q <= m) /\ q - m = 1
        BY <3>2, <2>3, <2>4, <1>3, <1>6
      <4> QED
        BY <4>1, <3>2, <2>1
    <3>3. CASE q > m + 1
      <4>1. ~(q <= m + 1) /\ ~(q <= m) /\ q # m + 1
        BY <3>3, <1>3, <1>6
      <4>2. pending'[q] = rest[q - (m + 1)]
        BY <4>1, <2>3, <2>4
      <4> QED
        BY <4>1, <4>2
    <3> QED
      BY <3>1, <3>2, <3>3, <1>3, <1>6
  <2> QED
    BY <2>3, <2>4, <2>5
<1>8. /\ DOMAIN pending' = 1..(m + Len(pending))
      /\ \A q \in 1..m : pending'[q] = Enter(imports[q], File)
      /\ pending'[m + 1] = Exit(File)
      /\ \A q \in 2..Len(pending) : pending'[m + q] = pending[q]
  <2> HIDE DEF E, enters, exit, rest, m
  <2>1. DOMAIN pending' = 1..(m + Len(pending))
    BY <1>7, LenProperties
  <2>2. \A q \in 1..m : pending'[q] = Enter(imports[q], File)
    BY <1>3, <1>4, <1>6, <1>7
  <2>3. pending'[m + 1] = Exit(File)
    BY <1>3, <1>5, <1>6, <1>7
  <2>4. ASSUME NEW q \in 2..Len(pending)
        PROVE  pending'[m + q] = pending[q]
    <3>1. /\ m + q \in 1..(m + Len(pending)) /\ ~(m + q <= m) /\ m + q # m + 1
          /\ (m + q) - (m + 1) = q - 1 /\ q - 1 \in 1..(Len(pending) - 1) /\ (q - 1) + 1 = q
      BY <1>3, <1>6
    <3>2. pending'[m + q] = rest[q - 1]
      BY <3>1, <1>7
    <3> QED
      BY <3>1, <3>2, <1>6
  <2> QED
    BY <2>1, <2>2, <2>3, <2>4
<1>9. /\ Len(stack') = Len(stack) + 1 /\ DOMAIN stack' = 1..(Len(stack) + 1)
      /\ \A i \in DOMAIN stack : stack'[i] = stack[i]
      /\ stack'[Len(stack) + 1] = File
  <2>1. stack \in Seq(Files) /\ DOMAIN stack = 1..Len(stack)
    BY SequenceFacts DEF TypeOK
  <2>2. /\ stack' \in Seq(Files) /\ Len(stack') = Len(stack) + 1
        /\ \A i \in 1..Len(stack) : stack'[i] = stack[i]
        /\ stack'[Len(stack) + 1] = File
    BY <2>1, <1>1, <1>2, AppendProperties
  <2>3. DOMAIN stack' = 1..Len(stack')
    BY <2>2, LenProperties
  <2> QED
    BY <2>1, <2>2, <2>3
<1> QED
  BY <1>3, <1>8, <1>9

\* Reading a file puts its imports before its exit, in front of everything else.
LEMMA ReadKeepsPlan ==
    ASSUME TypeOK, StackPlan, ReadModule,
           \A k \in Active : deps'[k] = deps[k],
           deps'[File] = disk[File].imports,
           Complete \subseteq Complete'
    PROVE  StackPlan'
<1> DEFINE imports == disk[File].imports
           m == Len(imports)
           n == Len(stack)
<1>1. PICK ex \in [DOMAIN stack -> DOMAIN pending] :
          /\ ExitsAt(ex)
          /\ \A i \in DOMAIN stack : \A k \in DOMAIN deps[stack[i]] :
                 Served(ex, i, deps[stack[i]][k])
  BY DEF StackPlan
<1>2. Loading /\ Entering /\ Path \notin VirtualPaths /\ File # NoModule
  BY DEF ReadModule, Uncached, Entering
<1>3. \A i \in DOMAIN stack : ex[i] \in 2..Len(pending)
  BY <1>1, <1>2, EnterBeforeExits
<1>4. /\ imports \in Seq(Paths) /\ m \in Nat /\ DOMAIN imports = 1..m
      /\ DOMAIN pending' = 1..(m + Len(pending))
      /\ \A q \in 1..m : pending'[q] = Enter(imports[q], File)
      /\ pending'[m + 1] = Exit(File)
      /\ \A q \in 2..Len(pending) : pending'[m + q] = pending[q]
      /\ DOMAIN stack' = 1..(n + 1) /\ Len(stack') = n + 1
      /\ \A i \in DOMAIN stack : stack'[i] = stack[i]
      /\ stack'[n + 1] = File
  BY ReadShape
<1>5. /\ n \in Nat /\ DOMAIN stack = 1..n
      /\ Len(pending) \in Nat \ {0} /\ DOMAIN pending = 1..Len(pending)
  BY <1>2, SequenceFacts, TailFacts
<1> HIDE DEF m, n
<1>6. PICK f : f = [i \in 1..(n + 1) |-> IF i = n + 1 THEN m + 1 ELSE ex[i] + m]
  OBVIOUS
<1>7. /\ \A i \in DOMAIN stack : f[i] = ex[i] + m /\ i # n + 1 /\ i \in DOMAIN stack'
      /\ f[n + 1] = m + 1 /\ n + 1 \in DOMAIN stack'
  BY <1>4, <1>5, <1>6
<1>8. f \in [DOMAIN stack' -> DOMAIN pending']
  <2>1. \A i \in 1..(n + 1) :
            (IF i = n + 1 THEN m + 1 ELSE ex[i] + m) \in 1..(m + Len(pending))
    BY <1>3, <1>4, <1>5
  <2> QED
    BY <2>1, <1>4, <1>6
<1>9. ExitsAt(f)'
  <2>1. \A i, j \in DOMAIN stack' : i < j => f[j] < f[i]
    <3> SUFFICES ASSUME NEW i \in DOMAIN stack', NEW j \in DOMAIN stack', i < j
                 PROVE  f[j] < f[i]
      OBVIOUS
    <3>1. i \in DOMAIN stack /\ f[i] = ex[i] + m /\ ex[i] \in 2..Len(pending)
      BY <1>3, <1>4, <1>5, <1>7
    <3>2. CASE j = n + 1
      BY <3>1, <3>2, <1>4, <1>5, <1>7
    <3>3. CASE j # n + 1
      <4>1. j \in DOMAIN stack /\ f[j] = ex[j] + m /\ ex[j] \in 2..Len(pending)
        BY <3>3, <1>3, <1>4, <1>5, <1>7
      <4>2. ex[j] < ex[i]
        BY <3>1, <4>1, <1>1 DEF ExitsAt
      <4> QED
        BY <3>1, <4>1, <4>2, <1>4
    <3> QED
      BY <3>2, <3>3
  <2>2. ASSUME NEW i \in DOMAIN stack'
        PROVE  pending'[f[i]] = Exit(stack'[i])
    <3>1. CASE i = n + 1
      BY <3>1, <1>4, <1>7
    <3>2. CASE i # n + 1
      <4>1. i \in DOMAIN stack /\ f[i] = m + ex[i] /\ ex[i] \in 2..Len(pending)
        BY <3>2, <1>3, <1>4, <1>5, <1>7
      <4>2. pending'[m + ex[i]] = pending[ex[i]]
        BY <4>1, <1>4
      <4>3. pending[ex[i]] = Exit(stack[i])
        BY <4>1, <1>1 DEF ExitsAt
      <4> QED
        BY <4>1, <4>2, <4>3, <1>4
    <3> QED
      BY <3>1, <3>2
  <2>3. ASSUME NEW p \in DOMAIN pending', pending'[p].kind = "exit"
        PROVE  \E i \in DOMAIN stack' : f[i] = p
    <3>1. CASE p <= m
      <4>1. pending'[p] = Enter(imports[p], File)
        BY <3>1, <1>4
      <4> QED
        BY <4>1, <2>3 DEF Enter
    <3>2. CASE p = m + 1
      BY <3>2, <1>7
    <3>3. CASE p > m + 1
      <4>1. p - m \in 2..Len(pending) /\ m + (p - m) = p
        BY <3>3, <1>4, <1>5
      <4>2. pending[p - m].kind = "exit" /\ p - m \in DOMAIN pending
        BY <4>1, <1>4, <1>5, <2>3
      <4>3. PICK i \in DOMAIN stack : ex[i] = p - m
        BY <4>2, <1>1 DEF ExitsAt
      <4> QED
        BY <4>1, <4>3, <1>4, <1>7
    <3> QED
      BY <3>1, <3>2, <3>3, <1>4, <1>5
  <2> QED
    BY <2>1, <2>2, <2>3 DEF ExitsAt
<1>10. ASSUME NEW i \in DOMAIN stack, NEW d, Served(ex, i, d)
       PROVE  Served(f, i, d)'
  <2>0. /\ i \in 1..n /\ i < n + 1 /\ i + 1 \in DOMAIN stack' /\ f[i] = ex[i] + m
        /\ ex[i] \in 2..Len(pending) /\ stack'[i] = stack[i]
    BY <1>3, <1>4, <1>5, <1>7
  <2> SUFFICES \/ \E t \in Targets(d, stack[i]) : t \in Complete'
               \/ stack'[i + 1] \in Targets(d, stack[i])
               \/ \E p \in DOMAIN pending' : /\ pending'[p] = Enter(d, stack[i])
                                             /\ p < f[i]
                                             /\ f[i + 1] < p
    BY <2>0, <1>4 DEF Served
  <2>1. CASE \E t \in Targets(d, stack[i]) : t \in Complete
    BY <2>1
  <2>2. CASE i < n /\ stack[i + 1] \in Targets(d, stack[i])
    <3>1. i + 1 \in DOMAIN stack
      BY <2>2, <1>5
    <3> QED
      BY <3>1, <2>2, <1>4
  <2>3. CASE \E p \in DOMAIN pending : /\ pending[p] = Enter(d, stack[i])
                                       /\ p < ex[i]
                                       /\ i < n => ex[i + 1] < p
    <3>1. PICK p \in DOMAIN pending : /\ pending[p] = Enter(d, stack[i])
                                      /\ p < ex[i]
                                      /\ i < n => ex[i + 1] < p
      BY <2>3
    <3>2. p \in 1..Len(pending)
      BY <1>5
    <3>3. CASE p = 1
      <4>1. i = n
        <5>1. CASE i < n
          <6>1. i + 1 \in DOMAIN stack
            BY <5>1, <1>5
          <6>2. ex[i + 1] \in 2..Len(pending) /\ ex[i + 1] < 1
            BY <6>1, <5>1, <3>1, <3>3, <1>3
          <6> QED
            BY <6>2
        <5> QED
          BY <5>1, <2>0, <1>5
      <4>2. Head(pending) = Enter(d, stack[i])
        BY <3>1, <3>3, <1>2, TailFacts
      <4>3. Path = d /\ Importer = stack[i]
        BY <4>2 DEF Enter, Path, Importer
      <4>4. Path \in Paths /\ Importer \in Files
        BY <1>2, NextEvent
      <4>5. File \in Targets(d, stack[i])
        BY <4>3, <4>4, <1>2, FileIsTarget DEF File
      <4> QED
        BY <4>1, <4>5, <1>4
    <3>4. CASE p # 1
      <4>1. /\ p \in 2..Len(pending) /\ m + p \in DOMAIN pending'
            /\ pending'[m + p] = Enter(d, stack[i])
        BY <3>1, <3>2, <3>4, <1>4, <1>5
      <4>2. m + p < f[i]
        BY <3>1, <3>2, <2>0, <1>4
      <4>3. f[i + 1] < m + p
        <5>1. CASE i = n
          BY <5>1, <4>1, <1>4, <1>7
        <5>2. CASE i < n
          <6>1. i + 1 \in DOMAIN stack
            BY <5>2, <1>5
          <6>2. f[i + 1] = ex[i + 1] + m /\ ex[i + 1] \in Int /\ ex[i + 1] < p
            BY <6>1, <5>2, <3>1, <1>3, <1>7
          <6> QED
            BY <6>2, <3>2, <1>4
        <5> QED
          BY <5>1, <5>2, <2>0, <1>5
      <4> QED
        BY <4>1, <4>2, <4>3
    <3> QED
      BY <3>3, <3>4
  <2>4. \/ \E t \in Targets(d, stack[i]) : t \in Complete
        \/ i < n /\ stack[i + 1] \in Targets(d, stack[i])
        \/ \E p \in DOMAIN pending : /\ pending[p] = Enter(d, stack[i])
                                     /\ p < ex[i]
                                     /\ i < n => ex[i + 1] < p
    BY <1>10 DEF Served, n
  <2> QED
    BY <2>1, <2>2, <2>3, <2>4
<1>11. ASSUME NEW i, i = n + 1, NEW q \in 1..m, NEW d, d = imports[q]
       PROVE  Served(f, i, d)'
  <2>1. /\ q \in DOMAIN pending' /\ pending'[q] = Enter(d, stack'[i]) /\ q < f[i]
        /\ ~(i < Len(stack'))
    BY <1>4, <1>5, <1>7, <1>11
  <2> QED
    BY <2>1 DEF Served
<1>12. \A i \in DOMAIN stack' : \A k \in DOMAIN deps'[stack'[i]] :
           Served(f, i, deps[stack[i]][k])'
  <2> SUFFICES ASSUME NEW i \in DOMAIN stack', NEW k \in DOMAIN deps'[stack'[i]]
               PROVE  Served(f, i, deps[stack[i]][k])'
    OBVIOUS
  <2>1. PICK d : d = deps'[stack'[i]][k]
    OBVIOUS
  <2>2. Served(f, i, d)'
    <3>1. CASE i = n + 1
      <4>1. k \in 1..m /\ d = imports[k]
        BY <3>1, <2>1, <1>4
      <4> QED
        BY <3>1, <4>1, <1>11
    <3>2. CASE i # n + 1
      <4>1. i \in DOMAIN stack /\ stack'[i] = stack[i]
        BY <3>2, <1>4, <1>5
      <4>2. deps'[stack'[i]] = deps[stack[i]]
        BY <4>1 DEF Active, Elements
      <4>3. Served(ex, i, d)
        BY <4>1, <4>2, <2>1, <1>1
      <4> QED
        BY <4>1, <4>3, <1>10
    <3> QED
      BY <3>1, <3>2
  <2> QED
    BY <2>1, <2>2
<1> QED
  BY <1>8, <1>9, <1>12 DEF StackPlan

\* The event that reads a module, stacks it and plans its imports.
LEMMA ReadKeepsIInv ==
    ASSUME IInv, ReadModule
    PROVE  StackInv' /\ CacheClosed'
<1> DEFINE n == Len(stack)
<1>1. /\ TypeOK /\ StackInv /\ CacheClosed /\ Load
  BY DEF IInv, Load
<1>2. /\ Loading /\ Entering /\ File # NoModule /\ File \notin Active /\ loaded[File] = 0
      /\ loaded' = [loaded EXCEPT ![File] = clock + 1] /\ clock' = clock + 1
      /\ deps' = [deps EXCEPT ![File] = disk[File].imports]
      /\ call' = call /\ rank' = rank
  BY DEF ReadModule, Uncached, Entering
<1>3. /\ File \in Files /\ File \in Keys /\ loaded \in [Keys -> Nat] /\ clock \in Nat
      /\ deps \in [Keys -> Seq(Paths)]
  BY <1>1, <1>2, NextEvent DEF TypeOK, Keys
<1>4. /\ DOMAIN stack' = 1..(n + 1) /\ DOMAIN stack = 1..n /\ n \in Nat
      /\ \A i \in DOMAIN stack : stack'[i] = stack[i] /\ stack[i] \in Files
      /\ stack'[n + 1] = File
  BY <1>1, ReadShape, SequenceFacts
<1> HIDE DEF n
<1>5. /\ \A k \in Keys \ {File} : loaded'[k] = loaded[k] /\ deps'[k] = deps[k]
      /\ loaded'[File] # 0 /\ deps'[File] = disk[File].imports
  BY <1>2, <1>3
<1>6. Active' = Active \cup {File}
  <2>1. Active' \subseteq Active \cup {File}
    BY <1>4 DEF Active, Elements
  <2>2. Active \subseteq Active' /\ File \in Active'
    BY <1>4 DEF Active, Elements
  <2> QED
    BY <2>1, <2>2
<1>7. Complete' = Complete
  BY <1>2, <1>3, <1>5, <1>6 DEF Complete
<1>8. StackPlan'
  <2>1. Active \subseteq Keys \ {File}
    BY <1>2, <1>4 DEF Active, Elements, Keys
  <2> QED
    BY <2>1, <1>1, <1>5, <1>7, ReadKeepsPlan DEF StackInv
<1>9. /\ \A i, j \in DOMAIN stack' : i # j => stack'[i] # stack'[j]
      /\ \A i \in DOMAIN stack' : loaded'[stack'[i]] # 0
  <2>1. \A i \in DOMAIN stack : stack[i] # File /\ loaded[stack[i]] # 0 /\ stack[i] \in Keys
    BY <1>1, <1>2, <1>4 DEF StackInv, Active, Elements, Keys
  <2>2. \A i, j \in DOMAIN stack : i # j => stack[i] # stack[j]
    BY <1>1 DEF StackInv
  <2>3. \A i \in DOMAIN stack' : i = n + 1 \/ i \in DOMAIN stack
    BY <1>4
  <2> QED
    BY <2>1, <2>2, <2>3, <1>4, <1>5
<1>10. \A k \in Complete' : rank'[k] \in 1..clock'
  BY <1>1, <1>2, <1>3, <1>7 DEF StackInv
<1>11. call' # "none"
  BY <1>1, <1>2 DEF StackInv
<1>12. CacheClosed'
  <2>1. \A k \in Complete \cap Files : deps'[k] = deps[k]
    BY <1>2, <1>5 DEF Complete
  <2> QED
    BY <2>1, <1>1, <1>2, <1>7 DEF CacheClosed
<1> QED
  BY <1>8, <1>9, <1>10, <1>11, <1>12 DEF StackInv

\* An exit event completes the innermost module: all it imports is complete.
LEMMA ExitKeepsIInv ==
    ASSUME IInv, ExitModule
    PROVE  StackInv' /\ CacheClosed'
<1> DEFINE n == Len(stack)
           key == stack[n]
<1>1. /\ TypeOK /\ StackInv /\ CacheClosed
  BY DEF IInv
<1>2. /\ Loading /\ Head(pending).kind = "exit"
      /\ stack' = SubSeq(stack, 1, n - 1) /\ pending' = Tail(pending)
      /\ clock' = clock + 1 /\ rank' = [rank EXCEPT ![key] = clock + 1]
      /\ loaded' = loaded /\ deps' = deps /\ call' = call
  BY DEF ExitModule
<1>3. PICK ex \in [DOMAIN stack -> DOMAIN pending] :
          /\ ExitsAt(ex)
          /\ \A i \in DOMAIN stack : \A k \in DOMAIN deps[stack[i]] :
                 Served(ex, i, deps[stack[i]][k])
  BY <1>1 DEF StackInv, StackPlan
<1>4. /\ n \in Nat /\ DOMAIN stack = 1..n /\ \A i \in DOMAIN stack : stack[i] \in Files
      /\ Len(pending) \in Nat \ {0} /\ DOMAIN pending = 1..Len(pending)
      /\ Head(pending) = pending[1]
      /\ DOMAIN pending' = 1..(Len(pending) - 1)
      /\ \A p \in 1..(Len(pending) - 1) : pending'[p] = pending[p + 1]
  BY <1>1, <1>2, SequenceFacts, TailFacts
<1>5. DOMAIN stack' = 1..(n - 1) /\ \A i \in 1..(n - 1) : stack'[i] = stack[i]
  BY <1>1, <1>2, PopProperties DEF TypeOK
<1>6. Len(stack') \in Nat /\ (n \in Nat \ {0} => Len(stack') = n - 1)
  <2>1. stack \in Seq(Files)
    BY <1>1 DEF TypeOK
  <2>2. stack' \in Seq(Files) /\ (stack # <<>> => Len(stack') = n - 1)
    BY <2>1, <1>2, PopProperties
  <2>3. n \in Nat \ {0} => stack # <<>>
    BY EmptySeq
  <2>4. Len(stack') \in Nat
    BY <2>2, LenProperties
  <2> QED
    BY <2>2, <2>3, <2>4
<1>7. n \in DOMAIN stack /\ ex[n] = 1 /\ n \in Nat \ {0}
  <2>1. 1 \in DOMAIN pending /\ pending[1].kind = "exit"
    BY <1>2, <1>4
  <2>2. PICK i \in DOMAIN stack : ex[i] = 1
    BY <2>1, <1>3 DEF ExitsAt
  <2>3. n \in DOMAIN stack /\ n \in Nat \ {0} /\ i <= n
    BY <2>2, <1>4
  <2>4. CASE i < n
    <3>1. ex[n] < ex[i]
      BY <2>2, <2>3, <2>4, <1>3 DEF ExitsAt
    <3>2. ex[n] \in 1..Len(pending)
      BY <2>3, <1>4
    <3> QED
      BY <3>1, <3>2, <2>2, <1>4
  <2>5. CASE i = n
    BY <2>2, <2>3, <2>5
  <2> QED
    BY <2>3, <2>4, <2>5, <1>4
<1> HIDE DEF n
<1>8. /\ key \in Files /\ key \in Keys /\ loaded[key] # 0
      /\ \A i \in 1..(n - 1) : i \in DOMAIN stack /\ stack[i] # key
  <2>1. key \in Files /\ loaded[key] # 0
    BY <1>1, <1>4, <1>7 DEF StackInv
  <2>2. \A i \in 1..(n - 1) : i \in DOMAIN stack /\ i # n
    BY <1>4
  <2> QED
    BY <2>1, <2>2, <1>1, <1>7 DEF StackInv, Keys
<1>9. \A k : k \in Active' <=> (k \in Active /\ k # key)
  <2>1. \A i \in DOMAIN stack : i = n \/ i \in 1..(n - 1)
    BY <1>4, <1>7
  <2>2. \A k : k \in Active <=> \E i \in DOMAIN stack : k = stack[i]
    BY DEF Active, Elements
  <2>3. \A k : k \in Active' <=> \E i \in 1..(n - 1) : k = stack[i]
    BY <1>5 DEF Active, Elements
  <2> QED
    BY <2>1, <2>2, <2>3, <1>8
<1>10. Complete' = Complete \cup {key}
  BY <1>2, <1>8, <1>9 DEF Complete
<1>11. /\ rank \in [Keys -> Nat] /\ clock \in Nat
       /\ \A k \in Complete : rank[k] \in 1..clock /\ k # key /\ k \in Keys
  <2>1. key \in Active
    BY <1>7 DEF Active, Elements
  <2> QED
    BY <2>1, <1>1 DEF TypeOK, StackInv, Complete
<1>12. /\ rank'[key] = clock + 1
       /\ \A k \in Complete : rank'[k] = rank[k]
  BY <1>2, <1>8, <1>11
<1>13. \A k \in Complete' : rank'[k] \in 1..clock'
  BY <1>2, <1>10, <1>11, <1>12
<1>14. CacheClosed'
  <2> SUFFICES ASSUME NEW k \in Complete' \cap Files, NEW i \in DOMAIN deps[k]
               PROVE  \E t \in Targets(deps[k][i], k) :
                          t \in Complete' /\ rank'[t] < rank'[k]
    BY <1>2 DEF CacheClosed
  <2>1. CASE k = key
    <3>1. Served(ex, n, deps[key][i])
      BY <2>1, <1>3, <1>7
    <3>2. \/ \E t \in Targets(deps[k][i], k) : t \in Complete
          \/ \E p \in DOMAIN pending : p < 1
      BY <3>1, <2>1, <1>7 DEF Served, n
    <3>3. PICK t \in Targets(deps[k][i], k) : t \in Complete
      BY <3>2, <1>4
    <3>4. rank'[t] < rank'[k]
      BY <3>3, <2>1, <1>11, <1>12
    <3> QED
      BY <3>3, <3>4, <1>10
  <2>2. CASE k # key
    <3>1. k \in Complete
      BY <2>2, <1>10
    <3>2. PICK t \in Targets(deps[k][i], k) : t \in Complete /\ rank[t] < rank[k]
      BY <3>1, <1>1 DEF CacheClosed
    <3> QED
      BY <3>1, <3>2, <1>10, <1>12
  <2> QED
    BY <2>1, <2>2
<1>15. PICK f : f = [i \in 1..(n - 1) |-> ex[i] - 1]
  OBVIOUS
<1>16. \A i \in 1..(n - 1) : /\ i \in DOMAIN stack /\ f[i] = ex[i] - 1
                             /\ ex[i] \in 2..Len(pending)
  <2> SUFFICES ASSUME NEW i \in 1..(n - 1)
               PROVE  i \in DOMAIN stack /\ ex[i] \in 2..Len(pending)
    BY <1>15
  <2>1. i \in DOMAIN stack /\ i < n
    BY <1>4
  <2>2. ex[n] < ex[i] /\ ex[i] \in 1..Len(pending)
    BY <2>1, <1>3, <1>4, <1>7 DEF ExitsAt
  <2> QED
    BY <2>1, <2>2, <1>4, <1>7
<1>17. f \in [DOMAIN stack' -> DOMAIN pending']
  BY <1>4, <1>5, <1>15, <1>16
<1>18. ExitsAt(f)'
  <2>1. \A i, j \in DOMAIN stack' : i < j => f[j] < f[i]
    BY <1>3, <1>5, <1>16 DEF ExitsAt
  <2>2. ASSUME NEW i \in DOMAIN stack'
        PROVE  pending'[f[i]] = Exit(stack'[i])
    <3>1. i \in 1..(n - 1) /\ stack'[i] = stack[i]
      BY <1>5
    <3>2. f[i] \in 1..(Len(pending) - 1) /\ f[i] + 1 = ex[i] /\ i \in DOMAIN stack
      <4>1. f[i] = ex[i] - 1 /\ ex[i] \in 2..Len(pending) /\ i \in DOMAIN stack
        BY <3>1, <1>16
      <4> QED
        BY <4>1, <1>4
    <3>3. pending'[f[i]] = pending[ex[i]]
      BY <3>2, <1>4
    <3> QED
      BY <3>1, <3>2, <3>3, <1>3 DEF ExitsAt
  <2>3. ASSUME NEW p \in DOMAIN pending', pending'[p].kind = "exit"
        PROVE  \E i \in DOMAIN stack' : f[i] = p
    <3>1. p + 1 \in DOMAIN pending /\ pending[p + 1].kind = "exit" /\ p \in Nat \ {0}
      BY <2>3, <1>4
    <3>2. PICK i \in DOMAIN stack : ex[i] = p + 1
      BY <3>1, <1>3 DEF ExitsAt
    <3>3. i # n
      BY <3>1, <3>2, <1>7
    <3>4. i \in 1..(n - 1)
      BY <3>3, <1>4
    <3> QED
      BY <3>1, <3>2, <3>4, <1>5, <1>16
  <2> QED
    BY <2>1, <2>2, <2>3 DEF ExitsAt
<1>19. ASSUME NEW i \in 1..(n - 1), NEW d, Served(ex, i, d)
       PROVE  Served(f, i, d)'
  <2>0. /\ i \in DOMAIN stack /\ i < n /\ i + 1 \in DOMAIN stack /\ i + 1 <= n
        /\ stack'[i] = stack[i] /\ f[i] = ex[i] - 1 /\ ex[i] \in 2..Len(pending)
    BY <1>4, <1>5, <1>16
  <2> SUFFICES \/ \E t \in Targets(d, stack[i]) : t \in Complete'
               \/ i < n - 1 /\ stack'[i + 1] \in Targets(d, stack[i])
               \/ \E p \in DOMAIN pending' : /\ pending'[p] = Enter(d, stack[i])
                                             /\ p < f[i]
                                             /\ i < n - 1 => f[i + 1] < p
    BY <2>0, <1>6, <1>7 DEF Served
  <2>1. CASE \E t \in Targets(d, stack[i]) : t \in Complete
    BY <2>1, <1>10
  <2>2. CASE stack[i + 1] \in Targets(d, stack[i])
    <3>1. CASE i + 1 = n
      BY <2>2, <3>1, <1>10
    <3>2. CASE i + 1 # n
      <4>1. i < n - 1 /\ i + 1 \in 1..(n - 1)
        BY <3>2, <2>0, <1>4
      <4> QED
        BY <4>1, <2>2, <1>5
    <3> QED
      BY <3>1, <3>2
  <2>3. CASE \E p \in DOMAIN pending : /\ pending[p] = Enter(d, stack[i])
                                       /\ p < ex[i]
                                       /\ ex[i + 1] < p
    <3>1. PICK p \in DOMAIN pending : /\ pending[p] = Enter(d, stack[i])
                                      /\ p < ex[i]
                                      /\ ex[i + 1] < p
      BY <2>3
    <3>2. ex[i + 1] \in 1..Len(pending) /\ p \in 1..Len(pending)
      BY <2>0, <1>4
    <3>3. p - 1 \in 1..(Len(pending) - 1) /\ (p - 1) + 1 = p
      BY <3>1, <3>2
    <3>4. pending'[p - 1] = Enter(d, stack[i]) /\ p - 1 \in DOMAIN pending'
      BY <3>1, <3>3, <1>4
    <3>5. p - 1 < f[i]
      BY <3>1, <3>2, <2>0
    <3>6. i < n - 1 => f[i + 1] < p - 1
      <4> SUFFICES ASSUME i < n - 1 PROVE f[i + 1] < p - 1
        OBVIOUS
      <4>1. i + 1 \in 1..(n - 1)
        BY <1>4
      <4>2. f[i + 1] = ex[i + 1] - 1
        BY <4>1, <1>16
      <4> QED
        BY <4>2, <3>1, <3>2
    <3> QED
      BY <3>4, <3>5, <3>6
  <2>4. \/ \E t \in Targets(d, stack[i]) : t \in Complete
        \/ stack[i + 1] \in Targets(d, stack[i])
        \/ \E p \in DOMAIN pending : /\ pending[p] = Enter(d, stack[i])
                                     /\ p < ex[i]
                                     /\ ex[i + 1] < p
    BY <1>19, <2>0 DEF Served, n
  <2> QED
    BY <2>1, <2>2, <2>3, <2>4
<1>20. StackPlan'
  <2>1. \A i \in DOMAIN stack' : \A k \in DOMAIN deps'[stack'[i]] :
            Served(f, i, deps[stack[i]][k])'
    <3> SUFFICES ASSUME NEW i \in DOMAIN stack', NEW k \in DOMAIN deps'[stack'[i]]
                 PROVE  Served(f, i, deps[stack[i]][k])'
      OBVIOUS
    <3>1. PICK d : d = deps'[stack'[i]][k]
      OBVIOUS
    <3>2. i \in 1..(n - 1) /\ i \in DOMAIN stack /\ stack'[i] = stack[i]
      BY <1>5, <1>16
    <3>3. Served(ex, i, d)
      BY <3>1, <3>2, <1>2, <1>3
    <3>4. Served(f, i, d)'
      BY <3>2, <3>3, <1>19
    <3> QED
      BY <3>1, <3>4
  <2> QED
    BY <2>1, <1>17, <1>18 DEF StackPlan
<1>21. /\ \A i, j \in DOMAIN stack' : i # j => stack'[i] # stack'[j]
       /\ \A i \in DOMAIN stack' : loaded'[stack'[i]] # 0
  <2>1. \A i \in DOMAIN stack' : i \in DOMAIN stack /\ stack'[i] = stack[i]
    BY <1>5, <1>16
  <2>2. /\ \A i, j \in DOMAIN stack : i # j => stack[i] # stack[j]
        /\ \A i \in DOMAIN stack : loaded[stack[i]] # 0
    BY <1>1 DEF StackInv
  <2>3. \A i \in DOMAIN stack' : loaded'[stack'[i]] # 0
    BY <2>1, <2>2, <1>2
  <2>4. ASSUME NEW i \in DOMAIN stack', NEW j \in DOMAIN stack', i # j
        PROVE  stack'[i] # stack'[j]
    BY <2>1, <2>2, <2>4
  <2> QED
    BY <2>3, <2>4
<1>22. call' # "none"
  BY <1>1, <1>2 DEF StackInv
<1> QED
  BY <1>13, <1>14, <1>20, <1>21, <1>22 DEF StackInv

\* The empty set is the domain of a function into any set.
LEMMA EmptyFunction ==
    ASSUME NEW D, NEW T, D = {}
    PROVE  \E f : f \in [D -> T]
<1>1. [i \in D |-> i] \in [D -> T]
  OBVIOUS
<1> QED
  BY <1>1

\* Nothing is being loaded and no event is pending: any plan is served.
LEMMA EmptyPlan ==
    ASSUME stack = <<>>, \A p \in DOMAIN pending : pending[p].kind = "enter"
    PROVE  StackPlan
<1>1. DOMAIN stack = {}
  BY LenProperties, EmptySeq
<1>2. PICK f : f \in [DOMAIN stack -> DOMAIN pending]
  BY <1>1, EmptyFunction
<1>3. ExitsAt(f)
  BY <1>1 DEF ExitsAt
<1> QED
  BY <1>1, <1>2, <1>3 DEF StackPlan

\* A failure leaves exactly the completed modules behind.
LEMMA FailKeepsIInv ==
    ASSUME IInv, FailEvent
    PROVE  StackInv' /\ CacheClosed'
<1>1. /\ TypeOK /\ StackInv /\ CacheClosed /\ Load
  BY DEF IInv, Load
<1>2. /\ Unwind /\ stack' = <<>> /\ pending' = <<>> /\ rank' = rank /\ clock' = clock
  BY DEF FailEvent, Unwind
<1>3. DOMAIN stack' = {} /\ DOMAIN pending' = {}
  BY <1>2
<1>4. Complete' = Complete /\ \A k \in Complete : deps'[k] = deps[k]
  <2>1. Complete \subseteq Complete' /\ \A k \in Complete : deps'[k] = deps[k]
    BY <1>1, CompleteGrows
  <2>2. ASSUME NEW k \in Complete'
        PROVE  k \in Complete
    <3>1. k \in Keys /\ loaded'[k] # 0
      BY <2>2 DEF Complete
    <3>2. k \notin Failed /\ loaded[k] # 0
      BY <3>1, <1>2 DEF Unwind
    <3> QED
      BY <3>1, <3>2 DEF Failed, Complete
  <2> QED
    BY <2>1, <2>2
<1>5. StackPlan'
  <2>1. PICK f : f \in [DOMAIN stack' -> DOMAIN pending']
    BY <1>3, EmptyFunction
  <2>2. ExitsAt(f)'
    BY <1>3 DEF ExitsAt
  <2> QED
    BY <1>3, <2>1, <2>2 DEF StackPlan
<1>6. ~Loading'
  BY <1>2 DEF Loading
<1>7. CacheClosed'
  BY <1>1, <1>2, <1>4 DEF CacheClosed
<1> QED
  BY <1>1, <1>2, <1>3, <1>4, <1>5, <1>6, <1>7 DEF StackInv

\* Every other step leaves the cache and the stack alone; it replaces the
\* events only while none is pending.
LEMMA FrameKeepsIInv ==
    ASSUME IInv, UNCHANGED <<loaded, deps, rank, clock, stack>>,
           \/ pending' = pending /\ (call' = "none" => call = "none" \/ ~Loading)
           \/ /\ ~Loading
              /\ \A p \in DOMAIN pending' : pending'[p].kind = "enter"
              /\ call' = "none" => pending' = <<>>
    PROVE  StackInv' /\ CacheClosed'
<1>1. /\ TypeOK /\ StackInv /\ CacheClosed
  BY DEF IInv
<1>2. Complete' = Complete
  BY DEF Complete, Active, Elements
<1>3. CacheClosed'
  BY <1>1, <1>2 DEF CacheClosed
<1>4. StackPlan' /\ (call' = "none" => ~Loading')
  <2>1. CASE pending' = pending /\ (call' = "none" => call = "none" \/ ~Loading)
    <3>1. \A ex, i, d : Served(ex, i, d)' <=> Served(ex, i, d)
      BY <2>1, <1>2 DEF Served
    <3>2. \A ex : ExitsAt(ex)' <=> ExitsAt(ex)
      BY <2>1 DEF ExitsAt
    <3>3. PICK ex \in [DOMAIN stack -> DOMAIN pending] :
              /\ ExitsAt(ex)
              /\ \A i \in DOMAIN stack : \A n \in DOMAIN deps[stack[i]] :
                     Served(ex, i, deps[stack[i]][n])
      BY <1>1 DEF StackInv, StackPlan
    <3>4. \A i \in DOMAIN stack' : \A n \in DOMAIN deps'[stack'[i]] :
              Served(ex, i, deps[stack[i]][n])'
      BY <3>1, <3>3
    <3>5. StackPlan'
      BY <2>1, <3>2, <3>3, <3>4 DEF StackPlan
    <3>6. call' = "none" => ~Loading'
      BY <1>1, <2>1 DEF StackInv, Loading
    <3> QED
      BY <3>5, <3>6
  <2>2. CASE /\ ~Loading
             /\ \A p \in DOMAIN pending' : pending'[p].kind = "enter"
             /\ call' = "none" => pending' = <<>>
    <3>1. stack = <<>>
      BY <1>1, <2>2, PlanUnwinds DEF StackInv, StackUnwound
    <3>2. DOMAIN stack' = {}
      BY <3>1
    <3>3. PICK f : f \in [DOMAIN stack' -> DOMAIN pending']
      BY <3>2, EmptyFunction
    <3>4. ExitsAt(f)'
      BY <3>2, <2>2 DEF ExitsAt
    <3>5. StackPlan'
      BY <3>2, <3>3, <3>4 DEF StackPlan
    <3> QED
      BY <3>5, <2>2 DEF Loading
  <2> QED
    BY <2>1, <2>2
<1> QED
  BY <1>1, <1>2, <1>3, <1>4 DEF StackInv

\* The work list of a load starts with one enter event, or none.
LEMMA SingleEnter ==
    ASSUME NEW path, NEW f
    PROVE  /\ \A p \in DOMAIN <<Enter(path, f)>> : <<Enter(path, f)>>[p].kind = "enter"
           /\ \A p \in DOMAIN <<>> : <<>>[p].kind = "enter"
<1>1. PICK e : e = Enter(path, f)
  OBVIOUS
<1>2. e.kind = "enter"
  BY <1>1 DEF Enter
<1>3. DOMAIN <<e>> = {1} /\ <<e>>[1] = e
  OBVIOUS
<1> QED
  BY <1>1, <1>2, <1>3

\* The inductive invariant holds at first.
LEMMA InitIInv == Init => IInv
<1> SUFFICES ASSUME Init PROVE IInv
  OBVIOUS
<1>1. TypeOK
  BY InitTypes
<1>2. /\ stack = <<>> /\ pending = <<>> /\ \A k \in Keys : loaded[k] = 0
  BY DEF Init
<1>3. DOMAIN stack = {} /\ DOMAIN pending = {}
  BY <1>2
<1>4. Complete = {}
  BY <1>2 DEF Complete
<1>5. StackPlan
  BY <1>2, <1>3, EmptyPlan
<1>6. ~Loading
  BY <1>2 DEF Loading
<1> QED
  BY <1>1, <1>3, <1>4, <1>5, <1>6 DEF IInv, StackInv, CacheClosed

\* It survives every step.
LEMMA StepIInv == IInv /\ [Next]_vars => IInv'
<1> SUFFICES ASSUME IInv, [Next]_vars PROVE IInv'
  OBVIOUS
<1>1. TypeOK'
  BY StepTypes DEF IInv
<1>2. StackInv' /\ CacheClosed'
  <2>1. CASE Load
    BY <2>1, VirtualKeepsIInv, SkipKeepsIInv, ReadKeepsIInv, ExitKeepsIInv, FailKeepsIInv
       DEF Load
  <2>2. CASE VisitImport
    <3>1. /\ ~Loading /\ call # "none" /\ UNCHANGED call
          /\ UNCHANGED <<loaded, deps, rank, clock, stack>>
      <4>1. /\ ~Loading /\ call = "program" /\ UNCHANGED call /\ UNCHANGED stack
            /\ UNCHANGED cacheVars
        BY <2>2 DEF VisitImport, Waiting
      <4> QED
        BY <4>1 DEF cacheVars
    <3>2. \/ pending' = pending
          \/ \E path, f : pending' = <<Enter(path, f)>>
      BY <2>2 DEF VisitImport
    <3>3. CASE pending' = pending
      BY <3>1, <3>3, FrameKeepsIInv
    <3>4. CASE \E path, f : pending' = <<Enter(path, f)>>
      BY <3>1, <3>4, SingleEnter, FrameKeepsIInv
    <3> QED
      BY <3>2, <3>3, <3>4
  <2>3. CASE CollectModule \/ FinishProgram \/ FinishModule
    <3>1. ~Loading /\ pending' = pending /\ UNCHANGED <<stack, loaded, deps, rank, clock>>
      BY <2>3 DEF CollectModule, FinishProgram, FinishModule, Waiting, cacheVars
    <3> QED
      BY <3>1, FrameKeepsIInv
  <2>4. CASE StartProgram
    <3>1. ~Loading /\ pending' = <<>> /\ UNCHANGED <<stack, loaded, deps, rank, clock>>
      <4>1. /\ call = "none" /\ pending' = <<>> /\ UNCHANGED stack /\ UNCHANGED cacheVars
        BY <2>4 DEF StartProgram, Begin
      <4> QED
        BY <4>1 DEF IInv, StackInv, cacheVars
    <3> QED
      BY <3>1, SingleEnter, FrameKeepsIInv
  <2>5. ASSUME NEW p \in Requested, StartModule(p)
        PROVE  StackInv' /\ CacheClosed'
    <3>1. /\ ~Loading /\ pending' = <<Enter(p, Entry)>> /\ call' # "none"
          /\ UNCHANGED <<stack, loaded, deps, rank, clock>>
      <4>1. /\ call = "none" /\ pending' = <<Enter(p, Entry)>> /\ call' = "module"
            /\ UNCHANGED stack /\ UNCHANGED cacheVars
        BY <2>5 DEF StartModule, Begin
      <4> QED
        BY <4>1 DEF IInv, StackInv, cacheVars
    <3> QED
      BY <3>1, SingleEnter, FrameKeepsIInv
  <2>6. ASSUME NEW f \in Files, NEW c \in Contents[f], Edit(f, c)
        PROVE  StackInv' /\ CacheClosed'
    <3>1. UNCHANGED <<pending, call, stack, loaded, deps, rank, clock>>
      BY <2>6 DEF Edit, cacheVars
    <3> QED
      BY <3>1, FrameKeepsIInv
  <2>7. CASE UNCHANGED vars
    <3>1. UNCHANGED <<pending, call, stack, loaded, deps, rank, clock>>
      BY <2>7 DEF vars
    <3> QED
      BY <3>1, FrameKeepsIInv
  <2> QED
    BY <2>1, <2>2, <2>3, <2>4, <2>5, <2>6, <2>7 DEF Next, Program
<1> QED
  BY <1>1, <1>2 DEF IInv

\* No import cycle gets into the cache and a load that failed half way leaves
\* nothing behind that a retry takes for loaded: whatever a complete module
\* imports is complete, and was completed before it.
THEOREM CacheIsClosed == Spec => []CacheClosed
<1>1. IInv => CacheClosed
  BY DEF IInv
<1> QED
  BY <1>1, InitIInv, StepIInv, PTL DEF Spec

\* The loading stack is empty whenever no event is left, after success and
\* after failure (active and loading_stack in load_module).
THEOREM StackIsUnwound == Spec => []StackUnwound
<1>1. IInv => StackUnwound
  BY PlanUnwinds DEF IInv, StackInv
<1> QED
  BY <1>1, InitIInv, StepIInv, PTL DEF Spec
=============================================================================
