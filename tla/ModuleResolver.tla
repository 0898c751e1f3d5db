--------------------------- MODULE ModuleResolver ---------------------------
(***************************************************************************)
(* The import loader of the A7 compiler: a7/module_resolver.py, with the   *)
(* ModuleTable of a7/symbol_table.py that it fills.                        *)
(*                                                                         *)
(* load_module walks the import graph depth first with an explicit stack   *)
(* of enter and exit events; load_program_dependencies calls it once per   *)
(* import it reaches, breadth first.  A failure anywhere unwinds every     *)
(* module still being loaded, so that the same resolver can be asked again *)
(* after the source files were edited.  Files may be edited at any moment. *)
(***************************************************************************)
EXTENDS Integers, Sequences, FiniteSets

CONSTANTS
    Files,          \* root-relative names of the source files, the cache keys
    Entry,          \* the file being compiled
    VirtualPaths,   \* spellings the stdlib registry provides, e.g. "io", "std/io"
    VirtualKey,     \* VirtualPaths -> cache key of the canonical module
    CanonicalName,  \* VirtualPaths -> registry name, e.g. "std/io" -> "io"
    StdPaths,       \* spellings that start with "std/", registered or not
    FilePaths,      \* every other spelling
    Candidates,     \* importing file -> spelling -> files tried, in order
    Contents,       \* what each file may hold
    Requested,      \* spellings handed to load_module directly
    NoModule,       \* absence of a module
    MaxEdits, MaxCalls

Paths == VirtualPaths \cup StdPaths \cup FilePaths
Keys == Files \cup {VirtualKey[p] : p \in VirtualPaths}
Names == Files \cup VirtualPaths \cup {CanonicalName[p] : p \in VirtualPaths}

\* A file holds its import declarations in source order, or is one of the
\* four things that make reading it fail.
FileStates == {"ok", "missing", "unreadable", "badTokens", "badSyntax"}

ASSUME ConstantsAssumption ==
    /\ Entry \in Files
    /\ VirtualKey \in [VirtualPaths -> Keys]
    /\ \A p \in VirtualPaths : VirtualKey[p] \notin Files
    /\ CanonicalName \in [VirtualPaths -> VirtualPaths]
    /\ \A p \in VirtualPaths : VirtualKey[CanonicalName[p]] = VirtualKey[p]
    /\ Candidates \in [Files -> [Paths -> Seq(Files)]]
    /\ Contents \in [Files -> SUBSET [state : FileStates, imports : Seq(Paths)]]
    /\ Requested \subseteq Paths
    /\ NoModule \notin Keys
    /\ MaxEdits \in Nat /\ MaxCalls \in Nat

VARIABLES
    disk,       \* the source files
    loaded,     \* loaded_modules: key -> insertion stamp, 0 when not cached
    deps,       \* ModuleInfo.dependencies of each cached key
    table,      \* ModuleTable.modules: name -> key whose symbols it holds
    bindings,   \* ModuleTable aliases, using and named imports: path -> name
    stack,      \* loading_stack (its set `active` holds the same keys)
    pending,    \* events still to run, the next one first
    queue,      \* load_program_dependencies: imports still to visit
    seen,       \* identities already visited
    result,     \* modules to merge into the program, in order
    current,    \* the queue entry being loaded
    call,       \* which public operation is running
    outcome,    \* how the last one ended
    clock,      \* history: steps that stamped a module
    rank,       \* history: stamp at which a module was completed
    pristine,   \* history: the operation began on a new resolver (no cache, no
                \* bindings) and no file was edited since
    edits, calls

cacheVars == <<loaded, deps, table, rank, clock>>
programVars == <<queue, seen, result, current, bindings>>
envVars == <<disk, pristine, edits, calls>>
vars == <<disk, loaded, deps, table, bindings, stack, pending, queue, seen,
          result, current, call, outcome, clock, rank, pristine, edits, calls>>

Elements(s) == {s[i] : i \in DOMAIN s}

Enter(path, importer) == [kind |-> "enter", path |-> path, importer |-> importer]
Exit(key) == [kind |-> "exit", path |-> key, importer |-> NoModule]

NoEntry == [path |-> NoModule, importer |-> NoModule]

-----------------------------------------------------------------------------
(* Path resolution                                                         *)

Exists(f) == disk[f].state # "missing"

FirstExisting(candidates) ==
    LET IsFirst(i) == /\ Exists(candidates[i])
                      /\ \A j \in 1..(i - 1) : ~Exists(candidates[j])
    IN  IF \E i \in DOMAIN candidates : IsFirst(i)
        THEN candidates[CHOOSE i \in DOMAIN candidates : IsFirst(i)]
        ELSE NoModule

\* resolve_module_path: a "std/" spelling never names a project file, an
\* unsafe spelling has no candidates, candidates lie inside the entry root.
Resolve(path, importer) ==
    IF path \in StdPaths THEN NoModule
    ELSE FirstExisting(Candidates[importer][path])

\* Mutant: imports are compared by the spelling in the source.
IdentityBySpelling(path, importer) == <<"raw", path>>

\* _canonical_import_key: alternate spellings of one file compare equal.
Identity(path, importer) ==
    LET file == Resolve(path, importer)
    IN  IF path \in VirtualPaths THEN <<"virtual", VirtualKey[path]>>
        ELSE IF file # NoModule THEN <<"file", file>>
        ELSE <<"unresolved", path>>

\* Mutant: only a repeated spelling counts as a duplicate.
HasRepeatedSpelling(imports, importer) ==
    \E i, j \in DOMAIN imports : i # j /\ imports[i] = imports[j]

\* _raise_on_duplicate_imports
HasDuplicate(imports, importer) ==
    \E i, j \in DOMAIN imports :
        i # j /\ Identity(imports[i], importer) = Identity(imports[j], importer)

\* A project file where the standard library's own path would be.
Shadowed(path, importer) ==
    path \in StdPaths /\ \E f \in Elements(Candidates[importer][path]) : Exists(f)

\* get_module
GetModule(path, importer) ==
    LET key == IF path \in VirtualPaths THEN VirtualKey[path]
               ELSE Resolve(path, importer)
    IN  IF key # NoModule /\ loaded[key] # 0 THEN key ELSE NoModule

\* The module table name process_imports binds an import to.
TablePath(path, importer) ==
    LET file == Resolve(path, importer)
    IN  IF path \in VirtualPaths \/ file = NoModule THEN path ELSE file

-----------------------------------------------------------------------------
(* Running the events of one load_module call                              *)

Loading == pending # <<>>
Active == Elements(stack)
Complete == {k \in Keys : loaded[k] # 0 /\ k \notin Active}

Entering == Loading /\ Head(pending).kind = "enter"
Path == Head(pending).path
Importer == Head(pending).importer
File == Resolve(Path, Importer)

\* Mutant: the spelling is registered only by the load that creates the module.
NamesOfFirstLoad(path, new) == IF new THEN {path, CanonicalName[path]} ELSE {}

\* The table names one load of a stdlib module registers.
NamesRegistered(path, new) == IF new THEN {path, CanonicalName[path]} ELSE {path}

\* A registered path is served from the registry before any file is tried.
LoadVirtualModule ==
    /\ Entering
    /\ Path \in VirtualPaths
    /\ ~Shadowed(Path, Importer)
    /\ LET key == VirtualKey[Path]
           new == loaded[key] = 0
       IN  /\ table' = [n \in Names |->
                  IF n \in NamesRegistered(Path, new) THEN key ELSE table[n]]
           /\ IF new
              THEN /\ clock' = clock + 1
                   /\ loaded' = [loaded EXCEPT ![key] = clock + 1]
                   /\ rank' = [rank EXCEPT ![key] = clock + 1]
                   /\ deps' = [deps EXCEPT ![key] = <<>>]
              ELSE UNCHANGED <<clock, loaded, rank, deps>>
    /\ pending' = Tail(pending)
    /\ UNCHANGED <<stack, call, outcome>>
    /\ UNCHANGED programVars
    /\ UNCHANGED envVars

\* Mutant: the event of a cached module is looked at and not popped.
SkipCachedUnpopped ==
    /\ Entering
    /\ Path \notin VirtualPaths
    /\ File # NoModule
    /\ File \notin Active
    /\ loaded[File] # 0
    /\ UNCHANGED vars

SkipCached ==
    /\ Entering
    /\ Path \notin VirtualPaths
    /\ File # NoModule
    /\ File \notin Active
    /\ loaded[File] # 0
    /\ pending' = Tail(pending)
    /\ UNCHANGED <<stack, call, outcome>>
    /\ UNCHANGED cacheVars
    /\ UNCHANGED programVars
    /\ UNCHANGED envVars

Uncached ==
    /\ Entering
    /\ Path \notin VirtualPaths
    /\ File # NoModule
    /\ File \notin Active
    /\ loaded[File] = 0

\* Read one file, cache it and schedule its imports before its exit event.
ReadModule ==
    /\ Uncached
    /\ disk[File].state = "ok"
    /\ LET imports == disk[File].imports
       IN  /\ ~HasDuplicate(imports, File)
           /\ stack' = Append(stack, File)
           /\ clock' = clock + 1
           /\ loaded' = [loaded EXCEPT ![File] = clock + 1]
           /\ deps' = [deps EXCEPT ![File] = imports]
           /\ table' = [table EXCEPT ![File] = File]
           /\ pending' = [i \in 1..Len(imports) |-> Enter(imports[i], File)]
                         \o <<Exit(File)>> \o Tail(pending)
    /\ UNCHANGED <<rank, call, outcome>>
    /\ UNCHANGED programVars
    /\ UNCHANGED envVars

ExitModule ==
    /\ Loading
    /\ Head(pending).kind = "exit"
    /\ LET key == stack[Len(stack)]
       IN  /\ stack' = SubSeq(stack, 1, Len(stack) - 1)
           /\ clock' = clock + 1
           /\ rank' = [rank EXCEPT ![key] = clock + 1]
    /\ pending' = Tail(pending)
    /\ UNCHANGED <<loaded, deps, table, call, outcome>>
    /\ UNCHANGED programVars
    /\ UNCHANGED envVars

\* The error class decides the stage and exit code the compiler reports.
EventError ==
    IF Path \in VirtualPaths /\ ~Shadowed(Path, Importer) THEN "none"
    ELSE IF Shadowed(Path, Importer) \/ File = NoModule THEN "import"
    ELSE IF File \in Active THEN "semantic"
    ELSE IF loaded[File] # 0 THEN "none"
    ELSE CASE disk[File].state = "unreadable" -> "import"
           [] disk[File].state = "badTokens"  -> "tokenize"
           [] disk[File].state = "badSyntax"  -> "parse"
           [] OTHER -> IF HasDuplicate(disk[File].imports, File)
                       THEN "semantic" ELSE "none"

\* Mutant: the failed load stays in the cache.
UnwindStackOnly ==
    /\ stack' = <<>>
    /\ UNCHANGED <<loaded, deps, table>>

\* Mutant: the cache is cleared and the stack is left as it was.
UnwindCacheOnly ==
    /\ loaded' = [k \in Keys |-> 0]
    /\ deps' = [k \in Keys |-> <<>>]
    /\ table' = [n \in Names |-> NoModule]
    /\ UNCHANGED stack

\* The file was pushed on the loading stack before it was read.
Failed == IF Uncached THEN Active \cup {File} ELSE Active

\* The except BaseException clause: modules still loading leave the cache and
\* the table, and the exception ends the public operation.
Unwind ==
    /\ loaded' = [k \in Keys |-> IF k \in Failed THEN 0 ELSE loaded[k]]
    /\ deps' = [k \in Keys |-> IF k \in Failed THEN <<>> ELSE deps[k]]
    /\ table' = [n \in Names |-> IF n \in Failed THEN NoModule ELSE table[n]]
    /\ stack' = <<>>

FailEvent ==
    /\ Entering
    /\ EventError # "none"
    /\ Unwind
    /\ pending' = <<>>
    /\ queue' = <<>>
    /\ current' = NoEntry
    /\ call' = "none"
    /\ outcome' = EventError
    /\ UNCHANGED <<rank, clock, seen, result, bindings>>
    /\ UNCHANGED envVars

-----------------------------------------------------------------------------
(* The public operations                                                   *)

Begin ==
    /\ call = "none"
    /\ calls < MaxCalls
    /\ calls' = calls + 1
    /\ pristine' = /\ \A k \in Keys : loaded[k] = 0
                   /\ \A p \in Paths : bindings[p] = NoModule
    /\ UNCHANGED <<disk, edits, stack>>
    /\ UNCHANGED cacheVars

\* load_module(path, entry file), called directly and possibly again.
StartModule(path) ==
    /\ Begin
    /\ call' = "module"
    /\ outcome' = "none"
    /\ pending' = <<Enter(path, Entry)>>
    /\ UNCHANGED programVars

FinishModule ==
    /\ call = "module"
    /\ ~Loading
    /\ call' = "none"
    /\ outcome' = "ok"
    /\ UNCHANGED <<stack, pending>>
    /\ UNCHANGED cacheVars
    /\ UNCHANGED programVars
    /\ UNCHANGED envVars

\* process_imports: of two imports that bind one name the first one stays.
\* The entry file was tokenized and parsed before the resolver was called.
StartProgram ==
    /\ disk[Entry].state = "ok"
    /\ Begin
    /\ LET imports == disk[Entry].imports
       IN  /\ bindings' = [p \in Paths |->
                  IF p \in Elements(imports) /\ bindings[p] = NoModule
                  THEN TablePath(p, Entry) ELSE bindings[p]]
           /\ IF HasDuplicate(imports, Entry)
              THEN /\ call' = "none"
                   /\ outcome' = "semantic"
                   /\ queue' = <<>>
              ELSE /\ call' = "program"
                   /\ outcome' = "none"
                   /\ queue' = [i \in 1..Len(imports) |->
                                   [path |-> imports[i], importer |-> Entry]]
    /\ seen' = {}
    /\ result' = <<>>
    /\ current' = NoEntry
    /\ pending' = <<>>

Waiting == call = "program" /\ ~Loading /\ current = NoEntry

VisitImport ==
    /\ Waiting
    /\ queue # <<>>
    /\ LET e == Head(queue)
           identity == Identity(e.path, e.importer)
       IN  IF identity \in seen
           THEN UNCHANGED <<seen, current, pending>>
           ELSE /\ seen' = seen \cup {identity}
                /\ current' = e
                /\ pending' = <<Enter(e.path, e.importer)>>
    /\ queue' = Tail(queue)
    /\ UNCHANGED <<result, bindings, stack, call, outcome>>
    /\ UNCHANGED cacheVars
    /\ UNCHANGED envVars

\* load_module returned: keep the module and queue its own imports.
CollectModule ==
    /\ call = "program"
    /\ ~Loading
    /\ current # NoEntry
    /\ LET key == GetModule(current.path, current.importer)
       IN  IF key = NoModule THEN UNCHANGED <<result, queue>>
           ELSE /\ result' = Append(result, key)
                /\ queue' = queue \o [i \in 1..Len(deps[key]) |->
                                 [path |-> deps[key][i], importer |-> key]]
    /\ current' = NoEntry
    /\ UNCHANGED <<seen, bindings, stack, pending, call, outcome>>
    /\ UNCHANGED cacheVars
    /\ UNCHANGED envVars

FinishProgram ==
    /\ Waiting
    /\ queue = <<>>
    /\ call' = "none"
    /\ outcome' = "ok"
    /\ UNCHANGED <<stack, pending>>
    /\ UNCHANGED cacheVars
    /\ UNCHANGED programVars
    /\ UNCHANGED envVars

\* Somebody saves, breaks or removes a source file, at any moment.
Edit(f, content) ==
    /\ edits < MaxEdits
    /\ content # disk[f]
    /\ disk' = [disk EXCEPT ![f] = content]
    /\ edits' = edits + 1
    /\ pristine' = FALSE
    /\ UNCHANGED <<calls, stack, pending, call, outcome>>
    /\ UNCHANGED cacheVars
    /\ UNCHANGED programVars

-----------------------------------------------------------------------------
Disks == {d \in [Files -> UNION {Contents[f] : f \in Files}] :
             \A f \in Files : d[f] \in Contents[f]}

Init ==
    /\ disk \in Disks
    /\ loaded = [k \in Keys |-> 0]
    /\ deps = [k \in Keys |-> <<>>]
    /\ table = [n \in Names |-> NoModule]
    /\ bindings = [p \in Paths |-> NoModule]
    /\ stack = <<>>
    /\ pending = <<>>
    /\ queue = <<>>
    /\ seen = {}
    /\ result = <<>>
    /\ current = NoEntry
    /\ call = "none"
    /\ outcome = "none"
    /\ clock = 0
    /\ rank = [k \in Keys |-> 0]
    /\ pristine = TRUE
    /\ edits = 0
    /\ calls = 0

Load == LoadVirtualModule \/ SkipCached \/ ReadModule \/ ExitModule \/ FailEvent
Program == VisitImport \/ CollectModule \/ FinishProgram

Next ==
    \/ Load
    \/ Program
    \/ FinishModule
    \/ StartProgram
    \/ \E p \in Requested : StartModule(p)
    \/ \E f \in Files : \E c \in Contents[f] : Edit(f, c)

Spec == Init /\ [][Next]_vars

\* The resolver runs to completion on the compiler's only thread.
FairSpec == Spec /\ WF_vars(Load \/ Program \/ FinishModule)
-----------------------------------------------------------------------------
(* Type correctness                                                        *)

EnterEvents == [kind : {"enter"}, path : Paths, importer : Files]
ExitEvents == [kind : {"exit"}, path : Files, importer : {NoModule}]
QueueEntries == [path : Paths, importer : Files]
Outcomes == {"none", "ok", "import", "tokenize", "parse", "semantic"}

\* Every variable keeps its shape; in particular only files are ever on the
\* loading stack, and a stdlib module depends on nothing.
TypeOK ==
    /\ disk \in Disks
    /\ loaded \in [Keys -> Nat]
    /\ deps \in [Keys -> Seq(Paths)]
    /\ \A k \in Keys \ Files : deps[k] = <<>>
    /\ table \in [Names -> Keys \cup {NoModule}]
    /\ bindings \in [Paths -> Paths \cup Files \cup {NoModule}]
    /\ stack \in Seq(Files)
    /\ pending \in Seq(EnterEvents \cup ExitEvents)
    /\ queue \in Seq(QueueEntries)
    /\ seen \subseteq ({"virtual", "file", "unresolved"} \X (Keys \cup Paths))
    /\ result \in Seq(Keys)
    /\ current \in QueueEntries \cup {NoEntry}
    /\ call \in {"none", "module", "program"}
    /\ outcome \in Outcomes
    /\ clock \in Nat
    /\ rank \in [Keys -> Nat]
    /\ pristine \in BOOLEAN
    /\ edits \in Nat
    /\ calls \in Nat

-----------------------------------------------------------------------------
(* Safety                                                                  *)

\* What an import recorded by module k may have been resolved to.
Targets(path, k) ==
    IF path \in VirtualPaths THEN {VirtualKey[path]}
    ELSE Elements(Candidates[k][path])

\* A module the cache will answer for has all its dependencies in the cache,
\* each completed before it: no cycle ever gets into the cache, and a load
\* that failed half way left nothing behind that a retry would take for
\* loaded ("A partially loaded module must not become a successful cache hit
\* on retry"), whatever was edited in between.
CacheClosed ==
    \A k \in Complete \cap Files : \A i \in DOMAIN deps[k] :
        \E t \in Targets(deps[k][i], k) : t \in Complete /\ rank[t] < rank[k]

\* The exit events and the loading stack stay in step: when no event is left
\* no module is still being loaded, after success and after failure.
StackUnwound == ~Loading => stack = <<>>

\* Why StackUnwound and CacheClosed hold: ex places the exit event of every
\* module being loaded among the pending events, the innermost first ...
ExitsAt(ex) ==
    /\ \A i, j \in DOMAIN stack : i < j => ex[j] < ex[i]
    /\ \A i \in DOMAIN stack : pending[ex[i]] = Exit(stack[i])
    /\ \A p \in DOMAIN pending : pending[p].kind = "exit" => \E i \in DOMAIN stack : ex[i] = p

\* ... and an import of a module being loaded is complete, or is the module it
\* waits for, or still has its enter event before the exit.
Served(ex, i, d) ==
    \/ \E t \in Targets(d, stack[i]) : t \in Complete
    \/ i < Len(stack) /\ stack[i + 1] \in Targets(d, stack[i])
    \/ \E p \in DOMAIN pending : /\ pending[p] = Enter(d, stack[i])
                                 /\ p < ex[i]
                                 /\ i < Len(stack) => ex[i + 1] < p

StackPlan ==
    \E ex \in [DOMAIN stack -> DOMAIN pending] :
        /\ ExitsAt(ex)
        /\ \A i \in DOMAIN stack : \A n \in DOMAIN deps[stack[i]] :
               Served(ex, i, deps[stack[i]][n])

StackInv ==
    /\ StackPlan
    /\ call = "none" => ~Loading
    /\ \A i, j \in DOMAIN stack : i # j => stack[i] # stack[j]
    /\ \A i \in DOMAIN stack : loaded[stack[i]] # 0
    /\ \A k \in Complete : rank[k] \in 1..clock

IInv == TypeOK /\ StackInv /\ CacheClosed

\* "Completed dependencies retain their existing identities": no step, not
\* even the unwinding of a failure, drops or replaces a completed module.
RetainsCompleted ==
    [][\A k \in Complete : /\ loaded'[k] = loaded[k]
                           /\ deps'[k] = deps[k]
                           /\ k \notin Elements(stack')]_vars

-----------------------------------------------------------------------------
(* The verdict on a program, defined on the import graph of the disk       *)

Imports(f) == Elements(disk[f].imports)

\* The files that f imports, and those that are reached from a set of files.
Succ(f) == {Resolve(p, f) : p \in Imports(f) \ VirtualPaths} \ {NoModule}
Closed(C) == \A f \in C : Succ(f) \subseteq C
Reach(S) ==
    {f \in Files : \A C \in SUBSET Files : S \subseteq C /\ Closed(C) => f \in C}

\* Two declarations of f name one file or one standard module.
ImportsTwice(f) ==
    LET imports == disk[f].imports
    IN  \E i, j \in DOMAIN imports :
            /\ i < j
            /\ \/ {imports[i], imports[j]} \cap VirtualPaths = {}
                  /\ Resolve(imports[i], f) # NoModule
                  /\ Resolve(imports[i], f) = Resolve(imports[j], f)
               \/ {imports[i], imports[j]} \subseteq VirtualPaths
                  /\ VirtualKey[imports[i]] = VirtualKey[imports[j]]

ImportsResolve(f) ==
    \A p \in Imports(f) :
        ~Shadowed(p, f) /\ (p \in VirtualPaths \/ Resolve(p, f) # NoModule)

\* Every file the entry reaches can be read, imports nothing twice, names
\* only modules that exist, and does not reach itself.
Acceptable ==
    /\ ~ImportsTwice(Entry)
    /\ ImportsResolve(Entry)
    /\ \A f \in Reach(Succ(Entry)) :
           /\ disk[f].state = "ok"
           /\ ~ImportsTwice(f)
           /\ ImportsResolve(f)
           /\ f \notin Reach(Succ(f))

\* load_program_dependencies accepts exactly the acceptable programs.
ProgramVerdict ==
    [][call = "program" /\ call' = "none" /\ pristine
        => (outcome' = "ok" <=> Acceptable)]_vars

ReachedKeys ==
    Reach(Succ(Entry)) \cup
        {VirtualKey[p] : p \in {q \in VirtualPaths :
            \E f \in {Entry} \cup Reach(Succ(Entry)) : q \in Imports(f)}}

\* The merge order of an accepted program: every module it reaches once, the
\* entry's own imports first and in source order ("direct imports first,
\* then their dependencies"), never the entry file itself.
MergeOrder ==
    [][call = "program" /\ call' = "none" /\ outcome' = "ok" /\ pristine
        => LET imports == disk[Entry].imports
           IN  /\ Elements(result) = ReachedKeys
               /\ Len(result) = Cardinality(ReachedKeys)
               /\ \A i \in DOMAIN imports : result[i] = GetModule(imports[i], Entry)
               /\ Entry \notin Elements(result)]_vars

\* No project file is spelled without "std/" and has the cache key of a standard
\* module's name; a file io.a7 beside the entry, imported as "./io", has.
NamesApart ==
    \A f \in Files : \A p \in Paths \ (VirtualPaths \cup StdPaths) :
        Elements(Candidates[f][p]) \cap VirtualPaths = {}

\* After an accepted program every name an import of the entry bound stands
\* for the symbols of the module that import loads, whichever spelling of a
\* standard module was seen first.
BindingsResolve ==
    [][call = "program" /\ call' = "none" /\ outcome' = "ok" /\ pristine
        => \A p \in Imports(Entry) :
               /\ bindings[p] \in Names
               /\ table[bindings[p]] = GetModule(p, Entry)]_vars

\* Every load ends, in success or in an error, on any import graph.
CallEnds == (call # "none") ~> (call = "none")
=============================================================================
