------------------------------ MODULE Compile ------------------------------
(***************************************************************************)
(* One invocation of the compiler on one entry file: src/a7/compile.py,    *)
(* A7Compiler.compile_file_detailed, called with the options that          *)
(* src/a7/cli.py, main, lets through.  Several invocations (Jobs) run at   *)
(* the same time on one file system.  The steps are those between which    *)
(* the code touches the file system: another invocation, an edit of a      *)
(* source, a failing system call or a kill may come in between.            *)
(*                                                                         *)
(* Data is abstracted to what decides the outcome.  A source file holds a  *)
(* text; Defect[t] is the first stage that rejects t ("none" if none       *)
(* does), Imports[t] the module files that a program with that entry text  *)
(* loads, in the order they are read.  How those are found is the module   *)
(* ModuleResolver; here the load is a single step.                         *)
(*                                                                         *)
(* The file system is names and inodes: link[p] is p, or the path that the *)
(* symbolic link p leads to; entry[p] is the inode a plain name stands     *)
(* for.  Two names with one inode are hard links.                          *)
(***************************************************************************)
EXTENDS Naturals, FiniteSets, Sequences

CONSTANTS
  Jobs,          (* invocations of the compiler                             *)
  Commands,      (* the command lines an invocation may be started with     *)
  Paths,         (* path names                                              *)
  Sources,       (* those with the suffix .a7                               *)
  DefaultOut,    (* Path.with_suffix(<backend extension>) of a source       *)
  DefaultDoc,    (* Path.with_suffix(".md") of a source                     *)
  DiskInodes,    (* inodes in use before the first invocation               *)
  InitialLink,   (* the file system the invocations start from              *)
  InitialEntry,
  InitialData,
  Absent,        (* a name that stands for nothing                          *)
  Directory,     (* a name that stands for a directory                      *)
  NoPath,        (* an option that was not given                            *)
  AutoDoc,       (* --doc-out auto                                          *)
  Texts,         (* texts of source files                                   *)
  Defect,
  Imports,
  MaxEdits,      (* bound on the edits of sources                           *)
  MaxStruck      (* bound on the invocations that meet a fault              *)

Modes   == {"tokens", "ast", "semantic", "pipeline", "compile", "doc"}
Defects == {"none", "tokens", "syntax", "semantic", "codegen", "native"}
Roles   == {"out", "doc"}
Tools   == {"a7", "check", "build", "run"}

ASSUME FileSystemAssumption ==
  /\ Sources \subseteq Paths
  /\ InitialLink \in [Paths -> Paths]
  /\ \A p \in Paths : InitialLink[InitialLink[p]] = InitialLink[p]
  /\ InitialEntry \in [Paths -> DiskInodes \cup {Absent, Directory}]
  /\ DefaultOut \in [Paths -> Paths \ Sources]
  /\ DefaultDoc \in [Paths -> Paths \ Sources]
  /\ NoPath \notin Paths /\ AutoDoc \notin Paths /\ AutoDoc # NoPath
  /\ Absent # Directory
  /\ Absent \notin DiskInodes /\ Directory \notin DiskInodes

ASSUME TextAssumption ==
  /\ Defect \in [Texts -> Defects]
  /\ Imports \in [Texts -> Seq(Sources)]
  /\ InitialData \in [DiskInodes -> Texts]

ASSUME CommandAssumption ==
  /\ Commands \subseteq [tool : Tools, mode : Modes, file : Paths,
                         out : Paths \cup {NoPath},
                         doc : Paths \cup {NoPath, AutoDoc}]
  /\ \A c \in Commands : c.tool # "a7" => c.mode = "pipeline" /\ c.doc = NoPath

ASSUME BoundAssumption == MaxEdits \in Nat /\ MaxStruck \in Nat

VARIABLES
  link,     (* where a name leads                                          *)
  entry,    (* the inode of a plain name                                   *)
  data,     (* what an inode holds                                         *)
  job,      (* the local state of each invocation                          *)
  edits,    (* edits of sources so far                                     *)
  struck    (* the invocations that met a failing call, a bug or a kill    *)

fs   == <<link, entry, data>>
vars == <<link, entry, data, job, edits, struck>>
-----------------------------------------------------------------------------
(* The file system.  A file created by an invocation gets a new inode.     *)

(* What a program run by an invocation leaves in a file: a truncated or    *)
(* half-written file, the complete Zig source, the complete report, or a   *)
(* complete native executable.                                             *)
Written  == [kind : {"partial", "out", "doc", "exe"}, by : Jobs]
Contents == Texts \cup Written

(* The inodes that invocations create: of their output, their report and   *)
(* the native executable.                                                  *)
NewInodes == Jobs \X {"out", "doc", "exe"}

ASSUME FreshAssumption ==
  /\ NewInodes \cap (DiskInodes \cup {Absent, Directory}) = {}
  /\ Texts \cap Written = {}

(* Path.resolve(), Path.exists() and Path.samefile()                       *)
Resolve(p)     == link[p]
InodeOf(p)     == entry[Resolve(p)]
Exists(p)      == InodeOf(p) # Absent
IsFile(p)      == InodeOf(p) \notin {Absent, Directory}
SameFile(p, q) == Exists(p) /\ Exists(q) /\ InodeOf(p) = InodeOf(q)
ComparePathsOnly(p, q) == Resolve(p) = Resolve(q)
Aliased(p, q)  == Resolve(p) = Resolve(q) \/ SameFile(p, q)

(* open(p, "w") by job j: an existing file is truncated, else one is       *)
(* created.  A symbolic link is followed.                                  *)
Truncate(j, role, p) ==
  LET new == <<j, role>>
      i   == IF Exists(p) THEN InodeOf(p) ELSE new
  IN  /\ InodeOf(p) # Directory
      /\ entry' = [entry EXCEPT ![Resolve(p)] = i]
      /\ data'  = [k \in DOMAIN data \cup {i} |->
                     IF k = i THEN [kind |-> "partial", by |-> j] ELSE data[k]]
      /\ UNCHANGED link

(* f.write and the close that flushes, through the file opened above.      *)
Fill(j, role, i) ==
  /\ data' = [data EXCEPT ![i] = [kind |-> role, by |-> j]]
  /\ UNCHANGED <<link, entry>>

(* The stages that may reject a content read as an A7 source.  What an     *)
(* invocation has written is no A7 text: a truncated file is an empty      *)
(* module, anything else fails somewhere in the front end.                 *)
DefectsOf(c) ==
  IF c \in Texts THEN {Defect[c]} ELSE {"none", "tokens", "syntax", "semantic"}
ImportsOf(c) == IF c \in Texts THEN Imports[c] ELSE << >>
-----------------------------------------------------------------------------
(* The local state of an invocation: where it is, its command, the         *)
(* contents it has read, the inputs it protects, the file it has open, the *)
(* paths set in its CompilationResult, and what it reported.  "since" is   *)
(* the number of edits when it was started, for the property ModesAgree.   *)
Idle == "idle"
Busy == {"read", "frontend", "imports", "analyze", "paths", "generate",
         "output", "writing", "document", "documenting", "emit"}

NoCommand == [tool |-> "a7", mode |-> "tokens", file |-> NoPath,
              out |-> NoPath, doc |-> NoPath]
NewJob == [pc |-> Idle, cmd |-> NoCommand, read |-> {}, inputs |-> {},
           open |-> Absent, done |-> {}, exit |-> 0, listed |-> {}, since |-> 0]

Mode(j) == job[j].cmd.mode
File(j) == job[j].cmd.file

AnalyzesNoDoc(m) == m \in {"semantic", "pipeline", "compile"}

Analyzes(m)  == m \in {"semantic", "pipeline", "compile", "doc"}
Generates(m) == m \in {"pipeline", "compile", "doc"}

(* compile_output and doc_output; main fills in the default report path of *)
(* doc mode.                                                               *)
OutPath(c) == IF c.mode # "compile" \/ c.tool # "a7" THEN NoPath
              ELSE IF c.out = NoPath THEN DefaultOut[c.file] ELSE c.out
DocPath(c) == IF c.doc = AutoDoc \/ (c.doc = NoPath /\ c.mode = "doc")
              THEN DefaultDoc[c.file] ELSE c.doc

Destination(c, role) == IF role = "out" THEN OutPath(c) ELSE DocPath(c)
Requested(c) == {r \in Roles : Destination(c, r) # NoPath}

Init ==
  /\ link   = InitialLink
  /\ entry  = InitialEntry
  /\ data   = InitialData
  /\ job    = [j \in Jobs |-> NewJob]
  /\ edits  = 0
  /\ struck = {}
-----------------------------------------------------------------------------
At(j, pc) == job[j].pc = pc

(* The step of job j to pc; the rest of its state is kept.                 *)
Goto(j, pc) == job' = [job EXCEPT ![j].pc = pc]

(* _finish_with_failure, and the end of a successful call: the result and  *)
(* its payload, whose artifacts are the paths set so far that exist.       *)
Listed(j) == {r \in job[j].done : Exists(Destination(job[j].cmd, r))}

Return(j, code) ==
  job' = [job EXCEPT ![j].pc = "returned", ![j].exit = code,
                     ![j].listed = Listed(j)]

(* main: options that belong to another mode are refused with status 2.    *)
BadUsage(c) ==
  /\ c.tool = "a7"
  /\ \/ c.mode # "compile" /\ c.out # NoPath
     \/ c.doc # NoPath /\ ~Generates(c.mode)

Start(j, c) ==
  /\ At(j, Idle)
  /\ job' = [job EXCEPT ![j] =
               [NewJob EXCEPT !.pc = IF BadUsage(c) THEN "returned" ELSE "read",
                              !.exit = IF BadUsage(c) THEN 2 ELSE 0,
                              !.cmd = c, !.since = edits]]
  /\ UNCHANGED <<link, entry, data, edits, struck>>

(* The entry file: it exists, has the suffix .a7 and can be read.          *)
ReadEntry(j) ==
  /\ At(j, "read")
  /\ IF IsFile(File(j)) /\ File(j) \in Sources
     THEN job' = [job EXCEPT ![j].pc = "frontend",
                             ![j].read = {data[InodeOf(File(j))]},
                             ![j].inputs = {File(j)}]
     ELSE Return(j, 3)
  /\ UNCHANGED <<link, entry, data, edits, struck>>

(* The tokenizer and, but in tokens mode, the parser on the entry text.    *)
AfterFrontend(m) ==
  IF m = "tokens" THEN "emit" ELSE IF Analyzes(m) THEN "imports" ELSE "paths"

Frontend(j) ==
  /\ At(j, "frontend")
  /\ \E c \in job[j].read : \E d \in DefectsOf(c) :
       \/ d = "tokens" /\ Return(j, 4)
       \/ d = "syntax" /\ Mode(j) # "tokens" /\ Return(j, 5)
       \/ /\ d # "tokens" /\ (d = "syntax" => Mode(j) = "tokens")
          /\ Goto(j, AfterFrontend(Mode(j)))
  /\ UNCHANGED <<link, entry, data, edits, struck>>

(* load_program_dependencies: the first module that is missing or rejected *)
(* by the tokenizer or the parser ends the call; semantic errors are       *)
(* collected.  The files loaded join the protected inputs.                 *)
Loads(p) ==
  IsFile(p) /\ DefectsOf(data[InodeOf(p)]) \ {"tokens", "syntax"} # {}

RejectModule(j, p) ==
  \/ ~IsFile(p) /\ Return(j, 3)
  \/ IsFile(p) /\ "tokens" \in DefectsOf(data[InodeOf(p)]) /\ Return(j, 4)
  \/ IsFile(p) /\ "syntax" \in DefectsOf(data[InodeOf(p)]) /\ Return(j, 5)

LoadImports(j) ==
  /\ At(j, "imports")
  /\ \E c \in job[j].read :
       LET modules == ImportsOf(c) IN
       \/ \E n \in DOMAIN modules :
            /\ \A m \in 1 .. n - 1 : Loads(modules[m])
            /\ RejectModule(j, modules[n])
       \/ /\ \A n \in DOMAIN modules : Loads(modules[n])
          /\ job' = [job EXCEPT ![j].pc = "analyze",
               ![j].read = @ \cup {data[InodeOf(modules[n])] : n \in DOMAIN modules},
               ![j].inputs = @ \cup {modules[n] : n \in DOMAIN modules}]
  /\ UNCHANGED <<link, entry, data, edits, struck>>

(* The semantic passes, run on the merged program.                         *)
Analyze(j) ==
  /\ At(j, "analyze")
  /\ \/ (\E c \in job[j].read : "semantic" \in DefectsOf(c)) /\ Return(j, 6)
     \/ (\A c \in job[j].read : DefectsOf(c) # {"semantic"}) /\ Goto(j, "paths")
  /\ UNCHANGED <<link, entry, data, edits, struck>>

(* _artifact_path_conflict: a destination must not be an A7 path, nor an   *)
(* alias of an input or of an earlier destination.                         *)
Conflict(c, inputs) ==
  \/ \E r \in Requested(c) :
       \/ Destination(c, r) \in Sources
       \/ \E p \in inputs : Aliased(Destination(c, r), p)
  \/ Requested(c) = Roles /\ Aliased(DocPath(c), OutPath(c))

CheckPaths(j) ==
  /\ At(j, "paths")
  /\ IF Conflict(job[j].cmd, job[j].inputs) THEN Return(j, 3)
     ELSE Goto(j, IF Generates(Mode(j)) THEN "generate" ELSE "emit")
  /\ UNCHANGED <<link, entry, data, edits, struck>>

(* The preprocessor and the backend.                                       *)
AfterOutput(c) == IF DocPath(c) # NoPath THEN "document" ELSE "emit"

GenerateIntoFile(j) ==
  /\ At(j, "generate")
  /\ \/ /\ \E c \in job[j].read : "codegen" \in DefectsOf(c)
        /\ IF Mode(j) = "compile" /\ job[j].cmd.tool = "a7"
           THEN Truncate(j, "out", OutPath(job[j].cmd)) ELSE UNCHANGED fs
        /\ Return(j, 7)
     \/ /\ \A c \in job[j].read : DefectsOf(c) # {"codegen"}
        /\ Goto(j, IF Mode(j) = "compile" /\ job[j].cmd.tool = "a7"
                   THEN "output" ELSE AfterOutput(job[j].cmd))
        /\ UNCHANGED fs
  /\ UNCHANGED <<edits, struck>>

Generate(j) ==
  /\ At(j, "generate")
  /\ \/ (\E c \in job[j].read : "codegen" \in DefectsOf(c)) /\ Return(j, 7)
     \/ /\ \A c \in job[j].read : DefectsOf(c) # {"codegen"}
        /\ Goto(j, IF Mode(j) = "compile" /\ job[j].cmd.tool = "a7"
                   THEN "output" ELSE AfterOutput(job[j].cmd))
  /\ UNCHANGED <<link, entry, data, edits, struck>>

(* open(destination, "w") and f.write: the path is set in the result when  *)
(* the file is complete.                                                   *)
OpenSettingPath(j, role, next) ==
  LET p == Destination(job[j].cmd, role) IN
  IF InodeOf(p) = Directory
  THEN Return(j, 3) /\ UNCHANGED fs
  ELSE /\ Truncate(j, role, p)
       /\ job' = [job EXCEPT ![j].pc = next, ![j].open = entry'[Resolve(p)],
                             ![j].done = @ \cup {role}]

Open(j, role, next) ==
  LET p == Destination(job[j].cmd, role) IN
  IF InodeOf(p) = Directory
  THEN Return(j, 3) /\ UNCHANGED fs
  ELSE /\ Truncate(j, role, p)
       /\ job' = [job EXCEPT ![j].pc = next, ![j].open = entry'[Resolve(p)]]

Write(j, role, next) ==
  /\ Fill(j, role, job[j].open)
  /\ job' = [job EXCEPT ![j].pc = next, ![j].open = Absent,
                        ![j].done = @ \cup {role}]

OpenOutput(j) ==
  At(j, "output") /\ Open(j, "out", "writing") /\ UNCHANGED <<edits, struck>>

WriteOutput(j) ==
  /\ At(j, "writing")
  /\ Write(j, "out", AfterOutput(job[j].cmd))
  /\ UNCHANGED <<edits, struck>>

OpenDoc(j) ==
  At(j, "document") /\ Open(j, "doc", "documenting") /\ UNCHANGED <<edits, struck>>

WriteDoc(j) ==
  At(j, "documenting") /\ Write(j, "doc", "emit") /\ UNCHANGED <<edits, struck>>

(* _emit_success and the return of the result.                             *)
Emit(j) ==
  At(j, "emit") /\ Return(j, 0) /\ UNCHANGED <<link, entry, data, edits, struck>>
-----------------------------------------------------------------------------
(* What may go wrong at any time: a system call that fails, a bug that     *)
(* raises an unexpected exception, a kill.  Each invocation meets at most  *)
(* one of them.                                                            *)
Strike(j) ==
  /\ j \notin struck /\ Cardinality(struck) < MaxStruck
  /\ struck' = struck \cup {j}
  /\ UNCHANGED <<link, entry, data, edits>>

(* OSError where the code catches it: reading a source file, validating    *)
(* the destinations, opening, writing and closing them.  A file that was   *)
(* opened keeps what had been written.                                     *)
CallFails(j) ==
  /\ job[j].pc \in {"read", "imports", "paths", "output", "writing", "document", "documenting"}
  /\ Strike(j)
  /\ Return(j, 3)

(* Any other exception ends in the outer handler, but the backend's is a   *)
(* code generation failure.                                                *)
Bug(j) ==
  /\ job[j].pc \in {"frontend", "imports", "analyze", "generate", "emit"}
  /\ Strike(j)
  /\ \/ Return(j, 8)
     \/ At(j, "generate") /\ Return(j, 7)

Kill(j) ==
  /\ job[j].pc \in Busy
  /\ Strike(j)
  /\ Goto(j, "killed")

(* Somebody edits a source while invocations run.                          *)
Edit ==
  /\ edits < MaxEdits
  /\ edits' = edits + 1
  /\ \E p \in Sources, t \in Texts :
       /\ IsFile(p)
       /\ data[InodeOf(p)] # t
       /\ data' = [data EXCEPT ![InodeOf(p)] = t]
  /\ UNCHANGED <<link, entry, job, struck>>

Proceed(j) ==
  \/ ReadEntry(j) \/ Frontend(j) \/ LoadImports(j) \/ Analyze(j)
  \/ CheckPaths(j) \/ Generate(j) \/ OpenOutput(j) \/ WriteOutput(j)
  \/ OpenDoc(j) \/ WriteDoc(j) \/ Emit(j)

Fault(j) == CallFails(j) \/ Bug(j) \/ Kill(j)

Next ==
  \/ \E j \in Jobs : (\E c \in Commands : Start(j, c)) \/ Proceed(j) \/ Fault(j)
  \/ Edit

Spec == Init /\ [][Next]_vars

-----------------------------------------------------------------------------
Ended(j)   == At(j, "returned")
ByJob(c, j) == c \in Written /\ c.by = j

(* README.md:75 "Output destinations cannot overwrite input modules": no   *)
(* step of an invocation truncates or replaces a file that this invocation *)
(* has read as a source, under whatever name its options reach it (a       *)
(* symbolic link, a hard link, the default output), and whatever the other *)
(* invocations create between the check of the destinations and the open.  *)
InputsSurvive ==
  [][\A j \in Jobs : \A p \in job[j].inputs :
       LET i == InodeOf(p) IN
         (i \in DOMAIN data /\ data'[i] # data[i]) => ~ByJob(data'[i], j)]_vars

(* An invocation that is refused (usage, tokens, syntax, semantics, code   *)
(* generation, a conflict of paths) leaves nothing of its own on the disk: *)
(* every destination is validated before any is opened.  Only a write that *)
(* fails leaves a truncated file, and only a report that cannot be opened  *)
(* leaves an output without its report.                                    *)
RefusalLeavesNoTrace ==
  \A j \in Jobs : Ended(j) /\ job[j].exit # 0 =>
    \A i \in DOMAIN data : ByJob(data[i], j) =>
      \/ job[j].exit \in {3, 8} /\ j \in struck
      \/ /\ job[j].exit = 3 /\ data[i].kind \in job[j].listed
         /\ InodeOf(DocPath(job[j].cmd)) = Directory

(* README.md:76 "JSON artifact lists describe files written by that        *)
(* invocation": a file that still holds what the invocation put there is   *)
(* listed exactly when it is complete, a file nobody wrote is not listed,  *)
(* and success lists everything that was asked for.                        *)
ArtifactsHonest ==
  \A j \in Jobs : Ended(j) =>
    /\ job[j].exit = 0 /\ Mode(j) # "tokens" => job[j].listed = Requested(job[j].cmd)
    /\ \A r \in Requested(job[j].cmd) :
         LET p == Destination(job[j].cmd, r) IN
         /\ IsFile(p) /\ ByJob(data[InodeOf(p)], j) =>
              (r \in job[j].listed <=> data[InodeOf(p)].kind # "partial")
         /\ r \in job[j].listed /\ edits = 0 =>
              IsFile(p) /\ data[InodeOf(p)] \in Written

(* Two invocations on one program, whose sources nobody changes, come to   *)
(* the same verdict in whatever mode they run: "check" and a documentation *)
(* run accept exactly what "compile" accepts, up to the paths it writes.   *)
Unchanged(j) ==
  /\ job[j].since = edits
  /\ \A p \in Sources : IsFile(p) => data[InodeOf(p)] \in Texts

ModesAgree ==
  \A j, k \in Jobs :
    /\ Ended(j) /\ Ended(k) /\ {j, k} \cap struck = {} /\ File(j) = File(k)
    /\ Generates(Mode(j)) /\ ~BadUsage(job[j].cmd)
    /\ Analyzes(Mode(k)) /\ ~BadUsage(job[k].cmd)
    /\ Unchanged(j) /\ Unchanged(k)
    => /\ job[j].exit \in {4, 5, 6} \/ job[k].exit \in {4, 5, 6} =>
            job[j].exit = job[k].exit
       /\ job[j].exit = 0 => job[k].exit \in {0, 3}
=============================================================================
