------------------------------- MODULE Native -------------------------------
(***************************************************************************)
(* The commands check, build and run: src/a7/cli.py, workflow.  Each calls *)
(* the compiler in pipeline mode (the module Compile, whose job ends in    *)
(* "returned"); build and run then make a native executable with Zig in a  *)
(* temporary directory.  build renames it over its destination, run        *)
(* executes it.  Zig and the program are external: Zig succeeds or         *)
(* fails, the program ends with some status, or never.                     *)
(***************************************************************************)
EXTENDS Compile, Integers

CONSTANTS
  DefaultExe,    (* ./<source-stem>                                         *)
  Executables,   (* the names that AtomicInstall is about: neither the      *)
                 (* output of a compilation nor an edit gets through to them *)
  ProgramStatus  (* how a program may end: a status, or minus a signal      *)

InitiallyAliased(p, q) ==
  \/ InitialLink[p] = InitialLink[q]
  \/ /\ InitialEntry[InitialLink[p]] # Absent
     /\ InitialEntry[InitialLink[p]] = InitialEntry[InitialLink[q]]

ASSUME NativeAssumption ==
  /\ DefaultExe \in [Paths -> Paths]
  /\ ProgramStatus \subseteq -64 .. 255
  /\ Executables \subseteq Paths \ Sources
  /\ \A d \in Executables :
       /\ \A p \in Sources : ~InitiallyAliased(p, d)
       /\ \A c \in Commands : \A r \in Requested(c) :
            ~InitiallyAliased(Destination(c, r), d)

VARIABLES
  step,     (* where the workflow of each invocation is                     *)
  status,   (* the status of the process                                    *)
  temp      (* the invocations whose temporary directory exists             *)

nvars == <<vars, step, status, temp>>

Steps == {"compiling", "zig", "check", "temp", "build", "install", "program",
          "cleanup", "ended", "killed"}

NativeInit ==
  /\ Init
  /\ step   = [j \in Jobs |-> "compiling"]
  /\ status = [j \in Jobs |-> 0]
  /\ temp   = {}
-----------------------------------------------------------------------------
Tool(j) == job[j].cmd.tool
ExePath(j) == IF job[j].cmd.out = NoPath THEN DefaultExe[File(j)]
              ELSE job[j].cmd.out

On(j, s)      == step[j] = s
Move(j, s)    == step' = [step EXCEPT ![j] = s] /\ UNCHANGED status
Leave(j, s, code) ==
  /\ step'   = [step EXCEPT ![j] = s]
  /\ status' = [status EXCEPT ![j] = code]

(* The compiler has returned: an unsuccessful result is the status of the  *)
(* process, and so is every result of check.                               *)
AfterCompile(j) ==
  /\ On(j, "compiling") /\ At(j, "returned")
  /\ IF Tool(j) \in {"a7", "check"} \/ job[j].exit # 0
     THEN Leave(j, "ended", job[j].exit)
     ELSE Move(j, "zig")
  /\ UNCHANGED <<vars, temp>>

(* find_zig: not found, the wrong version, or no answer in time.           *)
FindZig(j) ==
  /\ On(j, "zig")
  /\ Leave(j, "ended", 2) \/ Move(j, IF Tool(j) = "build" THEN "check" ELSE "temp")
  /\ UNCHANGED <<vars, temp>>

CheckEntryOnly(j) ==
  /\ On(j, "check")
  /\ IF \/ ExePath(j) \in Sources
        \/ InodeOf(ExePath(j)) = Directory
        \/ Aliased(ExePath(j), File(j))
     THEN Leave(j, "ended", 3) ELSE Move(j, "temp")
  /\ UNCHANGED <<vars, temp>>

(* native_output_conflict and the suffix test.                             *)
CheckNative(j) ==
  /\ On(j, "check")
  /\ IF \/ ExePath(j) \in Sources
        \/ InodeOf(ExePath(j)) = Directory
        \/ \E p \in job[j].inputs : Aliased(ExePath(j), p)
     THEN Leave(j, "ended", 3) ELSE Move(j, "temp")
  /\ UNCHANGED <<vars, temp>>

(* TemporaryDirectory, in the destination's directory for build.           *)
MakeTemp(j) ==
  /\ On(j, "temp")
  /\ temp' = temp \cup {j}
  /\ Move(j, "build")
  /\ UNCHANGED vars

ZigBuildLeaving(j) ==
  /\ On(j, "build")
  /\ \/ /\ \A c \in job[j].read : DefectsOf(c) # {"native"}
        /\ Move(j, IF Tool(j) = "build" THEN "install" ELSE "program")
     \/ (\E c \in job[j].read : "native" \in DefectsOf(c)) /\ Leave(j, "ended", 7)
  /\ UNCHANGED <<vars, temp>>

(* zig build-exe: the executable is a file of the temporary directory.     *)
ZigBuild(j) ==
  /\ On(j, "build")
  /\ \/ /\ \A c \in job[j].read : DefectsOf(c) # {"native"}
        /\ Move(j, IF Tool(j) = "build" THEN "install" ELSE "program")
     \/ (\E c \in job[j].read : "native" \in DefectsOf(c)) /\ Leave(j, "cleanup", 7)
  /\ UNCHANGED <<vars, temp>>

InstallByCopy(j) ==
  LET d == ExePath(j)
      i == InodeOf(d)
  IN
  /\ On(j, "install")
  /\ IF IsFile(d) /\ data[i] = [kind |-> "partial", by |-> j]
     THEN Fill(j, "exe", i) /\ Leave(j, "cleanup", 0)
     ELSE Truncate(j, "exe", d) /\ UNCHANGED <<step, status>>
  /\ UNCHANGED <<job, edits, struck, temp>>

InstallIfAbsent(j) ==
  LET d == ExePath(j)
      new == <<j, "exe">>
  IN
  /\ On(j, "install")
  /\ IF Exists(d) THEN UNCHANGED fs
     ELSE /\ link'  = [link EXCEPT ![d] = d]
          /\ entry' = [entry EXCEPT ![d] = new]
          /\ data'  = [i \in DOMAIN data \cup {new} |->
                         IF i = new THEN [kind |-> "exe", by |-> j] ELSE data[i]]
  /\ Leave(j, "cleanup", 0)
  /\ UNCHANGED <<job, edits, struck, temp>>

(* os.replace: the name of the destination, not what it leads to, becomes  *)
(* a plain file, the executable.                                           *)
Install(j) ==
  LET d == ExePath(j)
      new == <<j, "exe">>
  IN
  /\ On(j, "install")
  /\ link'  = [link EXCEPT ![d] = d]
  /\ entry' = [entry EXCEPT ![d] = new]
  /\ data'  = [i \in DOMAIN data \cup {new} |->
                 IF i = new THEN [kind |-> "exe", by |-> j] ELSE data[i]]
  /\ Leave(j, "cleanup", 0)
  /\ UNCHANGED <<job, edits, struck, temp>>

(* The program runs; its status becomes the status of the process, 128 + n *)
(* when signal n ended it.                                                 *)
ExitStatus(s) == IF s >= 0 THEN s ELSE 128 - s

RunProgram(j) ==
  /\ On(j, "program")
  /\ \E s \in ProgramStatus : Leave(j, "cleanup", ExitStatus(s))
  /\ UNCHANGED <<vars, temp>>

(* The end of the with statement removes the directory on every way out.   *)
Cleanup(j) ==
  /\ On(j, "cleanup")
  /\ temp' = temp \ {j}
  /\ Move(j, "ended")
  /\ UNCHANGED vars

(* OSError in the try block.  Inside the with statement the directory is   *)
(* removed on the way to the handler; when the removal itself is what      *)
(* fails, the directory stays.  The message "Built" may fail to print when *)
(* the executable is in place.                                             *)
NativeCallFails(j) ==
  /\ Strike(j)
  /\ \/ step[j] \in {"check", "temp", "build", "install", "program"}
        /\ Leave(j, IF j \in temp THEN "cleanup" ELSE "ended", 3)
     \/ On(j, "cleanup") /\ Leave(j, "ended", 3)
     \/ On(j, "cleanup") /\ Tool(j) = "build" /\ status[j] = 0
        /\ Leave(j, "cleanup", 3)
  /\ UNCHANGED <<job, temp>>

NativeKill(j) ==
  /\ step[j] \notin {"compiling", "ended", "killed"}
  /\ Strike(j)
  /\ Move(j, "killed")
  /\ UNCHANGED <<job, temp>>

Compiling(A) == A /\ UNCHANGED <<step, status, temp>>

NativeProceed(j) ==
  \/ Compiling(Proceed(j))
  \/ AfterCompile(j) \/ FindZig(j) \/ CheckNative(j) \/ MakeTemp(j)
  \/ ZigBuild(j) \/ Install(j) \/ Cleanup(j)

NativeNext ==
  \/ \E j \in Jobs :
       \/ \E c \in Commands : Compiling(Start(j, c))
       \/ NativeProceed(j) \/ RunProgram(j)
       \/ Compiling(Fault(j)) \/ NativeCallFails(j) \/ NativeKill(j)
  \/ Compiling(Edit)

NativeSpec == NativeInit /\ [][NativeNext]_nvars

(* The invocation is scheduled and Zig ends; the program it runs need not. *)
NativeFairSpec == NativeSpec /\ \A j \in Jobs : WF_nvars(NativeProceed(j))
-----------------------------------------------------------------------------
(* src/a7/cli.py:61 "Protect the sources already read by the compiler,     *)
(* including file aliases": the installation of an executable leaves every *)
(* source of the program what it was, by name and by content.              *)
SourcesIntact ==
  \A j \in Jobs : \A p \in job[j].inputs :
    IsFile(p) => ~ByJob(data[InodeOf(p)], j)

(* The status is one that a process can have, whatever the program returned. *)
(* One that names a stage of the compiler or of Zig (2, 4, 5, 6, 7) means  *)
(* that a build installed nothing; success of a build means that the       *)
(* destination is now the executable, or that of a later build; unless a   *)
(* compilation or an edit writes to that name too.                         *)
StatusHonest ==
  \A j \in Jobs :
    /\ status[j] \in 0 .. 255
    /\ On(j, "ended") /\ Tool(j) = "build" =>
         /\ status[j] \in {2, 4, 5, 6, 7} => <<j, "exe">> \notin DOMAIN data
         /\ status[j] = 0 /\ ExePath(j) \in Executables =>
              LET d == ExePath(j) IN
              /\ link[d] = d
              /\ entry[d] \in DOMAIN data
              /\ data[entry[d]] \in Written /\ data[entry[d]].kind = "exe"

(* Whatever goes wrong (compiler, Zig and program failures, a refused      *)
(* destination, a failing system call), a process removes its temporary    *)
(* directory in the end, unless it is killed, the removal itself fails, or *)
(* the program never ends.                                                 *)
TempRemoved ==
  \A j \in Jobs :
    j \in temp ~> \/ j \notin temp
                 \/ On(j, "program")
                 \/ On(j, "killed")
                 \/ (On(j, "ended") /\ j \in struck /\ status[j] = 3)

(* The destination as "a7 build" promises it: AtomicInstall, read from the *)
(* file system and from the progress of the workflow.                      *)
Nobody == "nobody"
Torn   == "torn"

ExeHolder(d) ==
  IF ~(link[d] = d /\ IsFile(d)) \/ data[InodeOf(d)] \notin Written THEN Nobody
  ELSE IF data[InodeOf(d)].kind = "exe" THEN data[InodeOf(d)].by ELSE Torn

BuildPhase(j) ==
  IF <<j, "exe">> \in DOMAIN data
  THEN IF On(j, "ended") /\ status[j] = 0 THEN "succeeded"
       ELSE IF step[j] \in {"ended", "killed"} THEN "failed" ELSE "installed"
  ELSE IF At(j, "killed") \/ On(j, "killed") THEN "failed"
       ELSE IF On(j, "ended") THEN "declined" ELSE "working"

Promise == INSTANCE AtomicInstall WITH
  Builds <- Jobs, Destinations <- Executables,
  holder <- [d \in Executables |-> ExeHolder(d)],
  phase  <- [j \in Jobs |-> BuildPhase(j)]

AtomicInstallation == Promise!Spec
=============================================================================
