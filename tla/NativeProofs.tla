----------------------------- MODULE NativeProofs -----------------------------
(* Proofs about check, build and run: the sources survive an installation,   *)
(* the status tells the truth, and a build keeps the promise of              *)
(* AtomicInstall, for every file system and any number of invocations.       *)
EXTENDS Native, CompileProofs

(***************************************************************************)
(* The inductive invariant                                                 *)
(***************************************************************************)
NativeTypeOK ==
  /\ step \in [Jobs -> Steps]
  /\ status \in [Jobs -> 0 .. 255]
  /\ temp \subseteq Jobs

\* Neither the sources nor what a compilation writes to get through to the
\* executables that AtomicInstall is about.
ExecutablesApart ==
  \A d \in Executables :
    /\ \A p \in Sources : ~Aliased(p, d)
    /\ \A c \in Commands : \A r \in Requested(c) : ~Aliased(Destination(c, r), d)

\* The steps of a build or a run after the compiler's success.
Working == {"zig", "check", "temp", "build", "install", "program", "cleanup"}

\* Whether j has installed its executable.
HasExe(j) == <<j, "exe">> \in DOMAIN data

\* A workflow reaches a step only after a successful compilation, and only if the
\* step belongs to its command.
StepOK(j) ==
  /\ step[j] # "compiling" => job[j].pc = "returned"
  /\ step[j] \in Working => job[j].exit = 0 /\ Tool(j) \in {"build", "run"}
  /\ step[j] \in {"check", "install"} => Tool(j) = "build"
  /\ step[j] = "program" => Tool(j) = "run"

\* The executable is installed by the step install of a build and no other, and
\* the status agrees.
ExeOK(j) ==
  /\ HasExe(j) => Tool(j) = "build" /\ step[j] \in {"cleanup", "ended", "killed"}
  /\ Tool(j) = "build" /\ step[j] \in {"cleanup", "ended"} =>
       IF HasExe(j) THEN status[j] \in {0, 3} ELSE status[j] # 0

\* native_output_conflict does not go stale while Zig runs.
DestinationOK(j) ==
  Tool(j) = "build" /\ step[j] \in {"temp", "build", "install"} =>
    /\ ExePath(j) \notin Sources
    /\ \A p \in job[j].inputs : ~Aliased(ExePath(j), p)

\* The destination is a plain name of a complete executable, this or a later one.
HoldsExe(d) ==
  /\ link[d] = d
  /\ entry[d] \in DOMAIN data
  /\ data[entry[d]] \in Written /\ data[entry[d]].kind = "exe"

InstalledOK(j) == HasExe(j) /\ ExePath(j) \in Executables => HoldsExe(ExePath(j))

\* The file that a compilation has open is that of no executable.
OpenApartOK(j) ==
  job[j].pc \in {"writing", "documenting"} =>
    \A d \in Executables : InodeOf(d) # job[j].open

NativeInv ==
  /\ SharedInv /\ NativeTypeOK /\ ExecutablesApart
  /\ \A j \in Jobs : /\ StepOK(j) /\ ExeOK(j) /\ DestinationOK(j)
                     /\ InstalledOK(j) /\ OpenApartOK(j)

(***************************************************************************)
(* The kinds of steps                                                      *)
(***************************************************************************)
\* Names of commands.
LEMMA ExePathTypes ==
    ASSUME NativeInv, NEW j \in Jobs, job[j].pc # Idle
    PROVE  ExePath(j) \in Paths /\ Tool(j) \in Tools
<1>1. job[j].cmd \in Commands
  BY DEF NativeInv, SharedInv, JobOK, PlaceOK
<1> QED
  BY <1>1, CommandAssumption, NativeAssumption DEF ExePath, File, Tool

\* Names that are not those of an executable stay so.
LEMMA ExecutablesStayApart ==
    ASSUME NativeInv, NamesStep
    PROVE  ExecutablesApart'
<1>1. FileTypes /\ NamesOK /\ ExecutablesApart
  BY DEF NativeInv, SharedInv, TypeOK
<1>2. Executables \subseteq Paths /\ Sources \subseteq Paths
  BY NativeAssumption, FileSystemAssumption
<1>3. \A c \in Commands : \A r \in Requested(c) : Destination(c, r) \in Paths
  BY DestinationTypes
<1> QED
  BY <1>1, <1>2, <1>3, ApartStays DEF ExecutablesApart

\* A step of the compiler creates no executable and changes none of those.
SparesExecutables ==
  /\ \A k \in Jobs : HasExe(k)' <=> HasExe(k)
  /\ link' = link
  /\ \A d \in Executables : link[d] = d => entry'[d] = entry[d]
  /\ \A d \in Executables : link[d] = d /\ entry[d] \in DOMAIN data =>
       entry[d] \in DOMAIN data' /\ data'[entry[d]] = data[entry[d]]

\* What a compilation opens leads to no executable.
LEMMA OpenSparesExecutables ==
    ASSUME NativeInv, NEW j \in Jobs, NEW r \in Roles, NEW next, OpensAt(j, r, next),
           Open(j, r, next)
    PROVE  SparesExecutables
<1> PICK c, p : c = job[j].cmd /\ p = Destination(c, r)
  OBVIOUS
<1>0. SharedInv /\ FileTypes /\ NamesOK /\ r \in {"out", "doc", "exe"}
  BY DEF NativeInv, SharedInv, TypeOK, Roles
<1>1. CASE InodeOf(p) = Directory
  BY <1>1 DEF Open, fs, SparesExecutables, HasExe
<1>2. CASE InodeOf(p) # Directory
  <2>1. /\ c \in Commands /\ r \in Requested(c) /\ p \in Paths
        /\ <<j, r>> \notin DOMAIN data /\ Truncate(j, r, p)
    BY <1>0, <1>2, OpenShape
  <2>2. Cut(j, r, p)
    BY <1>0, <2>1, TruncateShape
  <2>3. ASSUME NEW k \in Jobs
        PROVE  HasExe(k)' <=> HasExe(k)
    <3>1. <<k, "exe">> # <<j, r>>
      BY DEF Roles
    <3> QED
      BY <2>2, <3>1 DEF Cut, HasExe
  <2>4. ASSUME NEW d \in Executables, link[d] = d
        PROVE  /\ entry'[d] = entry[d]
               /\ entry[d] \in DOMAIN data =>
                    entry[d] \in DOMAIN data' /\ data'[entry[d]] = data[entry[d]]
    <3>1. d \in Paths /\ ~Aliased(p, d)
      BY <2>1, NativeAssumption DEF NativeInv, ExecutablesApart
    <3>2. link[p] # d
      BY <2>4, <3>1 DEF Aliased, Resolve
    <3>3. entry'[d] = entry[d]
      <4>1. PICK i : entry' = [entry EXCEPT ![link[p]] = i]
        BY <2>1 DEF Truncate, Resolve
      <4> QED
        BY <1>0, <3>1, <3>2, <4>1 DEF FileTypes
    <3>4. ASSUME NEW i \in DOMAIN data, entry[d] = i
          PROVE  i \in DOMAIN data' /\ data'[i] = data[i]
      <4>1. i # Absent
        BY <1>0, NewInodesApart, FileSystemAssumption DEF FileTypes, Inodes
      <4>2. InodeOf(p) # i
        BY <2>4, <3>1, <3>4, <4>1 DEF Aliased, SameFile, Exists, InodeOf, Resolve
      <4>3. InodeOf(p)' # i
        BY <1>0, <2>1, <2>2, <4>2, InodeStays DEF Cut
      <4> QED
        BY <2>2, <4>3 DEF Cut
    <3> QED
      BY <3>3, <3>4
  <2> QED
    BY <2>2, <2>3, <2>4 DEF Cut, SparesExecutables
<1> QED
  BY <1>1, <1>2

\* What a compilation has open is no executable.
LEMMA WriteSparesExecutables ==
    ASSUME NativeInv, NEW j \in Jobs, NEW r \in Roles, NEW next, WritesAt(j, r, next),
           Write(j, r, next)
    PROVE  SparesExecutables
<1> PICK o : o = job[j].open
  OBVIOUS
<1>1. Completed(j, r, o)
  BY WriteShape DEF NativeInv
<1>2. \A d \in Executables : InodeOf(d) # o
  BY DEF NativeInv, OpenApartOK, WritesAt
<1> QED
  BY <1>1, <1>2 DEF Completed, SparesExecutables, HasExe, InodeOf, Resolve

\* Nor is what somebody edits.
LEMMA EditSparesExecutables ==
    ASSUME NativeInv, Edit
    PROVE  SparesExecutables
<1>0. FileTypes /\ NamesOK
  BY DEF NativeInv, SharedInv, TypeOK
<1>1. PICK p \in Sources, t \in Texts :
        IsFile(p) /\ data' = [data EXCEPT ![InodeOf(p)] = t]
  BY DEF Edit
<1>2. link' = link /\ entry' = entry /\ DOMAIN data' = DOMAIN data
  BY <1>1 DEF Edit
<1>3. ASSUME NEW d \in Executables, link[d] = d
      PROVE  entry[d] # InodeOf(p)
  BY <1>1, <1>3 DEF NativeInv, ExecutablesApart, Aliased, SameFile, Exists, IsFile,
                    InodeOf, Resolve
<1> QED
  BY <1>0, <1>1, <1>2, <1>3 DEF SparesExecutables, HasExe, FileTypes

\* Every step of the compiler spares the executables.
LEMMA CompilerSparesExecutables ==
    ASSUME NativeInv, [Next]_vars
    PROVE  SparesExecutables
<1>1. CASE UNCHANGED fs
  BY <1>1 DEF fs, SparesExecutables, HasExe
<1> QED
  BY <1>1, OpenSparesExecutables, WriteSparesExecutables, EditSparesExecutables, StepShape
     DEF NativeInv

\* Executables stay where they are.
LEMMA HoldersStay ==
    ASSUME NativeInv, SparesExecutables, NEW d \in Executables, HoldsExe(d)
    PROVE  HoldsExe(d)'
BY DEF SparesExecutables, HoldsExe

\* Only the opening of a file leads to a place where one is open.
LEMMA OnlyOpenOpens ==
    ASSUME SharedInv, NEW j \in Jobs,
           (\E c \in Commands : Start(j, c)) \/ Proceed(j) \/ Fault(j),
           job'[j].pc \in {"writing", "documenting"}
    PROVE  \E r \in Roles, next \in {"writing", "documenting"} :
             OpensAt(j, r, next) /\ Open(j, r, next)
<1>0. job \in [Jobs -> JobStates]
  BY DEF SharedInv, TypeOK
<1>1. \A code : ~Return(j, code)
  BY <1>0 DEF Return, JobStates
<1>2. \A pc : pc \notin {"writing", "documenting"} => ~Goto(j, pc)
  BY <1>0 DEF Goto, JobStates
<1>3. ~\E c \in Commands : Start(j, c)
  BY StartShape DEF SharedInv
<1>4. ~Fault(j)
  BY <1>1, <1>2 DEF Fault, CallFails, Bug, Kill
<1>5. ~ReadEntry(j)
  BY <1>0, <1>1 DEF ReadEntry, JobStates
<1>6. ~Frontend(j)
  BY <1>1, <1>2 DEF Frontend, AfterFrontend
<1>7. ~LoadImports(j)
  BY <1>1, LoadImportsShape DEF RejectModule
<1>8. ~Analyze(j) /\ ~CheckPaths(j) /\ ~Emit(j)
  BY <1>1, <1>2 DEF Analyze, CheckPaths, Emit
<1>9. ~Generate(j)
  BY <1>1, <1>2 DEF Generate, AfterOutput
<1>10. ~WriteOutput(j) /\ ~WriteDoc(j)
  BY <1>0 DEF WriteOutput, WriteDoc, Write, AfterOutput, JobStates
<1> QED
  BY <1>3, <1>4, <1>5, <1>6, <1>7, <1>8, <1>9, <1>10
     DEF Proceed, OpenOutput, OpenDoc, OpensAt, At, Roles

(***************************************************************************)
(* The invariant after each kind of step                                   *)
(***************************************************************************)
\* An invocation that has returned rests.
LEMMA ReturnedRests ==
    ASSUME SharedInv, [Next]_vars, NEW k \in Jobs, job[k].pc = "returned"
    PROVE  job'[k] = job[k]
<1>1. ASSUME NEW j \in Jobs, (\E c \in Commands : Start(j, c)) \/ Proceed(j) \/ Fault(j)
      PROVE  job'[k] = job[k]
  <2>1. j # k
    BY <1>1 DEF Start, Proceed, Fault, CallFails, Bug, Kill, ReadEntry, Frontend,
                LoadImports, Analyze, CheckPaths, Generate, Emit, OpenOutput, OpenDoc,
                WriteOutput, WriteDoc, At, Idle, Busy
  <2> QED
    BY <1>1, <2>1, StepMoves DEF OnlyMoves, Advances
<1>2. CASE Edit \/ UNCHANGED vars
  BY <1>2 DEF Edit, vars
<1> QED
  BY <1>1, <1>2 DEF Next

\* The file that is open stays apart from the executables.
LEMMA OpenStaysApart ==
    ASSUME NativeInv, NamesStep, NEW k \in Jobs, job'[k] = job[k]
    PROVE  OpenApartOK(k)'
<1>1. FileTypes /\ NamesOK /\ JobOK(k) /\ OpenApartOK(k) /\ Executables \subseteq Paths
  BY NativeAssumption DEF NativeInv, SharedInv, TypeOK
<1> QED
  BY <1>1, InodeStays DEF OpenApartOK, JobOK, OpenOK

\* A file just opened is apart from the executables.
LEMMA OpenOpensApart ==
    ASSUME NativeInv, NEW j \in Jobs, NEW r \in Roles, NEW next, OpensAt(j, r, next),
           Open(j, r, next)
    PROVE  OpenApartOK(j)'
<1> PICK c, p : c = job[j].cmd /\ p = Destination(c, r)
  OBVIOUS
<1>0. SharedInv /\ TypeOK /\ FileTypes /\ NamesOK /\ r \in {"out", "doc", "exe"}
  BY DEF NativeInv, SharedInv, TypeOK, Roles
<1>1. CASE InodeOf(p) = Directory
  <2>1. Return(j, 3)
    BY <1>1 DEF Open
  <2>2. job'[j].pc = "returned"
    BY <1>0, <2>1, ReturnShape DEF Codes
  <2> QED
    BY <2>2 DEF OpenApartOK
<1>2. CASE InodeOf(p) # Directory
  <2>1. /\ c \in Commands /\ r \in Requested(c) /\ p \in Paths
        /\ <<j, r>> \notin DOMAIN data /\ Truncate(j, r, p)
        /\ job'[j].open = InodeOf(p)'
    BY <1>0, <1>2, OpenShape
  <2>2. FileTypes' /\ Cut(j, r, p)
    BY <1>0, <2>1, TruncateShape
  <2>3. ExecutablesApart'
    BY <2>2, ExecutablesStayApart DEF Cut
  <2>4. InodeOf(p)' # Absent
    BY <2>2, NewInodesApart, FileSystemAssumption DEF Cut, FileTypes, Inodes
  <2>5. \A d \in Executables : ~Aliased(p, d)'
    BY <2>1, <2>3 DEF ExecutablesApart
  <2>6. \A d \in Executables : InodeOf(d)' # InodeOf(p)'
    BY <2>4, <2>5 DEF Aliased, SameFile, Exists
  <2> QED
    BY <2>1, <2>6 DEF OpenApartOK
<1> QED
  BY <1>1, <1>2

\* A step of the compiler.
LEMMA CompilingKeeps ==
    ASSUME NativeInv, [Next]_vars, UNCHANGED <<step, status, temp>>
    PROVE  NativeInv'
<1>0. SharedInv
  BY DEF NativeInv
<1>1. SharedInv' /\ FileTypes /\ NamesOK /\ NamesStep
  BY <1>0, SharedNext, StepGrows DEF SharedInv, TypeOK
<1>2. SparesExecutables /\ ExecutablesApart' /\ NativeTypeOK'
  BY <1>1, CompilerSparesExecutables, ExecutablesStayApart DEF NativeInv, NativeTypeOK
<1>3. ASSUME NEW k \in Jobs
      PROVE  StepOK(k)' /\ ExeOK(k)' /\ DestinationOK(k)' /\ InstalledOK(k)'
  <2>1. StepOK(k) /\ ExeOK(k) /\ DestinationOK(k) /\ InstalledOK(k)
    BY DEF NativeInv
  <2>2. HasExe(k)' <=> HasExe(k)
    BY <1>2 DEF SparesExecutables
  <2>3. CASE step[k] = "compiling"
    <3>1. ~HasExe(k)
      BY <2>1, <2>3 DEF ExeOK
    <3> QED
      BY <2>2, <2>3, <3>1 DEF StepOK, ExeOK, DestinationOK, InstalledOK, Working
  <2>4. CASE step[k] # "compiling"
    <3>1. job[k].pc = "returned" /\ job'[k] = job[k]
      BY <1>0, <2>1, <2>4, ReturnedRests DEF StepOK
    <3>2. Tool(k)' = Tool(k) /\ ExePath(k)' = ExePath(k)
      BY <3>1 DEF Tool, ExePath, File
    <3>3. StepOK(k)' /\ ExeOK(k)'
      BY <2>1, <2>2, <3>1, <3>2 DEF StepOK, ExeOK
    <3>4. DestinationOK(k)'
      <4>1. ExePath(k) \in Paths /\ job[k].inputs \subseteq Paths
        BY <1>0, <3>1, ExePathTypes, FileSystemAssumption
           DEF Idle, SharedInv, TypeOK, JobStates
      <4>2. \A p \in job[k].inputs : ~Aliased(ExePath(k), p) => ~Aliased(ExePath(k), p)'
        <5> PICK d : d = ExePath(k)
          OBVIOUS
        <5>1. \A p \in job[k].inputs : ~Aliased(d, p) => ~Aliased(d, p)'
          BY <1>1, <4>1, ApartStays
        <5> QED
          BY <3>2, <5>1 DEF Aliased, SameFile, Exists, InodeOf, Resolve
      <4> QED
        BY <2>1, <3>1, <3>2, <4>2 DEF DestinationOK
    <3>5. InstalledOK(k)'
      <4> PICK d : d = ExePath(k)
        OBVIOUS
      <4>1. HasExe(k)' /\ d \in Executables => HoldsExe(d)'
        BY <1>2, <2>1, <2>2, HoldersStay DEF InstalledOK
      <4> QED
        BY <3>2, <4>1 DEF InstalledOK, HoldsExe
    <3> QED
      BY <3>3, <3>4, <3>5
  <2> QED
    BY <2>3, <2>4
<1>4. ASSUME NEW k \in Jobs
      PROVE  OpenApartOK(k)'
  <2>1. CASE job'[k] = job[k]
    BY <1>1, <2>1, OpenStaysApart
  <2>2. CASE job'[k] # job[k]
    <3>1. (\E c \in Commands : Start(k, c)) \/ Proceed(k) \/ Fault(k)
      <4>1. \A j \in Jobs : (\E c \in Commands : Start(j, c)) \/ Proceed(j) \/ Fault(j) => j = k
        BY <1>0, <2>2, StepMoves DEF OnlyMoves, Advances
      <4> QED
        BY <2>2, <4>1 DEF Next, Edit, vars
    <3>2. SUFFICES ASSUME job'[k].pc \in {"writing", "documenting"}
                   PROVE  OpenApartOK(k)'
      BY DEF OpenApartOK
    <3>3. \E r \in Roles, next \in {"writing", "documenting"} :
            OpensAt(k, r, next) /\ Open(k, r, next)
      BY <1>0, <3>1, <3>2, OnlyOpenOpens
    <3> QED
      BY <3>3, OpenOpensApart
  <2> QED
    BY <2>1, <2>2
<1> QED
  BY <1>1, <1>2, <1>3, <1>4 DEF NativeInv

\* A step of the workflow of j that leaves files and invocations alone.
LEMMA WorkflowKeeps ==
    ASSUME NativeInv, NEW j \in Jobs, NEW s \in Steps, NEW code \in 0 .. 255,
           step' = [step EXCEPT ![j] = s], status' = [status EXCEPT ![j] = code],
           UNCHANGED <<link, entry, data, job, edits>>, struck' \subseteq Jobs,
           temp' \subseteq Jobs, StepOK(j)', ExeOK(j)', DestinationOK(j)'
    PROVE  NativeInv'
<1> USE DEF NativeInv
<1>1. SharedInv'
  <2>1. NamesStep /\ OnlyMoves(j) /\ FileTypes'
    BY DEF NamesStep, OnlyMoves, SharedInv, TypeOK, FileTypes
  <2>2. \A k \in Jobs : SparesData(k)
    BY DEF SparesData, ByJob
  <2>3. JobOK(j)'
    <3>1. SparesData(j) /\ job'[j] = job[j]
      BY <2>2
    <3> QED
      BY <2>1, <3>1, OthersKeepOK
  <2> QED
    BY <2>1, <2>2, <2>3, MoverKeeps
<1>2. NativeTypeOK'
  BY DEF NativeTypeOK
<1>3. ExecutablesApart'
  BY DEF ExecutablesApart, Aliased, SameFile, Exists, InodeOf, Resolve
<1>4. ASSUME NEW k \in Jobs
      PROVE  StepOK(k)' /\ ExeOK(k)' /\ DestinationOK(k)'
  <2>1. CASE k = j
    BY <2>1
  <2>2. CASE k # j
    <3>1. step'[k] = step[k] /\ status'[k] = status[k]
      BY <2>2 DEF NativeTypeOK
    <3> QED
      BY <3>1 DEF StepOK, ExeOK, DestinationOK, HasExe, Tool, ExePath, File,
                  Aliased, SameFile, Exists, InodeOf, Resolve
  <2> QED
    BY <2>1, <2>2
<1>5. \A k \in Jobs : InstalledOK(k)' /\ OpenApartOK(k)'
  BY DEF InstalledOK, OpenApartOK, HoldsExe, HasExe, ExePath, File, InodeOf, Resolve
<1> QED
  BY <1>1, <1>2, <1>3, <1>4, <1>5

\* A step of the workflow to s without a new status, and with one.
LEMMA MoveShape ==
    ASSUME NativeInv, NEW j \in Jobs, NEW s \in Steps, Move(j, s)
    PROVE  /\ step' = [step EXCEPT ![j] = s] /\ status' = [status EXCEPT ![j] = status[j]]
           /\ step'[j] = s /\ status'[j] = status[j] /\ status[j] \in 0 .. 255
BY DEF Move, NativeInv, NativeTypeOK

\* The same with a new status.
LEMMA LeaveShape ==
    ASSUME NativeInv, NEW j \in Jobs, NEW s \in Steps, NEW code, Leave(j, s, code)
    PROVE  /\ step' = [step EXCEPT ![j] = s] /\ status' = [status EXCEPT ![j] = code]
           /\ step'[j] = s /\ status'[j] = code
BY DEF Leave, NativeInv, NativeTypeOK

\* What else such a step keeps.
LEMMA StillShape ==
    ASSUME NEW j \in Jobs, UNCHANGED <<link, entry, data, job>>
    PROVE  /\ job'[j] = job[j] /\ Tool(j)' = Tool(j) /\ ExePath(j)' = ExePath(j)
           /\ HasExe(j)' = HasExe(j) /\ job[j].inputs' = job[j].inputs
           /\ \A p : Aliased(ExePath(j), p)' = Aliased(ExePath(j), p)
BY DEF Tool, ExePath, File, HasExe, Aliased, SameFile, Exists, InodeOf, Resolve

\* The workflow takes over the result of the compiler.
LEMMA AfterCompileKeeps ==
    ASSUME NativeInv, NEW j \in Jobs, AfterCompile(j)
    PROVE  NativeInv'
<1>0. /\ step[j] = "compiling" /\ job[j].pc = "returned"
      /\ UNCHANGED <<link, entry, data, job, edits, struck, temp>>
      /\ struck \subseteq Jobs /\ temp \subseteq Jobs
  BY DEF AfterCompile, On, At, vars, NativeInv, NativeTypeOK, SharedInv, TypeOK
<1>1. ~HasExe(j) /\ Tool(j) \in Tools /\ job[j].exit \in Codes
  BY <1>0, ExePathTypes DEF NativeInv, ExeOK, Idle, SharedInv, TypeOK, JobStates
<1>2. CASE (Tool(j) \in {"a7", "check"} \/ job[j].exit # 0) /\ Leave(j, "ended", job[j].exit)
  <2>1. /\ step' = [step EXCEPT ![j] = "ended"] /\ status' = [status EXCEPT ![j] = job[j].exit]
        /\ step'[j] = "ended" /\ status'[j] = job[j].exit
        /\ job[j].exit \in 0 .. 255 /\ "ended" \in Steps
    BY <1>1, <1>2, LeaveShape DEF Steps, Codes
  <2>2. StepOK(j)' /\ ExeOK(j)' /\ DestinationOK(j)'
    BY <1>0, <1>1, <1>2, <2>1, StillShape DEF StepOK, ExeOK, DestinationOK, Working
  <2> QED
    BY <1>0, <2>1, <2>2, WorkflowKeeps
<1>3. CASE Tool(j) \notin {"a7", "check"} /\ job[j].exit = 0 /\ Move(j, "zig")
  <2>1. /\ step' = [step EXCEPT ![j] = "zig"] /\ status' = [status EXCEPT ![j] = status[j]]
        /\ step'[j] = "zig" /\ status[j] \in 0 .. 255 /\ "zig" \in Steps
    BY <1>3, MoveShape DEF Steps
  <2>2. StepOK(j)' /\ ExeOK(j)' /\ DestinationOK(j)'
    BY <1>0, <1>1, <1>3, <2>1, StillShape DEF StepOK, ExeOK, DestinationOK, Working, Tools
  <2> QED
    BY <1>0, <2>1, <2>2, WorkflowKeeps
<1> QED
  BY <1>2, <1>3 DEF AfterCompile

\* The files and the invocations are left alone.
Still == UNCHANGED <<link, entry, data, job, edits>> /\ struck' \subseteq Jobs

\* Steps of the workflow alone, and faults, leave files and invocations alone.
LEMMA StillSteps ==
    ASSUME NativeInv, UNCHANGED vars
    PROVE  Still
BY DEF NativeInv, SharedInv, TypeOK, vars, Still

\* So does a fault.
LEMMA StillStrikes ==
    ASSUME NativeInv, NEW j \in Jobs, Strike(j), UNCHANGED job
    PROVE  Still
BY DEF NativeInv, SharedInv, TypeOK, Strike, Still

\* The invariant after a step of the workflow, with the same status and with
\* another.
LEMMA MoveKeeps ==
    ASSUME NativeInv, NEW j \in Jobs, NEW s \in Steps, Move(j, s), Still, temp' \subseteq Jobs,
           StepOK(j)', ExeOK(j)', DestinationOK(j)'
    PROVE  NativeInv'
BY MoveShape, WorkflowKeeps DEF Still

\* The same with a new status.
LEMMA LeaveKeeps ==
    ASSUME NativeInv, NEW j \in Jobs, NEW s \in Steps, NEW code \in 0 .. 255,
           Leave(j, s, code), Still, temp' \subseteq Jobs,
           StepOK(j)', ExeOK(j)', DestinationOK(j)'
    PROVE  NativeInv'
BY LeaveShape, WorkflowKeeps DEF Still

\* find_zig.
LEMMA FindZigKeeps ==
    ASSUME NativeInv, NEW j \in Jobs, FindZig(j)
    PROVE  NativeInv'
<1>0. step[j] = "zig" /\ Still /\ temp' \subseteq Jobs
  BY StillSteps DEF FindZig, On, NativeInv, NativeTypeOK
<1>1. /\ ~HasExe(j) /\ job[j].pc = "returned" /\ job[j].exit = 0
      /\ Tool(j) \in {"build", "run"}
  BY <1>0 DEF NativeInv, StepOK, ExeOK, Working
<1>2. CASE Leave(j, "ended", 2)
  <2>1. step'[j] = "ended" /\ status'[j] = 2 /\ "ended" \in Steps
    BY <1>2, LeaveShape DEF Steps
  <2>2. StepOK(j)' /\ ExeOK(j)' /\ DestinationOK(j)'
    BY <1>0, <1>1, <2>1, StillShape DEF Still, StepOK, ExeOK, DestinationOK, Working
  <2> QED
    BY <1>0, <1>2, <2>1, <2>2, LeaveKeeps
<1>3. CASE Move(j, IF Tool(j) = "build" THEN "check" ELSE "temp")
  <2> PICK s : s = IF Tool(j) = "build" THEN "check" ELSE "temp"
    OBVIOUS
  <2>1. Move(j, s) /\ s \in Steps
    BY <1>3 DEF Steps
  <2>2. step'[j] = s
    BY <2>1, MoveShape
  <2>3. StepOK(j)' /\ ExeOK(j)' /\ DestinationOK(j)'
    BY <1>0, <1>1, <2>2, StillShape DEF Still, StepOK, ExeOK, DestinationOK, Working
  <2> QED
    BY <1>0, <2>1, <2>3, MoveKeeps
<1> QED
  BY <1>2, <1>3 DEF FindZig

\* native_output_conflict protects the inputs.
LEMMA CheckNativeKeeps ==
    ASSUME NativeInv, NEW j \in Jobs, CheckNative(j)
    PROVE  NativeInv'
<1>0. step[j] = "check" /\ Still /\ temp' \subseteq Jobs
  BY StillSteps DEF CheckNative, On, NativeInv, NativeTypeOK
<1>1. /\ ~HasExe(j) /\ job[j].pc = "returned" /\ job[j].exit = 0
      /\ Tool(j) = "build"
  BY <1>0 DEF NativeInv, StepOK, ExeOK, Working
<1>2. CASE Leave(j, "ended", 3)
  <2>1. step'[j] = "ended" /\ status'[j] = 3 /\ "ended" \in Steps
    BY <1>2, LeaveShape DEF Steps
  <2>2. StepOK(j)' /\ ExeOK(j)' /\ DestinationOK(j)'
    BY <1>0, <1>1, <2>1, StillShape DEF Still, StepOK, ExeOK, DestinationOK, Working
  <2> QED
    BY <1>0, <1>2, <2>1, <2>2, LeaveKeeps
<1>3. CASE /\ Move(j, "temp") /\ ExePath(j) \notin Sources
           /\ \A p \in job[j].inputs : ~Aliased(ExePath(j), p)
  <2>1. step'[j] = "temp" /\ "temp" \in Steps
    BY <1>3, MoveShape DEF Steps
  <2>2. StepOK(j)' /\ ExeOK(j)'
    BY <1>0, <1>1, <2>1, StillShape DEF Still, StepOK, ExeOK, Working
  <2>3. DestinationOK(j)'
    BY <1>0, <1>3, StillShape DEF Still, DestinationOK
  <2> QED
    BY <1>0, <1>3, <2>1, <2>2, <2>3, MoveKeeps
<1> QED
  BY <1>2, <1>3 DEF CheckNative

\* TemporaryDirectory.
LEMMA MakeTempKeeps ==
    ASSUME NativeInv, NEW j \in Jobs, MakeTemp(j)
    PROVE  NativeInv'
<1>0. step[j] = "temp" /\ Still /\ temp' \subseteq Jobs /\ Move(j, "build")
  BY StillSteps DEF MakeTemp, On, NativeInv, NativeTypeOK
<1>1. /\ StepOK(j) /\ ExeOK(j) /\ DestinationOK(j)
  BY DEF NativeInv
<1>2. step'[j] = "build" /\ "build" \in Steps
  BY <1>0, MoveShape DEF Steps
<1>3. StepOK(j)' /\ ExeOK(j)' /\ DestinationOK(j)'
  BY <1>0, <1>1, <1>2, StillShape DEF Still, StepOK, ExeOK, DestinationOK, Working
<1> QED
  BY <1>0, <1>2, <1>3, MoveKeeps

\* zig build-exe.
LEMMA ZigBuildKeeps ==
    ASSUME NativeInv, NEW j \in Jobs, ZigBuild(j)
    PROVE  NativeInv'
<1>0. step[j] = "build" /\ Still /\ temp' \subseteq Jobs
  BY StillSteps DEF ZigBuild, On, NativeInv, NativeTypeOK
<1>1. /\ StepOK(j) /\ ExeOK(j) /\ DestinationOK(j)
      /\ ~HasExe(j) /\ job[j].pc = "returned" /\ job[j].exit = 0
      /\ Tool(j) \in {"build", "run"}
  BY <1>0 DEF NativeInv, StepOK, ExeOK, Working
<1>2. CASE Leave(j, "cleanup", 7)
  <2>1. step'[j] = "cleanup" /\ status'[j] = 7 /\ "cleanup" \in Steps
    BY <1>2, LeaveShape DEF Steps
  <2>2. StepOK(j)' /\ ExeOK(j)' /\ DestinationOK(j)'
    BY <1>0, <1>1, <2>1, StillShape DEF Still, StepOK, ExeOK, DestinationOK, Working
  <2> QED
    BY <1>0, <1>2, <2>1, <2>2, LeaveKeeps
<1>3. CASE Move(j, IF Tool(j) = "build" THEN "install" ELSE "program")
  <2> PICK s : s = IF Tool(j) = "build" THEN "install" ELSE "program"
    OBVIOUS
  <2>1. Move(j, s) /\ s \in Steps
    BY <1>3 DEF Steps
  <2>2. step'[j] = s
    BY <2>1, MoveShape
  <2>3. StepOK(j)' /\ ExeOK(j)' /\ DestinationOK(j)'
    BY <1>0, <1>1, <2>2, StillShape DEF Still, StepOK, ExeOK, DestinationOK, Working
  <2> QED
    BY <1>0, <2>1, <2>3, MoveKeeps
<1> QED
  BY <1>2, <1>3 DEF ZigBuild

\* What a shell sees of the program's end is a status.
LEMMA ExitStatusTypes ==
    ASSUME NEW s \in ProgramStatus
    PROVE  ExitStatus(s) \in 0 .. 255
BY NativeAssumption DEF ExitStatus

\* The program ends, with whatever status.
LEMMA RunProgramKeeps ==
    ASSUME NativeInv, NEW j \in Jobs, RunProgram(j)
    PROVE  NativeInv'
<1>0. step[j] = "program" /\ Still /\ temp' \subseteq Jobs
  BY StillSteps DEF RunProgram, On, NativeInv, NativeTypeOK
<1>1. /\ StepOK(j) /\ ~HasExe(j) /\ job[j].pc = "returned" /\ job[j].exit = 0
      /\ Tool(j) = "run"
  BY <1>0 DEF NativeInv, StepOK, ExeOK, Working
<1>2. PICK s \in ProgramStatus : Leave(j, "cleanup", ExitStatus(s))
  BY DEF RunProgram
<1> PICK code : code = ExitStatus(s)
  OBVIOUS
<1>3. step'[j] = "cleanup" /\ "cleanup" \in Steps /\ code \in 0 .. 255 /\ Leave(j, "cleanup", code)
  BY <1>2, LeaveShape, ExitStatusTypes DEF Steps
<1>4. StepOK(j)' /\ ExeOK(j)' /\ DestinationOK(j)'
  BY <1>0, <1>1, <1>3, StillShape DEF Still, StepOK, ExeOK, DestinationOK, Working
<1> QED
  BY <1>0, <1>3, <1>4, LeaveKeeps

\* The removal of the temporary directory.
LEMMA CleanupKeeps ==
    ASSUME NativeInv, NEW j \in Jobs, Cleanup(j)
    PROVE  NativeInv'
<1>0. step[j] = "cleanup" /\ Still /\ temp' \subseteq Jobs /\ Move(j, "ended")
  BY StillSteps DEF Cleanup, On, NativeInv, NativeTypeOK
<1>1. /\ StepOK(j) /\ ExeOK(j)
  BY DEF NativeInv
<1>2. step'[j] = "ended" /\ status'[j] = status[j] /\ "ended" \in Steps
  BY <1>0, MoveShape DEF Steps
<1>3. StepOK(j)' /\ ExeOK(j)' /\ DestinationOK(j)'
  BY <1>0, <1>1, <1>2, StillShape DEF Still, StepOK, ExeOK, DestinationOK, Working
<1> QED
  BY <1>0, <1>2, <1>3, MoveKeeps

\* A system call of the workflow fails.
LEMMA NativeCallFailsKeeps ==
    ASSUME NativeInv, NEW j \in Jobs, NativeCallFails(j)
    PROVE  NativeInv'
<1>0. Still /\ temp' \subseteq Jobs
  BY StillStrikes DEF NativeCallFails, NativeInv, NativeTypeOK
<1>1. PICK s \in {"ended", "cleanup"} :
        /\ step[j] \in {"check", "temp", "build", "install", "program", "cleanup"}
        /\ Leave(j, s, 3)
  BY DEF NativeCallFails, On
<1>2. StepOK(j) /\ ExeOK(j)
  BY DEF NativeInv
<1>3. step'[j] = s /\ status'[j] = 3 /\ s \in Steps
  BY <1>1, LeaveShape DEF Steps
<1>4. StepOK(j)' /\ ExeOK(j)' /\ DestinationOK(j)'
  BY <1>0, <1>1, <1>2, <1>3, StillShape DEF Still, StepOK, ExeOK, DestinationOK, Working
<1> QED
  BY <1>0, <1>1, <1>3, <1>4, LeaveKeeps

\* A kill.
LEMMA NativeKillKeeps ==
    ASSUME NativeInv, NEW j \in Jobs, NativeKill(j)
    PROVE  NativeInv'
<1>0. Still /\ temp' \subseteq Jobs /\ Move(j, "killed") /\ step[j] # "compiling"
  BY StillStrikes DEF NativeKill, NativeInv, NativeTypeOK
<1>1. StepOK(j) /\ ExeOK(j)
  BY DEF NativeInv
<1>2. step'[j] = "killed" /\ "killed" \in Steps
  BY <1>0, MoveShape DEF Steps
<1>3. StepOK(j)' /\ ExeOK(j)' /\ DestinationOK(j)'
  BY <1>0, <1>1, <1>2, StillShape DEF Still, StepOK, ExeOK, DestinationOK, Working
<1> QED
  BY <1>0, <1>2, <1>3, MoveKeeps

\* A name becomes a plain file, new and complete; nothing else changes.
Installed(j, d, n) ==
  /\ n = <<j, "exe">> /\ n \in NewInodes \ DOMAIN data /\ n # Absent /\ n # Directory
  /\ link'  = [link EXCEPT ![d] = d]
  /\ entry' = [entry EXCEPT ![d] = n]
  /\ DOMAIN data' = DOMAIN data \cup {n}
  /\ data'[n] = [kind |-> "exe", by |-> j]
  /\ \A i \in DOMAIN data : data'[i] = data[i]

\* The installation of an executable (os.replace).
LEMMA InstallShape ==
    ASSUME NativeInv, NEW j \in Jobs, Install(j)
    PROVE  /\ ExePath(j) \in Paths /\ Installed(j, ExePath(j), <<j, "exe">>)
           /\ NamesStep /\ FileTypes'
<1> PICK d, n : d = ExePath(j) /\ n = <<j, "exe">>
  OBVIOUS
<1>0. step[j] = "install" /\ FileTypes
  BY DEF Install, On, NativeInv, SharedInv, TypeOK
<1>1. job[j].pc = "returned" /\ n \notin DOMAIN data
  BY <1>0 DEF NativeInv, StepOK, ExeOK, HasExe
<1>2. d \in Paths
  BY <1>1, ExePathTypes DEF Idle
<1>3. n \in NewInodes /\ n \in Inodes /\ n # Absent /\ n # Directory
  BY NewInodesApart DEF NewInodes, Inodes
<1>4. /\ link'  = [link EXCEPT ![d] = d]
      /\ entry' = [entry EXCEPT ![d] = n]
      /\ data'  = [i \in DOMAIN data \cup {n} |->
                     IF i = n THEN [kind |-> "exe", by |-> j] ELSE data[i]]
  BY DEF Install
<1>5. [kind |-> "exe", by |-> j] \in Contents
  BY DEF Contents, Written
<1>6. /\ DOMAIN data' = DOMAIN data \cup {n} /\ data'[n] = [kind |-> "exe", by |-> j]
      /\ \A i \in DOMAIN data : data'[i] = data[i]
  BY <1>1, <1>4
<1>7. FileTypes'
  <2>1. link' \in [Paths -> Paths] /\ entry' \in [Paths -> Inodes \cup {Absent, Directory}]
    BY <1>0, <1>2, <1>3, <1>4 DEF FileTypes
  <2>2. DOMAIN data' \subseteq Inodes
    BY <1>0, <1>3, <1>6 DEF FileTypes
  <2>3. data' \in [DOMAIN data' -> Contents]
    BY <1>0, <1>4, <1>5, <1>6 DEF FileTypes
  <2> QED
    BY <2>1, <2>2, <2>3 DEF FileTypes
<1>8. NamesStep
  BY <1>1, <1>2, <1>3, <1>4, <1>6 DEF NamesStep
<1>9. Installed(j, d, n)
  BY <1>1, <1>3, <1>4, <1>6 DEF Installed
<1> QED
  BY <1>2, <1>7, <1>8, <1>9

\* The sources survive the installation: no input is, or leads to, the name that
\* is replaced.
LEMMA InstallSpares ==
    ASSUME NativeInv, NEW j \in Jobs, Install(j)
    PROVE  SharedInv'
<1> PICK d, n : d = ExePath(j) /\ n = <<j, "exe">>
  OBVIOUS
<1>0. /\ step[j] = "install" /\ job' = job /\ edits' = edits /\ struck' = struck
      /\ SharedInv /\ TypeOK /\ FileTypes /\ NamesOK /\ JobOK(j) /\ job[j] \in JobStates
  BY DEF Install, On, NativeInv, SharedInv, TypeOK
<1>1. d \in Paths /\ Installed(j, d, n) /\ NamesStep /\ FileTypes'
  BY InstallShape
<1>2. Tool(j) = "build" /\ job[j].pc = "returned"
  BY <1>0 DEF NativeInv, StepOK
<1>3. d \notin Sources /\ \A p \in job[j].inputs : ~Aliased(d, p)
  BY <1>0, <1>2 DEF NativeInv, DestinationOK
<1>4. OnlyMoves(j)
  BY <1>0 DEF OnlyMoves, TypeOK
<1>5. ASSUME NEW k \in Jobs \ {j}
      PROVE  SparesData(k)
  BY <1>1, <1>5 DEF Installed, SparesData, ByJob
<1>6. JobOK(j)'
  <2>1. PlaceOK(j)'
    BY <1>0 DEF JobOK, PlaceOK
  <2>2. FreshOK(j)' /\ ApartOK(j)' /\ OpenOK(j)' /\ UntouchedOK(j)'
    BY <1>0, <1>2 DEF FreshOK, ApartOK, OpenOK, UntouchedOK, AfterOut, AfterDoc,
                      Guarded, Early, Idle
  <2>3. ASSUME NEW p \in job[j].inputs, IsFile(p)'
        PROVE  ~ByJob(data[InodeOf(p)], j)'
    <3>1. p \in Paths /\ p \in Sources
      BY <1>0, FileSystemAssumption DEF JobStates
    <3>2. link[p] # d /\ p # d
      <4>1. link[d] = d \/ link[p] # d
        BY <1>0, <3>1 DEF NamesOK
      <4> QED
        BY <1>3, <3>1, <4>1 DEF Aliased, Resolve
    <3>3. link'[p] = link[p] /\ entry'[link[p]] = entry[link[p]]
      BY <1>0, <1>1, <3>1, <3>2 DEF Installed, FileTypes
    <3>4. InodeOf(p)' = InodeOf(p) /\ IsFile(p)
      BY <2>3, <3>3 DEF InodeOf, IsFile, Resolve
    <3>5. InodeOf(p) \in DOMAIN data /\ ~ByJob(data[InodeOf(p)], j)
      BY <1>0, <3>1, <3>4, InodeTypes DEF JobOK, InputsOK
    <3> QED
      BY <1>1, <3>4, <3>5 DEF Installed, ByJob
  <2>4. InputsOK(j)'
    BY <1>0, <2>3 DEF InputsOK
  <2> QED
    BY <2>1, <2>2, <2>4 DEF JobOK
<1> QED
  BY <1>0, <1>1, <1>4, <1>5, <1>6, MoverKeeps DEF TypeOK

\* The destination now holds the executable; the others hold what they held.
LEMMA InstallHolds ==
    ASSUME NativeInv, NEW j \in Jobs, Install(j), NEW k \in Jobs
    PROVE  InstalledOK(k)'
<1> PICK d, n : d = ExePath(j) /\ n = <<j, "exe">>
  OBVIOUS
<1> PICK e : e = ExePath(k)
  OBVIOUS
<1>0. job' = job /\ ExePath(k)' = e
  BY DEF Install, ExePath, File
<1>1. d \in Paths /\ Installed(j, d, n) /\ NamesOK /\ FileTypes
  BY InstallShape DEF NativeInv, SharedInv, TypeOK
<1>2. SUFFICES ASSUME HasExe(k)', e \in Executables
               PROVE  HoldsExe(e)'
  BY <1>0 DEF InstalledOK, HoldsExe
<1>3. e \in Paths
  BY <1>2, NativeAssumption
<1>4. CASE e = d
  <2>1. link'[e] = e /\ entry'[e] = n
    BY <1>1, <1>4 DEF Installed, FileTypes
  <2> QED
    BY <1>1, <2>1 DEF Installed, HoldsExe, Written
<1>5. CASE e # d
  <2>1. k # j
    BY <1>5
  <2>2. HasExe(k)
    BY <1>1, <1>2, <2>1 DEF HasExe, Installed
  <2>3. HoldsExe(e)
    BY <1>2, <2>2 DEF NativeInv, InstalledOK
  <2>4. link'[e] = link[e] /\ entry'[e] = entry[e]
    BY <1>1, <1>3, <1>5 DEF Installed, FileTypes
  <2> QED
    BY <1>1, <2>3, <2>4 DEF Installed, HoldsExe
<1> QED
  BY <1>4, <1>5

\* The installation keeps the invariant.
LEMMA InstallKeeps ==
    ASSUME NativeInv, NEW j \in Jobs, Install(j)
    PROVE  NativeInv'
<1>0. /\ step[j] = "install" /\ job' = job /\ temp' = temp /\ Leave(j, "cleanup", 0)
      /\ NativeTypeOK
  BY DEF Install, On, NativeInv
<1>1. NamesStep /\ Installed(j, ExePath(j), <<j, "exe">>)
  BY InstallShape
<1>2. SharedInv' /\ ExecutablesApart'
  BY <1>1, InstallSpares, ExecutablesStayApart
<1>3. /\ step' = [step EXCEPT ![j] = "cleanup"] /\ status' = [status EXCEPT ![j] = 0]
      /\ "cleanup" \in Steps
  BY <1>0, LeaveShape DEF Steps
<1>4. NativeTypeOK'
  BY <1>0, <1>3 DEF NativeTypeOK
<1>5. ASSUME NEW k \in Jobs
      PROVE  StepOK(k)' /\ ExeOK(k)' /\ DestinationOK(k)'
  <2>0. StepOK(k) /\ ExeOK(k) /\ DestinationOK(k) /\ Tool(k)' = Tool(k)
    BY <1>0 DEF NativeInv, Tool
  <2>1. CASE k = j
    <3>1. step'[k] = "cleanup" /\ status'[k] = 0 /\ HasExe(k)'
      BY <1>0, <1>1, <1>3, <2>1 DEF NativeTypeOK, Installed, HasExe
    <3>2. Tool(k) = "build" /\ job[k].pc = "returned" /\ job[k].exit = 0
      BY <1>0, <2>0, <2>1 DEF StepOK, Working
    <3> QED
      BY <1>0, <2>0, <3>1, <3>2 DEF StepOK, ExeOK, DestinationOK
  <2>2. CASE k # j
    <3>1. step'[k] = step[k] /\ status'[k] = status[k]
      BY <1>0, <1>3, <2>2 DEF NativeTypeOK
    <3>2. HasExe(k)' <=> HasExe(k)
      BY <1>1, <2>2 DEF Installed, HasExe
    <3>3. StepOK(k)' /\ ExeOK(k)'
      BY <1>0, <2>0, <3>1, <3>2 DEF StepOK, ExeOK
    <3>4. DestinationOK(k)'
      <4> PICK e : e = ExePath(k)
        OBVIOUS
      <4>0. ExePath(k)' = e
        BY <1>0 DEF ExePath, File
      <4>1. SUFFICES ASSUME Tool(k) = "build", step[k] \in {"temp", "build", "install"}
                     PROVE  /\ e \notin Sources
                            /\ \A p \in job[k].inputs : ~Aliased(e, p)'
        BY <1>0, <2>0, <3>1, <4>0 DEF DestinationOK, Aliased, SameFile, Exists, InodeOf, Resolve
      <4>2. e \notin Sources /\ \A p \in job[k].inputs : ~Aliased(e, p)
        BY <2>0, <4>1 DEF DestinationOK
      <4>3. job[k].pc # Idle
        BY <2>0, <4>1 DEF StepOK, Idle
      <4>4. e \in Paths /\ job[k].inputs \subseteq Paths
        BY <4>3, ExePathTypes, FileSystemAssumption
           DEF NativeInv, SharedInv, TypeOK, JobStates
      <4> QED
        BY <1>1, <4>2, <4>4, ApartStays DEF NativeInv, SharedInv, TypeOK
    <3> QED
      BY <3>3, <3>4
  <2> QED
    BY <2>1, <2>2
<1>6. \A k \in Jobs : InstalledOK(k)' /\ OpenApartOK(k)'
  BY <1>0, <1>1, InstallHolds, OpenStaysApart
<1> QED
  BY <1>2, <1>4, <1>5, <1>6 DEF NativeInv

(***************************************************************************)
(* The invariant holds                                                     *)
(***************************************************************************)
LEMMA NativeInitKeeps == NativeInit => NativeInv
<1> SUFFICES ASSUME NativeInit
             PROVE  NativeInv
  OBVIOUS
<1>1. SharedInv
  BY SharedInit DEF NativeInit
<1>2. NativeTypeOK
  BY DEF NativeInit, NativeTypeOK, Steps
<1>3. ExecutablesApart
  <2>1. \A p, q : Aliased(p, q) => InitiallyAliased(p, q)
    BY DEF NativeInit, Init, Aliased, InitiallyAliased, SameFile, Exists, InodeOf, Resolve
  <2> QED
    BY <2>1, NativeAssumption DEF ExecutablesApart
<1>4. ASSUME NEW j \in Jobs
      PROVE  StepOK(j) /\ ExeOK(j) /\ DestinationOK(j) /\ InstalledOK(j) /\ OpenApartOK(j)
  <2>1. step[j] = "compiling" /\ job[j].pc = Idle
    BY DEF NativeInit, Init, NewJob
  <2>2. DOMAIN data = DiskInodes
    BY TextAssumption DEF NativeInit, Init
  <2>3. ~HasExe(j)
    BY <2>2, NewInodesApart DEF HasExe, NewInodes
  <2> QED
    BY <2>1, <2>3 DEF StepOK, ExeOK, DestinationOK, InstalledOK, OpenApartOK, Working, Idle
<1> QED
  BY <1>1, <1>2, <1>3, <1>4 DEF NativeInv

\* The invariant survives every step, of the compiler or of the workflow.
LEMMA NativeNextKeeps == NativeInv /\ [NativeNext]_nvars => NativeInv'
<1> SUFFICES ASSUME NativeInv, [NativeNext]_nvars
             PROVE  NativeInv'
  OBVIOUS
<1>2. ASSUME NEW j \in Jobs, NativeProceed(j)
      PROVE  NativeInv'
  <2>1. CASE Compiling(Proceed(j))
    <3>1. Next
      BY <2>1 DEF Compiling, Next
    <3> QED
      BY <2>1, <3>1, CompilingKeeps DEF Compiling
  <2> QED
    BY <1>2, <2>1, AfterCompileKeeps, FindZigKeeps, CheckNativeKeeps, MakeTempKeeps,
       ZigBuildKeeps, InstallKeeps, CleanupKeeps DEF NativeProceed
<1>3. ASSUME NEW j \in Jobs,
             (\E c \in Commands : Compiling(Start(j, c))) \/ Compiling(Fault(j))
      PROVE  NativeInv'
  <2>1. Next /\ UNCHANGED <<step, status, temp>>
    BY <1>3 DEF Compiling, Next
  <2> QED
    BY <2>1, CompilingKeeps
<1>4. CASE Compiling(Edit)
  <2>1. Next /\ UNCHANGED <<step, status, temp>>
    BY <1>4 DEF Compiling, Next
  <2> QED
    BY <2>1, CompilingKeeps
<1>5. CASE UNCHANGED nvars
  BY <1>5, CompilingKeeps DEF nvars
<1> QED
  BY <1>2, <1>3, <1>4, <1>5, RunProgramKeeps, NativeCallFailsKeeps, NativeKillKeeps DEF NativeNext

\* So it always holds.
LEMMA NativeInvHolds == NativeSpec => []NativeInv
<1> QED
  BY NativeInitKeeps, NativeNextKeeps, PTL DEF NativeSpec

(***************************************************************************)
(* The theorems                                                            *)
(***************************************************************************)
\* native_output_conflict protects what it says: whatever happens between the
\* check and the installation, no source of a program ever holds anything its own
\* build, run or check has written, under any name that leads to it.
THEOREM SourcesStayIntact == NativeSpec => []SourcesIntact
<1>1. NativeInv => SourcesIntact
  BY DEF NativeInv, SharedInv, JobOK, InputsOK, SourcesIntact
<1> QED
  BY <1>1, NativeInvHolds, PTL

\* The status of the process tells what has happened to the destination: a stage
\* that failed has installed nothing, and after success the destination is a
\* complete executable.
THEOREM StatusesAreHonest == NativeSpec => []StatusHonest
<1>1. ASSUME NativeInv
      PROVE  StatusHonest
  <2>1. SUFFICES ASSUME NEW j \in Jobs
                 PROVE  /\ status[j] \in 0 .. 255
                        /\ step[j] = "ended" /\ Tool(j) = "build" =>
                             /\ status[j] \in {2, 4, 5, 6, 7} => ~HasExe(j)
                             /\ status[j] = 0 /\ ExePath(j) \in Executables =>
                                  HoldsExe(ExePath(j))
    BY DEF StatusHonest, On, HasExe, HoldsExe
  <2>2. status[j] \in 0 .. 255
    BY <1>1 DEF NativeInv, NativeTypeOK
  <2>3. ExeOK(j) /\ InstalledOK(j)
    BY <1>1 DEF NativeInv
  <2> QED
    BY <2>2, <2>3 DEF ExeOK, InstalledOK
<1> QED
  BY <1>1, NativeInvHolds, PTL

(***************************************************************************)
(* The refinement of AtomicInstall                                         *)
(***************************************************************************)
holderBar == [d \in Executables |-> ExeHolder(d)]
phaseBar  == [j \in Jobs |-> BuildPhase(j)]

\* What the builds promise, step by step.
PromiseStep ==
  \/ UNCHANGED <<holderBar, phaseBar>>
  \/ \E j \in Jobs :
       \/ /\ phaseBar[j] = "working" /\ phaseBar' = [phaseBar EXCEPT ![j] = "installed"]
          /\ \/ \E d \in Executables : holderBar' = [holderBar EXCEPT ![d] = j]
             \/ UNCHANGED holderBar
       \/ /\ UNCHANGED holderBar
          /\ \/ phaseBar[j] = "installed" /\ phaseBar' = [phaseBar EXCEPT ![j] = "succeeded"]
             \/ phaseBar[j] = "working" /\ phaseBar' = [phaseBar EXCEPT ![j] = "declined"]
             \/ /\ phaseBar[j] \in {"working", "installed"}
                /\ phaseBar' = [phaseBar EXCEPT ![j] = "failed"]

\* The steps above are those of AtomicInstall.
LEMMA PromiseStepIsNext ==
    ASSUME PromiseStep
    PROVE  [Promise!Next]_<<holderBar, phaseBar>>
BY DEF PromiseStep, Promise!Next, Promise!Install, Promise!InstallElsewhere,
       Promise!Succeed, Promise!Decline, Promise!Fail, holderBar, phaseBar

\* One phase changes, or none.
LEMMA PhaseMoves ==
    ASSUME NEW j \in Jobs, NEW v, BuildPhase(j)' = v,
           \A k \in Jobs \ {j} : BuildPhase(k)' = BuildPhase(k)
    PROVE  /\ phaseBar[j] = BuildPhase(j)
           /\ phaseBar' = [phaseBar EXCEPT ![j] = v]
           /\ v = BuildPhase(j) => phaseBar' = phaseBar
BY DEF phaseBar

\* An executable that is spared keeps its holder.
LEMMA HolderStays ==
    ASSUME NativeInv, SparesExecutables
    PROVE  holderBar' = holderBar
<1>1. NamesOK /\ Executables \subseteq Paths
  BY NativeAssumption DEF NativeInv, SharedInv
<1>2. ASSUME NEW d \in Executables
      PROVE  ExeHolder(d)' = ExeHolder(d)
  <2>1. CASE link[d] # d
    BY <2>1 DEF SparesExecutables, ExeHolder
  <2>2. CASE link[d] = d /\ ~IsFile(d)
    BY <2>2 DEF SparesExecutables, ExeHolder, IsFile, InodeOf, Resolve
  <2>3. CASE link[d] = d /\ IsFile(d)
    <3>1. entry[d] \in DOMAIN data
      BY <1>1, <2>3 DEF NamesOK, IsFile, InodeOf, Resolve
    <3> QED
      BY <2>3, <3>1 DEF SparesExecutables, ExeHolder, IsFile, InodeOf, Resolve
  <2> QED
    BY <2>1, <2>2, <2>3
<1> QED
  BY <1>2 DEF holderBar

\* An invocation that was killed rests.
LEMMA KilledRests ==
    ASSUME SharedInv, [Next]_vars, NEW k \in Jobs, job[k].pc = "killed"
    PROVE  job'[k] = job[k]
<1>1. ASSUME NEW j \in Jobs, (\E c \in Commands : Start(j, c)) \/ Proceed(j) \/ Fault(j)
      PROVE  job'[k] = job[k]
  <2>1. j # k
    BY <1>1 DEF Start, Proceed, Fault, CallFails, Bug, Kill, ReadEntry, Frontend,
                LoadImports, Analyze, CheckPaths, Generate, Emit, OpenOutput, OpenDoc,
                WriteOutput, WriteDoc, At, Idle, Busy
  <2> QED
    BY <1>1, <2>1, StepMoves DEF OnlyMoves, Advances
<1>2. CASE Edit \/ UNCHANGED vars
  BY <1>2 DEF Edit, vars
<1> QED
  BY <1>1, <1>2 DEF Next

\* At most one invocation moves.
LEMMA OneMoves ==
    ASSUME SharedInv, [Next]_vars
    PROVE  \/ job' = job
           \/ \E j \in Jobs : \A k \in Jobs \ {j} : job'[k] = job[k]
<1>1. ASSUME NEW j \in Jobs, (\E c \in Commands : Start(j, c)) \/ Proceed(j) \/ Fault(j)
      PROVE  \A k \in Jobs \ {j} : job'[k] = job[k]
  BY <1>1, StepMoves DEF OnlyMoves, Advances
<1>2. CASE Edit \/ UNCHANGED vars
  BY <1>2 DEF Edit, vars
<1> QED
  BY <1>1, <1>2 DEF Next

\* A step of the compiler is one that nobody sees, or a kill.
LEMMA CompilingPromises ==
    ASSUME NativeInv, [Next]_vars, UNCHANGED <<step, status, temp>>
    PROVE  PromiseStep
<1>0. SharedInv /\ SparesExecutables /\ holderBar' = holderBar
  BY CompilerSparesExecutables, HolderStays DEF NativeInv
<1>1. ASSUME NEW k \in Jobs, (job'[k].pc = "killed") <=> (job[k].pc = "killed")
      PROVE  BuildPhase(k)' = BuildPhase(k)
  <2>1. HasExe(k)' <=> HasExe(k)
    BY <1>0 DEF SparesExecutables
  <2> QED
    BY <1>1, <2>1 DEF BuildPhase, HasExe, At, On
<1>2. CASE \A k \in Jobs : (job'[k].pc = "killed") <=> (job[k].pc = "killed")
  BY <1>0, <1>1, <1>2 DEF PromiseStep, phaseBar
<1>3. ASSUME NEW j \in Jobs, ~((job'[j].pc = "killed") <=> (job[j].pc = "killed"))
      PROVE  PromiseStep
  <2>1. job'[j].pc = "killed" /\ job[j].pc # "killed" /\ job[j].pc # "returned"
    BY <1>0, <1>3, KilledRests, ReturnedRests
  <2>2. step[j] = "compiling" /\ ~HasExe(j)
    BY <2>1 DEF NativeInv, StepOK, ExeOK
  <2>3. BuildPhase(j) = "working"
    BY <2>1, <2>2 DEF BuildPhase, HasExe, At, On
  <2>4. BuildPhase(j)' = "failed"
    <3>1. ~HasExe(j)'
      BY <1>0, <2>2 DEF SparesExecutables
    <3> QED
      BY <2>1, <3>1 DEF BuildPhase, HasExe, At, On
  <2>5. ASSUME NEW k \in Jobs \ {j}
        PROVE  BuildPhase(k)' = BuildPhase(k)
    BY <1>0, <1>1, <1>3, OneMoves
  <2>6. phaseBar[j] = "working" /\ phaseBar' = [phaseBar EXCEPT ![j] = "failed"]
    BY <2>3, <2>4, <2>5, PhaseMoves
  <2> QED
    BY <1>0, <2>6 DEF PromiseStep
<1> QED
  BY <1>2, <1>3

\* A step of the workflow that leaves files alone changes its own phase only.
LEMMA WorkflowPhase ==
    ASSUME NativeInv, NEW j \in Jobs, Still, NEW s \in Steps, NEW v,
           step' = [step EXCEPT ![j] = s], status' = [status EXCEPT ![j] = v]
    PROVE  /\ UNCHANGED holderBar
           /\ phaseBar[j] = BuildPhase(j)
           /\ phaseBar' = [phaseBar EXCEPT ![j] = BuildPhase(j)']
           /\ BuildPhase(j)' = BuildPhase(j) => UNCHANGED phaseBar
           /\ HasExe(j)' = HasExe(j) /\ job'[j] = job[j]
           /\ step'[j] = s /\ status'[j] = v
<1>1. step'[j] = s /\ status'[j] = v
  BY DEF NativeInv, NativeTypeOK
<1>2. UNCHANGED holderBar
  BY DEF Still, holderBar, ExeHolder, IsFile, InodeOf, Resolve
<1>3. ASSUME NEW k \in Jobs \ {j}
      PROVE  BuildPhase(k)' = BuildPhase(k)
  <2>1. step'[k] = step[k] /\ status'[k] = status[k]
    BY DEF NativeInv, NativeTypeOK
  <2> QED
    BY <2>1 DEF Still, BuildPhase, At, On
<1>4. HasExe(j)' = HasExe(j) /\ job'[j] = job[j]
  BY DEF Still, HasExe
<1> PICK w : w = BuildPhase(j)'
  OBVIOUS
<1>5. /\ phaseBar[j] = BuildPhase(j) /\ phaseBar' = [phaseBar EXCEPT ![j] = w]
      /\ w = BuildPhase(j) => phaseBar' = phaseBar
  BY <1>3, PhaseMoves
<1> QED
  BY <1>1, <1>2, <1>4, <1>5

\* The kinds of such steps.
LEMMA WorkflowPromises ==
    ASSUME NativeInv, NEW j \in Jobs, Still, NEW s \in Steps, NEW v,
           step' = [step EXCEPT ![j] = s], status' = [status EXCEPT ![j] = v],
           step[j] \notin {"ended", "killed"}, job[j].pc = "returned"
    PROVE  PromiseStep
<1> PICK w : w = BuildPhase(j)'
  OBVIOUS
<1>1. /\ UNCHANGED holderBar
      /\ phaseBar[j] = BuildPhase(j)
      /\ phaseBar' = [phaseBar EXCEPT ![j] = w]
      /\ w = BuildPhase(j) => UNCHANGED phaseBar
      /\ HasExe(j)' = HasExe(j) /\ job'[j] = job[j]
      /\ step'[j] = s /\ status'[j] = v
  BY WorkflowPhase
<1>2. BuildPhase(j) = IF HasExe(j) THEN "installed" ELSE "working"
  BY DEF BuildPhase, HasExe, At, On
<1>3. w = IF HasExe(j)
          THEN IF s = "ended" /\ v = 0 THEN "succeeded"
               ELSE IF s \in {"ended", "killed"} THEN "failed" ELSE "installed"
          ELSE IF s = "killed" THEN "failed"
               ELSE IF s = "ended" THEN "declined" ELSE "working"
  BY <1>1 DEF BuildPhase, HasExe, At, On
<1>4. CASE w = BuildPhase(j)
  BY <1>1, <1>4 DEF PromiseStep
<1>5. CASE w # BuildPhase(j)
  <2>1. \/ phaseBar[j] = "installed" /\ w = "succeeded"
        \/ phaseBar[j] = "working" /\ w = "declined"
        \/ phaseBar[j] \in {"working", "installed"} /\ w = "failed"
    BY <1>1, <1>2, <1>3, <1>5
  <2> QED
    BY <1>1, <2>1 DEF PromiseStep
<1> QED
  BY <1>4, <1>5

\* The installation replaces the holder in the step that ends the work.
LEMMA InstallPromises ==
    ASSUME NativeInv, NEW j \in Jobs, Install(j)
    PROVE  PromiseStep
<1> PICK d, n : d = ExePath(j) /\ n = <<j, "exe">>
  OBVIOUS
<1>0. /\ step[j] = "install" /\ job' = job /\ Leave(j, "cleanup", 0) /\ "cleanup" \in Steps
      /\ NativeTypeOK /\ FileTypes /\ NamesOK /\ Executables \subseteq Paths
  BY NativeAssumption DEF Install, On, Steps, NativeInv, SharedInv, TypeOK
<1>1. d \in Paths /\ Installed(j, d, n)
  BY InstallShape
<1>2. /\ step' = [step EXCEPT ![j] = "cleanup"] /\ status' = [status EXCEPT ![j] = 0]
      /\ step'[j] = "cleanup"
  BY <1>0, LeaveShape
<1>3. job[j].pc = "returned" /\ ~HasExe(j)
  BY <1>0 DEF NativeInv, StepOK, ExeOK
<1>4. HasExe(j)' /\ \A k \in Jobs \ {j} : HasExe(k)' <=> HasExe(k)
  BY <1>1 DEF Installed, HasExe
<1>5. BuildPhase(j) = "working"
  BY <1>0, <1>3 DEF BuildPhase, HasExe, At, On
<1>6. BuildPhase(j)' = "installed"
  BY <1>2, <1>4 DEF BuildPhase, HasExe, On
<1>7. ASSUME NEW k \in Jobs \ {j}
      PROVE  BuildPhase(k)' = BuildPhase(k)
  <2>1. step'[k] = step[k] /\ status'[k] = status[k] /\ job'[k] = job[k]
    BY <1>0, <1>2 DEF NativeTypeOK
  <2> QED
    BY <1>4, <2>1 DEF BuildPhase, HasExe, At, On
<1>8. phaseBar[j] = "working" /\ phaseBar' = [phaseBar EXCEPT ![j] = "installed"]
  BY <1>5, <1>6, <1>7, PhaseMoves
<1>9. ASSUME NEW e \in Executables \ {d}
      PROVE  ExeHolder(e)' = ExeHolder(e)
  <2>1. link'[e] = link[e] /\ entry'[e] = entry[e]
    BY <1>0, <1>1 DEF Installed, FileTypes
  <2>2. entry[e] \in DOMAIN data \cup {Absent, Directory}
    BY <1>0 DEF NamesOK
  <2>3. CASE link[e] # e
    BY <2>1, <2>3 DEF ExeHolder
  <2>4. CASE link[e] = e
    BY <1>1, <2>1, <2>2, <2>4 DEF ExeHolder, Installed, IsFile, InodeOf, Resolve
  <2> QED
    BY <2>3, <2>4
<1>10. CASE d \in Executables
  <2>1. ExeHolder(d)' = j
    <3>1. link'[d] = d /\ entry'[d] = n
      BY <1>0, <1>1 DEF Installed, FileTypes
    <3>2. IsFile(d)' /\ InodeOf(d)' = n
      BY <1>1, <3>1 DEF Installed, IsFile, InodeOf, Resolve
    <3>3. data'[n] = [kind |-> "exe", by |-> j]
      BY <1>1 DEF Installed
    <3> QED
      BY <3>1, <3>2, <3>3 DEF ExeHolder, Written
  <2>2. holderBar' = [holderBar EXCEPT ![d] = j]
    BY <1>9, <2>1 DEF holderBar
  <2> QED
    BY <1>8, <1>10, <2>2 DEF PromiseStep
<1>11. CASE d \notin Executables
  <2>1. UNCHANGED holderBar
    BY <1>9, <1>11 DEF holderBar
  <2> QED
    BY <1>8, <2>1 DEF PromiseStep
<1> QED
  BY <1>10, <1>11

\* Every step keeps the promise.
LEMMA NativeNextPromises ==
    ASSUME NativeInv, [NativeNext]_nvars
    PROVE  PromiseStep
<1>1. ASSUME NEW j \in Jobs, NEW s \in Steps, Move(j, s), Still,
             job[j].pc = "returned", step[j] \notin {"ended", "killed"}
      PROVE  PromiseStep
  BY <1>1, MoveShape, WorkflowPromises
<1>2. ASSUME NEW j \in Jobs, NEW s \in Steps, NEW code, Leave(j, s, code), Still,
             job[j].pc = "returned", step[j] \notin {"ended", "killed"}
      PROVE  PromiseStep
  BY <1>2, LeaveShape, WorkflowPromises
<1>3. ASSUME NEW j \in Jobs, AfterCompile(j)
      PROVE  PromiseStep
  <2>1. Still /\ job[j].pc = "returned" /\ step[j] \notin {"ended", "killed"}
    BY <1>3, StillSteps DEF AfterCompile, At, On
  <2>2. \/ Leave(j, "ended", job[j].exit)
        \/ Move(j, "zig")
    BY <1>3 DEF AfterCompile
  <2> QED
    BY <1>1, <1>2, <2>1, <2>2 DEF Steps
<1>4. ASSUME NEW j \in Jobs,
             FindZig(j) \/ CheckNative(j) \/ MakeTemp(j) \/ ZigBuild(j) \/ Cleanup(j)
             \/ RunProgram(j)
      PROVE  PromiseStep
  <2>1. Still /\ step[j] \notin {"compiling", "ended", "killed"}
    BY <1>4, StillSteps
       DEF FindZig, CheckNative, MakeTemp, ZigBuild, Cleanup, RunProgram, On
  <2>2. job[j].pc = "returned"
    BY <2>1 DEF NativeInv, StepOK
  <2>3. \/ \E s \in Steps : Move(j, s)
        \/ \E s \in Steps : \E code : Leave(j, s, code)
    BY <1>4 DEF FindZig, CheckNative, MakeTemp, ZigBuild, Cleanup, RunProgram, Steps
  <2> QED
    BY <1>1, <1>2, <2>1, <2>2, <2>3
<1>5. ASSUME NEW j \in Jobs, NativeCallFails(j) \/ NativeKill(j)
      PROVE  PromiseStep
  <2>1. Still /\ step[j] \notin {"compiling", "ended", "killed"}
    BY <1>5, StillStrikes DEF NativeCallFails, NativeKill, On
  <2>2. job[j].pc = "returned"
    BY <2>1 DEF NativeInv, StepOK
  <2>3. \/ \E s \in Steps : Move(j, s)
        \/ \E s \in Steps : \E code : Leave(j, s, code)
    BY <1>5 DEF NativeCallFails, NativeKill, Steps
  <2> QED
    BY <1>1, <1>2, <2>1, <2>2, <2>3
<1>6. CASE [Next]_vars /\ UNCHANGED <<step, status, temp>>
  BY <1>6, CompilingPromises
<1>7. ASSUME NEW j \in Jobs,
             \/ \E c \in Commands : Compiling(Start(j, c))
             \/ Compiling(Proceed(j)) \/ Compiling(Fault(j))
      PROVE  PromiseStep
  <2>1. Next /\ UNCHANGED <<step, status, temp>>
    BY <1>7 DEF Compiling, Next
  <2> QED
    BY <1>6, <2>1
<1>8. CASE Compiling(Edit) \/ UNCHANGED nvars
  <2>1. [Next]_vars /\ UNCHANGED <<step, status, temp>>
    BY <1>8 DEF Compiling, Next, nvars
  <2> QED
    BY <1>6, <2>1
<1> QED
  BY <1>3, <1>4, <1>5, <1>7, <1>8, InstallPromises DEF NativeNext, NativeProceed

\* At first no destination holds an executable of a build.
LEMMA NativeInitPromises == NativeInit => Promise!Init
<1> SUFFICES ASSUME NativeInit
             PROVE  Promise!Init
  OBVIOUS
<1>1. link = InitialLink /\ entry = InitialEntry /\ data = InitialData
  BY DEF NativeInit, Init
<1>2. ASSUME NEW d \in Executables
      PROVE  ExeHolder(d) = Nobody
  <2>1. SUFFICES ASSUME IsFile(d)
                 PROVE  data[InodeOf(d)] \notin Written
    BY DEF ExeHolder
  <2>2. InodeOf(d) \in DiskInodes
    BY <1>1, <2>1, FileSystemAssumption, NativeAssumption DEF IsFile, InodeOf, Resolve
  <2> QED
    BY <1>1, <2>2, TextAssumption, FreshAssumption
<1>3. ASSUME NEW j \in Jobs
      PROVE  BuildPhase(j) = "working"
  <2>1. step[j] = "compiling" /\ job[j].pc = Idle
    BY DEF NativeInit, Init, NewJob
  <2>2. <<j, "exe">> \notin DOMAIN data
    BY <1>1, TextAssumption, NewInodesApart DEF NewInodes
  <2> QED
    BY <2>1, <2>2 DEF BuildPhase, At, On, Idle
<1> QED
  BY <1>2, <1>3 DEF Promise!Init

\* "a7 build" keeps its promise: the destination holds what was there before or a
\* complete executable, one replaces the other in one step, success reports that
\* step and a refusal excludes it.
THEOREM BuildsInstallAtomically == NativeSpec => AtomicInstallation
<1>1. NativeInit => Promise!Init
  BY NativeInitPromises
<1>2. NativeInv /\ [NativeNext]_nvars =>
        [Promise!Next]_<<[d \in Executables |-> ExeHolder(d)],
                         [j \in Jobs |-> BuildPhase(j)]>>
  BY NativeNextPromises, PromiseStepIsNext DEF holderBar, phaseBar
<1> QED
  BY <1>1, <1>2, NativeInvHolds, PTL DEF NativeSpec, AtomicInstallation, Promise!Spec
=============================================================================
