---------------------------- MODULE CompileProofs ----------------------------
(* Proofs about the compiler's invocations, for every file system, every set *)
(* of command lines, every text, and any number of invocations, edits and    *)
(* faults.                                                                   *)
EXTENDS Compile, TLAPS

(***************************************************************************)
(* Types                                                                   *)
(***************************************************************************)
Inodes == DiskInodes \cup NewInodes
Stages == Busy \cup {Idle, "returned", "killed"}
Codes  == {0, 2, 3, 4, 5, 6, 7, 8}

JobStates == [pc : Stages, cmd : Commands \cup {NoCommand},
              read : SUBSET Contents, inputs : SUBSET Sources,
              open : Inodes \cup {Absent}, done : SUBSET Roles,
              exit : Codes, listed : SUBSET Roles, since : Nat]

FileTypes ==
  /\ link \in [Paths -> Paths]
  /\ entry \in [Paths -> Inodes \cup {Absent, Directory}]
  /\ DOMAIN data \subseteq Inodes
  /\ data \in [DOMAIN data -> Contents]

TypeOK ==
  /\ FileTypes
  /\ job \in [Jobs -> JobStates]
  /\ edits \in Nat
  /\ struck \subseteq Jobs

\* A link leads to a name that leads nowhere else, and an entry is of a file
\* that exists.
NamesOK ==
  \A p \in Paths :
    /\ link[link[p]] = link[p]
    /\ entry[p] \in DOMAIN data \cup {Absent, Directory}

(***************************************************************************)
(* The file system                                                         *)
(***************************************************************************)
\* What a step may do to names: nothing, or give one name a new file.
NamesStep ==
  \/ link' = link /\ entry' = entry /\ DOMAIN data' = DOMAIN data
  \/ \E y \in Paths : \E n \in NewInodes \ DOMAIN data :
       /\ link'  = [link EXCEPT ![y] = y]
       /\ entry' = [entry EXCEPT ![y] = n]
       /\ DOMAIN data' = DOMAIN data \cup {n}

\* A file and the inode behind a name.
LEMMA InodeTypes ==
    ASSUME FileTypes, NEW p \in Paths
    PROVE  /\ Resolve(p) \in Paths
           /\ InodeOf(p) \in Inodes \cup {Absent, Directory}
           /\ NamesOK => InodeOf(p) \in DOMAIN data \cup {Absent, Directory}
           /\ NamesOK /\ IsFile(p) => InodeOf(p) \in DOMAIN data
           /\ NamesOK /\ IsFile(p) => data[InodeOf(p)] \in Contents
BY DEF FileTypes, NamesOK, Resolve, InodeOf, IsFile

\* New inodes are none of the marks in a directory, and none of the disk's.
LEMMA NewInodesApart ==
    ASSUME NEW n \in NewInodes
    PROVE  n # Absent /\ n # Directory /\ n \notin DiskInodes
BY FreshAssumption

\* The order of names survives every step.
LEMMA NamesKeepOK ==
    ASSUME FileTypes, NamesOK, NamesStep
    PROVE  NamesOK'
<1>1. CASE link' = link /\ entry' = entry /\ DOMAIN data' = DOMAIN data
  BY <1>1 DEF NamesOK
<1>2. ASSUME NEW y \in Paths, NEW n \in NewInodes \ DOMAIN data,
             link'  = [link EXCEPT ![y] = y],
             entry' = [entry EXCEPT ![y] = n],
             DOMAIN data' = DOMAIN data \cup {n}
      PROVE  NamesOK'
  BY <1>2 DEF NamesOK, FileTypes
<1> QED
  BY <1>1, <1>2 DEF NamesStep

\* Two names that are not aliases never become aliases
\* (the check of _artifact_path_conflict does not go stale).
LEMMA ApartStays ==
    ASSUME FileTypes, NamesOK, NamesStep,
           NEW p \in Paths, NEW q \in Paths, ~Aliased(p, q)
    PROVE  ~Aliased(p, q)'
<1> USE DEF Aliased, SameFile, Exists, InodeOf, Resolve
<1>1. CASE link' = link /\ entry' = entry /\ DOMAIN data' = DOMAIN data
  BY <1>1
<1>2. ASSUME NEW y \in Paths, NEW n \in NewInodes \ DOMAIN data,
             link'  = [link EXCEPT ![y] = y],
             entry' = [entry EXCEPT ![y] = n]
      PROVE  ~Aliased(p, q)'
  <2>1. link'[p] # link'[q]
    BY <1>2 DEF FileTypes, NamesOK
  <2>2. n # Absent /\ n # Directory
    BY NewInodesApart
  <2>3. ASSUME NEW r \in Paths
        PROVE  \/ link'[r] = y /\ entry'[link'[r]] = n
               \/ /\ link'[r] = link[r] /\ entry'[link'[r]] = entry[link[r]]
                  /\ entry[link[r]] # n
    BY <1>2, <2>2 DEF FileTypes, NamesOK
  <2> QED
    BY <2>1, <2>3
<1> QED
  BY <1>1, <1>2 DEF NamesStep

\* A name that does not stand for a file of the disk never comes to do so.
LEMMA InodeStays ==
    ASSUME FileTypes, NamesOK, NamesStep,
           NEW p \in Paths, NEW i \in DOMAIN data, InodeOf(p) # i
    PROVE  InodeOf(p)' # i
<1> USE DEF InodeOf, Resolve
<1>1. CASE link' = link /\ entry' = entry /\ DOMAIN data' = DOMAIN data
  BY <1>1
<1>2. ASSUME NEW y \in Paths, NEW n \in NewInodes \ DOMAIN data,
             link'  = [link EXCEPT ![y] = y],
             entry' = [entry EXCEPT ![y] = n]
      PROVE  InodeOf(p)' # i
  BY <1>2 DEF FileTypes, NamesOK
<1> QED
  BY <1>1, <1>2 DEF NamesStep

\* A name may come to stand for a new file only; a directory stays one, unless
\* it is the name that is replaced.
LEMMA InodeMoves ==
    ASSUME FileTypes, NamesOK, NamesStep, NEW p \in Paths
    PROVE  InodeOf(p)' = InodeOf(p) \/ InodeOf(p)' \in NewInodes \ DOMAIN data
<1> USE DEF InodeOf, Resolve
<1>2. ASSUME NEW y \in Paths, NEW n \in NewInodes \ DOMAIN data,
             link'  = [link EXCEPT ![y] = y],
             entry' = [entry EXCEPT ![y] = n]
      PROVE  InodeOf(p)' = InodeOf(p) \/ InodeOf(p)' \in NewInodes \ DOMAIN data
  BY <1>2 DEF FileTypes, NamesOK
<1> QED
  BY <1>2 DEF NamesStep

(***************************************************************************)
(* The local state of an invocation                                        *)
(***************************************************************************)
\* Only invocation j moves.
OnlyMoves(j) ==
  /\ job' \in [Jobs -> JobStates]
  /\ \A k \in Jobs \ {j} : job'[k] = job[k]

\* The command, what was read and when, and what is protected are kept.
KeepsInput(j) ==
  /\ job'[j].cmd = job[j].cmd /\ job'[j].read = job[j].read
  /\ job'[j].inputs = job[j].inputs /\ job'[j].since = job[j].since

\* Goto changes the place only.
LEMMA GotoShape ==
    ASSUME TypeOK, NEW j \in Jobs, NEW pc \in Stages, Goto(j, pc)
    PROVE  /\ OnlyMoves(j) /\ KeepsInput(j)
           /\ job'[j].pc = pc /\ job'[j].open = job[j].open
           /\ job'[j].done = job[j].done /\ job'[j].exit = job[j].exit
           /\ job'[j].listed = job[j].listed
BY DEF TypeOK, JobStates, Goto, OnlyMoves, KeepsInput

\* Return ends the invocation with a code and lists what was done and exists.
LEMMA ReturnShape ==
    ASSUME TypeOK, NEW j \in Jobs, NEW code \in Codes, Return(j, code)
    PROVE  /\ OnlyMoves(j) /\ KeepsInput(j)
           /\ job'[j].pc = "returned" /\ job'[j].open = job[j].open
           /\ job'[j].done = job[j].done /\ job'[j].exit = code
           /\ job'[j].listed = Listed(j)
<1>1. Listed(j) \subseteq Roles /\ "returned" \in Stages
  BY DEF TypeOK, JobStates, Listed, Stages
<1> QED
  BY <1>1 DEF TypeOK, JobStates, Return, OnlyMoves, KeepsInput

\* An output or a report has a path when it was requested, and none otherwise.
LEMMA DestinationTypes ==
    ASSUME NEW c \in Commands
    PROVE  /\ \A r \in Roles : Destination(c, r) \in Paths \cup {NoPath}
           /\ \A r \in Requested(c) : r \in Roles /\ Destination(c, r) \in Paths
           /\ "out" \in Requested(c) <=> c.mode = "compile" /\ c.tool = "a7"
           /\ "doc" \in Requested(c) <=> DocPath(c) # NoPath
           /\ ~BadUsage(c) /\ ~Generates(c.mode) => Requested(c) = {}
<1>1. /\ c.file \in Paths /\ c.out \in Paths \cup {NoPath}
      /\ c.doc \in Paths \cup {NoPath, AutoDoc} /\ c.mode \in Modes /\ c.tool \in Tools
      /\ c.tool # "a7" => c.mode = "pipeline" /\ c.doc = NoPath
  BY CommandAssumption
<1>2. DefaultOut[c.file] \in Paths /\ DefaultDoc[c.file] \in Paths
  BY <1>1, FileSystemAssumption
<1>3. NoPath \notin Paths /\ AutoDoc # NoPath
  BY FileSystemAssumption
<1>4. OutPath(c) \in Paths \cup {NoPath} /\ DocPath(c) \in Paths \cup {NoPath}
  BY <1>1, <1>2 DEF OutPath, DocPath
<1>5. "out" \in Requested(c) <=> c.mode = "compile" /\ c.tool = "a7"
  BY <1>1, <1>2, <1>3 DEF Requested, Destination, OutPath, Roles
<1>6. "doc" \in Requested(c) <=> DocPath(c) # NoPath
  BY DEF Requested, Destination, Roles
<1>7. ASSUME ~BadUsage(c), ~Generates(c.mode)
      PROVE  Requested(c) = {}
  <2>1. c.mode # "compile" /\ c.mode # "doc" /\ c.doc = NoPath
    BY <1>1, <1>7 DEF BadUsage, Generates
  <2>2. OutPath(c) = NoPath /\ DocPath(c) = NoPath
    BY <1>3, <2>1 DEF OutPath, DocPath
  <2> QED
    BY <2>2 DEF Requested, Destination, Roles
<1> QED
  BY <1>4, <1>5, <1>6, <1>7 DEF Requested, Destination, Roles

\* The name resolves to a file, old or new, which is cut; nothing else changes.
Cut(j, r, p) ==
  /\ NamesStep /\ link' = link
  /\ InodeOf(p)' = entry'[Resolve(p)]
  /\ InodeOf(p)' \in DOMAIN data' \cap Inodes
  /\ data'[InodeOf(p)'] = [kind |-> "partial", by |-> j]
  /\ \A i \in DOMAIN data : i # InodeOf(p)' => data'[i] = data[i]
  /\ DOMAIN data' = DOMAIN data \cup {InodeOf(p)'}
  /\ InodeOf(p)' \in DOMAIN data \/ InodeOf(p)' = <<j, r>>
  /\ \A q \in Paths : Exists(q) => InodeOf(q)' = InodeOf(q)

\* Opening a destination for writing cuts its file.
LEMMA TruncateShape ==
    ASSUME FileTypes, NamesOK, NEW j \in Jobs, NEW r \in {"out", "doc", "exe"},
           NEW p \in Paths, <<j, r>> \notin DOMAIN data, Truncate(j, r, p)
    PROVE  FileTypes' /\ Cut(j, r, p)
<1> DEFINE new == <<j, r>>
           i == IF Exists(p) THEN InodeOf(p) ELSE new
           y == Resolve(p)
<1>1. new \in NewInodes /\ new \in Inodes /\ new # Absent /\ new # Directory
  BY NewInodesApart DEF NewInodes, Inodes
<1>2. y \in Paths /\ link[y] = y /\ i \in Inodes /\ (Exists(p) => i \in DOMAIN data)
  BY <1>1 DEF Truncate, Resolve, InodeOf, Exists, NamesOK, FileTypes
<1>3. /\ entry' = [entry EXCEPT ![y] = i] /\ link' = link
      /\ data' = [k \in DOMAIN data \cup {i} |->
                    IF k = i THEN [kind |-> "partial", by |-> j] ELSE data[k]]
  BY DEF Truncate
<1>4. [kind |-> "partial", by |-> j] \in Contents
  BY DEF Contents, Written
<1> HIDE DEF new, i, y
<1>5. entry'[y] = i /\ DOMAIN data' = DOMAIN data \cup {i}
  BY <1>2, <1>3 DEF FileTypes
<1>6. InodeOf(p)' = i /\ InodeOf(p)' = entry'[Resolve(p)]
  BY <1>3, <1>5 DEF InodeOf, Resolve, y
<1>7. FileTypes'
  <2>1. entry' \in [Paths -> Inodes \cup {Absent, Directory}] /\ link' \in [Paths -> Paths]
    BY <1>2, <1>3 DEF FileTypes
  <2>2. DOMAIN data' \subseteq Inodes
    BY <1>2, <1>5 DEF FileTypes
  <2>3. data' \in [DOMAIN data' -> Contents]
    BY <1>3, <1>4, <1>5 DEF FileTypes
  <2> QED
    BY <2>1, <2>2, <2>3 DEF FileTypes
<1>8. NamesStep
  <2>1. CASE Exists(p)
    <3>1. entry' = entry
      BY <1>3, <2>1 DEF i, y, InodeOf, FileTypes
    <3> QED
      BY <1>2, <1>3, <1>5, <2>1, <3>1 DEF NamesStep
  <2>2. CASE ~Exists(p)
    <3>1. i \in NewInodes \ DOMAIN data
      BY <1>1, <2>2 DEF i, new
    <3>2. link' = [link EXCEPT ![y] = y]
      BY <1>2, <1>3 DEF FileTypes
    <3> QED
      BY <1>2, <1>3, <1>5, <3>1, <3>2 DEF NamesStep
  <2> QED
    BY <2>1, <2>2
<1>9. \A q \in Paths : Exists(q) => InodeOf(q)' = InodeOf(q)
  <2>1. CASE Exists(p)
    BY <1>3, <2>1 DEF i, y, InodeOf, FileTypes, Resolve
  <2>2. CASE ~Exists(p)
    BY <1>3, <2>2 DEF i, y, InodeOf, FileTypes, Resolve, Exists
  <2> QED
    BY <2>1, <2>2
<1> QED
  BY <1>2, <1>3, <1>5, <1>6, <1>7, <1>8, <1>9 DEF i, new, Cut

\* One file is completed; nothing else changes.
Completed(j, r, i) ==
  /\ NamesStep /\ link' = link /\ entry' = entry
  /\ data'[i] = [kind |-> r, by |-> j]
  /\ \A k \in DOMAIN data : k # i => data'[k] = data[k]
  /\ DOMAIN data' = DOMAIN data

\* Writing through an open file completes it.
LEMMA FillShape ==
    ASSUME FileTypes, NEW j \in Jobs, NEW r \in {"out", "doc", "exe"},
           NEW i \in DOMAIN data, Fill(j, r, i)
    PROVE  FileTypes' /\ Completed(j, r, i)
<1>1. [kind |-> r, by |-> j] \in Contents
  BY DEF Contents, Written
<1>2. DOMAIN data' = DOMAIN data
  BY DEF Fill
<1> QED
  BY <1>1, <1>2 DEF Fill, FileTypes, NamesStep, Completed

(***************************************************************************)
(* The inductive invariant on what invocations share                       *)
(***************************************************************************)
\* The places before, at and after the opening of each file, and those where
\* the check of the destinations counts.
Early    == {Idle, "read", "frontend", "imports", "analyze", "paths",
             "generate", "output"}
AfterOut == {"writing", "document", "documenting", "emit", "returned", "killed"}
AfterDoc == {"documenting", "emit", "returned", "killed"}
Guarded  == {"generate", "output", "writing", "document", "documenting"}

\* A mode leads only to places that belong to it.
PlaceOK(k) ==
  LET pc == job[k].pc
      c  == job[k].cmd
  IN  /\ pc # Idle => c \in Commands
      /\ pc \in Busy => ~BadUsage(c)
      /\ pc \in {"imports", "analyze"} => Analyzes(c.mode)
      /\ pc \in Guarded => Generates(c.mode)
      /\ pc \in {"output", "writing"} => "out" \in Requested(c)
      /\ pc \in {"document", "documenting"} => "doc" \in Requested(c)

\* An inode made by an invocation shows that it has come to open that file.
FreshOK(k) ==
  /\ <<k, "out">> \in DOMAIN data => job[k].pc \in AfterOut
  /\ <<k, "doc">> \in DOMAIN data => job[k].pc \in AfterDoc

\* From the check of the destinations on they are no inputs, under any name.
ApartOK(k) == job[k].pc \in Guarded => ~Conflict(job[k].cmd, job[k].inputs)

\* The file that is open is no input.
OpenOK(k) ==
  job[k].pc \in {"writing", "documenting"} =>
    /\ job[k].open \in DOMAIN data
    /\ \A p \in job[k].inputs : InodeOf(p) # job[k].open

\* Before it opens a file an invocation has written nothing.
UntouchedOK(k) == job[k].pc \in Early => \A i \in DOMAIN data : ~ByJob(data[i], k)

\* No input holds anything that the invocation has written.
InputsOK(k) == \A p \in job[k].inputs : IsFile(p) => ~ByJob(data[InodeOf(p)], k)

JobOK(k) ==
  PlaceOK(k) /\ FreshOK(k) /\ ApartOK(k) /\ OpenOK(k) /\ UntouchedOK(k) /\ InputsOK(k)

SharedInv == TypeOK /\ NamesOK /\ \A k \in Jobs : JobOK(k)

\* A step adds nothing that k has written, and no inode of k.
SparesData(k) ==
  /\ \A i \in DOMAIN data' :
       ByJob(data'[i], k) => i \in DOMAIN data /\ data'[i] = data[i]
  /\ \A r \in {"out", "doc"} : <<k, r>> \in DOMAIN data' => <<k, r>> \in DOMAIN data

\* Destinations without conflict stay without conflict.
LEMMA ConflictStays ==
    ASSUME FileTypes, NamesOK, NamesStep,
           NEW c \in Commands, NEW inputs \in SUBSET Sources, ~Conflict(c, inputs)
    PROVE  ~Conflict(c, inputs)'
<1>1. \A r \in Requested(c) : Destination(c, r) \in Paths
  BY DestinationTypes
<1>2. inputs \subseteq Paths
  BY FileSystemAssumption
<1>3. \A r \in Requested(c) : \A p \in inputs : ~Aliased(Destination(c, r), p)'
  BY <1>1, <1>2, ApartStays DEF Conflict
<1>4. Requested(c) = Roles => ~Aliased(DocPath(c), OutPath(c))'
  <2>1. Requested(c) = Roles => DocPath(c) \in Paths /\ OutPath(c) \in Paths
    BY <1>1 DEF Destination, Roles
  <2> QED
    BY <2>1, ApartStays DEF Conflict
<1> QED
  BY <1>3, <1>4 DEF Conflict

\* A step of another invocation, or an edit, keeps what is known of k.
LEMMA OthersKeepOK ==
    ASSUME SharedInv, NamesStep, NEW k \in Jobs, job'[k] = job[k], SparesData(k)
    PROVE  JobOK(k)'
<1> USE DEF SharedInv, TypeOK
<1>0. JobOK(k) /\ job[k] \in JobStates
  OBVIOUS
<1>1. DOMAIN data \subseteq DOMAIN data'
  BY DEF NamesStep
<1>2. job[k].inputs \subseteq Sources /\ job[k].inputs \subseteq Paths
  BY <1>0, FileSystemAssumption DEF JobStates
<1>3. PlaceOK(k)'
  BY <1>0 DEF JobOK, PlaceOK
<1>4. FreshOK(k)'
  BY <1>0 DEF JobOK, FreshOK, SparesData
<1>5. ApartOK(k)'
  <2>1. SUFFICES ASSUME job[k].pc \in Guarded
                 PROVE  ~Conflict(job[k].cmd, job[k].inputs)'
    BY DEF ApartOK
  <2>2. job[k].cmd \in Commands /\ ~Conflict(job[k].cmd, job[k].inputs)
    BY <1>0, <2>1 DEF JobOK, PlaceOK, ApartOK, Guarded, Idle
  <2> QED
    BY <1>2, <2>2, ConflictStays
<1>6. OpenOK(k)'
  BY <1>0, <1>1, <1>2, InodeStays DEF JobOK, OpenOK
<1>7. UntouchedOK(k)'
  BY <1>0 DEF JobOK, UntouchedOK, SparesData
<1>8. InputsOK(k)'
  <2>1. SUFFICES ASSUME NEW p \in job[k].inputs, IsFile(p)', ByJob(data[InodeOf(p)], k)'
                 PROVE  FALSE
    BY DEF InputsOK
  <2>2. p \in Paths
    BY <1>2
  <2>3. InodeOf(p)' \in DOMAIN data'
    BY <2>1, <2>2, NamesKeepOK DEF NamesOK, IsFile, InodeOf, Resolve, NamesStep, FileTypes
  <2>4. InodeOf(p)' \in DOMAIN data /\ data'[InodeOf(p)'] = data[InodeOf(p)']
    BY <2>1, <2>3 DEF SparesData, ByJob
  <2>5. InodeOf(p)' = InodeOf(p)
    BY <2>2, <2>4, InodeMoves
  <2>6. IsFile(p) /\ ByJob(data[InodeOf(p)], k)
    BY <2>1, <2>4, <2>5 DEF IsFile, ByJob
  <2> QED
    BY <1>0, <2>1, <2>6 DEF JobOK, InputsOK
<1> QED
  BY <1>3, <1>4, <1>5, <1>6, <1>7, <1>8 DEF JobOK

\* The invariant after a step of j: what is left to show is about j.
LEMMA MoverKeeps ==
    ASSUME SharedInv, NEW j \in Jobs, OnlyMoves(j), FileTypes', NamesStep,
           \A k \in Jobs \ {j} : SparesData(k), JobOK(j)',
           edits' = edits, struck' \subseteq Jobs
    PROVE  SharedInv'
<1>1. TypeOK'
  BY DEF SharedInv, TypeOK, OnlyMoves
<1>2. NamesOK'
  BY NamesKeepOK DEF SharedInv, TypeOK
<1>3. ASSUME NEW k \in Jobs
      PROVE  JobOK(k)'
  <2>1. CASE k = j
    BY <2>1
  <2>2. CASE k # j
    BY <2>2, OthersKeepOK DEF OnlyMoves
  <2> QED
    BY <2>1, <2>2
<1> QED
  BY <1>1, <1>2, <1>3 DEF SharedInv

\* A step that leaves the file system alone.
LEMMA QuietKeeps ==
    ASSUME SharedInv, NEW j \in Jobs, OnlyMoves(j), KeepsInput(j), UNCHANGED fs,
           edits' = edits, struck' \subseteq Jobs, PlaceOK(j)',
           job[j].pc # Idle,
           job'[j].pc \notin {"writing", "documenting"},
           job'[j].pc \in Guarded =>
             job[j].pc \in Guarded \/ ~Conflict(job[j].cmd, job[j].inputs),
           job'[j].pc \in Early => job[j].pc \in Early,
           job[j].pc \in AfterOut => job'[j].pc \in AfterOut,
           job[j].pc \in AfterDoc => job'[j].pc \in AfterDoc
    PROVE  SharedInv'
<1> USE DEF fs
<1>0. JobOK(j) /\ link' = link /\ entry' = entry /\ data' = data
  BY DEF SharedInv
<1>1. NamesStep /\ FileTypes'
  BY <1>0 DEF NamesStep, FileTypes, SharedInv, TypeOK
<1>2. \A k \in Jobs : SparesData(k)
  BY <1>0 DEF SparesData
<1>3. FreshOK(j)'
  BY <1>0 DEF JobOK, FreshOK
<1>4. ApartOK(j)'
  BY <1>0 DEF JobOK, ApartOK, KeepsInput, Conflict, Aliased, SameFile, Exists, InodeOf, Resolve
<1>5. OpenOK(j)'
  BY DEF OpenOK
<1>6. UntouchedOK(j)'
  BY <1>0 DEF JobOK, UntouchedOK
<1>7. InputsOK(j)'
  BY <1>0 DEF JobOK, InputsOK, KeepsInput, IsFile, InodeOf, Resolve, ByJob
<1>8. JobOK(j)'
  BY <1>3, <1>4, <1>5, <1>6, <1>7 DEF JobOK
<1> QED
  BY <1>1, <1>2, <1>8, MoverKeeps

\* An invocation that returns without a file open keeps everything.
LEMMA ReturnKeeps ==
    ASSUME SharedInv, NEW j \in Jobs, NEW code \in Codes, Return(j, code),
           job[j].pc \in Busy, UNCHANGED fs, edits' = edits, struck' \subseteq Jobs
    PROVE  SharedInv'
<1>1. /\ OnlyMoves(j) /\ KeepsInput(j) /\ job'[j].pc = "returned"
  BY ReturnShape DEF SharedInv
<1>2. PlaceOK(j)'
  BY <1>1 DEF SharedInv, JobOK, PlaceOK, KeepsInput, Busy, Idle, Guarded
<1> QED
  BY <1>1, <1>2, QuietKeeps DEF Busy, Idle, Guarded, Early, AfterOut, AfterDoc

\* The start of an invocation.
LEMMA StartShape ==
    ASSUME TypeOK, NEW j \in Jobs, NEW c \in Commands, Start(j, c)
    PROVE  /\ OnlyMoves(j) /\ UNCHANGED <<link, entry, data, edits, struck>>
           /\ job[j].pc = Idle /\ job'[j].cmd = c
           /\ job'[j].pc = IF BadUsage(c) THEN "returned" ELSE "read"
           /\ job'[j].exit = IF BadUsage(c) THEN 2 ELSE 0
           /\ job'[j].inputs = {} /\ job'[j].done = {} /\ job'[j].listed = {}
           /\ job'[j].since = edits
<1> DEFINE new == [NewJob EXCEPT !.pc = IF BadUsage(c) THEN "returned" ELSE "read",
                                 !.exit = IF BadUsage(c) THEN 2 ELSE 0,
                                 !.cmd = c, !.since = edits]
<1>1. new \in JobStates
  BY DEF TypeOK, NewJob, JobStates, Stages, Busy, Codes, Idle
<1>2. /\ new.inputs = {} /\ new.cmd = c /\ new.pc = IF BadUsage(c) THEN "returned" ELSE "read"
      /\ new.exit = IF BadUsage(c) THEN 2 ELSE 0
      /\ new.done = {} /\ new.listed = {} /\ new.since = edits
  BY DEF NewJob
<1>3. job' = [job EXCEPT ![j] = new]
  BY DEF Start
<1> HIDE DEF new
<1>4. OnlyMoves(j) /\ job'[j] = new
  BY <1>1, <1>3 DEF TypeOK, OnlyMoves
<1> QED
  BY <1>2, <1>4 DEF Start, At

\* An invocation starts: what they share stays in order.
LEMMA StartKeeps ==
    ASSUME SharedInv, NEW j \in Jobs, NEW c \in Commands, Start(j, c)
    PROVE  SharedInv'
<1>0. /\ OnlyMoves(j) /\ job[j].pc = Idle /\ job'[j].cmd = c
      /\ job'[j].pc = IF BadUsage(c) THEN "returned" ELSE "read"
      /\ job'[j].inputs = {} /\ UNCHANGED <<link, entry, data, edits, struck>>
  BY StartShape DEF SharedInv
<1>1. JobOK(j) /\ NamesStep /\ FileTypes' /\ \A k \in Jobs : SparesData(k)
  BY <1>0 DEF NamesStep, FileTypes, SharedInv, TypeOK, SparesData
<1>2. PlaceOK(j)'
  BY <1>0 DEF PlaceOK, Busy, Idle, Guarded
<1>3. FreshOK(j)'
  BY <1>0, <1>1 DEF JobOK, FreshOK, AfterOut, AfterDoc, Idle
<1>4. ApartOK(j)' /\ OpenOK(j)' /\ InputsOK(j)'
  BY <1>0 DEF ApartOK, OpenOK, InputsOK, Guarded
<1>5. UntouchedOK(j)'
  BY <1>0, <1>1 DEF JobOK, UntouchedOK, Early
<1>6. JobOK(j)'
  BY <1>2, <1>3, <1>4, <1>5 DEF JobOK
<1> QED
  BY <1>0, <1>1, <1>6, MoverKeeps DEF SharedInv, TypeOK

\* An invocation that has written nothing may read any source.
LEMMA ReadKeeps ==
    ASSUME SharedInv, NEW j \in Jobs, OnlyMoves(j), UNCHANGED fs,
           edits' = edits, struck' = struck, PlaceOK(j)',
           job[j].pc \in {"read", "imports"},
           job'[j].pc \in Early \ Guarded
    PROVE  SharedInv'
<1>0. JobOK(j) /\ link' = link /\ entry' = entry /\ data' = data
  BY DEF SharedInv, fs
<1>1. NamesStep /\ FileTypes' /\ \A k \in Jobs : SparesData(k)
  BY <1>0 DEF NamesStep, FileTypes, SharedInv, TypeOK, SparesData
<1>2. FreshOK(j)'
  BY <1>0 DEF JobOK, FreshOK, AfterOut, AfterDoc
<1>3. ApartOK(j)' /\ OpenOK(j)'
  BY DEF ApartOK, OpenOK, Guarded, Early, Idle
<1>4. UntouchedOK(j)'
  BY <1>0 DEF JobOK, UntouchedOK, Early
<1>5. InputsOK(j)'
  <2>1. \A i \in DOMAIN data : ~ByJob(data[i], j)
    BY <1>0 DEF JobOK, UntouchedOK, Early
  <2>2. job'[j].inputs \subseteq Paths
    BY FileSystemAssumption DEF OnlyMoves, JobStates
  <2> QED
    BY <1>0, <2>1, <2>2, InodeTypes DEF SharedInv, TypeOK, InputsOK, IsFile, InodeOf, Resolve, ByJob
<1>6. JobOK(j)'
  BY <1>2, <1>3, <1>4, <1>5 DEF JobOK
<1> QED
  BY <1>1, <1>6, MoverKeeps DEF SharedInv, TypeOK

\* The file of an input is one that can be read, and its content is typed.
LEMMA SourceContent ==
    ASSUME SharedInv, NEW p \in Sources, IsFile(p)
    PROVE  p \in Paths /\ data[InodeOf(p)] \in Contents
BY InodeTypes, FileSystemAssumption DEF SharedInv, TypeOK

\* The entry file is read, or the call is refused.
LEMMA ReadEntryShape ==
    ASSUME SharedInv, NEW j \in Jobs, ReadEntry(j), NEW f, f = File(j)
    PROVE  /\ job[j].pc = "read" /\ UNCHANGED <<link, entry, data, edits, struck>>
           /\ IF IsFile(f) /\ f \in Sources
              THEN /\ OnlyMoves(j) /\ job'[j].pc = "frontend"
                   /\ job'[j].read = {data[InodeOf(f)]} /\ job'[j].inputs = {f}
                   /\ job'[j].cmd = job[j].cmd /\ job'[j].done = job[j].done
                   /\ job'[j].since = job[j].since
              ELSE Return(j, 3)
<1>1. CASE IsFile(f) /\ f \in Sources
  <2>1. data[InodeOf(f)] \in Contents
    BY <1>1, SourceContent
  <2>2. job' = [job EXCEPT ![j].pc = "frontend",
                           ![j].read = {data[InodeOf(f)]}, ![j].inputs = {f}]
    BY <1>1 DEF ReadEntry
  <2> DEFINE new == [job[j] EXCEPT !.pc = "frontend", !.inputs = {f},
                                   !.read = {data[InodeOf(f)]}]
  <2>3. /\ new \in JobStates /\ new.pc = "frontend" /\ new.cmd = job[j].cmd
        /\ new.read = {data[InodeOf(f)]} /\ new.inputs = {f}
        /\ new.done = job[j].done /\ new.since = job[j].since
    BY <1>1, <2>1 DEF SharedInv, TypeOK, JobStates, Stages, Busy
  <2>4. job' = [job EXCEPT ![j] = new]
    BY <2>2 DEF SharedInv, TypeOK, JobStates
  <2> HIDE DEF new
  <2>5. OnlyMoves(j) /\ job'[j] = new
    BY <2>3, <2>4 DEF SharedInv, TypeOK, OnlyMoves
  <2> QED
    BY <1>1, <2>3, <2>5 DEF ReadEntry, At
<1>2. CASE ~(IsFile(f) /\ f \in Sources)
  BY <1>2 DEF ReadEntry, At
<1> QED
  BY <1>1, <1>2

\* The entry file is read; it holds nothing of the invocation yet.
LEMMA ReadEntryKeeps ==
    ASSUME SharedInv, NEW j \in Jobs, ReadEntry(j)
    PROVE  SharedInv'
<1> PICK f : f = File(j)
  OBVIOUS
<1>0. job[j].pc = "read" /\ UNCHANGED <<link, entry, data, edits, struck>>
  BY ReadEntryShape
<1>1. CASE IsFile(f) /\ f \in Sources
  <2>1. OnlyMoves(j) /\ job'[j].pc = "frontend" /\ job'[j].cmd = job[j].cmd
    BY <1>1, ReadEntryShape
  <2>2. PlaceOK(j)'
    BY <1>0, <2>1 DEF SharedInv, JobOK, PlaceOK, Busy, Idle, Guarded
  <2> QED
    BY <1>0, <2>1, <2>2, ReadKeeps DEF fs, Early, Guarded
<1>2. CASE ~(IsFile(f) /\ f \in Sources)
  <2>1. Return(j, 3)
    BY <1>2, ReadEntryShape
  <2> QED
    BY <1>0, <2>1, ReturnKeeps DEF fs, Busy, Codes, SharedInv, TypeOK
<1> QED
  BY <1>1, <1>2

\* The modules of a text.
LEMMA ImportTypes ==
    ASSUME NEW c \in Contents
    PROVE  /\ ImportsOf(c) \in Seq(Sources)
           /\ \A n \in DOMAIN ImportsOf(c) : ImportsOf(c)[n] \in Sources
<1>1. ImportsOf(c) \in Seq(Sources)
  BY TextAssumption DEF ImportsOf
<1> QED
  BY <1>1

\* All modules of the entry are read, or the first one that is rejected ends the
\* call.
LEMMA LoadImportsShape ==
    ASSUME SharedInv, NEW j \in Jobs, LoadImports(j)
    PROVE  /\ job[j].pc = "imports" /\ UNCHANGED <<link, entry, data, edits, struck>>
           /\ \E c \in job[j].read : \E modules \in {ImportsOf(c)} :
                \/ \E n \in DOMAIN modules :
                     /\ \A m \in 1 .. n - 1 : Loads(modules[m])
                     /\ RejectModule(j, modules[n])
                \/ /\ \A n \in DOMAIN modules : Loads(modules[n])
                   /\ OnlyMoves(j) /\ job'[j].pc = "analyze"
                   /\ job'[j].read = job[j].read
                        \cup {data[InodeOf(modules[n])] : n \in DOMAIN modules}
                   /\ job'[j].cmd = job[j].cmd /\ job'[j].done = job[j].done
                   /\ job'[j].since = job[j].since
<1>1. PICK c \in job[j].read :
        LET modules == ImportsOf(c) IN
          \/ \E n \in DOMAIN modules :
               /\ \A m \in 1 .. n - 1 : Loads(modules[m])
               /\ RejectModule(j, modules[n])
          \/ /\ \A n \in DOMAIN modules : Loads(modules[n])
             /\ job' = [job EXCEPT ![j].pc = "analyze",
                  ![j].read = @ \cup {data[InodeOf(modules[n])] : n \in DOMAIN modules},
                  ![j].inputs = @ \cup {modules[n] : n \in DOMAIN modules}]
  BY DEF LoadImports
<1> DEFINE modules == ImportsOf(c)
<1>2. \A n \in DOMAIN modules : modules[n] \in Sources
  BY ImportTypes DEF SharedInv, TypeOK, JobStates
<1> HIDE DEF modules
<1>3. CASE \E n \in DOMAIN modules :
             /\ \A m \in 1 .. n - 1 : Loads(modules[m])
             /\ RejectModule(j, modules[n])
  BY <1>3 DEF LoadImports, At, modules
<1>4. CASE /\ \A n \in DOMAIN modules : Loads(modules[n])
           /\ job' = [job EXCEPT ![j].pc = "analyze",
                ![j].read = @ \cup {data[InodeOf(modules[n])] : n \in DOMAIN modules},
                ![j].inputs = @ \cup {modules[n] : n \in DOMAIN modules}]
  <2>1. {data[InodeOf(modules[n])] : n \in DOMAIN modules} \subseteq Contents
    BY <1>2, <1>4, SourceContent DEF Loads
  <2>2. {modules[n] : n \in DOMAIN modules} \subseteq Sources
    BY <1>2
  <2> DEFINE contents == {data[InodeOf(modules[n])] : n \in DOMAIN modules}
             files == {modules[n] : n \in DOMAIN modules}
             new == [job[j] EXCEPT !.pc = "analyze", !.read = @ \cup contents,
                                   !.inputs = @ \cup files]
  <2>3. job' = [job EXCEPT ![j].pc = "analyze", ![j].read = @ \cup contents,
                           ![j].inputs = @ \cup files]
    BY <1>4
  <2> HIDE DEF contents, files
  <2>4. /\ new \in JobStates /\ new.pc = "analyze" /\ new.cmd = job[j].cmd
        /\ new.read = job[j].read \cup contents
        /\ new.done = job[j].done /\ new.since = job[j].since
    BY <2>1, <2>2 DEF SharedInv, TypeOK, JobStates, Stages, Busy, contents, files
  <2>5. job' = [job EXCEPT ![j] = new]
    BY <2>3 DEF SharedInv, TypeOK, JobStates
  <2> HIDE DEF new
  <2>6. OnlyMoves(j) /\ job'[j] = new
    BY <2>4, <2>5 DEF SharedInv, TypeOK, OnlyMoves
  <2> QED
    BY <1>4, <2>4, <2>6 DEF LoadImports, At, modules, contents
<1> QED
  BY <1>1, <1>3, <1>4 DEF modules

\* The modules loaded join the inputs; they hold nothing of the invocation yet.
LEMMA LoadImportsKeeps ==
    ASSUME SharedInv, NEW j \in Jobs, LoadImports(j)
    PROVE  SharedInv'
<1>0. job[j].pc = "imports" /\ UNCHANGED <<link, entry, data, edits, struck>>
  BY LoadImportsShape
<1>1. CASE \E p : RejectModule(j, p)
  <2>1. \E code \in Codes : Return(j, code)
    BY <1>1 DEF RejectModule, Codes
  <2> QED
    BY <1>0, <2>1, ReturnKeeps DEF fs, Busy, SharedInv, TypeOK
<1>2. CASE OnlyMoves(j) /\ job'[j].pc = "analyze" /\ job'[j].cmd = job[j].cmd
  <2>1. PlaceOK(j)'
    BY <1>0, <1>2 DEF SharedInv, JobOK, PlaceOK, Busy, Idle, Guarded
  <2> QED
    BY <1>0, <1>2, <2>1, ReadKeeps DEF fs, Early, Guarded
<1> QED
  BY <1>1, <1>2, LoadImportsShape

\* The tokenizer and the parser touch no file.
LEMMA FrontendKeeps ==
    ASSUME SharedInv, NEW j \in Jobs, Frontend(j)
    PROVE  SharedInv'
<1>0. job[j].pc = "frontend" /\ UNCHANGED <<link, entry, data, edits, struck>>
  BY DEF Frontend, At
<1>1. CASE Return(j, 4) \/ Return(j, 5)
  BY <1>0, <1>1, ReturnKeeps DEF fs, Busy, Codes, SharedInv, TypeOK
<1>2. CASE Goto(j, AfterFrontend(Mode(j)))
  <2>1. AfterFrontend(Mode(j)) \in {"emit", "imports", "paths"}
    BY DEF AfterFrontend
  <2>2. OnlyMoves(j) /\ KeepsInput(j) /\ job'[j].pc = AfterFrontend(Mode(j))
    BY <1>2, <2>1, GotoShape DEF SharedInv, Stages, Busy
  <2>3. PlaceOK(j)'
    BY <1>0, <2>1, <2>2 DEF SharedInv, JobOK, PlaceOK, KeepsInput, AfterFrontend, Mode, Busy, Idle, Guarded
  <2> QED
    BY <1>0, <2>1, <2>2, <2>3, QuietKeeps
       DEF fs, Early, AfterOut, AfterDoc, Guarded, Idle, SharedInv, TypeOK
<1> QED
  BY <1>1, <1>2 DEF Frontend

\* Nor do the semantic passes.
LEMMA AnalyzeKeeps ==
    ASSUME SharedInv, NEW j \in Jobs, Analyze(j)
    PROVE  SharedInv'
<1>0. job[j].pc = "analyze" /\ UNCHANGED <<link, entry, data, edits, struck>>
  BY DEF Analyze, At
<1>1. CASE Return(j, 6)
  BY <1>0, <1>1, ReturnKeeps DEF fs, Busy, Codes, SharedInv, TypeOK
<1>2. CASE Goto(j, "paths")
  <2>1. OnlyMoves(j) /\ KeepsInput(j) /\ job'[j].pc = "paths"
    BY <1>2, GotoShape DEF SharedInv, Stages, Busy
  <2>2. PlaceOK(j)'
    BY <1>0, <2>1 DEF SharedInv, JobOK, PlaceOK, KeepsInput, Busy, Idle, Guarded
  <2> QED
    BY <1>0, <2>1, <2>2, QuietKeeps
       DEF fs, Early, AfterOut, AfterDoc, Guarded, Idle, SharedInv, TypeOK
<1> QED
  BY <1>1, <1>2 DEF Analyze

\* The check of the destinations establishes that none is an input.
LEMMA CheckPathsKeeps ==
    ASSUME SharedInv, NEW j \in Jobs, CheckPaths(j)
    PROVE  SharedInv'
<1>0. job[j].pc = "paths" /\ UNCHANGED <<link, entry, data, edits, struck>>
  BY DEF CheckPaths, At
<1>1. CASE Conflict(job[j].cmd, job[j].inputs)
  BY <1>0, <1>1, ReturnKeeps DEF CheckPaths, fs, Busy, Codes, SharedInv, TypeOK
<1>2. CASE ~Conflict(job[j].cmd, job[j].inputs)
  <2> DEFINE pc == IF Generates(Mode(j)) THEN "generate" ELSE "emit"
  <2>1. Goto(j, pc) /\ pc \in Stages
    BY <1>2 DEF CheckPaths, Stages, Busy
  <2> HIDE DEF pc
  <2>2. OnlyMoves(j) /\ KeepsInput(j) /\ job'[j].pc = pc
    BY <2>1, GotoShape DEF SharedInv
  <2>3. PlaceOK(j)'
    BY <1>0, <2>2 DEF pc, SharedInv, JobOK, PlaceOK, KeepsInput, Mode, Busy, Idle, Guarded
  <2> QED
    BY <1>0, <1>2, <2>2, <2>3, QuietKeeps
       DEF pc, fs, Early, AfterOut, AfterDoc, Guarded, Idle, SharedInv, TypeOK
<1> QED
  BY <1>1, <1>2

\* The backend touches no file.
LEMMA GenerateKeeps ==
    ASSUME SharedInv, NEW j \in Jobs, Generate(j)
    PROVE  SharedInv'
<1>0. job[j].pc = "generate" /\ UNCHANGED <<link, entry, data, edits, struck>>
  BY DEF Generate, At
<1>1. CASE Return(j, 7)
  BY <1>0, <1>1, ReturnKeeps DEF fs, Busy, Codes, SharedInv, TypeOK
<1> DEFINE pc == IF Mode(j) = "compile" /\ job[j].cmd.tool = "a7"
                 THEN "output" ELSE AfterOutput(job[j].cmd)
<1>2. CASE Goto(j, pc)
  <2>1. pc \in {"output", "document", "emit"}
    BY DEF AfterOutput
  <2>2. job[j].cmd \in Commands
    BY <1>0 DEF SharedInv, JobOK, PlaceOK, Idle
  <2>3. OnlyMoves(j) /\ KeepsInput(j) /\ job'[j].pc = pc
    BY <1>2, <2>1, GotoShape DEF SharedInv, Stages, Busy
  <2>4. PlaceOK(j)'
    BY <1>0, <2>2, <2>3, DestinationTypes
       DEF SharedInv, JobOK, PlaceOK, KeepsInput, Mode, AfterOutput, Busy, Idle, Guarded
  <2> QED
    BY <1>0, <2>1, <2>3, <2>4, QuietKeeps
       DEF fs, Early, AfterOut, AfterDoc, Guarded, Idle, SharedInv, TypeOK
<1> QED
  BY <1>1, <1>2 DEF Generate

\* Nor does the end of a successful call.
LEMMA EmitKeeps ==
    ASSUME SharedInv, NEW j \in Jobs, Emit(j)
    PROVE  SharedInv'
BY ReturnKeeps DEF Emit, At, fs, Busy, Codes, SharedInv, TypeOK

\* Nor does a failing call, a bug or a kill.
LEMMA FaultKeeps ==
    ASSUME SharedInv, NEW j \in Jobs, Fault(j)
    PROVE  SharedInv'
<1>1. struck' \subseteq Jobs /\ UNCHANGED fs /\ edits' = edits
  BY DEF Fault, CallFails, Bug, Kill, Strike, SharedInv, TypeOK, fs
<1>2. CASE \E code \in {3, 7, 8} : job[j].pc \in Busy /\ Return(j, code)
  BY <1>1, <1>2, ReturnKeeps DEF Codes
<1>3. CASE job[j].pc \in Busy /\ Goto(j, "killed")
  <2>1. OnlyMoves(j) /\ KeepsInput(j) /\ job'[j].pc = "killed"
    BY <1>3, GotoShape DEF SharedInv, Stages
  <2>2. PlaceOK(j)'
    BY <1>3, <2>1 DEF SharedInv, JobOK, PlaceOK, KeepsInput, Busy, Idle, Guarded
  <2> QED
    BY <1>1, <1>3, <2>1, <2>2, QuietKeeps DEF Early, AfterOut, AfterDoc, Guarded, Idle, Busy
<1> QED
  BY <1>2, <1>3 DEF Fault, CallFails, Bug, Kill, At, Busy

\* The opening of the output, and of the report.
OpensAt(j, r, next) ==
  \/ job[j].pc = "output" /\ r = "out" /\ next = "writing"
  \/ job[j].pc = "document" /\ r = "doc" /\ next = "documenting"

\* A destination that is opened is not an input, and has no inode of its own yet.
LEMMA OpenShape ==
    ASSUME SharedInv, NEW j \in Jobs, NEW r \in Roles, NEW next, OpensAt(j, r, next),
           Open(j, r, next),
           NEW c, c = job[j].cmd, NEW p, p = Destination(c, r)
    PROVE  /\ c \in Commands /\ r \in Requested(c) /\ p \in Paths
           /\ <<j, r>> \notin DOMAIN data
           /\ InodeOf(p) # Directory =>
                /\ Truncate(j, r, p)
                /\ OnlyMoves(j) /\ KeepsInput(j) /\ job'[j].pc = next
                /\ job'[j].open = InodeOf(p)'
                /\ job'[j].done = job[j].done
<1>1. c \in Commands /\ r \in Requested(c)
  BY DEF SharedInv, JobOK, PlaceOK, OpensAt, Idle
<1>2. p \in Paths
  BY <1>1, DestinationTypes
<1>3. <<j, r>> \notin DOMAIN data
  BY DEF SharedInv, JobOK, FreshOK, OpensAt, AfterOut, AfterDoc
<1>4. ASSUME InodeOf(p) # Directory
      PROVE  /\ Truncate(j, r, p)
             /\ OnlyMoves(j) /\ KeepsInput(j) /\ job'[j].pc = next
             /\ job'[j].open = InodeOf(p)' /\ job'[j].done = job[j].done
  <2>1. Truncate(j, r, p)
    BY <1>4 DEF Open
  <2>2. entry'[Resolve(p)] \in Inodes /\ InodeOf(p)' = entry'[Resolve(p)]
    <3>1. r \in {"out", "doc", "exe"} /\ FileTypes /\ NamesOK
      BY DEF SharedInv, TypeOK, Roles
    <3>2. FileTypes' /\ Cut(j, r, p)
      BY <1>2, <1>3, <2>1, <3>1, TruncateShape
    <3> QED
      BY <3>2 DEF Cut
  <2>3. job' = [job EXCEPT ![j].pc = next, ![j].open = entry'[Resolve(p)]]
    BY <1>4 DEF Open
  <2> DEFINE new == [job[j] EXCEPT !.pc = next, !.open = entry'[Resolve(p)]]
  <2>4. next \in Stages
    BY DEF OpensAt, Stages, Busy
  <2>5. new \in JobStates /\ job' = [job EXCEPT ![j] = new]
    BY <2>2, <2>3, <2>4 DEF SharedInv, TypeOK, JobStates
  <2>6. /\ new.pc = next /\ new.open = InodeOf(p)' /\ new.done = job[j].done
        /\ new.cmd = job[j].cmd /\ new.read = job[j].read
        /\ new.inputs = job[j].inputs /\ new.since = job[j].since
    BY <2>2 DEF SharedInv, TypeOK, JobStates
  <2> HIDE DEF new
  <2>7. OnlyMoves(j) /\ job'[j] = new
    BY <2>5 DEF SharedInv, TypeOK, OnlyMoves
  <2> QED
    BY <2>1, <2>6, <2>7 DEF KeepsInput
<1> QED
  BY <1>1, <1>2, <1>3, <1>4

\* The opening of a destination cuts no input.
LEMMA OpenKeeps ==
    ASSUME SharedInv, NEW j \in Jobs, NEW r \in Roles, NEW next, OpensAt(j, r, next),
           Open(j, r, next), UNCHANGED <<edits, struck>>
    PROVE  SharedInv'
<1> PICK c, S : c = job[j].cmd /\ S = job[j].inputs
  OBVIOUS
<1> PICK p : p = Destination(c, r)
  OBVIOUS
<1>1. CASE InodeOf(p) = Directory
  <2>1. Return(j, 3) /\ UNCHANGED fs
    BY <1>1 DEF Open
  <2> QED
    BY <2>1, ReturnKeeps DEF OpensAt, Busy, Codes, SharedInv, TypeOK
<1>2. CASE InodeOf(p) # Directory
  <2>1. /\ c \in Commands /\ r \in Requested(c) /\ p \in Paths
        /\ <<j, r>> \notin DOMAIN data /\ Truncate(j, r, p)
        /\ OnlyMoves(j) /\ KeepsInput(j) /\ job'[j].pc = next
        /\ job'[j].open = InodeOf(p)'
    BY <1>2, OpenShape
  <2>2. /\ FileTypes' /\ NamesStep
        /\ InodeOf(p)' \in DOMAIN data'
        /\ data'[InodeOf(p)'] = [kind |-> "partial", by |-> j]
        /\ \A i \in DOMAIN data : i # InodeOf(p)' => data'[i] = data[i]
        /\ DOMAIN data' = DOMAIN data \cup {InodeOf(p)'}
        /\ InodeOf(p)' \in DOMAIN data \/ InodeOf(p)' = <<j, r>>
    <3>1. r \in {"out", "doc", "exe"} /\ FileTypes /\ NamesOK
      BY DEF SharedInv, TypeOK, Roles
    <3>2. FileTypes' /\ Cut(j, r, p)
      BY <2>1, <3>1, TruncateShape
    <3> QED
      BY <3>2 DEF Cut
  <2>3. /\ S \in SUBSET Sources /\ S \subseteq Paths
        /\ JobOK(j) /\ FileTypes /\ NamesOK
    BY FileSystemAssumption DEF SharedInv, TypeOK, JobStates
  <2>4. \A k \in Jobs \ {j} : SparesData(k)
    BY <2>2 DEF SparesData, ByJob
  <2>5. \A s \in {"out", "doc"} : <<j, s>> \in DOMAIN data' => <<j, s>> \in DOMAIN data \/ s = r
    <3>1. \A s : <<j, s>> = <<j, r>> => s = r
      OBVIOUS
    <3> QED
      BY <2>2, <3>1
  <2>6. PlaceOK(j)'
    BY <2>1, <2>3 DEF OpensAt, JobOK, PlaceOK, KeepsInput, Busy, Idle, Guarded
  <2>7. FreshOK(j)'
    BY <2>1, <2>3, <2>5 DEF OpensAt, JobOK, FreshOK, AfterOut, AfterDoc
  <2>8. ~Conflict(c, S) /\ ~Conflict(c, S)'
    <3>1. ~Conflict(c, S)
      BY <2>3 DEF OpensAt, JobOK, ApartOK, Guarded
    <3> QED
      BY <2>1, <2>2, <2>3, <3>1, ConflictStays
  <2>9. ApartOK(j)'
    BY <2>1, <2>8 DEF ApartOK, KeepsInput
  <2>10. \A q \in S : InodeOf(q)' # InodeOf(p)'
    <3>1. \A q \in S : ~Aliased(p, q)'
      BY <2>1, <2>8 DEF Conflict
    <3>2. InodeOf(p)' # Absent
      BY <2>2, NewInodesApart, FileSystemAssumption DEF FileTypes, Inodes
    <3> QED
      BY <3>1, <3>2 DEF Aliased, SameFile, Exists
  <2>11. OpenOK(j)'
    BY <2>1, <2>2, <2>10 DEF OpenOK, KeepsInput
  <2>12. UntouchedOK(j)'
    BY <2>1 DEF OpensAt, UntouchedOK, Early, Idle
  <2>13. InputsOK(j)'
    <3>1. SUFFICES ASSUME NEW q \in S, IsFile(q)', ByJob(data[InodeOf(q)], j)'
                   PROVE  FALSE
      BY <2>1 DEF InputsOK, KeepsInput
    <3>2. InodeOf(q)' \in DOMAIN data'
      BY <2>2, <2>3, <3>1, NamesKeepOK DEF NamesOK, IsFile, InodeOf, Resolve, FileTypes
    <3>3. InodeOf(q)' \in DOMAIN data /\ data'[InodeOf(q)'] = data[InodeOf(q)']
      BY <2>2, <2>10, <3>2
    <3>4. InodeOf(q)' = InodeOf(q)
      BY <2>2, <2>3, <3>3, InodeMoves
    <3>5. IsFile(q) /\ ByJob(data[InodeOf(q)], j)
      BY <3>1, <3>3, <3>4 DEF IsFile, ByJob
    <3> QED
      BY <2>3, <3>5 DEF JobOK, InputsOK
  <2>14. JobOK(j)'
    BY <2>6, <2>7, <2>9, <2>11, <2>12, <2>13 DEF JobOK
  <2> QED
    BY <2>1, <2>2, <2>4, <2>14, MoverKeeps DEF SharedInv, TypeOK
<1> QED
  BY <1>1, <1>2

\* The completion of the output, and of the report.
WritesAt(j, r, next) ==
  \/ job[j].pc = "writing" /\ r = "out" /\ next = AfterOutput(job[j].cmd)
  \/ job[j].pc = "documenting" /\ r = "doc" /\ next = "emit"

\* The open file is completed and its path is set.
LEMMA WriteShape ==
    ASSUME SharedInv, NEW j \in Jobs, NEW r \in Roles, NEW next, WritesAt(j, r, next),
           Write(j, r, next), NEW o, o = job[j].open
    PROVE  /\ o \in DOMAIN data /\ FileTypes' /\ Completed(j, r, o)
           /\ OnlyMoves(j) /\ KeepsInput(j) /\ job'[j].pc = next
           /\ job'[j].done = job[j].done \cup {r}
           /\ next \in {"document", "emit"}
<1>1. o \in DOMAIN data
  BY DEF SharedInv, JobOK, OpenOK, WritesAt
<1>2. FileTypes' /\ Completed(j, r, o)
  BY <1>1, FillShape DEF Write, SharedInv, TypeOK, Roles
<1>3. next \in {"document", "emit"}
  BY DEF WritesAt, AfterOutput
<1> DEFINE new == [job[j] EXCEPT !.pc = next, !.open = Absent, !.done = @ \cup {r}]
<1>4. new \in JobStates /\ job' = [job EXCEPT ![j] = new]
  BY <1>3 DEF Write, SharedInv, TypeOK, JobStates, Stages, Busy
<1>5. /\ new.pc = next /\ new.done = job[j].done \cup {r}
      /\ new.cmd = job[j].cmd /\ new.read = job[j].read
      /\ new.inputs = job[j].inputs /\ new.since = job[j].since
  BY DEF SharedInv, TypeOK, JobStates
<1> HIDE DEF new
<1>6. OnlyMoves(j) /\ job'[j] = new
  BY <1>4 DEF SharedInv, TypeOK, OnlyMoves
<1> QED
  BY <1>1, <1>2, <1>3, <1>5, <1>6 DEF KeepsInput

\* What is written through an open file gets into no input.
LEMMA WriteKeeps ==
    ASSUME SharedInv, NEW j \in Jobs, NEW r \in Roles, NEW next, WritesAt(j, r, next),
           Write(j, r, next), UNCHANGED <<edits, struck>>
    PROVE  SharedInv'
<1> PICK c, S, o : c = job[j].cmd /\ S = job[j].inputs /\ o = job[j].open
  OBVIOUS
<1>1. /\ o \in DOMAIN data /\ FileTypes' /\ Completed(j, r, o)
      /\ OnlyMoves(j) /\ KeepsInput(j) /\ job'[j].pc = next
      /\ next \in {"document", "emit"}
  BY WriteShape
<1>2. /\ NamesStep /\ link' = link /\ entry' = entry
      /\ data'[o] = [kind |-> r, by |-> j]
      /\ \A k \in DOMAIN data : k # o => data'[k] = data[k]
      /\ DOMAIN data' = DOMAIN data
  BY <1>1 DEF Completed
<1>3. /\ S \in SUBSET Sources /\ S \subseteq Paths /\ c \in Commands
      /\ JobOK(j) /\ FileTypes /\ NamesOK
  BY FileSystemAssumption DEF SharedInv, TypeOK, JobStates, JobOK, PlaceOK, WritesAt, Idle
<1>4. \A k \in Jobs \ {j} : SparesData(k)
  BY <1>2 DEF SparesData, ByJob
<1>5. PlaceOK(j)'
  BY <1>1, <1>3, DestinationTypes
     DEF WritesAt, JobOK, PlaceOK, KeepsInput, AfterOutput, Busy, Idle, Guarded
<1>6. FreshOK(j)'
  BY <1>1, <1>2, <1>3 DEF WritesAt, JobOK, FreshOK, AfterOut, AfterDoc
<1>7. ApartOK(j)'
  <2>1. ~Conflict(c, S)
    BY <1>3 DEF WritesAt, JobOK, ApartOK, Guarded
  <2>2. ~Conflict(c, S)'
    BY <1>2, <1>3, <2>1, ConflictStays
  <2> QED
    BY <1>1, <2>2 DEF ApartOK, KeepsInput
<1>8. OpenOK(j)' /\ UntouchedOK(j)'
  BY <1>1 DEF OpenOK, UntouchedOK, Early, Idle
<1>9. InputsOK(j)'
  <2>1. SUFFICES ASSUME NEW q \in S, IsFile(q)', ByJob(data[InodeOf(q)], j)'
                 PROVE  FALSE
    BY <1>1 DEF InputsOK, KeepsInput
  <2>2. InodeOf(q)' = InodeOf(q) /\ InodeOf(q) # o
    BY <1>2, <1>3 DEF InodeOf, Resolve, WritesAt, JobOK, OpenOK
  <2>3. IsFile(q) /\ InodeOf(q) \in DOMAIN data
    BY <1>3, <2>1, <2>2, InodeTypes DEF IsFile
  <2>4. ByJob(data[InodeOf(q)], j)
    BY <1>2, <2>1, <2>2, <2>3 DEF ByJob
  <2> QED
    BY <1>3, <2>3, <2>4 DEF JobOK, InputsOK
<1>10. JobOK(j)'
  BY <1>5, <1>6, <1>7, <1>8, <1>9 DEF JobOK
<1> QED
  BY <1>1, <1>2, <1>4, <1>10, MoverKeeps DEF SharedInv, TypeOK

\* An edit puts a text into one file.
LEMMA EditShape ==
    ASSUME FileTypes, NamesOK, Edit
    PROVE  /\ FileTypes' /\ NamesStep /\ \A k \in Jobs : SparesData(k)
           /\ link' = link /\ entry' = entry /\ DOMAIN data' = DOMAIN data
           /\ \A i \in DOMAIN data : data'[i] = data[i] \/ data'[i] \in Texts
<1>1. PICK p \in Sources, t \in Texts :
        IsFile(p) /\ data' = [data EXCEPT ![InodeOf(p)] = t]
  BY DEF Edit
<1>2. link' = link /\ entry' = entry /\ DOMAIN data' = DOMAIN data
  BY <1>1 DEF Edit
<1>3. InodeOf(p) \in DOMAIN data
  BY <1>1, InodeTypes, FileSystemAssumption
<1>4. \A i \in DOMAIN data : data'[i] = data[i] \/ data'[i] = t
  BY <1>1, <1>3 DEF FileTypes
<1>5. t \in Contents /\ t \notin Written
  BY FreshAssumption DEF Contents
<1>6. data' \in [DOMAIN data' -> Contents]
  BY <1>1, <1>3, <1>5 DEF FileTypes
<1> QED
  BY <1>2, <1>4, <1>5, <1>6 DEF FileTypes, NamesStep, SparesData, ByJob

\* An edit puts a text, which nobody's invocation has written.
LEMMA EditKeeps ==
    ASSUME SharedInv, Edit
    PROVE  SharedInv'
<1>1. FileTypes' /\ NamesStep /\ \A k \in Jobs : SparesData(k)
  BY EditShape DEF SharedInv, TypeOK
<1>2. job' = job /\ edits' = edits + 1 /\ struck' = struck
  BY DEF Edit
<1>3. \A k \in Jobs : JobOK(k)'
  BY <1>1, <1>2, OthersKeepOK
<1>4. NamesOK'
  BY <1>1, NamesKeepOK DEF SharedInv, TypeOK
<1> QED
  BY <1>1, <1>2, <1>3, <1>4 DEF SharedInv, TypeOK

\* A step of an invocation is one of those above.
LEMMA ProceedKeeps ==
    ASSUME SharedInv, NEW j \in Jobs, Proceed(j)
    PROVE  SharedInv'
<1>1. CASE ReadEntry(j) \/ Frontend(j) \/ LoadImports(j) \/ Analyze(j)
           \/ CheckPaths(j) \/ Generate(j) \/ Emit(j)
  BY <1>1, ReadEntryKeeps, FrontendKeeps, LoadImportsKeeps, AnalyzeKeeps,
     CheckPathsKeeps, GenerateKeeps, EmitKeeps
<1>2. CASE OpenOutput(j)
  BY <1>2, OpenKeeps DEF OpenOutput, OpensAt, At, Roles
<1>3. CASE OpenDoc(j)
  BY <1>3, OpenKeeps DEF OpenDoc, OpensAt, At, Roles
<1>4. CASE WriteOutput(j)
  BY <1>4, WriteKeeps DEF WriteOutput, WritesAt, At, Roles
<1>5. CASE WriteDoc(j)
  BY <1>5, WriteKeeps DEF WriteDoc, WritesAt, At, Roles
<1> QED
  BY <1>1, <1>2, <1>3, <1>4, <1>5 DEF Proceed

\* The invariant on what invocations share holds at first.
LEMMA SharedInit == Init => SharedInv
<1> SUFFICES ASSUME Init
             PROVE  SharedInv
  OBVIOUS
<1>1. NewJob \in JobStates
  BY DEF NewJob, JobStates, Stages, Codes, Idle
<1>2. FileTypes
  BY FileSystemAssumption, TextAssumption DEF Init, FileTypes, Inodes, Contents
<1>3. TypeOK
  BY <1>1, <1>2 DEF Init, TypeOK
<1>4. NamesOK
  BY FileSystemAssumption, TextAssumption DEF Init, NamesOK
<1>5. ASSUME NEW k \in Jobs
      PROVE  JobOK(k)
  <2>1. job[k].pc = Idle /\ job[k].inputs = {}
    BY DEF Init, NewJob
  <2>2. \A i \in DOMAIN data : data[i] \notin Written
    BY TextAssumption, FreshAssumption DEF Init
  <2>3. <<k, "out">> \notin DOMAIN data /\ <<k, "doc">> \notin DOMAIN data
    <3>1. <<k, "out">> \in NewInodes /\ <<k, "doc">> \in NewInodes
      BY DEF NewInodes
    <3> QED
      BY <3>1, NewInodesApart, TextAssumption DEF Init
  <2>4. PlaceOK(k) /\ ApartOK(k) /\ OpenOK(k) /\ InputsOK(k)
    BY <2>1 DEF PlaceOK, ApartOK, OpenOK, InputsOK, Busy, Idle, Guarded
  <2>5. FreshOK(k) /\ UntouchedOK(k)
    BY <2>2, <2>3 DEF FreshOK, UntouchedOK, ByJob
  <2> QED
    BY <2>4, <2>5 DEF JobOK
<1> QED
  BY <1>3, <1>4, <1>5 DEF SharedInv

\* It survives every step.
LEMMA SharedNext == SharedInv /\ [Next]_vars => SharedInv'
<1> SUFFICES ASSUME SharedInv, [Next]_vars
             PROVE  SharedInv'
  OBVIOUS
<1>1. ASSUME NEW j \in Jobs, (\E c \in Commands : Start(j, c)) \/ Proceed(j) \/ Fault(j)
      PROVE  SharedInv'
  BY <1>1, StartKeeps, ProceedKeeps, FaultKeeps
<1>2. CASE Edit
  BY <1>2, EditKeeps
<1>3. CASE UNCHANGED vars
  BY <1>3 DEF vars, SharedInv, TypeOK, FileTypes, NamesOK, JobOK, PlaceOK, FreshOK, ApartOK,
     OpenOK, UntouchedOK, InputsOK, Conflict, Aliased, SameFile, Exists, IsFile, InodeOf,
     Resolve, ByJob
<1> QED
  BY <1>1, <1>2, <1>3 DEF Next

\* Whatever the file system, the command lines and the texts, all states are
\* well-typed: places, codes, inputs and files are of the kinds compile.py uses.
THEOREM CompileTypes == Spec => []TypeOK
<1>1. Spec => []SharedInv
  BY SharedInit, SharedNext, PTL DEF Spec
<1>2. SharedInv => TypeOK
  BY DEF SharedInv
<1> QED
  BY <1>1, <1>2, PTL

(***************************************************************************)
(* InputsSurvive                                                           *)
(***************************************************************************)
\* What a step does to files: nothing, or it cuts one, completes one, or puts a
\* text into one.
LEMMA StepShape ==
    ASSUME SharedInv, [Next]_vars
    PROVE  \/ UNCHANGED fs /\ edits' = edits /\ struck \subseteq struck'
           \/ \E j \in Jobs, r \in Roles, next \in Stages :
                OpensAt(j, r, next) /\ Open(j, r, next) /\ UNCHANGED <<edits, struck>>
           \/ \E j \in Jobs, r \in Roles, next \in Stages :
                WritesAt(j, r, next) /\ Write(j, r, next) /\ UNCHANGED <<edits, struck>>
           \/ Edit
<1>1. ASSUME NEW j \in Jobs, OpenOutput(j) \/ OpenDoc(j)
      PROVE  \E r \in Roles, next \in Stages :
               OpensAt(j, r, next) /\ Open(j, r, next) /\ UNCHANGED <<edits, struck>>
  BY <1>1 DEF OpenOutput, OpenDoc, OpensAt, At, Roles, Stages, Busy
<1>2. ASSUME NEW j \in Jobs, WriteOutput(j) \/ WriteDoc(j)
      PROVE  \E r \in Roles, next \in Stages :
               WritesAt(j, r, next) /\ Write(j, r, next) /\ UNCHANGED <<edits, struck>>
  <2>1. AfterOutput(job[j].cmd) \in Stages /\ "emit" \in Stages
    BY DEF AfterOutput, Stages, Busy
  <2> QED
    BY <1>2, <2>1 DEF WriteOutput, WriteDoc, WritesAt, At, Roles
<1>3. ASSUME NEW j \in Jobs, NEW c \in Commands, Start(j, c)
      PROVE  UNCHANGED fs /\ edits' = edits /\ struck' = struck
  BY <1>3 DEF Start, fs
<1>4. ASSUME NEW j \in Jobs, Fault(j)
      PROVE  UNCHANGED fs /\ edits' = edits /\ struck \subseteq struck'
  BY <1>4 DEF Fault, CallFails, Bug, Kill, Strike, fs
<1>5. ASSUME NEW j \in Jobs, Proceed(j), ~(OpenOutput(j) \/ OpenDoc(j)),
             ~(WriteOutput(j) \/ WriteDoc(j))
      PROVE  UNCHANGED fs /\ edits' = edits /\ struck' = struck
  BY <1>5 DEF Proceed, ReadEntry, Frontend, LoadImports, Analyze, CheckPaths, Generate, Emit, fs
<1> QED
  BY <1>1, <1>2, <1>3, <1>4, <1>5 DEF Next, vars, fs

\* A step of an invocation is its own, and leaves its command and its start alone.
Advances(j) ==
  OnlyMoves(j) /\ job'[j].cmd = job[j].cmd /\ job'[j].since = job[j].since

\* A step of an invocation moves it alone.
LEMMA StepMoves ==
    ASSUME SharedInv, NEW j \in Jobs
    PROVE  /\ \A c \in Commands : Start(j, c) => OnlyMoves(j) /\ edits' = edits
           /\ Proceed(j) \/ Fault(j) => Advances(j) /\ edits' = edits
<1>1. \A c \in Commands : Start(j, c) => OnlyMoves(j) /\ edits' = edits
  BY StartShape DEF SharedInv
<1>2. ASSUME Proceed(j) \/ Fault(j)
      PROVE  Advances(j)
  <2>1. ASSUME NEW code \in Codes, Return(j, code)
        PROVE  Advances(j)
    BY <2>1, ReturnShape DEF SharedInv, KeepsInput, Advances
  <2>2. ASSUME NEW pc \in Stages, Goto(j, pc)
        PROVE  Advances(j)
    BY <2>2, GotoShape DEF SharedInv, KeepsInput, Advances
  <2>3. CASE ReadEntry(j)
    <3> PICK f : f = File(j)
      OBVIOUS
    <3>1. CASE IsFile(f) /\ f \in Sources
      BY <2>3, <3>1, ReadEntryShape DEF Advances
    <3>2. CASE ~(IsFile(f) /\ f \in Sources)
      BY <2>1, <2>3, <3>2, ReadEntryShape DEF Codes
    <3> QED
      BY <3>1, <3>2
  <2>4. CASE Frontend(j)
    <3>1. AfterFrontend(Mode(j)) \in Stages
      BY DEF AfterFrontend, Stages, Busy
    <3> QED
      BY <2>1, <2>2, <2>4, <3>1 DEF Frontend, Codes
  <2>5. CASE LoadImports(j)
    <3>1. CASE \E p : RejectModule(j, p)
      BY <2>1, <3>1 DEF RejectModule, Codes
    <3>2. CASE Advances(j)
      BY <3>2
    <3> QED
      BY <2>5, <3>1, <3>2, LoadImportsShape DEF Advances
  <2>6. CASE Analyze(j)
    BY <2>1, <2>2, <2>6 DEF Analyze, Codes, Stages, Busy
  <2>7. CASE CheckPaths(j)
    BY <2>1, <2>2, <2>7 DEF CheckPaths, Codes, Stages, Busy
  <2>8. CASE Generate(j)
    <3>1. AfterOutput(job[j].cmd) \in Stages /\ "output" \in Stages
      BY DEF AfterOutput, Stages, Busy
    <3> QED
      BY <2>1, <2>2, <2>8, <3>1 DEF Generate, Codes
  <2>9. CASE Emit(j)
    BY <2>1, <2>9 DEF Emit, Codes
  <2>10. ASSUME NEW r \in Roles, NEW next, OpensAt(j, r, next), Open(j, r, next)
         PROVE  Advances(j)
    <3> PICK p : p = Destination(job[j].cmd, r)
      OBVIOUS
    <3>1. CASE InodeOf(p) = Directory
      BY <2>1, <2>10, <3>1 DEF Open, Codes
    <3>2. CASE InodeOf(p) # Directory
      <4>1. OnlyMoves(j) /\ KeepsInput(j)
        BY <2>10, <3>2, OpenShape
      <4> QED
        BY <4>1 DEF KeepsInput, Advances
    <3> QED
      BY <3>1, <3>2
  <2>11. ASSUME NEW r \in Roles, NEW next, WritesAt(j, r, next), Write(j, r, next)
         PROVE  Advances(j)
    BY <2>11, WriteShape DEF KeepsInput, Advances
  <2>12. CASE OpenOutput(j) \/ OpenDoc(j)
    BY <2>10, <2>12 DEF OpenOutput, OpenDoc, OpensAt, At, Roles
  <2>13. CASE WriteOutput(j) \/ WriteDoc(j)
    BY <2>11, <2>13 DEF WriteOutput, WriteDoc, WritesAt, At, Roles
  <2>14. CASE Fault(j)
    BY <2>1, <2>2, <2>14 DEF Fault, CallFails, Bug, Kill, Codes, Stages
  <2> QED
    BY <1>2, <2>3, <2>4, <2>5, <2>6, <2>7, <2>8, <2>9, <2>12, <2>13, <2>14 DEF Proceed
<1>3. ASSUME Proceed(j) \/ Fault(j)
      PROVE  edits' = edits
  BY <1>3 DEF Proceed, Fault, CallFails, Bug, Kill, Strike, ReadEntry, Frontend,
              LoadImports, Analyze, CheckPaths, Generate, Emit, OpenOutput, OpenDoc,
              WriteOutput, WriteDoc
<1> QED
  BY <1>1, <1>2, <1>3

\* A destination that is opened stands for no input's file, before or after.
LEMMA OpenSparesInputs ==
    ASSUME SharedInv, NEW j \in Jobs, NEW r \in Roles, NEW next, OpensAt(j, r, next),
           Open(j, r, next), NEW q \in job[j].inputs, InodeOf(q) \in DOMAIN data
    PROVE  data'[InodeOf(q)] = data[InodeOf(q)]
<1> PICK c, S, i : c = job[j].cmd /\ S = job[j].inputs /\ i = InodeOf(q)
  OBVIOUS
<1> PICK p : p = Destination(c, r)
  OBVIOUS
<1>1. CASE InodeOf(p) = Directory
  BY <1>1 DEF Open, fs
<1>2. CASE InodeOf(p) # Directory
  <2>1. /\ c \in Commands /\ r \in Requested(c) /\ p \in Paths
        /\ <<j, r>> \notin DOMAIN data /\ Truncate(j, r, p)
    BY <1>2, OpenShape
  <2>2. Cut(j, r, p)
    <3>1. r \in {"out", "doc", "exe"} /\ FileTypes /\ NamesOK
      BY DEF SharedInv, TypeOK, Roles
    <3> QED
      BY <2>1, <3>1, TruncateShape
  <2>3. ~Aliased(p, q)
    BY <2>1 DEF SharedInv, JobOK, ApartOK, OpensAt, Guarded, Conflict
  <2>4. i # Absent
    BY NewInodesApart, FileSystemAssumption DEF SharedInv, TypeOK, FileTypes, Inodes
  <2>5. InodeOf(p) # i
    BY <2>3, <2>4 DEF Aliased, SameFile, Exists
  <2>6. InodeOf(p)' # i
    BY <2>1, <2>2, <2>5, InodeStays DEF Cut, SharedInv, TypeOK
  <2> QED
    BY <2>2, <2>6 DEF Cut
<1> QED
  BY <1>1, <1>2

\* No step of an invocation changes a file that it has read as a source.
LEMMA InputsSurviveStep ==
    ASSUME SharedInv, [Next]_vars, NEW j \in Jobs, NEW q \in job[j].inputs,
           InodeOf(q) \in DOMAIN data, data'[InodeOf(q)] # data[InodeOf(q)]
    PROVE  ~ByJob(data'[InodeOf(q)], j)
<1> PICK i : i = InodeOf(q)
  OBVIOUS
<1>1. CASE Edit
  BY <1>1, EditShape, FreshAssumption DEF SharedInv, TypeOK, ByJob
<1>2. ASSUME NEW k \in Jobs, NEW r \in Roles, NEW next \in Stages,
             OpensAt(k, r, next), Open(k, r, next)
      PROVE  ~ByJob(data'[i], j)
  <2>1. k # j
    BY <1>2, OpenSparesInputs
  <2> PICK p : p = Destination(job[k].cmd, r)
    OBVIOUS
  <2>2. CASE InodeOf(p) = Directory
    BY <1>2, <2>2 DEF Open, fs
  <2>3. CASE InodeOf(p) # Directory
    <3>1. p \in Paths /\ <<k, r>> \notin DOMAIN data /\ Truncate(k, r, p)
      BY <1>2, <2>3, OpenShape
    <3>2. r \in {"out", "doc", "exe"} /\ FileTypes /\ NamesOK
      BY DEF SharedInv, TypeOK, Roles
    <3>3. Cut(k, r, p)
      BY <3>1, <3>2, TruncateShape
    <3> QED
      BY <2>1, <3>3 DEF Cut, ByJob
  <2> QED
    BY <2>2, <2>3
<1>3. ASSUME NEW k \in Jobs, NEW r \in Roles, NEW next \in Stages,
             WritesAt(k, r, next), Write(k, r, next)
      PROVE  ~ByJob(data'[i], j)
  <2> PICK o : o = job[k].open
    OBVIOUS
  <2>1. Completed(k, r, o)
    BY <1>3, WriteShape
  <2>2. i = o
    BY <2>1 DEF Completed
  <2>3. k # j
    BY <1>3, <2>2 DEF SharedInv, JobOK, OpenOK, WritesAt
  <2> QED
    BY <2>1, <2>2, <2>3 DEF Completed, ByJob
<1>4. CASE UNCHANGED fs
  BY <1>4 DEF fs
<1> QED
  BY <1>1, <1>2, <1>3, <1>4, StepShape

\* No invocation ever truncates or replaces a file that it has read as a source,
\* whatever links the file system holds and whatever other invocations create
\* between _artifact_path_conflict and the opening of the destination.
THEOREM SourcesSurvive == Spec => InputsSurvive
<1>1. SharedInv /\ [Next]_vars
        => [\A j \in Jobs : \A p \in job[j].inputs :
              LET i == InodeOf(p) IN
                (i \in DOMAIN data /\ data'[i] # data[i]) => ~ByJob(data'[i], j)]_vars
  BY InputsSurviveStep
<1>2. Init => SharedInv
  BY SharedInit
<1>3. SharedInv /\ [Next]_vars => SharedInv'
  BY SharedNext
<1> QED
  BY <1>1, <1>2, <1>3, PTL DEF Spec, InputsSurvive

(***************************************************************************)
(* The inductive invariant on results                                      *)
(***************************************************************************)
\* The file of an output or a report of k.
TargetOf(k, r) == InodeOf(Destination(job[k].cmd, r))

Writing(k, r) ==
  \/ job[k].pc = "writing" /\ r = "out"
  \/ job[k].pc = "documenting" /\ r = "doc"

\* A call ended in the middle of a write.
Interrupted(k) ==
  \/ job[k].pc = "killed"
  \/ job[k].pc = "returned" /\ job[k].exit = 3 /\ k \in struck

\* The paths that are set are those of the files completed so far: at the end of
\* a success all that were requested, and a result lists all of them.
DoneOK(k) ==
  LET pc   == job[k].pc
      c    == job[k].cmd
      done == job[k].done
  IN  /\ done \subseteq Requested(c)
      /\ pc \in Early \cup {"writing"} => done = {}
      /\ pc \in {"document", "documenting"} => done = Requested(c) \ {"doc"}
      /\ pc = "emit" => done = Requested(c)
      /\ pc = "returned" => job[k].listed = done
      /\ pc = "returned" /\ job[k].exit = 0 => done = Requested(c)
      /\ \A r \in done : IsFile(Destination(c, r))
                         /\ (edits = 0 => data[TargetOf(k, r)] \in Written)

\* A file that holds what k has written is one of its destinations, which have
\* different files; it is complete if its path is set, and truncated only while
\* or after it was being written.
TraceOK(k) ==
  LET c == job[k].cmd IN
  /\ \A r \in Roles : Writing(k, r) => job[k].open = TargetOf(k, r)
  /\ \A i \in DOMAIN data : ByJob(data[i], k) =>
       /\ Requested(c) = Roles => ~Aliased(DocPath(c), OutPath(c))
       /\ \E r \in Requested(c) :
            /\ i = TargetOf(k, r)
            /\ \/ r \in job[k].done /\ data[i].kind = r
               \/ /\ r \notin job[k].done /\ data[i].kind = "partial"
                  /\ Writing(k, r) \/ Interrupted(k)

\* A call that is refused has completed nothing, but where the report could not
\* be opened or something failed.
RefusedOK(k) ==
  job[k].pc = "returned" /\ job[k].exit # 0 /\ job[k].done # {} =>
    \/ job[k].exit \in {3, 8} /\ k \in struck
    \/ /\ job[k].exit = 3 /\ "doc" \in Requested(job[k].cmd)
       /\ TargetOf(k, "doc") = Directory

ResultOK(k) == DoneOK(k) /\ TraceOK(k) /\ RefusedOK(k)

ResultInv == SharedInv /\ \A k \in Jobs : ResultOK(k)

\* Names that stand for something keep it, and a fault is not forgotten; what an
\* invocation has written is replaced by another's writing or by an edit only.
Grows ==
  /\ link' = link
  /\ \A q \in Paths : Exists(q) => InodeOf(q)' = InodeOf(q)
  /\ DOMAIN data \subseteq DOMAIN data'
  /\ struck \subseteq struck'
  /\ edits' = 0 =>
       edits = 0 /\ \A i \in DOMAIN data : data[i] \in Written => data'[i] \in Written

\* The opening of a file lets the disk grow.
LEMMA OpenGrows ==
    ASSUME SharedInv, NEW j \in Jobs, NEW r \in Roles, NEW next, OpensAt(j, r, next),
           Open(j, r, next), UNCHANGED <<edits, struck>>
    PROVE  FileTypes' /\ NamesStep /\ Grows /\ \A k \in Jobs \ {j} : SparesData(k)
<1> PICK p : p = Destination(job[j].cmd, r)
  OBVIOUS
<1>1. CASE InodeOf(p) = Directory
  <2>1. UNCHANGED fs
    BY <1>1 DEF Open
  <2> QED
    BY <2>1 DEF fs, Grows, NamesStep, FileTypes, SparesData, SharedInv, TypeOK, InodeOf, Resolve
<1>2. CASE InodeOf(p) # Directory
  <2>1. p \in Paths /\ <<j, r>> \notin DOMAIN data /\ Truncate(j, r, p)
    BY <1>2, OpenShape
  <2>2. r \in {"out", "doc", "exe"} /\ FileTypes /\ NamesOK
    BY DEF SharedInv, TypeOK, Roles
  <2>3. FileTypes' /\ Cut(j, r, p)
    BY <2>1, <2>2, TruncateShape
  <2>4. [kind |-> "partial", by |-> j] \in Written
    BY DEF Written
  <2> QED
    BY <2>3, <2>4 DEF Cut, Grows, SparesData, ByJob
<1> QED
  BY <1>1, <1>2

\* So does the completion of one.
LEMMA WriteGrows ==
    ASSUME SharedInv, NEW j \in Jobs, NEW r \in Roles, NEW next, WritesAt(j, r, next),
           Write(j, r, next), UNCHANGED <<edits, struck>>
    PROVE  FileTypes' /\ NamesStep /\ Grows /\ \A k \in Jobs \ {j} : SparesData(k)
<1> PICK o : o = job[j].open
  OBVIOUS
<1>1. FileTypes' /\ Completed(j, r, o)
  BY WriteShape
<1>2. [kind |-> r, by |-> j] \in Written
  BY DEF Written, Roles
<1> QED
  BY <1>1, <1>2 DEF Completed, Grows, SparesData, ByJob, InodeOf, Resolve

\* A step of another invocation.
LEMMA OthersKeepResult ==
    ASSUME SharedInv, NEW k \in Jobs, ResultOK(k), NamesStep, Grows, SparesData(k),
           job'[k] = job[k]
    PROVE  ResultOK(k)'
<1> PICK c, done : c = job[k].cmd /\ done = job[k].done
  OBVIOUS
<1>0. FileTypes /\ NamesOK /\ JobOK(k) /\ done \subseteq Requested(c)
  BY DEF SharedInv, TypeOK, ResultOK, DoneOK
<1>1. CASE job[k].pc = Idle
  <2>1. done = {} /\ \A i \in DOMAIN data : ~ByJob(data[i], k)
    BY <1>0, <1>1 DEF ResultOK, DoneOK, JobOK, UntouchedOK, Early
  <2>2. \A i \in DOMAIN data' : ~ByJob(data'[i], k)
    BY <2>1 DEF SparesData
  <2>3. TraceOK(k)'
    BY <1>1, <2>2 DEF TraceOK, Writing, Idle, ByJob
  <2>4. DoneOK(k)' /\ RefusedOK(k)'
    BY <1>1, <2>1 DEF DoneOK, RefusedOK, Idle
  <2> QED
    BY <2>3, <2>4 DEF ResultOK
<1>2. CASE job[k].pc # Idle
  <2>1. c \in Commands
    BY <1>0, <1>2 DEF JobOK, PlaceOK
  <2>2. \A r \in Requested(c) : r \in Roles /\ Destination(c, r) \in Paths
    BY <2>1, DestinationTypes
  <2>3. \A r \in Requested(c) : TargetOf(k, r) # Absent => TargetOf(k, r)' = TargetOf(k, r)
    BY <2>2 DEF Grows, TargetOf, Exists
  <2>4. Absent \notin DOMAIN data
    BY <1>0, FileSystemAssumption, NewInodesApart DEF FileTypes, Inodes
  <2>5. \A r \in done : /\ IsFile(Destination(c, r))'
                        /\ edits' = 0 => data'[TargetOf(k, r)'] \in Written
    <3>1. \A r \in done : /\ IsFile(Destination(c, r))
                          /\ edits = 0 => data[TargetOf(k, r)] \in Written
      BY DEF ResultOK, DoneOK
    <3>2. \A r \in done : TargetOf(k, r) \in DOMAIN data
      BY <1>0, <2>2, <3>1, InodeTypes DEF TargetOf
    <3>3. \A r \in done : TargetOf(k, r)' = TargetOf(k, r)
      BY <1>0, <2>3, <2>4, <3>2
    <3> QED
      BY <3>1, <3>2, <3>3 DEF Grows, TargetOf, IsFile
  <2>6. DoneOK(k)'
    BY <2>5 DEF ResultOK, DoneOK
  <2>7. \A r \in Roles : Writing(k, r)' => (job[k].open = TargetOf(k, r))'
    <3>1. \A r \in Roles : Writing(k, r) =>
            r \in Requested(c) /\ job[k].open = TargetOf(k, r) /\ job[k].open \in DOMAIN data
      BY <1>0 DEF ResultOK, TraceOK, JobOK, PlaceOK, OpenOK, Writing
    <3> QED
      BY <2>3, <2>4, <3>1 DEF Writing
  <2>8. ASSUME NEW i \in DOMAIN data', ByJob(data'[i], k)
        PROVE  /\ Requested(c) = Roles => ~Aliased(DocPath(c), OutPath(c))'
               /\ \E r \in Requested(c) :
                    /\ i = TargetOf(k, r)'
                    /\ \/ r \in done /\ data'[i].kind = r
                       \/ /\ r \notin done /\ data'[i].kind = "partial"
                          /\ Writing(k, r)' \/ Interrupted(k)'
    <3>1. i \in DOMAIN data /\ data'[i] = data[i]
      BY <2>8 DEF SparesData
    <3>2. Requested(c) = Roles => ~Aliased(DocPath(c), OutPath(c))'
      <4>1. Requested(c) = Roles => ~Aliased(DocPath(c), OutPath(c))
        BY <2>8, <3>1 DEF ResultOK, TraceOK
      <4>2. Requested(c) = Roles => DocPath(c) \in Paths /\ OutPath(c) \in Paths
        BY <2>2 DEF Destination, Roles
      <4> QED
        BY <1>0, <4>1, <4>2, ApartStays
    <3>3. PICK r \in Requested(c) :
            /\ i = TargetOf(k, r)
            /\ \/ r \in done /\ data[i].kind = r
               \/ /\ r \notin done /\ data[i].kind = "partial"
                  /\ Writing(k, r) \/ Interrupted(k)
      BY <2>8, <3>1 DEF ResultOK, TraceOK
    <3>4. i = TargetOf(k, r)'
      BY <2>3, <2>4, <3>1, <3>3
    <3>5. Writing(k, r) \/ Interrupted(k) => Writing(k, r)' \/ Interrupted(k)'
      BY DEF Writing, Interrupted, Grows
    <3> QED
      BY <3>1, <3>2, <3>3, <3>4, <3>5
  <2>9. TraceOK(k)'
    BY <2>7, <2>8 DEF TraceOK
  <2>10. RefusedOK(k)'
    <3>1. Directory # Absent
      BY FileSystemAssumption
    <3> QED
      BY <2>3, <3>1 DEF ResultOK, RefusedOK, Grows
  <2> QED
    BY <2>6, <2>9, <2>10 DEF ResultOK
<1> QED
  BY <1>1, <1>2

\* A step that leaves the file system alone, before anything has been opened.
LEMMA EarlyResult ==
    ASSUME SharedInv, NEW j \in Jobs, job[j].pc \in Early, UNCHANGED fs,
           job'[j].done = {},
           job'[j].pc \notin {"writing", "documenting"},
           job'[j].pc = "document" => Requested(job'[j].cmd) \subseteq {"doc"},
           job'[j].pc = "emit" => Requested(job'[j].cmd) = {},
           job'[j].pc = "returned" => job'[j].listed = {} /\ job'[j].exit # 0
    PROVE  ResultOK(j)'
<1>1. \A i \in DOMAIN data' : ~ByJob(data'[i], j)
  BY DEF SharedInv, JobOK, UntouchedOK, fs
<1>2. TraceOK(j)'
  BY <1>1 DEF TraceOK, Writing, ByJob
<1>3. DoneOK(j)' /\ RefusedOK(j)'
  BY DEF DoneOK, RefusedOK
<1> QED
  BY <1>2, <1>3 DEF ResultOK

\* The end of an invocation that has opened something, or emits its result.
LEMMA LateResult ==
    ASSUME SharedInv, NEW j \in Jobs, ResultOK(j), KeepsInput(j), UNCHANGED fs,
           job[j].pc \in {"writing", "document", "documenting", "emit"},
           job'[j].done = job[j].done, edits' = edits, struck \subseteq struck',
           \/ job'[j].pc = "killed"
           \/ /\ job'[j].pc = "returned" /\ job'[j].listed = Listed(j)
              /\ \/ job[j].pc = "emit" /\ job'[j].exit = 0
                 \/ job'[j].exit = 3 /\ j \in struck'
                 \/ job'[j].exit = 8 /\ j \in struck' /\ job[j].pc = "emit"
                 \/ /\ job'[j].exit = 3 /\ job[j].pc = "document"
                    /\ TargetOf(j, "doc") = Directory
    PROVE  ResultOK(j)'
<1> PICK c, done : c = job[j].cmd /\ done = job[j].done
  OBVIOUS
<1>0. link' = link /\ entry' = entry /\ data' = data
  BY DEF fs
<1>1. job'[j].cmd = c /\ job'[j].done = done
  BY DEF KeepsInput
<1>2. \A r : TargetOf(j, r)' = TargetOf(j, r)
  BY <1>0, <1>1 DEF TargetOf, InodeOf, Resolve
<1>3. \A p : /\ IsFile(p)' = IsFile(p)
             /\ \A q : Aliased(p, q)' = Aliased(p, q)
  BY <1>0 DEF IsFile, Aliased, SameFile, Exists, InodeOf, Resolve
<1>4. Listed(j) = done
  BY DEF ResultOK, DoneOK, Listed, IsFile, Exists
<1>5. DoneOK(j)'
  BY <1>0, <1>1, <1>2, <1>3, <1>4 DEF ResultOK, DoneOK, Early, Idle
<1>6. TraceOK(j)'
  <2>1. \A r : ~Writing(j, r)'
    BY DEF Writing
  <2>2. ASSUME NEW r, Writing(j, r) \/ Interrupted(j)
        PROVE  Interrupted(j)'
    BY <2>2 DEF Writing, Interrupted
  <2> QED
    BY <1>0, <1>1, <1>2, <1>3, <2>1, <2>2 DEF ResultOK, TraceOK, ByJob
<1>7. RefusedOK(j)'
  <2>1. job[j].pc = "document" => "doc" \in Requested(c)
    BY DEF SharedInv, JobOK, PlaceOK
  <2> QED
    BY <1>1, <1>2, <2>1 DEF RefusedOK
<1> QED
  BY <1>5, <1>6, <1>7 DEF ResultOK

\* The stages before a destination is opened set no path.
LEMMA StageResult ==
    ASSUME SharedInv, NEW j \in Jobs, ResultOK(j),
           \/ ReadEntry(j) \/ Frontend(j) \/ LoadImports(j) \/ Analyze(j)
           \/ CheckPaths(j) \/ Generate(j)
    PROVE  ResultOK(j)'
<1>0. /\ job[j].pc \in Early \ {Idle, "output"} /\ UNCHANGED <<link, entry, data, edits, struck>>
      /\ TypeOK
  BY DEF ReadEntry, Frontend, LoadImports, Analyze, CheckPaths, Generate, At, Early, Idle, SharedInv
<1>1. /\ job[j].done = {} /\ Listed(j) = {}
      /\ job[j].cmd \in Commands /\ ~BadUsage(job[j].cmd)
  BY <1>0 DEF ResultOK, DoneOK, Listed, SharedInv, JobOK, PlaceOK, Early, Busy, Idle
<1>2. ASSUME NEW code \in Codes \ {0}, Return(j, code)
      PROVE  ResultOK(j)'
  BY <1>0, <1>1, <1>2, ReturnShape, EarlyResult DEF OnlyMoves, fs, Codes
<1>3. ASSUME NEW pc \in {"imports", "paths", "generate", "output", "document", "emit"},
             Goto(j, pc),
             pc = "document" => Requested(job[j].cmd) \subseteq {"doc"},
             pc = "emit" => Requested(job[j].cmd) = {}
      PROVE  ResultOK(j)'
  <2>1. OnlyMoves(j) /\ KeepsInput(j) /\ job'[j].pc = pc /\ job'[j].done = {}
    BY <1>0, <1>1, <1>3, GotoShape DEF Stages, Busy
  <2> QED
    BY <1>0, <1>3, <2>1, EarlyResult DEF OnlyMoves, KeepsInput, fs
<1>4. CASE ReadEntry(j)
  <2> PICK f : f = File(j)
    OBVIOUS
  <2>1. CASE IsFile(f) /\ f \in Sources
    <3>1. OnlyMoves(j) /\ job'[j].pc = "frontend" /\ job'[j].done = {}
      BY <1>1, <1>4, <2>1, ReadEntryShape
    <3> QED
      BY <1>0, <3>1, EarlyResult DEF OnlyMoves, fs
  <2>2. CASE ~(IsFile(f) /\ f \in Sources)
    <3>1. Return(j, 3) /\ 3 \in Codes \ {0}
      BY <1>4, <2>2, ReadEntryShape DEF Codes
    <3> QED
      BY <1>2, <3>1
  <2> QED
    BY <2>1, <2>2
<1>5. CASE Frontend(j)
  <2>1. CASE Return(j, 4) \/ Return(j, 5)
    BY <1>2, <2>1 DEF Codes
  <2>2. CASE Goto(j, AfterFrontend(Mode(j)))
    <3>1. AfterFrontend(Mode(j)) \in {"imports", "paths", "emit"}
      BY DEF AfterFrontend
    <3>2. AfterFrontend(Mode(j)) = "emit" => ~Generates(Mode(j))
      BY DEF AfterFrontend, Analyzes, Generates
    <3> QED
      BY <1>1, <1>3, <2>2, <3>1, <3>2, DestinationTypes DEF Mode
  <2> QED
    BY <1>5, <2>1, <2>2 DEF Frontend
<1>6. CASE LoadImports(j)
  <2>1. CASE \E p : RejectModule(j, p)
    BY <1>2, <2>1 DEF RejectModule, Codes
  <2>2. CASE OnlyMoves(j) /\ job'[j].pc = "analyze" /\ job'[j].done = job[j].done
    BY <1>0, <1>1, <2>2, EarlyResult DEF OnlyMoves, fs
  <2> QED
    BY <1>6, <2>1, <2>2, LoadImportsShape
<1>7. CASE Analyze(j)
  BY <1>2, <1>3, <1>7 DEF Analyze, Codes
<1>8. CASE CheckPaths(j)
  <2>1. CASE Return(j, 3)
    BY <1>2, <2>1 DEF Codes
  <2>2. CASE Generates(Mode(j)) /\ Goto(j, "generate")
    BY <1>3, <2>2
  <2>3. CASE ~Generates(Mode(j)) /\ Goto(j, "emit")
    BY <1>1, <1>3, <2>3, DestinationTypes DEF Mode
  <2> QED
    BY <1>8, <2>1, <2>2, <2>3 DEF CheckPaths
<1>9. CASE Generate(j)
  <2> DEFINE pc == IF Mode(j) = "compile" /\ job[j].cmd.tool = "a7"
                   THEN "output" ELSE AfterOutput(job[j].cmd)
  <2>1. CASE Return(j, 7)
    BY <1>2, <2>1 DEF Codes
  <2>2. CASE Goto(j, pc)
    <3>1. pc \in {"output", "document", "emit"}
      BY DEF AfterOutput
    <3>2. /\ pc = "document" => Requested(job[j].cmd) \subseteq {"doc"}
          /\ pc = "emit" => Requested(job[j].cmd) = {}
      <4>1. Requested(job[j].cmd) \subseteq {"out", "doc"}
        BY DEF Requested, Roles
      <4> QED
        BY <1>1, <4>1, DestinationTypes DEF AfterOutput, Mode
    <3> QED
      BY <1>3, <2>2, <3>1, <3>2
  <2> QED
    BY <1>9, <2>1, <2>2 DEF Generate
<1> QED
  BY <1>4, <1>5, <1>6, <1>7, <1>8, <1>9

\* The result of an invocation that starts is empty, or a refusal.
LEMMA StartResult ==
    ASSUME SharedInv, NEW j \in Jobs, NEW c \in Commands, Start(j, c)
    PROVE  ResultOK(j)'
<1>1. /\ OnlyMoves(j) /\ UNCHANGED <<link, entry, data, edits, struck>>
      /\ job[j].pc = Idle
      /\ job'[j].pc = IF BadUsage(c) THEN "returned" ELSE "read"
      /\ job'[j].exit = IF BadUsage(c) THEN 2 ELSE 0
      /\ job'[j].done = {} /\ job'[j].listed = {}
  BY StartShape DEF SharedInv
<1> QED
  BY <1>1, EarlyResult DEF OnlyMoves, fs, Early

\* The result of a successful call lists what was asked for.
LEMMA EmitResult ==
    ASSUME SharedInv, NEW j \in Jobs, ResultOK(j), Emit(j)
    PROVE  ResultOK(j)'
<1>1. job[j].pc = "emit" /\ UNCHANGED <<link, entry, data, edits, struck>> /\ Return(j, 0)
  BY DEF Emit, At
<1>2. /\ OnlyMoves(j) /\ KeepsInput(j) /\ job'[j].pc = "returned"
      /\ job'[j].done = job[j].done /\ job'[j].exit = 0 /\ job'[j].listed = Listed(j)
  BY <1>1, ReturnShape DEF SharedInv, Codes
<1> QED
  BY <1>1, <1>2, LateResult DEF OnlyMoves, fs

\* The result of a failing call excuses what is left on the disk.
LEMMA FaultResult ==
    ASSUME SharedInv, NEW j \in Jobs, ResultOK(j), Fault(j)
    PROVE  ResultOK(j)'
<1>1. UNCHANGED fs /\ edits' = edits /\ struck' = struck \cup {j} /\ TypeOK
  BY DEF Fault, CallFails, Bug, Kill, Strike, fs, SharedInv
<1>2. ASSUME NEW code \in {3, 7, 8}, Return(j, code), job[j].pc \in Busy,
             code = 3 => job[j].pc \notin {"frontend", "analyze", "generate", "emit"},
             code # 3 => job[j].pc \in {"frontend", "imports", "analyze", "generate", "emit"},
             code = 7 => job[j].pc = "generate"
      PROVE  ResultOK(j)'
  <2>1. code \in Codes
    BY DEF Codes
  <2>2. /\ OnlyMoves(j) /\ KeepsInput(j) /\ job'[j].pc = "returned"
        /\ job'[j].done = job[j].done /\ job'[j].exit = code /\ job'[j].listed = Listed(j)
    BY <1>1, <1>2, <2>1, ReturnShape
  <2>3. CASE job[j].pc \in Early
    <3>1. job[j].done = {} /\ Listed(j) = {}
      BY <2>3 DEF ResultOK, DoneOK, Listed
    <3> QED
      BY <1>1, <2>2, <2>3, <3>1, EarlyResult DEF OnlyMoves
  <2>4. CASE job[j].pc \in {"writing", "document", "documenting", "emit"}
    BY <1>1, <1>2, <2>2, <2>4, LateResult DEF OnlyMoves
  <2> QED
    BY <1>2, <2>3, <2>4 DEF Busy, Early
<1>3. ASSUME Goto(j, "killed"), job[j].pc \in Busy
      PROVE  ResultOK(j)'
  <2>1. OnlyMoves(j) /\ KeepsInput(j) /\ job'[j].pc = "killed" /\ job'[j].done = job[j].done
    BY <1>1, <1>3, GotoShape DEF Stages
  <2>2. CASE job[j].pc \in Early
    <3>1. job[j].done = {}
      BY <2>2 DEF ResultOK, DoneOK
    <3> QED
      BY <1>1, <2>1, <2>2, <3>1, EarlyResult DEF OnlyMoves
  <2>3. CASE job[j].pc \in {"writing", "document", "documenting", "emit"}
    BY <1>1, <2>1, <2>3, LateResult DEF OnlyMoves
  <2> QED
    BY <1>3, <2>2, <2>3 DEF Busy, Early
<1>4. CASE CallFails(j)
  <2>1. /\ job[j].pc \in {"read", "imports", "paths", "output", "writing", "document", "documenting"}
        /\ Return(j, 3)
    BY <1>4 DEF CallFails
  <2> QED
    BY <1>2, <2>1 DEF Busy
<1>5. CASE Bug(j)
  <2>1. /\ job[j].pc \in {"frontend", "imports", "analyze", "generate", "emit"}
        /\ Return(j, 8) \/ (job[j].pc = "generate" /\ Return(j, 7))
    BY <1>5 DEF Bug, At
  <2> QED
    BY <1>2, <2>1 DEF Busy
<1>6. CASE Kill(j)
  BY <1>3, <1>6 DEF Kill
<1> QED
  BY <1>4, <1>5, <1>6 DEF Fault

\* The destination that is opened holds a truncated file, or is a directory.
LEMMA OpenResult ==
    ASSUME SharedInv, NEW j \in Jobs, ResultOK(j), NEW r \in Roles, NEW next,
           OpensAt(j, r, next), Open(j, r, next), UNCHANGED <<edits, struck>>
    PROVE  ResultOK(j)'
<1> PICK c, done : c = job[j].cmd /\ done = job[j].done
  OBVIOUS
<1> PICK p : p = Destination(c, r)
  OBVIOUS
<1>0. TypeOK /\ FileTypes /\ NamesOK /\ JobOK(j)
  BY DEF SharedInv, TypeOK
<1>1. CASE InodeOf(p) = Directory
  <2>1. Return(j, 3) /\ UNCHANGED fs
    BY <1>1 DEF Open
  <2>2. /\ OnlyMoves(j) /\ KeepsInput(j) /\ job'[j].pc = "returned"
        /\ job'[j].done = done /\ job'[j].exit = 3 /\ job'[j].listed = Listed(j)
    BY <1>0, <2>1, ReturnShape DEF Codes
  <2>3. CASE job[j].pc = "output"
    <3>1. done = {} /\ Listed(j) = {}
      BY <2>3 DEF ResultOK, DoneOK, Listed, Early
    <3> QED
      BY <2>1, <2>2, <2>3, <3>1, EarlyResult DEF OnlyMoves, Early
  <2>4. CASE job[j].pc = "document" /\ r = "doc"
    <3>1. TargetOf(j, "doc") = Directory
      BY <1>1, <2>4 DEF TargetOf
    <3> QED
      BY <2>1, <2>2, <2>4, <3>1, LateResult DEF OnlyMoves
  <2> QED
    BY <2>3, <2>4 DEF OpensAt
<1>2. CASE InodeOf(p) # Directory
  <2>1. /\ c \in Commands /\ r \in Requested(c) /\ p \in Paths
        /\ <<j, r>> \notin DOMAIN data /\ Truncate(j, r, p)
        /\ OnlyMoves(j) /\ KeepsInput(j) /\ job'[j].pc = next
        /\ job'[j].open = InodeOf(p)' /\ job'[j].done = done
    BY <1>2, OpenShape
  <2>2. Cut(j, r, p)
    <3>1. r \in {"out", "doc", "exe"}
      BY DEF Roles
    <3> QED
      BY <1>0, <2>1, <3>1, TruncateShape
  <2>3. job'[j].cmd = c /\ Writing(j, r)' /\ r \notin done
        /\ \A s \in Roles : Writing(j, s)' => s = r
    BY <2>1 DEF KeepsInput, OpensAt, Writing, ResultOK, DoneOK, Early
  <2>4. Grows
    BY OpenGrows
  <2>5. /\ \A s \in Requested(c) : s \in Roles /\ Destination(c, s) \in Paths
        /\ Requested(c) = Roles => DocPath(c) \in Paths /\ OutPath(c) \in Paths
    BY <2>1, DestinationTypes DEF Destination, Roles
  <2>6. \A s \in Requested(c) : TargetOf(j, s) # Absent => TargetOf(j, s)' = TargetOf(j, s)
    BY <2>3, <2>4, <2>5 DEF Grows, TargetOf, Exists
  <2>7. Absent \notin DOMAIN data
    BY <1>0, FileSystemAssumption, NewInodesApart DEF FileTypes, Inodes
  <2>8. Requested(c) = Roles => ~Aliased(DocPath(c), OutPath(c))'
    <3>1. Requested(c) = Roles => ~Aliased(DocPath(c), OutPath(c))
      BY <1>0 DEF JobOK, ApartOK, OpensAt, Guarded, Conflict
    <3> QED
      BY <1>0, <2>2, <2>5, <3>1, ApartStays DEF Cut
  <2>9. \A s \in done : /\ IsFile(Destination(c, s))'
                        /\ edits' = 0 => data'[TargetOf(j, s)'] \in Written
    <3>1. \A s \in done : /\ s \in Requested(c) /\ IsFile(Destination(c, s))
                          /\ edits = 0 => data[TargetOf(j, s)] \in Written
      BY DEF ResultOK, DoneOK
    <3>2. \A s \in done : TargetOf(j, s) \in DOMAIN data
      BY <1>0, <2>5, <3>1, InodeTypes DEF TargetOf
    <3>3. \A s \in done : TargetOf(j, s)' = TargetOf(j, s)
      BY <2>6, <2>7, <3>1, <3>2
    <3> QED
      BY <2>3, <2>4, <3>1, <3>2, <3>3 DEF Grows, TargetOf, IsFile
  <2>10. DoneOK(j)'
    BY <2>1, <2>3, <2>9 DEF ResultOK, DoneOK, OpensAt, Early, Idle
  <2>11. ASSUME NEW i \in DOMAIN data', ByJob(data'[i], j)
         PROVE  \E s \in Requested(c) :
                  /\ i = TargetOf(j, s)'
                  /\ \/ s \in done /\ data'[i].kind = s
                     \/ /\ s \notin done /\ data'[i].kind = "partial" /\ Writing(j, s)'
    <3>1. CASE i = InodeOf(p)'
      <4>1. i = TargetOf(j, r)' /\ data'[i].kind = "partial"
        BY <2>2, <2>3, <3>1 DEF Cut, TargetOf
      <4> QED
        BY <2>1, <2>3, <4>1
    <3>2. CASE i # InodeOf(p)'
      <4>1. i \in DOMAIN data /\ data'[i] = data[i]
        BY <2>2, <3>2 DEF Cut
      <4>2. ~Interrupted(j) /\ \A s : ~Writing(j, s)
        BY DEF OpensAt, Interrupted, Writing
      <4>3. PICK s \in Requested(c) : i = TargetOf(j, s) /\ s \in done /\ data[i].kind = s
        BY <2>11, <4>1, <4>2 DEF ResultOK, TraceOK
      <4>4. i = TargetOf(j, s)'
        BY <2>6, <2>7, <4>1, <4>3
      <4> QED
        BY <4>1, <4>3, <4>4
    <3> QED
      BY <3>1, <3>2
  <2>12. TraceOK(j)'
    <3>1. \A s \in Roles : Writing(j, s)' => job'[j].open = TargetOf(j, s)'
      BY <2>1, <2>3 DEF TargetOf
    <3> QED
      BY <2>1, <2>3, <2>8, <2>11, <3>1 DEF TraceOK, ByJob
  <2>13. RefusedOK(j)'
    BY <2>1 DEF RefusedOK, OpensAt
  <2> QED
    BY <2>1, <2>10, <2>12, <2>13 DEF ResultOK, OnlyMoves
<1> QED
  BY <1>1, <1>2

\* The open file is the destination's; it is complete when its path is set.
LEMMA WriteResult ==
    ASSUME SharedInv, NEW j \in Jobs, ResultOK(j), NEW r \in Roles, NEW next,
           WritesAt(j, r, next), Write(j, r, next), UNCHANGED <<edits, struck>>
    PROVE  ResultOK(j)'
<1> PICK c, done, o : c = job[j].cmd /\ done = job[j].done /\ o = job[j].open
  OBVIOUS
<1>0. TypeOK /\ FileTypes /\ NamesOK /\ JobOK(j)
  BY DEF SharedInv, TypeOK
<1>1. /\ o \in DOMAIN data /\ FileTypes' /\ Completed(j, r, o)
      /\ OnlyMoves(j) /\ KeepsInput(j) /\ job'[j].pc = next
      /\ job'[j].done = done \cup {r}
      /\ next \in {"document", "emit"}
  BY WriteShape
<1>2. /\ NamesStep /\ link' = link /\ entry' = entry
      /\ data'[o] = [kind |-> r, by |-> j]
      /\ \A k \in DOMAIN data : k # o => data'[k] = data[k]
      /\ DOMAIN data' = DOMAIN data
  BY <1>1 DEF Completed
<1>3. c \in Commands /\ r \in Requested(c) /\ job'[j].cmd = c
  BY <1>0, <1>1 DEF JobOK, PlaceOK, WritesAt, Idle, KeepsInput
<1>4. Writing(j, r) /\ o = TargetOf(j, r) /\ \A s : Writing(j, s) => s = r
  BY DEF ResultOK, TraceOK, Writing, WritesAt
<1>5. /\ \A p : InodeOf(p)' = InodeOf(p)
      /\ \A s : TargetOf(j, s)' = TargetOf(j, s)
  BY <1>2, <1>3 DEF TargetOf, InodeOf, Resolve
<1>6. /\ \A p, q : Aliased(p, q)' = Aliased(p, q)
      /\ \A p : IsFile(p)' = IsFile(p)
  BY <1>2, <1>5 DEF Aliased, SameFile, Exists, IsFile, Resolve
<1>7. done = Requested(c) \ {"doc"} \/ (r = "out" /\ done = {})
  BY DEF WritesAt, ResultOK, DoneOK, Early
<1>8. /\ next = "document" => done \cup {r} = Requested(c) \ {"doc"}
      /\ next = "emit" => done \cup {r} = Requested(c)
  <2>1. Requested(c) \subseteq {"out", "doc"}
    BY DEF Requested, Roles
  <2>2. CASE r = "out" /\ job[j].pc = "writing" /\ next = AfterOutput(c)
    <3>1. done = {}
      BY <2>2 DEF ResultOK, DoneOK
    <3> QED
      BY <1>3, <2>1, <2>2, <3>1, DestinationTypes DEF AfterOutput
  <2>3. CASE r = "doc" /\ job[j].pc = "documenting" /\ next = "emit"
    BY <1>3, <2>3 DEF ResultOK, DoneOK
  <2> QED
    BY <2>2, <2>3 DEF WritesAt
<1>9. ASSUME NEW s \in done \cup {r}
      PROVE  /\ s \in Requested(c) /\ IsFile(Destination(c, s))'
             /\ edits' = 0 => data'[TargetOf(j, s)'] \in Written
  <2>1. CASE s = r
    <3>1. o # Absent /\ o # Directory
      BY <1>0, <1>1, FileSystemAssumption, NewInodesApart DEF FileTypes, Inodes
    <3>2. [kind |-> r, by |-> j] \in Written
      BY DEF Written, Roles
    <3> QED
      BY <1>2, <1>3, <1>4, <1>5, <2>1, <3>1, <3>2 DEF TargetOf, IsFile
  <2>2. CASE s # r
    <3>1. /\ s \in Requested(c) /\ IsFile(Destination(c, s))
          /\ edits = 0 => data[TargetOf(j, s)] \in Written
      BY <1>9, <2>2 DEF ResultOK, DoneOK
    <3>2. Destination(c, s) \in Paths
      BY <1>3, <3>1, DestinationTypes
    <3>3. TargetOf(j, s) \in DOMAIN data
      BY <1>0, <3>1, <3>2, InodeTypes DEF TargetOf
    <3>4. [kind |-> r, by |-> j] \in Written
      BY DEF Written, Roles
    <3> QED
      BY <1>2, <1>5, <1>6, <3>1, <3>3, <3>4
  <2> QED
    BY <2>1, <2>2
<1>10. DoneOK(j)'
  BY <1>1, <1>3, <1>8, <1>9 DEF DoneOK, Early, Idle
<1>11. ASSUME NEW i \in DOMAIN data', ByJob(data'[i], j)
       PROVE  /\ Requested(c) = Roles => ~Aliased(DocPath(c), OutPath(c))
              /\ \E s \in Requested(c) :
                   i = TargetOf(j, s) /\ s \in done \cup {r} /\ data'[i].kind = s
  <2>1. Requested(c) = Roles => ~Aliased(DocPath(c), OutPath(c))
    BY <1>0 DEF JobOK, ApartOK, WritesAt, Guarded, Conflict
  <2>2. CASE i = o
    BY <1>2, <1>3, <1>4, <2>1, <2>2
  <2>3. CASE i # o
    <3>1. i \in DOMAIN data /\ data'[i] = data[i]
      BY <1>2, <2>3
    <3>2. ~Interrupted(j)
      BY DEF WritesAt, Interrupted
    <3>3. PICK s \in Requested(c) :
            /\ i = TargetOf(j, s)
            /\ \/ s \in done /\ data[i].kind = s
               \/ Writing(j, s)
      BY <1>11, <3>1, <3>2 DEF ResultOK, TraceOK
    <3> QED
      BY <1>4, <2>1, <2>3, <3>1, <3>3
  <2> QED
    BY <2>2, <2>3
<1>12. TraceOK(j)'
  <2>1. \A s : ~Writing(j, s)'
    BY <1>1 DEF Writing
  <2> QED
    BY <1>1, <1>3, <1>5, <1>6, <1>11, <2>1 DEF TraceOK, ByJob
<1>13. RefusedOK(j)'
  BY <1>1 DEF RefusedOK
<1> QED
  BY <1>1, <1>10, <1>12, <1>13 DEF ResultOK, OnlyMoves

\* What a step does to names and files, for every invocation but the one that
\* takes it.
LEMMA StepGrows ==
    ASSUME SharedInv, [Next]_vars
    PROVE  FileTypes' /\ NamesStep /\ Grows
<1>1. CASE \E j \in Jobs, r \in Roles, next \in Stages :
             OpensAt(j, r, next) /\ Open(j, r, next) /\ UNCHANGED <<edits, struck>>
  BY <1>1, OpenGrows
<1>2. CASE \E j \in Jobs, r \in Roles, next \in Stages :
             WritesAt(j, r, next) /\ Write(j, r, next) /\ UNCHANGED <<edits, struck>>
  BY <1>2, WriteGrows
<1>3. CASE Edit
  <2>1. edits' # 0 /\ struck' = struck
    BY <1>3 DEF Edit, SharedInv, TypeOK
  <2> QED
    BY <1>3, <2>1, EditShape DEF Grows, SharedInv, TypeOK, InodeOf, Resolve
<1>4. CASE UNCHANGED fs /\ edits' = edits /\ struck \subseteq struck'
  BY <1>4 DEF fs, Grows, NamesStep, FileTypes, SharedInv, TypeOK, InodeOf, Resolve
<1> QED
  BY <1>1, <1>2, <1>3, <1>4, StepShape

\* The state of j after any step of j.
LEMMA MoverResult ==
    ASSUME SharedInv, NEW j \in Jobs, ResultOK(j),
           (\E c \in Commands : Start(j, c)) \/ Proceed(j) \/ Fault(j)
    PROVE  ResultOK(j)'
<1>1. CASE \E c \in Commands : Start(j, c)
  BY <1>1, StartResult
<1>2. CASE Fault(j)
  BY <1>2, FaultResult
<1>3. CASE ReadEntry(j) \/ Frontend(j) \/ LoadImports(j) \/ Analyze(j)
           \/ CheckPaths(j) \/ Generate(j)
  BY <1>3, StageResult
<1>4. CASE Emit(j)
  BY <1>4, EmitResult
<1>5. CASE OpenOutput(j)
  BY <1>5, OpenResult DEF OpenOutput, OpensAt, At, Roles
<1>6. CASE OpenDoc(j)
  BY <1>6, OpenResult DEF OpenDoc, OpensAt, At, Roles
<1>7. CASE WriteOutput(j)
  BY <1>7, WriteResult DEF WriteOutput, WritesAt, At, Roles
<1>8. CASE WriteDoc(j)
  BY <1>8, WriteResult DEF WriteDoc, WritesAt, At, Roles
<1> QED
  BY <1>1, <1>2, <1>3, <1>4, <1>5, <1>6, <1>7, <1>8 DEF Proceed

\* A step of j writes nothing in the name of another.
LEMMA OthersSpared ==
    ASSUME SharedInv, NEW j \in Jobs, NEW k \in Jobs \ {j},
           (\E c \in Commands : Start(j, c)) \/ Proceed(j) \/ Fault(j)
    PROVE  SparesData(k)
<1>1. CASE (\E c \in Commands : Start(j, c)) \/ Fault(j) \/ ReadEntry(j) \/ Frontend(j)
           \/ LoadImports(j) \/ Analyze(j) \/ CheckPaths(j) \/ Generate(j) \/ Emit(j)
  <2>1. data' = data
    BY <1>1 DEF Start, Fault, CallFails, Bug, Kill, Strike, ReadEntry, Frontend,
                LoadImports, Analyze, CheckPaths, Generate, Emit
  <2> QED
    BY <2>1 DEF SparesData
<1>2. CASE OpenOutput(j)
  BY <1>2, OpenGrows DEF OpenOutput, OpensAt, At, Roles
<1>3. CASE OpenDoc(j)
  BY <1>3, OpenGrows DEF OpenDoc, OpensAt, At, Roles
<1>4. CASE WriteOutput(j)
  BY <1>4, WriteGrows DEF WriteOutput, WritesAt, At, Roles
<1>5. CASE WriteDoc(j)
  BY <1>5, WriteGrows DEF WriteDoc, WritesAt, At, Roles
<1> QED
  BY <1>1, <1>2, <1>3, <1>4, <1>5 DEF Proceed

\* The invariant on results holds at first.
LEMMA ResultInit == Init => ResultInv
<1> SUFFICES ASSUME Init
             PROVE  ResultInv
  OBVIOUS
<1>1. SharedInv
  BY SharedInit
<1>2. ASSUME NEW k \in Jobs
      PROVE  ResultOK(k)
  <2>1. job[k].pc = Idle /\ job[k].done = {}
    BY DEF Init, NewJob
  <2>2. \A i \in DOMAIN data : ~ByJob(data[i], k)
    BY <1>1, <2>1 DEF SharedInv, JobOK, UntouchedOK, Early
  <2> QED
    BY <2>1, <2>2 DEF ResultOK, DoneOK, TraceOK, RefusedOK, Writing, Idle
<1> QED
  BY <1>1, <1>2 DEF ResultInv

\* It survives every step.
LEMMA ResultNext == ResultInv /\ [Next]_vars => ResultInv'
<1> SUFFICES ASSUME ResultInv, [Next]_vars
             PROVE  ResultInv'
  OBVIOUS
<1>0. SharedInv /\ \A k \in Jobs : ResultOK(k)
  BY DEF ResultInv
<1>1. SharedInv' /\ FileTypes' /\ NamesStep /\ Grows
  BY <1>0, SharedNext, StepGrows
<1>2. ASSUME NEW j \in Jobs, (\E c \in Commands : Start(j, c)) \/ Proceed(j) \/ Fault(j),
             NEW k \in Jobs
      PROVE  ResultOK(k)'
  <2>1. CASE k = j
    BY <1>0, <1>2, <2>1, MoverResult
  <2>2. CASE k # j
    <3>1. job'[k] = job[k]
      BY <1>0, <1>2, <2>2, StepMoves DEF OnlyMoves, Advances
    <3>2. SparesData(k)
      BY <1>0, <1>2, <2>2, OthersSpared
    <3> QED
      BY <1>0, <1>1, <3>1, <3>2, OthersKeepResult
  <2> QED
    BY <2>1, <2>2
<1>3. ASSUME Edit, NEW k \in Jobs
      PROVE  ResultOK(k)'
  <2>1. job'[k] = job[k] /\ SparesData(k)
    BY <1>0, <1>3, EditShape DEF Edit, SharedInv, TypeOK
  <2> QED
    BY <1>0, <1>1, <2>1, OthersKeepResult
<1>4. ASSUME UNCHANGED vars, NEW k \in Jobs
      PROVE  ResultOK(k)'
  <2>1. job'[k] = job[k] /\ SparesData(k)
    BY <1>4 DEF vars, SparesData
  <2> QED
    BY <1>0, <1>1, <2>1, OthersKeepResult
<1> QED
  BY <1>1, <1>2, <1>3, <1>4 DEF Next, ResultInv

\* An invocation that is refused leaves nothing of its own on the disk, unless a
\* system call failed or the report's name is a directory.
THEOREM RefusalsLeaveNoTrace == Spec => []RefusalLeavesNoTrace
<1>1. ResultInv => RefusalLeavesNoTrace
  <2> SUFFICES ASSUME ResultInv, NEW j \in Jobs, Ended(j), job[j].exit # 0,
                      NEW i \in DOMAIN data, ByJob(data[i], j)
               PROVE  \/ job[j].exit \in {3, 8} /\ j \in struck
                      \/ /\ job[j].exit = 3 /\ data[i].kind \in job[j].listed
                         /\ InodeOf(DocPath(job[j].cmd)) = Directory
    BY DEF RefusalLeavesNoTrace
  <2>1. ResultOK(j) /\ job[j].pc = "returned"
    BY DEF ResultInv, Ended, At
  <2>2. PICK r \in Requested(job[j].cmd) :
          \/ r \in job[j].done /\ data[i].kind = r
          \/ Interrupted(j)
    BY <2>1 DEF ResultOK, TraceOK, Writing
  <2>3. CASE Interrupted(j)
    BY <2>1, <2>3 DEF Interrupted
  <2>4. CASE r \in job[j].done /\ data[i].kind = r
    <3>1. job[j].done # {} /\ job[j].listed = job[j].done
      BY <2>1, <2>4 DEF ResultOK, DoneOK
    <3> QED
      BY <2>1, <2>4, <3>1 DEF ResultOK, RefusedOK, TargetOf, Destination
  <2> QED
    BY <2>2, <2>3, <2>4
<1> QED
  BY <1>1, ResultInit, ResultNext, PTL DEF Spec

\* The artifact list of a result is right: complete files are listed, truncated
\* ones are not, and success lists all that was asked for.
THEOREM ArtifactsAreHonest == Spec => []ArtifactsHonest
<1>1. ResultInv => ArtifactsHonest
  <2> SUFFICES ASSUME ResultInv, NEW j \in Jobs, Ended(j)
               PROVE  /\ job[j].exit = 0 => job[j].listed = Requested(job[j].cmd)
                      /\ \A r \in Requested(job[j].cmd) :
                           LET p == Destination(job[j].cmd, r) IN
                           /\ IsFile(p) /\ ByJob(data[InodeOf(p)], j) =>
                                (r \in job[j].listed <=> data[InodeOf(p)].kind # "partial")
                           /\ r \in job[j].listed /\ edits = 0 =>
                                IsFile(p) /\ data[InodeOf(p)] \in Written
    BY DEF ArtifactsHonest
  <2> PICK c : c = job[j].cmd
    OBVIOUS
  <2>1. /\ ResultOK(j) /\ JobOK(j) /\ job[j].pc = "returned"
        /\ FileTypes /\ NamesOK
    BY DEF ResultInv, SharedInv, TypeOK, Ended, At
  <2>2. job[j].listed = job[j].done /\ (job[j].exit = 0 => job[j].done = Requested(c))
    BY <2>1 DEF ResultOK, DoneOK
  <2>3. ASSUME NEW r \in Requested(c), r \in job[j].listed, edits = 0
        PROVE  IsFile(Destination(c, r)) /\ data[InodeOf(Destination(c, r))] \in Written
    BY <2>1, <2>2, <2>3 DEF ResultOK, DoneOK, TargetOf
  <2>4. ASSUME NEW r \in Requested(c), NEW p, p = Destination(c, r),
               IsFile(p), ByJob(data[InodeOf(p)], j)
        PROVE  r \in job[j].listed <=> data[InodeOf(p)].kind # "partial"
    <3>1. c \in Commands
      BY <2>1 DEF JobOK, PlaceOK, Idle
    <3>2. r \in Roles /\ p \in Paths
      BY <2>4, <3>1, DestinationTypes
    <3>3. InodeOf(p) \in DOMAIN data
      BY <2>1, <2>4, <3>2, InodeTypes
    <3>4. Requested(c) = Roles => ~Aliased(DocPath(c), OutPath(c))
      BY <2>1, <2>4, <3>3 DEF ResultOK, TraceOK
    <3>5. PICK s \in Requested(c) :
            /\ InodeOf(p) = TargetOf(j, s)
            /\ \/ s \in job[j].done /\ data[InodeOf(p)].kind = s
               \/ s \notin job[j].done /\ data[InodeOf(p)].kind = "partial"
      BY <2>1, <2>4, <3>3 DEF ResultOK, TraceOK
    <3>6. s = r
      <4>1. SUFFICES ASSUME s # r
                     PROVE  FALSE
        OBVIOUS
      <4>2. s \in Roles /\ Requested(c) = Roles
        BY <3>2, <4>1 DEF Requested, Roles
      <4>3. InodeOf(DocPath(c)) = InodeOf(OutPath(c)) /\ InodeOf(p) # Absent
        BY <2>4, <3>2, <3>5, <4>1, <4>2 DEF TargetOf, Destination, Roles, IsFile
      <4>4. InodeOf(DocPath(c)) # Absent
        BY <2>4, <3>2, <4>3 DEF Destination, Roles
      <4> QED
        BY <3>4, <4>2, <4>3, <4>4 DEF Aliased, SameFile, Exists
    <3>7. "partial" \notin Roles
      BY DEF Roles
    <3> QED
      BY <2>2, <3>2, <3>5, <3>6, <3>7
  <2> QED
    BY <2>2, <2>3, <2>4
<1> QED
  BY <1>1, ResultInit, ResultNext, PTL DEF Spec

(***************************************************************************)
(* The inductive invariant on verdicts                                     *)
(***************************************************************************)
\* The sources as an invocation may read them.
Snapshot == [p \in {p \in Sources : IsFile(p)} |-> data[InodeOf(p)]]

\* The contents of the program with entry f, among the sources s.
Program(s, f) == {s[f]} \cup {s[Imports[s[f]][n]] : n \in DOMAIN Imports[s[f]]}

\* The status that the front end gives one file, 0 for none.
FileVerdict(s, p) ==
  IF p \notin DOMAIN s THEN 3
  ELSE IF Defect[s[p]] = "tokens" THEN 4
  ELSE IF Defect[s[p]] = "syntax" THEN 5 ELSE 0

\* The modules of that program that cannot be loaded.
Unloadable(s, f) == {n \in DOMAIN Imports[s[f]] : FileVerdict(s, Imports[s[f]][n]) # 0}

\* The whole program is in the sources and passes the front end.
Loaded(s, f) ==
  f \in DOMAIN s /\ FileVerdict(s, f) = 0 /\ Unloadable(s, f) = {}

\* The status of the analysis of a program: the entry's, that of the first
\* module that cannot be loaded, or that of the semantic passes.
Verdict(s, f) ==
  IF FileVerdict(s, f) # 0 THEN FileVerdict(s, f)
  ELSE IF Unloadable(s, f) # {}
  THEN LET first == CHOOSE n \in Unloadable(s, f) :
                      \A m \in 1 .. n - 1 : m \notin Unloadable(s, f)
       IN  FileVerdict(s, Imports[s[f]][first])
  ELSE IF \E c \in Program(s, f) : Defect[c] = "semantic" THEN 6 ELSE 0

Uncompilable(s, f) == \E c \in Program(s, f) : Defect[c] = "codegen"

\* What an invocation knows of a program that did not change since it started.
Judged(k, s) ==
  LET pc   == job[k].pc
      f    == job[k].cmd.file
      m    == job[k].cmd.mode
      exit == job[k].exit
  IN  /\ pc \in {"frontend", "imports"} =>
           f \in DOMAIN s /\ job[k].read = {s[f]}
      /\ pc = "imports" => FileVerdict(s, f) = 0
      /\ pc \in {"analyze", "paths", "generate"} =>
           Loaded(s, f) /\ job[k].read = Program(s, f)
      /\ pc \in {"paths", "generate"} => Verdict(s, f) = 0
      /\ pc \in {"output", "writing", "document", "documenting", "emit"} =>
           Verdict(s, f) = 0 /\ (Generates(m) => ~Uncompilable(s, f))
      /\ pc = "returned" =>
           /\ exit \in {0, 3, 4, 5, 6, 7}
           /\ exit \in {4, 5, 6} => Verdict(s, f) = exit
           /\ exit = 3 => Verdict(s, f) \in {0, 3}
           /\ exit \in {0, 7} => Verdict(s, f) = 0
           /\ exit = 0 /\ Generates(m) => ~Uncompilable(s, f)
           /\ exit = 7 => Uncompilable(s, f)

\* The invocations whose verdict counts.
Judgeable(k) ==
  /\ job[k].pc # Idle /\ Unchanged(k) /\ k \notin struck
  /\ Analyzes(job[k].cmd.mode) /\ ~BadUsage(job[k].cmd)

VerdictOK(k) == job[k].since <= edits /\ (Judgeable(k) => Judged(k, Snapshot))

VerdictInv == SharedInv /\ \A k \in Jobs : VerdictOK(k)

\* All sources hold texts.
AllTexts == \A p \in Sources : IsFile(p) => data[InodeOf(p)] \in Texts

\* Only an edit puts a text into a file.
LEMMA NoNewTexts ==
    ASSUME SharedInv, [Next]_vars, edits' = edits,
           NEW i \in DOMAIN data', data'[i] \in Texts
    PROVE  i \in DOMAIN data /\ data'[i] = data[i]
<1>0. Texts \cap Written = {} /\ edits \in Nat
  BY FreshAssumption DEF SharedInv, TypeOK
<1>1. ASSUME NEW j \in Jobs, NEW r \in Roles, NEW next \in Stages,
             OpensAt(j, r, next), Open(j, r, next)
      PROVE  i \in DOMAIN data /\ data'[i] = data[i]
  <2> PICK p : p = Destination(job[j].cmd, r)
    OBVIOUS
  <2>1. CASE InodeOf(p) = Directory
    BY <1>1, <2>1 DEF Open, fs
  <2>2. CASE InodeOf(p) # Directory
    <3>1. p \in Paths /\ <<j, r>> \notin DOMAIN data /\ Truncate(j, r, p)
      BY <1>1, <2>2, OpenShape
    <3>2. r \in {"out", "doc", "exe"} /\ FileTypes /\ NamesOK
      BY DEF SharedInv, TypeOK, Roles
    <3>3. Cut(j, r, p)
      BY <3>1, <3>2, TruncateShape
    <3>4. [kind |-> "partial", by |-> j] \in Written
      BY DEF Written
    <3> QED
      BY <1>0, <3>3, <3>4 DEF Cut
  <2> QED
    BY <2>1, <2>2
<1>2. ASSUME NEW j \in Jobs, NEW r \in Roles, NEW next \in Stages,
             WritesAt(j, r, next), Write(j, r, next)
      PROVE  i \in DOMAIN data /\ data'[i] = data[i]
  <2> PICK o : o = job[j].open
    OBVIOUS
  <2>1. Completed(j, r, o)
    BY <1>2, WriteShape
  <2>2. [kind |-> r, by |-> j] \in Written
    BY DEF Written, Roles
  <2> QED
    BY <1>0, <2>1, <2>2 DEF Completed
<1>3. CASE UNCHANGED fs
  BY <1>3 DEF fs
<1>4. ~Edit
  BY <1>0 DEF Edit
<1> QED
  BY <1>1, <1>2, <1>3, <1>4, StepShape

\* While nobody edits a source and all hold texts, they stay what they are.
LEMMA SnapshotStays ==
    ASSUME SharedInv, [Next]_vars, edits' = edits, AllTexts'
    PROVE  AllTexts /\ Snapshot' = Snapshot
<1>0. FileTypes /\ NamesOK /\ FileTypes' /\ NamesOK' /\ NamesStep /\ Grows
  BY SharedNext, StepGrows DEF SharedInv, TypeOK
<1>1. ASSUME NEW p \in Sources
      PROVE  /\ IsFile(p)' <=> IsFile(p)
             /\ IsFile(p) => /\ InodeOf(p)' = InodeOf(p)
                             /\ data'[InodeOf(p)'] = data[InodeOf(p)]
                             /\ data[InodeOf(p)] \in Texts
  <2>0. p \in Paths
    BY FileSystemAssumption
  <2>1. ASSUME IsFile(p)
        PROVE  IsFile(p)' /\ InodeOf(p)' = InodeOf(p)
    BY <1>0, <2>0, <2>1 DEF Grows, IsFile, Exists
  <2>2. ASSUME IsFile(p)'
        PROVE  /\ InodeOf(p)' = InodeOf(p) /\ data'[InodeOf(p)'] = data[InodeOf(p)]
               /\ IsFile(p) /\ data[InodeOf(p)] \in Texts
    <3> PICK i : i = InodeOf(p)'
      OBVIOUS
    <3>1. i \in DOMAIN data' /\ data'[i] \in Texts
      BY <1>0, <2>0, <2>2 DEF AllTexts, NamesOK, FileTypes, IsFile, InodeOf, Resolve
    <3>2. i \in DOMAIN data /\ data'[i] = data[i]
      BY <3>1, NoNewTexts
    <3>3. InodeOf(p) = i
      BY <1>0, <2>0, <3>2, InodeMoves
    <3> QED
      BY <2>2, <3>1, <3>2, <3>3 DEF IsFile
  <2> QED
    BY <2>1, <2>2
<1>2. AllTexts
  BY <1>1 DEF AllTexts
<1>3. {p \in Sources : IsFile(p)}' = {p \in Sources : IsFile(p)}
  BY <1>1
<1> QED
  BY <1>1, <1>2, <1>3 DEF Snapshot

\* What the snapshot says of texts.
LEMMA SnapshotTypes ==
    ASSUME AllTexts, NEW s, s = Snapshot
    PROVE  /\ \A p \in DOMAIN s : p \in Sources /\ IsFile(p) /\ s[p] = data[InodeOf(p)]
           /\ \A p \in DOMAIN s : s[p] \in Texts
           /\ \A p \in Sources : IsFile(p) => p \in DOMAIN s
BY DEF AllTexts, Snapshot

\* The verdict on a program whose module n is the first that cannot be loaded.
LEMMA FirstUnloadable ==
    ASSUME NEW s, NEW f, FileVerdict(s, f) = 0, Imports[s[f]] \in Seq(Sources),
           NEW n \in Unloadable(s, f),
           \A m \in 1 .. n - 1 : m \notin Unloadable(s, f)
    PROVE  Verdict(s, f) = FileVerdict(s, Imports[s[f]][n])
<1>1. Unloadable(s, f) \subseteq Nat \ {0}
  BY DEF Unloadable
<1> DEFINE First(i) == \A m \in 1 .. i - 1 : m \notin Unloadable(s, f)
<1>2. ASSUME NEW i \in Unloadable(s, f), First(i)
      PROVE  i = n
  <2>1. i \in Nat \ {0} /\ n \in Nat \ {0}
    BY <1>1
  <2>2. ~(n < i)
    BY <1>2, <2>1
  <2>3. ~(i < n)
    BY <2>1
  <2> QED
    BY <2>1, <2>2, <2>3
<1>3. (CHOOSE i \in Unloadable(s, f) : First(i)) = n
  BY <1>2
<1> QED
  BY <1>3 DEF Verdict

\* The files of a program that was loaded hold texts.
LEMMA LoadedTexts ==
    ASSUME NEW s, NEW f, Loaded(s, f), \A p \in DOMAIN s : s[p] \in Texts
    PROVE  Program(s, f) \subseteq Texts
BY DEF Loaded, Program, Unloadable, FileVerdict

\* The entry text is that of the snapshot.
LEMMA ReadEntryVerdict ==
    ASSUME SharedInv, NEW j \in Jobs, ReadEntry(j), AllTexts, NEW s, s = Snapshot
    PROVE  Judged(j, s)'
<1> PICK f : f = File(j)
  OBVIOUS
<1>1. CASE IsFile(f) /\ f \in Sources
  <2>1. /\ job'[j].pc = "frontend" /\ job'[j].read = {data[InodeOf(f)]}
        /\ job'[j].cmd = job[j].cmd
    BY <1>1, ReadEntryShape
  <2>2. f \in DOMAIN s /\ s[f] = data[InodeOf(f)]
    BY <1>1, SnapshotTypes
  <2> QED
    BY <2>1, <2>2 DEF Judged, File
<1>2. CASE ~(IsFile(f) /\ f \in Sources)
  <2>1. Return(j, 3)
    BY <1>2, ReadEntryShape
  <2>2. job'[j].pc = "returned" /\ job'[j].exit = 3 /\ job'[j].cmd = job[j].cmd
    BY <2>1, ReturnShape DEF SharedInv, Codes, KeepsInput
  <2>3. f \notin DOMAIN s
    BY <1>2, SnapshotTypes
  <2>4. Verdict(s, f) = 3
    BY <2>3 DEF Verdict, FileVerdict
  <2> QED
    BY <2>2, <2>4 DEF Judged, File
<1> QED
  BY <1>1, <1>2

\* The verdict of the tokenizer and the parser on the snapshot.
LEMMA FrontendVerdict ==
    ASSUME SharedInv, NEW j \in Jobs, Frontend(j), AllTexts, NEW s, s = Snapshot,
           Judged(j, s), Analyzes(job[j].cmd.mode)
    PROVE  Judged(j, s)'
<1> PICK f : f = File(j)
  OBVIOUS
<1>1. f \in DOMAIN s /\ job[j].read = {s[f]} /\ s[f] \in Texts
  BY SnapshotTypes DEF Frontend, At, Judged, File
<1>2. Mode(j) # "tokens" /\ AfterFrontend(Mode(j)) = "imports"
  BY DEF Analyzes, AfterFrontend, Mode
<1>3. DefectsOf(s[f]) = {Defect[s[f]]}
  BY <1>1 DEF DefectsOf
<1>4. \/ Defect[s[f]] = "tokens" /\ Return(j, 4)
      \/ Defect[s[f]] = "syntax" /\ Return(j, 5)
      \/ Defect[s[f]] \notin {"tokens", "syntax"} /\ Goto(j, "imports")
  BY <1>1, <1>2, <1>3 DEF Frontend
<1>5. CASE Defect[s[f]] = "tokens" /\ Return(j, 4)
  <2>1. job'[j].pc = "returned" /\ job'[j].exit = 4 /\ job'[j].cmd = job[j].cmd
    BY <1>5, ReturnShape DEF SharedInv, Codes, KeepsInput
  <2>2. Verdict(s, f) = 4
    BY <1>1, <1>5 DEF Verdict, FileVerdict
  <2> QED
    BY <2>1, <2>2 DEF Judged, File
<1>6. CASE Defect[s[f]] = "syntax" /\ Return(j, 5)
  <2>1. job'[j].pc = "returned" /\ job'[j].exit = 5 /\ job'[j].cmd = job[j].cmd
    BY <1>6, ReturnShape DEF SharedInv, Codes, KeepsInput
  <2>2. Verdict(s, f) = 5
    BY <1>1, <1>6 DEF Verdict, FileVerdict
  <2> QED
    BY <2>1, <2>2 DEF Judged, File
<1>7. CASE Defect[s[f]] \notin {"tokens", "syntax"} /\ Goto(j, "imports")
  <2>1. job'[j].pc = "imports" /\ job'[j].cmd = job[j].cmd /\ job'[j].read = job[j].read
    BY <1>7, GotoShape DEF SharedInv, Stages, Busy, KeepsInput
  <2>2. FileVerdict(s, f) = 0
    BY <1>1, <1>7 DEF FileVerdict
  <2> QED
    BY <1>1, <2>1, <2>2 DEF Judged, File
<1> QED
  BY <1>4, <1>5, <1>6, <1>7

\* What it means for load_program_dependencies that a module loads, or not.
LEMMA ModuleVerdict ==
    ASSUME SharedInv, AllTexts, NEW s, s = Snapshot, NEW p \in Sources
    PROVE  /\ Loads(p) <=> FileVerdict(s, p) = 0
           /\ Loads(p) => data[InodeOf(p)] = s[p]
           /\ \A j \in Jobs : RejectModule(j, p) =>
                \E code \in {3, 4, 5} : Return(j, code) /\ FileVerdict(s, p) = code
<1>1. CASE IsFile(p)
  <2>1. p \in DOMAIN s /\ s[p] = data[InodeOf(p)] /\ s[p] \in Texts
    BY <1>1, SnapshotTypes
  <2>2. DefectsOf(data[InodeOf(p)]) = {Defect[s[p]]}
    BY <2>1 DEF DefectsOf
  <2> QED
    BY <1>1, <2>1, <2>2 DEF Loads, RejectModule, FileVerdict
<1>2. CASE ~IsFile(p)
  <2>1. p \notin DOMAIN s
    BY <1>2, SnapshotTypes
  <2> QED
    BY <1>2, <2>1 DEF Loads, RejectModule, FileVerdict
<1> QED
  BY <1>1, <1>2

\* The verdict on the modules of the snapshot.
LEMMA LoadImportsVerdict ==
    ASSUME SharedInv, NEW j \in Jobs, LoadImports(j), AllTexts, NEW s, s = Snapshot,
           Judged(j, s)
    PROVE  Judged(j, s)'
<1> PICK f : f = File(j)
  OBVIOUS
<1> PICK modules : modules = Imports[s[f]]
  OBVIOUS
<1>1. /\ f \in DOMAIN s /\ job[j].read = {s[f]} /\ s[f] \in Texts
      /\ FileVerdict(s, f) = 0
  BY SnapshotTypes DEF LoadImports, At, Judged, File
<1>2. modules \in Seq(Sources) /\ \A n \in DOMAIN modules : modules[n] \in Sources
  BY <1>1, TextAssumption
<1>3. ImportsOf(s[f]) = modules
  BY <1>1 DEF ImportsOf
<1>4. CASE \E n \in DOMAIN modules :
             /\ \A m \in 1 .. n - 1 : Loads(modules[m])
             /\ RejectModule(j, modules[n])
  <2>1. PICK n \in DOMAIN modules :
          /\ \A m \in 1 .. n - 1 : Loads(modules[m])
          /\ RejectModule(j, modules[n])
    BY <1>4
  <2>2. PICK code \in {3, 4, 5} : Return(j, code) /\ FileVerdict(s, modules[n]) = code
    BY <1>2, <2>1, ModuleVerdict
  <2>3. n \in Unloadable(s, f)
    BY <2>2 DEF Unloadable
  <2>4. \A m \in 1 .. n - 1 : m \notin Unloadable(s, f)
    <3>1. \A m \in 1 .. n - 1 : m \in DOMAIN modules
      BY <1>2
    <3> QED
      BY <1>2, <2>1, <3>1, ModuleVerdict DEF Unloadable
  <2>5. Verdict(s, f) = code
    BY <1>1, <1>2, <2>2, <2>3, <2>4, FirstUnloadable
  <2>6. job'[j].pc = "returned" /\ job'[j].exit = code /\ job'[j].cmd = job[j].cmd
    BY <2>2, ReturnShape DEF SharedInv, Codes, KeepsInput
  <2> QED
    BY <2>5, <2>6 DEF Judged, File
<1>5. CASE /\ \A n \in DOMAIN modules : Loads(modules[n])
           /\ job'[j].pc = "analyze" /\ job'[j].cmd = job[j].cmd
           /\ job'[j].read = job[j].read
                \cup {data[InodeOf(modules[n])] : n \in DOMAIN modules}
  <2>1. Unloadable(s, f) = {}
    BY <1>2, <1>5, ModuleVerdict DEF Unloadable
  <2>2. \A n \in DOMAIN modules : data[InodeOf(modules[n])] = s[modules[n]]
    BY <1>2, <1>5, ModuleVerdict
  <2>3. job'[j].read = Program(s, f)
    BY <1>1, <1>5, <2>2 DEF Program
  <2> QED
    BY <1>1, <1>5, <2>1, <2>3 DEF Judged, File, Loaded
<1> QED
  BY <1>1, <1>3, <1>4, <1>5, LoadImportsShape

\* The verdict of the semantic passes on the snapshot.
LEMMA AnalyzeVerdict ==
    ASSUME SharedInv, NEW j \in Jobs, Analyze(j), AllTexts, NEW s, s = Snapshot,
           Judged(j, s)
    PROVE  Judged(j, s)'
<1> PICK f : f = File(j)
  OBVIOUS
<1>1. Loaded(s, f) /\ job[j].read = Program(s, f)
  BY DEF Analyze, At, Judged, File
<1>2. \A c \in job[j].read : DefectsOf(c) = {Defect[c]}
  BY <1>1, SnapshotTypes, LoadedTexts DEF DefectsOf
<1>3. CASE (\E c \in job[j].read : "semantic" \in DefectsOf(c)) /\ Return(j, 6)
  <2>1. job'[j].pc = "returned" /\ job'[j].exit = 6 /\ job'[j].cmd = job[j].cmd
    BY <1>3, ReturnShape DEF SharedInv, Codes, KeepsInput
  <2>2. Verdict(s, f) = 6
    BY <1>1, <1>2, <1>3 DEF Verdict, Loaded
  <2> QED
    BY <2>1, <2>2 DEF Judged, File
<1>4. CASE (\A c \in job[j].read : DefectsOf(c) # {"semantic"}) /\ Goto(j, "paths")
  <2>1. job'[j].pc = "paths" /\ job'[j].cmd = job[j].cmd /\ job'[j].read = job[j].read
    BY <1>4, GotoShape DEF SharedInv, Stages, Busy, KeepsInput
  <2>2. Verdict(s, f) = 0
    BY <1>1, <1>2, <1>4 DEF Verdict, Loaded
  <2> QED
    BY <1>1, <2>1, <2>2 DEF Judged, File
<1> QED
  BY <1>3, <1>4 DEF Analyze

\* The check of the destinations passes no verdict on the program.
LEMMA CheckPathsVerdict ==
    ASSUME SharedInv, NEW j \in Jobs, CheckPaths(j), NEW s, Judged(j, s)
    PROVE  Judged(j, s)'
<1> PICK f : f = File(j)
  OBVIOUS
<1>1. Loaded(s, f) /\ job[j].read = Program(s, f) /\ Verdict(s, f) = 0
  BY DEF CheckPaths, At, Judged, File
<1>2. CASE Return(j, 3)
  <2>1. job'[j].pc = "returned" /\ job'[j].exit = 3 /\ job'[j].cmd = job[j].cmd
    BY <1>2, ReturnShape DEF SharedInv, Codes, KeepsInput
  <2> QED
    BY <1>1, <2>1 DEF Judged, File
<1>3. CASE Generates(Mode(j)) /\ Goto(j, "generate")
  <2>1. job'[j].pc = "generate" /\ job'[j].cmd = job[j].cmd /\ job'[j].read = job[j].read
    BY <1>3, GotoShape DEF SharedInv, Stages, Busy, KeepsInput
  <2> QED
    BY <1>1, <2>1 DEF Judged, File
<1>4. CASE ~Generates(Mode(j)) /\ Goto(j, "emit")
  <2>1. job'[j].pc = "emit" /\ job'[j].cmd = job[j].cmd
    BY <1>4, GotoShape DEF SharedInv, Stages, Busy, KeepsInput
  <2> QED
    BY <1>1, <1>4, <2>1 DEF Judged, File, Mode
<1> QED
  BY <1>2, <1>3, <1>4 DEF CheckPaths

\* The backend passes its own verdict only.
LEMMA GenerateVerdict ==
    ASSUME SharedInv, NEW j \in Jobs, Generate(j), AllTexts, NEW s, s = Snapshot,
           Judged(j, s)
    PROVE  Judged(j, s)'
<1> PICK f : f = File(j)
  OBVIOUS
<1>1. Loaded(s, f) /\ job[j].read = Program(s, f) /\ Verdict(s, f) = 0
  BY DEF Generate, At, Judged, File
<1>2. \A c \in job[j].read : DefectsOf(c) = {Defect[c]}
  BY <1>1, SnapshotTypes, LoadedTexts DEF DefectsOf
<1> DEFINE pc == IF Mode(j) = "compile" /\ job[j].cmd.tool = "a7"
                 THEN "output" ELSE AfterOutput(job[j].cmd)
<1>3. CASE (\E c \in job[j].read : "codegen" \in DefectsOf(c)) /\ Return(j, 7)
  <2>1. job'[j].pc = "returned" /\ job'[j].exit = 7 /\ job'[j].cmd = job[j].cmd
    BY <1>3, ReturnShape DEF SharedInv, Codes, KeepsInput
  <2>2. Uncompilable(s, f)
    BY <1>1, <1>2, <1>3 DEF Uncompilable
  <2> QED
    BY <1>1, <2>1, <2>2 DEF Judged, File
<1>4. CASE (\A c \in job[j].read : DefectsOf(c) # {"codegen"}) /\ Goto(j, pc)
  <2>1. pc \in {"output", "document", "emit"}
    BY DEF AfterOutput
  <2>2. job'[j].pc = pc /\ job'[j].cmd = job[j].cmd
    BY <1>4, <2>1, GotoShape DEF SharedInv, Stages, Busy, KeepsInput
  <2>3. ~Uncompilable(s, f)
    BY <1>1, <1>2, <1>4 DEF Uncompilable
  <2> HIDE DEF pc
  <2> QED
    BY <1>1, <2>1, <2>2, <2>3 DEF Judged, File
<1> QED
  BY <1>3, <1>4 DEF Generate

\* From there on the verdict is known, whatever happens to the destinations.
LEMMA WritingVerdict ==
    ASSUME SharedInv, NEW j \in Jobs, NEW s, Judged(j, s),
           OpenOutput(j) \/ OpenDoc(j) \/ WriteOutput(j) \/ WriteDoc(j) \/ Emit(j)
    PROVE  Judged(j, s)'
<1> PICK f, m : f = job[j].cmd.file /\ m = job[j].cmd.mode
  OBVIOUS
<1>1. Verdict(s, f) = 0 /\ (Generates(m) => ~Uncompilable(s, f))
  BY DEF OpenOutput, OpenDoc, WriteOutput, WriteDoc, Emit, At, Judged
<1>2. job'[j].cmd = job[j].cmd
  BY StepMoves DEF Advances, Proceed
<1>3. \/ job'[j].pc \in {"writing", "document", "documenting", "emit"}
      \/ job'[j].pc = "returned" /\ job'[j].exit \in {0, 3}
  <2>1. job \in [Jobs -> JobStates]
    BY DEF SharedInv, TypeOK
  <2>2. CASE OpenOutput(j)
    BY <2>1, <2>2 DEF OpenOutput, Open, Return, JobStates
  <2>3. CASE OpenDoc(j)
    BY <2>1, <2>3 DEF OpenDoc, Open, Return, JobStates
  <2>4. CASE WriteOutput(j)
    BY <2>1, <2>4 DEF WriteOutput, Write, AfterOutput, JobStates
  <2>5. CASE WriteDoc(j)
    BY <2>1, <2>5 DEF WriteDoc, Write, JobStates
  <2>6. CASE Emit(j)
    BY <2>1, <2>6 DEF Emit, Return, JobStates
  <2> QED
    BY <2>2, <2>3, <2>4, <2>5, <2>6
<1> QED
  BY <1>1, <1>2, <1>3 DEF Judged

\* What a judged invocation knows is kept by its own steps.
LEMMA MoverVerdict ==
    ASSUME SharedInv, NEW j \in Jobs, VerdictOK(j), [Next]_vars,
           (\E c \in Commands : Start(j, c)) \/ Proceed(j) \/ Fault(j)
    PROVE  VerdictOK(j)'
<1> PICK s : s = Snapshot
  OBVIOUS
<1>1. CASE \E c \in Commands : Start(j, c)
  <2>1. PICK c \in Commands : Start(j, c)
    BY <1>1
  <2>2. /\ job'[j].cmd = c /\ job'[j].since = edits /\ edits' = edits
        /\ job'[j].pc = IF BadUsage(c) THEN "returned" ELSE "read"
    BY <2>1, StartShape DEF SharedInv
  <2>3. job'[j].since <= edits'
    BY <2>2 DEF SharedInv, TypeOK
  <2>4. Judgeable(j)' => job'[j].pc = "read"
    BY <2>2 DEF Judgeable
  <2> QED
    BY <2>3, <2>4 DEF VerdictOK, Judged
<1>2. CASE Fault(j)
  <2>1. j \in struck' /\ edits' = edits /\ job'[j].since = job[j].since
    <3>1. (\E code \in {3, 7, 8} : Return(j, code)) \/ Goto(j, "killed")
      BY <1>2 DEF Fault, CallFails, Bug, Kill
    <3>2. KeepsInput(j)
      BY <3>1, ReturnShape, GotoShape DEF SharedInv, Codes, Stages
    <3> QED
      BY <1>2, <3>2 DEF Fault, CallFails, Bug, Kill, Strike, KeepsInput
  <2> QED
    BY <2>1 DEF VerdictOK, Judgeable
<1>3. CASE Proceed(j)
  <2>1. edits' = edits /\ struck' = struck /\ job[j].pc # Idle
    BY <1>3 DEF Proceed, ReadEntry, Frontend, LoadImports, Analyze, CheckPaths, Generate,
                Emit, OpenOutput, OpenDoc, WriteOutput, WriteDoc, At, Idle
  <2>2. job'[j].cmd = job[j].cmd /\ job'[j].since = job[j].since
    BY <1>3, StepMoves DEF Advances
  <2>3. ASSUME Judgeable(j)'
        PROVE  Judged(j, s)' /\ Snapshot' = s
    <3>1. AllTexts' /\ job[j].since = edits
      BY <2>1, <2>2, <2>3 DEF Judgeable, Unchanged, AllTexts
    <3>2. AllTexts /\ Snapshot' = s
      BY <2>1, <3>1, SnapshotStays
    <3>3. Judgeable(j)
      BY <2>1, <2>2, <2>3, <3>1, <3>2 DEF Judgeable, Unchanged, AllTexts
    <3>4. Judged(j, s) /\ Analyzes(job[j].cmd.mode)
      BY <3>3 DEF VerdictOK, Judgeable
    <3>5. Judged(j, s)'
      BY <1>3, <3>2, <3>4, ReadEntryVerdict, FrontendVerdict, LoadImportsVerdict,
         AnalyzeVerdict, CheckPathsVerdict, GenerateVerdict, WritingVerdict DEF Proceed
    <3> QED
      BY <3>2, <3>5
  <2>4. Judgeable(j)' => Judged(j, Snapshot)'
    BY <2>3
  <2> QED
    BY <2>1, <2>2, <2>4 DEF VerdictOK
<1> QED
  BY <1>1, <1>2, <1>3

\* What it knows is kept by the steps of others, and by edits.
LEMMA OthersVerdict ==
    ASSUME SharedInv, NEW k \in Jobs, VerdictOK(k), [Next]_vars, job'[k] = job[k],
           edits' \in {edits, edits + 1}
    PROVE  VerdictOK(k)'
<1> PICK s : s = Snapshot
  OBVIOUS
<1>1. edits \in Nat /\ job[k].since \in Nat /\ job[k].since <= edits
  BY DEF VerdictOK, SharedInv, TypeOK, JobStates
<1>2. job'[k].since <= edits'
  BY <1>1
<1>3. ASSUME Judgeable(k)'
      PROVE  Judged(k, s)' /\ Snapshot' = s
  <2>1. AllTexts' /\ edits' = edits
    BY <1>1, <1>3 DEF Judgeable, Unchanged, AllTexts
  <2>2. AllTexts /\ Snapshot' = s
    BY <2>1, SnapshotStays
  <2>3. struck \subseteq struck'
    BY StepGrows DEF Grows
  <2>4. Judgeable(k)
    BY <1>3, <2>1, <2>2, <2>3 DEF Judgeable, Unchanged, AllTexts
  <2>5. Judged(k, s)
    BY <2>4 DEF VerdictOK
  <2> QED
    BY <2>2, <2>5 DEF Judged
<1> QED
  BY <1>2, <1>3 DEF VerdictOK

\* The invariant on verdicts holds at first.
LEMMA VerdictInit == Init => VerdictInv
<1> SUFFICES ASSUME Init
             PROVE  VerdictInv
  OBVIOUS
<1>1. \A k \in Jobs : job[k].pc = Idle /\ job[k].since <= edits
  BY DEF Init, NewJob
<1> QED
  BY <1>1, SharedInit DEF VerdictInv, VerdictOK, Judgeable

\* It survives every step.
LEMMA VerdictNext == VerdictInv /\ [Next]_vars => VerdictInv'
<1> SUFFICES ASSUME VerdictInv, [Next]_vars
             PROVE  VerdictInv'
  OBVIOUS
<1>0. SharedInv /\ \A k \in Jobs : VerdictOK(k)
  BY DEF VerdictInv
<1>1. SharedInv'
  BY <1>0, SharedNext
<1>2. ASSUME NEW j \in Jobs, (\E c \in Commands : Start(j, c)) \/ Proceed(j) \/ Fault(j),
             NEW k \in Jobs
      PROVE  VerdictOK(k)'
  <2>1. CASE k = j
    BY <1>0, <1>2, <2>1, MoverVerdict
  <2>2. CASE k # j
    <3>1. job'[k] = job[k] /\ edits' = edits
      BY <1>0, <1>2, <2>2, StepMoves DEF OnlyMoves, Advances
    <3> QED
      BY <1>0, <3>1, OthersVerdict
  <2> QED
    BY <2>1, <2>2
<1>3. ASSUME Edit \/ UNCHANGED vars, NEW k \in Jobs
      PROVE  VerdictOK(k)'
  <2>1. job'[k] = job[k] /\ edits' \in {edits, edits + 1}
    BY <1>3 DEF Edit, vars
  <2> QED
    BY <1>0, <2>1, OthersVerdict
<1> QED
  BY <1>1, <1>2, <1>3 DEF Next, VerdictInv

\* Two invocations on one program that does not change come to the same verdict,
\* in whatever mode they run: a check or a documentation run accepts exactly what
\* a compile run accepts, up to the paths it writes.
THEOREM ModesAlwaysAgree == Spec => []ModesAgree
<1>1. VerdictInv => ModesAgree
  <2> SUFFICES ASSUME VerdictInv, NEW j \in Jobs, NEW k \in Jobs,
                      Ended(j), Ended(k), {j, k} \cap struck = {}, File(j) = File(k),
                      Generates(Mode(j)), ~BadUsage(job[j].cmd),
                      Analyzes(Mode(k)), ~BadUsage(job[k].cmd),
                      Unchanged(j), Unchanged(k)
               PROVE  /\ job[j].exit \in {4, 5, 6} \/ job[k].exit \in {4, 5, 6} =>
                           job[j].exit = job[k].exit
                      /\ job[j].exit = 0 => job[k].exit \in {0, 3}
    BY DEF ModesAgree
  <2> PICK s, f, x, y : s = Snapshot /\ f = File(j) /\ x = job[j].exit /\ y = job[k].exit
    OBVIOUS
  <2>1. Judgeable(j) /\ Judgeable(k)
    BY DEF Judgeable, Ended, At, Idle, Mode, Analyzes, Generates
  <2>2. Judged(j, s) /\ Judged(k, s)
    BY <2>1 DEF VerdictInv, VerdictOK
  <2>3. /\ x \in {0, 3, 4, 5, 6, 7}
        /\ x \in {4, 5, 6} => Verdict(s, f) = x
        /\ x = 3 => Verdict(s, f) \in {0, 3}
        /\ x \in {0, 7} => Verdict(s, f) = 0
        /\ x = 0 => ~Uncompilable(s, f)
    BY <2>2 DEF Judged, Ended, At, File, Mode
  <2>4. /\ y \in {0, 3, 4, 5, 6, 7}
        /\ y \in {4, 5, 6} => Verdict(s, f) = y
        /\ y = 3 => Verdict(s, f) \in {0, 3}
        /\ y \in {0, 7} => Verdict(s, f) = 0
        /\ y = 7 => Uncompilable(s, f)
    BY <2>2 DEF Judged, Ended, At, File
  <2> QED
    BY <2>3, <2>4
<1> QED
  BY <1>1, VerdictInit, VerdictNext, PTL DEF Spec
=============================================================================
