-------------------------- MODULE CommandLineProofs --------------------------
(***************************************************************************)
(* Theorems about CommandLine, for every list of files, every limit and    *)
(* every set of faults.                                                    *)
(***************************************************************************)
EXTENDS CommandLine, TLAPS

-----------------------------------------------------------------------------
(* The prepared task.  A completed preparation leaves the directory as its *)
(* manifest says, and a loader nobody disturbs compares every file with    *)
(* the one manifest it has read.                                           *)

\* What the preparation knows of the directory.
Prepared ==
    /\ prepare = "write" =>
          private = "whole" /\ \A f \in Places : f <= written => disk[f] # 0
    /\ prepare \in {"labels", "exporting"} => written = 0
    /\ prepare # "idle" => documents \in Complete
    /\ current => private = "whole" /\ manifest = disk /\ manifest # Blank
    /\ manifest = Blank \/ manifest \in completed

\* What a loader knows of what it has read while no file was replaced.
Undisturbed ==
    /\ expected = manifest /\ expected \in completed
    /\ load = "check" => \A f \in Places : f < place => disk[f] = expected[f]
    /\ load = "read" => /\ disk = expected
                        /\ \A f \in Places : f < place => found[f] = disk[f]

Loading ==
    /\ load = "idle" => place = 1
    /\ load \in {"check", "read"} /\ ~overlap => Undisturbed

TaskInv == TaskTypeOK /\ Prepared /\ Loading /\ AcceptedWasCompleted

\* The places are the numbers of the files.
LEMMA PlacesType ==
    /\ Len(Files) \in Nat \ {0} /\ Places = 1 .. Len(Files)
    /\ 1 \in Places /\ Len(Files) \in Places
  BY PreparedTaskAssumption DEF Places

\* The bounds are numbers.
LEMMA TaskBounds == MaxContent \in Nat \ {0} /\ MaxPreparations \in Nat
  BY PreparedTaskAssumption

\* Documents are a part of what may be on disk.
LEMMA ContentsType ==
    /\ Blank \in Contents /\ Complete \subseteq Contents
    /\ [f \in Places |-> 1] \in Complete
    /\ \A d \in Contents : (\A f \in Places : d[f] # 0) => d \in Complete /\ d # Blank
  <1>1. Blank \in Contents /\ Complete \subseteq Contents /\ [f \in Places |-> 1] \in Complete
    BY TaskBounds DEF Blank, Contents, Complete
  <1>2. ASSUME NEW d \in Contents, \A f \in Places : d[f] # 0
        PROVE  d \in Complete /\ d # Blank
    <2>1. ASSUME NEW f \in Places PROVE d[f] \in 1 .. MaxContent
      <3>1. d[f] \in 0 .. MaxContent /\ d[f] # 0
        BY <1>2 DEF Contents
      <3> QED BY <3>1, TaskBounds
    <2>2. d = [f \in Places |-> d[f]]
      BY DEF Contents
    <2>3. d \in Complete
      BY <2>1, <2>2 DEF Complete
    <2>4. d[1] # Blank[1]
      BY <1>2, PlacesType DEF Blank
    <2> QED BY <2>3, <2>4
  <1> QED BY <1>1, <1>2

\* Nothing is written yet.
LEMMA TaskInitInv == TaskInit => TaskInv
  <1> SUFFICES ASSUME TaskInit PROVE TaskInv
    OBVIOUS
  <1>1. TaskTypeOK
    <2>1. begun \in 0 .. MaxPreparations /\ written \in 0 .. Len(Files)
      BY PlacesType, TaskBounds DEF TaskInit
    <2>2. completed \subseteq Complete /\ current \in BOOLEAN /\ overlap \in BOOLEAN
      BY DEF TaskInit
    <2>3. /\ repo \in Complete /\ documents \in Contents
          /\ disk \in Contents /\ manifest \in Contents
          /\ expected \in Contents /\ found \in Contents
      BY ContentsType DEF TaskInit
    <2> QED BY <2>1, <2>2, <2>3, PlacesType DEF TaskInit, TaskTypeOK
  <1> QED BY <1>1, PlacesType
          DEF TaskInit, TaskInv, Prepared, Loading, AcceptedWasCompleted

\* A step of a preparation that replaces something leaves a loader that is
\* reading nothing to know but that it was disturbed; one that replaces nothing
\* leaves it what it knew.
LEMMA LoaderKnows ==
    ASSUME Loading, AcceptedWasCompleted, UNCHANGED <<load, place, expected, found>>,
           Seen \/ (UNCHANGED overlap /\ UNCHANGED <<disk, manifest>>),
           completed \subseteq completed'
    PROVE  Loading' /\ AcceptedWasCompleted'
  <1>1. AcceptedWasCompleted'
    BY DEF Seen, AcceptedWasCompleted
  <1>2. ASSUME load' \in {"check", "read"}, ~overlap' PROVE Undisturbed'
    <2>1. /\ load \in {"check", "read"} /\ ~overlap /\ UNCHANGED <<disk, manifest>>
      <3>1. load \in {"check", "read"}
        BY <1>2
      <3>2. CASE Seen
        <4>1. ~(overlap \/ <<disk, manifest>>' # <<disk, manifest>>)
          BY <1>2, <3>1, <3>2, Zenon DEF Seen
        <4> QED BY <3>1, <4>1, Zenon
      <3>3. CASE UNCHANGED overlap /\ UNCHANGED <<disk, manifest>>
        BY <1>2, <3>1, <3>3, Zenon
      <3> QED BY <3>2, <3>3
    <2>2. Undisturbed /\ UNCHANGED <<load, place, expected, found, disk, manifest>>
      BY <2>1 DEF Loading
    <2>3. expected' = manifest' /\ expected' \in completed'
      BY <2>2 DEF Undisturbed
    <2> QED BY <2>2, <2>3 DEF Undisturbed, Places
  <1> QED BY <1>1, <1>2 DEF Loading

\* Editing the repository, and the steps of a preparation.
LEMMA PreparationInv ==
    ASSUME TaskInv,
           Edit \/ BeginPreparation \/ ExportLabels \/ LabelsExported \/ ReuseLabels
             \/ WriteFile \/ WriteManifest \/ Crash
    PROVE  TaskInv'
  <1> USE DEF TaskInv
  <1>1. CASE Edit
    <2>1. TaskTypeOK' /\ Prepared'
      BY <1>1, TaskBounds DEF Edit, TaskTypeOK, Complete, loader, Prepared, Blank, Places
    <2> QED BY <1>1, <2>1, LoaderKnows DEF Edit, loader
  <1>2. CASE BeginPreparation
    <2>1. TaskTypeOK'
      <3>1. documents' \in Contents
        BY <1>2, ContentsType DEF BeginPreparation, TaskTypeOK
      <3>2. begun' \in 0 .. MaxPreparations /\ written' \in 0 .. Len(Files)
        BY <1>2, PlacesType, TaskBounds DEF BeginPreparation, TaskTypeOK
      <3> QED BY <1>2, <3>1, <3>2 DEF BeginPreparation, TaskTypeOK, loader
    <2>2. Prepared'
      <3>1. \A f \in Places : ~(f <= 0)
        BY PlacesType
      <3> QED BY <1>2, <3>1 DEF BeginPreparation, TaskTypeOK, Prepared, Blank, Places
    <2> QED BY <1>2, <2>1, <2>2, LoaderKnows DEF BeginPreparation, loader
  <1>3. CASE ExportLabels \/ LabelsExported \/ ReuseLabels \/ Crash
    <2>1. TaskTypeOK'
      BY <1>3 DEF ExportLabels, LabelsExported, ReuseLabels, Crash, TaskTypeOK, loader
    <2>2. Prepared'
      <3>1. \A f \in Places : ~(f <= 0)
        BY PlacesType
      <3>2. CASE Crash
        BY <3>2 DEF Crash, loader, Prepared
      <3>3. CASE ReuseLabels
        BY <3>1, <3>3 DEF ReuseLabels, loader, Prepared
      <3>4. CASE ExportLabels \/ LabelsExported
        BY <3>1, <3>4 DEF ExportLabels, NeedsExport, LabelsExported, Prepared
      <3> QED BY <1>3, <3>2, <3>3, <3>4
    <2>3. Loading' /\ AcceptedWasCompleted'
      BY <1>3, LoaderKnows
         DEF ExportLabels, LabelsExported, ReuseLabels, Crash, loader
    <2> QED BY <2>1, <2>2, <2>3
  <1>4. CASE WriteFile
    <2> DEFINE f == written + 1
               from == IF Files[f] \in Documents THEN documents ELSE repo
    <2>1. f \in Places /\ f <= Len(Files) /\ written \in Nat
      BY <1>4, PlacesType DEF WriteFile, TaskTypeOK
    <2>2. from \in Contents /\ disk' = [disk EXCEPT ![f] = from[f]]
      BY <1>4, ContentsType DEF WriteFile, TaskTypeOK
    <2>3. from \in Complete
      BY <1>4 DEF WriteFile, TaskTypeOK, Prepared
    <2> HIDE DEF from
    <2>4. disk' \in Contents /\ disk'[f] # 0 /\ \A g \in Places \ {f} : disk'[g] = disk[g]
      BY <2>1, <2>2, <2>3 DEF TaskTypeOK, Contents, Complete
    <2>5. TaskTypeOK'
      <3>1. written' \in 0 .. Len(Files)
        BY <1>4, <2>1, PlacesType DEF WriteFile
      <3> QED BY <1>4, <2>4, <3>1 DEF WriteFile, TaskTypeOK, Seen
    <2>6. Prepared'
      <3>1. \A g \in Places : g <= written' => g = f \/ g <= written
        BY <1>4, <2>1, PlacesType DEF WriteFile
      <3> QED BY <1>4, <2>4, <3>1 DEF WriteFile, Prepared, Blank, Places
    <2> QED BY <1>4, <2>5, <2>6, LoaderKnows DEF WriteFile
  <1>5. CASE WriteManifest
    <2>1. \A f \in Places : disk[f] # 0
      BY <1>5, PlacesType DEF WriteManifest, Prepared
    <2>2. disk \in Complete /\ disk # Blank
      BY <2>1, ContentsType DEF TaskTypeOK
    <2>3. TaskTypeOK'
      BY <1>5, <2>2 DEF WriteManifest, TaskTypeOK, Seen
    <2>4. Prepared'
      BY <1>5, <2>2 DEF WriteManifest, Prepared, Blank, Places
    <2> QED BY <1>5, <2>3, <2>4, LoaderKnows DEF WriteManifest
  <1> QED BY <1>1, <1>2, <1>3, <1>4, <1>5

\* The steps of the loader.
LEMMA LoaderInv ==
    ASSUME TaskInv, ReadManifest \/ CheckFile \/ ReadFile
    PROVE  TaskInv'
  <1> USE DEF TaskInv
  <1>1. UNCHANGED preparer
    BY DEF ReadManifest, CheckFile, ReadFile
  <1>2. Prepared'
    BY <1>1 DEF preparer, Prepared
  <1>3. CASE ReadManifest
    <2>1. TaskTypeOK'
      BY <1>1, <1>3, PlacesType DEF ReadManifest, Refused, preparer, TaskTypeOK
    <2>2. place' = place /\ place \in Places /\ (load' = "check" => load = "idle")
      BY <1>3 DEF ReadManifest, Refused, TaskTypeOK
    <2>3. load = "idle" => place = 1
      BY <1>3 DEF Loading
    <2>4. CASE load' = "refused"
      BY <1>2, <2>1, <2>4 DEF Loading, AcceptedWasCompleted
    <2>5. CASE load' # "refused"
      <3>1. /\ load' = "check" /\ expected' = manifest /\ manifest \in completed
        BY <1>3, <2>5 DEF ReadManifest, Refused, Prepared
      <3>2. \A f \in Places : ~(f < 1)
        BY PlacesType
      <3> QED BY <1>1, <1>2, <2>1, <2>2, <2>3, <2>5, <3>1, <3>2, <1>3
              DEF ReadManifest, preparer, Loading, Undisturbed, AcceptedWasCompleted
    <2> QED BY <2>4, <2>5
  <1>4. CASE CheckFile
    <2>1. CASE load' = "refused"
      <3>1. UNCHANGED <<place, expected, found, overlap>>
        BY <1>4, <2>1 DEF CheckFile, Refused
      <3> QED BY <1>1, <1>2, <2>1, <3>1 DEF preparer, TaskTypeOK, Loading, AcceptedWasCompleted
    <2>2. CASE load' # "refused"
      <3>1. /\ load = "check" /\ HashMatches(place) /\ UNCHANGED <<expected, found, overlap>>
            /\ \/ place = Len(Files) /\ load' = "read" /\ place' = 1
               \/ place # Len(Files) /\ load' = "check" /\ place' = place + 1
        BY <1>4, <2>2 DEF CheckFile, Refused
      <3>2. place' \in Places
        BY <3>1, PlacesType DEF TaskTypeOK
      <3>3. TaskTypeOK'
        BY <1>1, <3>1, <3>2 DEF preparer, TaskTypeOK
      <3>4. ~overlap => \A f \in Places : f <= place => disk[f] = expected[f]
        BY <3>1, PlacesType DEF Loading, Undisturbed, HashMatches, TaskTypeOK
      <3>5. CASE load' = "read"
        <4>1. ~overlap => disk = expected
          <5>1. disk \in Contents /\ expected \in Contents
            BY DEF TaskTypeOK
          <5>2. ~overlap => \A f \in Places : disk[f] = expected[f]
            BY <3>1, <3>4, <3>5, PlacesType
          <5> QED BY <5>1, <5>2 DEF Contents
        <4>2. \A f \in Places : ~(f < place')
          BY <3>1, <3>5, PlacesType
        <4> QED BY <1>1, <1>2, <3>1, <3>3, <3>5, <4>1, <4>2
                DEF preparer, Loading, Undisturbed, AcceptedWasCompleted
      <3>6. CASE load' = "check"
        <4>1. \A f \in Places : f < place' => f <= place
          BY <3>1, <3>6, PlacesType DEF TaskTypeOK
        <4> QED BY <1>1, <1>2, <3>1, <3>3, <3>4, <3>6, <4>1
                DEF preparer, Loading, Undisturbed, AcceptedWasCompleted
      <3> QED BY <3>1, <3>5, <3>6
    <2> QED BY <2>1, <2>2
  <1>5. CASE ReadFile
    <2>1. found' \in Contents /\ found' = [found EXCEPT ![place] = disk[place]]
      BY <1>5 DEF ReadFile, TaskTypeOK, Contents
    <2>2. /\ load = "read" /\ UNCHANGED <<expected, overlap>>
          /\ \/ place = Len(Files) /\ load' = "loaded" /\ place' = place
             \/ place # Len(Files) /\ load' = "read" /\ place' = place + 1
      BY <1>5 DEF ReadFile
    <2>3. place' \in Places
      BY <2>2, PlacesType DEF TaskTypeOK
    <2>4. TaskTypeOK'
      BY <1>1, <2>1, <2>2, <2>3 DEF preparer, TaskTypeOK
    <2>5. ~overlap => \A f \in Places : f <= place => found'[f] = disk[f]
      BY <2>1, <2>2, PlacesType DEF Loading, Undisturbed, TaskTypeOK, Contents
    <2>6. CASE load' = "loaded"
      <3>1. ~overlap => found' = disk
        <4>1. ~overlap => \A f \in Places : found'[f] = disk[f]
          BY <2>2, <2>5, <2>6, PlacesType
        <4>2. disk \in Contents
          BY DEF TaskTypeOK
        <4> QED BY <2>1, <4>1, <4>2 DEF Contents
      <3> QED BY <1>1, <1>2, <2>2, <2>4, <2>6, <3>1
              DEF preparer, Loading, Undisturbed, AcceptedWasCompleted
    <2>7. CASE load' = "read"
      <3>1. \A f \in Places : f < place' => f <= place
        BY <2>2, <2>7, PlacesType DEF TaskTypeOK
      <3> QED BY <1>1, <1>2, <2>2, <2>4, <2>5, <2>7, <3>1
              DEF preparer, Loading, Undisturbed, AcceptedWasCompleted
    <2> QED BY <2>2, <2>6, <2>7
  <1> QED BY <1>3, <1>4, <1>5

\* Preparations, interrupted or not, and a loader keep the invariant.
LEMMA TaskStepInv == TaskInv /\ [TaskNext]_taskVars => TaskInv'
  <1> SUFFICES ASSUME TaskInv, [TaskNext]_taskVars PROVE TaskInv'
    OBVIOUS
  <1>1. CASE UNCHANGED taskVars
    BY <1>1 DEF taskVars, preparer, loader, TaskInv, TaskTypeOK, Prepared, Loading,
                Undisturbed, AcceptedWasCompleted
  <1>2. CASE TaskNext
    BY <1>2, PreparationInv, LoaderInv DEF TaskNext
  <1> QED BY <1>1, <1>2

\* After a preparation that completed, an undisturbed loader refuses nothing.
LEMMA NoRefusal ==
    ASSUME TaskInv, [TaskNext]_taskVars, load' = "refused", load # "refused"
    PROVE  overlap' \/ ~current
  <1> USE DEF TaskInv
  <1>1. CASE ReadManifest
    BY <1>1 DEF ReadManifest, Prepared
  <1>2. CASE CheckFile
    <2>1. ~HashMatches(place) \/ private # "whole"
      BY <1>2 DEF CheckFile, Refused
    <2> QED BY <1>2, <2>1
            DEF CheckFile, HashMatches, Prepared, Loading, Undisturbed
  <1>3. ReadManifest \/ CheckFile
    BY DEF TaskNext, taskVars, loader, preparer, Edit, BeginPreparation, ExportLabels,
           LabelsExported, ReuseLabels, WriteFile, WriteManifest, Crash, ReadFile
  <1> QED BY <1>1, <1>2, <1>3

-----------------------------------------------------------------------------
(* The sandbox and the session.                                            *)

Cleaning == {"list", "read", "kill", "final-list", "final-read", "final-kill"}
ExecPoints  == {"before", "listed", "loop", "result", "error"} \cup Cleaning
PatchPoints == {"check", "apply", "result", "error"}

\* Before the sandbox is started there is nothing in it.
Fresh ==
    main \in {"load", "loaded", "start"} =>
        /\ container = "absent" /\ ~started /\ tool = "none" /\ supervisor = "idle"
        /\ alive = {}

\* Where the supervisor is while the host waits for it.
Calling ==
    /\ tool = "exec" => supervisor \in ExecPoints
    /\ tool = "patch" => supervisor \in PatchPoints
    /\ tool = "wedged" => supervisor = "idle" /\ container = "dead" /\ ~started
    /\ tool \in {"exec", "patch"} => main = "loop"

\* Processes live in a running container, and Sandbox.started knows of it
\* unless starting it failed or docker kill did.
Living ==
    /\ container # "running" => alive = {}
    /\ container = "running" =>
          \/ tool = "adrift"
          \/ IF main = "ended" THEN fault \in {"start", "close", "stop"}
             ELSE started \/ fault = "start"

\* What the supervisor has read of the output is what it keeps, up to the limit.
Tally ==
    /\ pipe <= produced
    /\ truncated <=> produced - pipe > MAX_OUTPUT_BYTES
    /\ kept = IF produced - pipe > MAX_OUTPUT_BYTES THEN MAX_OUTPUT_BYTES ELSE produced - pipe

\* The result of a command is only made once nobody can write any more.
Drained ==
    \/ supervisor \in {"final-list", "final-read", "final-kill"}
    \/ supervisor = "result" /\ tool = "exec"
    => pipe = 0 /\ holders = {}

\* A patch is only applied after git found nothing to say about it.
Patching ==
    /\ supervisor \in {"check", "apply"} => ~applied
    /\ supervisor = "apply" => patch = "clean"
    /\ PatchTold

\* A process survives a round of the clean-up only by a fork after it was listed.
Cleaned ==
    /\ supervisor \in Cleaning => round \in 1 .. 3
    /\ supervisor \in {"final-list", "final-read", "final-kill"} /\ before = {} =>
          alive = {} \/ \A r \in 1 .. 3 : r < round => r \in forked
    /\ supervisor = "final-read" /\ before = {} =>
          /\ alive \subseteq names \/ round \in forked
          /\ names = {} => alive = {}
    /\ supervisor = "final-kill" /\ before = {} => alive \subseteq candidates \/ round \in forked
    /\ SurvivorsForked

SessionTypeOK ==
    /\ SandboxTypeOK
    /\ main \in {"load", "loaded", "start", "loop", "close", "stop", "ended"}
    /\ calls \in 0 .. MaxCalls /\ fault \in Faults \cup {"none"}

SessionInv ==
    /\ SessionTypeOK /\ Fresh /\ Calling /\ Living
    /\ Tally /\ Drained /\ Patching /\ Cleaned

\* The bounds are numbers.
LEMMA SandboxBounds ==
    /\ MaxProcesses \in Nat /\ MAX_OUTPUT_BYTES \in Nat
    /\ MaxProduced \in Nat /\ PipeSize \in Nat
  BY SandboxAssumption

\* What the sandbox's types say of the numbers in it.
LEMMA SandboxNumbers ==
    ASSUME SandboxTypeOK
    PROVE  /\ spawned \in Nat /\ spawned <= MaxProcesses
           /\ pipe \in Nat /\ produced \in Nat /\ kept \in Nat /\ round \in Nat
           /\ \A p \in alive \cup before \cup names \cup candidates :
                 p \in Nat /\ p >= 1 /\ p <= spawned
  BY SandboxBounds DEF SandboxTypeOK

\* Processes that die leave the sandbox well typed.
LEMMA KillType ==
    ASSUME NEW dead, Kill(dead), alive \subseteq 1 .. spawned, (group \cup holders) \subseteq alive
    PROVE  /\ alive' \subseteq 1 .. spawned /\ (group' \cup holders') \subseteq alive'
           /\ alive' \subseteq alive /\ holders' \subseteq holders
           /\ alive' = alive \ dead
  BY DEF Kill

\* The session begins with nothing started.
LEMMA SessionInit == Init => SessionInv
  <1> SUFFICES ASSUME Init PROVE SessionInv
    OBVIOUS
  <1>1. SessionTypeOK
    <2>1. SandboxTypeOK
      <3>1. /\ spawned \in 0 .. MaxProcesses /\ leader \in 0 .. spawned
            /\ pipe \in 0 .. PipeSize /\ produced \in 0 .. MaxProduced
            /\ kept \in 0 .. MAX_OUTPUT_BYTES /\ round \in 0 .. 4
        BY SandboxBounds DEF Init, SandboxInit
      <3>2. /\ started \in BOOLEAN /\ timed_out \in BOOLEAN /\ truncated \in BOOLEAN
            /\ applied \in BOOLEAN
        BY DEF Init, SandboxInit
      <3> QED BY <3>1, <3>2 DEF Init, SandboxInit, SandboxTypeOK
    <2>2. calls \in 0 .. MaxCalls
      BY CommandLineAssumption DEF Init
    <2> QED BY <2>1, <2>2 DEF Init, SessionTypeOK
  <1>2. Tally
    BY SandboxBounds DEF Init, SandboxInit, Tally
  <1>3. Fresh /\ Calling /\ Living /\ Drained /\ Patching /\ Cleaned
    BY DEF Init, SandboxInit, Fresh, Calling, Living, Drained, Patching, PatchTold, Cleaned,
           Cleaning, SurvivorsForked
  <1> QED BY <1>1, <1>2, <1>3 DEF SessionInv

-----------------------------------------------------------------------------
(* The processes of the commands.                                          *)

\* A command's process forks, exits, closes its output or writes.
LEMMA ProcessInv ==
    ASSUME SessionInv, container = "running", main # "ended", UNCHANGED session,
           NEW p \in alive, Fork(p) \/ Exit(p) \/ CloseOutput(p) \/ Write(p)
    PROVE  SessionInv'
  <1> USE DEF SessionInv
  <1>1. UNCHANGED <<container, started, tool, supervisor, before, names, candidates, round, patch,
                    applied, main, calls, fault>>
    BY DEF Fork, Exit, CloseOutput, Write, session, host, cleaning, patching
  <1>2. Fresh' /\ Calling' /\ Living' /\ Patching'
    BY <1>1 DEF Fresh, Calling, Living, Patching, PatchTold
  <1>3. CASE Fork(p)
    <2>1. /\ spawned' = spawned + 1 /\ alive' = alive \cup {spawned + 1}
          /\ spawned < MaxProcesses /\ spawned \in Nat
          /\ (group' \cup holders') \subseteq alive'
          /\ UNCHANGED <<leader, timed_out, pipe, produced, kept, truncated>>
          /\ holders = {} => holders' = {}
          /\ forked' = IF supervisor \in {"read", "kill", "final-read", "final-kill"}
                       THEN forked \cup {round} ELSE forked
          /\ spawned + 1 \notin names
      BY <1>3, SandboxNumbers DEF Fork, output, SessionTypeOK, SandboxTypeOK
    <2>2. supervisor \in {"read", "kill", "final-read", "final-kill"} => round \in 1 .. 3
      BY DEF Cleaned, Cleaning
    <2>3. SessionTypeOK'
      <3>1. spawned' \in 0 .. MaxProcesses /\ 1 .. spawned \subseteq 1 .. spawned'
            /\ 0 .. spawned \subseteq 0 .. spawned' /\ spawned + 1 \in 1 .. spawned'
        BY <2>1, SandboxBounds
      <3>2. alive' \subseteq 1 .. spawned' /\ forked' \subseteq 1 .. 3
        BY <2>1, <2>2, <3>1 DEF SessionTypeOK, SandboxTypeOK
      <3> QED BY <1>1, <2>1, <3>1, <3>2 DEF SessionTypeOK, SandboxTypeOK
    <2>4. Tally' /\ Drained'
      BY <1>1, <2>1 DEF Tally, Drained
    <2>5. Cleaned'
      <3>1. forked \subseteq forked' /\ alive # {}
        BY <2>1
      <3>2. supervisor \in {"final-read", "final-kill"} => round \in forked'
        BY <2>1
      <3>3. SurvivorsForked'
        <4>1. names \cap alive = {} => names' \cap alive' = {}
          BY <1>1, <2>1
        <4> QED BY <1>1, <2>1, <3>1, <4>1 DEF Cleaned, SurvivorsForked
      <3> QED BY <1>1, <2>1, <3>1, <3>2, <3>3 DEF Cleaned
    <2> QED BY <1>2, <2>3, <2>4, <2>5
  <1>4. CASE Exit(p) \/ CloseOutput(p)
    <2>1. /\ UNCHANGED <<spawned, leader, forked, timed_out, pipe, produced, kept, truncated>>
          /\ alive' \subseteq alive /\ holders' \subseteq holders
          /\ (group' \cup holders') \subseteq alive'
      BY <1>4 DEF Exit, CloseOutput, Kill, cleaning, output, SessionTypeOK, SandboxTypeOK
    <2>2. SessionTypeOK'
      BY <1>1, <2>1 DEF SessionTypeOK, SandboxTypeOK
    <2>3. Tally' /\ Drained'
      BY <1>1, <2>1 DEF Tally, Drained
    <2>4. Cleaned'
      BY <1>1, <2>1 DEF Cleaned, SurvivorsForked
    <2> QED BY <1>2, <2>2, <2>3, <2>4
  <1>5. CASE Write(p)
    <2>1. /\ UNCHANGED <<spawned, alive, leader, group, holders, forked, timed_out, kept,
                         truncated>>
          /\ pipe' = pipe + 1 /\ produced' = produced + 1 /\ holders # {}
          /\ pipe < PipeSize /\ produced < MaxProduced /\ pipe \in Nat /\ produced \in Nat
      BY <1>5, SandboxNumbers DEF Write, processes, cleaning, SessionTypeOK
    <2>2. pipe' \in 0 .. PipeSize /\ produced' \in 0 .. MaxProduced
          /\ produced' - pipe' = produced - pipe
      BY <2>1, SandboxBounds
    <2>3. SessionTypeOK'
      BY <1>1, <2>1, <2>2 DEF SessionTypeOK, SandboxTypeOK
    <2>4. Tally'
      BY <2>1, <2>2 DEF Tally
    <2>5. Drained' /\ Cleaned'
      BY <1>1, <2>1 DEF Drained, Cleaned, SurvivorsForked
    <2> QED BY <1>2, <2>3, <2>4, <2>5
  <1> QED BY <1>3, <1>4, <1>5

-----------------------------------------------------------------------------
(* The supervisor.                                                         *)

\* What the supervisor finds in /proc is a part of what it listed.
LEMMA OwnedType ==
    ASSUME NEW set, set \in Owned
    PROVE  set \subseteq names /\ names \cap alive \subseteq set
  BY DEF Owned

\* The supervisor looks at what ran before the command.
LEMMA ReadBeforeInv ==
    ASSUME SessionInv, container = "running", main # "ended", UNCHANGED session, ReadBefore
    PROVE  SessionInv'
  <1> USE DEF SessionInv
  <1>1. /\ supervisor = "before" /\ supervisor' \in {"listed", "error"} /\ names' = {}
        /\ UNCHANGED <<container, started, tool, spawned, alive, leader, group, holders,
                       candidates, round, forked, timed_out, pipe, produced, kept, truncated,
                       patch, applied, main, calls, fault>>
    BY DEF ReadBefore, Vanishes, session, host, processes, output, patching
  <1>2. before' \subseteq 1 .. spawned'
    BY <1>1, OwnedType DEF ReadBefore, Vanishes, SessionTypeOK, SandboxTypeOK
  <1>3. SessionTypeOK'
    <2>1. (before' \cup names' \cup candidates') \subseteq 1 .. spawned'
      BY <1>1, <1>2 DEF SessionTypeOK, SandboxTypeOK
    <2> QED BY <1>1, <2>1 DEF SessionTypeOK, SandboxTypeOK
  <1>4. Fresh' /\ Calling' /\ Living' /\ Patching' /\ Tally' /\ Drained' /\ Cleaned'
    BY <1>1
       DEF Fresh, Calling, ExecPoints, PatchPoints, Cleaning, Living, Patching, PatchTold,
           Tally, Drained, Cleaned, SurvivorsForked
  <1> QED BY <1>3, <1>4

\* The command is started, or cannot be.
LEMMA SpawnInv ==
    ASSUME SessionInv, container = "running", main # "ended", UNCHANGED session,
           Spawn \/ SpawnFails
    PROVE  SessionInv'
  <1> USE DEF SessionInv
  <1>1. UNCHANGED <<container, started, tool, before, names, candidates, round, forked, timed_out,
                    pipe, produced, kept, truncated, patch, applied, main, calls, fault>>
    BY DEF Spawn, SpawnFails, session, host, cleaning, output, patching
  <1>2. supervisor = "listed" /\ supervisor' \in {"loop", "error"}
    BY DEF Spawn, SpawnFails
  <1>3. Fresh' /\ Calling' /\ Living' /\ Patching' /\ Tally' /\ Drained' /\ Cleaned'
    BY <1>1, <1>2
       DEF Fresh, Calling, ExecPoints, PatchPoints, Cleaning, Living, Patching, PatchTold,
           Tally, Drained, Cleaned, SurvivorsForked
  <1>4. SessionTypeOK'
    <2>1. CASE Spawn
      <3>1. /\ spawned' = spawned + 1 /\ alive' = alive \cup {spawned + 1}
            /\ leader' = spawned + 1 /\ group' = {spawned + 1} /\ holders' = {spawned + 1}
            /\ spawned < MaxProcesses /\ spawned \in Nat
        BY <2>1, SandboxNumbers DEF Spawn, SessionTypeOK
      <3>2. spawned' \in 0 .. MaxProcesses /\ 1 .. spawned \subseteq 1 .. spawned'
            /\ spawned + 1 \in 1 .. spawned' /\ leader' \in 0 .. spawned'
        BY <3>1, SandboxBounds
      <3>3. /\ alive' \subseteq 1 .. spawned'
            /\ (before' \cup names' \cup candidates') \subseteq 1 .. spawned'
        BY <1>1, <3>1, <3>2 DEF SessionTypeOK, SandboxTypeOK
      <3> QED BY <1>1, <1>2, <3>1, <3>2, <3>3 DEF SessionTypeOK, SandboxTypeOK
    <2>2. CASE SpawnFails
      BY <1>1, <1>2, <2>2 DEF SpawnFails, processes, SessionTypeOK, SandboxTypeOK
    <2> QED BY <2>1, <2>2
  <1> QED BY <1>3, <1>4

\* A chunk of output is read.
LEMMA ReadInv ==
    ASSUME SessionInv, container = "running", main # "ended", UNCHANGED session, Read
    PROVE  SessionInv'
  <1> USE DEF SessionInv
  <1>1. /\ supervisor = "loop"
        /\ UNCHANGED <<container, started, tool, supervisor, spawned, alive, leader, group,
                       holders, before, names, candidates, round, forked, timed_out, produced,
                       patch, applied, main, calls, fault>>
    BY DEF Read, session, host, processes, cleaning, patching
  <1>2. PICK n \in 1 .. pipe :
          /\ pipe' = pipe - n
          /\ Keeps(n)
          /\ truncated' = (truncated \/ Truncates(n))
    BY DEF Read
  <1>3. /\ pipe \in Nat /\ produced \in Nat /\ kept \in Nat /\ MAX_OUTPUT_BYTES \in Nat
        /\ kept <= MAX_OUTPUT_BYTES /\ pipe <= PipeSize /\ n \in Nat /\ n >= 1 /\ n <= pipe
    BY SandboxNumbers, SandboxBounds DEF SessionTypeOK, SandboxTypeOK
  <1>4. truncated \in BOOLEAN /\ truncated' \in BOOLEAN
    BY <1>2 DEF SessionTypeOK, SandboxTypeOK
  <1>5. pipe' \in 0 .. PipeSize /\ kept' \in 0 .. MAX_OUTPUT_BYTES
    BY <1>2, <1>3, SandboxBounds DEF Keeps
  <1>6. SessionTypeOK'
    BY <1>1, <1>4, <1>5 DEF SessionTypeOK, SandboxTypeOK
  <1>7. pipe' <= produced' /\ produced' - pipe' = produced - pipe + n
    BY <1>1, <1>2, <1>3 DEF Tally
  <1>8. kept' = IF produced' - pipe' > MAX_OUTPUT_BYTES THEN MAX_OUTPUT_BYTES
                ELSE produced' - pipe'
    BY <1>2, <1>3, <1>7 DEF Tally, Keeps
  <1>9. Truncates(n) \/ produced - pipe > MAX_OUTPUT_BYTES
          <=> produced' - pipe' > MAX_OUTPUT_BYTES
    BY <1>3, <1>7 DEF Tally, Truncates
  <1>10. truncated' <=> produced' - pipe' > MAX_OUTPUT_BYTES
    BY <1>2, <1>9 DEF Tally
  <1>11. Fresh' /\ Calling' /\ Living' /\ Patching' /\ Drained' /\ Cleaned'
    BY <1>1 DEF Fresh, Calling, Living, Patching, PatchTold, Drained, Cleaned, SurvivorsForked
  <1> QED BY <1>6, <1>7, <1>8, <1>10, <1>11 DEF Tally

\* The deadline passes, or the output ends, and the clean-up begins.
LEMMA CleanUpBeginsInv ==
    ASSUME SessionInv, container = "running", main # "ended", UNCHANGED session,
           TimeUp \/ EndOfOutput
    PROVE  SessionInv'
  <1> USE DEF SessionInv
  <1>1. /\ supervisor = "loop" /\ supervisor' \in {"list", "final-list"} /\ round' = 1
        /\ supervisor' = "final-list" => pipe = 0 /\ holders = {} /\ holders' = {}
        /\ forked' \subseteq 1 .. 3 /\ timed_out' \in BOOLEAN
        /\ UNCHANGED <<container, started, tool, spawned, leader, before, names, candidates,
                       pipe, produced, kept, truncated, patch, applied, main, calls, fault>>
    BY DEF TimeUp, EndOfOutput, Kill, session, host, output, patching, SessionTypeOK,
           SandboxTypeOK
  <1>2. /\ alive' \subseteq alive /\ alive' \subseteq 1 .. spawned
        /\ (group' \cup holders') \subseteq alive'
    <2>1. \E dead : Kill(dead)
      BY DEF TimeUp, EndOfOutput
    <2> QED BY <2>1, KillType DEF SessionTypeOK, SandboxTypeOK
  <1>3. SessionTypeOK'
    BY <1>1, <1>2 DEF SessionTypeOK, SandboxTypeOK
  <1>4. Fresh' /\ Calling' /\ Living' /\ Patching' /\ Tally' /\ Drained'
    BY <1>1, <1>2
       DEF Fresh, Calling, ExecPoints, PatchPoints, Cleaning, Living, Patching, PatchTold,
           Tally, Drained
  <1>5. Cleaned'
    BY <1>1 DEF Cleaned, Cleaning, SurvivorsForked
  <1> QED BY <1>3, <1>4, <1>5

\* A round lists the new processes.
LEMMA ListInv ==
    ASSUME SessionInv, container = "running", main # "ended", UNCHANGED session, List
    PROVE  SessionInv'
  <1> USE DEF SessionInv
  <1>1. /\ names' = alive \ before
        /\ \/ supervisor = "list" /\ supervisor' = "read"
           \/ supervisor = "final-list" /\ supervisor' = "final-read"
        /\ UNCHANGED <<container, started, tool, spawned, alive, leader, group, holders, before,
                       candidates, round, forked, timed_out, pipe, produced, kept, truncated,
                       patch, applied, main, calls, fault>>
    BY DEF List, session, host, processes, output, patching
  <1>2. SessionTypeOK'
    <2>1. (before' \cup names' \cup candidates') \subseteq 1 .. spawned'
      BY <1>1 DEF SessionTypeOK, SandboxTypeOK
    <2> QED BY <1>1, <2>1 DEF SessionTypeOK, SandboxTypeOK
  <1>3. Fresh' /\ Calling' /\ Living' /\ Tally' /\ Drained'
    BY <1>1 DEF Fresh, Calling, ExecPoints, PatchPoints, Cleaning, Living, Tally, Drained
  <1>4. Patching'
    BY <1>1 DEF Patching, PatchTold, Calling, PatchPoints, Cleaning
  <1>5. Cleaned'
    <2>1. before = {} => names' = alive
      BY <1>1
    <2> QED BY <1>1, <2>1 DEF Cleaned, Cleaning, SurvivorsForked
  <1> QED BY <1>2, <1>3, <1>4, <1>5

\* A round looks at what it has listed.
LEMMA ReadStatusesInv ==
    ASSUME SessionInv, container = "running", main # "ended", UNCHANGED session, ReadStatuses
    PROVE  SessionInv'
  <1> USE DEF SessionInv
  <1>1. /\ \/ /\ candidates' = {} /\ names \cap alive = {}
              /\ \/ supervisor = "read" /\ supervisor' = "loop"
                 \/ supervisor = "final-read" /\ supervisor' = "result"
           \/ /\ names \cap alive \subseteq candidates' /\ candidates' \subseteq names
              /\ \/ supervisor = "read" /\ supervisor' = "kill"
                 \/ supervisor = "final-read" /\ supervisor' = "final-kill"
           \/ /\ supervisor \in {"read", "final-read"} /\ supervisor' = "error"
              /\ candidates' = candidates
        /\ UNCHANGED <<container, started, tool, spawned, alive, leader, group, holders, before,
                       names, round, forked, timed_out, pipe, produced, kept, truncated, patch,
                       applied, main, calls, fault>>
    <2>1. candidates' \in Owned =>
             names \cap alive \subseteq candidates' /\ candidates' \subseteq names
      BY OwnedType
    <2> QED BY <2>1 DEF ReadStatuses, Vanishes, session, host, processes, output, patching
  <1>2. SessionTypeOK'
    <2>1. /\ (before' \cup names' \cup candidates') \subseteq 1 .. spawned'
          /\ supervisor' \in {"loop", "result", "kill", "final-kill", "error"}
      BY <1>1 DEF SessionTypeOK, SandboxTypeOK
    <2> QED BY <1>1, <2>1 DEF SessionTypeOK, SandboxTypeOK
  <1>3. Fresh' /\ Calling' /\ Living' /\ Tally' /\ Drained'
    BY <1>1 DEF Fresh, Calling, ExecPoints, PatchPoints, Cleaning, Living, Tally, Drained
  <1>4. Patching'
    BY <1>1 DEF Patching, PatchTold, Calling, PatchPoints, Cleaning
  <1>5. Cleaned'
    <2>1. supervisor' \in Cleaning => round' \in 1 .. 3
      BY <1>1 DEF Cleaned, Cleaning
    <2>2. supervisor' \notin {"final-list", "final-read"}
      BY <1>1
    <2>3. ASSUME supervisor' = "final-kill", before' = {}
          PROVE  /\ alive' = {} \/ \A r \in 1 .. 3 : r < round' => r \in forked'
                 /\ alive' \subseteq candidates' \/ round' \in forked'
      BY <1>1, <2>3 DEF Cleaned
    <2>4. SurvivorsForked'
      <3>1. ASSUME tool = "exec", supervisor' = "result", before = {}, alive # {}
            PROVE  /\ \A r \in 1 .. 3 : r <= round => r \in forked
                   /\ names # {} /\ names \cap alive = {}
        <4>1. supervisor = "final-read" /\ names \cap alive = {}
          BY <1>1, <3>1
        <4>2. names # {} /\ round \in forked /\ \A r \in 1 .. 3 : r < round => r \in forked
          BY <3>1, <4>1 DEF Cleaned
        <4>3. \A r \in 1 .. 3 : r <= round => r < round \/ r = round
          BY <4>1 DEF Cleaned, Cleaning
        <4> QED BY <4>1, <4>2, <4>3
      <3> QED BY <1>1, <3>1 DEF SurvivorsForked
    <2> QED BY <2>1, <2>2, <2>3, <2>4 DEF Cleaned
  <1> QED BY <1>2, <1>3, <1>4, <1>5

\* A round kills what it has listed.
LEMMA KillListedInv ==
    ASSUME SessionInv, container = "running", main # "ended", UNCHANGED session, KillListed
    PROVE  SessionInv'
  <1> USE DEF SessionInv
  <1>1. /\ round' = round + 1 /\ candidates' = {} /\ names' = {}
        /\ \/ supervisor = "kill" /\ supervisor' = IF round = 3 THEN "loop" ELSE "list"
           \/ /\ supervisor = "final-kill"
              /\ supervisor' = IF round = 3 THEN "result" ELSE "final-list"
        /\ UNCHANGED <<container, started, tool, spawned, leader, before, forked, timed_out,
                       pipe, produced, kept, truncated, patch, applied, main, calls, fault>>
    BY DEF KillListed, Rounds, session, host, output, patching
  <1>2. /\ alive' = alive \ candidates /\ holders' \subseteq holders
        /\ alive' \subseteq 1 .. spawned /\ (group' \cup holders') \subseteq alive'
    BY KillType DEF KillListed, SessionTypeOK, SandboxTypeOK
  <1>3. round \in 1 .. 3
    BY <1>1 DEF Cleaned, Cleaning
  <1>4. SessionTypeOK'
    BY <1>1, <1>2, <1>3 DEF SessionTypeOK, SandboxTypeOK
  <1>5. Fresh' /\ Calling' /\ Living' /\ Tally' /\ Drained'
    BY <1>1, <1>2 DEF Fresh, Calling, ExecPoints, PatchPoints, Cleaning, Living, Tally, Drained
  <1>6. Patching'
    BY <1>1 DEF Patching, PatchTold, Calling, PatchPoints, Cleaning
  <1>7. Cleaned'
    <2>1. supervisor' \in Cleaning => round' \in 1 .. 3
      BY <1>1, <1>3 DEF Cleaning
    <2>2. ASSUME before = {}, supervisor = "final-kill", alive' # {}
          PROVE  \A r \in 1 .. 3 : r < round' => r \in forked
      <3>1. round \in forked
        BY <1>2, <2>2 DEF Cleaned
      <3>2. \A r \in 1 .. 3 : r < round => r \in forked
        BY <1>2, <2>2 DEF Cleaned
      <3>3. \A r \in 1 .. 3 : r < round' => r < round \/ r = round
        BY <1>1, <1>3
      <3> QED BY <3>1, <3>2, <3>3
    <2>3. SurvivorsForked'
      <3>1. ASSUME tool = "exec", supervisor' = "result", before = {}, alive' # {}
            PROVE  (\A r \in 1 .. 3 : r \in forked) /\ round' = 4
        <4>1. supervisor = "final-kill" /\ round = 3 /\ round' = 4
          BY <1>1, <3>1
        <4> QED BY <2>2, <3>1, <4>1
      <3> QED BY <1>1, <3>1 DEF SurvivorsForked
    <2> QED BY <1>1, <2>1, <2>2, <2>3 DEF Cleaned
  <1> QED BY <1>4, <1>5, <1>6, <1>7

\* git apply --check and git apply.
LEMMA GitInv ==
    ASSUME SessionInv, container = "running", main # "ended", UNCHANGED session,
           CheckPatch \/ ApplyPatch
    PROVE  SessionInv'
  <1> USE DEF SessionInv
  <1>1. /\ supervisor \in {"check", "apply"} /\ supervisor' \in {"apply", "result", "error"}
        /\ UNCHANGED <<container, started, tool, spawned, alive, leader, group, holders, before,
                       names, candidates, round, forked, timed_out, pipe, produced, kept,
                       truncated, main, calls, fault>>
    BY DEF CheckPatch, ApplyPatch, session, host, processes, cleaning, output
  <1>2. tool # "exec"
    BY <1>1 DEF Calling, ExecPoints, Cleaning
  <1>3. SessionTypeOK'
    <2>1. patch' \in {"none", "clean", "warns", "part", "done"} /\ applied' \in BOOLEAN
      BY DEF CheckPatch, ApplyPatch, CheckAccepts, SessionTypeOK, SandboxTypeOK
    <2> QED BY <1>1, <2>1 DEF SessionTypeOK, SandboxTypeOK
  <1>4. Fresh' /\ Calling' /\ Living' /\ Tally' /\ Drained' /\ Cleaned'
    BY <1>1, <1>2
       DEF Fresh, Calling, ExecPoints, PatchPoints, Cleaning, Living, Tally, Drained, Cleaned,
           SurvivorsForked
  <1>5. Patching'
    <2>1. CASE CheckPatch
      BY <1>1, <2>1 DEF CheckPatch, CheckAccepts, Patching, PatchTold
    <2>2. CASE ApplyPatch
      <3>1. /\ supervisor = "apply" /\ patch = "clean" /\ ~applied
            /\ supervisor' \in {"result", "error"}
        BY <2>2 DEF ApplyPatch, Patching
      <3>2. supervisor' = "result" =>
              (patch' = "done" /\ applied') \/ (patch' \in {"none", "part"} /\ ~applied')
        BY <2>2, <3>1 DEF ApplyPatch
      <3>3. PatchTold'
        BY <3>2 DEF PatchTold
      <3> QED BY <3>1, <3>3 DEF Patching
    <2> QED BY <2>1, <2>2
  <1> QED BY <1>3, <1>4, <1>5

\* The supervisor answers, or the host stops waiting.
LEMMA AnswerInv ==
    ASSUME SessionInv, container = "running", main # "ended", UNCHANGED session,
           Return \/ OuterTimeout
    PROVE  SessionInv'
  <1> USE DEF SessionInv
  <1>1. /\ tool \in {"exec", "patch"}
        /\ UNCHANGED <<spawned, leader, before, names, candidates, round, forked, timed_out, pipe,
                       produced, kept, truncated, patch, applied, main, calls, fault>>
    BY DEF Return, OuterTimeout, SupervisorLate, session, processes, cleaning, output, patching
  <1>2. /\ alive' \subseteq 1 .. spawned /\ (group' \cup holders') \subseteq alive'
        /\ \/ tool' = "none" /\ supervisor' = "idle" /\ UNCHANGED <<container, started, alive>>
           \/ /\ tool' = "wedged" /\ supervisor' = "idle"
              /\ container' = "dead" /\ ~started' /\ alive' = {}
           \/ tool' = "adrift" /\ ~started' /\ UNCHANGED <<container, supervisor, alive, holders>>
        /\ started' \in BOOLEAN
    <2>1. CASE Return
      BY <2>1 DEF Return, processes, SessionTypeOK, SandboxTypeOK
    <2>2. CASE OuterTimeout
      <3>1. CASE /\ Kill(alive) /\ tool' = "wedged" /\ supervisor' = "idle" /\ container' = "dead"
                 /\ started' = FALSE
        BY <3>1, KillType DEF SessionTypeOK, SandboxTypeOK
      <3>2. CASE /\ tool' = "adrift" /\ UNCHANGED <<container, alive, group, holders, supervisor>>
                 /\ started' = FALSE
        BY <3>2 DEF SessionTypeOK, SandboxTypeOK
      <3> QED BY <2>2, <3>1, <3>2 DEF OuterTimeout, Killed
    <2> QED BY <2>1, <2>2
  <1>3. SessionTypeOK'
    BY <1>1, <1>2 DEF SessionTypeOK, SandboxTypeOK
  <1>4. Fresh' /\ Calling' /\ Living' /\ Tally' /\ Drained' /\ Cleaned' /\ Patching'
    BY <1>1, <1>2
       DEF Fresh, Calling, ExecPoints, PatchPoints, Cleaning, Living, Tally, Drained, Cleaned,
           SurvivorsForked, Patching, PatchTold
  <1> QED BY <1>3, <1>4

-----------------------------------------------------------------------------
(* The host.                                                               *)

\* The sandbox is started, or is not.
LEMMA StartInv ==
    ASSUME SessionInv, Start
    PROVE  SessionInv'
  <1> USE DEF SessionInv
  <1>1. /\ main = "start" /\ container = "absent" /\ ~started /\ tool = "none"
        /\ supervisor = "idle" /\ alive = {}
        /\ UNCHANGED <<tool, supervisor, spawned, alive, leader, group, holders, before, names,
                       candidates, round, forked, timed_out, pipe, produced, kept, truncated,
                       patch, applied, calls>>
    BY DEF Start, Fresh, processes, cleaning, output, patching
  <1>2. \/ main' = "loop" /\ container' = "running" /\ started' = TRUE /\ fault' = fault
        \/ /\ main' = "stop" /\ container' \in {"absent", "dead", "running"}
           /\ started' = started /\ fault' = "start" /\ "start" \in Faults
    BY DEF Start, Fault
  <1>3. SessionTypeOK'
    BY <1>1, <1>2 DEF SessionTypeOK, SandboxTypeOK
  <1>4. Fresh' /\ Calling' /\ Living'
    BY <1>1, <1>2 DEF Fresh, Calling, Living
  <1>5. Tally' /\ Drained' /\ Patching' /\ Cleaned'
    BY <1>1 DEF Tally, Drained, Patching, PatchTold, Cleaned, SurvivorsForked
  <1> QED BY <1>3, <1>4, <1>5

\* A tool call begins.
LEMMA CallInv ==
    ASSUME SessionInv, Call
    PROVE  SessionInv'
  <1> USE DEF SessionInv
  <1>1. /\ main = "loop" /\ tool = "none" /\ container = "running" /\ supervisor = "idle"
        /\ UNCHANGED <<main, fault, container, started, spawned, alive>>
        /\ calls' = calls + 1 /\ calls < MaxCalls
    BY DEF Call, Exec, Patch, processes
  <1>2. calls' \in 0 .. MaxCalls
    BY <1>1, CommandLineAssumption DEF SessionTypeOK
  <1>3. CASE Exec
    <2>1. /\ tool' = "exec" /\ supervisor' = "before" /\ before' = {} /\ names' = alive
          /\ candidates' = {} /\ round' = 0 /\ forked' = {} /\ timed_out' = FALSE
          /\ pipe' = 0 /\ produced' = 0 /\ kept' = 0 /\ truncated' = FALSE
          /\ leader' = 0 /\ group' = {} /\ holders' = {}
          /\ UNCHANGED <<patch, applied>>
      BY <1>3 DEF Exec, patching
    <2>2. SessionTypeOK'
      <3>1. /\ leader' \in 0 .. spawned' /\ round' \in 0 .. 4 /\ pipe' \in 0 .. PipeSize
            /\ produced' \in 0 .. MaxProduced /\ kept' \in 0 .. MAX_OUTPUT_BYTES
        BY <1>1, <2>1, SandboxBounds, SandboxNumbers DEF SessionTypeOK
      <3>2. (before' \cup names' \cup candidates') \subseteq 1 .. spawned'
        BY <1>1, <2>1 DEF SessionTypeOK, SandboxTypeOK
      <3> QED BY <1>1, <1>2, <2>1, <3>1, <3>2 DEF SessionTypeOK, SandboxTypeOK
    <2>3. Tally'
      BY <2>1, SandboxBounds DEF Tally
    <2> QED BY <1>1, <2>1, <2>2, <2>3
            DEF Fresh, Calling, ExecPoints, Cleaning, Living, Drained, Patching, PatchTold, Cleaned,
                SurvivorsForked
  <1>4. CASE Patch
    <2>1. /\ tool' = "patch" /\ supervisor' = "check"
          /\ patch' \in {"clean", "warns"} /\ applied' = FALSE
          /\ UNCHANGED <<leader, group, holders, before, names, candidates, round, forked,
                         timed_out, pipe, produced, kept, truncated>>
      BY <1>4 DEF Patch, processes, cleaning, output
    <2>2. SessionTypeOK'
      BY <1>1, <1>2, <2>1 DEF SessionTypeOK, SandboxTypeOK
    <2> QED BY <1>1, <2>1, <2>2
            DEF Fresh, Calling, PatchPoints, Living, Tally, Drained, Patching, PatchTold, Cleaned,
                Cleaning, SurvivorsForked
  <1> QED BY <1>3, <1>4 DEF Call

\* The session goes on without the sandbox.
LEMMA MainInv ==
    ASSUME SessionInv, Load \/ LeaveLoop \/ Interrupt \/ Close
    PROVE  SessionInv'
  <1> USE DEF SessionInv
  <1>1. /\ UNCHANGED <<container, started, supervisor, spawned, alive, leader, group, holders,
                       before, names, candidates, round, forked, timed_out, pipe, produced, kept,
                       truncated, patch, applied, calls>>
        /\ tool' = tool \/ (tool \in {"exec", "patch"} /\ tool' = "none")
    BY DEF Load, LeaveLoop, Interrupt, Close, sandboxVars, host, processes, cleaning, output,
           patching
  <1>2. \/ main = "load" /\ main' \in {"loaded", "ended"} /\ UNCHANGED <<fault, tool>>
        \/ main = "loop" /\ main' = "close" /\ tool' \notin {"exec", "patch"}
           /\ fault' \in {fault, "interrupt"} /\ (fault # fault' => fault = "none")
        \/ main = "close" /\ main' = "stop" /\ UNCHANGED <<fault, tool>>
        \/ main = "close" /\ main' = "ended" /\ fault' = "close" /\ UNCHANGED tool
    BY DEF Load, LeaveLoop, Interrupt, Close, Fault, sandboxVars, host
  <1>3. fault' \in Faults \cup {"none"}
    BY DEF Load, LeaveLoop, Interrupt, Close, Fault, SessionTypeOK
  <1>4. SessionTypeOK'
    BY <1>1, <1>2, <1>3 DEF SessionTypeOK, SandboxTypeOK
  <1>5. Fresh' /\ Calling' /\ Living'
    BY <1>1, <1>2 DEF Fresh, Calling, Living
  <1>6. Tally' /\ Drained' /\ Patching' /\ Cleaned'
    BY <1>1 DEF Tally, Drained, Patching, PatchTold, Cleaned, SurvivorsForked
  <1> QED BY <1>4, <1>5, <1>6

\* The sandbox is stopped, or docker fails to.
LEMMA StopInv ==
    ASSUME SessionInv, Stop
    PROVE  SessionInv'
  <1> USE DEF SessionInv
  <1>1. /\ main = "stop" /\ main' = "ended" /\ tool \notin {"exec", "patch"}
        /\ UNCHANGED <<tool, spawned, leader, before, names, candidates, round, forked, timed_out,
                       pipe, produced, kept, truncated, patch, applied, calls>>
        /\ supervisor' \in {supervisor, "idle"}
    BY DEF Stop, MustStop, Calling, cleaning, output, patching
  <1>2. /\ alive' \subseteq 1 .. spawned /\ (group' \cup holders') \subseteq alive'
        /\ alive' \subseteq alive /\ holders' \subseteq holders
        /\ started' \in BOOLEAN
    <2>1. CASE UNCHANGED <<alive, group, holders>>
      BY <2>1 DEF Stop, SessionTypeOK, SandboxTypeOK
    <2>2. CASE Kill(alive)
      BY <2>2, KillType DEF Stop, SessionTypeOK, SandboxTypeOK
    <2> QED BY <2>1, <2>2 DEF Stop
  <1>3. \/ ~started /\ UNCHANGED <<container, started, fault, supervisor>>
        \/ ~started' /\ container' = "absent" /\ alive' = {} /\ UNCHANGED fault
        \/ /\ ~started' /\ fault' = "stop" /\ "stop" \in Faults
           /\ UNCHANGED <<container, supervisor>>
    BY DEF Stop, MustStop, Fault, Kill
  <1>4. SessionTypeOK'
    <2>1. fault' \in Faults \cup {"none"} /\ container' \in {"absent", "running", "dead"}
      BY <1>3 DEF SessionTypeOK, SandboxTypeOK
    <2>2. supervisor' \in {"idle", "before", "listed", "loop", "list", "read", "kill",
                           "final-list", "final-read", "final-kill",
                           "check", "apply", "result", "error"}
      BY <1>1 DEF SessionTypeOK, SandboxTypeOK
    <2> QED BY <1>1, <1>2, <2>1, <2>2 DEF SessionTypeOK, SandboxTypeOK
  <1>5. Living'
    BY <1>1, <1>2, <1>3 DEF Living
  <1>6. Calling'
    BY <1>1, <1>3 DEF Calling, Stop, MustStop
  <1>7. Fresh' /\ Tally' /\ Drained' /\ Patching'
    BY <1>1, <1>2 DEF Fresh, Tally, Drained, Patching, PatchTold
  <1>8. Cleaned'
    BY <1>1, <1>2 DEF Cleaned, Cleaning, SurvivorsForked
  <1> QED BY <1>4, <1>5, <1>6, <1>7, <1>8

\* Every step of the session keeps its invariant.
LEMMA SessionStep ==
    ASSUME SessionInv, [Next]_vars
    PROVE  SessionInv'
  <1>1. CASE UNCHANGED <<sandboxVars, session>>
    BY <1>1
       DEF sandboxVars, session, host, processes, cleaning, output, patching, SessionInv,
           SessionTypeOK, SandboxTypeOK, Fresh, Calling, Living, Tally, Drained, Patching,
           PatchTold, Cleaned, SurvivorsForked
  <1>2. CASE InContainer
    <2>1. container = "running" /\ main # "ended" /\ UNCHANGED session
      BY <1>2 DEF InContainer
    <2>2. CASE Supervising
      BY <2>1, <2>2, ReadBeforeInv, SpawnInv, ReadInv, CleanUpBeginsInv, ListInv,
         ReadStatusesInv, KillListedInv, GitInv, AnswerInv DEF Supervising
    <2>3. CASE \E p \in alive : Fork(p) \/ Exit(p) \/ CloseOutput(p) \/ Write(p)
      BY <2>1, <2>3, ProcessInv
    <2> QED BY <1>2, <2>2, <2>3 DEF InContainer
  <1> QED BY <1>1, <1>2, StartInv, CallInv, MainInv, StopInv DEF Next, Tasks, vars

\* To the task directory a session is only a loader.
LEMMA SessionIsLoader == [Next]_vars => [TaskNext]_taskVars
  BY DEF Next, vars, Tasks, Load, Start, Call, LeaveLoop, Interrupt, Close, Stop, InContainer

\* Both invariants together are inductive.
LEMMA Inductive ==
    /\ Init => TaskInv /\ SessionInv
    /\ TaskInv /\ SessionInv /\ [Next]_vars => TaskInv' /\ SessionInv'
  BY TaskInitInv, TaskStepInv, SessionInit, SessionStep, SessionIsLoader DEF Init

-----------------------------------------------------------------------------
\* Every reachable state is well typed.
THEOREM TypeCorrect == Spec => []TypeOK
  <1>1. TaskInv /\ SessionInv => TypeOK
    BY DEF TaskInv, SessionInv, SessionTypeOK, TypeOK
  <1> QED BY <1>1, Inductive, PTL DEF Spec

\* A task that loads while nobody prepares it is one that a preparation has
\* completed, for any number of prompts and hardware files, however often and
\* wherever preparations are interrupted.
THEOREM LoadedWasCompleted == Spec => []AcceptedWasCompleted
  <1>1. TaskInv => AcceptedWasCompleted
    BY DEF TaskInv
  <1> QED BY <1>1, Inductive, PTL DEF Spec

\* A completed preparation loads until a later one replaces one of its files by
\* another, whatever is edited in the repository, however many preparations
\* begin, change nothing, or are interrupted before that.
THEOREM PreparationsKeep == Spec => PreparationKept
  <1>1. TaskInv /\ [Next]_vars =>
          [load' = "refused" /\ load # "refused" => overlap' \/ ~current]_<<load, overlap>>
    BY NoRefusal, SessionIsLoader
  <1> QED BY <1>1, Inductive, PTL DEF Spec, PreparationKept

\* What a result says of the output and of the patch is true, whatever the sizes
\* of the reads, the limit and the processes that write.
THEOREM ResultsAreHonest == Spec => []ResultsHonest
  <1>1. SessionInv => TruncatedIffLost
    BY SandboxNumbers, SandboxBounds
       DEF SessionInv, SessionTypeOK, Tally, Drained, TruncatedIffLost
  <1>2. SessionInv => ResultsHonest
    BY <1>1 DEF SessionInv, Patching, ResultsHonest
  <1> QED BY <1>2, Inductive, PTL DEF Spec

\* A first command leaves a process behind only by forking in each of the three
\* rounds of the clean-up.
THEOREM SurvivorsHaveForked == Spec => []SurvivorsForked
  <1>1. SessionInv => SurvivorsForked
    BY DEF SessionInv, Cleaned
  <1> QED BY <1>1, Inductive, PTL DEF Spec

\* Nothing runs in the sandbox after the session, nor after a supervisor that
\* did not answer was given up.
THEOREM NothingIsLeft == Spec => []NothingOutlives
  <1>1. SessionInv => NothingOutlives
    BY DEF SessionInv, Living, Calling, NothingOutlives, NothingRunsAfter, WedgedMeansDead
  <1> QED BY <1>1, Inductive, PTL DEF Spec
=============================================================================
