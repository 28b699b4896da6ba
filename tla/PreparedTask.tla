---------------------------- MODULE PreparedTask ----------------------------
(***************************************************************************)
(* The prepared task of docker/prepare_task.py and its loader,             *)
(* PreparedTask.load of odbench_outer/task.py.                             *)
(*                                                                         *)
(* A preparation copies the prompts and the hardware files of the          *)
(* repository into the task directory, reuses or exports the private       *)
(* labels, and writes the manifest with the hashes of all of them.  It may *)
(* be interrupted between any two of its effects and run again.  One step  *)
(* writes, checks or reads one file.                                       *)
(*                                                                         *)
(*   repo       content of each file in the repository                     *)
(*   disk       content of each file in the task directory, 0 if absent    *)
(*   private    the directory with the labels                              *)
(*   manifest   the hashes in task.json, of one file each; 0 if there is   *)
(*              no manifest                                                *)
(*   documents  the repository as it was when the preparation began         *)
(*   prepare    control point of the preparation                           *)
(*   written    files it has written                                       *)
(*   begun      preparations that began                                    *)
(*   completed  contents of the directory when a preparation completed     *)
(*   current    a preparation completed and no later one has replaced a    *)
(*              file by another since                                      *)
(*   load       control point of the loader                                *)
(*   place      the file the loader is at                                  *)
(*   expected   the manifest it has read                                   *)
(*   found      the contents it will return                                *)
(*   overlap    a file was replaced by another while it was loading        *)
(***************************************************************************)
EXTENDS Integers, Sequences

CONSTANTS
    Files,            \* the prompts and hardware files, in order
    Documents,        \* those a preparation reads before it builds the images
    MaxContent,       \* a file of the repository is edited this often
    MaxPreparations   \* preparations that begin

ASSUME PreparedTaskAssumption ==
    /\ Files \in Seq(STRING) /\ Files # <<>>
    /\ Documents \subseteq {Files[f] : f \in DOMAIN Files}
    /\ MaxContent \in Nat \ {0} /\ MaxPreparations \in Nat

VARIABLES repo, disk, private, manifest, documents, prepare, written, begun, completed,
          current, load, place, expected, found, overlap

preparer  == <<repo, disk, private, manifest, documents, prepare, written, begun, completed,
               current>>
loader    == <<load, place, expected, found, overlap>>
taskVars  == <<preparer, loader>>

-----------------------------------------------------------------------------
Places == DOMAIN Files
Blank  == [f \in Places |-> 0]
Contents == [Places -> 0 .. MaxContent]
Complete == [Places -> 1 .. MaxContent]

TaskInit ==
    /\ repo = [f \in Places |-> 1] /\ disk = Blank
    /\ private = "absent" /\ manifest = Blank /\ documents = Blank
    /\ prepare = "idle" /\ written = 0 /\ begun = 0 /\ completed = {} /\ current = FALSE
    /\ load = "idle" /\ place = 1 /\ expected = Blank /\ found = Blank
    /\ overlap = FALSE

\* What a preparation replaces by something else may be seen by a loader that
\* has begun.
Seen ==
    overlap' = (overlap \/ (load \in {"check", "read"} /\ <<disk, manifest>>' # <<disk, manifest>>))

-----------------------------------------------------------------------------
(* The preparation.                                                        *)

Edit ==
    /\ \E f \in Places :
          /\ repo[f] < MaxContent
          /\ repo' = [repo EXCEPT ![f] = @ + 1]
    /\ UNCHANGED <<disk, private, manifest, documents, prepare, written, begun, completed,
                   current, loader>>

BeginPreparation ==
    /\ prepare = "idle" /\ begun < MaxPreparations
    /\ prepare' = "labels" /\ begun' = begun + 1 /\ written' = 0
    /\ documents' = repo
    /\ UNCHANGED <<repo, disk, private, manifest, completed, current, loader>>

\* export-labels runs only if the directory is not there.
NeedsExport == private = "absent"

\* evaluator export-labels makes the directory, then docker build fills it.
ExportLabels ==
    /\ prepare = "labels" /\ NeedsExport
    /\ private' = "partial" /\ prepare' = "exporting"
    /\ UNCHANGED <<repo, disk, manifest, documents, written, begun, completed, current, loader>>

LabelsExported ==
    /\ prepare = "exporting"
    /\ private' = "whole" /\ prepare' = "write"
    /\ UNCHANGED <<repo, disk, manifest, documents, written, begun, completed, current, loader>>

\* Labels that are there are validated; an export that was interrupted ends
\* this and every later preparation.
ReuseLabels ==
    /\ prepare = "labels" /\ ~NeedsExport
    /\ prepare' = IF private = "whole" THEN "write" ELSE "idle"
    /\ UNCHANGED <<repo, disk, private, manifest, documents, written, begun, completed,
                   current, loader>>

\* atomic_bytes: a file is replaced as a whole.
WriteFile ==
    /\ prepare = "write" /\ written < Len(Files)
    /\ written' = written + 1
    /\ LET f == written + 1
           from == IF Files[f] \in Documents THEN documents ELSE repo
       IN disk' = [disk EXCEPT ![f] = from[f]]
    /\ current' = (current /\ disk' = disk)
    /\ UNCHANGED <<repo, private, manifest, documents, prepare, begun, completed,
                   load, place, expected, found>>
    /\ Seen

\* Variant: the manifest has the hashes of the files of the repository.
WriteManifestOfRepository ==
    /\ prepare = "write" /\ written = Len(Files)
    /\ manifest' = repo
    /\ prepare' = "idle" /\ current' = TRUE /\ completed' = completed \cup {disk}
    /\ UNCHANGED <<repo, disk, private, documents, written, begun, load, place, expected, found>>
    /\ Seen

\* The manifest comes last, with the hashes of what was written.
WriteManifest ==
    /\ prepare = "write" /\ written = Len(Files)
    /\ manifest' = disk
    /\ prepare' = "idle" /\ current' = TRUE /\ completed' = completed \cup {disk}
    /\ UNCHANGED <<repo, disk, private, documents, written, begun, load, place, expected, found>>
    /\ Seen

\* The preparation is interrupted.
Crash ==
    /\ prepare # "idle"
    /\ prepare' = "idle"
    /\ UNCHANGED <<repo, disk, private, manifest, documents, written, begun, completed,
                   current, loader>>

-----------------------------------------------------------------------------
(* The loader.                                                             *)

Refused == load' = "refused" /\ UNCHANGED <<place, expected, found>>

ReadManifest ==
    /\ load = "idle"
    /\ IF manifest = Blank THEN Refused
       ELSE load' = "check" /\ expected' = manifest /\ UNCHANGED <<place, found>>
    /\ overlap' = FALSE
    /\ UNCHANGED preparer

\* Variant: no hash is compared.
HashMatchesAny(f) == disk[f] # 0

HashMatches(f) == disk[f] = expected[f]

\* contained_regular_file and sha256_file, and the labels with the last of them.
CheckFile ==
    /\ load = "check"
    /\ IF ~HashMatches(place) \/ private # "whole" THEN Refused
       ELSE /\ IF place = Len(Files) THEN load' = "read" /\ place' = 1
               ELSE place' = place + 1 /\ UNCHANGED load
            /\ UNCHANGED <<expected, found>>
    /\ UNCHANGED <<preparer, overlap>>

\* The file is opened once more for its content.
ReadFile ==
    /\ load = "read"
    /\ found' = [found EXCEPT ![place] = disk[place]]
    /\ IF place = Len(Files) THEN load' = "loaded" /\ UNCHANGED place
       ELSE place' = place + 1 /\ UNCHANGED load
    /\ UNCHANGED <<preparer, expected, overlap>>

-----------------------------------------------------------------------------
TaskNext ==
    \/ Edit \/ BeginPreparation \/ ExportLabels \/ LabelsExported \/ ReuseLabels
    \/ WriteFile \/ WriteManifest \/ Crash
    \/ ReadManifest \/ CheckFile \/ ReadFile

TaskSpec == TaskInit /\ [][TaskNext]_taskVars

-----------------------------------------------------------------------------
(* Properties.                                                             *)

\* Every attribute has its type.
TaskTypeOK ==
    /\ repo \in Complete /\ documents \in Contents
    /\ disk \in Contents /\ manifest \in Contents
    /\ expected \in Contents /\ found \in Contents
    /\ private \in {"absent", "partial", "whole"}
    /\ prepare \in {"idle", "labels", "exporting", "write"}
    /\ written \in 0 .. Len(Files) /\ begun \in 0 .. MaxPreparations
    /\ completed \subseteq Complete /\ current \in BOOLEAN
    /\ load \in {"idle", "check", "read", "loaded", "refused"}
    /\ place \in Places /\ overlap \in BOOLEAN

\* Whatever preparations were interrupted or are running, a task that loads, no
\* file of it being replaced meanwhile, is one that a preparation completed,
\* never a mixture of two.
AcceptedWasCompleted == load = "loaded" /\ ~overlap => found \in completed

\* A completed preparation loads until a later one replaces one of its files by
\* another, and once more when that one has completed: edits of the repository,
\* preparations that are interrupted before that and those that change nothing do
\* not make it stop loading.  (One interrupted after that does.)
PreparationKept ==
    [][load' = "refused" /\ load # "refused" => overlap' \/ ~current]_<<load, overlap>>
=============================================================================
