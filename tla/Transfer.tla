------------------------------ MODULE Transfer ------------------------------
(***************************************************************************)
(* The streams that carry directories between the trusted host, the        *)
(* agent's container and the training host: docker/odbench/                *)
(* workspace_transfer.py and docker/train/workspace_archive.py, over        *)
(* docker exec, and docker/train/remote_protocol.py over ssh.               *)
(*                                                                         *)
(* Every stream is a tar archive that one process writes while another     *)
(* extracts it.  In a pull the caller extracts and the other process is    *)
(* its child; in a push the caller's child writes and the other side       *)
(* extracts.  start is both: a pull from the container, a snapshot, and a  *)
(* push to the training host, which then launches a job.                   *)
(*                                                                         *)
(*   op         the operation called                                       *)
(*   tree       what is in the source when the call begins, in the order   *)
(*              in which os.walk comes to it                               *)
(*   lost       names that were removed before os.walk listed their        *)
(*              directory, so that the writer never knew of them           *)
(*   leg        the stream of the operation that is in progress            *)
(*   payload    what the writer of this stream goes through                *)
(*   sender     the writer: its place in payload, the blocks of the        *)
(*              current file that are left, its counts, state, exit code   *)
(*   wire       members, blocks and end marker on their way                *)
(*   ended      the writing end of the stream is closed                    *)
(*   reader     the extractor: its place, current member, counts           *)
(*   held       names extracted completely                                 *)
(*   locked     directories whose final mode is set and denies writing     *)
(*   dest       the contents at the destination once renamed, for file and *)
(*              fetch, as a set of at most one                             *)
(*   job        the contents of the workspaces of launched jobs, for start *)
(*   call       the state of the call                                      *)
(*   tries      calls so far                                               *)
(*   fault      what went wrong, at most one thing and then a timeout      *)
(***************************************************************************)
EXTENDS SequencesExt, FiniteSetsExt, Integers

CONSTANTS
    Operations,     \* directory, file, import, fetch, start, resume
    Paths,          \* files and directories
    Trees,          \* sequences of entries
    ExporterLimit,  \* MAX_FILES and MAX_BYTES of workspace_transfer.py
    CallerLimit,    \* max_files and max_bytes of the caller
    RemoteLimit,    \* MAX_TRANSFER_FILES and MAX_TRANSFER_BYTES
    Capacity,       \* items on the wire
    MaxTries,       \* a fetch may be called again
    Faults

FaultKinds == {"touch", "vanish", "cut", "kill", "slow"}

\* A name that os.walk lists: what it is, the blocks of a file, its directory,
\* whether the walk of a workspace leaves it out, a mode that denies writing.
Entries == [name: Paths, kind: {"dir", "file", "link", "gone"}, size: Nat, in: Paths,
            skip: {"no", "excluded", "ignored"}, ro: BOOLEAN]

\* What a start payload carries beside the workspace.
Request    == [name |-> "request.json", kind |-> "file", size |-> 1, in |-> "",
               skip |-> "no", ro |-> FALSE]
Checkpoint == [Request EXCEPT !.name = "resume-checkpoint.pt"]

\* os.walk lists everything once; the request and the checkpoint travel beside
\* the workspace and not in it.
Listed(entries) ==
    /\ entries \in Seq(Entries)
    /\ \A i, k \in DOMAIN entries : entries[i].name = entries[k].name => i = k
    /\ \A i \in DOMAIN entries : entries[i].name \notin {Request.name, Checkpoint.name}

ASSUME TransferAssumption ==
    /\ Operations \subseteq {"directory", "file", "import", "fetch", "start", "resume"}
    /\ {"", Request.name, Checkpoint.name} \subseteq Paths
    /\ \A t \in Trees : Listed(t)
    /\ {ExporterLimit, CallerLimit, RemoteLimit} \subseteq [files: Nat, bytes: Nat]
    /\ Capacity \in Nat \ {0} /\ MaxTries \in Nat \ {0}
    /\ Faults \subseteq FaultKinds

VARIABLES op, tree, lost, leg, payload, sender, wire, ended, reader, held, locked,
          dest, job, call, tries, fault

source  == <<op, tree, lost>>
stream  == <<sender, wire, ended>>
extract == <<reader, held, locked>>
effects == <<dest, job>>
caller  == <<call, tries>>
vars    == <<source, leg, payload, stream, extract, effects, caller, fault>>

-----------------------------------------------------------------------------
Nothing  == "nothing"
Launches == op \in {"start", "resume"}
Pull     == leg = "pull"

\* Names that the walk does not come to, those that docker exec ... export
\* leaves out, and those that snapshot_workspace leaves out as well.
Excluded(e) ==
    \/ e.name \in lost
    \/ Launches /\ e.skip \in {"excluded"} \cup (IF Pull THEN {} ELSE {"ignored"})
Kept     == {i \in DOMAIN tree : tree[i].skip = "no" \/ ~Launches}
Exported == {i \in DOMAIN tree : tree[i].skip # "excluded" \/ ~Launches}
Names(entries) == {entries[i].name : i \in DOMAIN entries}
Files(entries) == {i \in DOMAIN entries : entries[i].kind = "file"}
Sizes(entries) == [i \in DOMAIN entries |-> entries[i].size]
Within(files, bytes, limit) == files <= limit.files /\ bytes <= limit.bytes

\* The files among some entries of the tree.
Fits(places, limit) ==
    LET files == Files(tree) \cap places
    IN Within(Cardinality(files), SumFunctionOnSet(Sizes(tree), files), limit)

\* The container's exporter has limits of its own; the trusted writers have none.
SenderAllows(files, bytes) ==
    op = "fetch" \/ ~Pull \/ Within(files, bytes, ExporterLimit)

\* Variant: the training host allows no more files than a workspace may have.
ReaderLimitTight ==
    CASE op = "file" -> [CallerLimit EXCEPT !.files = 1]
      [] op = "import" -> ExporterLimit
      [] op = "fetch" -> RemoteLimit
      [] OTHER -> CallerLimit

ReaderLimit ==
    CASE op = "file" -> [CallerLimit EXCEPT !.files = 1]
      [] op = "import" -> ExporterLimit
      [] op = "fetch" \/ (Launches /\ ~Pull) -> RemoteLimit
      [] OTHER -> CallerLimit

Writer(state) == [at |-> 1, left |-> 0, files |-> 0, bytes |-> 0, state |-> state, code |-> 0]
Extractor(at) == [at |-> at, entry |-> Nothing, left |-> 0, files |-> 0, bytes |-> 0]

Init ==
    /\ op \in Operations /\ tree \in Trees /\ payload = tree /\ lost = {}
    /\ op = "file" => Len(tree) = 1
    /\ leg = IF op = "import" THEN "push" ELSE "pull"
    /\ sender = Writer("absent") /\ wire = <<>> /\ ended = FALSE
    /\ reader = Extractor("absent") /\ held = {} /\ locked = {}
    /\ dest = {} /\ job = {}
    /\ call = "new" /\ tries = 1 /\ fault = "none"

-----------------------------------------------------------------------------
(* The call.                                                               *)

\* fetch_stage returns if the destination is there; otherwise both processes
\* start.
Begin ==
    /\ call = "new"
    /\ IF op = "fetch" /\ dest # {}
       THEN call' = "ok" /\ UNCHANGED <<sender, reader>>
       ELSE /\ call' = "busy" /\ reader' = Extractor("open")
            /\ sender' = Writer(IF Pull THEN "walk" ELSE "pack")
    /\ UNCHANGED <<source, leg, payload, wire, ended, held, locked, effects, tries, fault>>

\* Variant: the child is left alone.
FailLeaves ==
    /\ call' = "error"
    /\ reader' = [reader EXCEPT !.at = "gone"]
    /\ UNCHANGED <<sender, ended>>

\* An exception in a pull: the child is killed and waited for.
Fail ==
    /\ call' = "error"
    /\ reader' = [reader EXCEPT !.at = "gone"]
    /\ sender' = [sender EXCEPT !.state = "exited", !.code = -9]
    /\ ended' = TRUE

\* The next await calls fetch_stage once more.
FetchAgain ==
    /\ op = "fetch" /\ call \notin {"new", "busy"} /\ tries < MaxTries
    /\ sender.state \in {"absent", "exited"}
    /\ call' = "new" /\ tries' = tries + 1
    /\ sender' = Writer("absent") /\ reader' = Extractor("absent")
    /\ wire' = <<>> /\ ended' = FALSE /\ held' = {} /\ locked' = {}
    /\ UNCHANGED <<source, leg, payload, effects, fault>>

-----------------------------------------------------------------------------
(* The writer.                                                             *)

Entry   == payload[sender.at]
Working == sender.state = "walk" /\ sender.at <= Len(payload)
Room    == Len(wire) < Capacity
Regular(e) == e.kind \in {"dir", "file"}
Rest    == <<leg, payload, extract, effects, caller, fault>>

\* The archive of a push is complete before the transport starts.
Pack ==
    /\ sender.state = "pack"
    /\ IF \A i \in DOMAIN payload : Excluded(payload[i]) \/ Regular(payload[i])
       THEN sender' = [sender EXCEPT !.state = "walk"] /\ UNCHANGED <<call, ended, reader>>
       ELSE Fail
    /\ UNCHANGED <<source, leg, payload, wire, held, locked, effects, tries, fault>>

SkipExcluded ==
    /\ Working /\ sender.left = 0 /\ Excluded(Entry)
    /\ sender' = [sender EXCEPT !.at = @ + 1]
    /\ UNCHANGED <<source, wire, ended, Rest>>

Allowed(e) ==
    /\ Regular(e)
    /\ e.kind = "file" => SenderAllows(sender.files + 1, sender.bytes + e.size)

\* A link, a special file, a limit, a file that shrank or is gone: the writer
\* exits without an end marker.
Refuse ==
    /\ Working
    /\ \/ sender.left = 0 /\ ~Excluded(Entry) /\ ~Allowed(Entry)
       \/ sender.left > 0 /\ ~Regular(Entry)
    /\ sender' = [sender EXCEPT !.state = "exited", !.code = 2]
    /\ ended' = TRUE
    /\ UNCHANGED <<source, wire, Rest>>

SendHeader ==
    /\ Working /\ sender.left = 0 /\ ~Excluded(Entry) /\ Allowed(Entry) /\ Room
    /\ wire' = Append(wire, [item |-> "member", of |-> Entry])
    /\ sender' = IF Entry.kind = "dir" THEN [sender EXCEPT !.at = @ + 1]
                 ELSE [sender EXCEPT !.files = @ + 1, !.bytes = @ + Entry.size,
                                     !.left = Entry.size,
                                     !.at = IF Entry.size = 0 THEN @ + 1 ELSE @]
    /\ UNCHANGED <<source, ended, Rest>>

SendData ==
    /\ Working /\ sender.left > 0 /\ Regular(Entry) /\ Room
    /\ wire' = Append(wire, [item |-> "block", of |-> Entry])
    /\ sender' = [sender EXCEPT !.left = @ - 1,
                                !.at = IF sender.left = 1 THEN @ + 1 ELSE @]
    /\ UNCHANGED <<source, ended, Rest>>

SendEnd ==
    /\ sender.state = "walk" /\ sender.at > Len(payload) /\ Room
    /\ wire' = Append(wire, [item |-> "end", of |-> Nothing])
    /\ sender' = [sender EXCEPT !.state = "ended"]
    /\ UNCHANGED <<source, ended, Rest>>

SenderExits ==
    /\ sender.state = "ended"
    /\ sender' = [sender EXCEPT !.state = "exited"] /\ ended' = TRUE
    /\ UNCHANGED <<source, wire, Rest>>

\* EPIPE: nobody reads any more.
SenderBroken ==
    /\ sender.state = "walk" /\ reader.at \in {"gone", "failed"}
    /\ sender' = [sender EXCEPT !.state = "exited", !.code = 1] /\ ended' = TRUE
    /\ UNCHANGED <<source, wire, Rest>>
-----------------------------------------------------------------------------
(* The extractor.                                                          *)

Active   == reader.at \in {"open", "header", "data"}
Arrived(item) == wire # <<>> /\ Head(wire).item = item
Member   == Head(wire).of
Outside  == <<source, leg, payload, effects, tries, fault>>

\* An exception of the extractor: in a push it only ends the other side.
Raise ==
    IF Pull THEN Fail
    ELSE reader' = [reader EXCEPT !.at = "failed"] /\ UNCHANGED <<call, sender, ended>>

ReadDirectory ==
    /\ reader.at \in {"open", "header"} /\ Arrived("member") /\ Member.kind = "dir"
    /\ wire' = Tail(wire) /\ held' = held \cup {Member.name}
    /\ reader' = [reader EXCEPT !.at = "header"]
    /\ UNCHANGED <<locked, sender, ended, call, Outside>>

\* Variant: a directory gets its mode when it is made.
ReadDirectoryLocks ==
    /\ reader.at \in {"open", "header"} /\ Arrived("member") /\ Member.kind = "dir"
    /\ wire' = Tail(wire) /\ held' = held \cup {Member.name}
    /\ reader' = [reader EXCEPT !.at = "header"]
    /\ locked' = IF Member.ro THEN locked \cup {Member.name} ELSE locked
    /\ UNCHANGED <<sender, ended, call, Outside>>

\* Variant: the limits are checked before the member is counted.
AcceptsLate(e) ==
    /\ Within(reader.files, reader.bytes, ReaderLimit)
    /\ e.in \notin locked

\* The limits are checked on what the header declares.
Accepts(e) ==
    /\ Within(reader.files + 1, reader.bytes + e.size, ReaderLimit)
    /\ e.in \notin locked

ReadHeader ==
    /\ reader.at \in {"open", "header"} /\ Arrived("member") /\ Member.kind = "file"
    /\ wire' = Tail(wire)
    /\ IF Accepts(Member)
       THEN /\ reader' = [at |-> IF Member.size = 0 THEN "header" ELSE "data",
                          entry |-> Member.name, left |-> Member.size,
                          files |-> reader.files + 1, bytes |-> reader.bytes + Member.size]
            /\ held' = IF Member.size = 0 THEN held \cup {Member.name} ELSE held
            /\ UNCHANGED <<call, sender, ended>>
       ELSE Raise /\ UNCHANGED held
    /\ UNCHANGED <<locked, Outside>>

ReadBlock ==
    /\ reader.at = "data" /\ Arrived("block")
    /\ wire' = Tail(wire)
    /\ reader' = [reader EXCEPT !.left = @ - 1,
                                !.at = IF reader.left = 1 THEN "header" ELSE @]
    /\ held' = IF reader.left = 1 THEN held \cup {reader.entry} ELSE held
    /\ UNCHANGED <<locked, sender, ended, call, Outside>>

\* The end marker; or the stream stops where a header would be, which tarfile
\* takes for the end of the archive unless nothing was read at all.
ReadEnd ==
    /\ \/ reader.at \in {"open", "header"} /\ Arrived("end")
       \/ reader.at = "header" /\ wire = <<>> /\ ended
    /\ reader' = [reader EXCEPT !.at = "modes"]
    /\ UNCHANGED <<wire, held, locked, sender, ended, call, Outside>>

\* The stream stops within a file, or before the first header.
ReadCutShort ==
    /\ reader.at \in {"open", "data"} /\ wire = <<>> /\ ended
    /\ Raise
    /\ UNCHANGED <<wire, held, locked, Outside>>

\* Variant: every directory of the source gets its mode.
ApplyModesAll ==
    /\ reader.at = "modes"
    /\ reader' = [reader EXCEPT !.at = "done"]
    /\ locked' = {payload[i].name : i \in {k \in DOMAIN payload : payload[k].ro}}
    /\ UNCHANGED <<wire, held, sender, ended, call, Outside>>

\* The modes of the directories come last.
ApplyModes ==
    /\ reader.at = "modes"
    /\ reader' = [reader EXCEPT !.at = "done"]
    /\ locked' = {payload[i].name : i \in {k \in DOMAIN payload : payload[k].ro}} \cap held
    /\ UNCHANGED <<wire, held, sender, ended, call, Outside>>

-----------------------------------------------------------------------------
(* The end of a pull.                                                      *)

\* Variant: the exit code of the writer is not looked at.
SucceedsAnyway == sender.code \in {0, 2, 255}

Succeeds == sender.code = 0

Ready == Pull /\ call = "busy" /\ reader.at = "done" /\ sender.state = "exited"

\* export_from_container returns, export_file_from_container and fetch_stage
\* rename what they extracted.
Publish ==
    /\ Ready /\ ~Launches
    /\ IF Succeeds /\ (op = "file" => Cardinality(held) = 1)
       THEN /\ call' = "ok"
            /\ dest' = IF op \in {"file", "fetch"} /\ dest = {} THEN {held} ELSE dest
       ELSE call' = "error" /\ UNCHANGED dest
    /\ reader' = [reader EXCEPT !.at = "gone"]
    /\ UNCHANGED <<source, leg, payload, stream, held, locked, job, tries, fault>>

\* snapshot_workspace and write_start_payload: the workspace as it was
\* extracted, between the request and the checkpoint.
Workspace ==
    [i \in DOMAIN tree |-> IF tree[i].name \in held THEN tree[i]
                           ELSE [tree[i] EXCEPT !.skip = "excluded"]]
Snapshot ==
    <<Request>> \o Workspace \o (IF op = "resume" THEN <<Checkpoint>> ELSE <<>>)

SendSnapshot ==
    /\ Ready /\ Launches
    /\ IF Succeeds /\ Fits({i \in Kept : tree[i].name \in held}, CallerLimit)
       THEN /\ leg' = "push" /\ payload' = Snapshot
            /\ sender' = Writer("pack") /\ reader' = Extractor("open")
            /\ wire' = <<>> /\ ended' = FALSE /\ held' = {} /\ locked' = {}
            /\ UNCHANGED call
       ELSE /\ call' = "error" /\ reader' = [reader EXCEPT !.at = "gone"]
            /\ UNCHANGED <<leg, payload, stream, held, locked>>
    /\ UNCHANGED <<source, effects, tries, fault>>

\* Variant: process.wait() has no timeout.
WaitForever == FALSE /\ UNCHANGED vars

\* process.wait(timeout): the archive is complete and the writer does not exit.
WaitExpires ==
    /\ Pull /\ call = "busy" /\ reader.at = "done" /\ sender.state = "ended"
    /\ Fail
    /\ fault' = "slow"
    /\ UNCHANGED <<source, leg, payload, wire, held, locked, effects, tries>>

-----------------------------------------------------------------------------
(* The end of a push.                                                      *)

\* remote_worker.start: the payload has a request and a workspace.
PayloadUsable(names) == Request.name \in names /\ names \cap Names(tree) # {}

Finish ==
    /\ ~Pull /\ reader.at = "done"
    /\ IF ~Launches THEN reader' = [reader EXCEPT !.at = "answered"] /\ UNCHANGED job
       ELSE IF PayloadUsable(held)
       THEN reader' = [reader EXCEPT !.at = "answered"] /\ job' = {held}
       ELSE reader' = [reader EXCEPT !.at = "failed"] /\ UNCHANGED job
    /\ UNCHANGED <<source, leg, payload, stream, held, locked, dest, caller, fault>>

\* The exit code of docker exec or ssh is that of the extractor.
Reply ==
    /\ ~Pull /\ call = "busy" /\ sender.state = "exited"
    /\ \/ reader.at = "answered" /\ call' = "ok"
       \/ reader.at = "failed" /\ call' = "error"
    /\ UNCHANGED <<source, leg, payload, stream, extract, effects, tries, fault>>

-----------------------------------------------------------------------------
(* What goes wrong.                                                        *)

\* The connection is lost: the other side sees the end of its input, wherever
\* it is.
Disconnect ==
    /\ call = "busy"
    /\ \/ sender.state \in {"walk", "ended"}
       \/ ~Pull /\ sender.state = "exited"
    /\ wire' \in Prefixes(wire) /\ ended' = TRUE
    /\ sender' = [sender EXCEPT !.state = "exited", !.code = 255]
    /\ call' = IF Pull THEN call ELSE "error"
    /\ UNCHANGED <<source, leg, payload, extract, effects, tries>>

Cut == "cut" \in Faults /\ fault = "none" /\ fault' = "cut" /\ Disconnect

\* subprocess.run(timeout=300) kills the command of a push.
PushExpires == ~Pull /\ fault' = "slow" /\ Disconnect

\* The calling process is killed or interrupted; its child is not.
Kill ==
    /\ "kill" \in Faults /\ fault = "none" /\ call = "busy"
    /\ fault' = "kill" /\ call' = "killed"
    /\ reader' = IF Pull THEN [reader EXCEPT !.at = "gone"] ELSE reader
    /\ UNCHANGED <<source, leg, payload, stream, held, locked, effects, tries>>

\* Entries of directories that os.walk comes to later, or now.
Unlisted ==
    {i \in DOMAIN payload :
        /\ payload[i].in # ""
        /\ \A k \in DOMAIN payload : payload[k].in = payload[i].in =>
              k > sender.at \/ (k = sender.at /\ sender.left = 0)}

\* A process of the agent removes what is listed and not open yet, or truncates
\* the file that is being sent.
Touch ==
    /\ "touch" \in Faults /\ fault = "none" /\ Working
    /\ Pull /\ op # "fetch"
    /\ \E i \in (sender.at .. Len(payload)) \ Unlisted :
          payload' = [payload EXCEPT ![i].kind = "gone"]
    /\ fault' = "touch"
    /\ UNCHANGED <<source, leg, stream, extract, effects, caller>>

\* It removes names that are not listed yet, and what they contain: os.walk
\* lists what is left, and passes over a directory that it cannot list.
Vanish ==
    /\ "vanish" \in Faults /\ fault = "none" /\ Working
    /\ Pull /\ op \notin {"file", "fetch"}
    /\ \E removed \in SUBSET Unlisted :
          /\ \A i \in removed, k \in Unlisted : payload[k].in = payload[i].name => k \in removed
          /\ lost' = {payload[i].name : i \in removed}
    /\ fault' = "vanish"
    /\ UNCHANGED <<op, tree, leg, payload, stream, extract, effects, caller>>

-----------------------------------------------------------------------------
Sending == Pack \/ SkipExcluded \/ Refuse \/ SendHeader \/ SendData \/ SendEnd \/ SenderBroken
Reading == ReadDirectory \/ ReadHeader \/ ReadBlock \/ ReadEnd \/ ReadCutShort \/ ApplyModes
Calling == Begin \/ Publish \/ SendSnapshot \/ WaitExpires \/ Reply

Next ==
    \/ Sending \/ SenderExits \/ Reading \/ Calling \/ Finish \/ FetchAgain
    \/ Cut \/ PushExpires \/ Kill \/ Touch \/ Vanish

Spec == Init /\ [][Next]_vars

\* What the calling process does by itself, its timeouts included: it extracts
\* what arrives in a pull, it packs the archive of a push.  Nothing makes a
\* writer of a pull or the other side of a push go on.
FairSpec ==
    /\ Spec
    /\ WF_vars(Calling) /\ WF_vars(Pack) /\ WF_vars(Pull /\ Reading) /\ WF_vars(PushExpires)

-----------------------------------------------------------------------------
(* Properties.                                                             *)

\* Every attribute has its type.
TypeOK ==
    /\ op \in Operations /\ tree \in Trees /\ lost \subseteq Names(tree)
    /\ leg \in {"pull", "push"}
    /\ sender.at \in 1 .. Len(payload) + 1 /\ sender.left \in Nat
    /\ sender.state \in {"absent", "pack", "walk", "ended", "exited"}
    /\ sender.code \in {-9, 0, 1, 2, 255}
    /\ Len(wire) <= Capacity /\ ended \in BOOLEAN
    /\ reader.at \in {"absent", "open", "header", "data", "modes", "done", "gone",
                      "failed", "answered"}
    /\ held \subseteq Names(payload) /\ locked \subseteq held
    /\ call \in {"new", "busy", "ok", "error", "killed"} /\ tries \in 1 .. MaxTries
    /\ Cardinality(dest) <= 1 /\ Cardinality(job) <= 1
    /\ fault \in FaultKinds \cup {"none"}

\* What the caller asked to be transferred, as far as it was there when the walk
\* listed its directory.
Asked ==
    ({tree[i].name : i \in Kept} \ lost) \cup
        (IF Launches THEN {Request.name} ELSE {}) \cup
        (IF op = "resume" THEN {Checkpoint.name} ELSE {})

\* A transfer that is reported to have succeeded carried everything that the
\* walk listed, whatever was removed after that or lost on the way: the end of a
\* stream says nothing, the exit code of the writer and the reply of the other
\* side do.
AcceptedIsComplete ==
    call = "ok" =>
        CASE op \in {"file", "fetch"} -> dest = {Asked}
          [] Launches -> job = {Asked}
          [] OTHER -> held = Asked

\* A renamed file or stage is whole at every moment, also after the caller was
\* killed, and a later fetch relies on that.
PublishedWhole == dest \in {{}, {Names(tree)}}

\* What anybody may take for complete is complete.
CompleteOrAbsent == AcceptedIsComplete /\ PublishedWhole

\* What the extractor has stored: whole files and the one that is arriving.
Partial == {i \in DOMAIN payload : reader.at = "data" /\ payload[i].name = reader.entry}
OnDisk  == Partial \cup {i \in Files(payload) : payload[i].name \in held}
Written ==
    [i \in DOMAIN payload |-> payload[i].size - IF i \in Partial THEN reader.left ELSE 0]

\* The extractor never stores more than its limits, though it only knows what
\* the headers declare.
LimitsHold == Within(Cardinality(OnDisk), SumFunctionOnSet(Written, OnDisk), ReaderLimit)

\* A tree of regular files and directories within the limits is transferred
\* unless something goes wrong: names left out are not counted, directories
\* without write permission can be filled, a workspace at its limit still has
\* room for the request and the checkpoint, a stage can be fetched again.
Legal ==
    /\ \A i \in Exported : Regular(tree[i])
    /\ Fits(Exported, CASE op = "import" -> ExporterLimit
                        [] op = "fetch" -> RemoteLimit
                        [] OTHER -> CallerLimit)
    /\ op = "file" => tree[1].kind = "file"
    /\ Launches => Kept # {}
LegalSucceeds == call = "error" => ~Legal \/ fault # "none"

\* When a pull has returned or raised, its child is gone.  (fetch_stage writes
\* its request to ssh before the code that kills ssh; the write fails only when
\* ssh is gone.)
NothingLeft == Pull /\ call \in {"ok", "error"} => sender.state \in {"absent", "exited"}

\* The extractor of a pull waits for bytes of a writer that is still there.  No
\* timeout covers that: export_from_container and fetch_stage have one for the
\* exit of the writer only.
Stalled == Pull /\ call = "busy" /\ Active /\ wire = <<>> /\ ~ended

\* Every call returns, though a writer may never exit after its archive and the
\* other side of a push may never answer; the one thing that holds it up is the
\* writer of a pull that stalls within its archive.
CallReturns == (call = "busy" ~> call # "busy") \/ <>[]Stalled
=============================================================================
