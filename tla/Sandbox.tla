------------------------------ MODULE Sandbox -------------------------------
(***************************************************************************)
(* One call of a workspace tool: Sandbox._run_tool of                      *)
(* odbench_outer/sandbox.py on the host, and the supervisor                *)
(* docker/odbench/tool_runner.py in the agent's container, with the        *)
(* processes of the command it runs.                                       *)
(*                                                                         *)
(*   container  the agent's container                                      *)
(*   started    Sandbox.started                                            *)
(*   tool       the call on the host                                       *)
(*   supervisor control point of tool_runner                               *)
(*   spawned    processes the commands have made so far                    *)
(*   alive      those that live                                            *)
(*   leader     the process the supervisor started                         *)
(*   group      those in its process group                                 *)
(*   holders    those that hold the writing end of its output              *)
(*   before     those that lived when the command began                    *)
(*   names      what owned_processes found in /proc, before it looked at   *)
(*              each of them                                               *)
(*   candidates what clean_new_processes is about to kill                  *)
(*   round      the round of clean_new_processes                           *)
(*   forked     rounds in which a process forked after they were listed    *)
(*   timed_out  the deadline of the command has passed                     *)
(*   pipe       output that is not read yet                                *)
(*   produced   output of the command                                      *)
(*   kept       output in the result                                       *)
(*   truncated  as in the result                                           *)
(*   patch      how far git apply has come with a patch; part: it failed,  *)
(*              with some, none or all of it written                       *)
(*   applied    as in the result                                           *)
(***************************************************************************)
EXTENDS Integers, FiniteSets

CONSTANTS
    MaxProcesses,      \* processes in a session
    MAX_OUTPUT_BYTES,
    MaxProduced,        \* output of one command
    PipeSize,
    Faults

ASSUME SandboxAssumption ==
    /\ MaxProcesses \in Nat /\ MAX_OUTPUT_BYTES \in Nat
    /\ MaxProduced \in Nat /\ PipeSize \in Nat \ {0}
    /\ Faults \subseteq {"git", "kill", "start", "interrupt", "close", "stop"}

VARIABLES container, started, tool, supervisor,
          spawned, alive, leader, group, holders,
          before, names, candidates, round, forked, timed_out,
          pipe, produced, kept, truncated, patch, applied

host      == <<container, started, tool>>
processes == <<spawned, alive, leader, group, holders>>
cleaning  == <<before, names, candidates, round, forked, timed_out>>
output    == <<pipe, produced, kept, truncated>>
patching  == <<patch, applied>>
sandboxVars == <<host, supervisor, processes, cleaning, output, patching>>

-----------------------------------------------------------------------------
SandboxInit ==
    /\ container = "absent" /\ started = FALSE /\ tool = "none" /\ supervisor = "idle"
    /\ spawned = 0 /\ alive = {} /\ leader = 0 /\ group = {} /\ holders = {}
    /\ before = {} /\ names = {} /\ candidates = {} /\ round = 0 /\ forked = {} /\ timed_out = FALSE
    /\ pipe = 0 /\ produced = 0 /\ kept = 0 /\ truncated = FALSE
    /\ patch = "none" /\ applied = FALSE

-----------------------------------------------------------------------------
(* The processes of the commands.                                          *)

\* Processes die, and with them their descriptors.
Kill(dead) ==
    /\ alive' = alive \ dead
    /\ group' = group \ dead
    /\ holders' = holders \ dead

Fork(p) ==
    /\ p \in alive /\ spawned < MaxProcesses
    /\ spawned' = spawned + 1 /\ alive' = alive \cup {spawned + 1}
    /\ group' \in {group} \cup (IF p \in group THEN {group \cup {spawned + 1}} ELSE {})
    /\ holders' \in {holders} \cup (IF p \in holders THEN {holders \cup {spawned + 1}} ELSE {})
    /\ forked' = IF supervisor \in {"read", "kill", "final-read", "final-kill"}
                 THEN forked \cup {round} ELSE forked
    /\ UNCHANGED <<host, supervisor, leader, before, names, candidates, round, timed_out,
                   output, patching>>

Exit(p) ==
    /\ p \in alive
    /\ Kill({p})
    /\ UNCHANGED <<host, supervisor, spawned, leader, cleaning, output, patching>>

\* A command may close its output and go on.
CloseOutput(p) ==
    /\ p \in holders
    /\ holders' = holders \ {p}
    /\ UNCHANGED <<host, supervisor, spawned, alive, leader, group, cleaning, output, patching>>

Write(p) ==
    /\ p \in holders /\ pipe < PipeSize /\ produced < MaxProduced
    /\ pipe' = pipe + 1 /\ produced' = produced + 1
    /\ UNCHANGED <<host, supervisor, processes, cleaning, kept, truncated, patching>>

-----------------------------------------------------------------------------
(* execute_command.                                                        *)

\* Sandbox.exec: docker exec starts the supervisor, which lists what runs.
Exec ==
    /\ tool = "none" /\ container = "running" /\ supervisor = "idle"
    /\ tool' = "exec" /\ supervisor' = "before" /\ names' = alive
    /\ before' = {} /\ candidates' = {} /\ round' = 0 /\ forked' = {} /\ timed_out' = FALSE
    /\ pipe' = 0 /\ produced' = 0 /\ kept' = 0 /\ truncated' = FALSE
    /\ leader' = 0 /\ group' = {} /\ holders' = {}
    /\ UNCHANGED <<container, started, spawned, alive, patching>>

\* owned_processes lists the names of /proc first and reads the status of each
\* later: one that died in between is found, or is not found, or is gone while
\* its status is read, and then the ProcessLookupError ends the supervisor.
Owned ==
    {(names \cap alive) \cup gone : gone \in SUBSET (names \ alive)}
Vanishes ==
    /\ names \ alive # {}
    /\ supervisor' = "error" /\ UNCHANGED <<before, candidates>>

ReadBefore ==
    /\ supervisor = "before"
    /\ \/ before' \in Owned /\ supervisor' = "listed" /\ UNCHANGED candidates
       \/ Vanishes
    /\ names' = {}
    /\ UNCHANGED <<host, processes, round, forked, timed_out, output, patching>>

Spawn ==
    /\ supervisor = "listed" /\ spawned < MaxProcesses
    /\ spawned' = spawned + 1 /\ alive' = alive \cup {spawned + 1}
    /\ leader' = spawned + 1 /\ group' = {spawned + 1} /\ holders' = {spawned + 1}
    /\ supervisor' = "loop"
    /\ UNCHANGED <<host, cleaning, output, patching>>

\* BlockingIOError: the container has as many processes as it may have.
SpawnFails ==
    /\ supervisor = "listed" /\ spawned = MaxProcesses
    /\ supervisor' = "error"
    /\ UNCHANGED <<host, processes, cleaning, output, patching>>

\* Variant: a chunk that is kept in part is not called truncated.
TruncatesWhole(n) == kept = MAX_OUTPUT_BYTES /\ n > 0

Truncates(n) == n > MAX_OUTPUT_BYTES - kept

Keeps(n) == kept' = IF n > MAX_OUTPUT_BYTES - kept THEN MAX_OUTPUT_BYTES ELSE kept + n

\* os.read and append_bounded.
Read ==
    /\ supervisor = "loop"
    /\ \E n \in 1 .. pipe :
          /\ pipe' = pipe - n
          /\ Keeps(n)
          /\ truncated' = (truncated \/ Truncates(n))
    /\ UNCHANGED <<host, supervisor, processes, cleaning, produced, patching>>

\* The deadline passes: the group is killed and what escaped it is cleaned up,
\* once.
TimeUp ==
    /\ supervisor = "loop" /\ ~timed_out
    /\ timed_out' = TRUE
    /\ Kill(group)
    /\ supervisor' = "list" /\ round' = 1
    /\ UNCHANGED <<host, spawned, leader, before, names, candidates, forked, output, patching>>

\* Nobody holds the writing end any more; the group of a leader that lives is
\* killed.
EndOfOutput ==
    /\ supervisor = "loop" /\ pipe = 0 /\ holders = {}
    /\ Kill(IF leader \in alive THEN group ELSE {})
    /\ supervisor' = "final-list" /\ round' = 1 /\ forked' = {}
    /\ UNCHANGED <<host, spawned, leader, before, names, candidates, timed_out, output,
                   patching>>

\* Variant: two rounds.
RoundsTwo == 2

Rounds == 3

\* clean_new_processes: the new processes are listed, looked at, and killed.
List ==
    /\ supervisor \in {"list", "final-list"}
    /\ names' = alive \ before
    /\ supervisor' = IF supervisor = "list" THEN "read" ELSE "final-read"
    /\ UNCHANGED <<host, processes, before, candidates, round, forked, timed_out, output,
                   patching>>

ReadStatuses ==
    /\ supervisor \in {"read", "final-read"}
    /\ \/ /\ candidates' \in Owned /\ UNCHANGED before
          /\ supervisor' =
                IF candidates' = {} THEN (IF supervisor = "read" THEN "loop" ELSE "result")
                ELSE (IF supervisor = "read" THEN "kill" ELSE "final-kill")
       \/ Vanishes
    /\ UNCHANGED <<host, processes, names, round, forked, timed_out, output, patching>>

KillListed ==
    /\ supervisor \in {"kill", "final-kill"}
    /\ Kill(candidates)
    /\ names' = {} /\ candidates' = {} /\ round' = round + 1
    /\ supervisor' =
          IF supervisor = "kill" THEN (IF round = Rounds THEN "loop" ELSE "list")
          ELSE (IF round = Rounds THEN "result" ELSE "final-list")
    /\ UNCHANGED <<host, spawned, leader, before, forked, timed_out, output, patching>>

-----------------------------------------------------------------------------
(* apply_patch.                                                            *)

Patch ==
    /\ tool = "none" /\ container = "running" /\ supervisor = "idle"
    /\ tool' = "patch" /\ supervisor' = "check"
    /\ patch' \in {"clean", "warns"} /\ applied' = FALSE
    /\ UNCHANGED <<container, started, processes, cleaning, output>>

CheckAccepts == patch = "clean" /\ patch' = patch

\* git apply --check: the patch does not fit, or git warns, or it fits.
CheckPatch ==
    /\ supervisor = "check"
    /\ \/ supervisor' = "apply" /\ CheckAccepts
       \/ supervisor' = "result" /\ patch' = "none"
       \/ "git" \in Faults /\ supervisor' = "error" /\ patch' = "none"
    /\ UNCHANGED <<host, processes, cleaning, output, applied>>

\* git apply: all of it, or nothing if the workspace has changed since; a patch
\* git warns about is applied and reported as not applied.  When git fails while
\* it writes, its exit code makes an ordinary result; only its timeout raises.
ApplyPatch ==
    /\ supervisor = "apply"
    /\ \/ patch' = "done" /\ applied' = (patch = "clean") /\ supervisor' = "result"
       \/ patch' = "none" /\ supervisor' = "result" /\ UNCHANGED applied
       \/ /\ "git" \in Faults
          /\ patch' = "part" /\ supervisor' \in {"result", "error"}
          /\ UNCHANGED applied
    /\ UNCHANGED <<host, processes, cleaning, output>>

-----------------------------------------------------------------------------
(* The host.                                                               *)

Return ==
    /\ tool \in {"exec", "patch"} /\ supervisor \in {"result", "error"}
    /\ tool' = "none" /\ supervisor' = "idle"
    /\ UNCHANGED <<container, started, processes, cleaning, output, patching>>

\* Variant: only the docker exec client is killed.
Wedged == container' = container /\ Kill({}) /\ tool' = "wedged" /\ supervisor' = "idle"

\* docker kill: every process of the container dies; or it fails, which nobody
\* looks at, and the container is adrift.
Killed ==
    \/ container' = "dead" /\ Kill(alive) /\ tool' = "wedged" /\ supervisor' = "idle"
    \/ /\ "kill" \in Faults /\ tool' = "adrift"
       /\ UNCHANGED <<container, alive, group, holders, supervisor>>

\* Variant: only apply_patch has a timeout on the host.
SupervisorLatePatch == tool = "patch" /\ supervisor \in {"check", "apply"}

SupervisorLate ==
    \/ tool = "exec" /\ timed_out /\ supervisor = "loop"
    \/ tool = "patch" /\ supervisor \in {"check", "apply"}

\* The supervisor does not answer within its timeout.
OuterTimeout ==
    /\ SupervisorLate
    /\ Killed
    /\ started' = FALSE
    /\ UNCHANGED <<spawned, leader, cleaning, output, patching>>

-----------------------------------------------------------------------------
Supervising ==
    \/ ReadBefore \/ Spawn \/ SpawnFails \/ Read \/ TimeUp \/ EndOfOutput
    \/ List \/ ReadStatuses \/ KillListed \/ CheckPatch \/ ApplyPatch \/ Return \/ OuterTimeout

-----------------------------------------------------------------------------
(* Properties.                                                             *)

\* Every attribute has its type.
SandboxTypeOK ==
    /\ container \in {"absent", "running", "dead"} /\ started \in BOOLEAN
    /\ tool \in {"none", "exec", "patch", "wedged", "adrift"}
    /\ supervisor \in {"idle", "before", "listed", "loop", "list", "read", "kill",
                       "final-list", "final-read", "final-kill",
                       "check", "apply", "result", "error"}
    /\ spawned \in 0 .. MaxProcesses
    /\ (before \cup names \cup candidates) \subseteq 1 .. spawned /\ leader \in 0 .. spawned
    /\ alive \subseteq 1 .. spawned /\ (group \cup holders) \subseteq alive
    /\ round \in 0 .. 4 /\ forked \subseteq 1 .. 3 /\ timed_out \in BOOLEAN
    /\ pipe \in 0 .. PipeSize /\ produced \in 0 .. MaxProduced
    /\ kept \in 0 .. MAX_OUTPUT_BYTES /\ truncated \in BOOLEAN
    /\ patch \in {"none", "clean", "warns", "part", "done"} /\ applied \in BOOLEAN

\* To leave a process behind, the first command has to fork in every round of
\* clean_new_processes after the processes were listed: in all three, or in
\* fewer when everything listed in the last ended before it was looked at.
\* Leaving the process group, or forking less, does not do.
SurvivorsForked ==
    tool = "exec" /\ supervisor = "result" /\ before = {} /\ alive # {} =>
        /\ \A r \in 1 .. 3 : r <= round => r \in forked
        /\ round <= 3 => names # {} /\ names \cap alive = {}

\* The result of a command says truncated exactly if output is missing in it,
\* and keeps no more than the limit, whatever the sizes of the reads were.
TruncatedIffLost ==
    tool = "exec" /\ supervisor = "result" =>
        /\ truncated <=> kept < produced
        /\ kept <= MAX_OUTPUT_BYTES

\* sandbox.py: killing the disposable sandbox of a wedged supervisor also
\* guarantees that no command process survives; if docker kill fails, which
\* nobody looks at, it does not, and the sandbox is adrift.
WedgedMeansDead == tool = "wedged" => alive = {} /\ ~started

\* A patch reported as applied was applied as a whole, and one reported as not
\* applied changed nothing unless git failed while it was writing.
PatchTold ==
    tool = "patch" /\ supervisor = "result" =>
        patch \in IF applied THEN {"done"} ELSE {"none", "part"}

\* The results the model reads are honest.
ResultsHonest == TruncatedIffLost /\ PatchTold
=============================================================================
