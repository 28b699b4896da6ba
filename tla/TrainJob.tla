------------------------------ MODULE TrainJob ------------------------------
(***************************************************************************)
(* One metered training job: the controller commands of                    *)
(* docker/train/controller.py, the epoch_end() mailbox of                  *)
(* docker/train/odbench_train/mailbox.py that the training script calls,   *)
(* and the Docker container both of them act on.                           *)
(*                                                                         *)
(* Every controller command is a separate operating-system process.  It    *)
(* reads state.json once (await: once per poll), works on that copy, and   *)
(* writes the whole file back; there is no lock.  Between two effects of a *)
(* command (a Docker call, a file write) anything else may happen: the     *)
(* script publishes or exits, the clock advances, the command is killed by *)
(* the timeout of its caller.  One step of the model is one such effect.   *)
(*                                                                         *)
(*   st         the content of state.json                                  *)
(*   container  what `docker container inspect` reports; exitCode with it  *)
(*   script     the training process: computing, or blocked in epoch_end   *)
(*   events     epochs whose event file exists                             *)
(*   flaw       what the controller will refuse about an event: the file   *)
(*              itself (over 1 MiB), an artifact it names (symlink, too    *)
(*              large, missing), or nothing                                *)
(*   decisions  the decision file of each epoch                            *)
(*   staged     epochs whose staged/ directory exists                      *)
(*   results    the results/ file of each epoch                            *)
(*   at, mem, ev, note                                                     *)
(*              per controller process: control point, its copy of         *)
(*              state.json, the epoch it handles, that epoch's outcome     *)
(*   caller     the process the outer loop is waiting for, if any          *)
(*   reply      what the last attended command printed                     *)
(*   ran        history: seconds the container really ran unpaused         *)
(*   unseen     history: a docker rm failed on a live container, or a       *)
(*              docker inspect of one failed and was read as "missing";     *)
(*              no command looks at either                                 *)
(*                                                                         *)
(* Time is in polls.  time.time() is used only to compute                  *)
(* now - active_started_at, so the files keep that difference (`lap`),     *)
(* which every Tick increases.  All clocks saturate at Horizon.            *)
(***************************************************************************)
EXTENDS Integers

CONSTANTS
    Ctl,        \* controller processes
    NoCaller,   \* nobody is waiting for a command
    MaxEpoch,   \* bound: the script numbers its epochs 0..MaxEpoch
    SixDigits,  \* the last epoch whose event id matches ^epoch-[0-9]{6}$
    Budget,     \* state["budget_seconds"]
    Horizon,    \* bound: clocks saturate here
    Modes,      \* how await evaluates: itself, or --stage-only (the SSH transport)
    Faults      \* the failures of the environment that are considered

\* A command killed by its caller or cut off from it; a Docker call that fails
\* with an error, a docker rm and a docker inspect whose failure goes unnoticed;
\* an artifact or an event file that is refused; a paused script that dies.
FaultKinds == {"kill", "detach", "docker", "rm", "inspect", "artifact", "event", "die"}

ASSUME TrainJobAssumption ==
    /\ NoCaller \notin Ctl
    /\ MaxEpoch \in Nat
    /\ SixDigits \in Nat
    /\ Budget \in Nat \ {0}
    /\ Horizon \in Nat
    /\ Budget < Horizon
    /\ Modes \subseteq {"local", "stage-only"}
    /\ Faults \subseteq FaultKinds

VARIABLES
    st, container, exitCode, script, events, flaw, decisions, staged, results,
    at, mem, ev, note, caller, reply, ran, unseen

host    == <<at, mem, ev, note, caller, reply>>
mailbox == <<events, flaw, decisions, staged, results>>
docker  == <<container, exitCode>>
vars    == <<st, docker, script, mailbox, host, ran, unseen>>

-----------------------------------------------------------------------------
Epochs   == 0 .. MaxEpoch
NoEpoch  == -1      \* last_epoch of a new job, and pending: None
Off      == -1      \* active_started_at: None
Seconds  == 0 .. Horizon

Statuses == {"absent", "starting", "launch_failed", "running", "paused",
             "awaiting_decision", "stopped", "budget_exhausted", "completed",
             "failed"}
Ended    == {"stopped", "budget_exhausted", "completed", "failed"}
Notes    == {"none", "staged", "complete", "failed"}

StateFile == [status: Statuses, last: Epochs \cup {NoEpoch},
              pending: Epochs \cup {NoEpoch}, note: Notes,
              active: Seconds, lap: Seconds \cup {Off}]

NoState  == [status |-> "absent", last |-> NoEpoch, pending |-> NoEpoch,
             note |-> "none", active |-> 0, lap |-> Off]
NewState == [NoState EXCEPT !.status = "starting", !.lap = 0]

Points == {"idle",
           "launch", "launched", "unlaunched",
           "poll", "inspect", "remove", "expire", "scan", "sleep",
           "pause", "meter", "stage", "evaluate", "result", "publish",
           "c_read", "c_decide", "c_unpause", "c_write",
           "s_read", "s_decide", "s_unpause", "s_remove", "s_write",
           "r_read", "r_result", "r_write"}

Replies == [kind: {"none", "ok", "error", "finished", "budget"}]
           \cup [kind: {"event"}, epoch: Epochs, note: Notes]
Say(k)  == [kind |-> k]

\* Saturating clock arithmetic.
Plus(a, b) == IF a + b > Horizon THEN Horizon ELSE a + b
Age(s)     == IF s.lap = Off THEN s ELSE [s EXCEPT !.lap = Plus(@, 1)]

\* Variant: the lap that is still running is forgotten.
MeteredWithoutLap(s) == s.active

\* state["active_seconds"] plus the running lap, as every command computes it.
Metered(s) == IF s.lap = Off THEN s.active ELSE Plus(s.active, s.lap)

Init ==
    /\ st = NoState
    /\ container = "missing" /\ exitCode = 0
    /\ script = [pc |-> "gone", epoch |-> NoEpoch, last |-> NoEpoch]
    /\ events = {} /\ staged = {}
    /\ flaw = [e \in Epochs |-> "none"]
    /\ decisions = [e \in Epochs |-> "none"]
    /\ results = [e \in Epochs |-> "none"]
    /\ at = [c \in Ctl |-> "idle"]
    /\ mem = [c \in Ctl |-> NoState]
    /\ ev = [c \in Ctl |-> NoEpoch]
    /\ note = [c \in Ctl |-> "none"]
    /\ caller = NoCaller
    /\ reply = Say("none")
    /\ ran = 0 /\ unseen = FALSE

-----------------------------------------------------------------------------
(* Control flow of a command.                                              *)

Goto(c, p) == at' = [at EXCEPT ![c] = p]

\* The command ends: it prints r, or fails, and its process is gone.
Return(c, r) ==
    /\ Goto(c, "idle")
    /\ mem' = [mem EXCEPT ![c] = NoState]
    /\ ev' = [ev EXCEPT ![c] = NoEpoch]
    /\ note' = [note EXCEPT ![c] = "none"]
    /\ caller' = IF caller = c THEN NoCaller ELSE caller
    /\ reply' = IF caller = c THEN r ELSE reply

\* The command goes on to p and keeps its local variables.
Continue(c, p) == Goto(c, p) /\ UNCHANGED <<mem, ev, note, caller, reply>>

\* The command reads state.json and goes on to p.
Read(c, p) ==
    /\ Goto(c, p)
    /\ mem' = [mem EXCEPT ![c] = st]
    /\ UNCHANGED <<ev, note, caller, reply>>

Begin(c, p) ==
    /\ caller = NoCaller
    /\ at[c] = "idle"
    /\ Goto(c, p)
    /\ caller' = c
    /\ UNCHANGED <<note, reply>>

\* The caller learns the job id from a start that succeeded.
Known == st.status \notin {"absent", "starting", "launch_failed"}

\* The command replaces state.json by s.
Write(s) == st' = s

-----------------------------------------------------------------------------
(* start.  The workspace snapshot precedes everything another process can  *)
(* observe of the job.                                                     *)

Start(c) ==
    /\ st.status = "absent"
    /\ Begin(c, "launch")
    /\ Write(NewState)
    /\ mem' = [mem EXCEPT ![c] = NewState]
    /\ UNCHANGED <<docker, script, mailbox, ev, ran, unseen>>

DockerRun(c) ==
    /\ at[c] = "launch"
    /\ \/ /\ container' = "running"
          /\ script' = [script EXCEPT !.pc = "compute"]
          /\ Continue(c, "launched")
       \/ /\ "docker" \in Faults
          /\ Continue(c, "unlaunched")
          /\ UNCHANGED <<container, script>>
    /\ UNCHANGED <<st, exitCode, mailbox, ran, unseen>>

StartWrite(c) ==
    /\ \/ /\ at[c] = "launched"
          /\ Write([mem[c] EXCEPT !.status = "running"])
          /\ Return(c, Say("ok"))
       \/ /\ at[c] = "unlaunched"
          /\ Write([mem[c] EXCEPT !.status = "launch_failed"])
          /\ Return(c, Say("error"))
    /\ UNCHANGED <<docker, script, mailbox, ran, unseen>>

-----------------------------------------------------------------------------
(* await: poll state.json, the container and the events directory.         *)

Await(c) ==
    /\ Known
    /\ Begin(c, "poll")
    /\ UNCHANGED <<st, docker, script, mailbox, mem, ev, ran, unseen>>

\* A notification that is already pending is printed again.
Poll(c) ==
    /\ at[c] = "poll"
    /\ \/ /\ st.pending # NoEpoch
          /\ Return(c, [kind |-> "event", epoch |-> st.pending, note |-> st.note])
       \/ /\ st.pending = NoEpoch
          /\ Read(c, "inspect")
    /\ UNCHANGED <<st, docker, script, mailbox, ran, unseen>>

\* The container holds a training process, computing or paused.
Live == container \in {"running", "paused"}

\* docker_status, then the budget test on the copy of state.json.  A docker
\* inspect that fails, for whatever reason, is read as "missing".
Inspect(c) ==
    /\ at[c] = "inspect"
    /\ \/ /\ container \in {"exited", "missing"}
          /\ Write([mem[c] EXCEPT
                      !.active = Metered(mem[c]), !.lap = Off,
                      !.status = IF container = "exited" /\ exitCode = 0
                                 THEN "completed" ELSE "failed"])
          /\ Return(c, Say("finished"))
          /\ UNCHANGED unseen
       \/ /\ "inspect" \in Faults
          /\ Write([mem[c] EXCEPT !.active = Metered(mem[c]), !.lap = Off,
                                  !.status = "failed"])
          /\ Return(c, Say("finished"))
          /\ unseen' = (unseen \/ Live)
       \/ /\ container \notin {"exited", "missing"}
          /\ Continue(c, IF Metered(mem[c]) >= Budget THEN "remove" ELSE "scan")
          /\ UNCHANGED <<st, unseen>>
    /\ UNCHANGED <<docker, script, mailbox, ran>>

\* docker rm --force with check=False: a failure goes unnoticed.
ForceRemove ==
    \/ /\ container' = "missing"
       /\ script' = [script EXCEPT !.pc = "gone"]
       /\ UNCHANGED unseen
    \/ /\ "rm" \in Faults
       /\ unseen' = (unseen \/ Live)
       /\ UNCHANGED <<container, script>>

RemoveExpired(c) ==
    /\ at[c] = "remove"
    /\ ForceRemove
    /\ Continue(c, "expire")
    /\ UNCHANGED <<st, exitCode, mailbox, ran>>

Expire(c) ==
    /\ at[c] = "expire"
    /\ Write([mem[c] EXCEPT !.active = Metered(mem[c]), !.lap = Off,
                            !.status = "budget_exhausted"])
    /\ Return(c, Say("budget"))
    /\ UNCHANGED <<docker, script, mailbox, ran, unseen>>

\* The event files are visited in the order of their names.
Unsettled(s) == {e \in events : e <= SixDigits /\ e > s.last}

Scan(c) ==
    /\ at[c] = "scan"
    /\ \/ /\ Unsettled(mem[c]) = {}
          /\ Continue(c, "sleep")
       \/ \E e \in Unsettled(mem[c]) :
             /\ \A f \in Unsettled(mem[c]) : e <= f
             /\ IF flaw[e] = "event"
                THEN Return(c, Say("error"))
                ELSE /\ Goto(c, "pause")
                     /\ ev' = [ev EXCEPT ![c] = e]
                     /\ UNCHANGED <<mem, note, caller, reply>>
    /\ UNCHANGED <<st, docker, script, mailbox, ran, unseen>>

-----------------------------------------------------------------------------
(* process_event: pause, meter, stage, evaluate, record, publish.          *)

\* docker pause fails unless the container is running.
Pause(c) ==
    /\ at[c] = "pause"
    /\ \/ /\ container = "running"
          /\ container' = "paused"
          /\ Continue(c, "meter")
       \/ /\ container # "running" \/ "docker" \in Faults
          /\ Return(c, Say("error"))
          /\ UNCHANGED container
    /\ UNCHANGED <<st, exitCode, script, mailbox, ran, unseen>>

\* Variant: the metered state is not saved.
MeterUnsaved(c) ==
    /\ at[c] = "meter"
    /\ mem' = [mem EXCEPT ![c].active = Metered(mem[c]), ![c].lap = Off,
                          ![c].status = "paused"]
    /\ Goto(c, "stage")
    /\ UNCHANGED <<st, docker, script, mailbox, ev, note, caller, reply, ran, unseen>>

\* Without a running lap (the job was stopped, its container survived) the
\* subtraction from active_started_at = None raises.
Meter(c) ==
    LET s == [mem[c] EXCEPT !.active = Metered(mem[c]), !.lap = Off,
                            !.status = "paused"]
    IN  /\ at[c] = "meter"
        /\ \/ /\ mem[c].lap # Off
              /\ Write(s)
              /\ mem' = [mem EXCEPT ![c] = s]
              /\ Goto(c, "stage")
              /\ UNCHANGED <<ev, note, caller, reply>>
           \/ /\ mem[c].lap = Off
              /\ Return(c, Say("error"))
              /\ UNCHANGED st
        /\ UNCHANGED <<docker, script, mailbox, ran, unseen>>

\* mkdir(exist_ok=False), then the copies that a bad artifact makes fail.
Stage(c) ==
    /\ at[c] = "stage"
    /\ staged' = staged \cup {ev[c]}
    /\ IF ev[c] \in staged \/ flaw[ev[c]] = "artifact"
       THEN Return(c, Say("error"))
       ELSE Continue(c, "evaluate")
    /\ UNCHANGED <<st, docker, script, events, flaw, decisions, results, ran, unseen>>

Outcomes(m) == IF m = "local" THEN {"complete", "failed"} ELSE {"staged"}

\* Variant: the notification is published before its result file is written.
EvaluateUnrecorded(c) ==
    /\ at[c] = "evaluate"
    /\ \E m \in Modes : \E n \in Outcomes(m) :
          note' = [note EXCEPT ![c] = n]
    /\ Goto(c, "publish")
    /\ UNCHANGED <<st, docker, script, mailbox, mem, ev, caller, reply, ran, unseen>>

\* The evaluator, or nothing when the stage is to be evaluated elsewhere.
Evaluate(c) ==
    /\ at[c] = "evaluate"
    /\ \E m \in Modes : \E n \in Outcomes(m) :
          note' = [note EXCEPT ![c] = n]
    /\ Goto(c, "result")
    /\ UNCHANGED <<st, docker, script, mailbox, mem, ev, caller, reply, ran, unseen>>

WriteResult(c) ==
    /\ \/ at[c] = "result" /\ Continue(c, "publish")
       \/ at[c] = "r_result" /\ Continue(c, "r_write")
    /\ results' = [results EXCEPT ![ev[c]] = note[c]]
    /\ UNCHANGED <<st, docker, script, events, flaw, decisions, staged, ran, unseen>>

Publish(c) ==
    /\ at[c] = "publish"
    /\ Write([mem[c] EXCEPT !.pending = ev[c], !.note = note[c],
                            !.status = "awaiting_decision"])
    /\ Return(c, [kind |-> "event", epoch |-> ev[c], note |-> note[c]])
    /\ UNCHANGED <<docker, script, mailbox, ran, unseen>>

-----------------------------------------------------------------------------
(* record-evaluation: the trusted evaluation of a stage arrives by SSH.    *)

Record(c) ==
    /\ "stage-only" \in Modes
    /\ Known
    /\ Begin(c, "r_read")
    /\ \E e \in Epochs : ev' = [ev EXCEPT ![c] = e]
    /\ UNCHANGED <<st, docker, script, mailbox, mem, ran, unseen>>

\* Variant: an evaluation that was already recorded is replaced.
RecordReadAgain(c) ==
    /\ at[c] = "r_read"
    /\ \/ /\ st.pending # ev[c]
          /\ Return(c, Say("error"))
       \/ /\ st.pending = ev[c]
          /\ Goto(c, "r_result")
          /\ mem' = [mem EXCEPT ![c] = st]
          /\ \E n \in {"complete", "failed"} : note' = [note EXCEPT ![c] = n]
          /\ UNCHANGED <<ev, caller, reply>>
    /\ UNCHANGED <<st, docker, script, mailbox, ran, unseen>>

RecordRead(c) ==
    /\ at[c] = "r_read"
    /\ \/ /\ st.pending # ev[c]
          /\ Return(c, Say("error"))
       \/ /\ st.pending = ev[c]
          /\ st.note # "staged"
          /\ Return(c, [kind |-> "event", epoch |-> ev[c], note |-> st.note])
       \/ /\ st.pending = ev[c]
          /\ st.note = "staged"
          /\ Goto(c, "r_result")
          /\ mem' = [mem EXCEPT ![c] = st]
          /\ \E n \in {"complete", "failed"} : note' = [note EXCEPT ![c] = n]
          /\ UNCHANGED <<ev, caller, reply>>
    /\ UNCHANGED <<st, docker, script, mailbox, ran, unseen>>

RecordWrite(c) ==
    /\ at[c] = "r_write"
    /\ Write([mem[c] EXCEPT !.note = note[c]])
    /\ Return(c, [kind |-> "event", epoch |-> ev[c], note |-> note[c]])
    /\ UNCHANGED <<docker, script, mailbox, ran, unseen>>

-----------------------------------------------------------------------------
(* continue: decision file, unpause, state.json.                           *)

Resume(c) ==
    /\ Known
    /\ Begin(c, "c_read")
    /\ \E e \in Epochs : ev' = [ev EXCEPT ![c] = e]
    /\ UNCHANGED <<st, docker, script, mailbox, mem, ran, unseen>>

ResumeRead(c) ==
    /\ at[c] = "c_read"
    /\ IF st.pending = ev[c]
       THEN Read(c, "c_decide")
       ELSE Return(c, Say("error"))
    /\ UNCHANGED <<st, docker, script, mailbox, ran, unseen>>

\* Variant: continue answers the previous event.
DecideLast(c) ==
    /\ \/ /\ at[c] = "c_decide"
          /\ decisions' = [e \in Epochs |-> IF e = mem[c].last THEN "continue"
                                           ELSE decisions[e]]
          /\ Continue(c, "c_unpause")
       \/ /\ at[c] = "s_decide"
          /\ decisions' = [decisions EXCEPT ![mem[c].pending] = "stop"]
          /\ Continue(c, "s_unpause")
    /\ UNCHANGED <<st, docker, script, events, flaw, staged, results, ran, unseen>>

Decide(c) ==
    /\ \/ /\ at[c] = "c_decide"
          /\ decisions' = [decisions EXCEPT ![mem[c].pending] = "continue"]
          /\ Continue(c, "c_unpause")
       \/ /\ at[c] = "s_decide"
          /\ decisions' = [decisions EXCEPT ![mem[c].pending] = "stop"]
          /\ Continue(c, "s_unpause")
    /\ UNCHANGED <<st, docker, script, events, flaw, staged, results, ran, unseen>>

\* docker unpause fails unless the container is paused; stop ignores that.
Unpause(c) ==
    /\ \/ /\ container = "paused"
          /\ container' = "running"
          /\ \/ at[c] = "c_unpause" /\ Continue(c, "c_write")
             \/ at[c] = "s_unpause" /\ Continue(c, "s_remove")
       \/ /\ container # "paused" \/ "docker" \in Faults
          /\ UNCHANGED container
          /\ \/ at[c] = "c_unpause" /\ Return(c, Say("error"))
             \/ at[c] = "s_unpause" /\ Continue(c, "s_remove")
    /\ UNCHANGED <<st, exitCode, script, mailbox, ran, unseen>>

\* Variant: continue does not restart the meter.
ResumeWriteUnmetered(c) ==
    /\ at[c] = "c_write"
    /\ Write([mem[c] EXCEPT !.last = mem[c].pending, !.pending = NoEpoch,
                            !.note = "none", !.status = "running"])
    /\ Return(c, Say("ok"))
    /\ UNCHANGED <<docker, script, mailbox, ran, unseen>>

ResumeWrite(c) ==
    /\ at[c] = "c_write"
    /\ Write([mem[c] EXCEPT !.last = mem[c].pending, !.pending = NoEpoch,
                            !.note = "none", !.status = "running", !.lap = 0])
    /\ Return(c, Say("ok"))
    /\ UNCHANGED <<docker, script, mailbox, ran, unseen>>

-----------------------------------------------------------------------------
(* stop: release a blocked script, remove the container, state.json.       *)

Stop(c) ==
    /\ Known
    /\ Begin(c, "s_read")
    /\ UNCHANGED <<st, docker, script, mailbox, mem, ev, ran, unseen>>

StopRead(c) ==
    /\ at[c] = "s_read"
    /\ Read(c, IF st.pending = NoEpoch THEN "s_remove" ELSE "s_decide")
    /\ UNCHANGED <<st, docker, script, mailbox, ran, unseen>>

\* Variant: the decision file alone is trusted to end the script.
StopWithoutRemove(c) ==
    /\ at[c] = "s_remove"
    /\ Continue(c, "s_write")
    /\ UNCHANGED <<st, docker, script, mailbox, ran, unseen>>

StopRemove(c) ==
    /\ at[c] = "s_remove"
    /\ ForceRemove
    /\ Continue(c, "s_write")
    /\ UNCHANGED <<st, exitCode, mailbox, ran>>

\* Variant: a stopped job does not remember its pending epoch.
StopWriteForgets(c) ==
    /\ at[c] = "s_write"
    /\ Write([mem[c] EXCEPT !.pending = NoEpoch, !.note = "none",
                !.active = Metered(mem[c]), !.lap = Off, !.status = "stopped"])
    /\ Return(c, Say("ok"))
    /\ UNCHANGED <<docker, script, mailbox, ran, unseen>>

StopWrite(c) ==
    /\ at[c] = "s_write"
    /\ Write([mem[c] EXCEPT
                !.last = IF mem[c].pending > @ THEN mem[c].pending ELSE @,
                !.pending = NoEpoch, !.note = "none",
                !.active = Metered(mem[c]), !.lap = Off, !.status = "stopped"])
    /\ Return(c, Say("ok"))
    /\ UNCHANGED <<docker, script, mailbox, ran, unseen>>

-----------------------------------------------------------------------------
(* The caller's timeouts.                                                  *)

\* subprocess.run(timeout=...) kills the command wherever it is.
Kill(c) ==
    /\ "kill" \in Faults
    /\ at[c] # "idle"
    /\ Return(c, Say("error"))
    /\ UNCHANGED <<st, docker, script, mailbox, ran, unseen>>

\* Killing the ssh client leaves the remote command running, unattended.
Detach ==
    /\ "detach" \in Faults
    /\ caller # NoCaller
    /\ caller' = NoCaller
    /\ reply' = Say("error")
    /\ UNCHANGED <<st, docker, script, mailbox, at, mem, ev, note, ran, unseen>>

-----------------------------------------------------------------------------
(* The training script, through the SDK.                                   *)

\* epoch_end publishes an increasing epoch and waits for its decision.
EpochEnd ==
    /\ container = "running"
    /\ script.pc = "compute"
    /\ \E e \in Epochs :
          /\ e > script.last
          /\ events' = events \cup {e}
          /\ \E f \in {"none"} \cup ({"artifact", "event"} \cap Faults) :
                flaw' = [flaw EXCEPT ![e] = f]
          /\ script' = [script EXCEPT !.pc = "blocked", !.epoch = e]
    /\ UNCHANGED <<st, docker, decisions, staged, results, host, ran, unseen>>

ReadDecision ==
    /\ container = "running"
    /\ script.pc = "blocked"
    /\ decisions[script.epoch] # "none"
    /\ script' = [script EXCEPT !.pc = "compute", !.last = script.epoch]
    /\ UNCHANGED <<st, docker, mailbox, host, ran, unseen>>

\* The script returns, raises or is killed; a paused container needs "die".
Exit ==
    /\ \/ container = "running"
       \/ container = "paused" /\ "die" \in Faults
    /\ container' = "exited"
    /\ \/ exitCode' = 1
       \/ exitCode' = 0 /\ container = "running" /\ script.pc = "compute"
    /\ script' = [script EXCEPT !.pc = "gone"]
    /\ UNCHANGED <<st, mailbox, host, ran, unseen>>

\* One poll interval.  A Docker call or a file write is shorter than that; a
\* sleep, an evaluation and the outer loop between two commands are not.
Tick ==
    /\ \A c \in Ctl : at[c] \in {"idle", "sleep", "evaluate"}
    /\ at' = [c \in Ctl |-> IF at[c] = "sleep" THEN "poll" ELSE at[c]]
    /\ st' = Age(st)
    /\ mem' = [c \in Ctl |-> Age(mem[c])]
    /\ ran' = IF container = "running" THEN Plus(ran, 1) ELSE ran
    /\ UNCHANGED <<docker, script, mailbox, ev, note, caller, reply, unseen>>

-----------------------------------------------------------------------------
Call(c) == Start(c) \/ Await(c) \/ Record(c) \/ Resume(c) \/ Stop(c)

Step(c) ==
    \/ DockerRun(c) \/ StartWrite(c)
    \/ Poll(c) \/ Inspect(c) \/ RemoveExpired(c) \/ Expire(c) \/ Scan(c)
    \/ Pause(c) \/ Meter(c) \/ Stage(c) \/ Evaluate(c) \/ WriteResult(c)
    \/ Publish(c)
    \/ RecordRead(c) \/ RecordWrite(c)
    \/ ResumeRead(c) \/ Decide(c) \/ Unpause(c) \/ ResumeWrite(c)
    \/ StopRead(c) \/ StopRemove(c) \/ StopWrite(c)

Script == EpochEnd \/ ReadDecision \/ Exit

Next == (\E c \in Ctl : Call(c) \/ Step(c) \/ Kill(c)) \/ Detach \/ Script \/ Tick

Spec == Init /\ [][Next]_vars

\* A command that was started runs, the SDK keeps polling, and time passes even
\* if the caller issues commands without end (strong fairness of Tick).
Fairness ==
    /\ \A c \in Ctl : WF_vars(Step(c))
    /\ SF_vars(Tick)
    /\ WF_vars(ReadDecision)

FairSpec == Spec /\ Fairness
-----------------------------------------------------------------------------
(* Properties.                                                             *)

Quiet == \A c \in Ctl : at[c] = "idle"

\* The files, the container and the script; the controller processes.
JobOK ==
    /\ st \in StateFile
    /\ container \in {"missing", "running", "paused", "exited"}
    /\ exitCode \in {0, 1}
    /\ script \in [pc: {"compute", "blocked", "gone"},
                   epoch: Epochs \cup {NoEpoch}, last: Epochs \cup {NoEpoch}]
    /\ events \subseteq Epochs /\ staged \subseteq Epochs
    /\ flaw \in [Epochs -> {"none", "artifact", "event"}]
    /\ decisions \in [Epochs -> {"none", "continue", "stop"}]
    /\ results \in [Epochs -> Notes]
    /\ ran \in Seconds
    /\ unseen \in BOOLEAN
HostOK ==
    /\ at \in [Ctl -> Points]
    /\ mem \in [Ctl -> StateFile]
    /\ ev \in [Ctl -> Epochs \cup {NoEpoch}]
    /\ note \in [Ctl -> Notes]
    /\ caller \in Ctl \cup {NoCaller}
    /\ reply \in Replies
\* Every variable stays in the range the code gives it; in particular no
\* command ever writes a negative or a missing active_seconds.
TypeOK == JobOK /\ HostOK

\* A notification that a state file holds pending can be rebuilt from disk: its
\* stage is frozen and an outcome of its evaluation is recorded.
Backed(s) == s.pending # NoEpoch => s.pending \in staged /\ results[s.pending] # "none"

\* The script is never answered about an epoch that was not staged and whose
\* outcome was not recorded first.
DecisionAfterResult ==
    \A e \in Epochs : decisions[e] # "none" => e \in staged /\ results[e] # "none"

\* However commands overlap and overwrite state.json, a command cut off from
\* its caller included, what state.json announces and what the script was
\* answered rests on a stage and a result that are on disk: a write of an old
\* copy never brings back an epoch whose files are missing.
BackedWord == Backed(st) /\ DecisionAfterResult

\* What a notification or an answer says is on disk before it is given: with one
\* command at a time, the result file also carries the outcome announced, even
\* when the command that produced it is killed halfway.
DiskBeforeWord ==
    /\ BackedWord
    /\ st.pending # NoEpoch /\ st.note # "staged" => results[st.pending] = st.note

\* docker/train/README.md: an epoch notification stands for a live job paused
\* inside epoch_end for that very epoch.
PendingIsPaused ==
    Quiet /\ st.pending # NoEpoch =>
        /\ container = "paused"
        /\ script.pc = "blocked"
        /\ script.epoch = st.pending

\* Between commands the meter of a job whose container exists shows exactly
\* the time the container ran: nothing of the evaluation or of the wait for a
\* decision is billed, nothing of the training is missed.
MeterExact ==
    Quiet /\ container \in {"running", "paused"} /\ st.status \notin Ended =>
        Metered(st) = ran

\* An await goes to sleep only while the container has really run for less
\* than its budget, across all pauses and resumptions, unless the job was
\* recorded as ended before, by a docker rm or inspect nobody checked.
BudgetEnforced ==
    \A c \in Ctl : at[c] = "sleep" /\ ~unseen => ran < Budget

\* The time a job has computed is metered exactly and ends at its budget.
TimeMetered == MeterExact /\ BudgetEnforced

\* A job that ended stays ended: no later command revives it, not even when its
\* container survived a docker rm that failed.
EndedStaysEnded == [][st.status \in Ended => st'.status \in Ended]_st

\* record-evaluation is idempotent: the outcome of a pending notification is
\* never replaced, though the record is sent again after a lost answer.
OutcomeFixed ==
    [][st.note \in {"complete", "failed"} /\ st'.pending = st.pending
         => st'.note = st.note]_st

\* What state.json records as final is final: an end, and an outcome.
SettledForGood == EndedStaysEnded /\ OutcomeFixed

\* What a command knows of its own local variables, whatever the others do.
\* An await works on a job without pending notification, and on an epoch later
\* than the last; continue and record work on the pending epoch itself.
InFlightOf(c) ==
    /\ at[c] \in {"pause", "meter", "stage", "evaluate", "result", "publish"} =>
          ev[c] \in Epochs /\ ev[c] > mem[c].last
    /\ at[c] \in {"launch", "launched", "unlaunched", "inspect", "remove", "expire",
                  "scan", "pause", "meter", "stage", "evaluate", "result",
                  "publish"} =>
          mem[c].pending = NoEpoch
    /\ at[c] \in {"c_read", "r_read"} => ev[c] \in Epochs
    /\ at[c] \in {"c_decide", "c_unpause", "c_write", "r_result", "r_write"} =>
          ev[c] \in Epochs /\ mem[c].pending = ev[c]
    /\ at[c] \in {"s_decide", "s_unpause"} => mem[c].pending # NoEpoch
InFlight == \A c \in Ctl : InFlightOf(c)

\* Without detached commands, the caller's command is the only one.
OneCommand == \A c \in Ctl : at[c] # "idle" => caller = c

\* The epoch that awaits its decision is later than every settled one.
PendingIsLater ==
    /\ st.pending # NoEpoch => st.pending > st.last
    /\ st.status = "absent" => st.pending = NoEpoch /\ st.last = NoEpoch

\* The job refines the handshake its caller relies on.
Handshake == INSTANCE EpochHandshake
                WITH None <- NoEpoch, settled <- st.last, offered <- st.pending
RefinesHandshake == Handshake!Spec

\* await always comes back: with an event, an end, an exhausted budget or an
\* error, even if the script never calls epoch_end again.  The exception is an
\* await of a job that lives on after a docker rm or inspect nobody checked: its
\* meter is off, so no budget ends it.
Awaiting == {"poll", "inspect", "remove", "expire", "scan", "sleep", "pause",
             "meter", "stage", "evaluate", "result", "publish"}
AwaitReturns ==
    \A c \in Ctl : at[c] \in Awaiting ~> at[c] \notin Awaiting \/ unseen

\* A script whose epoch was settled leaves epoch_end (or its container dies).
Waiting(e) == script.pc = "blocked" /\ script.epoch = e
SettledWakesScript ==
    \A e \in Epochs :
        (Waiting(e) /\ container = "running" /\ st.last = e) ~> ~Waiting(e)

\* docs/outer-loop.md: train_stop releases the compute; and a job that ended in
\* any other way has no container that computes.
EndedReleases == st.status \in Ended => ~Live

\* Between commands the container is what state.json says of it, unless a
\* docker rm or a docker inspect failed on it unnoticed; not even then is a
\* notification about a container that is not paused inside its epoch.
ContainerAsRecorded == PendingIsPaused /\ (EndedReleases \/ unseen)

\* README.md: the controller meters active wall time.
RunningIsMetered == Quiet /\ container = "running" => st.lap # Off

=============================================================================
