---------------------------- MODULE ToolRuntime ----------------------------
(***************************************************************************)
(* The trusted tool runtime of one run, odbench_outer/tools.py: training   *)
(* jobs, the hidden-set evaluation quota, the training-time budget, the    *)
(* best candidate and the submission.                                      *)
(*                                                                         *)
(* Tools are called one at a time.  A tool call is a sequence of trusted   *)
(* commands (docker/trainer, docker/evaluator), each of which may fail,    *)
(* and each of which may have taken effect although it is reported failed; *)
(* KeyboardInterrupt may end the call between any two of them.  One step   *)
(* of the model is one such command, or the bookkeeping that follows it.   *)
(*                                                                         *)
(*   evaluation_count .. submitted                                         *)
(*              the attributes of ToolRuntime of the same names            *)
(*   call       the tool call in progress: control point, job, event and   *)
(*              the score a command has just returned                      *)
(*   phase      "agent" while the model may call tools, "ending" once      *)
(*              AgentLoop.run has left its loop, "closed" after close()    *)
(*   job        the training jobs as the controller has them               *)
(*   attempts, finals, shown                                               *)
(*              history: evaluator attempts made, slots reserved for a     *)
(*              submission, scores returned to the model                   *)
(*                                                                         *)
(* The jobs abstract TrainJob: a job is running, paused at an event that   *)
(* awaits its decision, stuck (paused, its event never published), adrift  *)
(* (unpaused by a continue or stop that was killed before it recorded so), *)
(* exited without anybody having noticed, or ended.  It is left behind if  *)
(* the command that started it, or the last one that should have stopped   *)
(* it, was reported to have failed; it is loose if the controller recorded *)
(* its end although the docker rm of its container failed, or because a    *)
(* docker inspect of it did, which no command reports.                     *)
(***************************************************************************)
EXTENDS Integers, FiniteSets, Functions

CONSTANTS
    Jobs, NoJob,            \* job ids; bound: at most one start each
    MaxEvent,               \* bound: events of a job are numbered 1..MaxEvent
    Scores,                 \* values of the objective metric
    max_evaluations, max_train_starts,
    max_train_job_seconds, max_total_train_seconds,
    Slack,                  \* bound: what a job may overrun while it is awaited
    Horizon,                \* bound: no job runs longer than that
    Hardware,               \* the task has a physical hardware target
    Faults

FaultKinds == {"lost", "await", "adrift", "stop", "unseen", "copy", "interrupt"}

ASSUME ToolRuntimeAssumption ==
    /\ NoJob \notin Jobs
    /\ IsFiniteSet(Jobs)
    /\ MaxEvent \in Nat
    /\ Scores \subseteq Nat
    /\ max_evaluations \in Nat \ {0}
    /\ max_train_starts \in Nat \ {0}
    /\ max_train_job_seconds \in Nat \ {0}
    /\ max_total_train_seconds \in Nat \ {0}
    /\ Slack \in Nat
    /\ Horizon \in Nat
    /\ max_train_job_seconds + Slack <= Horizon
    /\ Hardware \in BOOLEAN
    /\ Faults \subseteq FaultKinds

VARIABLES
    evaluation_count, train_start_count, training_active_seconds,
    job_active_seconds, active_jobs, pending_events, best_candidate, submitted,
    call, phase, job, attempts, finals, shown

training == <<train_start_count, training_active_seconds, job_active_seconds,
              active_jobs, pending_events>>
quota    == <<evaluation_count, attempts, finals>>
results  == <<best_candidate, submitted, shown>>
vars     == <<training, quota, results, call, phase, job>>

-----------------------------------------------------------------------------
Events  == 1 .. MaxEvent
NoEvent == 0
NoScore == -1       \* the evaluation failed, or has no finite objective metric

Points == {"idle", "start", "await", "event", "finished", "continue", "stop",
           "evaluate", "verify", "final", "judge", "closing"}

Idle == [at |-> "idle", job |-> NoJob, event |-> NoEvent, score |-> NoScore]
At(p, j, e) == [at |-> p, job |-> j, event |-> e, score |-> NoScore]

NewJob == [status |-> "none", event |-> NoEvent, settled |-> NoEvent,
           secs |-> 0, budget |-> 0, left |-> FALSE, loose |-> FALSE]

\* The container of the job exists or training time is still being metered.
Live(j) ==
    \/ job[j].status \in {"running", "paused", "stuck", "adrift", "exited"}
    \/ job[j].loose

Init ==
    /\ evaluation_count = 0 /\ train_start_count = 0
    /\ training_active_seconds = 0
    /\ job_active_seconds = [j \in Jobs |-> 0]
    /\ active_jobs = {}
    /\ pending_events = [j \in Jobs |-> NoEvent]
    /\ best_candidate = NoScore /\ submitted = FALSE
    /\ call = Idle /\ phase = "agent"
    /\ job = [j \in Jobs |-> NewJob]
    /\ attempts = 0 /\ finals = 0 /\ shown = {}

-----------------------------------------------------------------------------
(* Helpers of the runtime.                                                 *)

Free == phase = "agent" /\ call = Idle

\* Variant: the slot kept for the submission is not kept.
ReserveAny ==
    /\ evaluation_count < max_evaluations
    /\ evaluation_count' = evaluation_count + 1

\* _reserve_evaluation(final=False) and _release_evaluation_reservation.
Reserve ==
    /\ evaluation_count < max_evaluations - 1
    /\ evaluation_count' = evaluation_count + 1

Release == evaluation_count' = evaluation_count - 1

Remaining == max_total_train_seconds - training_active_seconds

\* _account_training: a job is charged what its metering grew by.
Account(j) ==
    LET old == job_active_seconds[j]
        new == IF job[j].secs > old THEN job[j].secs ELSE old
    IN  /\ job_active_seconds' = [job_active_seconds EXCEPT ![j] = new]
        /\ training_active_seconds' = training_active_seconds + (new - old)

\* _consider_candidate: strictly better candidates replace the best one.
Consider(s) ==
    /\ best_candidate' = IF s > best_candidate THEN s ELSE best_candidate
    /\ shown' = shown \cup ({s} \ {NoScore})

\* The job leaves the active-job slot.
Discard(j) ==
    /\ active_jobs' = active_jobs \ {j}
    /\ pending_events' = [pending_events EXCEPT ![j] = NoEvent]

-----------------------------------------------------------------------------
(* train_start.                                                            *)

\* Variant: the wall budget of a job ignores what earlier jobs used.
TrainStartUncapped ==
    /\ Free
    /\ active_jobs = {}
    /\ train_start_count < max_train_starts
    /\ Remaining >= 1
    /\ Reserve
    /\ \E j \in Jobs, b \in 1 .. max_train_job_seconds :
          /\ job[j].status = "none"
          /\ job' = [job EXCEPT ![j].budget = b]
          /\ call' = At("start", j, NoEvent)
    /\ UNCHANGED <<training, attempts, finals, results, phase>>

TrainStart ==
    /\ Free
    /\ active_jobs = {}
    /\ train_start_count < max_train_starts
    /\ Remaining >= 1
    /\ Reserve
    /\ \E j \in Jobs, b \in 1 .. max_train_job_seconds :
          /\ job[j].status = "none"
          /\ job' = [job EXCEPT ![j].budget = IF b < Remaining THEN b ELSE Remaining]
          /\ call' = At("start", j, NoEvent)
    /\ UNCHANGED <<training, attempts, finals, results, phase>>

\* The start command; one that is killed by its timeout may have launched.
StartCommand ==
    LET j == call.job IN
    /\ call.at = "start"
    /\ \/ /\ job' = [job EXCEPT ![j].status = "running"]
          /\ train_start_count' = train_start_count + 1
          /\ active_jobs' = active_jobs \cup {j}
          /\ call' = [call EXCEPT !.at = "await"]
          /\ UNCHANGED evaluation_count
       \/ /\ \/ job' = [job EXCEPT ![j].budget = 0]
             \/ /\ "lost" \in Faults
                /\ job' = [job EXCEPT ![j].status = "running", ![j].left = TRUE]
          /\ Release
          /\ call' = Idle
          /\ UNCHANGED <<train_start_count, active_jobs>>
    /\ UNCHANGED <<training_active_seconds, job_active_seconds, pending_events,
                   attempts, finals, results, phase>>

-----------------------------------------------------------------------------
(* The wait: what the controller may report of a running job.              *)

\* The next event is staged and evaluated, and the job left paused.  The wait
\* may still be reported failed: it was killed after it had published.
AwaitEvent ==
    LET j == call.job IN
    /\ call.at = "await"
    /\ \E e \in Events, s \in Scores \cup {NoScore} :
          /\ e > job[j].settled
          /\ \E t \in job[j].secs .. job[j].budget + Slack :
                job' = [job EXCEPT ![j].status = "paused", ![j].event = e,
                                   ![j].secs = t]
          /\ \/ call' = [call EXCEPT !.at = "event", !.event = e, !.score = s]
             \/ "await" \in Faults /\ call' = Idle
    /\ attempts' = attempts + 1
    /\ UNCHANGED <<training, evaluation_count, finals, results, phase>>

\* The container exited, or the budget was exhausted and the container removed;
\* or one of the two was recorded of a container that goes on.
AwaitEnd ==
    LET j == call.job IN
    /\ call.at = "await"
    /\ \E t \in job[j].secs .. job[j].budget + Slack, l \in BOOLEAN :
          /\ l => "unseen" \in Faults
          /\ job' = [job EXCEPT ![j].status = "ended", ![j].secs = t, ![j].loose = l]
    /\ call' = [call EXCEPT !.at = "finished"]
    /\ UNCHANGED <<training, quota, results, phase>>

\* The wait fails: the job goes on, or it was paused and its event could not be
\* staged, or the wait was killed while the evaluator ran.
AwaitFails ==
    LET j == call.job IN
    /\ "await" \in Faults
    /\ call.at = "await"
    /\ \E t \in job[j].secs .. job[j].budget + Slack :
          \/ /\ job' = [job EXCEPT ![j].secs = t]
             /\ UNCHANGED attempts
          \/ /\ job' = [job EXCEPT ![j].status = "stuck", ![j].secs = t]
             /\ attempts' \in {attempts, attempts + 1}
    /\ call' = Idle
    /\ UNCHANGED <<training, evaluation_count, finals, results, phase>>

\* The bookkeeping of train_start and train_continue after a terminal result.
DeliverEnd ==
    /\ call.at = "finished"
    /\ Account(call.job)
    /\ Release
    /\ Discard(call.job)
    /\ call' = Idle
    /\ UNCHANGED <<train_start_count, attempts, finals, results, phase, job>>

\* Variants: the previous event stays pending; an event whose evaluation failed
\* gives its slot back.
DeliverEventKeeps ==
    LET j == call.job IN
    /\ call.at = "event"
    /\ Account(j)
    /\ Consider(call.score)
    /\ pending_events' = IF pending_events[j] = NoEvent
                         THEN [pending_events EXCEPT ![j] = call.event]
                         ELSE pending_events
    /\ call' = Idle
    /\ UNCHANGED <<train_start_count, active_jobs, quota, submitted, job, phase>>

DeliverEventReleases ==
    LET j == call.job IN
    /\ call.at = "event"
    /\ Account(j)
    /\ Consider(call.score)
    /\ pending_events' = [pending_events EXCEPT ![j] = call.event]
    /\ IF call.score = NoScore THEN Release ELSE UNCHANGED evaluation_count
    /\ call' = Idle
    /\ UNCHANGED <<train_start_count, active_jobs, attempts, finals, submitted,
                   job, phase>>

\* And after an event: the stage is checked and copied into the sandbox, the
\* candidate considered, the event pending.  A stage that is refused fails the
\* call, a copy that fails ends the run.
DeliverEvent ==
    LET j == call.job IN
    /\ call.at = "event"
    /\ Account(j)
    /\ \/ /\ Consider(call.score)
          /\ pending_events' = [pending_events EXCEPT ![j] = call.event]
          /\ UNCHANGED phase
       \/ /\ "copy" \in Faults
          /\ phase' \in {phase, "ending"}
          /\ UNCHANGED <<best_candidate, shown, pending_events>>
    /\ call' = Idle
    /\ UNCHANGED <<train_start_count, active_jobs, quota, submitted, job>>

-----------------------------------------------------------------------------
(* train_continue and train_stop.                                          *)

TrainContinue ==
    /\ Free
    /\ \E j \in active_jobs, e \in Events :
          /\ pending_events[j] \in {NoEvent, e}
          /\ call' = At("continue", j, e)
    /\ Remaining >= 1
    /\ Reserve
    /\ UNCHANGED <<training, attempts, finals, results, phase, job>>

Resumed(j) == [job EXCEPT ![j].status = "running", ![j].event = NoEvent,
                          ![j].settled = job[j].event]

\* The controller refuses any event but the pending one.  A continue that fails
\* may have unpaused the container, and may have recorded that, too.
ContinueCommand ==
    LET j == call.job
        pending == job[j].status = "paused" /\ job[j].event = call.event
    IN
    /\ call.at = "continue"
    /\ \/ /\ pending
          /\ job' = Resumed(j)
          /\ call' = [call EXCEPT !.at = "await"]
          /\ UNCHANGED evaluation_count
       \/ /\ \/ UNCHANGED job
             \/ /\ "adrift" \in Faults
                /\ pending
                /\ job' \in {Resumed(j), [job EXCEPT ![j].status = "adrift"]}
          /\ Release
          /\ call' = Idle
    /\ UNCHANGED <<training, attempts, finals, results, phase>>

TrainStop ==
    /\ Free
    /\ \E j \in active_jobs : call' = At("stop", j, NoEvent)
    /\ UNCHANGED <<training, quota, results, phase, job>>

\* A stopped job; its container may have survived docker rm.
Stopped(j) ==
    LET rest == {FALSE, "unseen" \in Faults
                           /\ (job[j].status \in {"running", "paused", "stuck", "adrift"}
                                 \/ job[j].loose)}
    IN  {[job EXCEPT ![j].status = "ended", ![j].event = NoEvent, ![j].loose = l] : l \in rest}

\* A stop that was killed before it recorded the end may have unpaused the
\* container, or removed it.
CutShort(j) ==
    [job EXCEPT ![j].status = IF @ = "paused" THEN "adrift"
                              ELSE IF @ = "running" THEN "exited" ELSE @]

\* Variant: a stopped job is not charged.
StopCommandUncharged ==
    LET j == call.job IN
    /\ call.at = "stop"
    /\ job' \in Stopped(j)
    /\ Discard(j)
    /\ call' = Idle
    /\ UNCHANGED <<train_start_count, training_active_seconds, job_active_seconds,
                   quota, results, phase>>

StopCommand ==
    LET j == call.job IN
    /\ call.at = "stop"
    /\ \/ /\ job' \in Stopped(j)
          /\ Discard(j)
          /\ Account(j)
          /\ UNCHANGED train_start_count
       \/ /\ "stop" \in Faults
          /\ job' \in {job, CutShort(j)} \cup Stopped(j)
          /\ UNCHANGED training
    /\ call' = Idle
    /\ UNCHANGED <<quota, results, phase>>

-----------------------------------------------------------------------------
(* evaluate, submit and the automatic submission.                          *)

Evaluate ==
    /\ Free
    /\ Reserve
    /\ call' = At("evaluate", NoJob, NoEvent)
    /\ UNCHANGED <<training, attempts, finals, results, phase, job>>

\* A failed evaluator attempt consumes its slot.
EvaluateCommand ==
    /\ call.at = "evaluate"
    /\ attempts' = attempts + 1
    /\ \/ \E s \in Scores \cup {NoScore} : Consider(s)
       \/ UNCHANGED <<best_candidate, shown>>
    /\ call' = Idle
    /\ UNCHANGED <<training, evaluation_count, finals, submitted, phase, job>>

\* submit, and submit_best_candidate once the loop has ended by a limit.
Submit ==
    /\ Free
    /\ ~submitted
    /\ \/ UNCHANGED phase
       \/ best_candidate # NoScore /\ phase' = "ending"
    /\ call' = At("verify", NoJob, NoEvent)
    /\ UNCHANGED <<training, quota, results, job>>

\* The hardware gate comes before the reservation.
Verify ==
    /\ call.at = "verify"
    /\ call' \in {At("final", NoJob, NoEvent)} \cup (IF Hardware THEN {Idle} ELSE {})
    /\ UNCHANGED <<training, quota, results, phase, job>>

\* _reserve_evaluation(final=True).
ReserveFinal ==
    /\ call.at = "final"
    /\ \/ /\ evaluation_count < max_evaluations
          /\ evaluation_count' = evaluation_count + 1
          /\ finals' = finals + 1
          /\ call' = At("judge", NoJob, NoEvent)
       \/ /\ evaluation_count >= max_evaluations
          /\ call' = Idle
          /\ UNCHANGED <<evaluation_count, finals>>
    /\ UNCHANGED <<training, attempts, results, phase, job>>

\* The final evaluation; an accepted submission ends the run.
Judge ==
    /\ call.at = "judge"
    /\ attempts' = attempts + 1
    /\ \/ /\ submitted' = TRUE
          /\ phase' = "ending"
          /\ call' = At("closing", NoJob, NoEvent)
       \/ /\ call' = Idle
          /\ UNCHANGED <<submitted, phase>>
    /\ UNCHANGED <<training, evaluation_count, finals, best_candidate, shown, job>>

-----------------------------------------------------------------------------
(* The end of the run.                                                     *)

\* Variant: the run forgets its jobs without stopping them.
StopActiveJobsForgets ==
    /\ \/ call.at = "closing" /\ UNCHANGED phase
       \/ call = Idle /\ phase = "ending" /\ phase' = "closed"
    /\ active_jobs' = {}
    /\ call' = Idle
    /\ UNCHANGED <<train_start_count, training_active_seconds, job_active_seconds,
                   pending_events, quota, results, job>>

\* stop_active_jobs, of an accepted submission and of close(): a job leaves the
\* slot even if its stop fails.
StopActiveJobs ==
    /\ \/ call.at = "closing" /\ UNCHANGED phase
       \/ call = Idle /\ phase = "ending" /\ phase' = "closed"
    /\ \/ /\ active_jobs = {}
          /\ UNCHANGED <<job, training_active_seconds, job_active_seconds>>
       \/ \E j \in active_jobs :
             \/ job' \in Stopped(j) /\ Account(j)
             \/ /\ "stop" \in Faults
                /\ \/ job' \in Stopped(j)
                   \/ \E k \in {job, CutShort(j)} : job' = [k EXCEPT ![j].left = TRUE]
                /\ UNCHANGED <<training_active_seconds, job_active_seconds>>
    /\ active_jobs' = {}
    /\ call' = Idle
    /\ UNCHANGED <<train_start_count, pending_events, quota, results>>

\* The loop ends without a submission: a limit, no candidate, or an exception.
LeaveLoop ==
    /\ Free
    /\ phase' = "ending"
    /\ UNCHANGED <<training, quota, results, call, job>>

\* KeyboardInterrupt between two commands of a tool call.
Interrupt ==
    /\ "interrupt" \in Faults
    /\ call # Idle
    /\ call' = Idle
    /\ phase' = "ending"
    /\ UNCHANGED <<training, quota, results, job>>

-----------------------------------------------------------------------------
(* A job nobody waits for.                                                 *)

Awaited(j) == call.at = "await" /\ call.job = j

Elapse(j) ==
    /\ job[j].status \in {"running", "exited"}
    /\ ~Awaited(j)
    /\ job[j].secs < Horizon
    /\ job' = [job EXCEPT ![j].secs = @ + 1]
    /\ UNCHANGED <<training, quota, results, call, phase>>

ExitUnseen(j) ==
    /\ job[j].status = "running"
    /\ ~Awaited(j)
    /\ job' = [job EXCEPT ![j].status = "exited"]
    /\ UNCHANGED <<training, quota, results, call, phase>>

-----------------------------------------------------------------------------
Next ==
    \/ TrainStart \/ StartCommand
    \/ AwaitEvent \/ AwaitEnd \/ AwaitFails \/ DeliverEnd \/ DeliverEvent
    \/ TrainContinue \/ ContinueCommand \/ TrainStop \/ StopCommand
    \/ Evaluate \/ EvaluateCommand
    \/ Submit \/ Verify \/ ReserveFinal \/ Judge
    \/ StopActiveJobs \/ LeaveLoop \/ Interrupt
    \/ \E j \in Jobs : Elapse(j) \/ ExitUnseen(j)

Spec == Init /\ [][Next]_vars

-----------------------------------------------------------------------------
(* Properties.                                                             *)

JobRecord ==
    [status: {"none", "running", "paused", "stuck", "adrift", "exited", "ended"},
     event: Events \cup {NoEvent}, settled: Events \cup {NoEvent},
     secs: Nat, budget: 0 .. max_train_job_seconds, left: BOOLEAN, loose: BOOLEAN]

\* Every attribute has its type; the evaluation count stays within its limit
\* and at most one job occupies the active-job slot.
TypeOK ==
    /\ evaluation_count \in 0 .. max_evaluations
    /\ train_start_count \in 0 .. max_train_starts
    /\ training_active_seconds \in Nat
    /\ job_active_seconds \in [Jobs -> Nat]
    /\ active_jobs \in {{}} \cup {{j} : j \in Jobs}
    /\ pending_events \in [Jobs -> Events \cup {NoEvent}]
    /\ best_candidate \in Scores \cup {NoScore} /\ submitted \in BOOLEAN
    /\ call \in [at: Points, job: Jobs \cup {NoJob}, event: Events \cup {NoEvent},
                 score: Scores \cup {NoScore}]
    /\ phase \in {"agent", "ending", "closed"}
    /\ job \in [Jobs -> JobRecord]
    /\ attempts \in Nat /\ finals \in Nat /\ shown \subseteq Scores

\* docs/outer-loop.md, the hidden-set quota: the last slot is reserved for
\* submit, so until a submission has been evaluated one slot is left, whatever
\* the waits, the evaluators and the interrupts did.
FinalSlotKept == evaluation_count - finals <= max_evaluations - 1

\* Every hidden-set evaluation was reserved before it was made, and no slot
\* that was used is given back, across failed commands and interrupts.
Quota == INSTANCE EvaluationQuota
            WITH Limit <- max_evaluations, taken <- evaluation_count,
                 final <- finals, performed <- attempts
RefinesQuota == Quota!Spec

\* docs/outer-loop.md: between two tool calls the slots used are the evaluator
\* attempts made; a wait that brings no event has given its slot back.
SlotsAccounted == Free => evaluation_count = attempts

\* Between two tool calls, a job that still holds a container is in the
\* active-job slot, where train_start refuses another one and train_stop can
\* end it, and there is only one such job.  The exceptions are a job left by a
\* start that was reported failed, and one whose end was recorded although its
\* container goes on.
OneKnownJob ==
    Free => \A j \in Jobs : Live(j) => active_jobs = {j} \/ job[j].left \/ job[j].loose

\* docs/outer-loop.md: an epoch notification leaves the job paused at that
\* event; the model's next decision is about it.
EventAwaitsDecision ==
    Free => \A j \in active_jobs :
        /\ pending_events[j] # NoEvent
        /\ job[j].status = "paused"
        /\ job[j].event = pending_events[j]

\* A job that left the slot while tools may be called has been charged every
\* second it was metered, by whichever of the paths it left.
EverySecondCharged ==
    phase = "agent" =>
        \A j \in Jobs \ active_jobs :
            job[j].status = "ended" => job_active_seconds[j] = job[j].secs

\* The wall budget granted to a job fits what all the other jobs left of the
\* total.
GrantsFit ==
    \A j \in active_jobs :
        training_active_seconds - job_active_seconds[j] + job[j].budget
            <= max_total_train_seconds

\* No reservation of an evaluation or of training time exceeds what is left.
ReservationsFit == FinalSlotKept /\ GrantsFit

\* What all jobs of a run were metered for.
TotalSeconds == SumFunction([j \in Jobs |-> job[j].secs])

\* While every wait returns normally, the jobs of a run together overrun its
\* total training time by no more than the last of them its own budget.
TotalBounded == TotalSeconds <= max_total_train_seconds + Slack

\* The best candidate is the best of all scores the model was shown, whether
\* they came from epochs or from evaluate.
BestIsBest ==
    phase = "agent" =>
        /\ best_candidate \in shown \cup {NoScore}
        /\ \A s \in shown : s <= best_candidate

\* Between two tool calls the slots, the pending events and the best candidate
\* are what the calls made so far leave.
BooksHold == SlotsAccounted /\ EventAwaitsDecision /\ BestIsBest

\* Whichever way the run ends, interrupted in the middle of a wait included,
\* close() leaves no training container behind without an error about it, but
\* for one whose recorded end nobody checked.
ClosedReleases ==
    phase = "closed" => \A j \in Jobs : Live(j) => job[j].left \/ job[j].loose

\* No job is lost from sight, during the run or after it.
NoJobForgotten == OneKnownJob /\ ClosedReleases
=============================================================================
