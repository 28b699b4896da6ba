------------------------- MODULE ToolRuntimeProofs -------------------------
(***************************************************************************)
(* Theorems about ToolRuntime, for every quota, every budget, every set of *)
(* jobs and every set of faults; only BooksAreKept and TheTotalIsBounded   *)
(* assume that some of the faults do not happen.                           *)
(***************************************************************************)
EXTENDS ToolRuntime, SumTheorems, TLAPS

-----------------------------------------------------------------------------
(* The invariant.  Besides the types it says what the tool call in         *)
(* progress knows: whose job it is about, and that the slot it holds is    *)
(* one no evaluator attempt has used.                                      *)

CallRecord == [at: Points, job: Jobs \cup {NoJob}, event: Events \cup {NoEvent},
               score: Scores \cup {NoScore}]

\* Control points at which the call is about an active job.
OfActiveJob == {"await", "event", "finished", "continue", "stop"}

\* Control points at which the call holds a reserved slot.
HoldsSlot == {"start", "await", "finished", "continue", "evaluate", "judge"}

CallInv ==
    /\ call.at \in OfActiveJob => call.job \in active_jobs
    /\ call.at = "start" =>
          /\ call.job \in Jobs
          /\ active_jobs = {}
          /\ train_start_count < max_train_starts
          /\ job[call.job].budget <= Remaining

SlotInv ==
    /\ attempts <= evaluation_count
    /\ call.at \in HoldsSlot => attempts < evaluation_count
    /\ FinalSlotKept

Inv == TypeOK /\ CallInv /\ SlotInv /\ GrantsFit

-----------------------------------------------------------------------------
(* Helpers.                                                                *)

\* The call records the tools build.
LEMMA CallType ==
    /\ Idle \in CallRecord /\ Idle.at = "idle"
    /\ \A p \in Points, j \in Jobs \cup {NoJob}, e \in Events \cup {NoEvent} :
          /\ At(p, j, e) \in CallRecord
          /\ At(p, j, e).at = p
          /\ At(p, j, e).job = j
  BY DEF Idle, At, Points, CallRecord

\* Charging a job raises its own account and the total by the same amount.
LEMMA AccountAdds ==
    ASSUME training_active_seconds \in Nat, job_active_seconds \in [Jobs -> Nat],
           job \in [Jobs -> JobRecord], NEW j \in Jobs, Account(j)
    PROVE  /\ training_active_seconds' \in Nat
           /\ job_active_seconds' \in [Jobs -> Nat]
           /\ training_active_seconds' - job_active_seconds'[j]
                = training_active_seconds - job_active_seconds[j]
  <1>1. job[j].secs \in Nat /\ job_active_seconds[j] \in Nat
    BY DEF JobRecord
  <1> DEFINE n == IF job[j].secs > job_active_seconds[j] THEN job[j].secs
                  ELSE job_active_seconds[j]
  <1>2. /\ job_active_seconds' = [job_active_seconds EXCEPT ![j] = n]
        /\ training_active_seconds'
              = training_active_seconds + (n - job_active_seconds[j])
    BY DEF Account
  <1>3. n \in Nat /\ n >= job_active_seconds[j]
    BY <1>1
  <1> HIDE DEF n
  <1>4. job_active_seconds'[j] = n
    BY <1>2
  <1> QED BY <1>1, <1>2, <1>3, <1>4

\* What a stop, successful or cut short, leaves of the jobs: k is what it
\* makes of them, of which it changes no other job than j.
Spares(k, j) ==
    /\ k \in [Jobs -> JobRecord]
    /\ \A i \in Jobs : /\ k[i].secs = job[i].secs /\ k[i].left = job[i].left
                       /\ k[i].budget = job[i].budget
    /\ \A i \in Jobs \ {j} : k[i] = job[i]

LEMMA StopSpares ==
    ASSUME job \in [Jobs -> JobRecord], NEW j \in Jobs
    PROVE  /\ \A k \in Stopped(j) : Spares(k, j) /\ k[j].status = "ended"
           /\ Spares(job, j)
           /\ Spares(CutShort(j), j)
           /\ CutShort(j)[j].status
                 = IF job[j].status = "paused" THEN "adrift"
                   ELSE IF job[j].status = "running" THEN "exited" ELSE job[j].status
           /\ \A k \in [Jobs -> JobRecord] :
                 LET m == [k EXCEPT ![j].left = TRUE]
                 IN  /\ m \in [Jobs -> JobRecord]
                     /\ m[j].left /\ m[j].status = k[j].status
                     /\ \A i \in Jobs : m[i].secs = k[i].secs
                     /\ \A i \in Jobs \ {j} : m[i] = k[i]
  <1>1. ASSUME NEW l \in BOOLEAN
        PROVE  LET k == [job EXCEPT ![j].status = "ended", ![j].event = NoEvent, ![j].loose = l]
               IN  Spares(k, j) /\ k[j].status = "ended"
    BY DEF Spares, JobRecord
  <1>2. \A k \in Stopped(j) : Spares(k, j) /\ k[j].status = "ended"
    <2> TAKE k \in Stopped(j)
    <2>1. PICK l \in BOOLEAN :
             k = [job EXCEPT ![j].status = "ended", ![j].event = NoEvent, ![j].loose = l]
      BY DEF Stopped
    <2> QED BY <1>1, <2>1
  <1> DEFINE st == IF job[j].status = "paused" THEN "adrift"
                   ELSE IF job[j].status = "running" THEN "exited" ELSE job[j].status
  <1>3. CutShort(j) = [job EXCEPT ![j] = [job[j] EXCEPT !.status = st]]
    BY DEF CutShort
  <1>4. [job[j] EXCEPT !.status = st] \in JobRecord
    BY DEF JobRecord
  <1>5. Spares(CutShort(j), j) /\ CutShort(j)[j].status = st
    BY <1>3, <1>4 DEF Spares, JobRecord
  <1>6. Spares(job, j)
    BY DEF Spares
  <1>7. ASSUME NEW k \in [Jobs -> JobRecord]
        PROVE  LET m == [k EXCEPT ![j].left = TRUE]
               IN  /\ m \in [Jobs -> JobRecord]
                   /\ m[j].left /\ m[j].status = k[j].status
                   /\ \A i \in Jobs : m[i].secs = k[i].secs
                   /\ \A i \in Jobs \ {j} : m[i] = k[i]
    BY <1>7 DEF JobRecord
  <1> QED BY <1>2, <1>5, <1>6, <1>7

\* The initial state satisfies the invariant.
LEMMA InvInit == Init => Inv
  <1> SUFFICES ASSUME Init PROVE Inv
    OBVIOUS
  <1> USE ToolRuntimeAssumption
  <1>1. NewJob \in JobRecord
    BY DEF NewJob, JobRecord
  <1>2. TypeOK
    <2>1. call \in CallRecord /\ job \in [Jobs -> JobRecord]
      BY <1>1, CallType DEF Init
    <2>2. /\ evaluation_count \in 0 .. max_evaluations
          /\ train_start_count \in 0 .. max_train_starts
          /\ active_jobs \in {{}} \cup {{j} : j \in Jobs}
          /\ shown \subseteq Scores
      BY DEF Init
    <2> QED BY <2>1, <2>2 DEF Init, TypeOK, CallRecord
  <1>3. CallInv /\ SlotInv /\ GrantsFit
    BY CallType DEF Init, CallInv, SlotInv, GrantsFit, FinalSlotKept, OfActiveJob,
                    HoldsSlot
  <1> QED BY <1>2, <1>3 DEF Inv

-----------------------------------------------------------------------------
(* Types.                                                                  *)

\* Starting a job, and waiting for it.
LEMMA TypeTraining ==
    ASSUME Inv,
           TrainStart \/ StartCommand \/ AwaitEvent \/ AwaitEnd \/ AwaitFails
             \/ DeliverEnd \/ DeliverEvent
    PROVE  TypeOK'
  <1> USE ToolRuntimeAssumption DEF Inv
  <1>0. /\ call \in CallRecord /\ active_jobs \subseteq Jobs
        /\ attempts \in Nat /\ attempts >= 0 /\ job \in [Jobs -> JobRecord]
    BY DEF TypeOK, CallRecord
  <1>1. CASE TrainStart
    <2>1. PICK j \in Jobs, b \in 1 .. max_train_job_seconds :
             /\ job' = [job EXCEPT ![j].budget = IF b < Remaining THEN b ELSE Remaining]
             /\ call' = At("start", j, NoEvent)
      BY <1>1 DEF TrainStart
    <2>2. (IF b < Remaining THEN b ELSE Remaining) \in 0 .. max_train_job_seconds
      BY <1>1 DEF TrainStart, Remaining, TypeOK
    <2>3. job' \in [Jobs -> JobRecord]
      BY <2>1, <2>2 DEF TypeOK, JobRecord
    <2>4. call' \in CallRecord
      BY <2>1, CallType DEF Points
    <2> QED BY <1>1, <2>3, <2>4
            DEF TypeOK, CallRecord, TrainStart, Reserve, training, results
  <1>2. CASE StartCommand
    <2>1. call.job \in Jobs /\ active_jobs = {} /\ evaluation_count > attempts
          /\ train_start_count < max_train_starts
      BY <1>2 DEF StartCommand, CallInv, SlotInv, HoldsSlot
    <2>2. job' \in [Jobs -> JobRecord]
      BY <1>2, <2>1 DEF StartCommand, TypeOK, JobRecord
    <2>3. call' \in CallRecord
      BY <1>0, <1>2, CallType DEF StartCommand, CallRecord, Points
    <2> QED BY <1>2, <2>1, <2>2, <2>3
            DEF TypeOK, CallRecord, StartCommand, Release, results
  <1>3. CASE AwaitEvent
    <2>1. call.job \in Jobs
      BY <1>0, <1>3 DEF AwaitEvent, CallInv, OfActiveJob
    <2>2. PICK e \in Events, s \in Scores \cup {NoScore} :
             /\ \E t \in job[call.job].secs .. job[call.job].budget + Slack :
                   job' = [job EXCEPT ![call.job].status = "paused",
                              ![call.job].event = e, ![call.job].secs = t]
             /\ \/ call' = [call EXCEPT !.at = "event", !.event = e, !.score = s]
                \/ call' = Idle
      BY <1>3 DEF AwaitEvent
    <2>3. PICK t \in job[call.job].secs .. job[call.job].budget + Slack :
             job' = [job EXCEPT ![call.job].status = "paused",
                        ![call.job].event = e, ![call.job].secs = t]
      BY <2>2
    <2>4. t \in Nat
      BY <2>1, <2>3 DEF TypeOK, JobRecord
    <2>5. job' \in [Jobs -> JobRecord]
      BY <2>1, <2>3, <2>4 DEF TypeOK, JobRecord
    <2>6. call' \in CallRecord
      <3>1. CASE call' = Idle
        BY <3>1, CallType
      <3>2. CASE call' = [call EXCEPT !.at = "event", !.event = e, !.score = s]
        BY <1>0, <3>2 DEF CallRecord, Points
      <3> QED BY <2>2, <3>1, <3>2
    <2>7. attempts' \in Nat
      <3>1. attempts' = attempts + 1
        BY <1>3 DEF AwaitEvent
      <3> QED BY <1>0, <3>1
    <2> QED BY <1>3, <2>7, <2>5, <2>6 DEF TypeOK, CallRecord, AwaitEvent, training, results
  <1>4. CASE AwaitEnd
    <2>1. call.job \in Jobs
      BY <1>0, <1>4 DEF AwaitEnd, CallInv, OfActiveJob
    <2>2. PICK t \in job[call.job].secs .. job[call.job].budget + Slack, l \in BOOLEAN :
             job' = [job EXCEPT ![call.job].status = "ended", ![call.job].secs = t,
                                ![call.job].loose = l]
      BY <1>4 DEF AwaitEnd
    <2>3. t \in Nat
      BY <2>1, <2>2 DEF TypeOK, JobRecord
    <2>4. job' \in [Jobs -> JobRecord]
      BY <2>1, <2>2, <2>3 DEF TypeOK, JobRecord
    <2>5. call' \in CallRecord
      BY <1>0, <1>4 DEF AwaitEnd, CallRecord, Points
    <2> QED BY <1>4, <2>4, <2>5
            DEF TypeOK, CallRecord, AwaitEnd, training, quota, results
  <1>5. CASE AwaitFails
    <2>1. call.job \in Jobs
      BY <1>0, <1>5 DEF AwaitFails, CallInv, OfActiveJob
    <2>2. PICK t \in job[call.job].secs .. job[call.job].budget + Slack :
             \/ job' = [job EXCEPT ![call.job].secs = t]
             \/ job' = [job EXCEPT ![call.job].status = "stuck", ![call.job].secs = t]
      BY <1>5 DEF AwaitFails
    <2>3. t \in Nat
      BY <2>1, <2>2 DEF TypeOK, JobRecord
    <2>4. job' \in [Jobs -> JobRecord]
      BY <2>1, <2>2, <2>3 DEF TypeOK, JobRecord
    <2>5. call' \in CallRecord /\ attempts' \in Nat
      BY <1>5, CallType DEF AwaitFails, TypeOK
    <2> QED BY <1>5, <2>4, <2>5
            DEF TypeOK, CallRecord, AwaitFails, training, results
  <1>6. CASE DeliverEnd
    <2>1. call.job \in Jobs /\ evaluation_count > attempts
      BY <1>0, <1>6 DEF DeliverEnd, CallInv, SlotInv, OfActiveJob, HoldsSlot
    <2>2. training_active_seconds' \in Nat /\ job_active_seconds' \in [Jobs -> Nat]
      BY <1>6, <2>1, AccountAdds DEF DeliverEnd, TypeOK
    <2>3. active_jobs' \in {{}} \cup {{j} : j \in Jobs}
      BY <1>6 DEF DeliverEnd, Discard, TypeOK
    <2>4. pending_events' \in [Jobs -> Events \cup {NoEvent}]
      BY <1>6 DEF DeliverEnd, Discard, TypeOK
    <2>5. evaluation_count' \in 0 .. max_evaluations
      BY <1>0, <1>6, <2>1 DEF DeliverEnd, Release, TypeOK
    <2> QED BY <1>6, <2>2, <2>3, <2>4, <2>5, CallType
            DEF TypeOK, CallRecord, DeliverEnd, results
  <1>7. CASE DeliverEvent
    <2>1. call.job \in Jobs
      BY <1>0, <1>7 DEF DeliverEvent, CallInv, OfActiveJob
    <2>2. training_active_seconds' \in Nat /\ job_active_seconds' \in [Jobs -> Nat]
      BY <1>7, <2>1, AccountAdds DEF DeliverEvent, TypeOK
    <2>3. /\ best_candidate' \in Scores \cup {NoScore} /\ shown' \subseteq Scores
          /\ pending_events' \in [Jobs -> Events \cup {NoEvent}]
      BY <1>0, <1>7 DEF DeliverEvent, Consider, TypeOK, CallRecord
    <2> QED BY <1>7, <2>2, <2>3, CallType
            DEF TypeOK, CallRecord, DeliverEvent, quota
  <1> QED BY <1>1, <1>2, <1>3, <1>4, <1>5, <1>6, <1>7

\* Decisions about a job, and the jobs nobody waits for.
LEMMA TypeDecisions ==
    ASSUME Inv,
           TrainContinue \/ ContinueCommand \/ TrainStop \/ StopCommand
             \/ StopActiveJobs \/ \E j \in Jobs : Elapse(j) \/ ExitUnseen(j)
    PROVE  TypeOK'
  <1> USE ToolRuntimeAssumption DEF Inv
  <1>0. /\ call \in CallRecord /\ active_jobs \subseteq Jobs
        /\ attempts \in Nat /\ attempts >= 0 /\ job \in [Jobs -> JobRecord]
    BY DEF TypeOK, CallRecord
  <1>r. ASSUME NEW j \in Jobs
        PROVE  /\ Resumed(j) \in [Jobs -> JobRecord]
               /\ [job EXCEPT ![j].status = "adrift"] \in [Jobs -> JobRecord]
    <2>1. job \in [Jobs -> JobRecord] /\ job[j].event \in Events \cup {NoEvent}
      BY DEF TypeOK, JobRecord
    <2>2. Resumed(j) \in [Jobs -> JobRecord]
      <3> DEFINE e == job[j].event
      <3>1. e \in Events \cup {NoEvent}
        BY <2>1
      <3> HIDE DEF e
      <3> DEFINE r == [job[j] EXCEPT !.status = "running", !.event = NoEvent,
                                     !.settled = e]
      <3>2. r \in JobRecord
        BY <2>1, <3>1 DEF JobRecord
      <3>3. Resumed(j) = [job EXCEPT ![j] = r]
        BY <2>1 DEF Resumed, e
      <3> QED BY <2>1, <3>2, <3>3
    <2>3. [job EXCEPT ![j].status = "adrift"] \in [Jobs -> JobRecord]
      BY <2>1 DEF JobRecord
    <2> QED BY <2>2, <2>3
  <1>1. CASE TrainContinue
    <2>1. call' \in CallRecord
      BY <1>0, <1>1, CallType DEF TrainContinue, Points
    <2> QED BY <1>1, <2>1
            DEF TypeOK, CallRecord, TrainContinue, Reserve, training, results
  <1>2. CASE ContinueCommand
    <2>1. call.job \in Jobs /\ evaluation_count > attempts
      BY <1>0, <1>2 DEF ContinueCommand, CallInv, SlotInv, OfActiveJob, HoldsSlot
    <2>2. job' \in [Jobs -> JobRecord]
      <3>1. job' \in {job, Resumed(call.job), [job EXCEPT ![call.job].status = "adrift"]}
        BY <1>2 DEF ContinueCommand
      <3>2. /\ Resumed(call.job) \in [Jobs -> JobRecord]
            /\ [job EXCEPT ![call.job].status = "adrift"] \in [Jobs -> JobRecord]
        BY <1>r, <2>1
      <3>3. job \in [Jobs -> JobRecord]
        BY DEF TypeOK
      <3> QED BY <3>1, <3>2, <3>3
    <2>3. call' \in CallRecord
      BY <1>0, <1>2, CallType DEF ContinueCommand, CallRecord, Points
    <2>4. evaluation_count' \in 0 .. max_evaluations
      BY <1>0, <1>2, <2>1 DEF ContinueCommand, Release, TypeOK
    <2> QED BY <1>2, <2>2, <2>3, <2>4
            DEF TypeOK, CallRecord, ContinueCommand, training, results
  <1>3. CASE TrainStop
    <2>1. call' \in CallRecord
      BY <1>0, <1>3, CallType DEF TrainStop, Points
    <2> QED BY <1>3, <2>1 DEF TypeOK, CallRecord, TrainStop, training, quota, results
  <1>4. CASE StopCommand
    <2>1. call.job \in Jobs
      BY <1>0, <1>4 DEF StopCommand, CallInv, OfActiveJob
    <2>2. job' \in [Jobs -> JobRecord]
      <3>1. job' \in {job, CutShort(call.job)} \cup Stopped(call.job)
        BY <1>4 DEF StopCommand
      <3> QED BY <1>0, <2>1, <3>1, StopSpares DEF Spares
    <2>3. training_active_seconds' \in Nat /\ job_active_seconds' \in [Jobs -> Nat]
      BY <1>4, <2>1, AccountAdds DEF StopCommand, training, TypeOK
    <2>4. /\ active_jobs' \in {{}} \cup {{j} : j \in Jobs}
          /\ pending_events' \in [Jobs -> Events \cup {NoEvent}]
          /\ train_start_count' = train_start_count
      BY <1>4 DEF StopCommand, Discard, training, TypeOK
    <2> QED BY <1>4, <2>2, <2>3, <2>4, CallType
            DEF TypeOK, CallRecord, StopCommand, quota, results
  <1>5. CASE StopActiveJobs
    <2>1. job' \in [Jobs -> JobRecord]
      <3>1. CASE UNCHANGED job
        BY <3>1 DEF TypeOK
      <3>2. CASE \E j \in Jobs : job' \in Stopped(j)
        BY <1>0, <3>2, StopSpares DEF Spares
      <3>3. ASSUME NEW j \in Jobs, NEW k \in {job, CutShort(j)},
                   job' = [k EXCEPT ![j].left = TRUE]
            PROVE  job' \in [Jobs -> JobRecord]
        <4>1. k \in [Jobs -> JobRecord]
          BY <1>0, StopSpares DEF Spares
        <4> QED BY <1>0, <3>3, <4>1, StopSpares
      <3> QED BY <1>0, <1>5, <3>1, <3>2, <3>3 DEF StopActiveJobs
    <2>2. training_active_seconds' \in Nat /\ job_active_seconds' \in [Jobs -> Nat]
      BY <1>0, <1>5, AccountAdds DEF StopActiveJobs, TypeOK
    <2> QED BY <1>5, <2>1, <2>2, CallType
            DEF TypeOK, CallRecord, StopActiveJobs, quota, results
  <1>6. CASE \E j \in Jobs : Elapse(j) \/ ExitUnseen(j)
    <2>1. PICK j \in Jobs : Elapse(j) \/ ExitUnseen(j)
      BY <1>6
    <2>2. job' \in [Jobs -> JobRecord]
      BY <2>1 DEF Elapse, ExitUnseen, TypeOK, JobRecord
    <2> QED BY <2>1, <2>2 DEF TypeOK, Elapse, ExitUnseen, training, quota, results
  <1> QED BY <1>1, <1>2, <1>3, <1>4, <1>5, <1>6

\* Evaluations, submissions and the end of the loop.
LEMMA TypeEvaluations ==
    ASSUME Inv,
           Evaluate \/ EvaluateCommand \/ Submit \/ Verify \/ ReserveFinal \/ Judge
             \/ LeaveLoop \/ Interrupt
    PROVE  TypeOK'
  <1> USE ToolRuntimeAssumption DEF Inv
  <1>0. call \in CallRecord /\ attempts \in Nat /\ attempts + 1 \in Nat
    BY DEF TypeOK, CallRecord
  <1>1. call' \in CallRecord
    BY <1>0, CallType DEF Evaluate, EvaluateCommand, Submit, Verify, ReserveFinal,
       Judge, LeaveLoop, Interrupt, Points
  <1>2. CASE Evaluate
    BY <1>1, <1>2 DEF TypeOK, CallRecord, Evaluate, Reserve, training, results
  <1>3. CASE EvaluateCommand
    <2>1. /\ best_candidate' \in Scores \cup {NoScore} /\ shown' \subseteq Scores
          /\ attempts' \in Nat
      <3>1. attempts' = attempts + 1
        BY <1>3 DEF EvaluateCommand
      <3>2. best_candidate' \in Scores \cup {NoScore} /\ shown' \subseteq Scores
        BY <1>3 DEF EvaluateCommand, Consider, TypeOK
      <3> QED BY <1>0, <3>1, <3>2
    <2> QED BY <1>1, <1>3, <2>1 DEF TypeOK, CallRecord, EvaluateCommand, training
  <1>4. CASE Submit
    BY <1>1, <1>4 DEF TypeOK, CallRecord, Submit, training, quota, results
  <1>5. CASE Verify
    BY <1>1, <1>5 DEF TypeOK, CallRecord, Verify, training, quota, results
  <1>6. CASE ReserveFinal
    BY <1>1, <1>6 DEF TypeOK, CallRecord, ReserveFinal, training, results
  <1>7. CASE Judge
    <2>1. attempts' \in Nat /\ submitted' \in BOOLEAN
          /\ phase' \in {"agent", "ending", "closed"}
      <3>1. attempts' = attempts + 1
        BY <1>7 DEF Judge
      <3>2. submitted' \in BOOLEAN /\ phase' \in {"agent", "ending", "closed"}
        BY <1>7 DEF Judge, TypeOK
      <3> QED BY <1>0, <3>1, <3>2
    <2> QED BY <1>1, <1>7, <2>1 DEF TypeOK, CallRecord, Judge, training
  <1>8. CASE LeaveLoop \/ Interrupt
    BY <1>1, <1>8
       DEF TypeOK, CallRecord, LeaveLoop, Interrupt, training, quota, results
  <1> QED BY <1>2, <1>3, <1>4, <1>5, <1>6, <1>7, <1>8

-----------------------------------------------------------------------------
(* What the call in progress knows.                                        *)

\* No step disturbs the job a tool call is about.
LEMMA CallStep == ASSUME Inv, [Next]_vars PROVE CallInv'
  <1> USE ToolRuntimeAssumption DEF Inv
  <1>0. call \in CallRecord /\ active_jobs \subseteq Jobs /\ job \in [Jobs -> JobRecord]
    BY DEF TypeOK, CallRecord
  <1>i. ASSUME call'.at \notin OfActiveJob \cup {"start"} PROVE CallInv'
    BY <1>i DEF CallInv
  <1>1. CASE UNCHANGED vars
    BY <1>1 DEF vars, training, CallInv, Remaining
  <1>2. CASE TrainStart
    <2>1. PICK j \in Jobs, b \in 1 .. max_train_job_seconds :
             /\ job' = [job EXCEPT ![j].budget = IF b < Remaining THEN b ELSE Remaining]
             /\ call' = At("start", j, NoEvent)
      BY <1>2 DEF TrainStart
    <2>2. call'.at = "start" /\ call'.job = j
      BY <2>1, CallType DEF Points
    <2>3. job'[j].budget = IF b < Remaining THEN b ELSE Remaining
      BY <1>0, <2>1 DEF JobRecord
    <2>4. job'[j].budget <= Remaining /\ Remaining' = Remaining
      BY <1>2, <2>3 DEF TrainStart, training, Remaining, TypeOK
    <2> QED BY <1>2, <2>2, <2>4 DEF TrainStart, training, CallInv, OfActiveJob
  <1>3. CASE StartCommand
    <2>1. CASE call' = Idle
      BY <1>i, <2>1, CallType DEF OfActiveJob
    <2>2. CASE call' = [call EXCEPT !.at = "await"] /\ active_jobs' = active_jobs \cup {call.job}
      <3>1. call'.at = "await" /\ call'.job = call.job
        BY <1>0, <2>2 DEF CallRecord
      <3> QED BY <2>2, <3>1 DEF CallInv
    <2> QED BY <1>3, <2>1, <2>2 DEF StartCommand
  <1>4. CASE AwaitEvent \/ AwaitEnd
    <2>1. CASE call' = Idle
      BY <1>i, <2>1, CallType DEF OfActiveJob
    <2>2. CASE call' # Idle
      <3>1. call'.at \in {"event", "finished"} /\ call'.job = call.job
        BY <1>0, <1>4, <2>2 DEF AwaitEvent, AwaitEnd, CallRecord
      <3>2. call.job \in active_jobs /\ active_jobs' = active_jobs
        BY <1>4 DEF AwaitEvent, AwaitEnd, CallInv, OfActiveJob, training
      <3> QED BY <3>1, <3>2 DEF CallInv
    <2> QED BY <2>1, <2>2
  <1>5. CASE AwaitFails \/ DeliverEnd \/ DeliverEvent \/ StopCommand \/ EvaluateCommand
               \/ StopActiveJobs \/ Interrupt
    <2>1. call' = Idle
      BY <1>5 DEF AwaitFails, DeliverEnd, DeliverEvent, StopCommand, EvaluateCommand,
                  StopActiveJobs, Interrupt
    <2> QED BY <1>i, <2>1, CallType DEF OfActiveJob
  <1>6. CASE TrainContinue \/ TrainStop
    <2>1. PICK j \in active_jobs, e \in Events \cup {NoEvent}, p \in {"continue", "stop"} :
             call' = At(p, j, e)
      BY <1>6 DEF TrainContinue, TrainStop
    <2>2. call'.at \in {"continue", "stop"} /\ call'.job = j
      BY <1>0, <2>1, CallType DEF Points
    <2>3. active_jobs' = active_jobs
      BY <1>6 DEF TrainContinue, TrainStop, training
    <2> QED BY <2>1, <2>2, <2>3 DEF CallInv
  <1>7. CASE ContinueCommand
    <2>1. CASE call' = Idle
      BY <1>i, <2>1, CallType DEF OfActiveJob
    <2>2. CASE call' = [call EXCEPT !.at = "await"]
      <3>1. call'.at = "await" /\ call'.job = call.job
        BY <1>0, <2>2 DEF CallRecord
      <3>2. call.job \in active_jobs /\ active_jobs' = active_jobs
        BY <1>7 DEF ContinueCommand, CallInv, OfActiveJob, training
      <3> QED BY <3>1, <3>2 DEF CallInv
    <2> QED BY <1>7, <2>1, <2>2 DEF ContinueCommand
  <1>8. CASE Evaluate \/ Submit \/ Verify \/ ReserveFinal \/ Judge
    <2>1. call' \in {Idle} \cup
             {At(p, NoJob, NoEvent) : p \in {"evaluate", "verify", "final", "judge", "closing"}}
      BY <1>8 DEF Evaluate, Submit, Verify, ReserveFinal, Judge
    <2> QED BY <1>i, <2>1, CallType DEF OfActiveJob, Points
  <1>9. CASE LeaveLoop
    BY <1>9 DEF LeaveLoop, training, CallInv, Remaining
  <1>10. CASE \E j \in Jobs : Elapse(j) \/ ExitUnseen(j)
    <2>1. /\ UNCHANGED <<call, active_jobs, train_start_count, training_active_seconds>>
          /\ \A i \in Jobs : job'[i].budget = job[i].budget
      BY <1>0, <1>10 DEF Elapse, ExitUnseen, training, JobRecord
    <2> QED BY <2>1 DEF CallInv, Remaining
  <1> QED BY <1>1, <1>2, <1>3, <1>4, <1>5, <1>6, <1>7, <1>8, <1>9, <1>10 DEF Next

-----------------------------------------------------------------------------
(* The evaluation quota.                                                   *)

\* What a step does to the quota.
QuotaStep == SlotInv' /\ [Quota!Next]_<<evaluation_count, finals, attempts>>

\* Every step keeps the slots in order, and is a step of the abstract quota or
\* leaves it alone.
LEMMA QuotaKept == ASSUME Inv, [Next]_vars PROVE QuotaStep
  <1> USE ToolRuntimeAssumption DEF Inv, FinalSlotKept
  <1>0. /\ call \in CallRecord /\ evaluation_count \in Int
        /\ attempts \in Nat /\ finals \in Nat
    BY DEF TypeOK, CallRecord
  <1>i. ASSUME UNCHANGED <<evaluation_count, finals, attempts>>,
               call'.at \in HoldsSlot => call.at \in HoldsSlot
        PROVE  QuotaStep
    BY <1>i DEF QuotaStep, SlotInv
  <1>r. ASSUME Reserve, UNCHANGED <<finals, attempts>>
        PROVE  QuotaStep
    BY <1>0, <1>r DEF QuotaStep, SlotInv, Reserve, Quota!Next, Quota!ReserveAdaptive
  <1>f. ASSUME Release, UNCHANGED <<finals, attempts>>, call.at \in HoldsSlot,
               call'.at \notin HoldsSlot
        PROVE  QuotaStep
    BY <1>0, <1>f DEF QuotaStep, SlotInv, Release, Quota!Next, Quota!Release
  <1>p. ASSUME attempts' = attempts + 1, UNCHANGED <<evaluation_count, finals>>,
               call.at \in HoldsSlot, call'.at \notin HoldsSlot
        PROVE  QuotaStep
    BY <1>0, <1>p DEF QuotaStep, SlotInv, Quota!Next, Quota!Perform
  <1>1. CASE UNCHANGED vars
    BY <1>1, <1>i DEF vars, quota
  <1>2. CASE TrainStart \/ TrainContinue \/ Evaluate
    BY <1>2, <1>r DEF TrainStart, TrainContinue, Evaluate
  <1>3. CASE StartCommand \/ ContinueCommand
    <2>1. call.at \in HoldsSlot /\ UNCHANGED <<finals, attempts>>
      BY <1>3 DEF StartCommand, ContinueCommand, HoldsSlot
    <2>2. CASE Release /\ call' = Idle
      BY <1>f, <2>1, <2>2, CallType DEF HoldsSlot
    <2>3. CASE UNCHANGED evaluation_count
      BY <1>i, <2>1, <2>3
    <2> QED BY <1>3, <2>2, <2>3 DEF StartCommand, ContinueCommand
  <1>4. CASE AwaitEvent
    <2>1. call'.at \in {"event", "idle"}
      <3>1. PICK e \in Events, s \in Scores \cup {NoScore} :
               \/ call' = [call EXCEPT !.at = "event", !.event = e, !.score = s]
               \/ call' = Idle
        BY <1>4 DEF AwaitEvent
      <3>2. CASE call' = [call EXCEPT !.at = "event", !.event = e, !.score = s]
        BY <1>0, <3>2 DEF CallRecord
      <3> QED BY <3>1, <3>2, CallType
    <2> QED BY <1>4, <1>p, <2>1 DEF AwaitEvent, HoldsSlot
  <1>5. CASE AwaitFails \/ EvaluateCommand
    <2>1. call' = Idle /\ call.at \in HoldsSlot /\ UNCHANGED <<evaluation_count, finals>>
          /\ attempts' \in {attempts, attempts + 1}
      BY <1>5 DEF AwaitFails, EvaluateCommand, HoldsSlot
    <2> QED BY <1>i, <1>p, <2>1, CallType DEF HoldsSlot
  <1>6. CASE AwaitEnd
    BY <1>6, <1>i DEF AwaitEnd, HoldsSlot, quota
  <1>7. CASE DeliverEnd
    BY <1>7, <1>f, CallType DEF DeliverEnd, HoldsSlot
  <1>8. CASE DeliverEvent \/ StopCommand \/ StopActiveJobs \/ Interrupt
    <2>1. call' = Idle /\ UNCHANGED <<evaluation_count, finals, attempts>>
      BY <1>8 DEF DeliverEvent, StopCommand, StopActiveJobs, Interrupt, quota
    <2> QED BY <1>i, <2>1, CallType DEF HoldsSlot
  <1>9. CASE TrainStop
    <2>1. call'.at = "stop"
      BY <1>9, CallType DEF TrainStop, TypeOK, Points
    <2> QED BY <1>9, <1>i, <2>1 DEF TrainStop, HoldsSlot, quota
  <1>10. CASE Submit \/ Verify
    <2>1. call'.at \in {"verify", "final", "idle"}
      BY <1>10, CallType DEF Submit, Verify, Points
    <2> QED BY <1>10, <1>i, <2>1 DEF Submit, Verify, HoldsSlot, quota
  <1>11. CASE ReserveFinal
    <2>1. CASE /\ evaluation_count < max_evaluations
               /\ evaluation_count' = evaluation_count + 1
               /\ finals' = finals + 1
      BY <1>0, <1>11, <2>1
         DEF ReserveFinal, QuotaStep, SlotInv, Quota!Next, Quota!ReserveFinal
    <2>2. CASE call' = Idle /\ UNCHANGED <<evaluation_count, finals>>
      BY <1>11, <1>i, <2>2, CallType DEF ReserveFinal, HoldsSlot
    <2> QED BY <1>11, <2>1, <2>2 DEF ReserveFinal
  <1>12. CASE Judge
    <2>1. call'.at \in {"closing", "idle"}
      BY <1>12, CallType DEF Judge, Points
    <2> QED BY <1>12, <1>p, <2>1 DEF Judge, HoldsSlot
  <1>13. CASE LeaveLoop \/ \E j \in Jobs : Elapse(j) \/ ExitUnseen(j)
    BY <1>13, <1>i DEF LeaveLoop, Elapse, ExitUnseen, quota
  <1> QED BY <1>1, <1>2, <1>3, <1>4, <1>5, <1>6, <1>7, <1>8, <1>9, <1>10, <1>11, <1>12,
             <1>13 DEF Next

-----------------------------------------------------------------------------
(* The training-time budget.                                               *)

\* Every step keeps the grant of the active job within what the others left.
LEMMA GrantsKept == ASSUME Inv, [Next]_vars PROVE GrantsFit'
  <1> USE ToolRuntimeAssumption DEF Inv
  <1>0. /\ active_jobs \in {{}} \cup {{j} : j \in Jobs}
        /\ training_active_seconds \in Nat /\ job_active_seconds \in [Jobs -> Nat]
        /\ job \in [Jobs -> JobRecord]
    BY DEF TypeOK
  <1>i. ASSUME active_jobs' \subseteq active_jobs,
               UNCHANGED <<training_active_seconds, job_active_seconds>>,
               \A j \in active_jobs : job'[j].budget = job[j].budget
        PROVE  GrantsFit'
    BY <1>i DEF GrantsFit
  <1>a. ASSUME NEW j \in active_jobs, Account(j), active_jobs' \subseteq active_jobs,
               job'[j].budget = job[j].budget
        PROVE  GrantsFit'
    <2>1. active_jobs = {j} /\ j \in Jobs
      BY <1>0
    <2>2. training_active_seconds' - job_active_seconds'[j]
            = training_active_seconds - job_active_seconds[j]
      BY <1>0, <1>a, <2>1, AccountAdds
    <2> QED BY <1>a, <2>1, <2>2 DEF GrantsFit
  <1>e. ASSUME active_jobs' = {} PROVE GrantsFit'
    BY <1>e DEF GrantsFit
  <1>1. CASE UNCHANGED vars
    BY <1>1, <1>i DEF vars, training
  <1>2. CASE TrainStart
    BY <1>2, <1>e DEF TrainStart, training
  <1>3. CASE StartCommand
    <2>1. CASE active_jobs' = {}
      BY <1>e, <2>1
    <2>2. CASE active_jobs' # {}
      <3> DEFINE j == call.job
      <3>1. /\ active_jobs' = {j} /\ j \in Jobs
            /\ job' = [job EXCEPT ![j].status = "running"]
            /\ UNCHANGED <<training_active_seconds, job_active_seconds>>
            /\ job[j].budget <= Remaining
        BY <1>3, <2>2 DEF StartCommand, CallInv
      <3>2. job'[j].budget = job[j].budget /\ job[j].budget \in Int
        BY <1>0, <3>1 DEF JobRecord
      <3>3. job_active_seconds[j] \in Nat
        BY <1>0, <3>1
      <3> QED BY <1>0, <3>1, <3>2, <3>3 DEF GrantsFit, Remaining
    <2> QED BY <2>1, <2>2
  <1>4. CASE AwaitEvent \/ AwaitEnd \/ AwaitFails \/ ContinueCommand
    <2>1. /\ UNCHANGED <<active_jobs, training_active_seconds, job_active_seconds>>
          /\ call.job \in active_jobs
      BY <1>4 DEF AwaitEvent, AwaitEnd, AwaitFails, ContinueCommand, training,
                  CallInv, OfActiveJob
    <2>2. call.job \in Jobs /\ active_jobs = {call.job}
      BY <1>0, <2>1
    <2>3. job'[call.job].budget = job[call.job].budget
      <3>1. CASE AwaitEvent
        BY <1>0, <2>2, <3>1 DEF AwaitEvent, JobRecord
      <3>2. CASE AwaitEnd
        BY <1>0, <2>2, <3>2 DEF AwaitEnd, JobRecord
      <3>3. CASE AwaitFails
        BY <1>0, <2>2, <3>3 DEF AwaitFails, JobRecord
      <3>4. CASE ContinueCommand
        BY <1>0, <2>2, <3>4 DEF ContinueCommand, Resumed, JobRecord
      <3> QED BY <1>4, <3>1, <3>2, <3>3, <3>4
    <2> QED BY <1>i, <2>1, <2>2, <2>3
  <1>5. CASE DeliverEnd \/ DeliverEvent
    BY <1>5, <1>a DEF DeliverEnd, DeliverEvent, Discard, CallInv, OfActiveJob
  <1>6. CASE StopCommand
    <2>1. call.job \in active_jobs /\ call.job \in Jobs
      BY <1>0, <1>6 DEF StopCommand, CallInv, OfActiveJob
    <2>2. job'[call.job].budget = job[call.job].budget
      <3>1. job' \in {job, CutShort(call.job)} \cup Stopped(call.job)
        BY <1>6 DEF StopCommand
      <3> QED BY <1>0, <2>1, <3>1, StopSpares DEF Spares
    <2>3. CASE Account(call.job) /\ Discard(call.job)
      BY <1>a, <2>1, <2>2, <2>3 DEF Discard
    <2>4. CASE UNCHANGED training
      BY <1>0, <1>i, <2>1, <2>2, <2>4 DEF training
    <2> QED BY <1>6, <2>3, <2>4 DEF StopCommand
  <1>7. CASE StopActiveJobs
    BY <1>7, <1>e DEF StopActiveJobs
  <1>8. CASE TrainContinue \/ TrainStop \/ Evaluate \/ EvaluateCommand \/ Submit
               \/ Verify \/ ReserveFinal \/ Judge \/ LeaveLoop \/ Interrupt
    <2>1. UNCHANGED <<training, job>>
      BY <1>8 DEF TrainContinue, TrainStop, Evaluate, EvaluateCommand, Submit,
                  Verify, ReserveFinal, Judge, LeaveLoop, Interrupt
    <2> QED BY <1>i, <2>1 DEF training
  <1>9. CASE \E j \in Jobs : Elapse(j) \/ ExitUnseen(j)
    <2>1. UNCHANGED training /\ \A i \in Jobs : job'[i].budget = job[i].budget
      BY <1>0, <1>9 DEF Elapse, ExitUnseen, JobRecord
    <2> QED BY <1>0, <1>i, <2>1 DEF training
  <1> QED BY <1>1, <1>2, <1>3, <1>4, <1>5, <1>6, <1>7, <1>8, <1>9 DEF Next

-----------------------------------------------------------------------------
(* The theorems.                                                           *)

\* The invariant is inductive.
LEMMA InvStep == Inv /\ [Next]_vars => Inv'
  <1> SUFFICES ASSUME Inv, [Next]_vars PROVE Inv'
    OBVIOUS
  <1>1. TypeOK'
    <2>1. CASE UNCHANGED vars
      BY <2>1 DEF Inv, vars, training, quota, results, TypeOK
    <2> QED BY <2>1, TypeTraining, TypeDecisions, TypeEvaluations DEF Next
  <1> QED BY <1>1, CallStep, QuotaKept, GrantsKept DEF Inv, QuotaStep

\* Every attribute of the runtime keeps its type; the evaluation count never
\* leaves its limits and no second job ever enters the active-job slot,
\* whatever the trusted commands report.
THEOREM TypeCorrect == Spec => []TypeOK
  <1>1. Inv => TypeOK
    BY DEF Inv
  <1> QED BY <1>1, InvInit, InvStep, PTL DEF Spec

\* The last slot of the quota is kept for submit, under failed waits, killed
\* commands and interrupts.
THEOREM LastSlotIsKept == Spec => []FinalSlotKept
  <1>1. Inv => FinalSlotKept
    BY DEF Inv, SlotInv
  <1> QED BY <1>1, InvInit, InvStep, PTL DEF Spec

\* The wall budget granted to a job fits what the other jobs left of the total.
THEOREM GrantsAlwaysFit == Spec => []GrantsFit
  <1>1. Inv => GrantsFit
    BY DEF Inv
  <1> QED BY <1>1, InvInit, InvStep, PTL DEF Spec

\* Neither an evaluation nor training time is promised that is not left.
THEOREM PromisesAreKept == Spec => []ReservationsFit
  <1>1. ReservationsFit <=> FinalSlotKept /\ GrantsFit
    BY DEF ReservationsFit
  <1> QED BY <1>1, LastSlotIsKept, GrantsAlwaysFit, PTL

\* The runtime implements the quota: every evaluation was reserved before it
\* was made, and only unused slots are given back.
THEOREM ImplementsQuota == Spec => RefinesQuota
  <1>1. Init => Quota!Init
    BY DEF Init, Quota!Init
  <1>2. Inv /\ [Next]_vars => [Quota!Next]_<<evaluation_count, finals, attempts>>
    BY QuotaKept DEF QuotaStep
  <1> QED BY <1>1, <1>2, InvInit, InvStep, PTL
         DEF Spec, RefinesQuota, Quota!Spec

-----------------------------------------------------------------------------
(* The jobs: where each is known, and what it was charged.                 *)

\* A job with a container is in the slot, or was reported left behind, or is
\* recorded as ended.
Known == \A j \in Jobs : Live(j) => j \in active_jobs \/ job[j].left \/ job[j].loose

\* A job is never charged more than it was metered, and in the end no less.
NotMore == \A j \in Jobs : job_active_seconds[j] <= job[j].secs
Charged == NotMore /\ EverySecondCharged

\* What a call that is about to give a job up, and the end of the run, rely on.
Ending ==
    /\ call.at = "finished" => job[call.job].status = "ended"
    /\ call.at = "closing" => phase # "agent"
    /\ phase = "closed" => call = Idle /\ active_jobs = {}

JobsInv == Known /\ Charged /\ Ending

\* Once the agent loop has been left, no tool is called again.
LEMMA LoopIsOver == [Next]_vars /\ phase' = "agent" => phase = "agent"
  BY DEF Next, vars, results, TrainStart, StartCommand, AwaitEvent, AwaitEnd, AwaitFails,
         DeliverEnd,
         DeliverEvent, TrainContinue, ContinueCommand, TrainStop, StopCommand, Evaluate,
         EvaluateCommand, Submit, Verify, ReserveFinal, Judge, StopActiveJobs,
         LeaveLoop, Interrupt, Elapse, ExitUnseen, Free

\* A step that leaves the slot and the accounts alone and changes only jobs
\* that are in the slot, or still run.
LEMMA JobsChange ==
    ASSUME Inv, JobsInv, [Next]_vars, UNCHANGED <<active_jobs, job_active_seconds>>,
           \A j \in Jobs : job'[j].secs \in Nat /\ job'[j].secs >= job[j].secs,
           \A j \in Jobs \ active_jobs :
              \/ job'[j].status = job[j].status /\ job'[j].secs = job[j].secs
              \/ Live(j) /\ job'[j].status # "ended",
           \A j \in Jobs : job'[j].left = job[j].left,
           \A j \in Jobs \ active_jobs : job'[j].loose = job[j].loose
    PROVE  Known' /\ Charged'
  <1>1. \A j \in Jobs : job[j].secs \in Nat /\ job_active_seconds[j] \in Nat
    BY DEF Inv, TypeOK, JobRecord
  <1>2. Known'
    BY DEF JobsInv, Known, Live
  <1>3. NotMore'
    BY <1>1 DEF JobsInv, Charged, NotMore
  <1>4. EverySecondCharged'
    BY LoopIsOver DEF JobsInv, Charged, EverySecondCharged
  <1> QED BY <1>2, <1>3, <1>4 DEF Charged

\* A job that has ended is charged in full and leaves the slot.
LEMMA JobLeaves ==
    ASSUME Inv, JobsInv, [Next]_vars, NEW j \in active_jobs, Account(j), active_jobs' = {},
           job' \in [Jobs -> JobRecord],
           job'[j].status = "ended", job'[j].secs = job[j].secs,
           \A i \in Jobs \ {j} : job'[i] = job[i]
    PROVE  Known' /\ Charged'
  <1>1. active_jobs = {j} /\ j \in Jobs
    BY DEF Inv, TypeOK
  <1>2. \A i \in Jobs : job[i].secs \in Nat /\ job_active_seconds[i] \in Nat
    BY DEF Inv, TypeOK, JobRecord
  <1>3. \A i \in Jobs :
           job_active_seconds'[i] = IF i = j THEN job[j].secs ELSE job_active_seconds[i]
    BY <1>1, <1>2 DEF Account, JobsInv, Charged, NotMore, Inv, TypeOK
  <1>4. Known'
    BY <1>1 DEF JobsInv, Known, Live
  <1>5. NotMore'
    BY <1>2, <1>3 DEF JobsInv, Charged, NotMore
  <1>6. EverySecondCharged'
    BY <1>1, <1>3, LoopIsOver DEF JobsInv, Charged, EverySecondCharged
  <1> QED BY <1>4, <1>5, <1>6 DEF Charged

\* A step that leaves the jobs alone.
LEMMA JobsStay ==
    ASSUME Inv, JobsInv, [Next]_vars, UNCHANGED <<active_jobs, job_active_seconds, job>>
    PROVE  Known' /\ Charged'
  <1>1. \A j \in Jobs : job[j].secs \in Nat
    BY DEF Inv, TypeOK, JobRecord
  <1> QED BY <1>1, JobsChange

\* A step that does nothing but charge a job.
LEMMA JobCharged ==
    ASSUME Inv, JobsInv, [Next]_vars, NEW j \in active_jobs, Account(j),
           UNCHANGED <<active_jobs, job>>
    PROVE  Known' /\ Charged'
  <1>1. active_jobs = {j} /\ j \in Jobs
    BY DEF Inv, TypeOK
  <1>2. \A i \in Jobs : job[i].secs \in Nat /\ job_active_seconds[i] \in Nat
    BY DEF Inv, TypeOK, JobRecord
  <1>3. \A i \in Jobs :
           job_active_seconds'[i] = IF i = j THEN job[j].secs ELSE job_active_seconds[i]
    BY <1>1, <1>2 DEF Account, JobsInv, Charged, NotMore, Inv, TypeOK
  <1>4. Known'
    BY DEF JobsInv, Known, Live
  <1>5. NotMore'
    BY <1>2, <1>3 DEF JobsInv, Charged, NotMore
  <1>6. EverySecondCharged'
    BY <1>1, <1>3, LoopIsOver DEF JobsInv, Charged, EverySecondCharged
  <1> QED BY <1>4, <1>5, <1>6 DEF Charged

\* Every step keeps the jobs known and charged.
LEMMA JobsKept == ASSUME Inv, JobsInv, [Next]_vars PROVE Known' /\ Charged'
  <1> USE ToolRuntimeAssumption
  <1>0. /\ call \in CallRecord /\ active_jobs \in {{}} \cup {{j} : j \in Jobs}
        /\ job \in [Jobs -> JobRecord] /\ active_jobs \subseteq Jobs
        /\ job_active_seconds \in [Jobs -> Nat]
    BY DEF Inv, TypeOK, CallRecord
  <1>1. CASE UNCHANGED vars
    BY <1>1, JobsStay DEF vars, training
  <1>2. CASE TrainStart
    <2>1. PICK j \in Jobs, b \in 1 .. max_train_job_seconds :
             job' = [job EXCEPT ![j].budget = IF b < Remaining THEN b ELSE Remaining]
      BY <1>2 DEF TrainStart
    <2>2. \A i \in Jobs : job'[i].status = job[i].status /\ job'[i].secs = job[i].secs
                          /\ job'[i].left = job[i].left /\ job[i].secs \in Nat
                          /\ job'[i].loose = job[i].loose
      BY <1>0, <2>1 DEF JobRecord
    <2> QED BY <1>2, <2>2, JobsChange DEF TrainStart, training
  <1>3. CASE StartCommand
    <2> DEFINE j == call.job
    <2>1. j \in Jobs /\ active_jobs = {} /\ UNCHANGED job_active_seconds
      BY <1>3 DEF StartCommand, Inv, CallInv
    <2>2. CASE /\ job' = [job EXCEPT ![j].status = "running"]
               /\ active_jobs' = active_jobs \cup {j}
      <3>1. /\ \A i \in Jobs : job'[i].secs = job[i].secs /\ job'[i].left = job[i].left
            /\ \A i \in Jobs \ {j} : job'[i] = job[i]
            /\ active_jobs' = {j}
        BY <1>0, <2>1, <2>2 DEF JobRecord
      <3> QED BY <2>1, <3>1, LoopIsOver
              DEF JobsInv, Known, Charged, NotMore, EverySecondCharged, Live
    <2>3. CASE job' = [job EXCEPT ![j].budget = 0] /\ UNCHANGED active_jobs
      <3>1. \A i \in Jobs : job'[i].status = job[i].status /\ job'[i].secs = job[i].secs
                            /\ job'[i].left = job[i].left /\ job[i].secs \in Nat
                            /\ job'[i].loose = job[i].loose
        BY <1>0, <2>1, <2>3 DEF JobRecord
      <3> QED BY <2>1, <2>3, <3>1, JobsChange
    <2>4. CASE /\ job' = [job EXCEPT ![j].status = "running", ![j].left = TRUE]
               /\ UNCHANGED active_jobs
      <3>1. /\ \A i \in Jobs : job'[i].secs = job[i].secs
            /\ \A i \in Jobs \ {j} : job'[i] = job[i]
            /\ job'[j].status = "running" /\ job'[j].left
        BY <1>0, <2>1, <2>4 DEF JobRecord
      <3> QED BY <2>1, <2>4, <3>1, LoopIsOver
              DEF JobsInv, Known, Charged, NotMore, EverySecondCharged, Live
    <2> QED BY <1>3, <2>2, <2>3, <2>4 DEF StartCommand
  <1>4. CASE AwaitEvent \/ AwaitEnd \/ AwaitFails
    <2> DEFINE j == call.job
    <2>1. /\ j \in active_jobs /\ j \in Jobs /\ active_jobs = {j}
          /\ UNCHANGED <<active_jobs, job_active_seconds>>
      BY <1>0, <1>4 DEF AwaitEvent, AwaitEnd, AwaitFails, Inv, CallInv, OfActiveJob, training
    <2>2. PICK t \in job[j].secs .. job[j].budget + Slack :
             \/ \E e \in Events :
                   job' = [job EXCEPT ![j].status = "paused", ![j].event = e, ![j].secs = t]
             \/ \E l \in BOOLEAN :
                   job' = [job EXCEPT ![j].status = "ended", ![j].secs = t, ![j].loose = l]
             \/ job' = [job EXCEPT ![j].secs = t]
             \/ job' = [job EXCEPT ![j].status = "stuck", ![j].secs = t]
      <3>1. CASE AwaitEvent
        BY <3>1 DEF AwaitEvent
      <3>2. CASE AwaitEnd
        BY <3>2 DEF AwaitEnd
      <3>3. CASE AwaitFails
        BY <3>3 DEF AwaitFails
      <3> QED BY <1>4, <3>1, <3>2, <3>3
    <2>3. /\ job'[j].secs = t /\ job'[j].left = job[j].left
          /\ \A i \in Jobs \ {j} : job'[i] = job[i]
      <3>1. CASE \E e \in Events :
                    job' = [job EXCEPT ![j].status = "paused", ![j].event = e, ![j].secs = t]
        <4>1. PICK e \in Events :
                 job' = [job EXCEPT ![j].status = "paused", ![j].event = e, ![j].secs = t]
          BY <3>1
        <4> QED BY <1>0, <2>1, <4>1 DEF JobRecord
      <3>2. CASE \E l \in BOOLEAN :
                    job' = [job EXCEPT ![j].status = "ended", ![j].secs = t, ![j].loose = l]
        <4>1. PICK l \in BOOLEAN :
                 job' = [job EXCEPT ![j].status = "ended", ![j].secs = t, ![j].loose = l]
          BY <3>2
        <4> QED BY <1>0, <2>1, <4>1 DEF JobRecord
      <3>3. CASE job' = [job EXCEPT ![j].secs = t]
        BY <1>0, <2>1, <3>3 DEF JobRecord
      <3>4. CASE job' = [job EXCEPT ![j].status = "stuck", ![j].secs = t]
        BY <1>0, <2>1, <3>4 DEF JobRecord
      <3> QED BY <2>2, <3>1, <3>2, <3>3, <3>4
    <2>4. t \in Nat /\ t >= job[j].secs /\ \A i \in Jobs : job[i].secs \in Nat
      <3>1. /\ \A i \in Jobs : job[i].secs \in Nat
            /\ job[j].secs \in Nat /\ job[j].budget \in Int
        BY <1>0, <2>1 DEF JobRecord
      <3> QED BY <3>1
    <2> QED BY <2>1, <2>3, <2>4, JobsChange
  <1>5. CASE DeliverEnd
    <2>1. call.job \in active_jobs /\ call.job \in Jobs /\ active_jobs' = {}
          /\ job[call.job].status = "ended"
      BY <1>0, <1>5 DEF DeliverEnd, Discard, Inv, CallInv, OfActiveJob, JobsInv, Ending
    <2> QED BY <1>0, <1>5, <2>1, JobLeaves DEF DeliverEnd
  <1>6. CASE DeliverEvent
    <2>1. call.job \in active_jobs
      BY <1>6 DEF DeliverEvent, Inv, CallInv, OfActiveJob
    <2> QED BY <1>6, <2>1, JobCharged DEF DeliverEvent
  <1>s. ASSUME NEW j \in active_jobs
        PROVE  active_jobs = {j} /\ j \in Jobs
    BY <1>0
  <1>7. CASE ContinueCommand
    <2> DEFINE j == call.job
    <2>1. /\ j \in active_jobs /\ j \in Jobs
          /\ UNCHANGED <<active_jobs, job_active_seconds>>
      BY <1>0, <1>7 DEF ContinueCommand, Inv, CallInv, OfActiveJob, training
    <2>2. job' \in {job, Resumed(j), [job EXCEPT ![j].status = "adrift"]}
      BY <1>7 DEF ContinueCommand
    <2>3. /\ \A i \in Jobs : job'[i].secs = job[i].secs /\ job'[i].left = job[i].left
                             /\ job[i].secs \in Nat
          /\ \A i \in Jobs \ {j} : job'[i] = job[i]
      BY <1>0, <2>1, <2>2 DEF Resumed, JobRecord
    <2> QED BY <2>1, <2>3, JobsChange
  <1>8. CASE StopCommand
    <2> DEFINE j == call.job
    <2>1. j \in active_jobs
      BY <1>8 DEF StopCommand, Inv, CallInv, OfActiveJob
    <2>2. j \in Jobs /\ active_jobs = {j}
      BY <1>s, <2>1
    <2>3. CASE job' \in Stopped(j) /\ Discard(j) /\ Account(j)
      <3>1. active_jobs' = {}
        BY <2>2, <2>3 DEF Discard
      <3>2. Spares(job', j) /\ job'[j].status = "ended"
        BY <1>0, <2>2, <2>3, StopSpares
      <3> QED BY <2>1, <2>2, <2>3, <3>1, <3>2, JobLeaves DEF Spares
    <2>4. CASE job' \in {job, CutShort(j)} \cup Stopped(j) /\ UNCHANGED training
      <3>1. Spares(job', j)
        BY <1>0, <2>2, <2>4, StopSpares
      <3>2. \A i \in Jobs : job[i].secs \in Nat
        BY <1>0 DEF JobRecord
      <3> QED BY <2>2, <2>4, <3>1, <3>2, JobsChange DEF training, Spares
    <2> QED BY <1>8, <2>3, <2>4 DEF StopCommand
  <1>9. CASE StopActiveJobs
    <2>1. phase' # "agent" /\ active_jobs' = {}
      BY <1>9 DEF StopActiveJobs, JobsInv, Ending
    <2>2. CASE active_jobs = {} /\ UNCHANGED <<job, training_active_seconds, job_active_seconds>>
      BY <2>1, <2>2, JobsStay
    <2>3. CASE \E j \in active_jobs : job' \in Stopped(j) /\ Account(j)
      <3>1. PICK j \in active_jobs : job' \in Stopped(j) /\ Account(j)
        BY <2>3
      <3>2. Spares(job', j) /\ job'[j].status = "ended"
        BY <1>0, <1>s, <3>1, StopSpares
      <3>3. j \in Jobs
        BY <1>s
      <3>4. /\ job' \in [Jobs -> JobRecord] /\ job'[j].secs = job[j].secs
            /\ \A i \in Jobs \ {j} : job'[i] = job[i]
        BY <3>2, <3>3 DEF Spares
      <3> QED BY <2>1, <3>1, <3>2, <3>4, JobLeaves
    <2>4. ASSUME NEW j \in active_jobs,
                 \/ job' \in Stopped(j)
                 \/ \E k \in {job, CutShort(j)} : job' = [k EXCEPT ![j].left = TRUE],
                 UNCHANGED <<training_active_seconds, job_active_seconds>>
          PROVE  Known' /\ Charged'
      <3>1. active_jobs = {j} /\ j \in Jobs
        BY <1>s
      <3>2. /\ \A i \in Jobs : job'[i].secs = job[i].secs
            /\ \A i \in Jobs \ {j} : job'[i] = job[i]
            /\ job'[j].left \/ job'[j].status = "ended"
        <4>1. CASE job' \in Stopped(j)
          BY <1>0, <3>1, <4>1, StopSpares DEF Spares
        <4>2. ASSUME NEW k \in {job, CutShort(j)}, job' = [k EXCEPT ![j].left = TRUE]
              PROVE  /\ \A i \in Jobs : job'[i].secs = job[i].secs
                     /\ \A i \in Jobs \ {j} : job'[i] = job[i]
                     /\ job'[j].left
          <5>1. Spares(k, j)
            BY <1>0, <3>1, StopSpares
          <5> QED BY <1>0, <3>1, <4>2, <5>1, StopSpares DEF Spares
        <4> QED BY <2>4, <4>1, <4>2
      <3> QED BY <2>1, <2>4, <3>1, <3>2
              DEF JobsInv, Known, Charged, NotMore, EverySecondCharged, Live
    <2> QED BY <1>9, <2>2, <2>3, <2>4 DEF StopActiveJobs
  <1>10. CASE TrainContinue \/ TrainStop \/ Evaluate \/ EvaluateCommand \/ Submit
               \/ Verify \/ ReserveFinal \/ Judge \/ LeaveLoop \/ Interrupt
    <2>1. UNCHANGED <<training, job>>
      BY <1>10 DEF TrainContinue, TrainStop, Evaluate, EvaluateCommand, Submit,
                  Verify, ReserveFinal, Judge, LeaveLoop, Interrupt
    <2> QED BY <2>1, JobsStay DEF training
  <1>11. CASE \E j \in Jobs : Elapse(j) \/ ExitUnseen(j)
    <2>1. PICK j \in Jobs : Elapse(j) \/ ExitUnseen(j)
      BY <1>11
    <2>2. UNCHANGED <<active_jobs, job_active_seconds>>
      BY <2>1 DEF Elapse, ExitUnseen, training
    <2>3. /\ \A i \in Jobs : job'[i].left = job[i].left /\ job'[i].loose = job[i].loose
          /\ \A i \in Jobs \ {j} : job'[i] = job[i]
          /\ Live(j) /\ job'[j].status # "ended"
          /\ job'[j].secs \in {job[j].secs, job[j].secs + 1}
      BY <1>0, <2>1 DEF Elapse, ExitUnseen, JobRecord, Live
    <2>4. \A i \in Jobs : job[i].secs \in Nat
      BY <1>0 DEF JobRecord
    <2>5. \A i \in Jobs : job'[i].secs \in Nat /\ job'[i].secs >= job[i].secs
      BY <2>3, <2>4
    <2> QED BY <2>2, <2>3, <2>5, JobsChange
  <1> QED BY <1>1, <1>2, <1>3, <1>4, <1>5, <1>6, <1>7, <1>8, <1>9, <1>10, <1>11 DEF Next

\* And what the calls that give a job up rely on.
LEMMA EndingKept == ASSUME Inv, JobsInv, [Next]_vars PROVE Ending'
  <1> USE DEF JobsInv, Ending
  <1>0. /\ call \in CallRecord /\ job \in [Jobs -> JobRecord] /\ active_jobs \subseteq Jobs
    BY DEF Inv, TypeOK, CallRecord
  <1>i. ASSUME call'.at \notin {"finished", "closing"},
               phase' = "closed" => call' = Idle /\ active_jobs' = {}
        PROVE  Ending'
    BY <1>i
  <1>n. Idle.at = "idle"
    BY CallType
  <1>o. ASSUME call # Idle PROVE phase # "closed"
    BY <1>o
  <1>1. CASE UNCHANGED vars
    BY <1>1 DEF vars, training
  <1>2. CASE AwaitEnd
    <2>1. call'.job = call.job /\ call'.at = "finished" /\ call # Idle /\ phase' = phase
      BY <1>0, <1>2, <1>n DEF AwaitEnd, CallRecord
    <2>2. call.job \in Jobs
      BY <1>0, <1>2 DEF AwaitEnd, Inv, CallInv, OfActiveJob
    <2>3. job'[call.job].status = "ended"
      BY <1>0, <1>2, <2>2 DEF AwaitEnd, JobRecord
    <2> QED BY <1>o, <2>1, <2>3
  <1>3. CASE Judge
    <2>1. call # Idle /\ UNCHANGED <<active_jobs>>
      BY <1>3, <1>n DEF Judge, training
    <2>2. \/ call'.at = "closing" /\ phase' = "ending"
          \/ call' = Idle /\ phase' = phase
      BY <1>3, CallType DEF Judge, Points
    <2> QED BY <1>n, <1>o, <2>1, <2>2
  <1>4. CASE \E j \in Jobs : Elapse(j) \/ ExitUnseen(j)
    <2>1. PICK j \in Jobs : Elapse(j) \/ ExitUnseen(j)
      BY <1>4
    <2>2. UNCHANGED <<call, phase, active_jobs>>
          /\ \A i \in Jobs : job[i].status = "ended" => job'[i].status = "ended"
      BY <1>0, <2>1 DEF Elapse, ExitUnseen, training, JobRecord
    <2>3. call.at = "finished" => call.job \in Jobs
      BY <1>0 DEF Inv, CallInv, OfActiveJob
    <2> QED BY <2>2, <2>3
  <1>5. CASE StopActiveJobs
    BY <1>5, <1>n DEF StopActiveJobs
  <1>6. CASE LeaveLoop \/ TrainStart \/ TrainContinue \/ TrainStop \/ Evaluate \/ Submit
    <2>1. phase' # "closed" /\ call'.at \notin {"finished", "closing"}
      BY <1>6, <1>0, <1>n, CallType
         DEF LeaveLoop, TrainStart, TrainContinue, TrainStop, Evaluate, Submit, Free, Points
    <2> QED BY <2>1
  <1>7. CASE \/ StartCommand \/ AwaitEvent \/ AwaitFails \/ DeliverEnd \/ DeliverEvent
             \/ ContinueCommand \/ StopCommand \/ EvaluateCommand \/ Verify
             \/ ReserveFinal \/ Interrupt
    <2>1. call # Idle
      BY <1>7, <1>n
         DEF StartCommand, AwaitEvent, AwaitFails, DeliverEnd, DeliverEvent,
             ContinueCommand, StopCommand, EvaluateCommand, Verify, ReserveFinal, Interrupt
    <2>2. phase' # "closed"
      BY <1>7, <1>o, <2>1
         DEF StartCommand, AwaitEvent, AwaitFails, DeliverEnd, DeliverEvent,
             ContinueCommand, StopCommand, EvaluateCommand, Verify, ReserveFinal, Interrupt
    <2>3. call'.at \notin {"finished", "closing"}
      <3>1. CASE \/ DeliverEnd \/ DeliverEvent \/ AwaitFails \/ StopCommand
                 \/ EvaluateCommand \/ Interrupt
        BY <3>1, <1>n DEF DeliverEnd, DeliverEvent, AwaitFails, StopCommand,
                          EvaluateCommand, Interrupt
      <3>2. CASE StartCommand \/ ContinueCommand
        BY <3>2, <1>0, <1>n DEF StartCommand, ContinueCommand, CallRecord
      <3>3. CASE AwaitEvent
        <4>1. PICK e \in Events, s \in Scores \cup {NoScore} :
                 \/ call' = [call EXCEPT !.at = "event", !.event = e, !.score = s]
                 \/ call' = Idle
          BY <3>3 DEF AwaitEvent
        <4> QED BY <1>0, <1>n, <4>1 DEF CallRecord
      <3>4. CASE Verify \/ ReserveFinal
        BY <3>4, <1>n, CallType DEF Verify, ReserveFinal, Points
      <3> QED BY <1>7, <3>1, <3>2, <3>3, <3>4
    <2> QED BY <2>2, <2>3
  <1> QED BY <1>1, <1>2, <1>3, <1>4, <1>5, <1>6, <1>7 DEF Next

\* What is known of the jobs holds throughout.
LEMMA JobsAlways == Spec => []JobsInv
  <1>1. Init => JobsInv
    <2> SUFFICES ASSUME Init PROVE JobsInv
      OBVIOUS
    <2>1. \A j \in Jobs : job[j] = NewJob /\ job_active_seconds[j] = 0
      BY DEF Init
    <2> QED BY <2>1, CallType
            DEF Init, JobsInv, Known, Charged, NotMore, EverySecondCharged, Ending, Live, NewJob
  <1>2. Inv /\ JobsInv /\ [Next]_vars => JobsInv'
    BY JobsKept, EndingKept DEF JobsInv
  <1> QED BY <1>1, <1>2, InvInit, InvStep, PTL DEF Spec

\* Whichever commands fail, are killed or interrupted, a job that still has a
\* container is in the active-job slot, or the command that gave it up was
\* reported to have failed, or its end was recorded although the container goes
\* on; after close() only the latter two.
THEOREM NoJobIsForgotten == Spec => []NoJobForgotten
  <1>1. Inv /\ JobsInv => NoJobForgotten
    BY DEF Inv, TypeOK, JobsInv, Known, Ending, NoJobForgotten, OneKnownJob, ClosedReleases
  <1>2. Spec => []Inv
    BY InvInit, InvStep, PTL DEF Spec
  <1> QED BY <1>1, <1>2, JobsAlways, PTL

\* A job that left the slot while the agent runs has been charged every second
\* it was metered.
THEOREM EverySecondIsCharged == Spec => []EverySecondCharged
  <1>1. JobsInv => EverySecondCharged
    BY DEF JobsInv, Charged
  <1> QED BY <1>1, JobsAlways, PTL

-----------------------------------------------------------------------------
(* The books: the slots used, the pending event, the best candidate.       *)

\* No wait, stop, continue or copy is reported failed that took effect.  A start
\* may still be, and the run may be interrupted.
Reported == Faults \cap {"await", "adrift", "stop", "copy"} = {}

\* Every slot is a used one but the one that the call in progress holds.
SlotsUsed ==
    phase = "agent" => evaluation_count = attempts + (IF call.at \in HoldsSlot THEN 1 ELSE 0)

\* Control points at which the active job need not be paused at its event.
Undecided == {"start", "await", "event", "finished"}

\* Whenever the active job is not being started or awaited, it is paused at its
\* pending event; an event about to be delivered is the one it is paused at.
Decided ==
    phase = "agent" =>
        /\ call.at \notin Undecided =>
              \A j \in active_jobs :
                 /\ pending_events[j] # NoEvent
                 /\ job[j].status = "paused" /\ job[j].event = pending_events[j]
        /\ call.at = "event" =>
              /\ job[call.job].status = "paused" /\ job[call.job].event = call.event
              /\ call.event # NoEvent

BooksInv == SlotsUsed /\ Decided /\ BestIsBest

\* Considering a candidate keeps the best one the best.
LEMMA ConsiderKeeps ==
    ASSUME Inv, BestIsBest, phase = "agent", NEW s \in Scores \cup {NoScore}, Consider(s)
    PROVE  BestIsBest'
  <1>1. /\ best_candidate \in Int /\ best_candidate >= -1 /\ s \in Int /\ s >= -1
        /\ shown \subseteq Int
    BY ToolRuntimeAssumption DEF Inv, TypeOK, NoScore
  <1> DEFINE best == IF s > best_candidate THEN s ELSE best_candidate
  <1>2. /\ best \in Int /\ best >= s /\ best >= best_candidate
        /\ best \in {s, best_candidate}
    BY <1>1
  <1>3. best_candidate' = best /\ shown' = shown \cup ({s} \ {NoScore})
    BY DEF Consider
  <1> HIDE DEF best
  <1>4. best \in shown' \cup {NoScore}
    BY <1>2, <1>3 DEF BestIsBest
  <1>5. \A r \in shown' : r <= best
    <2> TAKE r \in shown'
    <2>1. CASE r = s
      BY <1>2, <2>1
    <2>2. CASE r \in shown
      BY <1>1, <1>2, <2>2 DEF BestIsBest
    <2> QED BY <1>3, <2>1, <2>2
  <1> QED BY <1>3, <1>4, <1>5 DEF BestIsBest

\* Every step keeps the best candidate the best.
LEMMA BestKept == ASSUME Inv, BestIsBest, [Next]_vars PROVE BestIsBest'
  <1>0. call.score \in Scores \cup {NoScore}
    BY DEF Inv, TypeOK
  <1>1. CASE phase' # "agent"
    BY <1>1 DEF BestIsBest
  <1>2. CASE phase = "agent" /\ \E s \in Scores \cup {NoScore} : Consider(s)
    BY <1>2, ConsiderKeeps
  <1>3. CASE phase = "agent" /\ UNCHANGED <<best_candidate, shown>>
    BY <1>3 DEF BestIsBest
  <1>4. CASE phase = "agent" /\ (DeliverEvent \/ EvaluateCommand)
    BY <1>0, <1>2, <1>3, <1>4 DEF DeliverEvent, EvaluateCommand
  <1>5. CASE UNCHANGED <<best_candidate, shown>> \/ DeliverEvent \/ EvaluateCommand
    BY <1>1, <1>3, <1>4, <1>5, LoopIsOver
  <1>6. \/ UNCHANGED <<best_candidate, shown>>
        \/ DeliverEvent \/ EvaluateCommand
    BY DEF Next, vars, results, TrainStart, StartCommand, AwaitEvent, AwaitEnd, AwaitFails,
           DeliverEnd, TrainContinue, ContinueCommand, TrainStop, StopCommand, Evaluate,
           Submit, Verify, ReserveFinal, Judge, StopActiveJobs, LeaveLoop, Interrupt,
           Elapse, ExitUnseen
  <1> QED BY <1>5, <1>6

\* Every step keeps count of the slots.
LEMMA SlotsKept ==
    ASSUME Inv, JobsInv, Reported, SlotsUsed, [Next]_vars
    PROVE  SlotsUsed'
  <1> USE DEF SlotsUsed
  <1>0. /\ call \in CallRecord /\ evaluation_count \in Int /\ attempts \in Int
        /\ active_jobs \subseteq Jobs
    BY DEF Inv, TypeOK, CallRecord
  <1>n. Idle.at = "idle" /\ "idle" \notin HoldsSlot
    BY CallType DEF HoldsSlot
  <1>i. ASSUME UNCHANGED <<evaluation_count, attempts>>,
               call'.at \in HoldsSlot <=> call.at \in HoldsSlot
        PROVE  SlotsUsed'
    BY <1>i, LoopIsOver
  <1>r. ASSUME Reserve, UNCHANGED attempts, call.at \notin HoldsSlot, call'.at \in HoldsSlot
        PROVE  SlotsUsed'
    BY <1>0, <1>r, LoopIsOver DEF Reserve
  <1>f. ASSUME Release, UNCHANGED attempts, call.at \in HoldsSlot, call'.at \notin HoldsSlot
        PROVE  SlotsUsed'
    BY <1>0, <1>f, LoopIsOver DEF Release
  <1>p. ASSUME attempts' = attempts + 1, UNCHANGED evaluation_count,
               call.at \in HoldsSlot, call'.at \notin HoldsSlot
        PROVE  SlotsUsed'
    BY <1>0, <1>p, LoopIsOver
  <1>e. ASSUME phase' # "agent" PROVE SlotsUsed'
    BY <1>e
  <1>1. CASE UNCHANGED vars
    BY <1>1, <1>i DEF vars, quota
  <1>2. CASE TrainStart \/ TrainContinue \/ Evaluate
    <2>1. CASE TrainStart
      <3>1. call'.at = "start"
        BY <2>1, CallType DEF TrainStart, Points
      <3> QED BY <2>1, <1>n, <1>r, <3>1 DEF TrainStart, Free, HoldsSlot
    <2>2. CASE TrainContinue
      <3>1. call'.at = "continue"
        BY <1>0, <2>2, CallType DEF TrainContinue, Points
      <3> QED BY <2>2, <1>n, <1>r, <3>1 DEF TrainContinue, Free, HoldsSlot
    <2>3. CASE Evaluate
      <3>1. call'.at = "evaluate"
        BY <2>3, CallType DEF Evaluate, Points
      <3> QED BY <2>3, <1>n, <1>r, <3>1 DEF Evaluate, Free, HoldsSlot
    <2> QED BY <1>2, <2>1, <2>2, <2>3
  <1>3. CASE StartCommand \/ ContinueCommand
    <2>1. call.at \in HoldsSlot /\ UNCHANGED attempts
      BY <1>3 DEF StartCommand, ContinueCommand, HoldsSlot
    <2>2. CASE Release /\ call' = Idle
      BY <1>f, <1>n, <2>1, <2>2
    <2>3. CASE UNCHANGED evaluation_count /\ call' = [call EXCEPT !.at = "await"]
      <3>1. call'.at = "await"
        BY <1>0, <2>3 DEF CallRecord
      <3> QED BY <1>i, <2>1, <2>3, <3>1 DEF HoldsSlot
    <2> QED BY <1>3, <2>2, <2>3 DEF StartCommand, ContinueCommand
  <1>4. CASE AwaitEvent
    <2>1. PICK e \in Events, s \in Scores \cup {NoScore} :
             call' = [call EXCEPT !.at = "event", !.event = e, !.score = s]
      BY <1>4 DEF AwaitEvent, Reported
    <2>2. call'.at = "event"
      BY <1>0, <2>1 DEF CallRecord
    <2> QED BY <1>4, <1>p, <2>2 DEF AwaitEvent, HoldsSlot
  <1>5. CASE AwaitFails
    BY <1>5 DEF AwaitFails, Reported
  <1>6. CASE AwaitEnd
    <2>1. call'.at = "finished"
      BY <1>0, <1>6 DEF AwaitEnd, CallRecord
    <2> QED BY <1>6, <1>i, <2>1 DEF AwaitEnd, HoldsSlot, quota
  <1>7. CASE DeliverEnd
    BY <1>7, <1>f, <1>n DEF DeliverEnd, HoldsSlot
  <1>8. CASE EvaluateCommand
    BY <1>8, <1>p, <1>n DEF EvaluateCommand, HoldsSlot
  <1>9. CASE DeliverEvent \/ StopCommand
    BY <1>9, <1>i, <1>n DEF DeliverEvent, StopCommand, HoldsSlot, quota
  <1>10. CASE TrainStop \/ Submit \/ Verify
    <2>1. call'.at \in {"stop", "verify", "final", "idle"}
      <3>1. CASE TrainStop
        BY <1>0, <3>1, CallType DEF TrainStop, Points, NoEvent
      <3>2. CASE Submit \/ Verify
        BY <3>2, CallType DEF Submit, Verify, Points
      <3> QED BY <1>10, <3>1, <3>2
    <2>2. call.at \in {"idle", "verify"}
      BY <1>10, <1>n DEF TrainStop, Submit, Verify, Free
    <2> QED BY <1>10, <1>i, <2>1, <2>2 DEF TrainStop, Submit, Verify, HoldsSlot, quota
  <1>11. CASE ReserveFinal
    <2>1. CASE /\ evaluation_count' = evaluation_count + 1
               /\ call' = At("judge", NoJob, NoEvent)
      <3>1. call'.at = "judge"
        BY <2>1, CallType DEF Points
      <3> QED BY <1>0, <1>11, <2>1, <3>1, LoopIsOver DEF ReserveFinal, HoldsSlot
    <2>2. CASE call' = Idle /\ UNCHANGED evaluation_count
      BY <1>11, <1>i, <1>n, <2>2 DEF ReserveFinal, HoldsSlot
    <2> QED BY <1>11, <2>1, <2>2 DEF ReserveFinal
  <1>12. CASE Judge
    BY <1>12, <1>p, <1>n, <1>e DEF Judge, HoldsSlot
  <1>13. CASE LeaveLoop \/ Interrupt
    BY <1>13, <1>e DEF LeaveLoop, Interrupt
  <1>14. CASE StopActiveJobs
    <2>1. phase' # "agent"
      BY <1>14 DEF StopActiveJobs, JobsInv, Ending
    <2> QED BY <1>e, <2>1
  <1>15. CASE \E j \in Jobs : Elapse(j) \/ ExitUnseen(j)
    BY <1>15, <1>i DEF Elapse, ExitUnseen, quota
  <1> QED BY <1>1, <1>2, <1>3, <1>4, <1>5, <1>6, <1>7, <1>8, <1>9, <1>10, <1>11, <1>12,
             <1>13, <1>14, <1>15 DEF Next

\* Every step keeps the active job paused at its pending event.
LEMMA DecidedKept ==
    ASSUME Inv, JobsInv, Reported, Decided, [Next]_vars
    PROVE  Decided'
  <1> USE DEF Decided
  <1>0. /\ call \in CallRecord /\ active_jobs \in {{}} \cup {{j} : j \in Jobs}
        /\ job \in [Jobs -> JobRecord] /\ active_jobs \subseteq Jobs
        /\ pending_events \in [Jobs -> Events \cup {NoEvent}]
    BY DEF Inv, TypeOK, CallRecord
  <1>n. Idle.at = "idle" /\ "idle" \notin Undecided
    BY CallType DEF Undecided
  <1>e. ASSUME phase' # "agent" PROVE Decided'
    BY <1>e
  <1>i. ASSUME UNCHANGED <<active_jobs, pending_events, job>>, call.at \notin Undecided,
               call'.at # "event"
        PROVE  Decided'
    BY <1>i, LoopIsOver
  <1>u. ASSUME call'.at \in Undecided \ {"event"} PROVE Decided'
    BY <1>u DEF Undecided
  <1>x. ASSUME active_jobs' = {}, call'.at # "event" PROVE Decided'
    BY <1>x
  <1>1. CASE UNCHANGED vars
    BY <1>1 DEF vars, training
  <1>2. CASE TrainStart
    <2>1. call'.at = "start"
      BY <1>2, CallType DEF TrainStart, Points
    <2> QED BY <1>u, <2>1 DEF Undecided
  <1>3. CASE StartCommand
    <2>1. CASE call' = Idle /\ UNCHANGED active_jobs
      BY <1>3, <1>n, <1>x, <2>1 DEF StartCommand, Inv, CallInv
    <2>2. CASE call' = [call EXCEPT !.at = "await"]
      <3>1. call'.at = "await"
        BY <1>0, <2>2 DEF CallRecord
      <3> QED BY <1>u, <3>1 DEF Undecided
    <2> QED BY <1>3, <2>1, <2>2 DEF StartCommand
  <1>4. CASE AwaitEvent
    <2> DEFINE j == call.job
    <2>1. j \in Jobs
      BY <1>0, <1>4 DEF AwaitEvent, Inv, CallInv, OfActiveJob
    <2>2. PICK e \in Events, s \in Scores \cup {NoScore} :
             /\ \E t \in job[j].secs .. job[j].budget + Slack :
                   job' = [job EXCEPT ![j].status = "paused", ![j].event = e, ![j].secs = t]
             /\ call' = [call EXCEPT !.at = "event", !.event = e, !.score = s]
      BY <1>4 DEF AwaitEvent, Reported
    <2>3. PICK t \in job[j].secs .. job[j].budget + Slack :
             job' = [job EXCEPT ![j].status = "paused", ![j].event = e, ![j].secs = t]
      BY <2>2
    <2>4. call'.at = "event" /\ call'.event = e /\ call'.job = j
      BY <1>0, <2>2 DEF CallRecord
    <2>5. job'[j].status = "paused" /\ job'[j].event = e
      BY <1>0, <2>1, <2>3 DEF JobRecord
    <2>6. e # NoEvent
      BY ToolRuntimeAssumption DEF Events, NoEvent
    <2> QED BY <2>4, <2>5, <2>6 DEF Undecided
  <1>5. CASE AwaitFails
    BY <1>5 DEF AwaitFails, Reported
  <1>6. CASE AwaitEnd
    <2>1. call'.at = "finished"
      BY <1>0, <1>6 DEF AwaitEnd, CallRecord
    <2> QED BY <1>u, <2>1 DEF Undecided
  <1>7. CASE DeliverEnd
    <2>1. active_jobs' = {}
      BY <1>0, <1>7 DEF DeliverEnd, Discard, Inv, CallInv, OfActiveJob
    <2> QED BY <1>7, <1>n, <1>x, <2>1 DEF DeliverEnd
  <1>8. CASE DeliverEvent
    <2>1. call.job \in Jobs /\ active_jobs = {call.job}
      BY <1>0, <1>8 DEF DeliverEvent, Inv, CallInv, OfActiveJob
    <2>2. /\ pending_events' = [pending_events EXCEPT ![call.job] = call.event]
          /\ UNCHANGED <<active_jobs, job, phase>> /\ call' = Idle
      BY <1>8 DEF DeliverEvent, Reported
    <2>3. pending_events'[call.job] = call.event
      BY <1>0, <2>1, <2>2
    <2> QED BY <1>8, <1>n, <2>1, <2>2, <2>3 DEF DeliverEvent
  <1>9. CASE ContinueCommand
    <2>1. CASE call' = [call EXCEPT !.at = "await"]
      <3>1. call'.at = "await"
        BY <1>0, <2>1 DEF CallRecord
      <3> QED BY <1>u, <3>1 DEF Undecided
    <2>2. CASE call' = Idle /\ UNCHANGED job
      BY <1>9, <1>i, <1>n, <2>2 DEF ContinueCommand, training, Undecided
    <2> QED BY <1>9, <2>1, <2>2 DEF ContinueCommand, Reported
  <1>10. CASE StopCommand
    <2>1. active_jobs' = {}
      BY <1>0, <1>10 DEF StopCommand, Discard, Inv, CallInv, OfActiveJob, Reported
    <2> QED BY <1>10, <1>n, <1>x, <2>1 DEF StopCommand
  <1>11. CASE TrainContinue \/ TrainStop \/ Evaluate \/ Submit
    <2>1. call'.at # "event"
      <3>1. CASE TrainContinue
        BY <1>0, <3>1, CallType DEF TrainContinue, Points
      <3>2. CASE TrainStop
        BY <1>0, <3>2, CallType DEF TrainStop, Points, NoEvent
      <3>3. CASE Evaluate \/ Submit
        BY <3>3, CallType DEF Evaluate, Submit, Points
      <3> QED BY <1>11, <3>1, <3>2, <3>3
    <2> QED BY <1>11, <1>i, <1>n, <2>1
            DEF TrainContinue, TrainStop, Evaluate, Submit, Free, training
  <1>12. CASE EvaluateCommand \/ Verify \/ ReserveFinal
    <2>1. call'.at # "event"
      BY <1>12, <1>n, CallType DEF EvaluateCommand, Verify, ReserveFinal, Points
    <2> QED BY <1>12, <1>i, <2>1
            DEF EvaluateCommand, Verify, ReserveFinal, training, Undecided
  <1>13. CASE Judge
    BY <1>13, <1>e, <1>i, <1>n DEF Judge, training, Undecided
  <1>14. CASE StopActiveJobs
    BY <1>14, <1>n, <1>x DEF StopActiveJobs
  <1>15. CASE LeaveLoop \/ Interrupt
    BY <1>15, <1>e DEF LeaveLoop, Interrupt
  <1>16. CASE \E j \in Jobs : Elapse(j) \/ ExitUnseen(j)
    <2>1. PICK i \in Jobs : Elapse(i) \/ ExitUnseen(i)
      BY <1>16
    <2>2. /\ UNCHANGED <<call, phase, active_jobs, pending_events>>
          /\ job[i].status # "paused"
          /\ \A j \in Jobs \ {i} : job'[j] = job[j]
      BY <1>0, <2>1 DEF Elapse, ExitUnseen, training, JobRecord
    <2>3. call.at = "event" => call.job \in Jobs
      BY <1>0 DEF Inv, CallInv, OfActiveJob
    <2>4. \A j \in Jobs : job[j].status = "paused" => job'[j] = job[j]
      BY <2>2
    <2> QED BY <1>0, <2>2, <2>3, <2>4
  <1> QED BY <1>1, <1>2, <1>3, <1>4, <1>5, <1>6, <1>7, <1>8, <1>9, <1>10, <1>11, <1>12,
             <1>13, <1>14, <1>15, <1>16 DEF Next

\* Provided that only starts and interrupts are misreported, the slots, the
\* pending events and the best candidate between two tool calls are what the
\* calls made so far leave.
THEOREM BooksAreKept == Reported => (Spec => []BooksHold)
  <1> SUFFICES ASSUME Reported PROVE Spec => []BooksHold
    OBVIOUS
  <1>1. Init => BooksInv
    BY CallType
       DEF Init, BooksInv, SlotsUsed, Decided, BestIsBest, Undecided, HoldsSlot
  <1>2. Inv /\ JobsInv /\ BooksInv /\ [Next]_vars => BooksInv'
    BY BestKept, SlotsKept, DecidedKept DEF BooksInv
  <1>3. Inv /\ BooksInv => BooksHold
    <2> SUFFICES ASSUME Inv, BooksInv PROVE BooksHold
      OBVIOUS
    <2>1. evaluation_count \in Nat /\ attempts \in Nat
      BY DEF Inv, TypeOK
    <2> QED BY <2>1, CallType
            DEF BooksInv, SlotsUsed, Decided, BooksHold, SlotsAccounted,
                EventAwaitsDecision, Free, HoldsSlot, Undecided
  <1>4. Spec => []Inv
    BY InvInit, InvStep, PTL DEF Spec
  <1> QED BY <1>1, <1>2, <1>3, <1>4, JobsAlways, PTL DEF Spec

-----------------------------------------------------------------------------
(* The total.  If no start is lost, no wait or continue is reported failed *)
(* that took effect, and the run is not interrupted, then a job is metered *)
(* only while it is waited for, and the seconds of all jobs are what the   *)
(* runtime has accounted plus what the active job has not been charged yet. *)

\* Every job that is metered is waited for.  Stops, removals, inspections and
\* copies may still fail.
Supervised == Faults \cap {"lost", "await", "adrift", "interrupt"} = {}

OnlyAwaited ==
    /\ \A j \in Jobs :
          /\ job[j].status \in {"running", "stuck", "exited"} => Awaited(j)
          /\ job[j].status = "none" => job[j].secs = 0
    /\ call.at \in OfActiveJob \cup {"start"} => phase = "agent"
    /\ call.at = "start" => job[call.job].status = "none"

Added ==
    phase = "agent" =>
        /\ active_jobs = {} => TotalSeconds = training_active_seconds
        /\ \A j \in active_jobs :
              TotalSeconds = training_active_seconds + (job[j].secs - job_active_seconds[j])

TotalInv == OnlyAwaited /\ Added /\ TotalBounded

\* What the provers need of the quantities.
LEMMA Seconds ==
    ASSUME Inv
    PROVE  /\ job \in [Jobs -> JobRecord] /\ call \in CallRecord /\ active_jobs \subseteq Jobs
           /\ active_jobs \in {{}} \cup {{j} : j \in Jobs}
           /\ training_active_seconds \in Int
           /\ \A j \in Jobs : /\ job[j] \in JobRecord /\ job[j].secs \in Nat
                              /\ job[j].budget \in Nat /\ job_active_seconds[j] \in Nat
           /\ max_total_train_seconds \in Int /\ Slack \in Nat /\ max_train_job_seconds \in Nat
  BY ToolRuntimeAssumption DEF Inv, TypeOK, CallRecord, JobRecord

\* The seconds of the jobs are a number; a step after which each job shows the
\* same seconds keeps their total.
LEMMA TotalSame ==
    ASSUME Inv
    PROVE  /\ TotalSeconds \in Int
           /\ (\A j \in Jobs : job'[j].secs = job[j].secs) => TotalSeconds' = TotalSeconds
  <1> DEFINE f == [j \in Jobs |-> job[j].secs]
  <1>1. SumFunctionOnSet(f, Jobs) \in Int
    BY Seconds, SumSplits, ToolRuntimeAssumption
  <1>2. TotalSeconds = SumFunctionOnSet(f, Jobs)
    BY DEF TotalSeconds, SumFunction
  <1>3. ASSUME \A j \in Jobs : job'[j].secs = job[j].secs PROVE TotalSeconds' = TotalSeconds
    <2>1. [j \in Jobs |-> job'[j].secs] = [j \in Jobs |-> job[j].secs]
      BY <1>3
    <2> QED BY <2>1 DEF TotalSeconds
  <1> QED BY <1>1, <1>2, <1>3

\* A step that adds to the seconds of one job adds as much to the total.
LEMMA TotalGrows ==
    ASSUME Inv, NEW j \in Jobs, NEW t \in Nat, job'[j].secs = t,
           \A i \in Jobs \ {j} : job'[i] = job[i]
    PROVE  TotalSeconds' = TotalSeconds + (t - job[j].secs)
  <1> DEFINE f == [i \in Jobs |-> job[i].secs]
             d == [i \in Jobs |-> job'[i].secs]
  <1>1. f \in [Jobs -> Int] /\ d \in [Jobs -> Int]
    BY Seconds
  <1>2. f[j] = job[j].secs /\ d[j] = t /\ \A i \in Jobs \ {j} : f[i] = d[i]
    OBVIOUS
  <1>3. TotalSeconds = SumFunction(f) /\ TotalSeconds' = SumFunction(d)
    BY DEF TotalSeconds
  <1> HIDE DEF f, d
  <1>4. SumFunction(d) = SumFunction(f) + (d[j] - f[j])
    BY <1>1, <1>2, SumChanges, ToolRuntimeAssumption
  <1> QED BY <1>2, <1>3, <1>4

\* A step that charges at most what is due, and leaves the seconds alone.
LEMMA TotalKept ==
    ASSUME Inv, JobsInv, TotalInv, [Next]_vars,
           \A j \in Jobs : job'[j].secs = job[j].secs,
           phase' = "agent" =>
              \/ UNCHANGED <<active_jobs, training_active_seconds, job_active_seconds>>
              \/ \E j \in active_jobs : Account(j) /\ active_jobs' \in {active_jobs, {}}
    PROVE  Added' /\ TotalBounded'
  <1>1. TotalSeconds' = TotalSeconds /\ TotalSeconds \in Int
    BY TotalSame
  <1>2. TotalBounded'
    BY <1>1 DEF TotalInv, TotalBounded
  <1>3. CASE UNCHANGED <<active_jobs, training_active_seconds, job_active_seconds>>
    <2>1. Added'
      BY <1>1, <1>3, Seconds, LoopIsOver DEF TotalInv, Added
    <2> QED BY <1>2, <2>1
  <1>4. CASE phase' # "agent"
    BY <1>2, <1>4 DEF Added
  <1>5. ASSUME NEW j \in active_jobs, Account(j), active_jobs' \in {active_jobs, {}},
               phase' = "agent"
        PROVE  Added'
    <2>1. j \in Jobs /\ active_jobs = {j} /\ phase = "agent"
      BY <1>5, Seconds, LoopIsOver
    <2>2. TotalSeconds = training_active_seconds + (job[j].secs - job_active_seconds[j])
      BY <2>1 DEF TotalInv, Added
    <2>3. job_active_seconds[j] <= job[j].secs
      BY <2>1 DEF JobsInv, Charged, NotMore
    <2>4. /\ training_active_seconds'
               = training_active_seconds + (job[j].secs - job_active_seconds[j])
          /\ job_active_seconds'[j] = job[j].secs
      <3> DEFINE n == IF job[j].secs > job_active_seconds[j] THEN job[j].secs
                      ELSE job_active_seconds[j]
      <3>1. n = job[j].secs
        BY <2>1, <2>3, Seconds
      <3>2. /\ job_active_seconds' = [job_active_seconds EXCEPT ![j] = n]
            /\ training_active_seconds' = training_active_seconds + (n - job_active_seconds[j])
        BY <1>5 DEF Account
      <3>3. job_active_seconds \in [Jobs -> Nat]
        BY DEF Inv, TypeOK
      <3> HIDE DEF n
      <3> QED BY <2>1, <3>1, <3>2, <3>3
    <2>5. training_active_seconds' \in Int /\ job[j].secs \in Int
      BY <2>1, <2>4, Seconds
    <2> QED BY <1>1, <1>5, <2>1, <2>2, <2>4, <2>5 DEF Added
  <1> QED BY <1>2, <1>3, <1>4, <1>5

\* A stop meters no job, and lets none run on that was not running.
LEMMA StopEffects ==
    ASSUME Inv, StopCommand \/ StopActiveJobs
    PROVE  \A i \in Jobs :
              /\ job'[i].secs = job[i].secs
              /\ \/ job'[i].status \in {job[i].status, "ended", "adrift"}
                 \/ job[i].status = "running"
  <1>0. job \in [Jobs -> JobRecord] /\ active_jobs \subseteq Jobs
    BY Seconds
  <1> DEFINE Kept(k) ==
        \A i \in Jobs : /\ k[i].secs = job[i].secs
                        /\ \/ k[i].status \in {job[i].status, "ended", "adrift"}
                           \/ job[i].status = "running"
  <1>1. ASSUME NEW j \in Jobs, NEW k \in {job, CutShort(j)} \cup Stopped(j) PROVE Kept(k)
    <2>1. Spares(k, j)
      BY <1>0, StopSpares
    <2>2. \/ k[j].status \in {job[j].status, "ended", "adrift"}
          \/ job[j].status = "running"
      BY <1>0, StopSpares
    <2> QED BY <2>1, <2>2 DEF Spares
  <1>2. ASSUME NEW j \in Jobs, NEW k \in {job, CutShort(j)}
        PROVE  Kept([k EXCEPT ![j].left = TRUE])
    <2> DEFINE m == [k EXCEPT ![j].left = TRUE]
    <2>1. Kept(k) /\ k \in [Jobs -> JobRecord]
      BY <1>0, <1>1, StopSpares DEF Spares
    <2>2. /\ \A i \in Jobs : m[i].secs = k[i].secs
          /\ \A i \in Jobs : m[i].status = k[i].status
      BY <1>0, <2>1, StopSpares
    <2> HIDE DEF m
    <2> QED BY <2>1, <2>2
  <1>3. CASE StopCommand
    <2>1. call.job \in Jobs /\ job' \in {job, CutShort(call.job)} \cup Stopped(call.job)
      BY <1>0, <1>3 DEF StopCommand, Inv, CallInv, OfActiveJob
    <2>2. Kept(job')
      BY <1>1, <2>1
    <2> QED BY <2>2
  <1>4. CASE StopActiveJobs
    <2>1. CASE UNCHANGED job
      BY <2>1
    <2>2. ASSUME NEW j \in Jobs, job' \in Stopped(j) PROVE Kept(job')
      BY <1>1, <2>2
    <2>3. ASSUME NEW j \in Jobs, NEW k \in {job, CutShort(j)},
                 job' = [k EXCEPT ![j].left = TRUE]
          PROVE  Kept(job')
      BY <1>2, <2>3
    <2>4. Kept(job') \/ UNCHANGED job
      BY <1>0, <1>4, <2>2, <2>3 DEF StopActiveJobs
    <2> QED BY <2>1, <2>4
  <1> QED BY <1>3, <1>4

\* No step lets a job be metered that is not waited for.
LEMMA OnlyAwaitedKept ==
    ASSUME Inv, Supervised, OnlyAwaited, [Next]_vars
    PROVE  OnlyAwaited'
  <1> DEFINE Computing == {"running", "stuck", "exited"}
             Calls == OfActiveJob \cup {"start"}
  <1> USE DEF OnlyAwaited
  <1>0. /\ job \in [Jobs -> JobRecord] /\ call \in CallRecord
        /\ call.at \in OfActiveJob => call.job \in Jobs /\ active_jobs = {call.job}
    BY Seconds DEF Inv, CallInv
  <1>n. Idle.at = "idle" /\ "idle" \notin Calls
    BY CallType DEF OfActiveJob
  <1>q. call.at # "await" => \A j \in Jobs : job[j].status \notin Computing
    BY DEF Awaited
  <1>i. ASSUME call.at # "await", call'.at \notin Calls \/ phase' = "agent",
               call'.at = "start" => job'[call'.job].status = "none",
               \A j \in Jobs :
                  /\ job'[j].status \in {job[j].status, "ended", "adrift"}
                  /\ job'[j].secs = job[j].secs
        PROVE  OnlyAwaited'
    BY <1>i, <1>q
  <1>a. ASSUME NEW j \in Jobs, call.at # "await", call'.at = "await", call'.job = j,
               phase' = "agent",
               job'[j].status = "running", \A i \in Jobs \ {j} : job'[i] = job[i]
        PROVE  OnlyAwaited'
    BY <1>a, <1>q DEF Awaited
  <1>e. ASSUME NEW j \in Jobs, call.at = "await", call.job = j, phase' = "agent",
               call'.at # "start",
               job'[j].status \in {"paused", "ended"}, \A i \in Jobs \ {j} : job'[i] = job[i]
        PROVE  OnlyAwaited'
    BY <1>e DEF Awaited
  <1>1. CASE UNCHANGED vars
    BY <1>1 DEF vars, Awaited
  <1>2. CASE TrainStart
    <2>1. PICK j \in Jobs, b \in 1 .. max_train_job_seconds :
             /\ job[j].status = "none" /\ call' = At("start", j, NoEvent)
             /\ job' = [job EXCEPT ![j].budget = IF b < Remaining THEN b ELSE Remaining]
      BY <1>2 DEF TrainStart
    <2>2. call'.at = "start" /\ call'.job = j
      BY <2>1, CallType DEF Points, NoEvent
    <2>3. \A i \in Jobs : job'[i].status = job[i].status /\ job'[i].secs = job[i].secs
      BY <1>0, <2>1 DEF JobRecord
    <2> QED BY <1>2, <1>i, <1>n, <2>1, <2>2, <2>3 DEF TrainStart, Free
  <1>3. CASE StartCommand
    <2> DEFINE j == call.job
    <2>0. j \in Jobs /\ call.at = "start" /\ phase' = "agent"
      BY <1>3 DEF StartCommand, Inv, CallInv
    <2>1. CASE /\ job' = [job EXCEPT ![j].status = "running"]
               /\ call' = [call EXCEPT !.at = "await"]
      <3>1. /\ job'[j].status = "running" /\ \A i \in Jobs \ {j} : job'[i] = job[i]
            /\ call'.at = "await" /\ call'.job = j
        BY <1>0, <2>0, <2>1 DEF JobRecord, CallRecord
      <3> QED BY <1>a, <2>0, <3>1
    <2>2. CASE job' = [job EXCEPT ![j].budget = 0] /\ call' = Idle
      <3>1. \A i \in Jobs : job'[i].status = job[i].status /\ job'[i].secs = job[i].secs
        BY <1>0, <2>0, <2>2 DEF JobRecord
      <3> QED BY <1>i, <1>n, <2>0, <2>2, <3>1
    <2> QED BY <1>3, <2>1, <2>2 DEF StartCommand, Supervised
  <1>4. CASE AwaitEvent
    <2> DEFINE j == call.job
    <2>1. j \in Jobs /\ call.at = "await" /\ phase' = "agent"
      BY <1>0, <1>4 DEF AwaitEvent, OfActiveJob
    <2>2. PICK e \in Events, s \in Scores \cup {NoScore} :
             /\ \E t \in job[j].secs .. job[j].budget + Slack :
                   job' = [job EXCEPT ![j].status = "paused", ![j].event = e, ![j].secs = t]
             /\ call' = [call EXCEPT !.at = "event", !.event = e, !.score = s]
      BY <1>4 DEF AwaitEvent, Supervised
    <2>3. PICK t \in job[j].secs .. job[j].budget + Slack :
             job' = [job EXCEPT ![j].status = "paused", ![j].event = e, ![j].secs = t]
      BY <2>2
    <2>4. /\ job'[j].status = "paused" /\ \A i \in Jobs \ {j} : job'[i] = job[i]
          /\ call'.at = "event"
      BY <1>0, <2>1, <2>2, <2>3 DEF JobRecord, CallRecord
    <2> QED BY <1>e, <2>1, <2>4
  <1>5. CASE AwaitEnd
    <2> DEFINE j == call.job
    <2>1. j \in Jobs /\ call.at = "await" /\ phase' = "agent"
      BY <1>0, <1>5 DEF AwaitEnd, OfActiveJob
    <2>2. PICK t \in job[j].secs .. job[j].budget + Slack, l \in BOOLEAN :
             job' = [job EXCEPT ![j].status = "ended", ![j].secs = t, ![j].loose = l]
      BY <1>5 DEF AwaitEnd
    <2>3. /\ job'[j].status = "ended" /\ \A i \in Jobs \ {j} : job'[i] = job[i]
          /\ call'.at = "finished"
      BY <1>0, <1>5, <2>1, <2>2 DEF AwaitEnd, JobRecord, CallRecord
    <2> QED BY <1>e, <2>1, <2>3
  <1>6. CASE AwaitFails \/ Interrupt
    BY <1>6 DEF AwaitFails, Interrupt, Supervised
  <1>7. CASE \/ DeliverEnd \/ DeliverEvent \/ EvaluateCommand \/ Verify \/ ReserveFinal
             \/ Judge \/ Evaluate \/ Submit \/ LeaveLoop
    <2>1. UNCHANGED job /\ call.at # "await"
      BY <1>7, <1>n DEF DeliverEnd, DeliverEvent, EvaluateCommand, Verify, ReserveFinal,
                  Judge, Evaluate, Submit, LeaveLoop, Free
    <2>2. call'.at \in {"idle", "final", "judge", "closing", "evaluate", "verify"}
      <3>1. CASE DeliverEnd \/ DeliverEvent \/ EvaluateCommand \/ LeaveLoop
        BY <3>1, <1>n DEF DeliverEnd, DeliverEvent, EvaluateCommand, LeaveLoop, Free
      <3>2. CASE Verify \/ ReserveFinal \/ Judge \/ Evaluate \/ Submit
        BY <3>2, <1>n, CallType DEF Verify, ReserveFinal, Judge, Evaluate, Submit, Points
      <3> QED BY <1>7, <3>1, <3>2
    <2>3. call'.at \notin Calls
      BY <2>2 DEF OfActiveJob
    <2> QED BY <1>i, <2>1, <2>3
  <1>8. CASE TrainContinue \/ TrainStop
    <2>1. call'.at \in {"continue", "stop"}
      <3>1. CASE TrainContinue
        BY <1>0, <3>1, Seconds, CallType DEF TrainContinue, Points
      <3>2. CASE TrainStop
        BY <1>0, <3>2, Seconds, CallType DEF TrainStop, Points, NoEvent
      <3> QED BY <1>8, <3>1, <3>2
    <2> QED BY <1>8, <1>i, <1>n, <2>1 DEF TrainContinue, TrainStop, Free
  <1>9. CASE ContinueCommand
    <2> DEFINE j == call.job
    <2>0. j \in Jobs /\ call.at = "continue" /\ phase' = "agent"
      BY <1>0, <1>9 DEF ContinueCommand, OfActiveJob
    <2>1. CASE job' = Resumed(j) /\ call' = [call EXCEPT !.at = "await"]
      <3>1. /\ job'[j].status = "running" /\ \A i \in Jobs \ {j} : job'[i] = job[i]
            /\ call'.at = "await" /\ call'.job = j
        BY <1>0, <2>0, <2>1 DEF Resumed, JobRecord, CallRecord
      <3> QED BY <1>a, <2>0, <3>1
    <2>2. CASE UNCHANGED job /\ call' = Idle
      BY <1>i, <1>n, <2>0, <2>2
    <2> QED BY <1>9, <2>1, <2>2 DEF ContinueCommand, Supervised
  <1>10. CASE StopCommand \/ StopActiveJobs
    <2>1. call.at # "await" /\ call' = Idle
      BY <1>10, <1>n DEF StopCommand, StopActiveJobs
    <2>2. \A i \in Jobs : /\ job'[i].status \in {job[i].status, "ended", "adrift"}
                         /\ job'[i].secs = job[i].secs
      BY <1>10, <1>q, <2>1, StopEffects
    <2> QED BY <1>i, <1>n, <2>1, <2>2
  <1>11. CASE \E j \in Jobs : Elapse(j) \/ ExitUnseen(j)
    BY <1>11 DEF Elapse, ExitUnseen
  <1> QED BY <1>1, <1>2, <1>3, <1>4, <1>5, <1>6, <1>7, <1>8, <1>9, <1>10, <1>11 DEF Next

\* Every step keeps the total accounted for, and bounded.
LEMMA AddedKept ==
    ASSUME Inv, JobsInv, Supervised, TotalInv, [Next]_vars
    PROVE  Added' /\ TotalBounded'
  <1>0. /\ job \in [Jobs -> JobRecord] /\ call \in CallRecord
        /\ call.at \in OfActiveJob =>
              call.job \in Jobs /\ active_jobs = {call.job} /\ phase = "agent"
    BY Seconds DEF Inv, CallInv, TotalInv, OnlyAwaited
  <1>i. ASSUME \A j \in Jobs : job'[j].secs = job[j].secs,
               UNCHANGED <<active_jobs, training_active_seconds, job_active_seconds>>
        PROVE  Added' /\ TotalBounded'
    BY <1>i, TotalKept
  <1>w. ASSUME call.at = "await", NEW t \in job[call.job].secs .. job[call.job].budget + Slack,
               job'[call.job].secs = t, \A i \in Jobs \ {call.job} : job'[i] = job[i],
               UNCHANGED training
        PROVE  Added' /\ TotalBounded'
    <2> DEFINE j == call.job
    <2>1. j \in Jobs /\ active_jobs = {j} /\ phase = "agent" /\ j \in active_jobs
      BY <1>0, <1>w DEF OfActiveJob
    <2>2. /\ job[j].secs \in Nat /\ job[j].budget \in Nat /\ job_active_seconds[j] \in Nat
          /\ training_active_seconds \in Int /\ Slack \in Nat /\ max_total_train_seconds \in Int
      BY <2>1, Seconds
    <2>3. t \in Nat /\ t <= job[j].budget + Slack
      BY <1>w, <2>2
    <2>4. TotalSeconds' = TotalSeconds + (t - job[j].secs)
      BY <1>w, <2>1, <2>3, TotalGrows
    <2>5. TotalSeconds = training_active_seconds + (job[j].secs - job_active_seconds[j])
      BY <2>1 DEF TotalInv, Added
    <2>6. training_active_seconds - job_active_seconds[j] + job[j].budget
             <= max_total_train_seconds
      BY <2>1 DEF Inv, GrantsFit
    <2>7. TotalSeconds' = training_active_seconds + (t - job_active_seconds[j])
      BY <2>2, <2>3, <2>4, <2>5
    <2>8. TotalSeconds' <= max_total_train_seconds + Slack
      BY <2>2, <2>3, <2>6, <2>7
    <2>9. Added'
      BY <1>w, <2>1, <2>7 DEF Added, training
    <2> QED BY <2>8, <2>9 DEF TotalBounded
  <1>1. CASE \/ UNCHANGED vars \/ TrainContinue \/ TrainStop \/ Evaluate \/ EvaluateCommand
             \/ Submit \/ Verify \/ ReserveFinal \/ Judge \/ LeaveLoop \/ Interrupt
    <2>1. UNCHANGED <<training, job>>
      BY <1>1 DEF vars, TrainContinue, TrainStop, Evaluate, EvaluateCommand, Submit,
                  Verify, ReserveFinal, Judge, LeaveLoop, Interrupt
    <2> QED BY <1>i, <2>1 DEF training
  <1>2. CASE TrainStart
    <2>1. UNCHANGED training /\ \E b : \E j \in Jobs : job' = [job EXCEPT ![j].budget = b]
      BY <1>2 DEF TrainStart
    <2>2. \A j \in Jobs : job'[j].secs = job[j].secs
      BY <1>0, <2>1 DEF JobRecord
    <2> QED BY <1>i, <2>1, <2>2 DEF training
  <1>3. CASE StartCommand
    <2> DEFINE j == call.job
    <2>0. /\ j \in Jobs /\ active_jobs = {} /\ phase = "agent" /\ job[j].status = "none"
          /\ UNCHANGED <<training_active_seconds, job_active_seconds, phase>>
      BY <1>3 DEF StartCommand, Inv, CallInv, TotalInv, OnlyAwaited
    <2>1. CASE /\ job' = [job EXCEPT ![j].status = "running"]
               /\ active_jobs' = active_jobs \cup {j}
      <3>1. \A i \in Jobs : job'[i].secs = job[i].secs
        BY <1>0, <2>0, <2>1 DEF JobRecord
      <3>2. TotalSeconds' = TotalSeconds /\ TotalSeconds \in Int
        BY <3>1, TotalSame
      <3>3. TotalSeconds = training_active_seconds
        BY <2>0 DEF TotalInv, Added
      <3>4. job[j].secs = 0 /\ job_active_seconds[j] = 0
        <4>1. job[j].secs = 0 /\ job_active_seconds[j] <= job[j].secs
          BY <2>0 DEF TotalInv, OnlyAwaited, JobsInv, Charged, NotMore
        <4> QED BY <2>0, <4>1, Seconds
      <3>5. Added'
        BY <2>0, <2>1, <3>1, <3>2, <3>3, <3>4 DEF Added
      <3> QED BY <3>2, <3>5 DEF TotalInv, TotalBounded
    <2>2. CASE job' = [job EXCEPT ![j].budget = 0] /\ UNCHANGED active_jobs
      <3>1. \A i \in Jobs : job'[i].secs = job[i].secs
        BY <1>0, <2>0, <2>2 DEF JobRecord
      <3> QED BY <1>i, <2>0, <2>2, <3>1
    <2> QED BY <1>3, <2>1, <2>2 DEF StartCommand, Supervised
  <1>4. CASE AwaitEvent \/ AwaitEnd
    <2> DEFINE j == call.job
    <2>1. /\ j \in Jobs /\ call.at = "await" /\ UNCHANGED training
      BY <1>0, <1>4 DEF AwaitEvent, AwaitEnd, OfActiveJob
    <2>2. PICK t \in job[j].secs .. job[j].budget + Slack :
             \/ \E e \in Events :
                   job' = [job EXCEPT ![j].status = "paused", ![j].event = e, ![j].secs = t]
             \/ \E l \in BOOLEAN :
                   job' = [job EXCEPT ![j].status = "ended", ![j].secs = t, ![j].loose = l]
      <3>1. CASE AwaitEvent
        BY <3>1 DEF AwaitEvent
      <3>2. CASE AwaitEnd
        BY <3>2 DEF AwaitEnd
      <3> QED BY <1>4, <3>1, <3>2
    <2>3. job'[j].secs = t /\ \A i \in Jobs \ {j} : job'[i] = job[i]
      <3>1. ASSUME NEW e \in Events,
                   job' = [job EXCEPT ![j].status = "paused", ![j].event = e, ![j].secs = t]
            PROVE  job'[j].secs = t /\ \A i \in Jobs \ {j} : job'[i] = job[i]
        BY <1>0, <2>1, <3>1 DEF JobRecord
      <3>2. ASSUME NEW l \in BOOLEAN,
                   job' = [job EXCEPT ![j].status = "ended", ![j].secs = t, ![j].loose = l]
            PROVE  job'[j].secs = t /\ \A i \in Jobs \ {j} : job'[i] = job[i]
        BY <1>0, <2>1, <3>2 DEF JobRecord
      <3> QED BY <2>2, <3>1, <3>2
    <2> QED BY <1>w, <2>1, <2>3
  <1>5. CASE AwaitFails
    BY <1>5 DEF AwaitFails, Supervised
  <1>6. CASE DeliverEnd \/ DeliverEvent
    <2>1. /\ Account(call.job) /\ UNCHANGED job /\ call.job \in active_jobs
          /\ active_jobs' \in {active_jobs, {}}
      BY <1>0, <1>6 DEF DeliverEnd, DeliverEvent, Discard, OfActiveJob
    <2> QED BY <2>1, TotalKept
  <1>7. CASE ContinueCommand
    <2>1. call.job \in Jobs /\ UNCHANGED training
          /\ job' \in {job, Resumed(call.job), [job EXCEPT ![call.job].status = "adrift"]}
      BY <1>0, <1>7 DEF ContinueCommand, OfActiveJob
    <2>2. \A i \in Jobs : job'[i].secs = job[i].secs
      BY <1>0, <2>1 DEF Resumed, JobRecord
    <2> QED BY <1>i, <2>1, <2>2 DEF training
  <1>8. CASE StopCommand
    <2>1. call.job \in Jobs /\ active_jobs = {call.job}
      BY <1>0, <1>8 DEF StopCommand, OfActiveJob
    <2>2. \A i \in Jobs : job'[i].secs = job[i].secs
      BY <1>8, StopEffects
    <2>3. CASE UNCHANGED training
      BY <1>i, <2>2, <2>3 DEF training
    <2>4. CASE Account(call.job) /\ Discard(call.job)
      <3>1. active_jobs' = {} /\ call.job \in active_jobs
        BY <2>1, <2>4 DEF Discard
      <3> QED BY <2>2, <2>4, <3>1, TotalKept
    <2> QED BY <1>8, <2>3, <2>4 DEF StopCommand
  <1>9. CASE StopActiveJobs
    <2>1. phase' # "agent"
      BY <1>9 DEF StopActiveJobs, JobsInv, Ending
    <2>2. \A i \in Jobs : job'[i].secs = job[i].secs
      BY <1>9, StopEffects
    <2> QED BY <2>1, <2>2, TotalKept
  <1>10. CASE \E j \in Jobs : Elapse(j) \/ ExitUnseen(j)
    BY <1>10 DEF Elapse, ExitUnseen, TotalInv, OnlyAwaited
  <1> QED BY <1>1, <1>2, <1>3, <1>4, <1>5, <1>6, <1>7, <1>8, <1>9, <1>10 DEF Next

\* As long as every job that is metered is waited for, the jobs of a run together
\* exceed its total training time by no more than one job may overrun its budget
\* while it is awaited, for any number of jobs.
THEOREM TheTotalIsBounded == Supervised => (Spec => []TotalBounded)
  <1> SUFFICES ASSUME Supervised PROVE Spec => []TotalBounded
    OBVIOUS
  <1>1. Init => TotalInv
    <2> SUFFICES ASSUME Init PROVE TotalInv
      OBVIOUS
    <2>1. \A j \in Jobs : job[j].status = "none" /\ job[j].secs = 0
      BY DEF Init, NewJob
    <2>2. TotalSeconds = 0
      <3> DEFINE f == [j \in Jobs |-> job[j].secs]
      <3>1. SumFunctionOnSet(f, Jobs) = 0
        BY <2>1, SumOfZeros, ToolRuntimeAssumption
      <3> QED BY <3>1 DEF TotalSeconds, SumFunction
    <2>3. OnlyAwaited
      BY <2>1, CallType DEF OnlyAwaited, Init, OfActiveJob
    <2>4. Added
      BY <2>2 DEF Added, Init
    <2>5. TotalBounded
      BY <2>2, ToolRuntimeAssumption DEF TotalBounded
    <2> QED BY <2>3, <2>4, <2>5 DEF TotalInv
  <1>2. Inv /\ JobsInv /\ TotalInv /\ [Next]_vars => TotalInv'
    BY OnlyAwaitedKept, AddedKept DEF TotalInv
  <1>3. TotalInv => TotalBounded
    BY DEF TotalInv
  <1>4. Spec => []Inv
    BY InvInit, InvStep, PTL DEF Spec
  <1> QED BY <1>1, <1>2, <1>3, <1>4, JobsAlways, PTL DEF Spec
=============================================================================
