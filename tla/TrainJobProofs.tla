--------------------------- MODULE TrainJobProofs ---------------------------
(***************************************************************************)
(* Theorems about TrainJob, for every set of controller processes, every   *)
(* budget, every number of epochs and every set of faults, where a theorem *)
(* does not name faults that it excludes.                                  *)
(***************************************************************************)
EXTENDS TrainJob, TLAPS

-----------------------------------------------------------------------------
(* Types of the helpers.                                                   *)

\* Saturating addition stays within the clock.
LEMMA PlusType ==
    ASSUME NEW a \in Seconds, NEW b \in Seconds
    PROVE  Plus(a, b) \in Seconds
  BY TrainJobAssumption DEF Plus, Seconds

\* The metered time of a state file is a number of seconds.
LEMMA MeteredType ==
    ASSUME NEW s \in StateFile
    PROVE  Metered(s) \in Seconds
  BY PlusType DEF Metered, StateFile, Off, Seconds

\* Ageing a state file only moves its running lap.
LEMMA AgeType ==
    ASSUME NEW s \in StateFile
    PROVE  /\ Age(s) \in StateFile
           /\ Age(s).pending = s.pending
           /\ Age(s).last = s.last
           /\ Age(s).status = s.status
           /\ Age(s).note = s.note
  <1>1. CASE s.lap = Off
    BY <1>1 DEF Age
  <1>2. CASE s.lap # Off
    <2>1. s.lap \in Seconds /\ 1 \in Seconds
      BY <1>2, TrainJobAssumption DEF StateFile, Off, Seconds
    <2>2. Plus(s.lap, 1) \in Seconds
      BY <2>1, PlusType
    <2> QED BY <1>2, <2>2 DEF Age, StateFile
  <1> QED BY <1>1, <1>2

\* The state a command keeps when it ends, and the one start writes.
LEMMA NewStateType == NoState \in StateFile /\ NewState \in StateFile
  <1>1. NoState \in StateFile
    BY TrainJobAssumption
       DEF NoState, StateFile, Statuses, Notes, NoEpoch, Off, Seconds
  <1>2. 0 \in Seconds
    BY TrainJobAssumption DEF Seconds
  <1> QED BY <1>1, <1>2 DEF NewState, StateFile, Statuses

-----------------------------------------------------------------------------
(* How the steps of a command move its process.                            *)

\* A command that ends leaves every controller process well typed.
LEMMA ReturnType ==
    ASSUME HostOK, NEW c \in Ctl, NEW r \in Replies, Return(c, r)
    PROVE  HostOK'
  BY NewStateType DEF HostOK, Return, Goto, Points, Notes

\* So does a command that moves on with its local variables.
LEMMA ContinueType ==
    ASSUME HostOK, NEW c \in Ctl, NEW p \in Points, Continue(c, p)
    PROVE  HostOK'
  BY DEF HostOK, Continue, Goto

\* So does a command that takes a copy of state.json.
LEMMA ReadType ==
    ASSUME HostOK, st \in StateFile, NEW c \in Ctl, NEW p \in Points, Read(c, p)
    PROVE  HostOK'
  BY DEF HostOK, Read, Goto

\* Processes a step does not touch keep their local facts.
LEMMA OthersInFlight ==
    ASSUME InFlight, HostOK, NEW c \in Ctl,
           \E p : at' = [at EXCEPT ![c] = p],
           \E m : mem' = [mem EXCEPT ![c] = m],
           \E e : ev' = [ev EXCEPT ![c] = e]
    PROVE  \A d \in Ctl \ {c} : InFlightOf(d)'
  BY DEF InFlight, InFlightOf, HostOK

\* A command that ends keeps no local variable to be wrong about.
LEMMA ReturnInFlight ==
    ASSUME InFlight, HostOK, NEW c \in Ctl, NEW r, Return(c, r)
    PROVE  InFlight'
  <1>1. \A d \in Ctl \ {c} : InFlightOf(d)'
    BY OthersInFlight DEF Return, Goto
  <1>2. InFlightOf(c)'
    BY DEF Return, Goto, HostOK, InFlightOf
  <1> QED BY <1>1, <1>2 DEF InFlight

\* A process that moves on with its variables keeps what its new control point
\* demands, if its old one demanded it.
Demand(p) ==
    IF p \in {"pause", "meter", "stage", "evaluate", "result", "publish"} THEN "event"
    ELSE IF p \in {"launch", "launched", "unlaunched", "inspect", "remove",
                   "expire", "scan"} THEN "nothing pending"
    ELSE IF p \in {"c_decide", "c_unpause", "c_write", "r_result", "r_write"} THEN "pending"
    ELSE IF p \in {"c_read", "r_read"} THEN "named"
    ELSE IF p \in {"s_decide", "s_unpause"} THEN "some pending"
    ELSE "none"

LEMMA ContinueInFlight ==
    ASSUME InFlight, HostOK, NEW c \in Ctl, NEW p, Continue(c, p),
           Demand(p) \in {"none", Demand(at[c])}
    PROVE  InFlight'
  <1>1. \A d \in Ctl \ {c} : InFlightOf(d)'
    <2>1. mem' = [mem EXCEPT ![c] = mem[c]] /\ ev' = [ev EXCEPT ![c] = ev[c]]
      BY DEF Continue, HostOK
    <2> QED BY <2>1, OthersInFlight DEF Continue, Goto
  <1>2. InFlightOf(c)'
    <2>1. at'[c] = p /\ mem'[c] = mem[c] /\ ev'[c] = ev[c]
      BY DEF Continue, Goto, HostOK
    <2>2. InFlightOf(c)
      BY DEF InFlight
    <2> QED BY <2>1, <2>2 DEF InFlightOf, Demand
  <1> QED BY <1>1, <1>2 DEF InFlight
-----------------------------------------------------------------------------
(* The local invariant: types, and what a command knows of its variables.  *)
(* It holds under every fault, detached commands included.                 *)

\* The replies of the model are replies.
LEMMA ReplyType ==
    /\ \A k \in {"none", "ok", "error", "finished", "budget"} : Say(k) \in Replies
    /\ \A e \in Epochs, n \in Notes : [kind |-> "event", epoch |-> e, note |-> n] \in Replies
  BY DEF Say, Replies

\* A command that has just begun: it has no copy of the state yet.
LEMMA BeginType ==
    ASSUME HostOK, InFlight, NEW c \in Ctl, NEW p \in Points, Begin(c, p),
           UNCHANGED mem,
           \/ UNCHANGED ev /\ Demand(p) = "none"
           \/ (\E e \in Epochs : ev' = [ev EXCEPT ![c] = e]) /\ Demand(p) = "named"
    PROVE  HostOK' /\ InFlight'
  <1>1. HostOK'
    BY DEF HostOK, Begin, Goto
  <1>2. \A d \in Ctl \ {c} : InFlightOf(d)'
    <2>1. mem' = [mem EXCEPT ![c] = mem[c]]
      BY DEF HostOK
    <2>2. \E e : ev' = [ev EXCEPT ![c] = e]
      BY DEF HostOK
    <2> QED BY <2>1, <2>2, OthersInFlight DEF Begin, Goto
  <1>3. InFlightOf(c)'
    BY DEF InFlightOf, Demand, HostOK, Begin, Goto
  <1> QED BY <1>1, <1>2, <1>3 DEF InFlight

\* Issuing a command, allowed or refused, keeps the local invariant.
LEMMA LocalCall ==
    ASSUME TypeOK, InFlight, NEW c \in Ctl, Call(c)
    PROVE  TypeOK' /\ InFlight'
  <1> USE DEF TypeOK
  <1>1. CASE Start(c)
    <2>1. HostOK'
      BY <1>1, NewStateType DEF Start, Begin, Goto, HostOK, Points
    <2>2. JobOK'
      BY <1>1, NewStateType DEF Start, Begin, Write, JobOK, docker, mailbox
    <2>3. \A d \in Ctl \ {c} : InFlightOf(d)'
      <3>1. ev' = [ev EXCEPT ![c] = ev[c]]
        BY <1>1 DEF Start, HostOK
      <3> QED BY <3>1, <1>1, OthersInFlight DEF Start, Begin, Goto
    <2>4. InFlightOf(c)'
      BY <1>1 DEF Start, Begin, Goto, HostOK, InFlightOf, NewState, NoState
    <2> QED BY <2>1, <2>2, <2>3, <2>4 DEF InFlight
  <1>2. CASE Await(c)
    <2>1. HostOK' /\ InFlight'
      BY <1>2, BeginType DEF Await, Points, Demand
    <2> QED BY <1>2, <2>1 DEF Await, JobOK, docker, mailbox
  <1>3. CASE Record(c)
    <2>1. HostOK' /\ InFlight'
      BY <1>3, BeginType DEF Record, Points, Demand
    <2> QED BY <1>3, <2>1 DEF Record, JobOK, docker, mailbox
  <1>4. CASE Resume(c)
    <2>1. HostOK' /\ InFlight'
      BY <1>4, BeginType DEF Resume, Points, Demand
    <2> QED BY <1>4, <2>1 DEF Resume, JobOK, docker, mailbox
  <1>5. CASE Stop(c)
    <2>1. HostOK' /\ InFlight'
      BY <1>5, BeginType DEF Stop, Points, Demand
    <2> QED BY <1>5, <2>1 DEF Stop, JobOK, docker, mailbox
  <1> QED BY <1>1, <1>2, <1>3, <1>4, <1>5 DEF Call

\* A command that writes state.json and ends.
LEMMA WriteAndReturn ==
    ASSUME TypeOK, InFlight, NEW c \in Ctl, NEW r \in Replies,
           NEW s \in StateFile, Write(s), Return(c, r),
           UNCHANGED <<docker, script, mailbox, ran>>,
           UNCHANGED unseen \/ unseen' \in BOOLEAN
    PROVE  TypeOK' /\ InFlight'
  <1>1. HostOK' /\ InFlight'
    BY ReturnType, ReturnInFlight DEF TypeOK
  <1>2. JobOK'
    BY DEF TypeOK, JobOK, Write, docker, mailbox
  <1> QED BY <1>1, <1>2 DEF TypeOK

\* The commands that end by replacing state.json: each writes a complete,
\* well-typed file.
LEMMA LocalWrites ==
    ASSUME TypeOK, InFlight, NEW c \in Ctl,
           StartWrite(c) \/ Expire(c) \/ Publish(c) \/ RecordWrite(c)
             \/ ResumeWrite(c) \/ StopWrite(c)
    PROVE  TypeOK' /\ InFlight'
  <1>1. /\ mem[c] \in StateFile /\ Metered(mem[c]) \in Seconds
        /\ note[c] \in Notes /\ ev[c] \in Epochs \cup {NoEpoch}
        /\ InFlightOf(c)
    BY MeteredType DEF TypeOK, HostOK, InFlight
  <1>2. CASE StartWrite(c)
    <2>1. [mem[c] EXCEPT !.status = "running"] \in StateFile
      BY <1>1 DEF StateFile, Statuses
    <2>2. [mem[c] EXCEPT !.status = "launch_failed"] \in StateFile
      BY <1>1 DEF StateFile, Statuses
    <2>3. Say("ok") \in Replies /\ Say("error") \in Replies
      BY ReplyType
    <2> QED BY <1>2, <2>1, <2>2, <2>3, WriteAndReturn DEF StartWrite
  <1>3. CASE Expire(c)
    <2>1. [mem[c] EXCEPT !.active = Metered(mem[c]), !.lap = Off,
                         !.status = "budget_exhausted"] \in StateFile
      BY <1>1 DEF StateFile, Statuses
    <2>2. Say("budget") \in Replies
      BY ReplyType
    <2> QED BY <1>3, <2>1, <2>2, WriteAndReturn DEF Expire
  <1>4. CASE Publish(c)
    <2>1. ev[c] \in Epochs
      BY <1>1, <1>4 DEF Publish, InFlightOf
    <2>2. [mem[c] EXCEPT !.pending = ev[c], !.note = note[c],
                         !.status = "awaiting_decision"] \in StateFile
      BY <1>1, <2>1 DEF StateFile, Statuses
    <2>3. [kind |-> "event", epoch |-> ev[c], note |-> note[c]] \in Replies
      BY <1>1, <2>1, ReplyType
    <2> QED BY <1>4, <2>2, <2>3, WriteAndReturn DEF Publish
  <1>5. CASE RecordWrite(c)
    <2>1. ev[c] \in Epochs
      BY <1>1, <1>5 DEF RecordWrite, InFlightOf
    <2>2. [mem[c] EXCEPT !.note = note[c]] \in StateFile
      BY <1>1 DEF StateFile
    <2>3. [kind |-> "event", epoch |-> ev[c], note |-> note[c]] \in Replies
      BY <1>1, <2>1, ReplyType
    <2> QED BY <1>5, <2>2, <2>3, WriteAndReturn DEF RecordWrite
  <1>6. CASE ResumeWrite(c)
    <2>1. 0 \in Seconds
      BY TrainJobAssumption DEF Seconds
    <2>2. [mem[c] EXCEPT !.last = mem[c].pending, !.pending = NoEpoch,
                         !.note = "none", !.status = "running", !.lap = 0]
            \in StateFile
      BY <1>1, <2>1 DEF StateFile, Statuses, Notes
    <2>3. Say("ok") \in Replies
      BY ReplyType
    <2> QED BY <1>6, <2>2, <2>3, WriteAndReturn DEF ResumeWrite
  <1>7. CASE StopWrite(c)
    <2>1. [mem[c] EXCEPT
              !.last = IF mem[c].pending > @ THEN mem[c].pending ELSE @,
              !.pending = NoEpoch, !.note = "none",
              !.active = Metered(mem[c]), !.lap = Off, !.status = "stopped"]
            \in StateFile
      BY <1>1 DEF StateFile, Statuses, Notes
    <2>2. Say("ok") \in Replies
      BY ReplyType
    <2> QED BY <1>7, <2>1, <2>2, WriteAndReturn DEF StopWrite
  <1> QED BY <1>2, <1>3, <1>4, <1>5, <1>6, <1>7

\* A command that moves on, or fails, without touching state.json.
LEMMA LocalMoves ==
    ASSUME TypeOK, InFlight, NEW c \in Ctl,
           DockerRun(c) \/ RemoveExpired(c) \/ Pause(c) \/ Stage(c)
             \/ WriteResult(c) \/ Decide(c) \/ Unpause(c) \/ StopRemove(c)
    PROVE  TypeOK' /\ InFlight'
  <1>1. /\ note[c] \in Notes /\ ev[c] \in Epochs \cup {NoEpoch}
        /\ Say("error") \in Replies
    BY ReplyType DEF TypeOK, HostOK
  <1>2. CASE DockerRun(c)
    <2>1. HostOK' /\ InFlight'
      BY <1>2, ContinueType, ContinueInFlight DEF TypeOK, DockerRun, Points, Demand
    <2> QED BY <1>2, <2>1 DEF TypeOK, DockerRun, JobOK, mailbox
  <1>3. CASE RemoveExpired(c)
    <2>1. HostOK' /\ InFlight'
      BY <1>3, ContinueType, ContinueInFlight DEF TypeOK, RemoveExpired, Points, Demand
    <2> QED BY <1>3, <2>1 DEF TypeOK, RemoveExpired, ForceRemove, JobOK, mailbox
  <1>4. CASE Pause(c)
    <2>1. HostOK' /\ InFlight'
      BY <1>1, <1>4, ContinueType, ContinueInFlight, ReturnType, ReturnInFlight
         DEF TypeOK, Pause, Points, Demand
    <2> QED BY <1>4, <2>1 DEF TypeOK, Pause, JobOK, mailbox
  <1>5. CASE Stage(c)
    <2>1. HostOK' /\ InFlight'
      BY <1>1, <1>5, ContinueType, ContinueInFlight, ReturnType, ReturnInFlight
         DEF TypeOK, Stage, Points, Demand
    <2>2. ev[c] \in Epochs
      BY <1>5 DEF Stage, InFlight, InFlightOf
    <2> QED BY <1>5, <2>1, <2>2 DEF TypeOK, Stage, JobOK, docker
  <1>6. CASE WriteResult(c)
    <2>1. HostOK' /\ InFlight'
      BY <1>6, ContinueType, ContinueInFlight DEF TypeOK, WriteResult, Points, Demand
    <2> QED BY <1>1, <1>6, <2>1 DEF TypeOK, WriteResult, JobOK, docker
  <1>7. CASE Decide(c)
    <2>1. HostOK' /\ InFlight'
      BY <1>7, ContinueType, ContinueInFlight DEF TypeOK, Decide, Points, Demand
    <2> QED BY <1>7, <2>1 DEF TypeOK, Decide, JobOK, docker
  <1>8. CASE Unpause(c)
    <2>1. HostOK' /\ InFlight'
      BY <1>1, <1>8, ContinueType, ContinueInFlight, ReturnType, ReturnInFlight
         DEF TypeOK, Unpause, Points, Demand
    <2> QED BY <1>8, <2>1 DEF TypeOK, Unpause, JobOK, mailbox
  <1>9. CASE StopRemove(c)
    <2>1. HostOK' /\ InFlight'
      BY <1>9, ContinueType, ContinueInFlight DEF TypeOK, StopRemove, Points, Demand
    <2> QED BY <1>9, <2>1 DEF TypeOK, StopRemove, ForceRemove, JobOK, mailbox
  <1> QED BY <1>2, <1>3, <1>4, <1>5, <1>6, <1>7, <1>8, <1>9

\* A command that reads state.json and then moves on.
LEMMA ReadInFlight ==
    ASSUME TypeOK, InFlight, NEW c \in Ctl, NEW p, Read(c, p),
           \/ Demand(p) = "none"
           \/ Demand(p) = "nothing pending" /\ st.pending = NoEpoch
           \/ Demand(p) = "some pending" /\ st.pending # NoEpoch
           \/ Demand(p) = "pending" /\ ev[c] \in Epochs /\ st.pending = ev[c]
    PROVE  InFlight'
  <1>1. \A d \in Ctl \ {c} : InFlightOf(d)'
    <2>1. ev' = [ev EXCEPT ![c] = ev[c]]
      BY DEF Read, TypeOK, HostOK
    <2> QED BY <2>1, OthersInFlight DEF Read, Goto, TypeOK
  <1>2. at'[c] = p /\ mem'[c] = st /\ ev'[c] = ev[c]
    BY DEF Read, Goto, TypeOK, HostOK
  <1>3. InFlightOf(c)'
    BY <1>2 DEF InFlightOf, Demand
  <1> QED BY <1>1, <1>3 DEF InFlight

\* The reads of state.json and the refusals that follow them.
LEMMA LocalReads ==
    ASSUME TypeOK, InFlight, NEW c \in Ctl,
           Poll(c) \/ RecordRead(c) \/ ResumeRead(c) \/ StopRead(c)
    PROVE  TypeOK' /\ InFlight'
  <1> USE DEF TypeOK
  <1>1. /\ st \in StateFile /\ st.pending \in Epochs \cup {NoEpoch}
        /\ st.note \in Notes /\ Say("error") \in Replies
    BY ReplyType DEF JobOK, StateFile
  <1>2. CASE Poll(c)
    <2>1. st.pending # NoEpoch =>
            [kind |-> "event", epoch |-> st.pending, note |-> st.note] \in Replies
      BY <1>1, ReplyType
    <2>2. HostOK' /\ InFlight'
      BY <1>1, <1>2, <2>1, ReadType, ReadInFlight, ReturnType, ReturnInFlight
         DEF Poll, Points, Demand
    <2> QED BY <1>2, <2>2 DEF Poll, JobOK, docker, mailbox
  <1>3. CASE RecordRead(c)
    <2>1. ev[c] \in Epochs
      BY <1>3 DEF RecordRead, InFlight, InFlightOf
    <2>2. [kind |-> "event", epoch |-> ev[c], note |-> st.note] \in Replies
      BY <1>1, <2>1, ReplyType
    <2>3. JobOK'
      BY <1>3 DEF RecordRead, JobOK, docker, mailbox
    <2>4. CASE st.pending = ev[c] /\ st.note = "staged" /\ at'[c] = "r_result"
      <3>1. HostOK'
        BY <1>1, <1>3, <2>4 DEF RecordRead, Goto, HostOK, Points, Notes, Return
      <3>2. mem' = [mem EXCEPT ![c] = st] /\ UNCHANGED ev /\ Goto(c, "r_result")
        BY <1>3, <2>4 DEF RecordRead, Return, Goto, HostOK
      <3>3. \A d \in Ctl \ {c} : InFlightOf(d)'
        <4>1. ev' = [ev EXCEPT ![c] = ev[c]]
          BY <3>2 DEF HostOK
        <4> QED BY <3>2, <4>1, OthersInFlight DEF Goto
      <3>4. InFlightOf(c)'
        BY <2>1, <2>4, <3>2 DEF InFlightOf, Goto, HostOK
      <3> QED BY <2>3, <3>1, <3>3, <3>4 DEF InFlight
    <2>5. CASE Return(c, Say("error"))
                 \/ Return(c, [kind |-> "event", epoch |-> ev[c], note |-> st.note])
      BY <1>1, <2>2, <2>3, <2>5, ReturnType, ReturnInFlight
    <2> QED BY <1>3, <2>4, <2>5 DEF RecordRead, Goto, HostOK
  <1>4. CASE ResumeRead(c)
    <2>1. ev[c] \in Epochs
      BY <1>4 DEF ResumeRead, InFlight, InFlightOf
    <2>2. HostOK' /\ InFlight'
      BY <1>1, <1>4, <2>1, ReadType, ReadInFlight, ReturnType, ReturnInFlight
         DEF ResumeRead, Points, Demand
    <2> QED BY <1>4, <2>2 DEF ResumeRead, JobOK, docker, mailbox
  <1>5. CASE StopRead(c)
    <2>1. HostOK' /\ InFlight'
      BY <1>1, <1>5, ReadType, ReadInFlight DEF StopRead, Points, Demand
    <2> QED BY <1>5, <2>1 DEF StopRead, JobOK, docker, mailbox
  <1> QED BY <1>2, <1>3, <1>4, <1>5

\* The steps of await that decide what to do next.
LEMMA LocalAwait ==
    ASSUME TypeOK, InFlight, NEW c \in Ctl,
           Inspect(c) \/ Scan(c) \/ Meter(c) \/ Evaluate(c)
    PROVE  TypeOK' /\ InFlight'
  <1> USE DEF TypeOK
  <1>1. /\ mem[c] \in StateFile /\ Metered(mem[c]) \in Seconds
        /\ Say("finished") \in Replies /\ InFlightOf(c)
    BY MeteredType, ReplyType DEF HostOK, InFlight
  <1>2. CASE Inspect(c)
    <2>1. [mem[c] EXCEPT
             !.active = Metered(mem[c]), !.lap = Off,
             !.status = IF container = "exited" /\ exitCode = 0
                        THEN "completed" ELSE "failed"] \in StateFile
      BY <1>1 DEF StateFile, Statuses
    <2>2. [mem[c] EXCEPT !.active = Metered(mem[c]), !.lap = Off,
                         !.status = "failed"] \in StateFile
      BY <1>1 DEF StateFile, Statuses
    <2>3. CASE \E s \in StateFile : Write(s) /\ Return(c, Say("finished"))
      <3>1. (unseen \/ Live) \in BOOLEAN
        OBVIOUS
      <3>2. /\ UNCHANGED <<docker, script, mailbox, ran>>
            /\ UNCHANGED unseen \/ unseen' = (unseen \/ Live)
        BY <1>2 DEF Inspect
      <3> QED BY <1>1, <2>3, <3>1, <3>2, WriteAndReturn
    <2>4. CASE UNCHANGED <<st, unseen>> /\ \E p \in {"remove", "scan"} : Continue(c, p)
      <3>1. HostOK' /\ InFlight'
        BY <1>2, <2>4, ContinueType, ContinueInFlight DEF Inspect, Points, Demand
      <3> QED BY <1>2, <2>4, <3>1 DEF Inspect, JobOK, docker, mailbox
    <2> QED BY <1>2, <2>1, <2>2, <2>3, <2>4 DEF Inspect
  <1>3. CASE Scan(c)
    <2>1. JobOK'
      BY <1>3 DEF Scan, JobOK, docker, mailbox
    <2>2. CASE Continue(c, "sleep")
      BY <1>3, <2>1, <2>2, ContinueType, ContinueInFlight DEF Scan, Points, Demand
    <2>3. CASE \E r \in Replies : Return(c, r)
      BY <2>1, <2>3, ReturnType, ReturnInFlight
    <2>4. CASE ~Continue(c, "sleep") /\ ~\E r \in Replies : Return(c, r)
      <3>1. PICK e \in Unsettled(mem[c]) :
              /\ Goto(c, "pause")
              /\ ev' = [ev EXCEPT ![c] = e]
              /\ UNCHANGED <<mem, note, caller, reply>>
        BY <1>3, <2>4, ReplyType DEF Scan
      <3>2. e \in Epochs /\ e > mem[c].last
        BY DEF Unsettled, JobOK
      <3>3. HostOK'
        BY <3>1, <3>2 DEF HostOK, Goto, Points
      <3>4. \A d \in Ctl \ {c} : InFlightOf(d)'
        <4>1. mem' = [mem EXCEPT ![c] = mem[c]]
          BY <3>1 DEF HostOK
        <4> QED BY <3>1, <4>1, OthersInFlight DEF Goto
      <3>5. mem[c].pending = NoEpoch
        BY <1>1, <1>3 DEF Scan, InFlightOf
      <3>6. InFlightOf(c)'
        BY <3>1, <3>2, <3>5 DEF InFlightOf, Goto, HostOK
      <3> QED BY <2>1, <3>3, <3>4, <3>6 DEF InFlight
    <2> QED BY <2>2, <2>3, <2>4
  <1>4. CASE Meter(c) /\ mem[c].lap # Off
    <2> DEFINE s == [mem[c] EXCEPT !.active = Metered(mem[c]), !.lap = Off,
                                   !.status = "paused"]
    <2>1. s \in StateFile /\ s.pending = mem[c].pending /\ s.last = mem[c].last
      BY <1>1 DEF StateFile, Statuses
    <2>2. st' = s /\ mem' = [mem EXCEPT ![c] = s] /\ Goto(c, "stage")
      BY <1>4 DEF Meter, Write
    <2>3. HostOK' /\ JobOK'
      BY <1>4, <2>1, <2>2 DEF Meter, HostOK, JobOK, Goto, Points, docker, mailbox
    <2>4. \A d \in Ctl \ {c} : InFlightOf(d)'
      <3>1. ev' = [ev EXCEPT ![c] = ev[c]]
        BY <1>4 DEF Meter, HostOK
      <3> QED BY <2>2, <3>1, OthersInFlight DEF Goto
    <2>5. InFlightOf(c)'
      BY <1>1, <1>4, <2>1, <2>2 DEF Meter, InFlightOf, Goto, HostOK
    <2> QED BY <2>3, <2>4, <2>5 DEF InFlight
  <1>5. CASE Meter(c) /\ mem[c].lap = Off
    <2>1. HostOK' /\ InFlight'
      BY <1>5, ReplyType, ReturnType, ReturnInFlight DEF Meter
    <2> QED BY <1>5, <2>1 DEF Meter, JobOK, docker, mailbox
  <1>6. CASE Evaluate(c)
    <2>1. HostOK' /\ JobOK'
      BY <1>6 DEF Evaluate, Outcomes, HostOK, JobOK, Goto, Points, Notes, docker, mailbox
    <2>2. at' = [at EXCEPT ![c] = "result"] /\ UNCHANGED <<mem, ev>>
      BY <1>6 DEF Evaluate, Goto
    <2>3. \A d \in Ctl : InFlightOf(d)'
      BY <1>6, <2>2 DEF Evaluate, InFlight, InFlightOf, HostOK
    <2> QED BY <2>1, <2>3 DEF InFlight
  <1> QED BY <1>2, <1>3, <1>4, <1>5, <1>6

\* The caller's timeouts, the script and the clock.
LEMMA LocalRest ==
    ASSUME TypeOK, InFlight, (\E c \in Ctl : Kill(c)) \/ Detach \/ Script \/ Tick
    PROVE  TypeOK' /\ InFlight'
  <1> USE DEF TypeOK
  <1>1. CASE \E c \in Ctl : Kill(c)
    <2>1. PICK c \in Ctl : Kill(c)
      BY <1>1
    <2>2. HostOK' /\ InFlight'
      BY <2>1, ReplyType, ReturnType, ReturnInFlight DEF Kill
    <2> QED BY <2>1, <2>2 DEF Kill, JobOK, docker, mailbox
  <1>2. CASE Detach
    <2>1. HostOK' /\ JobOK'
      BY <1>2, ReplyType DEF Detach, HostOK, JobOK, docker, mailbox
    <2> QED BY <1>2, <2>1 DEF Detach, InFlight, InFlightOf
  <1>3. CASE Script
    <2>1. HostOK'
      BY <1>3 DEF Script, EpochEnd, ReadDecision, Exit, host, HostOK
    <2>2. JobOK'
      BY <1>3 DEF Script, EpochEnd, ReadDecision, Exit, docker, mailbox, JobOK
    <2> QED BY <1>3, <2>1, <2>2
            DEF Script, EpochEnd, ReadDecision, Exit, host, InFlight, InFlightOf
  <1>4. CASE Tick
    <2>1. st' \in StateFile /\ ran' \in Seconds
      <3>1. 1 \in Seconds
        BY TrainJobAssumption DEF Seconds
      <3> QED BY <1>4, <3>1, AgeType, PlusType DEF Tick, JobOK
    <2>2. mem' \in [Ctl -> StateFile]
      BY <1>4, AgeType DEF Tick, HostOK
    <2>3. at' \in [Ctl -> Points]
      BY <1>4 DEF Tick, HostOK, Points
    <2>4. HostOK' /\ JobOK'
      BY <1>4, <2>1, <2>2, <2>3 DEF Tick, HostOK, JobOK, docker, mailbox
    <2>5. ASSUME NEW c \in Ctl PROVE InFlightOf(c)'
      <3>1. at'[c] \in {"idle", "poll", "evaluate"} /\ (at'[c] = "evaluate" => at[c] = "evaluate")
        BY <1>4 DEF Tick, HostOK
      <3>2. mem'[c].pending = mem[c].pending /\ mem'[c].last = mem[c].last
        BY <1>4, AgeType DEF Tick, HostOK
      <3>3. ev'[c] = ev[c]
        BY <1>4 DEF Tick
      <3> QED BY <3>1, <3>2, <3>3 DEF InFlight, InFlightOf
    <2> QED BY <2>4, <2>5 DEF InFlight
  <1> QED BY <1>1, <1>2, <1>3, <1>4

\* The local invariant holds before the job exists.
LEMMA LocalInit == Init => TypeOK /\ InFlight
  <1> SUFFICES ASSUME Init PROVE TypeOK /\ InFlight
    OBVIOUS
  <1>1. JobOK
    <2>1. unseen \in BOOLEAN
      BY DEF Init
    <2> QED BY <2>1, NewStateType, TrainJobAssumption
            DEF Init, JobOK, NoEpoch, Epochs, Notes, Seconds
  <1>2. HostOK
    BY NewStateType, ReplyType DEF Init, HostOK, Points, NoEpoch, Notes
  <1>3. InFlight
    BY DEF Init, InFlight, InFlightOf
  <1> QED BY <1>1, <1>2, <1>3 DEF TypeOK

\* Every step of the system keeps the local invariant.
LEMMA LocalStep == TypeOK /\ InFlight /\ [Next]_vars => TypeOK' /\ InFlight'
  <1> SUFFICES ASSUME TypeOK, InFlight, [Next]_vars PROVE TypeOK' /\ InFlight'
    OBVIOUS
  <1>1. CASE UNCHANGED vars
    BY <1>1 DEF vars, docker, mailbox, host, TypeOK, JobOK, HostOK, InFlight, InFlightOf
  <1>2. ASSUME NEW c \in Ctl, Call(c) PROVE TypeOK' /\ InFlight'
    BY <1>2, LocalCall
  <1>3. ASSUME NEW c \in Ctl, Step(c) PROVE TypeOK' /\ InFlight'
    BY <1>3, LocalWrites, LocalMoves, LocalReads, LocalAwait DEF Step
  <1>4. CASE (\E c \in Ctl : Kill(c)) \/ Detach \/ Script \/ Tick
    BY <1>4, LocalRest
  <1> QED BY <1>1, <1>2, <1>3, <1>4 DEF Next

\* Every reachable state is well typed, whatever fails: every command writes a
\* state.json whose fields the next command can rely on.
THEOREM TypeCorrect == Spec => []TypeOK
  BY LocalInit, LocalStep, PTL DEF Spec

\* A command always works on the epoch its control point is about: an await on
\* one later than its copy's last epoch, a decision on the pending one.
THEOREM CommandsKnowTheirEpoch == Spec => []InFlight
  BY LocalInit, LocalStep, PTL DEF Spec

-----------------------------------------------------------------------------
(* Serial callers.  Without detached commands the outer loop has one       *)
(* command at a time, and the lock-free read-modify-write of state.json is *)
(* safe.  The inductive invariant adds to the local one that the caller's  *)
(* command is alone, that its copy is current where it will be written     *)
(* back, and that a pending epoch is later than the last.                  *)

\* Control points at which a command is going to write back its copy of
\* state.json.
Holding == Points \ {"idle", "poll", "sleep", "c_read", "s_read", "r_read"}

\* No lost update: as long as the outer loop waits for one command at a time,
\* a command that will replace state.json holds its current content, so its
\* write destroys nothing another command recorded (read_state/write_state
\* have no lock).
NoLostUpdate == \A c \in Ctl : at[c] \in Holding => mem[c] = st

Serial == TypeOK /\ InFlight /\ OneCommand /\ NoLostUpdate /\ PendingIsLater

\* A command that ends leaves no controller process behind.
LEMMA SerialReturn ==
    ASSUME TypeOK, OneCommand, NEW c \in Ctl, at[c] # "idle", NEW r, Return(c, r)
    PROVE  OneCommand' /\ NoLostUpdate'
  <1>1. \A d \in Ctl : at'[d] = "idle"
    BY DEF TypeOK, HostOK, OneCommand, Return, Goto
  <1> QED BY <1>1 DEF OneCommand, NoLostUpdate, Holding

\* A command that moves on without writing keeps its copy current.
LEMMA SerialContinue ==
    ASSUME TypeOK, OneCommand, NoLostUpdate, NEW c \in Ctl, at[c] \in Holding,
           NEW p, Continue(c, p), UNCHANGED st
    PROVE  OneCommand' /\ NoLostUpdate'
  BY DEF TypeOK, HostOK, OneCommand, NoLostUpdate, Holding, Continue, Goto

\* A command that reads state.json has a current copy.
LEMMA SerialRead ==
    ASSUME TypeOK, OneCommand, NoLostUpdate, NEW c \in Ctl, at[c] # "idle",
           NEW p, Read(c, p), UNCHANGED st
    PROVE  OneCommand' /\ NoLostUpdate'
  BY DEF TypeOK, HostOK, OneCommand, NoLostUpdate, Holding, Read, Goto

\* A command that begins finds no other one.
LEMMA SerialBegin ==
    ASSUME TypeOK, OneCommand, NEW c \in Ctl, NEW p, Begin(c, p),
           p \in Holding => mem'[c] = st'
    PROVE  OneCommand' /\ NoLostUpdate'
  <1>1. \A d \in Ctl : at[d] = "idle"
    BY TrainJobAssumption DEF OneCommand, Begin
  <1>2. \A d \in Ctl \ {c} : at'[d] = "idle"
    BY <1>1 DEF TypeOK, HostOK, Begin, Goto
  <1>3. at'[c] = p /\ caller' = c
    BY DEF TypeOK, HostOK, Begin, Goto
  <1> QED BY <1>2, <1>3 DEF OneCommand, NoLostUpdate, Holding

\* The commands as the outer loop issues them.
LEMMA SerialCall ==
    ASSUME Serial, NEW c \in Ctl, Call(c)
    PROVE  OneCommand' /\ NoLostUpdate'
  <1> USE DEF Serial
  <1>1. CASE Start(c)
    <2>1. mem'[c] = st'
      BY <1>1 DEF Start, Write, TypeOK, HostOK
    <2> QED BY <1>1, <2>1, SerialBegin DEF Start
  <1>2. CASE Await(c)
    BY <1>2, SerialBegin DEF Await, Holding
  <1>3. CASE Record(c)
    BY <1>3, SerialBegin DEF Record, Holding
  <1>4. CASE Resume(c)
    BY <1>4, SerialBegin DEF Resume, Holding
  <1>5. CASE Stop(c)
    BY <1>5, SerialBegin DEF Stop, Holding
  <1> QED BY <1>1, <1>2, <1>3, <1>4, <1>5 DEF Call

\* The effects of a command.
LEMMA SerialStep ==
    ASSUME Serial, NEW c \in Ctl, Step(c)
    PROVE  OneCommand' /\ NoLostUpdate'
  <1> USE DEF Serial
  <1>1. CASE StartWrite(c) \/ Expire(c) \/ Publish(c) \/ RecordWrite(c)
               \/ ResumeWrite(c) \/ StopWrite(c)
    <2>1. at[c] # "idle" /\ \E r : Return(c, r)
      BY <1>1 DEF StartWrite, Expire, Publish, RecordWrite, ResumeWrite, StopWrite
    <2> QED BY <2>1, SerialReturn
  <1>2. CASE DockerRun(c) \/ RemoveExpired(c) \/ Pause(c) \/ Stage(c)
               \/ WriteResult(c) \/ Decide(c) \/ Unpause(c) \/ StopRemove(c)
    <2>1. at[c] \in Holding /\ UNCHANGED st
      BY <1>2 DEF DockerRun, RemoveExpired, Pause, Stage, WriteResult, Decide,
                  Unpause, StopRemove, Holding, Points
    <2>2. (\E r : Return(c, r)) \/ (\E p : Continue(c, p))
      BY <1>2 DEF DockerRun, RemoveExpired, Pause, Stage, WriteResult, Decide,
                  Unpause, StopRemove
    <2>3. at[c] # "idle"
      BY <2>1 DEF Holding
    <2> QED BY <2>1, <2>2, <2>3, SerialReturn, SerialContinue
  <1>3. CASE Poll(c) \/ ResumeRead(c) \/ StopRead(c)
    <2>1. at[c] # "idle" /\ UNCHANGED st
      BY <1>3 DEF Poll, ResumeRead, StopRead
    <2>2. (\E r : Return(c, r)) \/ (\E p : Read(c, p))
      BY <1>3 DEF Poll, ResumeRead, StopRead
    <2> QED BY <2>1, <2>2, SerialReturn, SerialRead
  <1>4. CASE RecordRead(c)
    <2>1. at[c] # "idle" /\ UNCHANGED st
      BY <1>4 DEF RecordRead
    <2>2. CASE \E r : Return(c, r)
      BY <2>1, <2>2, SerialReturn
    <2>3. CASE ~\E r : Return(c, r)
      <3>1. /\ at' = [at EXCEPT ![c] = "r_result"]
            /\ mem' = [mem EXCEPT ![c] = st]
            /\ UNCHANGED caller
        BY <1>4, <2>3 DEF RecordRead, Goto
      <3> QED BY <2>1, <3>1
              DEF TypeOK, HostOK, OneCommand, NoLostUpdate, Holding
    <2> QED BY <2>2, <2>3
  <1>5. CASE Inspect(c)
    <2>1. at[c] = "inspect" /\ at[c] # "idle" /\ at[c] \in Holding
      BY <1>5 DEF Inspect, Holding, Points
    <2> QED BY <1>5, <2>1, SerialReturn, SerialContinue DEF Inspect
  <1>6. CASE Scan(c)
    <2>1. CASE \E r : Return(c, r)
      <3>1. at[c] # "idle"
        BY <1>6 DEF Scan
      <3> QED BY <2>1, <3>1, SerialReturn
    <2>2. CASE ~\E r : Return(c, r)
      <3>1. at[c] = "scan" /\ at[c] \in Holding /\ UNCHANGED <<st, mem, caller>>
        BY <1>6, <2>2 DEF Scan, Holding, Points, Continue
      <3>2. \E p : Goto(c, p)
        BY <1>6, <2>2 DEF Scan, Continue
      <3> QED BY <3>1, <3>2
              DEF Goto, TypeOK, HostOK, OneCommand, NoLostUpdate, Holding
    <2> QED BY <2>1, <2>2
  <1>7. CASE Meter(c)
    BY <1>7, SerialReturn DEF Meter, Write, Goto, TypeOK, HostOK, OneCommand, NoLostUpdate,
                Holding
  <1>8. CASE Evaluate(c)
    BY <1>8 DEF Evaluate, Goto, TypeOK, HostOK, OneCommand, NoLostUpdate,
                Holding, Points
  <1> QED BY <1>1, <1>2, <1>3, <1>4, <1>5, <1>6, <1>7, <1>8 DEF Step

\* The caller's timeouts, the script and the clock.
LEMMA SerialRest ==
    ASSUME Serial, "detach" \notin Faults,
           (\E c \in Ctl : Kill(c)) \/ Detach \/ Script \/ Tick
    PROVE  OneCommand' /\ NoLostUpdate'
  <1> USE DEF Serial
  <1>1. CASE \E c \in Ctl : Kill(c)
    BY <1>1, SerialReturn DEF Kill
  <1>2. CASE Detach
    BY <1>2 DEF Detach
  <1>3. CASE Script
    BY <1>3 DEF Script, EpochEnd, ReadDecision, Exit, host, OneCommand, NoLostUpdate
  <1>4. CASE Tick
    <2>1. \A c \in Ctl : at'[c] # "idle" => at[c] # "idle"
      BY <1>4 DEF Tick
    <2>2. \A c \in Ctl : at'[c] \in Holding => at[c] \in Holding
      BY <1>4 DEF Tick, Holding
    <2>3. st' = Age(st) /\ \A c \in Ctl : mem'[c] = Age(mem[c])
      BY <1>4 DEF Tick
    <2>4. UNCHANGED caller
      BY <1>4 DEF Tick
    <2> QED BY <2>1, <2>2, <2>3, <2>4 DEF OneCommand, NoLostUpdate
  <1> QED BY <1>1, <1>2, <1>3, <1>4

-----------------------------------------------------------------------------
(* The epochs.  Every step offers an epoch, settles the offered one, or    *)
(* leaves both alone.                                                      *)

\* What a step does to the two epochs of state.json.
EpochStep == [Handshake!Next]_<<st.last, st.pending>> /\ PendingIsLater'

\* A step that leaves both epochs alone and does not erase the job.
LEMMA EpochsUntouched ==
    ASSUME PendingIsLater, UNCHANGED <<st.last, st.pending>>,
           st'.status = "absent" => st.status = "absent"
    PROVE  EpochStep
  BY DEF EpochStep, PendingIsLater

\* A command that replaces state.json by its copy with other statuses, meters
\* and outcomes.
LEMMA SameEpochs ==
    ASSUME Serial, NEW c \in Ctl, at[c] \in Holding, NEW s, Write(s),
           s.last = mem[c].last, s.pending = mem[c].pending, s.status # "absent"
    PROVE  EpochStep
  BY EpochsUntouched DEF Serial, NoLostUpdate, Write

\* The last writes of the commands.
LEMMA EpochWrites ==
    ASSUME Serial, NEW c \in Ctl,
           StartWrite(c) \/ Expire(c) \/ Publish(c) \/ RecordWrite(c)
             \/ ResumeWrite(c) \/ StopWrite(c)
    PROVE  EpochStep
  <1> USE DEF Serial
  <1>1. /\ mem[c] = st /\ at[c] \in Holding
        /\ st \in StateFile /\ InFlightOf(c)
    BY DEF StartWrite, Expire, Publish, RecordWrite, ResumeWrite, StopWrite,
           Holding, Points, NoLostUpdate, InFlight, TypeOK, JobOK
  <1>2. st.last \in Epochs \cup {NoEpoch} /\ st.pending \in Epochs \cup {NoEpoch}
    BY <1>1 DEF StateFile
  <1>3. CASE StartWrite(c)
    <2>1. /\ st' = [st EXCEPT !.status = "running"]
             \/ st' = [st EXCEPT !.status = "launch_failed"]
      BY <1>1, <1>3 DEF StartWrite, Write
    <2> QED BY <1>1, <2>1, EpochsUntouched DEF StateFile
  <1>4. CASE Expire(c)
    <2>1. st' = [st EXCEPT !.active = Metered(st), !.lap = Off,
                           !.status = "budget_exhausted"]
      BY <1>1, <1>4 DEF Expire, Write
    <2> QED BY <1>1, <2>1, EpochsUntouched DEF StateFile
  <1>5. CASE Publish(c)
    <2>1. /\ st.pending = NoEpoch
          /\ ev[c] \in Epochs
          /\ ev[c] > st.last
      BY <1>1, <1>5 DEF Publish, InFlightOf
    <2>2. st' = [st EXCEPT !.pending = ev[c], !.note = note[c],
                           !.status = "awaiting_decision"]
      BY <1>1, <1>5 DEF Publish, Write
    <2>3. st'.pending = ev[c] /\ st'.last = st.last /\ st'.status = "awaiting_decision"
      BY <1>1, <2>2 DEF StateFile
    <2>4. Handshake!Next
      BY <2>1, <2>3 DEF Handshake!Next, Handshake!Offer
    <2> QED BY <2>1, <2>3, <2>4 DEF EpochStep, PendingIsLater
  <1>6. CASE RecordWrite(c)
    <2>1. st' = [st EXCEPT !.note = note[c]]
      BY <1>1, <1>6 DEF RecordWrite, Write
    <2> QED BY <1>1, <2>1, EpochsUntouched DEF StateFile
  <1>7. CASE ResumeWrite(c)
    <2>1. st.pending # NoEpoch
      BY <1>1, <1>7 DEF ResumeWrite, InFlightOf, Epochs, NoEpoch
    <2>2. st' = [st EXCEPT !.last = st.pending, !.pending = NoEpoch,
                           !.note = "none", !.status = "running", !.lap = 0]
      BY <1>1, <1>7 DEF ResumeWrite, Write
    <2>3. st'.last = st.pending /\ st'.pending = NoEpoch /\ st'.status = "running"
      BY <1>1, <2>2 DEF StateFile
    <2>4. Handshake!Next
      BY <2>1, <2>3 DEF Handshake!Next, Handshake!Settle
    <2> QED BY <2>3, <2>4 DEF EpochStep, PendingIsLater
  <1>8. CASE StopWrite(c)
    <2>1. st' = [st EXCEPT
                   !.last = IF st.pending > @ THEN st.pending ELSE @,
                   !.pending = NoEpoch, !.note = "none",
                   !.active = Metered(st), !.lap = Off, !.status = "stopped"]
      BY <1>1, <1>8 DEF StopWrite, Write
    <2>2. /\ st'.last = IF st.pending > st.last THEN st.pending ELSE st.last
          /\ st'.pending = NoEpoch /\ st'.status = "stopped"
      BY <1>1, <2>1 DEF StateFile
    <2>3. PendingIsLater'
      BY <2>2 DEF PendingIsLater
    <2>4. CASE st.pending = NoEpoch
      <3>1. UNCHANGED <<st.last, st.pending>>
        BY <1>2, <2>2, <2>4, TrainJobAssumption DEF Epochs, NoEpoch
      <3> QED BY <2>3, <3>1 DEF EpochStep
    <2>5. CASE st.pending # NoEpoch
      <3>1. st'.last = st.pending
        BY <2>2, <2>5 DEF PendingIsLater
      <3>2. Handshake!Next
        BY <2>2, <2>5, <3>1 DEF Handshake!Next, Handshake!Settle
      <3> QED BY <2>3, <3>2 DEF EpochStep
    <2> QED BY <2>4, <2>5
  <1> QED BY <1>3, <1>4, <1>5, <1>6, <1>7, <1>8

\* All steps.
LEMMA EpochsStep ==
    ASSUME Serial, [Next]_vars
    PROVE  EpochStep
  <1> USE DEF Serial
  <1>1. CASE UNCHANGED vars
    BY <1>1, EpochsUntouched DEF vars
  <1>2. CASE \E c \in Ctl : Call(c)
    <2>1. CASE \E c \in Ctl : Start(c)
      <3>1. st.status = "absent" /\ st' = NewState
        BY <2>1 DEF Start, Write
      <3>2. /\ st.pending = NoEpoch /\ st.last = NoEpoch
            /\ st'.pending = NoEpoch /\ st'.last = NoEpoch
        BY <3>1 DEF PendingIsLater, NewState, NoState
      <3> QED BY <3>1, <3>2, EpochsUntouched
    <2>2. CASE UNCHANGED st
      BY <2>2, EpochsUntouched
    <2> QED BY <1>2, <2>1, <2>2 DEF Call, Await, Record, Resume, Stop
  <1>3. ASSUME NEW c \in Ctl, Step(c) PROVE EpochStep
    <2>1. CASE UNCHANGED st
      BY <2>1, EpochsUntouched
    <2>2. CASE Inspect(c) /\ st' # st
      <3>1. at[c] \in Holding /\ mem[c] \in StateFile
        BY <2>2 DEF Inspect, Holding, Points, TypeOK, HostOK
      <3>2. PICK o \in {"completed", "failed"} :
               Write([mem[c] EXCEPT !.active = Metered(mem[c]), !.lap = Off, !.status = o])
        BY <2>2 DEF Inspect
      <3> DEFINE s == [mem[c] EXCEPT !.active = Metered(mem[c]), !.lap = Off, !.status = o]
      <3>3. s.last = mem[c].last /\ s.pending = mem[c].pending /\ s.status # "absent"
        BY <3>1 DEF StateFile
      <3> QED BY <3>1, <3>2, <3>3, SameEpochs
    <2>3. CASE Meter(c) /\ st' # st
      <3>1. at[c] \in Holding /\ mem[c] \in StateFile
        BY <2>3 DEF Meter, Holding, Points, TypeOK, HostOK
      <3> DEFINE s == [mem[c] EXCEPT !.active = Metered(mem[c]), !.lap = Off,
                                     !.status = "paused"]
      <3>2. Write(s)
        BY <2>3 DEF Meter
      <3>3. s.last = mem[c].last /\ s.pending = mem[c].pending /\ s.status # "absent"
        BY <3>1 DEF StateFile
      <3> QED BY <3>1, <3>2, <3>3, SameEpochs
    <2>4. CASE StartWrite(c) \/ Expire(c) \/ Publish(c) \/ RecordWrite(c)
                 \/ ResumeWrite(c) \/ StopWrite(c)
      BY <2>4, EpochWrites
    <2> QED BY <1>3, <2>1, <2>2, <2>3, <2>4
            DEF Step, DockerRun, Poll, RemoveExpired, Scan, Pause, Stage, Evaluate,
                WriteResult, RecordRead, ResumeRead, Decide, Unpause, StopRead,
                StopRemove
  <1>4. CASE (\E c \in Ctl : Kill(c)) \/ Detach \/ Script
    BY <1>4, EpochsUntouched
       DEF Kill, Detach, Script, EpochEnd, ReadDecision, Exit
  <1>5. CASE Tick
    <2>1. st' = Age(st) /\ st \in StateFile
      BY <1>5 DEF Tick, TypeOK, JobOK
    <2> QED BY <2>1, AgeType, EpochsUntouched
  <1> QED BY <1>1, <1>2, <1>3, <1>4, <1>5 DEF Next

\* The serial invariant is inductive when no command is ever left behind.
LEMMA SerialInvariant ==
    ASSUME "detach" \notin Faults
    PROVE  /\ Init => Serial
           /\ Serial /\ [Next]_vars => Serial'
  <1>1. Init => Serial
    <2>1. Init => OneCommand /\ NoLostUpdate
      BY DEF Init, OneCommand, NoLostUpdate, Holding
    <2>2. Init => PendingIsLater
      BY DEF Init, PendingIsLater, NoState
    <2> QED BY <2>1, <2>2, LocalInit DEF Serial
  <1>2. ASSUME Serial, [Next]_vars PROVE Serial'
    <2>1. TypeOK' /\ InFlight'
      BY <1>2, LocalStep DEF Serial
    <2>2. PendingIsLater'
      BY <1>2, EpochsStep DEF EpochStep
    <2>3. OneCommand' /\ NoLostUpdate'
      <3>1. CASE UNCHANGED vars
        BY <1>2, <3>1 DEF vars, host, Serial, OneCommand, NoLostUpdate
      <3>2. CASE \E c \in Ctl : Call(c)
        BY <1>2, <3>2, SerialCall
      <3>3. CASE \E c \in Ctl : Step(c)
        BY <1>2, <3>3, SerialStep
      <3>4. CASE (\E c \in Ctl : Kill(c)) \/ Detach \/ Script \/ Tick
        BY <1>2, <3>4, SerialRest
      <3> QED BY <1>2, <3>1, <3>2, <3>3, <3>4 DEF Next
    <2> QED BY <2>1, <2>2, <2>3 DEF Serial
  <1> QED BY <1>1, <1>2

\* Under a caller that waits for one command at a time, and kills the ones it gives
\* up on, the job refines the epoch handshake: epochs are
\* offered one at a time, in increasing order, and an offer stands until it is
\* settled, however commands fail or are killed between two of their effects.
THEOREM ImplementsHandshake ==
    ASSUME "detach" \notin Faults
    PROVE  Spec => RefinesHandshake
  <1>1. Init => Handshake!Init
    BY DEF Init, NoState, Handshake!Init
  <1>2. Serial /\ [Next]_vars => [Handshake!Next]_<<st.last, st.pending>>
    BY EpochsStep DEF EpochStep
  <1> QED BY <1>1, <1>2, SerialInvariant, PTL
         DEF Spec, RefinesHandshake, Handshake!Spec

-----------------------------------------------------------------------------
(* What is on disk.  The results and stages of epochs are only ever added, *)
(* so what a command has seen there stays true while others run: the       *)
(* argument needs neither the lock nor the serial caller.                  *)

\* A copy of state.json whose pending epoch was staged and has an outcome.

\* What a command has already put on disk at its control point.
DiskOf(c) ==
    /\ Backed(mem[c])
    /\ at[c] \in {"evaluate", "result", "publish"} => ev[c] \in staged
    /\ at[c] \in {"result", "publish", "r_result"} => note[c] # "none"
    /\ at[c] = "publish" => results[ev[c]] # "none"

Disk == Backed(st) /\ (\A c \in Ctl : DiskOf(c)) /\ DecisionAfterResult

\* No step takes a stage or a result away.
Grows == staged \subseteq staged' /\ \A e \in Epochs : results[e] # "none" => results'[e] # "none"

\* Processes a step does not touch keep what they have put on disk.
LEMMA OthersDisk ==
    ASSUME TypeOK, InFlight, Disk, Grows, NEW c \in Ctl,
           \E p : at' = [at EXCEPT ![c] = p],
           \E m : mem' = [mem EXCEPT ![c] = m],
           \E e : ev' = [ev EXCEPT ![c] = e],
           \E n : note' = [note EXCEPT ![c] = n]
    PROVE  \A d \in Ctl \ {c} : DiskOf(d)'
  <1> SUFFICES ASSUME NEW d \in Ctl \ {c} PROVE DiskOf(d)'
    OBVIOUS
  <1>1. at'[d] = at[d] /\ mem'[d] = mem[d] /\ ev'[d] = ev[d] /\ note'[d] = note[d]
    BY DEF TypeOK, HostOK
  <1>2. DiskOf(d) /\ InFlightOf(d) /\ mem[d].pending \in Epochs \cup {NoEpoch}
    BY DEF Disk, InFlight, TypeOK, HostOK, StateFile
  <1> QED BY <1>1, <1>2 DEF DiskOf, Backed, Grows, InFlightOf

\* A command that ends.
LEMMA ReturnDisk ==
    ASSUME TypeOK, InFlight, Disk, Grows, NEW c \in Ctl, NEW r, Return(c, r)
    PROVE  \A d \in Ctl : DiskOf(d)'
  <1>1. \A d \in Ctl \ {c} : DiskOf(d)'
    BY OthersDisk DEF Return, Goto
  <1>2. DiskOf(c)'
    BY DEF Return, Goto, TypeOK, HostOK, DiskOf, Backed, NoState
  <1> QED BY <1>1, <1>2

\* A command that moves on to a point that asks for no more than the last.
LEMMA ContinueDisk ==
    ASSUME TypeOK, InFlight, Disk, Grows, NEW c \in Ctl, NEW p, Continue(c, p),
           p \in {"evaluate", "result", "publish"} => ev[c] \in staged',
           p \in {"result", "publish", "r_result"} => note[c] # "none",
           p = "publish" => results'[ev[c]] # "none"
    PROVE  \A d \in Ctl : DiskOf(d)'
  <1>1. /\ mem' = [mem EXCEPT ![c] = mem[c]]
        /\ ev' = [ev EXCEPT ![c] = ev[c]]
        /\ note' = [note EXCEPT ![c] = note[c]]
    BY DEF Continue, TypeOK, HostOK
  <1>2. \A d \in Ctl \ {c} : DiskOf(d)'
    BY <1>1, OthersDisk DEF Continue, Goto
  <1>3. /\ at'[c] = p /\ mem'[c] = mem[c] /\ ev'[c] = ev[c] /\ note'[c] = note[c]
        /\ Backed(mem[c]) /\ mem[c].pending \in Epochs \cup {NoEpoch}
    BY DEF Continue, Goto, TypeOK, HostOK, StateFile, Disk, DiskOf
  <1>4. DiskOf(c)'
    BY <1>3 DEF DiskOf, Backed, Grows
  <1> QED BY <1>2, <1>4

\* A command that takes a copy of state.json.
LEMMA ReadDisk ==
    ASSUME TypeOK, InFlight, Disk, Grows, NEW c \in Ctl, NEW p, Read(c, p),
           p \notin {"evaluate", "result", "publish", "r_result"}
    PROVE  \A d \in Ctl : DiskOf(d)'
  <1>1. ev' = [ev EXCEPT ![c] = ev[c]] /\ note' = [note EXCEPT ![c] = note[c]]
    BY DEF Read, TypeOK, HostOK
  <1>2. \A d \in Ctl \ {c} : DiskOf(d)'
    BY <1>1, OthersDisk DEF Read, Goto
  <1>3. /\ at'[c] = p /\ mem'[c] = st
        /\ Backed(st) /\ st.pending \in Epochs \cup {NoEpoch}
    BY DEF Read, Goto, TypeOK, HostOK, JobOK, StateFile, Disk
  <1>4. DiskOf(c)'
    BY <1>3 DEF DiskOf, Backed, Grows
  <1> QED BY <1>2, <1>4

\* Where no file of the mailbox changes, nothing is taken away.
LEMMA NothingTaken ==
    ASSUME UNCHANGED <<decisions, staged, results>>
    PROVE  Grows /\ (DecisionAfterResult => DecisionAfterResult')
  BY DEF Grows, DecisionAfterResult

\* The commands that end by replacing state.json: the epoch they leave pending
\* is one they have staged and evaluated, or the one of their copy.
LEMMA DiskWrites ==
    ASSUME TypeOK, InFlight, Disk, NEW c \in Ctl,
           StartWrite(c) \/ Expire(c) \/ Publish(c) \/ RecordWrite(c)
             \/ ResumeWrite(c) \/ StopWrite(c)
    PROVE  Disk'
  <1>1. UNCHANGED mailbox /\ \E r : Return(c, r)
    BY DEF StartWrite, Expire, Publish, RecordWrite, ResumeWrite, StopWrite
  <1>2. Grows /\ DecisionAfterResult'
    BY <1>1, NothingTaken DEF mailbox, Disk
  <1>3. \A d \in Ctl : DiskOf(d)'
    BY <1>1, <1>2, ReturnDisk
  <1>4. UNCHANGED <<staged, results>> /\ DiskOf(c) /\ mem[c] \in StateFile
    BY <1>1 DEF mailbox, Disk, TypeOK, HostOK
  <1>5. st'.pending \in {mem[c].pending, NoEpoch} \/ (at[c] = "publish" /\ st'.pending = ev[c])
    BY <1>4 DEF StartWrite, Expire, Publish, RecordWrite, ResumeWrite, StopWrite,
                Write, StateFile
  <1>6. Backed(st)'
    BY <1>4, <1>5 DEF Backed, DiskOf
  <1> QED BY <1>2, <1>3, <1>6 DEF Disk

\* The steps that write the mailbox.
LEMMA DiskMailbox ==
    ASSUME TypeOK, InFlight, Disk, NEW c \in Ctl,
           Stage(c) \/ WriteResult(c) \/ Decide(c)
    PROVE  Disk'
  <1>1. /\ DiskOf(c) /\ InFlightOf(c) /\ note[c] \in Notes
        /\ mem[c].pending \in Epochs \cup {NoEpoch}
        /\ st.pending \in Epochs \cup {NoEpoch}
    BY DEF Disk, InFlight, TypeOK, HostOK, JobOK, StateFile
  <1>2. CASE Stage(c)
    <2>1. Grows /\ UNCHANGED <<st, decisions, results>>
      BY <1>2 DEF Stage, Grows
    <2>2. \A d \in Ctl : DiskOf(d)'
      BY <1>2, <2>1, ContinueDisk, ReturnDisk DEF Stage
    <2>3. Backed(st)' /\ DecisionAfterResult'
      BY <1>1, <2>1 DEF Disk, Backed, DecisionAfterResult, Grows
    <2> QED BY <2>2, <2>3 DEF Disk
  <1>3. CASE WriteResult(c)
    <2>1. /\ ev[c] \in Epochs /\ note[c] # "none"
          /\ at[c] = "result" => ev[c] \in staged
      BY <1>1, <1>3 DEF WriteResult, DiskOf, InFlightOf
    <2>2. /\ results' = [results EXCEPT ![ev[c]] = note[c]]
          /\ results \in [Epochs -> Notes] /\ UNCHANGED <<st, staged, decisions>>
      BY <1>3 DEF WriteResult, TypeOK, JobOK
    <2>3. Grows /\ results'[ev[c]] # "none"
      BY <2>1, <2>2 DEF Grows
    <2>4. \A d \in Ctl : DiskOf(d)'
      BY <1>3, <2>1, <2>2, <2>3, ContinueDisk DEF WriteResult
    <2>5. Backed(st)' /\ DecisionAfterResult'
      BY <1>1, <2>2, <2>3 DEF Disk, Backed, DecisionAfterResult, Grows
    <2> QED BY <2>4, <2>5 DEF Disk
  <1>4. CASE Decide(c)
    <2>1. mem[c].pending \in Epochs
      BY <1>1, <1>4 DEF Decide, InFlightOf, NoEpoch, Epochs
    <2>2. UNCHANGED <<st, staged, results>> /\ Grows
      BY <1>4 DEF Decide, Grows
    <2>3. \A d \in Ctl : DiskOf(d)'
      BY <1>4, <2>2, ContinueDisk DEF Decide
    <2>4. mem[c].pending \in staged /\ results[mem[c].pending] # "none"
      BY <1>1, <2>1, TrainJobAssumption DEF DiskOf, Backed, NoEpoch, Epochs
    <2>5. \A e \in Epochs : decisions'[e] # "none"
                               => decisions[e] # "none" \/ e = mem[c].pending
      BY <1>4 DEF Decide, TypeOK, JobOK
    <2>6. DecisionAfterResult'
      BY <2>2, <2>4, <2>5 DEF Disk, DecisionAfterResult
    <2>7. Backed(st)'
      BY <2>2 DEF Disk, Backed
    <2> QED BY <2>3, <2>6, <2>7 DEF Disk
  <1> QED BY <1>2, <1>3, <1>4

\* Issuing a command.
LEMMA DiskCall ==
    ASSUME TypeOK, InFlight, Disk, NEW c \in Ctl, Call(c)
    PROVE  Disk'
  <1>1. UNCHANGED <<mailbox, note>> /\ st' \in {st, NewState}
    BY DEF Call, Start, Await, Record, Resume, Stop, Begin, Write
  <1>2. /\ \E p \in {"launch", "poll", "r_read", "c_read", "s_read"} : at' = [at EXCEPT ![c] = p]
        /\ \E m \in {mem[c], NewState} : mem' = [mem EXCEPT ![c] = m]
        /\ \E e : ev' = [ev EXCEPT ![c] = e]
    BY DEF Call, Start, Await, Record, Resume, Stop, Begin, Goto, TypeOK, HostOK
  <1>3. Grows /\ DecisionAfterResult'
    BY <1>1, NothingTaken DEF mailbox, Disk
  <1>4. note' = [note EXCEPT ![c] = note[c]]
    BY <1>1 DEF TypeOK, HostOK
  <1>5. \A d \in Ctl \ {c} : DiskOf(d)'
    BY <1>2, <1>3, <1>4, OthersDisk
  <1>6. DiskOf(c) /\ NewState.pending = NoEpoch /\ UNCHANGED <<staged, results>>
    BY <1>1 DEF Disk, NewState, NoState, mailbox
  <1>7. /\ mem'[c] \in {mem[c], NewState}
        /\ at'[c] \in {"launch", "poll", "r_read", "c_read", "s_read"}
    BY <1>2 DEF TypeOK, HostOK
  <1>8. DiskOf(c)'
    BY <1>6, <1>7 DEF DiskOf, Backed
  <1>9. Backed(st)'
    BY <1>1, <1>6 DEF Disk, Backed
  <1> QED BY <1>3, <1>5, <1>8, <1>9 DEF Disk

\* The steps that leave the mailbox and state.json alone.
LEMMA DiskMoves ==
    ASSUME TypeOK, InFlight, Disk, NEW c \in Ctl,
           DockerRun(c) \/ RemoveExpired(c) \/ Pause(c) \/ Unpause(c) \/ StopRemove(c)
             \/ Poll(c) \/ RecordRead(c) \/ ResumeRead(c) \/ StopRead(c)
             \/ Scan(c) \/ Evaluate(c) \/ Kill(c)
    PROVE  Disk'
  <1>1. UNCHANGED <<mailbox, st>>
    BY DEF DockerRun, RemoveExpired, Pause, Unpause, StopRemove, Poll, RecordRead,
           ResumeRead, StopRead, Scan, Evaluate, Kill
  <1>2. Grows /\ DecisionAfterResult' /\ UNCHANGED <<st, staged, results>> /\ Backed(st)'
    BY <1>1, NothingTaken DEF mailbox, Disk, Backed
  <1>3. CASE \E r : Return(c, r)
    BY <1>2, <1>3, ReturnDisk DEF Disk
  <1>4. CASE \E p \in Points \ {"evaluate", "result", "publish", "r_result"} :
                Continue(c, p) \/ Read(c, p)
    BY <1>2, <1>4, ContinueDisk, ReadDisk DEF Disk
  <1>5. CASE Scan(c) /\ Goto(c, "pause") /\ UNCHANGED <<mem, note>>
    <2>1. mem' = [mem EXCEPT ![c] = mem[c]] /\ note' = [note EXCEPT ![c] = note[c]]
      BY <1>5 DEF TypeOK, HostOK
    <2>2. \E e : ev' = [ev EXCEPT ![c] = e]
      BY <1>5 DEF Scan, Continue, Return, TypeOK, HostOK
    <2>3. \A d \in Ctl \ {c} : DiskOf(d)'
      BY <1>2, <1>5, <2>1, <2>2, OthersDisk DEF Goto
    <2>4. DiskOf(c)'
      BY <1>2, <1>5 DEF Disk, DiskOf, Backed, Goto, TypeOK, HostOK
    <2> QED BY <1>2, <2>3, <2>4 DEF Disk
  <1>6. CASE Evaluate(c)
    <2>1. /\ mem' = [mem EXCEPT ![c] = mem[c]] /\ ev' = [ev EXCEPT ![c] = ev[c]]
          /\ \E n \in {"complete", "failed", "staged"} : note' = [note EXCEPT ![c] = n]
      BY <1>6 DEF Evaluate, Outcomes, TypeOK, HostOK
    <2>2. \A d \in Ctl \ {c} : DiskOf(d)'
      BY <1>2, <1>6, <2>1, OthersDisk DEF Evaluate, Goto
    <2>3. at[c] = "evaluate" /\ at'[c] = "result" /\ note'[c] # "none"
      BY <1>6, <2>1 DEF Evaluate, Goto, TypeOK, HostOK
    <2>4. DiskOf(c)'
      BY <1>2, <1>6, <2>3 DEF Evaluate, Disk, DiskOf, Backed
    <2> QED BY <1>2, <2>2, <2>4 DEF Disk
  <1>7. CASE RecordRead(c) /\ ~\E r : Return(c, r)
    <2>1. /\ Goto(c, "r_result") /\ mem' = [mem EXCEPT ![c] = st] /\ UNCHANGED ev
          /\ \E n \in {"complete", "failed"} : note' = [note EXCEPT ![c] = n]
      BY <1>7 DEF RecordRead
    <2>2. ev' = [ev EXCEPT ![c] = ev[c]]
      BY <2>1 DEF TypeOK, HostOK
    <2>3. \A d \in Ctl \ {c} : DiskOf(d)'
      BY <1>2, <2>1, <2>2, OthersDisk DEF Goto
    <2>4. at'[c] = "r_result" /\ mem'[c] = st /\ note'[c] # "none"
      BY <2>1 DEF Goto, TypeOK, HostOK
    <2>5. DiskOf(c)'
      BY <1>2, <2>4 DEF Disk, DiskOf, Backed
    <2> QED BY <1>2, <2>3, <2>5 DEF Disk
  <1>8. CASE \/ DockerRun(c) \/ RemoveExpired(c) \/ Pause(c) \/ Unpause(c)
             \/ StopRemove(c) \/ Poll(c) \/ ResumeRead(c) \/ StopRead(c) \/ Kill(c)
    BY <1>3, <1>4, <1>8
       DEF DockerRun, RemoveExpired, Pause, Unpause, StopRemove, Poll, ResumeRead,
           StopRead, Kill, Points
  <1>9. CASE Scan(c)
    BY <1>3, <1>4, <1>5, <1>9 DEF Scan, Points
  <1> QED BY <1>3, <1>6, <1>7, <1>8, <1>9

\* The end that await notices, and the meter it stops.
LEMMA DiskMeter ==
    ASSUME TypeOK, InFlight, Disk, NEW c \in Ctl, Inspect(c) \/ Meter(c)
    PROVE  Disk'
  <1>1. Grows /\ DecisionAfterResult' /\ UNCHANGED <<staged, results>>
    BY NothingTaken DEF Inspect, Meter, mailbox, Disk
  <1>2. DiskOf(c) /\ Backed(st) /\ mem[c] \in StateFile
    BY DEF Disk, TypeOK, HostOK
  <1>3. CASE Inspect(c)
    <2>1. st'.pending \in {st.pending, mem[c].pending}
      BY <1>2, <1>3 DEF Inspect, Write, StateFile
    <2>2. Backed(st)'
      <3>1. CASE UNCHANGED st
        BY <1>1, <1>2, <3>1 DEF Backed
      <3>2. CASE st'.pending = mem[c].pending
        BY <1>1, <1>2, <3>2 DEF Backed, DiskOf
      <3> QED BY <1>1, <1>2, <2>1, <3>1, <3>2 DEF Backed
    <2>3. \A d \in Ctl : DiskOf(d)'
      BY <1>1, <1>3, ContinueDisk, ReturnDisk DEF Inspect
    <2> QED BY <1>1, <2>2, <2>3 DEF Disk
  <1>4. CASE Meter(c) /\ mem[c].lap = Off
    <2>1. UNCHANGED st /\ Return(c, Say("error"))
      BY <1>4 DEF Meter
    <2>2. \A d \in Ctl : DiskOf(d)'
      BY <1>1, <2>1, ReturnDisk
    <2> QED BY <1>1, <1>2, <2>1, <2>2 DEF Disk, Backed
  <1>5. CASE Meter(c) /\ mem[c].lap # Off
    <2> DEFINE s == [mem[c] EXCEPT !.active = Metered(mem[c]), !.lap = Off,
                                   !.status = "paused"]
    <2>1. s.pending = mem[c].pending
      BY <1>2 DEF StateFile
    <2>2. st' = s /\ mem' = [mem EXCEPT ![c] = s] /\ Goto(c, "stage") /\ UNCHANGED <<ev, note>>
      BY <1>5 DEF Meter, Write
    <2>3. ev' = [ev EXCEPT ![c] = ev[c]] /\ note' = [note EXCEPT ![c] = note[c]]
      BY <2>2 DEF TypeOK, HostOK
    <2>4. \A d \in Ctl \ {c} : DiskOf(d)'
      BY <1>1, <2>2, <2>3, OthersDisk DEF Goto
    <2>5. at'[c] = "stage" /\ mem'[c] = s
      BY <2>2 DEF Goto, TypeOK, HostOK
    <2>6. DiskOf(c)' /\ Backed(st)'
      BY <1>1, <1>2, <2>1, <2>2, <2>5 DEF DiskOf, Backed
    <2> QED BY <1>1, <2>4, <2>6 DEF Disk
  <1> QED BY <1>3, <1>4, <1>5

\* A lost connection, the script and the clock.
LEMMA DiskRest ==
    ASSUME TypeOK, InFlight, Disk, Detach \/ Script \/ Tick
    PROVE  Disk'
  <1>1. Grows /\ DecisionAfterResult' /\ UNCHANGED <<staged, results, ev, note>>
    BY NothingTaken DEF Detach, Script, EpochEnd, ReadDecision, Exit, Tick,
                        mailbox, host, Disk
  <1>2. st'.pending = st.pending /\ \A c \in Ctl : mem'[c].pending = mem[c].pending
    <2>1. CASE Detach \/ Script
      BY <2>1 DEF Detach, Script, EpochEnd, ReadDecision, Exit, host
    <2>2. CASE Tick
      BY <2>2, AgeType DEF Tick, TypeOK, JobOK, HostOK
    <2> QED BY <2>1, <2>2
  <1>3. \A c \in Ctl : at'[c] \in {at[c], "poll"}
    BY DEF Detach, Script, EpochEnd, ReadDecision, Exit, Tick, host
  <1>4. Backed(st)' /\ \A c \in Ctl : DiskOf(c)'
    BY <1>1, <1>2, <1>3 DEF Disk, DiskOf, Backed
  <1> QED BY <1>1, <1>4 DEF Disk

\* Every step keeps what is on disk consistent with what is said of it.
LEMMA DiskInvariant ==
    /\ Init => Disk
    /\ TypeOK /\ InFlight /\ Disk /\ [Next]_vars => Disk'
  <1>1. Init => Disk
    BY DEF Init, Disk, DiskOf, Backed, NoState, DecisionAfterResult
  <1>2. ASSUME TypeOK, InFlight, Disk, [Next]_vars PROVE Disk'
    <2>1. CASE UNCHANGED vars
      BY <1>2, <2>1
         DEF vars, mailbox, host, Disk, DiskOf, Backed, DecisionAfterResult
    <2>2. ASSUME NEW c \in Ctl, Call(c) \/ Step(c) \/ Kill(c) PROVE Disk'
      BY <1>2, <2>2, DiskCall, DiskWrites, DiskMailbox, DiskMoves, DiskMeter DEF Step
    <2>3. CASE Detach \/ Script \/ Tick
      BY <1>2, <2>3, DiskRest
    <2> QED BY <1>2, <2>1, <2>2, <2>3 DEF Next
  <1> QED BY <1>1, <1>2

\* The script is never answered about an epoch that was not staged and whose
\* outcome was not recorded, and a notification is never published before: for
\* any number of commands at once, however many of them were left behind on the
\* other side of a broken connection or killed between two of their effects.
THEOREM WordAfterDisk == Spec => []BackedWord
  <1>1. Disk => BackedWord
    BY DEF Disk, BackedWord
  <1> QED BY <1>1, LocalInit, LocalStep, DiskInvariant, PTL DEF Spec

-----------------------------------------------------------------------------
(* Under serial callers the recorded outcome is also the one on disk.      *)

Outcome == {"publish", "r_result", "r_write"}
NoteOnDisk ==
    /\ st.pending # NoEpoch /\ st.note # "staged" => results[st.pending] = st.note
    /\ \A c \in Ctl :
          /\ at[c] \in {"publish", "r_write"} => results[ev[c]] = note[c]
          /\ at[c] \in {"r_result", "r_write"} => st.note = "staged"

\* A step that is not about an outcome.
LEMMA OutcomesUntouched ==
    ASSUME NoteOnDisk, UNCHANGED results,
           st'.pending = NoEpoch \/ UNCHANGED <<st.pending, st.note>>,
           \A c \in Ctl : at'[c] \in Outcome =>
               at'[c] = at[c] /\ UNCHANGED <<ev[c], note[c], st.note>>
    PROVE  NoteOnDisk'
  BY DEF NoteOnDisk, Outcome

\* While a command runs, the others are idle, and it may write back its copy.
LEMMA Alone ==
    ASSUME Serial, NEW c \in Ctl, at[c] # "idle",
           \E p : at' = [at EXCEPT ![c] = p]
    PROVE  /\ \A d \in Ctl \ {c} : at'[d] = "idle"
           /\ at[c] \in Holding => mem[c] = st
  BY DEF Serial, OneCommand, NoLostUpdate, TypeOK, HostOK

\* The steps that make or move an outcome.
LEMMA OutcomeSteps ==
    ASSUME Serial, NoteOnDisk, NEW c \in Ctl,
           WriteResult(c) \/ Publish(c) \/ RecordRead(c) \/ RecordWrite(c)
    PROVE  NoteOnDisk'
  <1>1. /\ at[c] # "idle" /\ \E p : at' = [at EXCEPT ![c] = p]
        /\ UNCHANGED st \/ at[c] \in {"publish", "r_write"}
    BY DEF WriteResult, Publish, RecordRead, RecordWrite, Continue, Return, Goto
  <1>2. /\ \A d \in Ctl \ {c} : at'[d] = "idle"
        /\ at[c] \in Holding => mem[c] = st
    BY <1>1, Alone
  <1>3. /\ InFlightOf(c) /\ st \in StateFile /\ results \in [Epochs -> Notes]
        /\ c \in DOMAIN at /\ c \in DOMAIN note
    BY DEF Serial, InFlight, TypeOK, JobOK, HostOK
  <1>4. CASE WriteResult(c)
    <2>1. /\ ev[c] \in Epochs /\ UNCHANGED <<st, ev, note>> /\ mem[c] = st
          /\ results' = [results EXCEPT ![ev[c]] = note[c]]
          /\ at'[c] \in {"publish", "r_write"}
          /\ at'[c] = "r_write" <=> at[c] = "r_result"
          /\ at[c] = "result" => st.pending = NoEpoch
      BY <1>2, <1>3, <1>4 DEF WriteResult, Continue, Goto, InFlightOf, Holding, Points
    <2>2. results'[ev[c]] = note[c]
      BY <1>3, <2>1
    <2>3. at[c] = "r_result" => st.note = "staged"
      BY DEF NoteOnDisk
    <2>4. st.pending = NoEpoch \/ st.note = "staged"
      BY <1>4, <2>1, <2>3 DEF WriteResult
    <2> QED BY <1>2, <2>1, <2>2, <2>3, <2>4 DEF NoteOnDisk
  <1>5. CASE Publish(c) \/ RecordWrite(c)
    <2>1. /\ results[ev[c]] = note[c] /\ mem[c] = st /\ UNCHANGED results
          /\ at'[c] = "idle"
      BY <1>2, <1>3, <1>5 DEF Publish, RecordWrite, Return, Goto, NoteOnDisk, Holding, Points,
             mailbox
    <2>2. st'.pending = ev[c] /\ st'.note = note[c]
      BY <1>3, <1>5, <2>1 DEF Publish, RecordWrite, Write, StateFile, InFlightOf
    <2>3. \A d \in Ctl : at'[d] = "idle"
      BY <1>2, <2>1
    <2> QED BY <2>1, <2>2, <2>3 DEF NoteOnDisk
  <1>6. CASE RecordRead(c)
    <2>1. /\ UNCHANGED <<st, results>>
          /\ at'[c] \in {"idle", "r_result"}
          /\ at'[c] = "r_result" => st.note = "staged"
      BY <1>3, <1>6 DEF RecordRead, Return, Goto, mailbox
    <2>2. \A d \in Ctl : /\ at'[d] \notin {"publish", "r_write"}
                         /\ at'[d] = "r_result" => st'.note = "staged"
      BY <1>2, <2>1
    <2>3. st'.pending # NoEpoch /\ st'.note # "staged" => results'[st'.pending] = st'.note
      BY <2>1 DEF NoteOnDisk
    <2> QED BY <2>2, <2>3 DEF NoteOnDisk
  <1> QED BY <1>4, <1>5, <1>6

\* Every step keeps the outcome that state.json names and the one on disk alike.
LEMMA NoteStep ==
    ASSUME Serial, NoteOnDisk, [Next]_vars, "detach" \notin Faults
    PROVE  NoteOnDisk'
  <1>1. CASE UNCHANGED vars
    BY <1>1, OutcomesUntouched DEF vars, mailbox, host
  <1>2. ASSUME NEW c \in Ctl, Call(c) PROVE NoteOnDisk'
    <2>1. UNCHANGED <<results, note>> /\ (UNCHANGED st \/ st' = NewState)
      BY <1>2 DEF Call, Start, Await, Record, Resume, Stop, Begin, Write, mailbox
    <2>2. \E p \in {"launch", "poll", "r_read", "c_read", "s_read"} :
            at' = [at EXCEPT ![c] = p] /\ at[c] = "idle" /\ caller = NoCaller
      BY <1>2 DEF Call, Start, Await, Record, Resume, Stop, Begin, Goto
    <2>3. \A d \in Ctl : at'[d] \notin Outcome
      BY <2>2, TrainJobAssumption DEF Serial, OneCommand, TypeOK, HostOK, Outcome
    <2> QED BY <2>1, <2>3, OutcomesUntouched DEF NewState, NoState
  <1>3. ASSUME NEW c \in Ctl, Step(c) \/ Kill(c),
               ~(WriteResult(c) \/ Publish(c) \/ RecordRead(c) \/ RecordWrite(c))
        PROVE  NoteOnDisk'
    <2>1. /\ at[c] # "idle" /\ UNCHANGED results
          /\ \E p \in Points \ Outcome : at' = [at EXCEPT ![c] = p]
      BY <1>3 DEF Step, Kill, DockerRun, StartWrite, Poll, Inspect, RemoveExpired, Expire,
                  Scan, Pause, Meter, Stage, Evaluate, ResumeRead, Decide, Unpause,
                  ResumeWrite, StopRead, StopRemove, StopWrite,
                  Continue, Read, Return, Goto, Points, Outcome, mailbox
    <2>2. /\ \A d \in Ctl \ {c} : at'[d] = "idle"
          /\ at[c] \in Holding => mem[c] = st
      BY <2>1, Alone
    <2>3. \A d \in Ctl : at'[d] \notin Outcome
      BY <2>1, <2>2 DEF Serial, TypeOK, HostOK, Outcome
    <2>4. st'.pending = NoEpoch \/ UNCHANGED <<st.pending, st.note>>
      <3>1. CASE UNCHANGED st
        BY <3>1
      <3>2. CASE ~UNCHANGED st
        <4>1. StartWrite(c) \/ Inspect(c) \/ Expire(c) \/ Meter(c) \/ ResumeWrite(c) \/ StopWrite(c)
          BY <1>3, <3>2
             DEF Step, Kill, DockerRun, Poll, RemoveExpired, Scan, Pause, Stage, Evaluate,
                 ResumeRead, Decide, Unpause, StopRead, StopRemove
        <4>2. mem[c] = st /\ st \in StateFile
          BY <2>2, <4>1 DEF StartWrite, Inspect, Expire, Meter, ResumeWrite, StopWrite,
                            Holding, Points, Serial, TypeOK, JobOK
        <4>3. CASE StartWrite(c)
          BY <4>2, <4>3 DEF StartWrite, Write, StateFile
        <4>4. CASE Inspect(c)
          BY <3>2, <4>2, <4>4 DEF Inspect, Write, StateFile
        <4>5. CASE Expire(c)
          BY <4>2, <4>5 DEF Expire, Write, StateFile
        <4>6. CASE Meter(c)
          BY <3>2, <4>2, <4>6 DEF Meter, Write, StateFile
        <4>7. CASE ResumeWrite(c) \/ StopWrite(c)
          BY <4>2, <4>7 DEF ResumeWrite, StopWrite, Write, StateFile
        <4> QED BY <4>1, <4>3, <4>4, <4>5, <4>6, <4>7
      <3> QED BY <3>1, <3>2
    <2> QED BY <2>1, <2>3, <2>4, OutcomesUntouched
  <1>4. CASE Detach \/ Script
    <2>1. UNCHANGED <<st, results, at, ev, note>>
      BY <1>4 DEF Detach, Script, EpochEnd, ReadDecision, Exit, mailbox, host
    <2> QED BY <2>1, OutcomesUntouched
  <1>5. CASE Tick
    <2>1. UNCHANGED <<st.pending, st.note, results, ev, note>>
      BY <1>5, AgeType DEF Tick, mailbox, Serial, TypeOK, JobOK
    <2>2. \A c \in Ctl : at'[c] \in {at[c], "poll"}
      BY <1>5 DEF Tick
    <2> QED BY <2>1, <2>2, OutcomesUntouched DEF Outcome
  <1> QED BY <1>1, <1>2, <1>3, <1>4, <1>5, OutcomeSteps DEF Next, Step

\* What a notification says of its epoch is on disk, outcome included, and no
\* decision precedes it, for a caller that waits for one command at a time and
\* kills those it gives up on.
THEOREM NotificationsAreOnDisk ==
    ASSUME "detach" \notin Faults
    PROVE  Spec => []DiskBeforeWord
  <1>1. Init => NoteOnDisk
    BY DEF Init, NoteOnDisk, NoState
  <1>2. Serial /\ NoteOnDisk /\ [Next]_vars => NoteOnDisk'
    BY NoteStep
  <1>3. Serial => TypeOK /\ InFlight
    BY DEF Serial
  <1>4. Disk /\ NoteOnDisk => DiskBeforeWord
    BY DEF Disk, NoteOnDisk, DiskBeforeWord, BackedWord
  <1> QED BY <1>1, <1>2, <1>3, <1>4, SerialInvariant, DiskInvariant, PTL DEF Spec

-----------------------------------------------------------------------------
(* The life of a metered job under a caller that waits for one command at  *)
(* a time (no "detach"): what ended stays ended and an outcome is final;   *)
(* and, as long as no command is killed, the meter shows what the          *)
(* container computed and the container is what state.json says.           *)

-----------------------------------------------------------------------------
(* What the one command is doing.                                          *)

Doing == IF caller = NoCaller THEN "idle" ELSE at[caller]

\* The one command of serial callers: where it is, that the copy it is going to
\* write back is current, and where it is after it moves.
LEMMA Here ==
    ASSUME Serial, NEW c \in Ctl, at[c] # "idle"
    PROVE  /\ Doing = at[c]
           /\ at[c] \in Holding => mem[c] = st
           /\ InFlightOf(c)
           /\ \A r : Return(c, r) => Doing' = "idle"
           /\ \A p : Continue(c, p) \/ Read(c, p) => Doing' = p
           /\ \A p : Goto(c, p) /\ UNCHANGED caller => Doing' = p
  <1>1. caller = c /\ caller # NoCaller
    BY TrainJobAssumption DEF Serial, OneCommand
  <1>2. at \in [Ctl -> Points]
    BY DEF Serial, TypeOK, HostOK
  <1>3. \A p : Goto(c, p) => at'[c] = p
    BY <1>2 DEF Goto
  <1>4. \A r : Return(c, r) => Doing' = "idle"
    BY <1>1 DEF Return, Doing
  <1>5. \A p : Goto(c, p) /\ UNCHANGED caller => Doing' = p
    BY <1>1, <1>3 DEF Doing
  <1>6. \A p : Continue(c, p) \/ Read(c, p) => Doing' = p
    BY <1>5 DEF Continue, Read
  <1> QED BY <1>1, <1>4, <1>5, <1>6 DEF Doing, Serial, NoLostUpdate, InFlight

\* A command begins when no other one is there.
LEMMA Begins ==
    ASSUME Serial, NEW c \in Ctl, NEW p, Begin(c, p)
    PROVE  Doing = "idle" /\ Doing' = p
  BY TrainJobAssumption DEF Serial, TypeOK, HostOK, Begin, Goto, Doing

\* The processes are quiet exactly when there is no command.
LEMMA QuietIsIdle ==
    ASSUME Serial
    PROVE  /\ Quiet => Doing = "idle"
           /\ \A c \in Ctl : at[c] # "idle" => at[c] = Doing
  BY TrainJobAssumption DEF Serial, OneCommand, TypeOK, HostOK, Quiet, Doing

\* A poll interval passes: a command that slept polls again.
LEMMA Sleeps ==
    ASSUME Serial, Tick
    PROVE  /\ Doing \in {"idle", "sleep", "evaluate"}
           /\ Doing' = IF Doing = "sleep" THEN "poll" ELSE Doing
  BY TrainJobAssumption DEF Serial, TypeOK, HostOK, Tick, Doing

\* Every step of a command comes from a control point where one is.
LEMMA StepsAreBusy ==
    ASSUME NEW c \in Ctl, Step(c) \/ Kill(c)
    PROVE  at[c] # "idle"
  BY DEF Step, Kill, DockerRun, StartWrite, Poll, Inspect, RemoveExpired, Expire, Scan,
         Pause, Meter, Stage, Evaluate, WriteResult, Publish, RecordRead, RecordWrite,
         ResumeRead, Decide, Unpause, ResumeWrite, StopRead, StopRemove, StopWrite

-----------------------------------------------------------------------------
(* What is final.  A job that ended has neither a pending epoch to answer  *)
(* nor a running lap, and each of the commands that could make it active   *)
(* again needs one of the two.                                             *)

Launching == {"launch", "launched", "unlaunched"}
Freezing  == {"stage", "evaluate", "result", "publish"}

Closed ==
    /\ st.status \in Ended => st.pending = NoEpoch /\ st.lap = Off
    /\ st.pending = NoEpoch => st.note = "none"
    /\ Doing \in Launching => st.status = "starting"
    /\ Doing \in Freezing => st.status = "paused"

Final ==
    /\ st.status \in Ended => st'.status \in Ended
    /\ st.note \in {"complete", "failed"} /\ st'.pending = st.pending => st'.note = st.note

\* A step that leaves state.json alone, apart from its clock.
LEMMA ClosedUntouched ==
    ASSUME Closed,
           UNCHANGED <<st.status, st.pending, st.note>>,
           st'.lap = Off <=> st.lap = Off,
           Doing' \in Launching => Doing \in Launching,
           Doing' \in Freezing => Doing \in Freezing \/ st.status = "paused"
    PROVE  Closed' /\ Final
  BY DEF Closed, Final

\* The effects of a command that write state.json.
LEMMA ClosedWrites ==
    ASSUME Serial, Closed, NoteOnDisk, NEW c \in Ctl, Step(c), ~UNCHANGED st
    PROVE  Closed' /\ Final
  <1>1. at[c] # "idle"
    BY StepsAreBusy
  <1>2. st \in StateFile
    BY DEF Serial, TypeOK, JobOK
  <1>3. \/ StartWrite(c) \/ Inspect(c) \/ Expire(c) \/ Meter(c) \/ Publish(c)
        \/ RecordWrite(c) \/ ResumeWrite(c) \/ StopWrite(c)
    BY DEF Step, DockerRun, Poll, RemoveExpired, Scan, Pause, Stage, Evaluate, WriteResult,
           RecordRead, ResumeRead, Decide, Unpause, StopRead, StopRemove
  <1>4. mem[c] = st /\ Doing = at[c] /\ InFlightOf(c)
    BY <1>1, <1>3, Here DEF StartWrite, Inspect, Expire, Meter, Publish, RecordWrite,
                            ResumeWrite, StopWrite, Holding, Points
  <1>5. CASE StartWrite(c)
    <2>1. Doing' = "idle" /\ Doing \in Launching
      BY <1>1, <1>4, <1>5, Here DEF StartWrite, Launching
    <2>2. /\ st'.status \notin Ended
          /\ st'.pending = st.pending /\ st'.note = st.note
      BY <1>2, <1>4, <1>5 DEF StartWrite, Write, StateFile, Ended
    <2> QED BY <2>1, <2>2 DEF Closed, Final, Launching, Freezing, Ended
  <1>6. CASE Inspect(c)
    <2>1. Doing' = "idle"
      BY <1>1, <1>6, Here DEF Inspect
    <2>2. /\ st'.status \in Ended /\ st'.lap = Off
          /\ st'.pending = st.pending /\ st'.note = st.note /\ st.pending = NoEpoch
      BY <1>2, <1>4, <1>6 DEF Inspect, Write, StateFile, Ended, InFlightOf
    <2> QED BY <2>1, <2>2 DEF Closed, Final, Launching, Freezing
  <1>7. CASE Expire(c)
    <2>1. Doing' = "idle"
      BY <1>1, <1>7, Here DEF Expire
    <2>2. /\ st'.status \in Ended /\ st'.lap = Off
          /\ st'.pending = st.pending /\ st'.note = st.note /\ st.pending = NoEpoch
      BY <1>2, <1>4, <1>7 DEF Expire, Write, StateFile, Ended, InFlightOf
    <2> QED BY <2>1, <2>2 DEF Closed, Final, Launching, Freezing
  <1>8. CASE Meter(c)
    <2>1. Doing' = "stage" /\ st.lap # Off
      BY <1>1, <1>4, <1>8, Here DEF Meter
    <2>2. /\ st'.status = "paused"
          /\ st'.pending = st.pending /\ st'.note = st.note
      BY <1>2, <1>4, <1>8 DEF Meter, Write, StateFile
    <2> QED BY <2>1, <2>2 DEF Closed, Final, Launching, Freezing, Ended
  <1>9. CASE Publish(c)
    <2>1. Doing' = "idle" /\ Doing \in Freezing
      BY <1>1, <1>4, <1>9, Here DEF Publish, Freezing
    <2>2. /\ st'.status = "awaiting_decision" /\ st'.pending = ev[c]
          /\ ev[c] # NoEpoch /\ st.pending = NoEpoch
      BY <1>2, <1>4, <1>9 DEF Publish, Write, StateFile, InFlightOf, Epochs, NoEpoch
    <2> QED BY <2>1, <2>2 DEF Closed, Final, Launching, Freezing, Ended
  <1>10. CASE RecordWrite(c)
    <2>1. Doing' = "idle" /\ st.note = "staged"
      BY <1>1, <1>10, Here DEF RecordWrite, NoteOnDisk
    <2>2. /\ st'.status = st.status /\ st'.pending = st.pending /\ st'.lap = st.lap
          /\ st.pending # NoEpoch
      BY <1>2, <1>4, <1>10 DEF RecordWrite, Write, StateFile, InFlightOf, Epochs, NoEpoch
    <2> QED BY <2>1, <2>2 DEF Closed, Final, Launching, Freezing
  <1>11. CASE ResumeWrite(c)
    <2>1. Doing' = "idle"
      BY <1>1, <1>11, Here DEF ResumeWrite
    <2>2. /\ st'.status = "running" /\ st'.pending = NoEpoch /\ st'.note = "none"
          /\ st.pending # NoEpoch
      BY <1>2, <1>4, <1>11 DEF ResumeWrite, Write, StateFile, InFlightOf, Epochs, NoEpoch
    <2> QED BY <2>1, <2>2 DEF Closed, Final, Launching, Freezing, Ended
  <1>12. CASE StopWrite(c)
    <2>1. Doing' = "idle"
      BY <1>1, <1>12, Here DEF StopWrite
    <2>2. /\ st'.status = "stopped" /\ st'.pending = NoEpoch /\ st'.note = "none"
          /\ st'.lap = Off
      BY <1>2, <1>4, <1>12 DEF StopWrite, Write, StateFile
    <2> QED BY <2>1, <2>2 DEF Closed, Final, Launching, Freezing, Ended
  <1> QED BY <1>3, <1>5, <1>6, <1>7, <1>8, <1>9, <1>10, <1>11, <1>12

\* The effects of a command that do not.
LEMMA ClosedMoves ==
    ASSUME Serial, Closed, NEW c \in Ctl, Step(c) \/ Kill(c), UNCHANGED st
    PROVE  Closed' /\ Final
  <1>1. at[c] # "idle"
    BY StepsAreBusy
  <1>2. /\ Doing = at[c]
        /\ \A r : Return(c, r) => Doing' = "idle"
        /\ \A p : Continue(c, p) \/ Read(c, p) => Doing' = p
        /\ \A p : Goto(c, p) /\ UNCHANGED caller => Doing' = p
    BY <1>1, Here
  <1> USE DEF Launching, Freezing
  <1>3. CASE Kill(c) \/ StartWrite(c) \/ Expire(c) \/ Publish(c) \/ RecordWrite(c)
               \/ ResumeWrite(c) \/ StopWrite(c)
    <2>1. Doing' = "idle"
      BY <1>2, <1>3 DEF Kill, StartWrite, Expire, Publish, RecordWrite, ResumeWrite, StopWrite
    <2> QED BY <2>1, ClosedUntouched
  <1>4. CASE DockerRun(c) \/ Poll(c) \/ Inspect(c) \/ RemoveExpired(c) \/ Scan(c) \/ Pause(c)
    <2>1. Doing' \in {"idle", "inspect", "remove", "expire", "scan", "sleep", "pause", "meter"}
            \/ (Doing' \in Launching /\ Doing \in Launching)
      BY <1>2, <1>4 DEF DockerRun, Poll, Inspect, RemoveExpired, Scan, Pause
    <2> QED BY <2>1, ClosedUntouched
  <1>5. CASE Meter(c)
    <2>1. \/ Doing' = "idle"
          \/ st.status = "paused" /\ Doing' = "stage"
      <3>1. mem[c] = st /\ st \in StateFile
        BY <1>1, <1>5, Here DEF Meter, Holding, Points, Serial, TypeOK, JobOK
      <3> QED BY <1>2, <1>5, <3>1 DEF Meter, Write, StateFile
    <2> QED BY <2>1, ClosedUntouched
  <1>6. CASE Stage(c) \/ Evaluate(c) \/ WriteResult(c)
    <2>1. Doing' \in {"idle", "r_write"} \/ (Doing' \in Freezing /\ Doing \in Freezing)
      BY <1>2, <1>6 DEF Stage, Evaluate, WriteResult
    <2> QED BY <2>1, ClosedUntouched
  <1>7. CASE RecordRead(c) \/ ResumeRead(c) \/ Decide(c) \/ Unpause(c) \/ StopRead(c)
               \/ StopRemove(c)
    <2>1. Doing' \notin Launching /\ Doing' \notin Freezing
      BY <1>2, <1>7 DEF RecordRead, ResumeRead, Decide, Unpause, StopRead, StopRemove
    <2> QED BY <2>1, ClosedUntouched
  <1> QED BY <1>3, <1>4, <1>5, <1>6, <1>7 DEF Step

\* Every step.
LEMMA ClosedStep ==
    ASSUME Serial, Closed, NoteOnDisk, [Next]_vars, "detach" \notin Faults
    PROVE  Closed' /\ Final
  <1>1. CASE UNCHANGED vars
    <2>1. UNCHANGED <<st, Doing>>
      BY <1>1 DEF vars, host, Doing
    <2> QED BY <2>1, ClosedUntouched
  <1>2. ASSUME NEW c \in Ctl, Call(c) PROVE Closed' /\ Final
    <2>1. CASE Start(c)
      <3>1. Doing' = "launch" /\ st.status = "absent" /\ st' = NewState
        BY <2>1, Begins DEF Start, Write
      <3>2. st.pending = NoEpoch /\ st.note = "none"
        BY <3>1 DEF Serial, PendingIsLater, Closed
      <3> QED BY <3>1, <3>2
              DEF Closed, Final, Launching, Freezing, NewState, NoState, Ended
    <2>2. CASE ~Start(c)
      <3>1. UNCHANGED st /\ Doing' \in {"poll", "r_read", "c_read", "s_read"}
        BY <1>2, <2>2, Begins DEF Call, Await, Record, Resume, Stop
      <3> QED BY <3>1, ClosedUntouched DEF Launching, Freezing
    <2> QED BY <2>1, <2>2
  <1>3. CASE \E c \in Ctl : Step(c) \/ Kill(c)
    BY <1>3, ClosedWrites, ClosedMoves DEF Kill
  <1>4. CASE Script
    <2>1. UNCHANGED <<st, Doing>>
      BY <1>4 DEF Script, EpochEnd, ReadDecision, Exit, host, Doing
    <2> QED BY <2>1, ClosedUntouched
  <1>5. CASE Tick
    <2>1. Doing' \in {Doing, "poll"}
      BY <1>5, Sleeps
    <2>2. st' = Age(st) /\ st \in StateFile
      BY <1>5 DEF Tick, Serial, TypeOK, JobOK
    <2>3. UNCHANGED <<st.status, st.pending, st.note>>
      BY <2>2, AgeType
    <2>4. st'.lap = Off <=> st.lap = Off
      <3>1. CASE st.lap = Off
        BY <2>2, <3>1 DEF Age
      <3>2. CASE st.lap # Off
        BY <2>2, <3>2, PlusType, TrainJobAssumption DEF Age, StateFile, Off, Seconds
      <3> QED BY <3>1, <3>2
    <2> QED BY <2>1, <2>3, <2>4, ClosedUntouched DEF Launching, Freezing
  <1> QED BY <1>1, <1>2, <1>3, <1>4, <1>5 DEF Next, Detach

\* No job is revived and no outcome is rewritten, whichever commands fail, are
\* killed or are repeated, and even when docker rm left the container running.
THEOREM SettledIsFinal ==
    ASSUME "detach" \notin Faults
    PROVE  Spec => SettledForGood
  <1>1. Init => Closed /\ NoteOnDisk
    <2>1. Init => Closed
      BY TrainJobAssumption DEF Init, Closed, Doing, NoState, Ended, Launching, Freezing
    <2>2. Init => NoteOnDisk
      BY DEF Init, NoteOnDisk, NoState
    <2> QED BY <2>1, <2>2
  <1>2. Serial /\ Closed /\ NoteOnDisk /\ [Next]_vars => Closed' /\ NoteOnDisk' /\ Final
    BY ClosedStep, NoteStep
  <1>3. Final => /\ [st.status \in Ended => st'.status \in Ended]_st
                 /\ [st.note \in {"complete", "failed"} /\ st'.pending = st.pending
                        => st'.note = st.note]_st
    BY DEF Final
  <1> QED BY <1>1, <1>2, <1>3, SerialInvariant, PTL
         DEF Spec, SettledForGood, EndedStaysEnded, OutcomeFixed

-----------------------------------------------------------------------------
(* The meter.  If no command is killed, and until a docker rm or inspect   *)
(* fails unnoticed, state.json always shows what the container has         *)
(* computed: a running container has a running lap, a paused one has none, *)
(* except within the commands that are about to say so.  A failure nobody  *)
(* noticed ends the job in state.json, for good.                           *)

Serving == {"kill", "detach"} \cap Faults = {}

\* The meter and the container, given what the command in progress is doing.
Billing ==
    /\ Live => Metered(st) = ran /\ st.status \notin Ended
    /\ container = "running" => st.lap # Off \/ Doing \in {"c_write", "s_remove"}
    /\ container = "paused" => st.lap = Off \/ Doing = "meter"
    /\ st.pending # NoEpoch => st.lap = Off
    /\ st.status = "absent" => container = "missing" /\ ran = 0
    /\ Doing = "launch" => container = "missing" /\ Metered(st) = ran /\ st.lap # Off
    /\ Doing \in Freezing => st.lap = Off
    /\ Doing \in Freezing \cup {"meter"} => container # "running"
    /\ Doing = "c_write" => container # "paused"
    /\ Doing \in {"expire", "s_write"} => ~Live
    /\ Doing \in {"scan", "sleep"} => ran < Budget

\* The job is recorded as ended, or the command that left its container behind
\* is about to record it.
Escaped ==
    \/ st.status \in Ended
    \/ Doing \in {"expire", "s_write"} /\ st.status # "absent"

Metering == IF unseen THEN Escaped ELSE Billing

\* Closing a lap, or opening one, shows the same time.
LEMMA MeteredLaps ==
    ASSUME NEW s \in StateFile
    PROVE  /\ \A t : t.lap = Off /\ t.active = Metered(s) => Metered(t) = Metered(s)
           /\ \A t : t.lap = s.lap /\ t.active = s.active => Metered(t) = Metered(s)
           /\ \A t : s.lap = Off /\ t.lap = 0 /\ t.active = s.active => Metered(t) = Metered(s)
  BY TrainJobAssumption DEF Metered, Plus, StateFile, Off, Seconds

\* A poll interval adds one second to a running lap and nothing to a closed one.
LEMMA MeteredAge ==
    ASSUME NEW s \in StateFile
    PROVE  /\ s.lap = Off => Age(s) = s
           /\ s.lap # Off => Metered(Age(s)) = Plus(Metered(s), 1) /\ Age(s).lap # Off
  <1>1. CASE s.lap = Off
    BY <1>1 DEF Age
  <1>2. CASE s.lap # Off
    <2>1. /\ Age(s).lap = Plus(s.lap, 1) /\ Age(s).active = s.active
          /\ s.lap \in Nat /\ s.active \in Nat
      BY <1>2, TrainJobAssumption DEF Age, StateFile, Off, Seconds
    <2>2. Plus(s.lap, 1) # Off
      BY <2>1, TrainJobAssumption DEF Plus, Off
    <2>3. Plus(s.active, Plus(s.lap, 1)) = Plus(Plus(s.active, s.lap), 1)
      BY <2>1, TrainJobAssumption DEF Plus
    <2> QED BY <1>2, <2>1, <2>2, <2>3 DEF Metered
  <1> QED BY <1>1, <1>2

\* The effects of a command that write state.json.
LEMMA BillingWrites ==
    ASSUME Serial, Closed, Billing, ~unseen, ~unseen', NEW c \in Ctl,
           StartWrite(c) \/ (Inspect(c) /\ ~UNCHANGED st) \/ Expire(c) \/ Meter(c)
             \/ Publish(c) \/ RecordWrite(c) \/ ResumeWrite(c) \/ StopWrite(c)
    PROVE  Billing'
  <1>1. at[c] # "idle"
    BY DEF StartWrite, Inspect, Expire, Meter, Publish, RecordWrite, ResumeWrite, StopWrite
  <1>2. mem[c] = st /\ Doing = at[c] /\ InFlightOf(c)
    BY <1>1, Here DEF StartWrite, Inspect, Expire, Meter, Publish, RecordWrite,
                      ResumeWrite, StopWrite, Holding, Points
  <1>3. st \in StateFile /\ UNCHANGED <<container, ran>>
    BY DEF Serial, TypeOK, JobOK, docker, StartWrite, Inspect, Expire, Meter, Publish,
           RecordWrite, ResumeWrite, StopWrite
  <1>4. CASE StartWrite(c)
    <2>1. Doing' = "idle" /\ Doing \in {"launched", "unlaunched"}
      BY <1>1, <1>2, <1>4, Here DEF StartWrite
    <2>2. /\ st'.status \in {"running", "launch_failed"}
          /\ st'.pending = st.pending /\ st'.lap = st.lap /\ st'.active = st.active
      BY <1>2, <1>3, <1>4 DEF StartWrite, Write, StateFile
    <2>3. Metered(st') = Metered(st)
      BY <1>3, <2>2, MeteredLaps
    <2> QED BY <1>3, <2>1, <2>2, <2>3 DEF Billing, Live, Ended, Freezing
  <1>5. CASE Inspect(c) /\ ~UNCHANGED st
    <2>1. Doing' = "idle" /\ ~Live
      BY <1>1, <1>5, Here DEF Inspect, Live
    <2>2. st'.status \in Ended /\ st'.lap = Off
      BY <1>2, <1>3, <1>5 DEF Inspect, Write, StateFile, Ended
    <2> QED BY <1>3, <2>1, <2>2 DEF Billing, Live, Ended, Freezing
  <1>6. CASE Expire(c) \/ StopWrite(c)
    <2>1. Doing' = "idle" /\ Doing \in {"expire", "s_write"}
      BY <1>1, <1>2, <1>6, Here DEF Expire, StopWrite
    <2>2. st'.status \in Ended /\ st'.lap = Off
      BY <1>2, <1>3, <1>6 DEF Expire, StopWrite, Write, StateFile, Ended
    <2> QED BY <1>3, <2>1, <2>2 DEF Billing, Live, Ended, Freezing
  <1>7. CASE Meter(c)
    <2>1. Doing = "meter" /\ Doing' \in {"idle", "stage"}
      BY <1>1, <1>2, <1>7, Here DEF Meter
    <2>2. CASE st.lap = Off
      <3>1. UNCHANGED st
        BY <1>2, <1>7, <2>2 DEF Meter
      <3> QED BY <1>3, <2>1, <2>2, <3>1 DEF Billing, Live, Freezing
    <2>3. CASE st.lap # Off
      <3>1. /\ st'.status = "paused" /\ st'.pending = st.pending
            /\ st'.lap = Off /\ st'.active = Metered(st)
        BY <1>2, <1>3, <1>7, <2>3 DEF Meter, Write, StateFile
      <3>2. Metered(st') = Metered(st)
        BY <1>3, <3>1, MeteredLaps
      <3> QED BY <1>3, <2>1, <3>1, <3>2 DEF Billing, Live, Ended, Freezing
    <2> QED BY <2>2, <2>3
  <1>8. CASE Publish(c) \/ RecordWrite(c)
    <2>1. Doing' = "idle" /\ Doing \in {"publish", "r_write"}
      BY <1>1, <1>2, <1>8, Here DEF Publish, RecordWrite
    <2>2. /\ st'.status = IF Doing = "publish" THEN "awaiting_decision" ELSE st.status
          /\ st'.lap = st.lap /\ st'.active = st.active
          /\ Doing = "publish" \/ st'.pending = st.pending
      BY <1>2, <1>3, <1>8 DEF Publish, RecordWrite, Write, StateFile
    <2>3. Metered(st') = Metered(st)
      BY <1>3, <2>2, MeteredLaps
    <2> QED BY <1>3, <2>1, <2>2, <2>3 DEF Billing, Live, Ended, Freezing
  <1>9. CASE ResumeWrite(c)
    <2>1. Doing' = "idle" /\ Doing = "c_write"
      BY <1>1, <1>2, <1>9, Here DEF ResumeWrite
    <2>2. /\ st'.status = "running" /\ st'.pending = NoEpoch
          /\ st'.lap = 0 /\ st'.active = st.active
      BY <1>2, <1>3, <1>9 DEF ResumeWrite, Write, StateFile
    <2>3. st.lap = Off
      BY <1>2, <1>9 DEF ResumeWrite, InFlightOf, Billing, Epochs, NoEpoch
    <2>4. Metered(st') = Metered(st)
      BY <1>3, <2>2, <2>3, MeteredLaps
    <2> QED BY <1>3, <2>1, <2>2, <2>4 DEF Billing, Live, Ended, Freezing, Off
  <1> QED BY <1>4, <1>5, <1>6, <1>7, <1>8, <1>9

\* The effects of a command that do not.
LEMMA BillingMoves ==
    ASSUME Serial, Closed, Billing, ~unseen, ~unseen', Serving, NEW c \in Ctl, Step(c) \/ Kill(c),
           ~(StartWrite(c) \/ (Inspect(c) /\ ~UNCHANGED st) \/ Expire(c) \/ Meter(c)
             \/ Publish(c) \/ RecordWrite(c) \/ ResumeWrite(c) \/ StopWrite(c))
    PROVE  Billing'
  <1>1. at[c] # "idle"
    BY StepsAreBusy
  <1>2. /\ Doing = at[c] /\ InFlightOf(c)
        /\ at[c] \in Holding => mem[c] = st
        /\ \A r : Return(c, r) => Doing' = "idle"
        /\ \A p : Continue(c, p) \/ Read(c, p) => Doing' = p
        /\ \A p : Goto(c, p) /\ UNCHANGED caller => Doing' = p
    BY <1>1, Here
  <1>3. /\ container \in {"missing", "running", "paused", "exited"}
        /\ "kill" \notin Faults
    BY DEF Serial, TypeOK, JobOK, Serving
  <1> USE DEF Freezing
  <1>4. CASE DockerRun(c)
    BY <1>2, <1>4 DEF DockerRun, Billing, Live, Closed, Launching, Ended
  <1>5. CASE Poll(c) \/ Scan(c)
    BY <1>2, <1>5 DEF Poll, Scan, Billing, Live, docker
  <1>6. CASE Inspect(c) /\ UNCHANGED st
    <2>1. at[c] = "inspect" /\ UNCHANGED <<st, container, ran>>
      BY <1>6 DEF Inspect, docker
    <2>2. CASE Return(c, Say("finished"))
      <3>1. Doing' = "idle"
        BY <1>2, <2>2
      <3> QED BY <1>2, <2>1, <3>1 DEF Billing, Live
    <2>3. CASE container \notin {"exited", "missing"} /\ ~Return(c, Say("finished"))
      <3>1. Doing' = IF Metered(mem[c]) >= Budget THEN "remove" ELSE "scan"
        BY <1>2, <1>6, <2>3 DEF Inspect
      <3>2. Live /\ mem[c] = st /\ Metered(st) = ran
        BY <1>2, <1>3, <2>1, <2>3 DEF Live, Billing, Holding, Points
      <3>3. ran \in Nat /\ Budget \in Nat
        BY TrainJobAssumption DEF Serial, TypeOK, JobOK, Seconds
      <3> QED BY <1>2, <2>1, <3>1, <3>2, <3>3 DEF Billing, Live
    <2> QED BY <1>6, <2>2, <2>3 DEF Inspect
  <1>7. CASE RemoveExpired(c) \/ StopRemove(c)
    BY <1>2, <1>3, <1>7 DEF RemoveExpired, StopRemove, ForceRemove, Billing, Live
  <1>8. CASE Pause(c)
    BY <1>2, <1>8 DEF Pause, Billing, Live
  <1>9. CASE Stage(c) \/ Evaluate(c) \/ WriteResult(c)
    BY <1>2, <1>9 DEF Stage, Evaluate, WriteResult, Billing, Live, docker
  <1>10. CASE RecordRead(c) \/ ResumeRead(c) \/ Decide(c) \/ StopRead(c)
    BY <1>2, <1>10 DEF RecordRead, ResumeRead, Decide, StopRead, Billing, Live, docker
  <1>11. CASE Unpause(c)
    BY <1>2, <1>3, <1>11 DEF Unpause, Billing, Live
  <1> QED BY <1>3, <1>4, <1>5, <1>6, <1>7, <1>8, <1>9, <1>10, <1>11 DEF Step, Kill

\* Every step, as long as nothing failed unnoticed.
LEMMA BillingStep ==
    ASSUME Serial, Closed, Billing, ~unseen, ~unseen', Serving, [Next]_vars
    PROVE  Billing'
  <1>1. CASE UNCHANGED vars
    <2>1. UNCHANGED <<st, container, ran, Doing>>
      BY <1>1 DEF vars, host, docker, Doing
    <2> QED BY <2>1 DEF Billing, Live
  <1>2. ASSUME NEW c \in Ctl, Call(c) PROVE Billing'
    <2>1. UNCHANGED <<container, ran>>
      BY <1>2 DEF Call, Start, Await, Record, Resume, Stop, docker
    <2>2. CASE Start(c)
      <3>1. Doing' = "launch" /\ st.status = "absent" /\ st' = NewState
        BY <2>2, Begins DEF Start, Write
      <3>2. /\ NewState.status = "starting" /\ NewState.pending = NoEpoch
            /\ NewState.lap = 0 /\ NewState.active = 0
        BY DEF NewState, NoState
      <3>3. Metered(NewState) = 0 /\ NewState.lap # Off
        BY <3>2, TrainJobAssumption DEF Metered, Plus, Off
      <3> QED BY <2>1, <3>1, <3>2, <3>3 DEF Billing, Live, Freezing
    <2>3. CASE ~Start(c)
      <3>1. UNCHANGED st /\ Doing = "idle" /\ Doing' \in {"poll", "r_read", "c_read", "s_read"}
        BY <1>2, <2>3, Begins DEF Call, Await, Record, Resume, Stop
      <3> QED BY <2>1, <3>1 DEF Billing, Live, Freezing
    <2> QED BY <2>2, <2>3
  <1>3. CASE \E c \in Ctl : Step(c) \/ Kill(c)
    BY <1>3, BillingWrites, BillingMoves
  <1>4. CASE Script
    <2>1. UNCHANGED <<st, ran, Doing>>
      BY <1>4 DEF Script, EpochEnd, ReadDecision, Exit, host, Doing
    <2>2. UNCHANGED container \/ (Live /\ container' = "exited")
      BY <1>4 DEF Script, EpochEnd, ReadDecision, Exit, docker, Live
    <2> QED BY <2>1, <2>2 DEF Billing, Live
  <1>5. CASE Tick
    <2>1. Doing \in {"idle", "sleep", "evaluate"} /\ Doing' \in {"idle", "poll", "evaluate"}
            /\ (Doing' = "evaluate" => Doing = "evaluate")
      BY <1>5, Sleeps
    <2>2. /\ st' = Age(st) /\ st \in StateFile /\ UNCHANGED container
          /\ ran' = IF container = "running" THEN Plus(ran, 1) ELSE ran
      BY <1>5 DEF Tick, Serial, TypeOK, JobOK, docker
    <2>3. UNCHANGED <<st.status, st.pending>>
      BY <2>2, AgeType
    <2>4. CASE st.lap = Off
      <3>1. UNCHANGED st
        BY <2>2, <2>4, MeteredAge
      <3> QED BY <2>1, <2>2, <2>4, <3>1 DEF Billing, Live, Freezing
    <2>5. CASE st.lap # Off
      <3>1. Metered(st') = Plus(Metered(st), 1) /\ st'.lap # Off
        BY <2>2, <2>5, MeteredAge
      <3> QED BY <2>1, <2>2, <2>3, <2>5, <3>1 DEF Billing, Live, Freezing
    <2> QED BY <2>4, <2>5
  <1> QED BY <1>1, <1>2, <1>3, <1>4, <1>5 DEF Next, Detach, Serving

\* After a failure nobody noticed, and by the step that meets it.
LEMMA EscapedStep ==
    ASSUME Serial, Closed, NoteOnDisk, Metering, Serving, [Next]_vars, unseen'
    PROVE  Escaped'
  <1>1. st.status \in Ended => st'.status \in Ended
    BY ClosedStep DEF Final, Serving
  <1>2. CASE unseen /\ st.status \notin Ended
    <2>1. Doing \in {"expire", "s_write"} /\ st.status # "absent"
      BY <1>2 DEF Metering, Escaped
    <2>2. PICK c \in Ctl : at[c] = Doing /\ caller = c
      BY <2>1 DEF Doing, Serial, TypeOK, HostOK
    <2>3. CASE \E d \in Ctl : Step(d) \/ Kill(d)
      <3>1. PICK d \in Ctl : Step(d)
        BY <2>3 DEF Kill, Serving
      <3>2. at[d] # "idle"
        BY <3>1, StepsAreBusy
      <3>3. d = c
        BY <2>2, <3>2 DEF Serial, OneCommand
      <3>4. Expire(c) \/ StopWrite(c)
        BY <2>1, <2>2, <3>1, <3>3
           DEF Step, DockerRun, StartWrite, Poll, Inspect, RemoveExpired, Scan, Pause, Meter,
               Stage, Evaluate, WriteResult, Publish, RecordRead, RecordWrite, ResumeRead,
               Decide, Unpause, ResumeWrite, StopRead, StopRemove
      <3>5. mem[c] \in StateFile
        BY DEF Serial, TypeOK, HostOK
      <3> QED BY <3>4, <3>5 DEF Expire, StopWrite, Write, StateFile, Ended, Escaped
    <2>4. CASE ~\E d \in Ctl : Step(d) \/ Kill(d)
      <3>1. ~\E d \in Ctl : Call(d)
        <4> SUFFICES ASSUME NEW d \in Ctl, Call(d) PROVE FALSE
          OBVIOUS
        <4>1. caller = NoCaller
          BY DEF Call, Start, Await, Record, Resume, Stop, Begin
        <4> QED BY <2>2, <4>1, TrainJobAssumption
      <3>2. ~Tick
        BY <2>1, <2>2 DEF Tick
      <3>3. UNCHANGED <<st, Doing>>
        BY <2>4, <3>1, <3>2
           DEF Next, Detach, Serving, vars, host, Script, EpochEnd, ReadDecision, Exit, Doing
      <3> QED BY <2>1, <3>3 DEF Escaped
    <2> QED BY <2>3, <2>4
  <1>3. CASE ~unseen
    <2>1. PICK c \in Ctl : Inspect(c) \/ RemoveExpired(c) \/ StopRemove(c)
      BY <1>3 DEF Next, Call, Start, Await, Record, Resume, Stop, Step, DockerRun, StartWrite,
                  Poll, Expire, Scan, Pause, Meter, Stage, Evaluate, WriteResult, Publish,
                  RecordRead, RecordWrite, ResumeRead, Decide, Unpause, ResumeWrite, StopRead,
                  StopWrite, Kill, Detach, Script, EpochEnd, ReadDecision, Exit, Tick, vars
    <2>2. at[c] # "idle" /\ mem[c] \in StateFile
      BY <2>1 DEF Inspect, RemoveExpired, StopRemove, Serial, TypeOK, HostOK
    <2>3. CASE Inspect(c)
      <3>1. st' = [mem[c] EXCEPT !.active = Metered(mem[c]), !.lap = Off, !.status = "failed"]
        BY <1>3, <2>3 DEF Inspect, Write
      <3> QED BY <2>2, <3>1 DEF StateFile, Ended, Escaped
    <2>4. CASE RemoveExpired(c) \/ StopRemove(c)
      <3>1. Live /\ UNCHANGED st
        BY <1>3, <2>4 DEF RemoveExpired, StopRemove, ForceRemove
      <3>2. st.status # "absent"
        BY <1>3, <3>1 DEF Metering, Billing, Live
      <3>3. Doing' \in {"expire", "s_write"}
        BY <2>2, <2>4, Here DEF RemoveExpired, StopRemove
      <3> QED BY <3>1, <3>2, <3>3 DEF Escaped
    <2> QED BY <2>1, <2>3, <2>4
  <1> QED BY <1>1, <1>2, <1>3 DEF Escaped

\* What failed unnoticed stays so.
LEMMA UnseenStays == [Next]_vars => (unseen => unseen')
  BY DEF Next, Call, Start, Await, Record, Resume, Stop, Step, DockerRun, StartWrite,
         Poll, Inspect, RemoveExpired, ForceRemove, Expire, Scan, Pause, Meter, Stage, Evaluate,
         WriteResult, Publish, RecordRead, RecordWrite, ResumeRead, Decide, Unpause, ResumeWrite,
         StopRead, StopRemove, StopWrite, Kill, Detach, Script, EpochEnd, ReadDecision, Exit,
         Tick, vars

\* Every step.
LEMMA MeteringStep ==
    ASSUME Serial, Closed, NoteOnDisk, Metering, Serving, [Next]_vars
    PROVE  Metering'
  <1>1. CASE unseen'
    BY <1>1, EscapedStep DEF Metering
  <1>2. CASE ~unseen'
    BY <1>2, BillingStep, UnseenStays DEF Metering
  <1> QED BY <1>1, <1>2

\* The first state.
LEMMA MeteringInit == Init => Closed /\ Metering /\ NoteOnDisk
  <1>1. Init => Doing = "idle"
    BY TrainJobAssumption DEF Init, Doing
  <1>2. NoState.status = "absent" /\ NoState.lap = Off /\ NoState.note = "none"
          /\ NoState.pending = NoEpoch
    BY DEF NoState
  <1>3. Init => Closed
    BY <1>1, <1>2 DEF Init, Closed, Ended, Launching, Freezing
  <1>4. Init => Metering
    BY <1>1, <1>2 DEF Init, Metering, Billing, Live, Freezing
  <1>5. Init => NoteOnDisk
    BY DEF Init, NoteOnDisk, NoState
  <1> QED BY <1>3, <1>4, <1>5

\* The meter of state.json and the budget are those of the container: nothing of
\* an evaluation or of a wait is billed, no training is missed, and no await
\* sleeps on an exhausted budget.  Docker calls may fail, noticed or not,
\* artifacts be bad and a paused container die; a killed command would break it
\* (TrainJobUnmetered shows that).
THEOREM TheMeterIsRight ==
    ASSUME Serving
    PROVE  Spec => []TimeMetered
  <1>1. "detach" \notin Faults
    BY DEF Serving
  <1>2. Serial /\ Closed /\ Metering /\ NoteOnDisk /\ [Next]_vars
          => Closed' /\ Metering' /\ NoteOnDisk'
    BY <1>1, ClosedStep, MeteringStep, NoteStep
  <1>3. Serial /\ Metering => TimeMetered
    <2> SUFFICES ASSUME Serial, Metering PROVE TimeMetered
      OBVIOUS
    <2>1. MeterExact
      BY QuietIsIdle DEF MeterExact, Metering, Billing, Escaped, Live
    <2>2. BudgetEnforced
      BY QuietIsIdle DEF BudgetEnforced, Metering, Billing
    <2> QED BY <2>1, <2>2 DEF TimeMetered
  <1> QED BY <1>1, <1>2, <1>3, MeteringInit, SerialInvariant, PTL DEF Spec

-----------------------------------------------------------------------------
(* The pending epoch.  In a container that does not die while it is paused, *)
(* the script that published the pending epoch waits in epoch_end for it:   *)
(* an epoch that is neither settled nor pending is the one it waits for, so *)
(* the next event await takes up is that one.                               *)

Steady == Serving /\ "die" \notin Faults

\* The control points between the unpause of a decision and its record.
Settling == {"c_write", "s_remove", "s_write"}

\* The epoch the one command handles.
Handled == IF caller = NoCaller THEN NoEpoch ELSE ev[caller]

Frozen ==
    /\ Live => script.pc # "gone"
    /\ \A e \in events : e > st.last => e = st.pending \/ script.pc = "gone" \/ Waiting(e)
    /\ \A e \in Epochs : decisions[e] # "none" => e <= st.last \/ e = st.pending
    /\ st.pending # NoEpoch /\ Doing \notin Settling =>
          container = "paused" /\ Waiting(st.pending)
    /\ Doing \in Freezing \cup {"meter"} => container = "paused"
    /\ Doing \in Freezing \cup {"pause", "meter"} => Handled \in events
    /\ st.status = "absent" \/ Doing = "launch" => events = {}

\* The epoch of the one command, and when it changes.
LEMMA Handles ==
    ASSUME Serial, NEW c \in Ctl, at[c] # "idle"
    PROVE  /\ Handled = ev[c]
           /\ UNCHANGED <<ev, caller>> => Handled' = Handled
           /\ \A p : Continue(c, p) \/ Read(c, p) => Handled' = Handled
           /\ \A e : ev' = [ev EXCEPT ![c] = e] /\ UNCHANGED caller => Handled' = e
  <1>1. caller = c /\ caller # NoCaller
    BY TrainJobAssumption DEF Serial, OneCommand
  <1>2. c \in DOMAIN ev
    BY DEF Serial, TypeOK, HostOK
  <1>3. UNCHANGED <<ev, caller>> => Handled' = Handled
    BY DEF Handled
  <1>4. \A p : Continue(c, p) \/ Read(c, p) => Handled' = Handled
    BY <1>3 DEF Continue, Read
  <1>5. \A e : ev' = [ev EXCEPT ![c] = e] /\ UNCHANGED caller => Handled' = e
    BY <1>1, <1>2 DEF Handled
  <1> QED BY <1>1, <1>3, <1>4, <1>5 DEF Handled

\* The effects of a command that write state.json.
LEMMA FrozenWrites ==
    ASSUME Serial, Closed, Frozen, NEW c \in Ctl,
           StartWrite(c) \/ (Inspect(c) /\ ~UNCHANGED st) \/ Expire(c) \/ Meter(c)
             \/ Publish(c) \/ RecordWrite(c) \/ ResumeWrite(c) \/ StopWrite(c)
    PROVE  Frozen'
  <1>1. at[c] # "idle"
    BY DEF StartWrite, Inspect, Expire, Meter, Publish, RecordWrite, ResumeWrite, StopWrite
  <1>2. mem[c] = st /\ Doing = at[c] /\ InFlightOf(c) /\ Handled = ev[c]
    BY <1>1, Here, Handles DEF StartWrite, Inspect, Expire, Meter, Publish, RecordWrite,
                               ResumeWrite, StopWrite, Holding, Points
  <1>3. /\ st \in StateFile /\ events \subseteq Epochs
        /\ UNCHANGED <<container, script, events, decisions>>
    BY DEF Serial, TypeOK, JobOK, docker, mailbox, StartWrite, Inspect, Expire, Meter,
           Publish, RecordWrite, ResumeWrite, StopWrite
  <1>4. \A e : Waiting(e)' <=> Waiting(e)
    BY <1>3 DEF Waiting
  <1>5. st.last \in Int /\ st.pending \in Int /\ Epochs \subseteq Int
    BY <1>3, TrainJobAssumption DEF StateFile, Epochs, NoEpoch
  <1>6. CASE StartWrite(c) \/ (Inspect(c) /\ ~UNCHANGED st) \/ Expire(c) \/ RecordWrite(c)
    <2>1. Doing' = "idle" /\ Doing \notin Settling
      BY <1>1, <1>2, <1>6, Here DEF StartWrite, Inspect, Expire, RecordWrite, Settling
    <2>2. st'.last = st.last /\ st'.pending = st.pending
      BY <1>2, <1>3, <1>6 DEF StartWrite, Inspect, Expire, RecordWrite, Write, StateFile
    <2>3. st'.status = "absent" => st.status = "absent"
      BY <1>2, <1>3, <1>6 DEF StartWrite, Inspect, Expire, RecordWrite, Write, StateFile
    <2> QED BY <1>3, <1>4, <2>1, <2>2, <2>3 DEF Frozen, Live, Freezing, Settling
  <1>7. CASE Meter(c)
    <2>1. Doing = "meter" /\ Doing' \in {"idle", "stage"}
      BY <1>1, <1>2, <1>7, Here DEF Meter
    <2>2. /\ st'.last = st.last /\ st'.pending = st.pending
          /\ st'.status = "absent" => st.status = "absent"
      BY <1>2, <1>3, <1>7 DEF Meter, Write, StateFile
    <2>3. Doing' = "stage" => Handled' = Handled
      <3>1. CASE UNCHANGED <<ev, caller>>
        BY <1>1, <3>1, Handles
      <3>2. CASE ~UNCHANGED <<ev, caller>>
        BY <1>1, <1>7, <3>2, Here DEF Meter
      <3> QED BY <3>1, <3>2
    <2> QED BY <1>3, <1>4, <2>1, <2>2, <2>3 DEF Frozen, Live, Freezing, Settling
  <1>8. CASE Publish(c)
    <2>1. Doing' = "idle" /\ Doing = "publish"
      BY <1>1, <1>2, <1>8, Here DEF Publish
    <2>2. /\ st'.last = st.last /\ st'.pending = ev[c] /\ st'.status = "awaiting_decision"
      BY <1>2, <1>3, <1>8 DEF Publish, Write, StateFile
    <2>3. /\ st.pending = NoEpoch /\ ev[c] \in events /\ ev[c] > st.last
          /\ container = "paused" /\ ev[c] # NoEpoch
      BY <1>2, <1>8, <2>1 DEF Publish, InFlightOf, Frozen, Freezing, Epochs, NoEpoch
    <2>4. Waiting(ev[c])
      BY <2>3 DEF Frozen, Live
    <2>5. NoEpoch \notin Epochs
      BY DEF Epochs, NoEpoch
    <2> QED BY <1>3, <1>4, <2>1, <2>2, <2>3, <2>4, <2>5 DEF Frozen, Live, Freezing
  <1>9. CASE ResumeWrite(c) \/ StopWrite(c)
    <2>1. Doing' = "idle"
      BY <1>1, <1>9, Here DEF ResumeWrite, StopWrite
    <2>2. /\ st'.last = IF st.pending > st.last THEN st.pending ELSE st.last
          /\ st'.pending = NoEpoch /\ st'.status # "absent"
      <3>1. CASE ResumeWrite(c)
        <4>1. st'.last = st.pending /\ st'.pending = NoEpoch /\ st'.status = "running"
          BY <1>2, <1>3, <3>1 DEF ResumeWrite, Write, StateFile
        <4>2. st.pending # NoEpoch
          BY <1>2, <3>1 DEF ResumeWrite, InFlightOf, Epochs, NoEpoch
        <4> QED BY <4>1, <4>2 DEF Serial, PendingIsLater
      <3>2. CASE StopWrite(c)
        BY <1>2, <1>3, <3>2 DEF StopWrite, Write, StateFile
      <3> QED BY <1>9, <3>1, <3>2
    <2>3. st.pending # NoEpoch => st.pending > st.last
      BY DEF Serial, PendingIsLater
    <2>4. \A e \in Epochs : e # NoEpoch
      BY DEF Epochs, NoEpoch
    <2> QED BY <1>3, <1>4, <1>5, <2>1, <2>2, <2>3, <2>4 DEF Frozen, Live, Freezing
  <1> QED BY <1>6, <1>7, <1>8, <1>9

\* The effects of a command that do not.
LEMMA FrozenMoves ==
    ASSUME Serial, Closed, Frozen, Steady, NEW c \in Ctl, Step(c) \/ Kill(c),
           ~(StartWrite(c) \/ (Inspect(c) /\ ~UNCHANGED st) \/ Expire(c) \/ Meter(c)
             \/ Publish(c) \/ RecordWrite(c) \/ ResumeWrite(c) \/ StopWrite(c))
    PROVE  Frozen'
  <1>1. at[c] # "idle"
    BY StepsAreBusy
  <1>2. /\ Doing = at[c] /\ InFlightOf(c)
        /\ at[c] \in Holding => mem[c] = st
        /\ \A r : Return(c, r) => Doing' = "idle"
        /\ \A p : Continue(c, p) \/ Read(c, p) => Doing' = p
        /\ \A p : Goto(c, p) /\ UNCHANGED caller => Doing' = p
    BY <1>1, Here
  <1>3. /\ Handled = ev[c]
        /\ UNCHANGED <<ev, caller>> => Handled' = Handled
        /\ \A p : Continue(c, p) \/ Read(c, p) => Handled' = Handled
        /\ \A e : ev' = [ev EXCEPT ![c] = e] /\ UNCHANGED caller => Handled' = e
    BY <1>1, Handles
  <1>4. /\ container \in {"missing", "running", "paused", "exited"}
        /\ events \subseteq Epochs /\ NoEpoch \notin Epochs
        /\ "kill" \notin Faults
        /\ UNCHANGED st
    BY DEF Serial, TypeOK, JobOK, Steady, Serving, Epochs, NoEpoch, Step, Kill, DockerRun,
           Poll, RemoveExpired, Scan, Pause, Stage, Evaluate, WriteResult, RecordRead,
           ResumeRead, Decide, Unpause, StopRead, StopRemove
  <1>5. UNCHANGED script => \A e : Waiting(e)' <=> Waiting(e)
    BY DEF Waiting
  <1> USE DEF Freezing, Settling
  <1>6. CASE DockerRun(c)
    <2>1. script' = [script EXCEPT !.pc = "compute"] => script'.pc = "compute"
      BY DEF Serial, TypeOK, JobOK
    <2>2. UNCHANGED <<events, decisions>> /\ events = {} /\ st.pending = NoEpoch
      BY <1>2, <1>6 DEF DockerRun, Frozen, mailbox, InFlightOf, Holding, Points
    <2> QED BY <1>2, <1>4, <1>6, <2>1, <2>2 DEF DockerRun, Frozen, Live
  <1>7. CASE Poll(c) \/ (Inspect(c) /\ UNCHANGED st)
    <2>1. UNCHANGED <<container, script, events, decisions>>
      BY <1>7 DEF Poll, Inspect, docker, mailbox
    <2>2. Doing \in {"poll", "inspect"} /\ Doing' \in {"idle", "inspect", "remove", "scan"}
      BY <1>2, <1>7 DEF Poll, Inspect
    <2> QED BY <1>4, <1>5, <2>1, <2>2 DEF Frozen, Live
  <1>8. CASE Scan(c)
    <2>1. UNCHANGED <<container, script, events, decisions>>
      BY <1>8 DEF Scan, docker, mailbox
    <2>2. /\ Doing = "scan" /\ Doing' \in {"idle", "sleep", "pause"}
          /\ Doing' = "pause" => Handled' \in events
      BY <1>2, <1>3, <1>8 DEF Scan, Unsettled
    <2> QED BY <1>4, <1>5, <2>1, <2>2 DEF Frozen, Live
  <1>9. CASE RemoveExpired(c) \/ StopRemove(c)
    <2>1. script' = [script EXCEPT !.pc = "gone"] => script'.pc = "gone"
      BY DEF Serial, TypeOK, JobOK
    <2>2. /\ UNCHANGED <<events, decisions>>
          /\ \/ container' = "missing" /\ script'.pc = "gone"
             \/ UNCHANGED <<container, script>>
          /\ Doing' \in {"expire", "s_write"}
          /\ Doing' = "expire" => Doing = "remove" /\ st.pending = NoEpoch
      BY <1>2, <1>9, <2>1
         DEF RemoveExpired, StopRemove, ForceRemove, mailbox, InFlightOf, Holding, Points
    <2>3. CASE container' = "missing" /\ script'.pc = "gone"
      BY <1>4, <2>2, <2>3 DEF Frozen, Live
    <2>4. CASE UNCHANGED <<container, script>>
      BY <1>4, <1>5, <2>2, <2>4 DEF Frozen, Live
    <2> QED BY <2>2, <2>3, <2>4
  <1>10. CASE Pause(c)
    <2>1. UNCHANGED <<script, events, decisions>>
      BY <1>10 DEF Pause, mailbox
    <2>2. Doing = "pause" /\ st.pending = NoEpoch
      BY <1>2, <1>10 DEF Pause, InFlightOf, Holding, Points
    <2>3. \/ /\ container = "running" /\ container' = "paused"
             /\ Doing' = "meter" /\ Handled' = Handled
          \/ UNCHANGED container /\ Doing' = "idle"
      BY <1>2, <1>3, <1>10 DEF Pause
    <2> QED BY <1>4, <1>5, <2>1, <2>2, <2>3 DEF Frozen, Live
  <1>11. CASE Stage(c) \/ Evaluate(c) \/ WriteResult(c)
    <2>1. UNCHANGED <<container, script, events, decisions>>
      BY <1>11 DEF Stage, Evaluate, WriteResult, docker, mailbox
    <2>2. /\ Doing \in Freezing \cup {"r_result"} /\ Doing' \in Freezing \cup {"idle", "r_write"}
          /\ Doing' \in Freezing => Doing \in Freezing /\ Handled' = Handled
      BY <1>2, <1>3, <1>11 DEF Stage, Evaluate, WriteResult
    <2> QED BY <1>4, <1>5, <2>1, <2>2 DEF Frozen, Live
  <1>12. CASE RecordRead(c) \/ ResumeRead(c) \/ StopRead(c)
    <2>1. UNCHANGED <<container, script, events, decisions>>
      BY <1>12 DEF RecordRead, ResumeRead, StopRead, docker, mailbox
    <2>2. /\ Doing \in {"r_read", "c_read", "s_read"}
          /\ Doing' \in {"idle", "r_result", "c_decide", "s_decide", "s_remove"}
          /\ Doing' = "s_remove" => st.pending = NoEpoch
      BY <1>2, <1>12 DEF RecordRead, ResumeRead, StopRead
    <2> QED BY <1>4, <1>5, <2>1, <2>2 DEF Frozen, Live
  <1>13. CASE Decide(c)
    <2>1. UNCHANGED <<container, script, events>>
      BY <1>13 DEF Decide, docker
    <2>2. \E d : decisions' = [decisions EXCEPT ![st.pending] = d]
      BY <1>2, <1>13 DEF Decide, Holding, Points
    <2>3. \A e \in Epochs : e # st.pending => decisions'[e] = decisions[e]
      BY <2>2 DEF Serial, TypeOK, JobOK
    <2>4. Doing \in {"c_decide", "s_decide"} /\ Doing' \in {"c_unpause", "s_unpause"}
      BY <1>2, <1>13 DEF Decide
    <2> QED BY <1>4, <1>5, <2>1, <2>3, <2>4 DEF Frozen, Live
  <1>14. CASE Unpause(c)
    <2>1. UNCHANGED <<script, events, decisions>>
      BY <1>14 DEF Unpause, mailbox
    <2>2. /\ Doing \in {"c_unpause", "s_unpause"}
          /\ \/ Doing' \in {"c_write", "s_remove"} /\ (Live' => Live)
             \/ Doing' = "idle" /\ UNCHANGED container
      BY <1>2, <1>14 DEF Unpause, Live
    <2> QED BY <1>4, <1>5, <2>1, <2>2 DEF Frozen, Live
  <1> QED BY <1>4, <1>6, <1>7, <1>8, <1>9, <1>10, <1>11, <1>12, <1>13, <1>14 DEF Step, Kill

\* The training script.
LEMMA FrozenScript ==
    ASSUME Serial, Closed, Metering, Frozen, Steady, Script
    PROVE  Frozen'
  <1>1. /\ UNCHANGED <<st, decisions, Doing, Handled>>
        /\ events \subseteq Epochs /\ container = "running" /\ script.pc # "gone"
        /\ script \in [pc: {"compute", "blocked", "gone"},
                       epoch: Epochs \cup {NoEpoch}, last: Epochs \cup {NoEpoch}]
    BY DEF Script, EpochEnd, ReadDecision, Exit, host, mailbox, Doing, Handled, Steady,
           Serial, TypeOK, JobOK, Frozen, Live
  <1>2. /\ st.pending = NoEpoch \/ Doing \in Settling
        /\ Doing \notin Freezing \cup {"meter"}
        /\ st.status # "absent" /\ Doing # "launch"
    <2>1. /\ st.pending = NoEpoch \/ Doing \in Settling
          /\ Doing \notin Freezing \cup {"meter"}
      BY <1>1 DEF Frozen
    <2>2. CASE unseen
      BY <2>1, <2>2 DEF Metering, Escaped, Closed, Launching, Ended
    <2>3. CASE ~unseen
      BY <1>1, <2>1, <2>3 DEF Metering, Billing
    <2> QED BY <2>2, <2>3
  <1>3. CASE EpochEnd
    <2>1. PICK e \in Epochs : /\ events' = events \cup {e}
                              /\ script' = [script EXCEPT !.pc = "blocked", !.epoch = e]
      BY <1>3 DEF EpochEnd
    <2>2. script'.pc = "blocked" /\ script'.epoch = e /\ script.pc = "compute"
      BY <1>1, <1>3, <2>1 DEF EpochEnd
    <2> QED BY <1>1, <1>2, <2>1, <2>2 DEF Frozen, Live, Waiting, Settling, Freezing
  <1>4. CASE ReadDecision
    <2>1. /\ UNCHANGED <<events, container>> /\ script'.pc = "compute"
          /\ decisions[script.epoch] # "none" /\ script.pc = "blocked"
      BY <1>1, <1>4 DEF ReadDecision, docker, mailbox
    <2>2. \A e \in events : e > st.last => e = st.pending
      <3> SUFFICES ASSUME NEW e \in events, e > st.last, e # st.pending PROVE FALSE
        OBVIOUS
      <3>1. script.epoch = e /\ e \in Epochs
        BY <1>1, <2>1 DEF Frozen, Waiting
      <3>2. e <= st.last
        BY <2>1, <3>1 DEF Frozen
      <3>3. e \in Int /\ st.last \in Int
        BY <3>1, TrainJobAssumption DEF Serial, TypeOK, JobOK, StateFile, Epochs, NoEpoch
      <3> QED BY <3>2, <3>3
    <2> QED BY <1>1, <1>2, <2>1, <2>2 DEF Frozen, Settling, Freezing
  <1>5. CASE Exit
    <2>1. UNCHANGED events /\ container' = "exited" /\ script'.pc = "gone"
      BY <1>1, <1>5 DEF Exit, mailbox
    <2> QED BY <1>1, <1>2, <2>1 DEF Frozen, Live, Settling, Freezing
  <1> QED BY <1>3, <1>4, <1>5 DEF Script

\* Every step.
LEMMA FrozenStep ==
    ASSUME Serial, Closed, Metering, Frozen, Steady, [Next]_vars
    PROVE  Frozen'
  <1>1. CASE UNCHANGED vars
    <2>1. UNCHANGED <<st, container, script, events, decisions, Doing, Handled>>
      BY <1>1 DEF vars, host, docker, mailbox, Doing, Handled
    <2> QED BY <2>1 DEF Frozen, Live, Waiting
  <1>2. ASSUME NEW c \in Ctl, Call(c) PROVE Frozen'
    <2>1. UNCHANGED <<container, script, events, decisions>>
      BY <1>2 DEF Call, Start, Await, Record, Resume, Stop, docker, mailbox
    <2>2. Doing = "idle" /\ Doing' \in {"launch", "poll", "r_read", "c_read", "s_read"}
      BY <1>2, Begins DEF Call, Start, Await, Record, Resume, Stop
    <2>3. CASE Start(c)
      <3>1. st.status = "absent" /\ st' = NewState
        BY <2>3 DEF Start, Write
      <3>2. /\ st.pending = NoEpoch /\ st.last = NoEpoch /\ st'.pending = NoEpoch
            /\ st'.last = NoEpoch
        BY <3>1 DEF NewState, NoState, Serial, PendingIsLater
      <3> QED BY <2>1, <2>2, <3>1, <3>2 DEF Frozen, Live, Waiting, Freezing, Settling
    <2>4. CASE ~Start(c)
      <3>1. UNCHANGED st /\ Doing' # "launch"
        BY <1>2, <2>4, Begins DEF Call, Await, Record, Resume, Stop
      <3> QED BY <2>1, <2>2, <3>1 DEF Frozen, Live, Waiting, Freezing, Settling
    <2> QED BY <2>3, <2>4
  <1>3. CASE \E c \in Ctl : Step(c) \/ Kill(c)
    BY <1>3, FrozenWrites, FrozenMoves
  <1>4. CASE Script
    BY <1>4, FrozenScript
  <1>5. CASE Tick
    <2>1. Doing \in {"idle", "sleep", "evaluate"} /\ Doing' \in {"idle", "poll", "evaluate"}
            /\ (Doing' = "evaluate" => Doing = "evaluate")
      BY <1>5, Sleeps
    <2>2. UNCHANGED <<st.status, st.pending, st.last>>
      BY <1>5, AgeType DEF Tick, Serial, TypeOK, JobOK
    <2>3. UNCHANGED <<container, script, events, decisions, Handled>>
      BY <1>5 DEF Tick, docker, mailbox, Handled
    <2> QED BY <2>1, <2>2, <2>3 DEF Frozen, Live, Waiting, Freezing, Settling
  <1> QED BY <1>1, <1>2, <1>3, <1>4, <1>5 DEF Next, Detach, Steady, Serving

\* Between commands a pending notification stands for a live job that is paused
\* inside epoch_end for that very epoch, and the container of an ended job does
\* not compute, unless a docker rm or inspect failed on it unnoticed.  Docker
\* calls may fail, noticed or not, and artifacts be bad; commands are not killed
\* and paused containers do not die.
THEOREM TheContainerIsAsRecorded ==
    ASSUME Steady
    PROVE  Spec => []ContainerAsRecorded
  <1>1. "detach" \notin Faults /\ Serving
    BY DEF Steady, Serving
  <1>2. Init => Frozen
    <2>1. Init => Doing = "idle"
      BY TrainJobAssumption DEF Init, Doing
    <2> QED BY <2>1 DEF Init, Frozen, Live, NoState, Freezing
  <1>3. Serial /\ Closed /\ Metering /\ Frozen /\ NoteOnDisk /\ [Next]_vars
          => Closed' /\ Metering' /\ Frozen' /\ NoteOnDisk'
    BY <1>1, ClosedStep, MeteringStep, FrozenStep, NoteStep
  <1>4. Serial /\ Metering /\ Frozen => ContainerAsRecorded
    <2> SUFFICES ASSUME Serial, Metering, Frozen PROVE ContainerAsRecorded
      OBVIOUS
    <2>1. PendingIsPaused
      BY QuietIsIdle DEF PendingIsPaused, Frozen, Settling, Waiting
    <2>2. EndedReleases \/ unseen
      BY DEF EndedReleases, Metering, Billing, Live
    <2> QED BY <2>1, <2>2 DEF ContainerAsRecorded
  <1> QED BY <1>1, <1>2, <1>3, <1>4, MeteringInit, SerialInvariant, PTL DEF Spec
=============================================================================
