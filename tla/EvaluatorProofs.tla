-------------------------- MODULE EvaluatorProofs ---------------------------
(***************************************************************************)
(* Theorems about Evaluator, for every data set, every frame size, every   *)
(* pipe capacity, every answer of the hooks, all labels and every set of   *)
(* faults.                                                                 *)
(*                                                                         *)
(*   The provider and the worker  the invariant Inv and its four theorems  *)
(*   The scorer, function by function                                      *)
(*      AssignIsGreedy   the loops of _match_image                         *)
(*      EnvelopeIsBest   _voc_ap                                           *)
(*      SweepIsUnion     _covered_area                                     *)
(*      FoundSums, FoundGrows, FoundOfAllClasses   the counts of recall    *)
(*   The metrics                  ScoresRight, which puts them together    *)
(*                                                                         *)
(* The facts about the scorer hold for any number of images, objects,      *)
(* detections and regions.  What its recursive functions compute is shown  *)
(* by induction over the places of a list, in the form that SumTheorems    *)
(* states it.                                                              *)
(***************************************************************************)
EXTENDS Evaluator, SumTheorems, SequenceTheorems, TLAPS

-----------------------------------------------------------------------------
(* The invariant.                                                          *)

ChunkRecord == [of : 0 .. Examples, chunks : Nat]
PredictionRecord ==
    [id : 0 .. Examples, of : 0 .. Examples, class : {0} \cup ClassAnswers,
     detections : { ByScore(d) : d \in {<<>>} \cup DetectionAnswers }]

Scalars ==
    /\ task \in Tasks /\ size \in Sizes
    /\ at \in {"stage", "fork"} \cup Talking \cup Cleaning \cup Ended
    /\ example \in 0 .. Examples /\ blamed \in 0 .. Examples /\ written \in Nat
    /\ verdict \in {None} \cup Ended
    /\ loaded \in BOOLEAN /\ dropped \in BOOLEAN /\ file \in BOOLEAN
    /\ open \subseteq {"request", "response"}
    /\ worker \in Alive \cup {"absent", "zombie", "reaped"} /\ status \in {0, 9}
    /\ helper \in BOOLEAN /\ hung \in BOOLEAN
    /\ script \in {"infer", "scored", "failed", "killed"}

Queues ==
    /\ predictions \in Seq(PredictionRecord)
    /\ input \in Seq(1 .. Examples)
    /\ requests \in Seq(ChunkRecord) /\ Len(requests) <= Capacity
    /\ responses \in Seq(Frame)

\* How far the provider is in its loop over the examples.
Progress ==
    /\ Len(predictions) <= Examples
    /\ at \in {"stage", "fork"} \cup Talking => verdict = None /\ blamed = 0
    /\ at \in Cleaning => verdict \in Ended
    /\ at \in {"stage", "fork", "ready", "load"} => example = 0 /\ predictions = <<>>
    /\ at \in {"send", "receive"} => example # 0 /\ Len(predictions) = example - 1
    /\ at \in {"finish", "wait"} => example = Examples /\ Len(predictions) = Examples
    /\ verdict = "returned" => Len(predictions) = Examples
    /\ at = "returned" => verdict = "returned"
    /\ at = "receive" => written = 0
    /\ IF example = 0 THEN written = 0 ELSE written < size[example]

\* Which worker and which pipe ends there are at each control point.
Processes ==
    /\ at \in {"stage", "fork"} => worker = "absent" /\ open = {}
    /\ at \in Talking => worker \in Alive \cup {"zombie"} /\ "response" \in open
    /\ at \in Talking \ {"wait"} => "request" \in open
    /\ at = "close" => worker # "absent" /\ ("request" \in open \/ worker = "reaped")
    /\ at \in {"poll", "kill"} => worker \in Alive \cup {"zombie"}
    /\ at = "reap" => worker = "zombie"
    /\ at \in {"poll", "kill", "reap"} => open = {}
    /\ at \in Ended => worker \in {"absent", "reaped"} /\ open = {}
    /\ verdict = "returned" => worker = "reaped" /\ status = 0

\* The data is loaded once the worker has spoken, and it does not before it has
\* dropped its privileges.
Started ==
    /\ \/ worker \in Alive \ {"forked"}
       \/ responses # <<>>
       \/ loaded
       \/ at \in Talking \ {"ready"}
       => dropped
    /\ at \in Talking \ {"ready"} => worker \notin {"forked", "loading"}

Chunk(e) == [of |-> e, chunks |-> size[e]]
EndFrame == [of |-> 0, chunks |-> 0]

\* Chunks the worker can have been sent of the current example.
Sent == IF at = "send" THEN written ELSE IF example = 0 THEN 0 ELSE size[example]

Starting == {"absent", "forked", "loading"}
Working  == {"preprocess", "infer", "postprocess"}

\* What is in the pipes and in the hands of the worker is about the current
\* example, and the worker speaks once.
Traffic ==
    /\ Len(responses) <= 1 /\ Len(input) <= MaxChunks
    /\ \A i \in 1 .. Len(responses) :
          responses[i].kind \in {"P", "D"} => responses[i].of = example
    /\ at = "load" => responses = <<>>
    /\ worker \in Starting => requests = <<>> /\ input = <<>> /\ responses = <<>>
    /\ worker \in Working \cup {"reading"} => \A i \in 1 .. Len(input) : input[i] = example
    /\ worker \in Working =>
          /\ requests = <<>> /\ input # <<>> /\ responses = <<>>
          /\ at = "receive" \/ at \in Cleaning
    /\ worker = "reading" =>
          /\ \A i \in 1 .. Len(requests) :
                requests[i] = IF at = "wait" THEN EndFrame ELSE Chunk(example)
          /\ Len(input) + Len(requests) <= Sent
          /\ requests # <<>> \/ input # <<>> => responses = <<>>
          /\ at \in {"send", "finish"} => responses = <<>>
          /\ at = "finish" => requests = <<>> /\ input = <<>>
          /\ at = "wait" => requests # <<>> /\ input = <<>>

Inv == Scalars /\ Queues /\ Progress /\ Processes /\ Started /\ Traffic /\ InStep

-----------------------------------------------------------------------------
(* Helpers.                                                                *)

\* What a step appends to a sequence, or takes from it.
LEMMA AppendTo ==
    ASSUME NEW S, NEW s \in Seq(S), NEW e \in S
    PROVE  /\ Append(s, e) \in Seq(S) /\ Append(s, e) # <<>>
           /\ Len(Append(s, e)) = Len(s) + 1 /\ Len(s) \in Nat
           /\ Append(s, e)[Len(s) + 1] = e
           /\ \A i \in 1 .. Len(s) : Append(s, e)[i] = s[i]
  BY AppendProperties, LenProperties

\* What is read from the front of a sequence, and what is left of it.
LEMMA TakeFrom ==
    ASSUME NEW S, NEW s \in Seq(S), s # <<>>
    PROVE  /\ Head(s) \in S /\ Head(s) = s[1]
           /\ Tail(s) \in Seq(S) /\ Len(Tail(s)) = Len(s) - 1 /\ Len(s) \in Nat \ {0}
           /\ \A i \in 1 .. Len(Tail(s)) : Tail(s)[i] = s[i + 1]
  BY HeadTailProperties, LenProperties, EmptySeq

\* An empty sequence has no element, and no other has length zero.
LEMMA Empty ==
    ASSUME NEW S, NEW s \in Seq(S)
    PROVE  Len(s) \in Nat /\ (s = <<>> <=> Len(s) = 0)
  BY LenProperties, EmptySeq

\* What a frame of the worker carries.
Value == [class : {0} \cup ClassAnswers, detections : {<<>>} \cup DetectionAnswers]

\* What the hooks answer can be carried by a frame.
LEMMA Answers ==
    /\ Nothing \in Value
    /\ \A c \in ClassAnswers : [Nothing EXCEPT !.class = c] \in Value
    /\ \A d \in DetectionAnswers : [Nothing EXCEPT !.detections = d] \in Value
  BY DEF Nothing, Value

\* Steps of the host, steps beside the worker and steps that change nothing.
LEMMA HostStep ==
    ASSUME Inv, UNCHANGED <<dataset, provider, child, pipes>>
    PROVE  Progress' /\ Processes' /\ Started' /\ Traffic' /\ InStep'
  <1>1. Progress' /\ Processes' /\ Started' /\ Traffic'
    BY DEF Inv, Progress, Processes, Started, Traffic, Sent, Chunk,
           dataset, provider, child, pipes
  <1>2. InStep'
    BY DEF Inv, InStep, AnswersTheirOwn, BlameIsRight, provider
  <1> QED BY <1>1, <1>2

\* The steps of the worker and of the host leave the provider alone.
LEMMA Beside ==
    ASSUME \/ WorkerCode \/ HookCode \/ Submission \/ WorkerKilled
           \/ Score \/ InferenceFails \/ ClientTimeout
    PROVE  UNCHANGED <<dataset, provider>>
  BY DEF Submission, HookForks, HelperEnds, HookHangs, WorkerCode, DropPrivileges, ReadChunk,
         ReadEnd, WorkerExits, HookCode, LoadHooks,
         HookNext, HookFails, Answer, HookExits, WorkerKilled, Score, InferenceFails,
         ClientTimeout

-----------------------------------------------------------------------------
(* The types.                                                              *)

\* Every step keeps the control points, the counters and the flags in range.
LEMMA ScalarsProvider == ASSUME Inv, Provider \/ ReceiveTimeout PROVE Scalars'
  <1> USE EvaluatorAssumption
      DEF Inv, Scalars, Talking, Cleaning, Ended, Alive, Provider, StageSubmission,
          SpawnWorker, AwaitReady, LoadData, SendChunk, SendBroken, ReceiveAnswer,
          ReceiveEnd, ReceiveTimeout, SendEnd, WaitWorker, CloseEnds, PollWorker,
          KillWorker, ReapWorker, Raise, dataset, submission, child, host
  <1>1. task' \in Tasks /\ size' \in Sizes
    OBVIOUS
  <1>2. at' \in {"stage", "fork"} \cup Talking \cup Cleaning \cup Ended
    BY DEF Progress, Processes
  <1>3. example' \in 0 .. Examples /\ blamed' \in 0 .. Examples
    BY DEF Progress
  <1>4. written' \in Nat
    OBVIOUS
  <1>5. verdict' \in {None} \cup Ended
    OBVIOUS
  <1>6. loaded' \in BOOLEAN /\ dropped' \in BOOLEAN /\ file' \in BOOLEAN
    OBVIOUS
  <1>7. open' \subseteq {"request", "response"}
    OBVIOUS
  <1>8. worker' \in Alive \cup {"absent", "zombie", "reaped"} /\ status' \in {0, 9}
    OBVIOUS
  <1>9. script' \in {"infer", "scored", "failed", "killed"}
    OBVIOUS
  <1>10. helper' \in BOOLEAN /\ hung' \in BOOLEAN
    OBVIOUS
  <1> QED BY <1>1, <1>2, <1>3, <1>4, <1>5, <1>6, <1>7, <1>8, <1>9, <1>10

\* The same for the steps of the worker.
LEMMA ScalarsWorker == ASSUME Inv, WorkerCode \/ HookCode \/ WorkerKilled PROVE Scalars'
  <1> USE DEF Inv, Scalars, Alive, WorkerCode, DropPrivileges, ReadChunk, ReadEnd,
          WorkerExits, WorkerKilled, HookCode, LoadHooks, HookNext, HookFails, Answer,
          HookExits, dataset, submission, provider, host
  <1>1. UNCHANGED <<task, size, at, example, blamed, written, verdict, loaded, file, open,
                    helper, hung, script>>
    OBVIOUS
  <1>2. worker' \in Alive \cup {"absent", "zombie", "reaped"} /\ status' \in {0, 9}
    BY DEF child
  <1>3. dropped' \in BOOLEAN
    OBVIOUS
  <1> QED BY <1>1, <1>2, <1>3

\* And for the steps of the host, and beside the worker.
LEMMA ScalarsHost ==
    ASSUME Inv, Score \/ InferenceFails \/ ClientTimeout \/ Submission \/ UNCHANGED vars
    PROVE  Scalars'
  <1> USE DEF Inv, Scalars, Score, InferenceFails, ClientTimeout, Submission, HookForks,
          HelperEnds, HookHangs, vars, submission, host
  <1>1. UNCHANGED <<dataset, provider, child>>
    OBVIOUS
  <1>2. script' \in {"infer", "scored", "failed", "killed"}
    OBVIOUS
  <1>3. file' \in BOOLEAN /\ helper' \in BOOLEAN /\ hung' \in BOOLEAN
    OBVIOUS
  <1> QED BY <1>1, <1>2, <1>3 DEF dataset, provider, child

\* What the worker says is a frame.
LEMMA SayFrame ==
    ASSUME Queues, NEW k \in {"R", "P", "D", "X", "E", "E1", "E2", "E3"},
           NEW e \in 0 .. Examples, NEW v \in Value, Say(k, e, v)
    PROVE  /\ responses' \in Seq(Frame)
           /\ responses' \in {responses, Append(responses, [kind |-> k, of |-> e, value |-> v])}
  <1>1. [kind |-> k, of |-> e, value |-> v] \in Frame
    BY DEF Frame, Value
  <1>2. Append(responses, [kind |-> k, of |-> e, value |-> v]) \in Seq(Frame)
    BY <1>1, AppendTo DEF Queues
  <1> QED BY <1>2 DEF Say, Queues

\* Every step keeps the types of what is in the pipes and in the results.
LEMMA QueuesKept == ASSUME Inv, [Next]_vars PROVE Queues'
  <1> USE EvaluatorAssumption DEF Inv, Queues
  <1>0. 0 \in 0 .. Examples
    OBVIOUS
  <1>1. CASE UNCHANGED <<predictions, input, requests, responses>>
    BY <1>1
  <1>2. CASE AwaitReady
    BY <1>2, TakeFrom DEF AwaitReady, child
  <1>3. CASE SendChunk
    <2>1. [of |-> example, chunks |-> size[example]] \in ChunkRecord
      BY <1>3 DEF SendChunk, ChunkRecord, Scalars, Progress
    <2>2. requests' \in Seq(ChunkRecord) /\ Len(requests') <= Capacity
      BY <1>3, <2>1, AppendTo DEF SendChunk
    <2> QED BY <1>3, <2>2 DEF SendChunk, child
  <1>4. CASE ReceiveAnswer
    <2>1. responses' \in Seq(Frame) /\ Head(responses) \in Frame
      BY <1>4, TakeFrom DEF ReceiveAnswer
    <2>2. Prediction(Head(responses)) \in PredictionRecord
      BY <2>1 DEF Prediction, PredictionRecord, Frame, Scalars
    <2>3. Append(predictions, Prediction(Head(responses))) \in Seq(PredictionRecord)
      BY <2>2, AppendTo
    <2>4. predictions' \in Seq(PredictionRecord)
      BY <1>4, <2>3 DEF ReceiveAnswer
    <2> QED BY <1>4, <2>1, <2>4 DEF ReceiveAnswer, child
  <1>5. CASE SendEnd
    <2>1. EndFrame \in ChunkRecord
      BY DEF EndFrame, ChunkRecord
    <2>2. requests' \in Seq(ChunkRecord) /\ Len(requests') <= Capacity
      BY <1>5, <2>1, AppendTo DEF SendEnd, EndFrame
    <2> QED BY <1>5, <2>2 DEF SendEnd, child
  <1>6. CASE LoadHooks
    <2>1. PICK k \in {"R", "E"} : Say(k, 0, Nothing)
      BY <1>6 DEF LoadHooks
    <2>2. responses' \in Seq(Frame)
      BY <2>1, <1>0, Answers, SayFrame
    <2> QED BY <1>6, <2>2 DEF LoadHooks, provider
  <1>7. CASE ReadChunk
    <2>1. /\ requests' \in Seq(ChunkRecord) /\ Len(requests') <= Capacity
          /\ Head(requests) \in ChunkRecord /\ Head(requests) = requests[1]
          /\ 1 \in 1 .. Len(requests)
      BY <1>7, TakeFrom, Empty DEF ReadChunk
    <2>2. CASE UNCHANGED input /\ UNCHANGED responses
      BY <1>7, <2>1, <2>2 DEF ReadChunk, provider
    <2>3. CASE UNCHANGED input /\ Say("E", Head(requests).of, Nothing)
      <3>1. responses' \in Seq(Frame)
        BY <2>1, <2>3, Answers, SayFrame DEF ChunkRecord
      <3> QED BY <1>7, <2>1, <2>3, <3>1 DEF ReadChunk, provider
    <2>4. CASE /\ input' = Append(input, Head(requests).of) /\ UNCHANGED responses
               /\ Head(requests).chunks # 0
      <3>1. Head(requests).of = example
        BY <1>7, <2>1, <2>4 DEF ReadChunk, Traffic, Chunk, EndFrame
      <3>2. Len(requests) >= 1 /\ Len(input) >= 0 /\ Len(requests) \in Nat /\ Len(input) \in Nat
        BY <2>1, Empty
      <3>3. example # 0
        BY <1>7, <3>2 DEF ReadChunk, Traffic, Sent, Progress
      <3>4. Head(requests).of \in 1 .. Examples
        BY <3>1, <3>3 DEF Scalars
      <3>5. input' \in Seq(1 .. Examples)
        BY <2>4, <3>4, AppendTo
      <3> QED BY <1>7, <2>1, <2>4, <3>5 DEF ReadChunk, provider
    <2> QED BY <1>7, <2>2, <2>3, <2>4 DEF ReadChunk
  <1>8. CASE ReadEnd
    <2>1. responses' \in Seq(Frame)
      BY <1>8, <1>0, Answers, SayFrame DEF ReadEnd
    <2> QED BY <1>8, <2>1 DEF ReadEnd, provider
  <1>9. CASE HookFails \/ Answer
    <2>1. input[1] \in 0 .. Examples
      BY <1>9, Empty, ElementOfSeq DEF HookFails, Answer, Traffic, Working
    <2>2. PICK k \in {"P", "D", "X", "E1", "E2", "E3"}, v \in Value : Say(k, input[1], v)
      BY <1>9, Answers DEF HookFails, Answer, ErrorOf
    <2>3. responses' \in Seq(Frame)
      BY <2>1, <2>2, SayFrame
    <2>4. input' \in {<<>>, input} /\ UNCHANGED <<predictions, requests>>
      BY <1>9 DEF HookFails, Answer, provider
    <2> QED BY <2>3, <2>4, EmptySeq
  <1>10. CASE \/ StageSubmission \/ SpawnWorker \/ LoadData \/ SendBroken \/ ReceiveEnd
              \/ ReceiveTimeout \/ WaitWorker \/ CloseEnds \/ PollWorker \/ KillWorker
              \/ ReapWorker
    BY <1>10, <1>1
       DEF StageSubmission, SpawnWorker, LoadData, SendBroken, ReceiveEnd, ReceiveTimeout,
           WaitWorker, CloseEnds, PollWorker, KillWorker, ReapWorker, child, pipes
  <1>11. CASE \/ DropPrivileges \/ WorkerExits \/ HookNext \/ HookExits \/ WorkerKilled
              \/ Submission \/ Score \/ InferenceFails \/ ClientTimeout \/ UNCHANGED vars
    BY <1>11, <1>1
       DEF Submission, HookForks, HelperEnds, HookHangs, DropPrivileges, WorkerExits, HookNext,
              HookExits, WorkerKilled, Score,
           InferenceFails, ClientTimeout, vars, provider, child, pipes
  <1> QED BY <1>2, <1>3, <1>4, <1>5, <1>6, <1>7, <1>8, <1>9, <1>10, <1>11
          DEF Next, Provider, WorkerCode, HookCode

-----------------------------------------------------------------------------
(* The provider's loop and the processes.                                  *)

\* Every step keeps the provider's place in its loop.
LEMMA ProgressKept == ASSUME Inv, [Next]_vars PROVE Progress'
  <1> USE EvaluatorAssumption DEF Inv, Scalars, Progress, Talking, Cleaning, Ended,
                dataset, provider, child, pipes
  <1>1. CASE UNCHANGED <<dataset, provider>>
    BY <1>1
  <1>2. CASE StageSubmission \/ SpawnWorker
    BY <1>2 DEF StageSubmission, SpawnWorker
  <1>3. CASE AwaitReady
    BY <1>3 DEF AwaitReady, Raise
  <1>4. CASE LoadData
    <2>1. size[1] \in Nat /\ size[1] > 0
      OBVIOUS
    <2>2. CASE Raise(0) /\ UNCHANGED example
      BY <1>4, <2>2 DEF LoadData, Raise
    <2>3. CASE at' = "send" /\ example' = 1 /\ UNCHANGED <<verdict, blamed>>
      <3>1. Len(predictions) = 0
        BY <1>4, EmptySeq DEF LoadData
      <3> QED BY <1>4, <2>1, <2>3, <3>1 DEF LoadData
    <2> QED BY <1>4, <2>2, <2>3 DEF LoadData
  <1>5. CASE SendChunk
    <2>1. size[example] \in Nat \ {0} /\ at = "send"
      BY <1>5 DEF SendChunk
    <2>2. /\ UNCHANGED <<dataset, example, verdict, blamed, predictions>>
          /\ \/ at' = "receive" /\ written' = 0
             \/ at' = "send" /\ written' = written + 1 /\ written + 1 # size[example]
      BY <1>5, <2>1 DEF SendChunk
    <2> QED BY <2>1, <2>2
  <1>6. CASE SendBroken
    BY <1>6 DEF SendBroken, Raise
  <1>7. CASE ReceiveAnswer
    <2>1. CASE Raise(example) /\ UNCHANGED <<predictions, example>>
      BY <1>7, <2>1 DEF ReceiveAnswer, Raise
    <2>2. CASE /\ predictions' = Append(predictions, Prediction(Head(responses)))
               /\ IF example = Examples
                  THEN at' = "finish" /\ UNCHANGED example
                  ELSE at' = "send" /\ example' = example + 1
               /\ UNCHANGED <<verdict, blamed>>
      <3>1. Len(predictions') = example
        BY <1>7, <2>2, QueuesKept, AppendTo, Empty DEF ReceiveAnswer, Queues
      <3>2. example = Examples \/ size[example + 1] \in Nat \ {0}
        BY <1>7
      <3> QED BY <1>7, <2>2, <3>1, <3>2 DEF ReceiveAnswer
    <2> QED BY <1>7, <2>1, <2>2 DEF ReceiveAnswer
  <1>8. CASE ReceiveEnd \/ ReceiveTimeout
    BY <1>8 DEF ReceiveEnd, ReceiveTimeout, Raise
  <1>9. CASE SendEnd
    BY <1>9 DEF SendEnd
  <1>10. CASE WaitWorker
    BY <1>10 DEF WaitWorker, Raise
  <1>11. CASE CloseEnds \/ PollWorker \/ KillWorker \/ ReapWorker
    BY <1>11 DEF CloseEnds, PollWorker, KillWorker, ReapWorker, Processes
  <1> QED BY <1>1, <1>2, <1>3, <1>4, <1>5, <1>6, <1>7, <1>8, <1>9, <1>10, <1>11, Beside
          DEF Next, Provider, vars

\* Every step keeps the worker and the pipe ends in place.
LEMMA ProcessesKept == ASSUME Inv, [Next]_vars PROVE Processes'
  <1> USE DEF Inv, Progress, Processes, Talking, Cleaning, Ended, Alive
  <1>1. CASE StageSubmission \/ SpawnWorker \/ AwaitReady \/ LoadData
    BY <1>1 DEF StageSubmission, SpawnWorker, AwaitReady, LoadData, Raise, child
  <1>2. CASE SendChunk \/ SendBroken \/ ReceiveEnd \/ ReceiveTimeout \/ SendEnd
    BY <1>2 DEF SendChunk, SendBroken, ReceiveEnd, ReceiveTimeout, SendEnd, Raise, child
  <1>3. CASE ReceiveAnswer
    BY <1>3 DEF ReceiveAnswer, Raise, child
  <1>4. CASE WaitWorker \/ CloseEnds
    BY <1>4 DEF WaitWorker, CloseEnds, Raise, child, Scalars
  <1>5. CASE PollWorker \/ KillWorker \/ ReapWorker
    BY <1>5 DEF PollWorker, KillWorker, ReapWorker
  <1>6. CASE WorkerCode \/ WorkerKilled
    BY <1>6 DEF WorkerCode, DropPrivileges, ReadChunk, ReadEnd, WorkerExits, WorkerKilled,
                provider
  <1>7. CASE HookCode
    BY <1>7 DEF HookCode, LoadHooks, HookNext, HookFails, Answer, HookExits, Hooks, provider
  <1>8. CASE Submission \/ Score \/ InferenceFails \/ ClientTimeout \/ UNCHANGED vars
    BY <1>8 DEF Submission, HookForks, HelperEnds, HookHangs, Score, InferenceFails, ClientTimeout,
                vars, provider, child
  <1> QED BY <1>1, <1>2, <1>3, <1>4, <1>5, <1>6, <1>7, <1>8 DEF Next, Provider

\* Every step keeps the data away from a worker with privileges.
LEMMA StartedKept == ASSUME Inv, [Next]_vars PROVE Started'
  <1> USE DEF Inv, Progress, Processes, Started, Traffic, Starting, Talking, Alive
  <1>1. CASE StageSubmission \/ SpawnWorker \/ LoadData
    BY <1>1 DEF StageSubmission, SpawnWorker, LoadData, Raise, child, pipes
  <1>2. CASE AwaitReady
    BY <1>2 DEF AwaitReady, Raise, child
  <1>3. CASE SendChunk \/ SendBroken \/ ReceiveEnd \/ ReceiveTimeout \/ SendEnd
    BY <1>3 DEF SendChunk, SendBroken, ReceiveEnd, ReceiveTimeout, SendEnd, Raise, child,
                pipes
  <1>4. CASE ReceiveAnswer
    BY <1>4 DEF ReceiveAnswer, Raise, child
  <1>5. CASE WaitWorker \/ CloseEnds \/ PollWorker \/ KillWorker \/ ReapWorker
    BY <1>5 DEF WaitWorker, CloseEnds, PollWorker, KillWorker, ReapWorker, Raise, Cleaning,
                Ended, child, pipes
  <1>6. CASE WorkerCode \/ WorkerKilled
    BY <1>6 DEF WorkerCode, DropPrivileges, ReadChunk, ReadEnd, WorkerExits, WorkerKilled,
                provider, pipes
  <1>7. CASE HookCode
    BY <1>7 DEF HookCode, LoadHooks, HookNext, HookFails, Answer, HookExits, Hooks, provider,
                pipes
  <1>8. CASE Submission \/ Score \/ InferenceFails \/ ClientTimeout \/ UNCHANGED vars
    BY <1>8 DEF Submission, HookForks, HelperEnds, HookHangs, Score, InferenceFails, ClientTimeout,
                vars, provider, child, pipes
  <1> QED BY <1>1, <1>2, <1>3, <1>4, <1>5, <1>6, <1>7, <1>8 DEF Next, Provider

-----------------------------------------------------------------------------
(* The traffic between the two processes.                                  *)

\* Steps that touch neither the pipes nor the worker's input.
LEMMA TrafficQuiet ==
    ASSUME Inv, Provider \/ ReceiveTimeout, UNCHANGED <<requests, responses>>
    PROVE  Traffic'
  <1> USE DEF Inv, Progress, Processes, Started, Traffic, Scalars, Talking, Cleaning, Alive,
              Starting, Working
  <1>e. /\ Len(requests) \in Nat /\ (requests = <<>> <=> Len(requests) = 0)
        /\ Len(input) \in Nat /\ (input = <<>> <=> Len(input) = 0)
        /\ Len(responses) \in Nat /\ (responses = <<>> <=> Len(responses) = 0)
    BY Empty DEF Queues
  <1>1. CASE StageSubmission \/ SpawnWorker
    BY <1>1 DEF StageSubmission, SpawnWorker, child, pipes
  <1>2. CASE LoadData
    BY <1>2, <1>e DEF LoadData, Raise, child, pipes, dataset, Sent
  <1>3. CASE SendBroken
    BY <1>3, <1>e DEF SendBroken, Held, Raise, child, pipes, dataset, Sent
  <1>4. CASE ReceiveEnd \/ ReceiveTimeout
    BY <1>4, <1>e DEF ReceiveEnd, ReceiveTimeout, Raise, child, pipes, dataset, Sent, Chunk
  <1>5. CASE WaitWorker
    BY <1>5 DEF WaitWorker, Raise, pipes
  <1>6. CASE CloseEnds
    BY <1>6 DEF CloseEnds, child, pipes, dataset, Sent, Chunk, Ended
  <1>7. CASE PollWorker \/ KillWorker \/ ReapWorker
    BY <1>7 DEF PollWorker, KillWorker, ReapWorker, pipes, dataset, Sent, Chunk, Ended
  <1>8. CASE AwaitReady \/ SendChunk \/ ReceiveAnswer \/ SendEnd
    BY <1>8, <1>e, TakeFrom, AppendTo DEF AwaitReady, SendChunk, ReceiveAnswer, SendEnd, Queues
  <1> QED BY <1>1, <1>2, <1>3, <1>4, <1>5, <1>6, <1>7, <1>8 DEF Provider

\* The provider reads the ready message, or an answer.
LEMMA TrafficReceived == ASSUME Inv, AwaitReady \/ ReceiveAnswer PROVE Traffic'
  <1> USE DEF Inv, Progress, Processes, Started, Traffic, Scalars, Talking, Cleaning, Alive,
              Starting, Working
  <1>e. /\ Len(requests) \in Nat /\ (requests = <<>> <=> Len(requests) = 0)
        /\ Len(input) \in Nat /\ (input = <<>> <=> Len(input) = 0)
        /\ Len(responses) = 1 /\ responses # <<>> /\ responses' = <<>>
    <2>1. responses # <<>> /\ responses' = Tail(responses)
      BY DEF AwaitReady, ReceiveAnswer
    <2>2. Len(responses) \in Nat \ {0} /\ Len(responses') = Len(responses) - 1
          /\ responses' \in Seq(Frame)
      BY <2>1, TakeFrom DEF Queues
    <2> QED BY <2>1, <2>2, Empty DEF Queues
  <1>f. Len(responses') = 0
    BY <1>e
  <1>1. CASE AwaitReady
    <2>1. /\ UNCHANGED <<size, example, worker, input, requests, written>>
          /\ at = "ready" /\ at' \in {"load", "close"}
      BY <1>1 DEF AwaitReady, Raise, child, dataset
    <2>2. worker \notin Working \cup Starting /\ Sent' = Sent
          /\ Chunk(example)' = Chunk(example)
      BY <1>e, <2>1 DEF Sent, Chunk
    <2> QED BY <1>e, <1>f, <2>1, <2>2
  <1>2. CASE ReceiveAnswer
    <2>1. worker \notin Working \cup Starting
      BY <1>e
    <2>2. worker = "reading" => requests = <<>> /\ input = <<>>
      BY <1>e
    <2>3. UNCHANGED <<size, worker, input, requests, written>> /\ at' # "wait" /\ at' # "load"
      BY <1>2 DEF ReceiveAnswer, Raise, child, dataset
    <2>4. worker = "reading" => Len(input) + Len(requests) <= Sent'
      <3>1. example' \in 1 .. Examples
        BY <1>2, EvaluatorAssumption, SMTT(20) DEF ReceiveAnswer, Raise
      <3>2. size'[example'] \in Nat /\ written = 0
        BY <1>2, <2>3, <3>1, EvaluatorAssumption DEF ReceiveAnswer
      <3>3. Sent' >= 0
        BY <2>3, <3>2 DEF Sent
      <3> QED BY <1>e, <2>2, <3>3
    <2> QED BY <1>e, <1>f, <2>1, <2>2, <2>3, <2>4
  <1> QED BY <1>1, <1>2

\* The provider writes a chunk, or the empty frame.
LEMMA TrafficSent == ASSUME Inv, SendChunk \/ SendEnd PROVE Traffic'
  <1> USE DEF Inv, Progress, Processes, Started, Traffic, Scalars, Talking, Cleaning, Alive,
              Starting, Working
  <1>e. /\ Len(requests) \in Nat /\ (requests = <<>> <=> Len(requests) = 0)
        /\ Len(input) \in Nat /\ (input = <<>> <=> Len(input) = 0)
        /\ Len(responses) \in Nat /\ (responses = <<>> <=> Len(responses) = 0)
    BY Empty DEF Queues
  <1>s. size[example] \in Nat \ {0} /\ example # 0
    BY EvaluatorAssumption DEF SendChunk, SendEnd
  <1> DEFINE c == IF at = "send" THEN Chunk(example) ELSE EndFrame
  <1>1. requests' = Append(requests, c)
    BY DEF SendChunk, SendEnd, Chunk, EndFrame
  <1>2. c \in ChunkRecord
    <2>1. EndFrame \in ChunkRecord /\ Chunk(example) \in ChunkRecord
      BY <1>s, EvaluatorAssumption DEF Chunk, EndFrame, ChunkRecord
    <2> QED BY <2>1
  <1> HIDE DEF c
  <1>3. /\ requests' # <<>> /\ Len(requests') = Len(requests) + 1
        /\ requests'[Len(requests) + 1] = c
        /\ \A i \in 1 .. Len(requests) : requests'[i] = requests[i]
    BY <1>1, <1>2, AppendTo DEF Queues
  <1>4. UNCHANGED <<dataset, example, child, responses>>
    BY DEF SendChunk, SendEnd
  <1>5. CASE worker # "reading"
    BY <1>4, <1>5 DEF SendChunk, SendEnd, child
  <1>6. CASE worker = "reading" /\ SendChunk
    <2>1. responses = <<>> /\ at = "send" /\ at' \in {"send", "receive"}
      BY <1>6 DEF SendChunk
    <2>2. c = Chunk(example) /\ Chunk(example)' = Chunk(example)
      BY <1>4, <2>1 DEF c, Chunk, dataset
    <2>3. \A i \in 1 .. Len(requests') : requests'[i] = Chunk(example)
      BY <1>3, <1>6, <1>e, <2>1, <2>2
    <2>4. Len(input) + Len(requests') <= Sent'
      BY <1>3, <1>4, <1>6, <1>e, <1>s DEF SendChunk, Sent, dataset
    <2> QED BY <1>4, <1>6, <1>e, <2>1, <2>2, <2>3, <2>4 DEF child
  <1>7. CASE worker = "reading" /\ SendEnd
    <2>1. responses = <<>> /\ at = "finish" /\ at' = "wait" /\ requests = <<>> /\ input = <<>>
      BY <1>7 DEF SendEnd
    <2>2. c = EndFrame
      BY <2>1 DEF c
    <2>3. \A i \in 1 .. Len(requests') : requests'[i] = EndFrame
      BY <1>3, <1>e, <2>1, <2>2
    <2>4. Len(input) + Len(requests') <= Sent'
      BY <1>3, <1>4, <1>e, <1>s, <2>1 DEF Sent, dataset
    <2> QED BY <1>3, <1>4, <1>7, <1>e, <2>1, <2>3, <2>4 DEF child
  <1> QED BY <1>5, <1>6, <1>7

\* The worker goes on, ends, or says what went wrong.
LEMMA TrafficWorker ==
    ASSUME Inv, \/ DropPrivileges \/ WorkerExits \/ HookNext \/ HookExits \/ WorkerKilled
                \/ LoadHooks \/ ReadEnd \/ HookFails
    PROVE  Traffic'
  <1> USE DEF Inv, Processes, Traffic, Scalars, Talking, Cleaning, Alive, Starting, Working
  <1>e. /\ Len(requests) \in Nat /\ (requests = <<>> <=> Len(requests) = 0)
        /\ Len(input) \in Nat /\ (input = <<>> <=> Len(input) = 0)
        /\ Len(responses) \in Nat /\ (responses = <<>> <=> Len(responses) = 0)
    BY Empty DEF Queues
  <1>p. UNCHANGED <<dataset, provider, input, requests>>
    BY DEF DropPrivileges, WorkerExits, HookNext, HookExits, WorkerKilled, LoadHooks, ReadEnd,
           HookFails, pipes
  <1>s. Sent' = Sent /\ Sent >= 0 /\ Chunk(example)' = Chunk(example)
    BY <1>p, EvaluatorAssumption DEF dataset, provider, Sent, Chunk
  <1>1. CASE DropPrivileges \/ WorkerExits \/ HookNext \/ HookExits \/ WorkerKilled
    BY <1>1, <1>p DEF DropPrivileges, WorkerExits, HookNext, HookExits, Hooks, WorkerKilled,
                      pipes, provider
  <1>2. CASE LoadHooks \/ ReadEnd \/ HookFails
    <2>1. PICK k \in {"R", "E", "E1", "E2", "E3"}, e \in {0, input[1]} : Say(k, e, Nothing)
      BY <1>2 DEF LoadHooks, ReadEnd, HookFails, ErrorOf
    <2>2. CASE responses' = responses
      <3>1. \/ worker' = "leaving"
            \/ worker = "loading" /\ worker' = "reading"
        BY <1>2 DEF LoadHooks, ReadEnd, HookFails
      <3>2. CASE worker' = "leaving"
        BY <1>p, <2>2, <3>2 DEF provider
      <3>3. CASE worker = "loading" /\ worker' = "reading"
        BY <1>p, <1>s, <1>e, <2>2, <3>3 DEF provider, Started
      <3> QED BY <3>1, <3>2, <3>3
    <2>3. CASE responses' # responses
      <3>1. responses' = Append(responses, [kind |-> k, of |-> e, value |-> Nothing])
            /\ "response" \in open
        BY <2>1, <2>3 DEF Say
      <3>2. responses = <<>> /\ at # "load"
        BY <1>2, <1>e, <3>1 DEF LoadHooks, ReadEnd, HookFails, Started, Progress
      <3>3. Len(responses') = 1 /\ responses'[1].kind = k
        BY <3>1, <3>2
      <3> QED BY <1>2, <1>p, <1>s, <1>e, <3>2, <3>3
              DEF LoadHooks, ReadEnd, HookFails, provider, Started
    <2> QED BY <2>2, <2>3
  <1> QED BY <1>1, <1>2

\* The worker reads a chunk: of the current example, unless it is the empty
\* frame.
LEMMA TrafficRead == ASSUME Inv, ReadChunk PROVE Traffic'
  <1> USE DEF Inv, Progress, Processes, Traffic, Scalars, Talking, Cleaning, Alive, Starting,
              Working
  <1> DEFINE c == Head(requests)
  <1>1. /\ worker = "reading" /\ requests # <<>> /\ requests' = Tail(requests)
        /\ UNCHANGED <<dataset, provider>>
    BY DEF ReadChunk
  <1>2. /\ c = requests[1] /\ Len(requests) \in Nat \ {0} /\ Len(input) \in Nat
        /\ Len(requests') = Len(requests) - 1 /\ requests' \in Seq(ChunkRecord)
        /\ \A i \in 1 .. Len(requests') : requests'[i] = requests[i + 1]
    BY <1>1, TakeFrom, Empty DEF Queues
  <1>3. responses = <<>> /\ example # 0 /\ at \notin {"load", "finish"}
    BY <1>1, <1>2 DEF Sent
  <1>4. size[example] \in Nat \ {0} /\ Sent <= size[example]
        /\ (at = "send" => Sent < size[example])
    BY <1>3, EvaluatorAssumption DEF Sent
  <1>5. c = IF at = "wait" THEN EndFrame ELSE Chunk(example)
    BY <1>1, <1>2
  <1> HIDE DEF c
  <1>6. CASE c.chunks = 0 \/ c.chunks > MaxChunks
    <2>1. worker' = "leaving" /\ UNCHANGED input
      BY <1>6 DEF ReadChunk, c
    <2>2. UNCHANGED responses \/ Say("E", c.of, Nothing)
      BY <1>6 DEF ReadChunk, c
    <2>3. CASE UNCHANGED responses
      BY <1>1, <2>1, <2>3 DEF provider
    <2>4. CASE responses' # responses
      <3>1. responses' = Append(responses, [kind |-> "E", of |-> c.of, value |-> Nothing])
        BY <2>2, <2>4 DEF Say
      <3>2. Len(responses') = 1 /\ responses'[1].kind = "E"
        BY <1>3, <3>1
      <3> QED BY <1>1, <1>3, <2>1, <3>2 DEF provider
    <2> QED BY <2>3, <2>4
  <1>7. CASE ~(c.chunks = 0 \/ c.chunks > MaxChunks)
    <2>1. /\ input' = Append(input, c.of) /\ UNCHANGED responses
          /\ worker' = IF Len(input') = c.chunks THEN "preprocess" ELSE "reading"
      BY <1>7 DEF ReadChunk, c
    <2>2. at # "wait" /\ c.of = example /\ c.chunks = size[example]
          /\ size[example] <= MaxChunks
      BY <1>4, <1>5, <1>7, EvaluatorAssumption DEF EndFrame, Chunk
    <2>3. /\ input' # <<>> /\ Len(input') = Len(input) + 1
          /\ \A i \in 1 .. Len(input') : input'[i] = example
      <3>1. example \in 1 .. Examples
        BY <1>3
      <3>2. /\ input' # <<>> /\ Len(input') = Len(input) + 1
            /\ input'[Len(input) + 1] = example
            /\ \A i \in 1 .. Len(input) : input'[i] = input[i]
        <4>1. input \in Seq(1 .. Examples) /\ input' = Append(input, example)
          BY <2>1, <2>2 DEF Queues
        <4> QED BY <3>1, <4>1, AppendTo
      <3> QED BY <1>1, <1>2, <3>2
    <2>4. Len(input') + Len(requests') <= Sent /\ Sent' = Sent
          /\ Chunk(example)' = Chunk(example)
      BY <1>1, <1>2, <2>3 DEF Sent, Chunk, dataset, provider
    <2>5. Sent \in Nat /\ Len(input') <= MaxChunks
      BY <1>2, <1>4, <2>2, <2>3, <2>4, EvaluatorAssumption DEF Sent
    <2>6. CASE Len(input') = size[example]
      <3>1. requests' = <<>>
        BY <1>2, <1>4, <2>4, <2>5, <2>6, Empty
      <3>2. at \in {"receive"} \cup Cleaning
        BY <1>1, <1>2, <1>3, <1>4, <2>2, <2>4, <2>5, <2>6
           DEF Ended
      <3> QED BY <1>1, <1>3, <2>1, <2>2, <2>3, <2>5, <2>6, <3>1, <3>2 DEF provider
    <2>7. CASE Len(input') # size[example]
      <3>1. \A i \in 1 .. Len(requests') : requests'[i] = Chunk(example)
        BY <1>1, <1>2, <2>2
      <3> QED BY <1>1, <1>3, <2>1, <2>2, <2>3, <2>4, <2>5, <2>7, <3>1 DEF provider
    <2> QED BY <2>6, <2>7
  <1> QED BY <1>6, <1>7

\* The worker answers, about the current example.
LEMMA TrafficAnswered == ASSUME Inv, Answer PROVE Traffic'
  <1> USE DEF Inv, Progress, Processes, Traffic, Scalars, Talking, Cleaning, Alive, Starting,
              Working
  <1>1. /\ worker = "postprocess" /\ worker' = "reading" /\ input' = <<>>
        /\ UNCHANGED <<dataset, provider, requests>>
    BY DEF Answer
  <1>2. requests = <<>> /\ responses = <<>> /\ input[1] = example
    BY <1>1, Empty DEF Queues
  <1>3. PICK k \in {"P", "D", "X"}, v \in Value : Say(k, input[1], v)
    BY Answers DEF Answer
  <1>4. Len(responses') <= 1
        /\ \A i \in 1 .. Len(responses') : responses'[i].of = example
    <2>1. CASE responses' = <<>>
      BY <2>1
    <2>2. CASE responses' # <<>>
      <3>1. responses' = Append(responses, [kind |-> k, of |-> input[1], value |-> v])
        BY <1>2, <1>3, <2>2 DEF Say
      <3>2. Len(responses') = 1 /\ responses'[1].of = example
        BY <1>2, <3>1
      <3> QED BY <3>2
    <2> QED BY <2>1, <2>2
  <1>5. Len(input') + Len(requests') <= Sent'
    <2>1. Sent' = Sent /\ Sent \in Nat
      BY <1>1, EvaluatorAssumption DEF Sent, dataset, provider
    <2> QED BY <1>1, <1>2, <2>1, EmptySeq
  <1>6. MaxChunks \in Nat /\ Len(input') = 0 /\ Len(requests') = 0
    BY <1>1, <1>2, EvaluatorAssumption
  <1> QED BY <1>1, <1>2, <1>4, <1>5, <1>6 DEF provider

\* Every step keeps the two sides in step.
LEMMA TrafficKept == ASSUME Inv, [Next]_vars PROVE Traffic'
  <1>1. CASE /\ Provider \/ ReceiveTimeout
             /\ ~(AwaitReady \/ ReceiveAnswer \/ SendChunk \/ SendEnd)
    <2>1. UNCHANGED <<requests, responses>>
      BY <1>1 DEF Provider, StageSubmission, SpawnWorker, LoadData, SendBroken, ReceiveEnd,
                  WaitWorker, CloseEnds, PollWorker, KillWorker, ReapWorker, ReceiveTimeout,
                  pipes
    <2> QED BY <1>1, <2>1, TrafficQuiet
  <1>2. CASE AwaitReady \/ ReceiveAnswer
    BY <1>2, TrafficReceived
  <1>3. CASE SendChunk \/ SendEnd
    BY <1>3, TrafficSent
  <1>4. CASE WorkerCode \/ HookCode \/ WorkerKilled
    BY <1>4, TrafficWorker, TrafficRead, TrafficAnswered DEF WorkerCode, HookCode
  <1>5. CASE Submission \/ Score \/ InferenceFails \/ ClientTimeout \/ UNCHANGED vars
    BY <1>5, HostStep DEF Submission, HookForks, HelperEnds, HookHangs, Score,
                          InferenceFails, ClientTimeout, vars
  <1> QED BY <1>1, <1>2, <1>3, <1>4, <1>5 DEF Next

\* Every prediction is about the example it is filed under.
LEMMA InStepKept == ASSUME Inv, [Next]_vars PROVE InStep'
  <1> USE DEF Inv, InStep, AnswersTheirOwn, BlameIsRight
  <1>1. CASE UNCHANGED <<predictions, blamed>>
    BY <1>1
  <1>2. CASE UNCHANGED predictions /\ blamed' = 0
    BY <1>2
  <1>3. CASE ReceiveAnswer
    <2>1. Head(responses) = responses[1] /\ 1 \in 1 .. Len(responses)
      BY <1>3, TakeFrom DEF ReceiveAnswer, Queues
    <2>2. CASE Raise(example) /\ UNCHANGED predictions
      BY <1>3, <2>2 DEF ReceiveAnswer, Raise, Progress, Scalars
    <2>3. CASE /\ Head(responses).kind = Expected /\ UNCHANGED blamed
               /\ predictions' = Append(predictions, Prediction(Head(responses)))
      <3>1. Head(responses).of = example
        BY <2>1, <2>3 DEF Expected, Traffic
      <3>2. Len(predictions) = example - 1 /\ example \in Nat /\ blamed = 0
        BY <1>3, EvaluatorAssumption DEF ReceiveAnswer, Progress, Scalars, Talking
      <3>3. Prediction(Head(responses)).id = example /\ Prediction(Head(responses)).of = example
        BY <3>1 DEF Prediction
      <3>4. /\ Len(predictions') = Len(predictions) + 1
            /\ predictions'[Len(predictions) + 1] = Prediction(Head(responses))
            /\ \A i \in 1 .. Len(predictions) : predictions'[i] = predictions[i]
            /\ predictions' \in Seq(PredictionRecord \cup {Prediction(Head(responses))})
        <4> DEFINE S == PredictionRecord \cup {Prediction(Head(responses))}
        <4>1. predictions \in Seq(S)
          BY SeqMonotonic DEF Queues
        <4> HIDE DEF S
        <4>2. Prediction(Head(responses)) \in S
          BY DEF S
        <4>3. Append(predictions, Prediction(Head(responses))) \in Seq(S)
          BY <4>1, <4>2, AppendTo
        <4> QED BY <2>3, <4>1, <4>2, <4>3, AppendTo DEF S
      <3>5. DOMAIN predictions' = 1 .. Len(predictions')
        BY <3>4
      <3>6. DOMAIN predictions = 1 .. Len(predictions) /\ Len(predictions) \in Nat
        BY Empty DEF Queues
      <3> QED BY <2>3, <3>2, <3>3, <3>4, <3>5, <3>6
    <2> QED BY <1>3, <2>2, <2>3 DEF ReceiveAnswer
  <1>4. CASE Provider \/ ReceiveTimeout
    <2>1. \/ ReceiveAnswer
          \/ UNCHANGED <<predictions, blamed>>
          \/ UNCHANGED predictions /\ blamed' = 0
      BY <1>4 DEF Provider, StageSubmission, SpawnWorker, AwaitReady, LoadData, SendChunk,
                  SendBroken, ReceiveEnd, SendEnd, WaitWorker, CloseEnds, PollWorker,
                  KillWorker, ReapWorker, ReceiveTimeout, Raise
    <2> QED BY <1>1, <1>2, <1>3, <2>1
  <1> QED BY <1>1, <1>4, Beside DEF Next, vars, provider

-----------------------------------------------------------------------------
(* The theorems.                                                           *)

\* The invariant holds at first.
LEMMA InvInit == Init => Inv
  <1> SUFFICES ASSUME Init PROVE Inv
    OBVIOUS
  <1> USE EvaluatorAssumption DEF Init
  <1>1. Scalars
    <2>1. example \in 0 .. Examples /\ blamed \in 0 .. Examples /\ written \in Nat
      OBVIOUS
    <2>2. /\ at \in {"stage", "fork"} \cup Talking \cup Cleaning \cup Ended
          /\ worker \in Alive \cup {"absent", "zombie", "reaped"}
      OBVIOUS
    <2> QED BY <2>1, <2>2 DEF Scalars
  <1>2. Queues
    BY EmptySeq DEF Queues
  <1>3. Progress /\ Processes /\ Started
    BY EmptySeq DEF Progress, Processes, Started, Talking, Cleaning, Ended, Alive, None
  <1>4. Traffic
    <2>1. Len(<<>>) = 0
      OBVIOUS
    <2> QED BY <2>1 DEF Traffic, Starting, Working
  <1>5. InStep
    BY DEF InStep, AnswersTheirOwn, BlameIsRight
  <1> QED BY <1>1, <1>2, <1>3, <1>4, <1>5 DEF Inv

\* The invariant is inductive.
LEMMA InvStep == Inv /\ [Next]_vars => Inv'
  <1>1. ASSUME Inv, [Next]_vars PROVE Scalars'
    BY <1>1, ScalarsProvider, ScalarsWorker, ScalarsHost DEF Next
  <1> QED BY <1>1, QueuesKept, ProgressKept, ProcessesKept, StartedKept, TrafficKept,
             InStepKept DEF Inv

\* The invariant holds throughout.
LEMMA InvAlways == Spec => []Inv
  BY InvInit, InvStep, PTL DEF Spec

\* Whatever the hooks answer, and wherever the worker is killed: the frames, the
\* pipes and the control points keep their types, and no frame is read beyond
\* its announced length.
THEOREM TypeCorrect == Spec => []TypeOK
  <1>1. Inv => TypeOK
    <2> SUFFICES ASSUME Inv PROVE TypeOK
      OBVIOUS
    <2>1. input \in BoundedSeq(1 .. Examples, MaxChunks)
      <3>1. input \in [1 .. Len(input) -> 1 .. Examples] /\ Len(input) \in 0 .. MaxChunks
        <4>1. input \in Seq(1 .. Examples) /\ Len(input) <= MaxChunks
          BY DEF Inv, Queues, Traffic
        <4> QED BY <4>1, LenProperties, EvaluatorAssumption
      <3> QED BY <3>1 DEF BoundedSeq, SeqOf
    <2>2. written \in 0 .. Greatest(0, IF example = 0 THEN 0 ELSE size[example] - 1)
      <3>1. CASE example = 0
        BY <3>1 DEF Inv, Scalars, Progress, Greatest
      <3>2. CASE example # 0
        <4>1. size[example] \in Nat \ {0}
          BY <3>2, EvaluatorAssumption DEF Inv, Scalars
        <4> QED BY <3>2, <4>1 DEF Inv, Scalars, Progress, Greatest
      <3> QED BY <3>1, <3>2
    <2>3. Len(responses) <= 2 /\ \A i \in DOMAIN responses : responses[i] \in Frame
      BY Empty, ElementOfSeq DEF Inv, Queues, Traffic
    <2> QED BY <2>1, <2>2, <2>3 DEF Inv, Scalars, Queues, Progress, TypeOK
  <1> QED BY <1>1, InvAlways, PTL

\* No answer is lost, doubled or filed under the wrong example, and an error is
\* blamed on the first example without a prediction, across oversized frames,
\* failing hooks, timeouts and kills.
THEOREM StaysInStep == Spec => []InStep
  <1>1. Inv => InStep
    BY DEF Inv
  <1> QED BY <1>1, InvAlways, PTL

\* A result is returned only when it is complete and the worker ended well; and
\* no worker, zombie or pipe end survives run_provider.
THEOREM AlwaysEndsClean == Spec => []EndsClean
  <1>1. Inv => EndsClean
    BY DEF Inv, Progress, Processes, EndsClean, ResultComplete, NothingLeft, Ended
  <1> QED BY <1>1, InvAlways, PTL

\* No hidden image is in memory before the worker has dropped its privileges.
THEOREM DataIsLoadedLate == Spec => []DataAfterDrop
  <1>1. Inv => DataAfterDrop
    BY DEF Inv, Started, DataAfterDrop
  <1> QED BY <1>1, InvAlways, PTL

-----------------------------------------------------------------------------
(* Lists in order.  Three sorts of the scorer place an item by counting    *)
(* what is not behind it.                                                  *)

\* below[i] is what comes no later than i in a total order.
Orders(S, below) ==
    /\ \A i \in S : below[i] \in SUBSET S /\ i \in below[i]
    /\ \A i, j \in S : i # j => (i \in below[j] <=> j \notin below[i])
    /\ \A i, j \in S : i \in below[j] => below[i] \subseteq below[j]

\* The counts are the numbers from 1 to the size of the set, each once.
Ranked(S, below) ==
    /\ Cardinality(S) \in Nat
    /\ \A i \in S : Cardinality(below[i]) \in 1 .. Cardinality(S)
    /\ \A i, j \in S : i # j /\ i \in below[j] =>
          Cardinality(below[i]) < Cardinality(below[j])
    /\ \A i, j \in S : Cardinality(below[i]) = Cardinality(below[j]) => i = j
    /\ \A k \in 1 .. Cardinality(S) : \E i \in S : Cardinality(below[i]) = k

\* What is counted in a total order is numbered without gaps.
LEMMA Ranking ==
    ASSUME NEW S, IsFiniteSet(S), NEW below, Orders(S, below)
    PROVE  Ranked(S, below)
  <1> DEFINE n == Cardinality(S)
             r == [i \in S |-> Cardinality(below[i])]
  <1>0. n \in Nat
    BY FS_CardinalityType
  <1>1. ASSUME NEW i \in S
        PROVE  /\ IsFiniteSet(below[i]) /\ Cardinality(below[i]) \in Nat
               /\ Cardinality(below[i]) <= n /\ Cardinality(below[i]) # 0
    <2>1. below[i] \in SUBSET S /\ below[i] # {}
      BY DEF Orders
    <2>2. IsFiniteSet(below[i]) /\ Cardinality(below[i]) <= n
      BY <2>1, FS_Subset
    <2> QED BY <2>1, <2>2, FS_CardinalityType, FS_EmptySet
  <1>2. ASSUME NEW i \in S, NEW j \in S, i # j, i \in below[j]
        PROVE  Cardinality(below[i]) < Cardinality(below[j])
    <2>1. below[i] \in SUBSET below[j] /\ below[i] # below[j]
      BY <1>2 DEF Orders
    <2>2. /\ Cardinality(below[i]) <= Cardinality(below[j])
          /\ Cardinality(below[j]) = Cardinality(below[i]) => below[j] = below[i]
      BY <1>1, <2>1, FS_Subset
    <2> QED BY <1>1, <2>1, <2>2
  <1>3. ASSUME NEW i \in S, NEW j \in S, Cardinality(below[i]) = Cardinality(below[j])
        PROVE  i = j
    <2> SUFFICES ASSUME i # j PROVE FALSE
      OBVIOUS
    <2>1. i \in below[j] \/ j \in below[i]
      BY DEF Orders
    <2>2. \/ Cardinality(below[i]) < Cardinality(below[j])
          \/ Cardinality(below[j]) < Cardinality(below[i])
      BY <1>2, <2>1
    <2> QED BY <1>1, <1>3, <2>2
  <1>4. r \in Injection(S, 1 .. n)
    <2>1. \A i \in S : r[i] \in 1 .. n
      BY <1>0, <1>1
    <2>2. \A i, j \in S : r[i] = r[j] => i = j
      BY <1>3
    <2>3. r \in [S -> 1 .. n]
      BY <2>1
    <2> HIDE DEF r
    <2> QED BY <2>2, <2>3 DEF Injection, IsInjective
  <1>5. r \in Surjection(S, 1 .. n)
    <2>1. IsFiniteSet(1 .. n) /\ Cardinality(1 .. n) = n
      BY <1>0, FS_Interval
    <2> HIDE DEF r
    <2> QED BY <1>4, <2>1, FS_Injection
  <1>6. \A k \in 1 .. n : \E i \in S : Cardinality(below[i]) = k
    <2>1. \A k \in 1 .. n : \E i \in S : r[i] = k
      BY <1>5 DEF Surjection
    <2> QED BY <2>1
  <1> QED BY <1>0, <1>1, <1>2, <1>3, <1>6 DEF Ranked

\* The k-th smallest of a set.
LEMMA NthIs ==
    ASSUME NEW S \in SUBSET Int, IsFiniteSet(S)
    PROVE  /\ Cardinality(S) \in Nat
           /\ \A k \in 1 .. Cardinality(S) : Nth(S, k) \in S
           /\ \A k, l \in 1 .. Cardinality(S) : k < l => Nth(S, k) < Nth(S, l)
           /\ \A i \in S : Cardinality({j \in S : j <= i}) \in 1 .. Cardinality(S)
           /\ \A i \in S, k \in 1 .. Cardinality(S) :
                 Nth(S, k) = i <=> Cardinality({j \in S : j <= i}) = k
  <1> DEFINE below == [i \in S |-> {j \in S : j <= i}]
             C(i) == Cardinality({j \in S : j <= i})
             n == Cardinality(S)
  <1>1. Orders(S, below)
    <2>1. \A i \in S : i \in Int /\ below[i] \in SUBSET S
      OBVIOUS
    <2>2. \A i, j \in S : i \in below[j] <=> i <= j
      OBVIOUS
    <2> HIDE DEF below
    <2>3. \A i, j \in S : i # j => (i \in below[j] <=> j \notin below[i])
      BY <2>1, <2>2
    <2>4. \A i, j, k \in S : i \in below[j] /\ k \in below[i] => k \in below[j]
      BY <2>1, <2>2
    <2>5. \A i, j \in S : i \in below[j] => below[i] \subseteq below[j]
      BY <2>1, <2>4
    <2>6. \A i \in S : below[i] \in SUBSET S /\ i \in below[i]
      BY <2>1, <2>2
    <2> QED BY ONLY <2>3, <2>5, <2>6 DEF Orders
  <1>2. \A i \in S : Cardinality(below[i]) = C(i)
    OBVIOUS
  <1>3. \A i, j \in S : i # j /\ i \in below[j] <=> i < j
    OBVIOUS
  <1> HIDE DEF below, C
  <1>4. /\ n \in Nat
        /\ \A i \in S : C(i) \in 1 .. n
        /\ \A i, j \in S : i < j => C(i) < C(j)
        /\ \A i, j \in S : C(i) = C(j) => i = j
        /\ \A k \in 1 .. n : \E i \in S : C(i) = k
    <2>1. /\ n \in Nat
          /\ \A i \in S : Cardinality(below[i]) \in 1 .. n
          /\ \A i, j \in S : i # j /\ i \in below[j] =>
                Cardinality(below[i]) < Cardinality(below[j])
          /\ \A i, j \in S : Cardinality(below[i]) = Cardinality(below[j]) => i = j
          /\ \A k \in 1 .. n : \E i \in S : Cardinality(below[i]) = k
      <3>1. Ranked(S, below)
        BY <1>1, Ranking
      <3> QED BY <3>1 DEF Ranked
    <2> HIDE DEF n
    <2> QED BY <1>2, <1>3, <2>1
  <1>5. \A k \in 1 .. n : Nth(S, k) \in S /\ C(Nth(S, k)) = k
    BY <1>4 DEF Nth, C
  <1>6. \A i \in S, k \in 1 .. n : Nth(S, k) = i <=> C(i) = k
    BY <1>4, <1>5
  <1>7. ASSUME NEW k \in 1 .. n, NEW l \in 1 .. n, k < l
        PROVE  Nth(S, k) < Nth(S, l)
    <2>1. Nth(S, k) \in Int /\ Nth(S, l) \in Int
      BY <1>5
    <2>2. ~(Nth(S, l) < Nth(S, k))
      <3>1. /\ Nth(S, l) \in S /\ Nth(S, k) \in S
            /\ C(Nth(S, l)) = l /\ C(Nth(S, k)) = k
        BY <1>5
      <3>2. Nth(S, l) < Nth(S, k) => C(Nth(S, l)) < C(Nth(S, k))
        BY <1>4, <3>1
      <3> HIDE DEF n
      <3> QED BY <1>4, <1>7, <3>1, <3>2
    <2>3. Nth(S, k) # Nth(S, l)
      BY <1>4, <1>5, <1>7
    <2> QED BY <2>1, <2>2, <2>3
  <1> QED BY <1>4, <1>5, <1>6, <1>7 DEF C

\* What is at some places of a list.
LEMMA AtIs ==
    ASSUME NEW n \in Nat, NEW items, DOMAIN items = 1 .. n, NEW S \in SUBSET (1 .. n)
    PROVE  /\ IsFiniteSet(S) /\ Cardinality(S) \in Nat /\ Cardinality(S) <= n
           /\ DOMAIN At(items, S) = 1 .. Cardinality(S)
           /\ Len(At(items, S)) = Cardinality(S)
           /\ \A k \in 1 .. Cardinality(S) :
                 Nth(S, k) \in S /\ At(items, S)[k] = items[Nth(S, k)]
           /\ \A i \in S : \E k \in 1 .. Cardinality(S) : Nth(S, k) = i
           /\ \A k, l \in 1 .. Cardinality(S) : k < l <=> Nth(S, k) < Nth(S, l)
  <1>1. IsFiniteSet(1 .. n) /\ Cardinality(1 .. n) = n
    BY FS_Interval
  <1>2. IsFiniteSet(S) /\ Cardinality(S) <= n /\ S \in SUBSET Int
    <2>1. S \in SUBSET Int
      OBVIOUS
    <2>2. IsFiniteSet(S) /\ Cardinality(S) <= Cardinality(1 .. n)
      BY <1>1, FS_Subset
    <2> QED BY <1>1, <2>1, <2>2
  <1>3. Cardinality(S) \in Nat /\ \A k \in 1 .. Cardinality(S) : Nth(S, k) \in S
    BY <1>2, NthIs
  <1>4. \A i \in S : \E k \in 1 .. Cardinality(S) : Nth(S, k) = i
    BY <1>2, NthIs, ZenonT(30)
  <1>5. ASSUME NEW k \in 1 .. Cardinality(S), NEW l \in 1 .. Cardinality(S)
        PROVE  k < l <=> Nth(S, k) < Nth(S, l)
    <2>1. Nth(S, k) \in Int /\ Nth(S, l) \in Int
      BY <1>2, <1>3
    <2>2. /\ k < l => Nth(S, k) < Nth(S, l)
          /\ l < k => Nth(S, l) < Nth(S, k)
      BY <1>2, NthIs
    <2> QED BY <2>1, <2>2
  <1>6. /\ At(items, S) = [k \in 1 .. Cardinality(S) |-> items[Nth(S, k)]]
        /\ DOMAIN At(items, S) = 1 .. Cardinality(S)
    BY DEF At
  <1>7. Len(At(items, S)) = Cardinality(S)
    BY <1>3, <1>6
  <1> QED BY <1>2, <1>3, <1>4, <1>5, <1>6, <1>7

\* The items at some places are items of the list.
LEMMA AtType ==
    ASSUME NEW V, NEW items \in Seq(V), NEW S \in SUBSET DOMAIN items
    PROVE  At(items, S) \in Seq(V)
  <1> DEFINE n == Len(items)
  <1>1. n \in Nat /\ DOMAIN items = 1 .. n /\ \A i \in 1 .. n : items[i] \in V
    OBVIOUS
  <1>2. /\ Cardinality(S) \in Nat
        /\ \A k \in 1 .. Cardinality(S) : Nth(S, k) \in S
    BY <1>1, AtIs
  <1>3. \A k \in 1 .. Cardinality(S) : items[Nth(S, k)] \in V
    BY <1>1, <1>2
  <1> QED BY <1>2, <1>3 DEF At

\* A set that another one begins with.
LEMMA NthBegins ==
    ASSUME NEW T \in SUBSET Int, IsFiniteSet(T), NEW S \in SUBSET T,
           \A i \in S, j \in T : j <= i => j \in S
    PROVE  \A k \in 1 .. Cardinality(S) : k \in 1 .. Cardinality(T) /\ Nth(S, k) = Nth(T, k)
  <1>1. IsFiniteSet(S) /\ S \in SUBSET Int /\ Cardinality(S) <= Cardinality(T)
    BY FS_Subset
  <1>2. Cardinality(S) \in Nat /\ Cardinality(T) \in Nat
    BY <1>1, NthIs
  <1> SUFFICES ASSUME NEW k \in 1 .. Cardinality(S)
               PROVE  k \in 1 .. Cardinality(T) /\ Nth(T, k) = Nth(S, k)
    OBVIOUS
  <1>3. k \in 1 .. Cardinality(T)
    BY <1>1, <1>2
  <1>4. PICK i \in S : i = Nth(S, k)
    BY <1>1, NthIs
  <1>5. Cardinality({j \in S : j <= i}) = k
    BY <1>1, <1>4, NthIs
  <1>6. {j \in S : j <= i} = {j \in T : j <= i}
    OBVIOUS
  <1> QED BY <1>3, <1>4, <1>5, <1>6, NthIs

\* A list of items with scores.
Scored(items, n) == DOMAIN items = 1 .. n /\ \A i \in 1 .. n : items[i].score \in Nat
Falling(items) == \A i, j \in DOMAIN items : i < j => items[i].score >= items[j].score

\* The items of one list are those of another, in the order of p.
Rearranges(p, n, items, sorted) ==
    /\ p \in [1 .. n -> 1 .. n]
    /\ \A k \in 1 .. n : sorted[k] = items[p[k]]
    /\ \A k, l \in 1 .. n : p[k] = p[l] => k = l
    /\ \A i \in 1 .. n : \E k \in 1 .. n : p[k] = i

\* sorted is a rearrangement, in order, and leaves a list in order alone.
LEMMA ByScoreSorts ==
    ASSUME NEW n \in Nat, NEW items, Scored(items, n)
    PROVE  /\ DOMAIN ByScore(items) = 1 .. n
           /\ \E p : Rearranges(p, n, items, ByScore(items))
           /\ Falling(ByScore(items))
           /\ Falling(items) => ByScore(items) = [k \in 1 .. n |-> items[k]]
  <1> DEFINE sc(i) == items[i].score
             Set(i) == { j \in 1 .. n : sc(j) > sc(i) \/ (sc(j) = sc(i) /\ j <= i) }
             below == [i \in 1 .. n |-> Set(i)]
             R(i) == Rank(items, i)
             p == [k \in 1 .. n |-> CHOOSE i \in 1 .. n : R(i) = k]
  <1>0. IsFiniteSet(1 .. n) /\ Cardinality(1 .. n) = n
    BY FS_Interval
  <1>s. \A i \in 1 .. n : sc(i) \in Nat
    BY DEF Scored
  <1>1. Orders(1 .. n, below)
    <2>1. \A i \in 1 .. n : below[i] \in SUBSET (1 .. n) /\ i \in below[i]
      OBVIOUS
    <2>2. \A i, j \in 1 .. n : i \in below[j] <=> sc(i) > sc(j) \/ (sc(i) = sc(j) /\ i <= j)
      OBVIOUS
    <2> HIDE DEF below, sc
    <2>3. \A i, j \in 1 .. n : i # j => (i \in below[j] <=> j \notin below[i])
      BY <1>s, <2>2
    <2>4. \A i, j, k \in 1 .. n : i \in below[j] /\ k \in below[i] => k \in below[j]
      BY <1>s, <2>2
    <2>5. \A i, j \in 1 .. n : i \in below[j] => below[i] \subseteq below[j]
      BY <2>1, <2>4
    <2> QED BY <2>1, <2>3, <2>5 DEF Orders
  <1>2. \A i \in 1 .. n : R(i) = Cardinality(below[i])
    BY DEF Rank, Scored
  <1>3. \A i, j \in 1 .. n : sc(i) > sc(j) => i \in below[j] /\ i # j
    BY <1>s
  <1>4. Falling(items) => \A i \in 1 .. n : below[i] = 1 .. i
    <2> SUFFICES ASSUME Falling(items), NEW i \in 1 .. n PROVE Set(i) = 1 .. i
      OBVIOUS
    <2>1. \A j \in 1 .. n : j < i => sc(j) >= sc(i)
      BY DEF Falling, Scored
    <2>2. \A j \in 1 .. n : i < j => sc(i) >= sc(j)
      BY DEF Falling, Scored
    <2>3. \A j \in 1 .. n : j \in Set(i) <=> j <= i
      <3> HIDE DEF sc
      <3> QED BY <1>s, <2>1, <2>2
    <2> HIDE DEF sc
    <2> QED BY <2>3
  <1> HIDE DEF below
  <1>5. /\ \A i \in 1 .. n : R(i) \in 1 .. n
        /\ \A i, j \in 1 .. n : i # j /\ i \in below[j] => R(i) < R(j)
        /\ \A i, j \in 1 .. n : R(i) = R(j) => i = j
        /\ \A k \in 1 .. n : \E i \in 1 .. n : R(i) = k
    <2>1. /\ \A i \in 1 .. n : Cardinality(below[i]) \in 1 .. n
          /\ \A i, j \in 1 .. n : i # j /\ i \in below[j] =>
                Cardinality(below[i]) < Cardinality(below[j])
          /\ \A i, j \in 1 .. n : Cardinality(below[i]) = Cardinality(below[j]) => i = j
          /\ \A k \in 1 .. n : \E i \in 1 .. n : Cardinality(below[i]) = k
      <3> DEFINE S == 1 .. n
      <3>1. IsFiniteSet(S) /\ Cardinality(S) = n /\ Orders(S, below)
        BY <1>0, <1>1
      <3> HIDE DEF S
      <3>2. Ranked(S, below)
        BY <3>1, Ranking
      <3> QED BY <3>1, <3>2 DEF Ranked, S
    <2> HIDE DEF R
    <2> QED BY <1>2, <2>1
  <1> HIDE DEF R
  <1>6. /\ p \in [1 .. n -> 1 .. n]
        /\ \A k \in 1 .. n : R(p[k]) = k
    BY <1>5
  <1>7. ByScore(items) = [k \in 1 .. n |-> items[p[k]]]
    BY DEF ByScore, Scored, R
  <1> HIDE DEF p
  <1>8. /\ \A k, l \in 1 .. n : p[k] = p[l] => k = l
        /\ \A i \in 1 .. n : \E k \in 1 .. n : p[k] = i
    <2>1. \A k, l \in 1 .. n : p[k] = p[l] => k = l
      BY <1>6
    <2>2. ASSUME NEW i \in 1 .. n PROVE \E k \in 1 .. n : p[k] = i
      <3>1. R(i) \in 1 .. n /\ p[R(i)] \in 1 .. n /\ R(p[R(i)]) = R(i)
        BY <1>5, <1>6
      <3> QED BY <1>5, <3>1
    <2> QED BY <2>1, <2>2
  <1>9. Falling(ByScore(items))
    <2> SUFFICES ASSUME NEW k \in 1 .. n, NEW l \in 1 .. n, k < l
                 PROVE  sc(p[k]) >= sc(p[l])
      BY <1>7 DEF Falling
    <2> SUFFICES ASSUME sc(p[l]) > sc(p[k]) PROVE FALSE
      BY <1>6, <1>s, SMTT(20)
    <2>1. p[l] \in below[p[k]] /\ p[l] # p[k]
      BY <1>3, <1>6
    <2>2. R(p[l]) < R(p[k])
      BY <1>5, <1>6, <2>1
    <2> QED BY <1>6, <2>2
  <1>10. ASSUME Falling(items) PROVE ByScore(items) = [k \in 1 .. n |-> items[k]]
    <2>1. ASSUME NEW i \in 1 .. n PROVE R(i) = i
      <3>1. below[i] = 1 .. i
        BY <1>4, <1>10
      <3>2. Cardinality(1 .. i) = i
        BY FS_Interval
      <3> QED BY <1>2, <3>1, <3>2 DEF R
    <2>2. \A k \in 1 .. n : p[k] = k
      BY <1>6, <2>1
    <2> QED BY <1>7, <2>2
  <1>11. DOMAIN ByScore(items) = 1 .. n
    BY <1>7
  <1>12. Rearranges(p, n, items, ByScore(items))
    BY <1>6, <1>7, <1>8 DEF Rearranges
  <1> QED BY <1>9, <1>10, <1>11, <1>12

-----------------------------------------------------------------------------
(* The matching of the scorer.  Its two loops are folds over 1 .. n, which *)
(* the community modules define by recursion over the sets of places, the  *)
(* greatest place taken away each time.                                    *)

\* The greatest element of a set of places.
LEMMA MaxIn ==
    ASSUME NEW n \in Nat, NEW s \in SUBSET (1 .. n), s # {}
    PROVE  Max(s) \in s
  <1> DEFINE T == {n - i : i \in s}
  <1>0. \A i \in s : i \in Int /\ n - i \in Nat
    OBVIOUS
  <1>1. T \in SUBSET Nat /\ T # {}
    BY <1>0
  <1>2. PICK m \in T : \A k \in T : <<k, m>> \notin OpToRel(<, Nat)
    BY <1>1, WFMin, NatLessThanWellFounded, Zenon
  <1>3. \A k \in T : k >= m
    <2>1. \A k \in T : k < m => <<k, m>> \in OpToRel(<, Nat)
      BY <1>1 DEF OpToRel
    <2>2. \A k \in T : k \in Nat /\ m \in Nat
      BY <1>1
    <2>3. \A k \in T : ~(k < m)
      BY <1>2, <2>1
    <2> HIDE DEF T
    <2> QED BY <2>2, <2>3
  <1>4. PICK i \in s : m = n - i
    OBVIOUS
  <1>5. ASSUME NEW j \in s PROVE i >= j
    <2>1. n - j >= n - i
      BY <1>3, <1>4
    <2> QED BY <1>0, <2>1
  <1> QED BY <1>5 DEF Max

\* The sets of places below k, taken away from the top, are below k - 1.
LEMMA MaxOfSegment ==
    ASSUME NEW k \in Nat \ {0}
    PROVE  Max(1 .. k) = k /\ (1 .. k) \ {k} = 1 .. (k - 1)
  <1>1. 1 .. k \in SUBSET (1 .. k) /\ 1 .. k # {}
    OBVIOUS
  <1>2. Max(1 .. k) \in 1 .. k
    BY <1>1, MaxIn
  <1>3. \A y \in 1 .. k : Max(1 .. k) >= y
    <2>1. \A y \in 1 .. k : k >= y
      OBVIOUS
    <2>2. k \in 1 .. k
      OBVIOUS
    <2> QED BY <2>1, <2>2 DEF Max
  <1> QED BY <1>2, <1>3

\* Taking the greatest place away makes a set smaller.
LEMMA Smaller ==
    ASSUME NEW n \in Nat, NEW k \in Nat, NEW s \in UpTo(1 .. n, k + 1), s # {}
    PROVE  s \ {Max(s)} \in UpTo(1 .. n, k)
  <1>1. s \in SUBSET (1 .. n) /\ Cardinality(s) <= k + 1 /\ Max(s) \in s
    BY MaxIn DEF UpTo
  <1>2. IsFiniteSet(s)
    <2>1. IsFiniteSet(1 .. n)
      BY FS_Interval
    <2> QED BY <1>1, <2>1, FS_Subset
  <1>3. Cardinality(s \ {Max(s)}) = Cardinality(s) - 1 /\ Cardinality(s) \in Nat
    BY <1>1, <1>2, FS_RemoveElement, FS_CardinalityType
  <1>4. s \ {Max(s)} \in SUBSET (1 .. n)
    BY <1>1
  <1>5. Cardinality(s \ {Max(s)}) <= k
    BY <1>1, <1>3
  <1> QED BY <1>4, <1>5 DEF UpTo

\* One turn of the inner loop.
TryAt(objects, matched, box, best, i) ==
    LET o == Overlap(box, objects[i])
    IN  IF \/ i \in matched
           \/ best.match # 0 /\ objects[i].ignore
           \/ ~AtLeast(o, best.overlap)
        THEN best
        ELSE [best EXCEPT !.overlap = o, !.index = i,
                          !.match = IF objects[i].ignore THEN -1 ELSE 1]

NoBest(threshold) == [overlap |-> threshold, index |-> 0, match |-> 0]

\* g maps each set of places to what the loop over them finds.
BestLoops(objects, matched, box, threshold, D, g) ==
    g = [s \in D |->
            IF s = {} THEN NoBest(threshold)
            ELSE TryAt(objects, matched, box, g[s \ {Max(s)}],
                       [i \in DOMAIN objects |-> i][Max(s)])]

\* Best picks one of the functions that the recursion defines, if there is one.
LEMMA BestDef ==
    ASSUME NEW objects, NEW matched, NEW box, NEW threshold
    PROVE  Best(objects, matched, box, threshold)
              = (CHOOSE g : BestLoops(objects, matched, box, threshold,
                                      SUBSET DOMAIN [i \in DOMAIN objects |-> i], g))
                   [DOMAIN [i \in DOMAIN objects |-> i]]
  BY DEF Best, FoldLeftDomain, FoldLeft, MapThenFoldSet, BestLoops, TryAt, NoBest

\* And there is one.
LEMMA BestLoopsExist ==
    ASSUME NEW n \in Nat, NEW objects, DOMAIN objects = 1 .. n,
           NEW matched, NEW box, NEW threshold
    PROVE  \E g : BestLoops(objects, matched, box, threshold, SUBSET (1 .. n), g)
  <1> DEFINE P == {k \in Nat : \E g : BestLoops(objects, matched, box, threshold,
                                               UpTo(1 .. n, k), g)}
             turn(s, x) == IF s = {} THEN NoBest(threshold)
                           ELSE TryAt(objects, matched, box, x[s \ {Max(s)}],
                                      [i \in DOMAIN objects |-> i][Max(s)])
  <1>0. IsFiniteSet(1 .. n)
    BY FS_Interval
  <1>1. 0 \in P
    <2> DEFINE g == [s \in UpTo(1 .. n, 0) |-> NoBest(threshold)]
    <2>1. g = [s \in UpTo(1 .. n, 0) |-> turn(s, g)]
      BY <1>0, UpToFinite
    <2> QED BY <2>1 DEF BestLoops
  <1>2. ASSUME NEW k \in Nat, k \in P PROVE k + 1 \in P
    <2>1. PICK g : BestLoops(objects, matched, box, threshold, UpTo(1 .. n, k), g)
      BY <1>2
    <2> DEFINE h == [s \in UpTo(1 .. n, k + 1) |-> turn(s, g)]
    <2>2. \A s \in UpTo(1 .. n, k) : g[s] = h[s]
      BY <1>0, <2>1, UpToFinite DEF BestLoops
    <2>3. \A s \in UpTo(1 .. n, k + 1) : turn(s, g) = turn(s, h)
      <3> SUFFICES ASSUME NEW s \in UpTo(1 .. n, k + 1), s # {}
                   PROVE  turn(s, g) = turn(s, h)
        OBVIOUS
      <3>1. s \ {Max(s)} \in UpTo(1 .. n, k)
        BY Smaller
      <3>2. g[s \ {Max(s)}] = h[s \ {Max(s)}]
        BY <2>2, <3>1
      <3> QED BY <3>2
    <2>4. h = [s \in UpTo(1 .. n, k + 1) |-> turn(s, h)]
      <3> HIDE DEF turn
      <3> QED BY <2>3
    <2>5. BestLoops(objects, matched, box, threshold, UpTo(1 .. n, k + 1), h)
      BY <2>4 DEF BestLoops
    <2> QED BY <2>5
  <1>3. Nat \subseteq P
    BY <1>1, <1>2, Induction
  <1>4. UpTo(1 .. n, Cardinality(1 .. n)) = SUBSET (1 .. n) /\ Cardinality(1 .. n) \in Nat
    BY <1>0, UpToFinite
  <1>5. Cardinality(1 .. n) \in P
    BY <1>3, <1>4
  <1>6. \E g : BestLoops(objects, matched, box, threshold,
                         UpTo(1 .. n, Cardinality(1 .. n)), g)
    BY <1>5
  <1> QED BY <1>4, <1>6

\* The inner loop, place by place.
BestTurns(objects, matched, box, threshold, n, h) ==
    /\ h[0] = NoBest(threshold)
    /\ \A k \in 1 .. n : h[k] = TryAt(objects, matched, box, h[k - 1], k)

\* So the inner loop runs from the first object to the last.
LEMMA BestByTurns ==
    ASSUME NEW n \in Nat, NEW objects, DOMAIN objects = 1 .. n,
           NEW matched, NEW box, NEW threshold
    PROVE  \E h : /\ BestTurns(objects, matched, box, threshold, n, h)
                  /\ Best(objects, matched, box, threshold) = h[n]
  <1>1. PICK g : /\ BestLoops(objects, matched, box, threshold, SUBSET (1 .. n), g)
                 /\ Best(objects, matched, box, threshold) = g[1 .. n]
    <2> DEFINE g == CHOOSE g : BestLoops(objects, matched, box, threshold, SUBSET (1 .. n), g)
    <2>1. BestLoops(objects, matched, box, threshold, SUBSET (1 .. n), g)
      BY BestLoopsExist
    <2>2. Best(objects, matched, box, threshold) = g[1 .. n]
      BY BestDef
    <2> QED BY <2>1, <2>2
  <1> DEFINE h == [k \in 0 .. n |-> g[1 .. k]]
  <1>2. h[0] = NoBest(threshold)
    <2>1. 1 .. 0 = {} /\ {} \in SUBSET (1 .. n) /\ 0 \in 0 .. n
      OBVIOUS
    <2>2. g[{}] = NoBest(threshold)
      BY <1>1, <2>1 DEF BestLoops
    <2> QED BY <2>1, <2>2
  <1>3. ASSUME NEW k \in 1 .. n
        PROVE  h[k] = TryAt(objects, matched, box, h[k - 1], k)
    <2>1. 1 .. k \in SUBSET (1 .. n) /\ 1 .. k # {} /\ k \in Nat \ {0}
      OBVIOUS
    <2>2. Max(1 .. k) = k /\ (1 .. k) \ {k} = 1 .. (k - 1)
      BY <2>1, MaxOfSegment
    <2>3. g[1 .. k] = TryAt(objects, matched, box, g[(1 .. k) \ {Max(1 .. k)}],
                            [i \in DOMAIN objects |-> i][Max(1 .. k)])
      BY <1>1, <2>1 DEF BestLoops
    <2>4. g[1 .. k] = TryAt(objects, matched, box, g[1 .. (k - 1)], k)
      BY <2>2, <2>3
    <2> QED BY <2>4
  <1>4. h[n] = g[1 .. n]
    OBVIOUS
  <1>5. BestTurns(objects, matched, box, threshold, n, h)
    BY <1>2, <1>3 DEF BestTurns
  <1> QED BY <1>1, <1>4, <1>5

-----------------------------------------------------------------------------
(* Overlaps are fractions, and fractions are ordered.                      *)

Fraction == Nat \X (Nat \ {0})
Box == [x : Int, y : Int, w : Nat \ {0}, h : Nat \ {0}]

\* Products of natural numbers keep their order,
LEMMA TimesGrows ==
    ASSUME NEW a \in Int, NEW b \in Int, NEW c \in Nat, a <= b
    PROVE  a * c <= b * c
  OBVIOUS

\* and so do the factors.
LEMMA TimesCancels ==
    ASSUME NEW a \in Int, NEW b \in Int, NEW c \in Nat \ {0}, a * c <= b * c
    PROVE  a <= b
  OBVIOUS

\* Of two fractions one is at least the other.
LEMMA AtLeastTotal ==
    ASSUME NEW f \in Fraction, NEW g \in Fraction
    PROVE  AtLeast(f, f) /\ (AtLeast(f, g) \/ AtLeast(g, f))
  <1>1. f[1] \in Nat /\ f[2] \in Nat /\ g[1] \in Nat /\ g[2] \in Nat
    BY DEF Fraction
  <1>2. f[1] * g[2] \in Int /\ g[1] * f[2] \in Int /\ f[1] * f[2] \in Int
    BY <1>1
  <1> QED BY <1>2 DEF AtLeast

\* The order of fractions is transitive.
LEMMA AtLeastTransitive ==
    ASSUME NEW f \in Fraction, NEW g \in Fraction, NEW e \in Fraction,
           AtLeast(f, g), AtLeast(g, e)
    PROVE  AtLeast(f, e)
  <1>1. /\ f[1] \in Nat /\ f[2] \in Nat \ {0} /\ g[1] \in Nat /\ g[2] \in Nat \ {0}
        /\ e[1] \in Nat /\ e[2] \in Nat \ {0}
    BY DEF Fraction
  <1>2. g[1] * f[2] <= f[1] * g[2] /\ e[1] * g[2] <= g[1] * e[2]
    BY <1>1 DEF AtLeast
  <1>3. \A a, b, c, d, p, q \in Nat :
           c * b <= a * d /\ p * d <= c * q => (p * b) * d <= (a * q) * d
    <2> SUFFICES ASSUME NEW a \in Nat, NEW b \in Nat, NEW c \in Nat, NEW d \in Nat,
                        NEW p \in Nat, NEW q \in Nat,
                        c * b <= a * d, p * d <= c * q
                 PROVE  (p * b) * d <= (a * q) * d
      OBVIOUS
    <2>1. (p * d) * b <= (c * q) * b
      BY TimesGrows
    <2>2. (c * b) * q <= (a * d) * q
      BY TimesGrows
    <2>3. (p * d) * b = (p * b) * d /\ (c * q) * b = (c * b) * q /\ (a * d) * q = (a * q) * d
      OBVIOUS
    <2>4. (p * b) * d \in Int /\ (c * b) * q \in Int /\ (a * q) * d \in Int
      OBVIOUS
    <2> QED BY <2>1, <2>2, <2>3, <2>4
  <1>4. (e[1] * f[2]) * g[2] <= (f[1] * e[2]) * g[2]
    BY <1>1, <1>2, <1>3
  <1>5. e[1] * f[2] <= f[1] * e[2]
    BY <1>1, <1>4, TimesCancels
  <1> QED BY <1>1, <1>5 DEF AtLeast

\* Two boxes share no more than either has.
LEMMA SharedArea ==
    ASSUME NEW a \in Box, NEW b \in Box
    PROVE  /\ IntersectionArea(a, b) \in Nat
           /\ Area(a) \in Nat \ {0}
           /\ IntersectionArea(a, b) <= Area(a)
  <1> DEFINE c == Clip(a, b)
             width == Greatest(0, c.r - c.l)
             height == Greatest(0, c.b - c.t)
  <1>1. /\ a.x \in Int /\ a.y \in Int /\ a.w \in Nat \ {0} /\ a.h \in Nat \ {0}
        /\ b.x \in Int /\ b.y \in Int /\ b.w \in Nat \ {0} /\ b.h \in Nat \ {0}
    BY DEF Box
  <1>2. /\ width \in Nat /\ width <= a.w
        /\ height \in Nat /\ height <= a.h
    BY <1>1 DEF Clip, Greatest, Least
  <1>3. \A p, q, m, n \in Nat : p <= m /\ q <= n => p * q \in Nat /\ p * q <= m * n
    <2> SUFFICES ASSUME NEW p \in Nat, NEW q \in Nat, NEW m \in Nat, NEW n \in Nat,
                        p <= m, q <= n
                 PROVE  p * q \in Nat /\ p * q <= m * n
      OBVIOUS
    <2>1. p * q <= m * q
      BY TimesGrows
    <2>2. q * m <= n * m
      BY TimesGrows
    <2>3. q * m = m * q /\ n * m = m * n /\ p * q \in Nat /\ m * q \in Nat /\ m * n \in Nat
      OBVIOUS
    <2> QED BY <2>1, <2>2, <2>3
  <1>4. width * height \in Nat /\ width * height <= a.w * a.h
    <2> HIDE DEF width, height
    <2> QED BY <1>1, <1>2, <1>3
  <1>5. a.w * a.h \in Nat \ {0}
    BY <1>1
  <1> QED BY <1>4, <1>5 DEF IntersectionArea, Area

\* An overlap is a fraction.
LEMMA OverlapType ==
    ASSUME NEW a \in Box, NEW o, o.box \in Box
    PROVE  Overlap(a, o) \in Fraction
  <1> DEFINE shared == IntersectionArea(a, o.box)
  <1>1. /\ shared \in Nat /\ Area(a) \in Nat \ {0} /\ shared <= Area(a)
        /\ Area(o.box) \in Nat \ {0}
    BY SharedArea
  <1>2. Area(a) + Area(o.box) - shared \in Nat \ {0}
    <2> HIDE DEF shared
    <2> QED BY <1>1
  <1> QED BY <1>1, <1>2 DEF Overlap, Fraction

-----------------------------------------------------------------------------
(* What the inner loop finds.                                              *)

\* The objects of an image as _match_image orders them: the boxes are valid and
\* what is ignored comes last.
IgnoredLast(objects) ==
    /\ \A i \in DOMAIN objects : objects[i].box \in Box /\ objects[i].ignore \in BOOLEAN
    /\ \A i, k \in DOMAIN objects : i < k /\ objects[i].ignore => objects[k].ignore

BestRecord == [overlap : Fraction, index : Nat, match : {0, 1, -1}]

\* The places up to k that no detection has taken.
FreeUpTo(matched, k) == (1 .. k) \ matched

\* What the loop knows after k places.
FoundIn(objects, matched, box, threshold, k, b) ==
    /\ b \in BestRecord
    /\ b.match = 0 =>
          /\ b = NoBest(threshold)
          /\ \A i \in FreeUpTo(matched, k) : ~AtLeast(Overlap(box, objects[i]), threshold)
    /\ b.match # 0 =>
          /\ b.index \in FreeUpTo(matched, k)
          /\ b.overlap = Overlap(box, objects[b.index])
          /\ AtLeast(b.overlap, threshold)
          /\ objects[b.index].ignore <=> b.match = -1
    /\ \A i \in FreeUpTo(matched, k) : ~objects[i].ignore =>
          /\ b.match = 1 => AtLeast(b.overlap, Overlap(box, objects[i]))
          /\ b.match = -1 => ~AtLeast(Overlap(box, objects[i]), threshold)

\* One turn keeps what is known of the best object so far.
LEMMA FoundInNext ==
    ASSUME NEW n \in Nat, NEW objects, DOMAIN objects = 1 .. n, IgnoredLast(objects),
           NEW matched, NEW box \in Box, NEW threshold \in Fraction,
           NEW k \in 1 .. n, NEW b, FoundIn(objects, matched, box, threshold, k - 1, b)
    PROVE  FoundIn(objects, matched, box, threshold, k,
                   TryAt(objects, matched, box, b, k))
  <1> DEFINE o(i) == Overlap(box, objects[i])
             free == FreeUpTo(matched, k - 1)
             c == TryAt(objects, matched, box, b, k)
  <1>1. \A i \in 1 .. n : o(i) \in Fraction
    BY OverlapType DEF IgnoredLast
  <1>2. /\ FreeUpTo(matched, k) = IF k \in matched THEN free ELSE free \cup {k}
        /\ free \subseteq 1 .. n /\ k \notin free
        /\ \A i \in free : i < k
    BY DEF FreeUpTo
  <1>3. b \in BestRecord /\ b.overlap \in Fraction /\ b.match \in {0, 1, -1}
    BY DEF FoundIn, BestRecord
  <1>4. ~objects[k].ignore => b.match # -1
    <2> SUFFICES ASSUME b.match = -1 PROVE objects[k].ignore
      OBVIOUS
    <2>1. b.index \in free /\ objects[b.index].ignore
      BY DEF FoundIn
    <2> QED BY <1>2, <2>1 DEF IgnoredLast
  <1>5. CASE k \in matched
    <2>1. c = b
      BY <1>5 DEF TryAt
    <2> QED BY <1>2, <1>5, <2>1 DEF FoundIn
  <1>6. CASE k \notin matched /\ b.match # 0 /\ objects[k].ignore
    <2>1. c = b
      BY <1>6 DEF TryAt
    <2>2. FreeUpTo(matched, k) = free \cup {k}
      BY <1>2, <1>6
    <2> QED BY <1>6, <2>1, <2>2 DEF FoundIn
  <1>7. CASE k \notin matched /\ ~AtLeast(o(k), b.overlap)
             /\ ~(b.match # 0 /\ objects[k].ignore)
    <2>1. c = b
      BY <1>7 DEF TryAt
    <2>2. FreeUpTo(matched, k) = free \cup {k}
      BY <1>2, <1>7
    <2>3. AtLeast(b.overlap, o(k))
      BY <1>1, <1>3, <1>7, AtLeastTotal
    <2>4. b.match = 0 => ~AtLeast(o(k), threshold)
      BY <1>7 DEF FoundIn, NoBest
    <2> HIDE DEF c, free
    <2>5. b.match = 0 => \A i \in free : ~AtLeast(o(i), threshold)
      BY DEF FoundIn, free
    <2>6. \A i \in free : ~objects[i].ignore =>
             /\ b.match = 1 => AtLeast(b.overlap, o(i))
             /\ b.match = -1 => ~AtLeast(o(i), threshold)
      BY DEF FoundIn, free
    <2>7. b.match = 0 => b = NoBest(threshold)
      BY DEF FoundIn
    <2>8. b.match # 0 =>
          /\ b.index \in free \cup {k}
          /\ b.overlap = o(b.index)
          /\ AtLeast(b.overlap, threshold)
          /\ objects[b.index].ignore <=> b.match = -1
      BY DEF FoundIn, free
    <2>9. \A i \in free \cup {k} : ~objects[i].ignore =>
             /\ b.match = 1 => AtLeast(b.overlap, o(i))
             /\ b.match = -1 => ~AtLeast(o(i), threshold)
      BY <1>4, <2>3, <2>6
    <2>10. FoundIn(objects, matched, box, threshold, k, b)
      BY <1>3, <2>2, <2>4, <2>5, <2>7, <2>8, <2>9 DEF FoundIn
    <2> QED BY <2>1, <2>10 DEF c
  <1>8. CASE k \notin matched /\ AtLeast(o(k), b.overlap)
             /\ ~(b.match # 0 /\ objects[k].ignore)
    <2>1. /\ c \in BestRecord /\ c.overlap = o(k) /\ c.index = k
          /\ c.match = IF objects[k].ignore THEN -1 ELSE 1
      <3>1. c = [b EXCEPT !.overlap = o(k), !.index = k,
                          !.match = IF objects[k].ignore THEN -1 ELSE 1]
        BY <1>8 DEF TryAt
      <3> DEFINE v == IF objects[k].ignore THEN -1 ELSE 1
      <3>2. o(k) \in Fraction /\ k \in Nat /\ v \in {0, 1, -1}
        BY <1>1
      <3>3. b \in [overlap : Fraction, index : Nat, match : {0, 1, -1}]
        BY <1>3 DEF BestRecord
      <3>4. c = [b EXCEPT !.overlap = o(k), !.index = k, !.match = v]
        BY <3>1
      <3> HIDE DEF c, o, v
      <3>5. c \in BestRecord /\ c.overlap = o(k) /\ c.index = k /\ c.match = v
        BY <3>2, <3>3, <3>4 DEF BestRecord
      <3> QED BY <3>5 DEF v
    <2>2. FreeUpTo(matched, k) = free \cup {k}
      BY <1>2, <1>8
    <2>3. o(k) \in Fraction
      BY <1>1
    <2>4. AtLeast(o(k), threshold)
      <3>1. b.match = 0 => b.overlap = threshold
        BY DEF FoundIn, NoBest
      <3>2. b.match # 0 => AtLeast(b.overlap, threshold)
        BY DEF FoundIn
      <3> QED BY <1>3, <1>8, <2>3, <3>1, <3>2, AtLeastTransitive
    <2>5. ASSUME NEW i \in free, ~objects[i].ignore, ~objects[k].ignore
          PROVE  AtLeast(o(k), o(i))
      <3>1. o(i) \in Fraction
        BY <1>1, <1>2
      <3>2. CASE b.match = 1
        <4>1. AtLeast(b.overlap, o(i))
          BY <2>5, <3>2 DEF FoundIn
        <4> QED BY <1>3, <1>8, <2>3, <3>1, <4>1, AtLeastTransitive
      <3>3. CASE b.match = 0
        <4>1. ~AtLeast(o(i), threshold)
          BY <3>3 DEF FoundIn
        <4>2. AtLeast(o(k), o(i)) \/ AtLeast(o(i), o(k))
          BY <2>3, <3>1, AtLeastTotal
        <4> QED BY <2>3, <2>4, <3>1, <4>1, <4>2, AtLeastTransitive
      <3> QED BY <1>3, <1>4, <2>5, <3>2, <3>3
    <2>6. ASSUME NEW i \in free, ~objects[i].ignore, objects[k].ignore
          PROVE  ~AtLeast(o(i), threshold)
      <3>1. b.match = 0
        BY <1>8, <2>6
      <3> QED BY <3>1 DEF FoundIn
    <2>7. AtLeast(o(k), o(k))
      BY <2>3, AtLeastTotal
    <2>8. objects[k].ignore \in BOOLEAN
      BY DEF IgnoredLast
    <2> HIDE DEF c, free
    <2>9. \A i \in free \cup {k} : ~objects[i].ignore =>
             /\ c.match = 1 => AtLeast(c.overlap, o(i))
             /\ c.match = -1 => ~AtLeast(o(i), threshold)
      BY <2>1, <2>5, <2>6, <2>7
    <2>10. c.match # 0
      BY <2>1
    <2>11. /\ c.index \in free \cup {k}
           /\ c.overlap = o(c.index)
           /\ AtLeast(c.overlap, threshold)
           /\ objects[c.index].ignore <=> c.match = -1
      BY <2>1, <2>4, <2>8
    <2>12. FoundIn(objects, matched, box, threshold, k, c)
      BY <2>1, <2>2, <2>9, <2>10, <2>11 DEF FoundIn
    <2> QED BY <2>12 DEF c
  <1> QED BY <1>5, <1>6, <1>7, <1>8

\* The inner loop finds the best object.
LEMMA BestIsFound ==
    ASSUME NEW n \in Nat, NEW objects, DOMAIN objects = 1 .. n, IgnoredLast(objects),
           NEW matched, NEW box \in Box, NEW threshold \in Fraction
    PROVE  FoundIn(objects, matched, box, threshold, n,
                   Best(objects, matched, box, threshold))
  <1>1. PICK h : /\ BestTurns(objects, matched, box, threshold, n, h)
                 /\ Best(objects, matched, box, threshold) = h[n]
    BY BestByTurns
  <1> DEFINE P == {k \in Nat : k <= n => FoundIn(objects, matched, box, threshold, k, h[k])}
  <1>2. 0 \in P
    <2>1. h[0] = NoBest(threshold)
      BY <1>1 DEF BestTurns
    <2>2. NoBest(threshold) \in BestRecord /\ NoBest(threshold).match = 0
      BY DEF NoBest, BestRecord
    <2>3. FreeUpTo(matched, 0) = {}
      BY DEF FreeUpTo
    <2> QED BY <2>1, <2>2, <2>3 DEF FoundIn
  <1>3. ASSUME NEW k \in Nat, k \in P PROVE k + 1 \in P
    <2> SUFFICES ASSUME k + 1 <= n
                 PROVE  FoundIn(objects, matched, box, threshold, k + 1, h[k + 1])
      OBVIOUS
    <2>1. k + 1 \in 1 .. n /\ (k + 1) - 1 = k
      OBVIOUS
    <2>2. h[k + 1] = TryAt(objects, matched, box, h[k], k + 1)
      BY <1>1, <2>1 DEF BestTurns
    <2>3. FoundIn(objects, matched, box, threshold, k, h[k])
      BY <1>3
    <2> QED BY <2>1, <2>2, <2>3, FoundInNext
  <1>4. n \in P
    BY <1>2, <1>3, Induction
  <1> QED BY <1>1, <1>4

-----------------------------------------------------------------------------
(* The loop over the detections, in the same way.                          *)

\* One turn of the outer loop.
TakeOne(objects, threshold, m, d) ==
    LET best == Best(objects, m.matched, d.box, threshold)
    IN  [matched |-> IF best.match = 1 THEN m.matched \cup {best.index}
                     ELSE m.matched,
         results |-> Append(m.results,
                            [score |-> d.score, match |-> best.match])]

Unmatched == [matched |-> {}, results |-> <<>>]

\* g maps each set of detections to what the loop over them makes.
AssignLoops(objects, detections, threshold, D, g) ==
    g = [s \in D |->
            IF s = {} THEN Unmatched
            ELSE TakeOne(objects, threshold, g[s \ {Max(s)}], detections[Max(s)])]

\* Assign picks one of the functions that the recursion defines, if there is one.
LEMMA AssignDef ==
    ASSUME NEW objects, NEW detections, NEW threshold
    PROVE  Assign(objects, detections, threshold)
              = (CHOOSE g : AssignLoops(objects, detections, threshold,
                                        SUBSET DOMAIN detections, g))
                   [DOMAIN detections].results
  BY DEF Assign, FoldLeft, MapThenFoldSet, AssignLoops, TakeOne, Unmatched

\* And there is one.
LEMMA AssignLoopsExist ==
    ASSUME NEW n \in Nat, NEW objects, NEW detections, NEW threshold
    PROVE  \E g : AssignLoops(objects, detections, threshold, SUBSET (1 .. n), g)
  <1> DEFINE P == {k \in Nat : \E g : AssignLoops(objects, detections, threshold,
                                                 UpTo(1 .. n, k), g)}
             turn(s, x) == IF s = {} THEN Unmatched
                           ELSE TakeOne(objects, threshold, x[s \ {Max(s)}],
                                        detections[Max(s)])
  <1>0. IsFiniteSet(1 .. n)
    BY FS_Interval
  <1>1. 0 \in P
    <2> DEFINE g == [s \in UpTo(1 .. n, 0) |-> Unmatched]
    <2>1. g = [s \in UpTo(1 .. n, 0) |-> turn(s, g)]
      BY <1>0, UpToFinite
    <2> QED BY <2>1 DEF AssignLoops
  <1>2. ASSUME NEW k \in Nat, k \in P PROVE k + 1 \in P
    <2>1. PICK g : AssignLoops(objects, detections, threshold, UpTo(1 .. n, k), g)
      BY <1>2
    <2> DEFINE h == [s \in UpTo(1 .. n, k + 1) |-> turn(s, g)]
    <2>2. \A s \in UpTo(1 .. n, k) : g[s] = h[s]
      BY <1>0, <2>1, UpToFinite DEF AssignLoops
    <2>3. \A s \in UpTo(1 .. n, k + 1) : turn(s, g) = turn(s, h)
      <3> SUFFICES ASSUME NEW s \in UpTo(1 .. n, k + 1), s # {}
                   PROVE  turn(s, g) = turn(s, h)
        OBVIOUS
      <3>1. s \ {Max(s)} \in UpTo(1 .. n, k)
        BY Smaller
      <3>2. g[s \ {Max(s)}] = h[s \ {Max(s)}]
        BY <2>2, <3>1
      <3> QED BY <3>2
    <2>4. h = [s \in UpTo(1 .. n, k + 1) |-> turn(s, h)]
      <3> HIDE DEF turn
      <3> QED BY <2>3
    <2>5. AssignLoops(objects, detections, threshold, UpTo(1 .. n, k + 1), h)
      BY <2>4 DEF AssignLoops
    <2> QED BY <2>5
  <1>3. Nat \subseteq P
    BY <1>1, <1>2, Induction
  <1>4. UpTo(1 .. n, Cardinality(1 .. n)) = SUBSET (1 .. n) /\ Cardinality(1 .. n) \in Nat
    BY <1>0, UpToFinite
  <1>5. Cardinality(1 .. n) \in P
    BY <1>3, <1>4
  <1>6. \E g : AssignLoops(objects, detections, threshold,
                           UpTo(1 .. n, Cardinality(1 .. n)), g)
    BY <1>5
  <1> QED BY <1>4, <1>6

\* The outer loop, detection by detection.
AssignTurns(objects, detections, threshold, n, h) ==
    /\ h[0] = Unmatched
    /\ \A k \in 1 .. n : h[k] = TakeOne(objects, threshold, h[k - 1], detections[k])

\* So the loop runs from the first detection to the last.
LEMMA AssignByTurns ==
    ASSUME NEW n \in Nat, NEW objects, NEW detections, DOMAIN detections = 1 .. n,
           NEW threshold
    PROVE  \E h : /\ AssignTurns(objects, detections, threshold, n, h)
                  /\ Assign(objects, detections, threshold) = h[n].results
  <1>1. PICK g : /\ AssignLoops(objects, detections, threshold, SUBSET (1 .. n), g)
                 /\ Assign(objects, detections, threshold) = g[1 .. n].results
    <2> DEFINE g == CHOOSE g : AssignLoops(objects, detections, threshold,
                                           SUBSET (1 .. n), g)
    <2>1. AssignLoops(objects, detections, threshold, SUBSET (1 .. n), g)
      BY AssignLoopsExist
    <2>2. Assign(objects, detections, threshold) = g[1 .. n].results
      BY AssignDef
    <2> QED BY <2>1, <2>2
  <1> DEFINE h == [k \in 0 .. n |-> g[1 .. k]]
  <1>2. h[0] = Unmatched
    <2>1. 1 .. 0 = {} /\ {} \in SUBSET (1 .. n) /\ 0 \in 0 .. n
      OBVIOUS
    <2>2. g[{}] = Unmatched
      BY <1>1, <2>1 DEF AssignLoops
    <2> QED BY <2>1, <2>2
  <1>3. ASSUME NEW k \in 1 .. n
        PROVE  h[k] = TakeOne(objects, threshold, h[k - 1], detections[k])
    <2>1. 1 .. k \in SUBSET (1 .. n) /\ 1 .. k # {} /\ k \in Nat \ {0}
      OBVIOUS
    <2>2. Max(1 .. k) = k /\ (1 .. k) \ {k} = 1 .. (k - 1)
      BY <2>1, MaxOfSegment
    <2>3. g[1 .. k] = TakeOne(objects, threshold, g[(1 .. k) \ {Max(1 .. k)}],
                              detections[Max(1 .. k)])
      BY <1>1, <2>1 DEF AssignLoops
    <2>4. g[1 .. k] = TakeOne(objects, threshold, g[1 .. (k - 1)], detections[k])
      BY <2>2, <2>3
    <2> QED BY <2>4
  <1>4. h[n] = g[1 .. n]
    OBVIOUS
  <1>5. AssignTurns(objects, detections, threshold, n, h)
    BY <1>2, <1>3 DEF AssignTurns
  <1> QED BY <1>1, <1>4, <1>5

\* What the loop has made of the first k detections, from what was best for each.
Taken(detections, best, k, m) ==
    /\ m.matched = {best[j].index : j \in {j \in 1 .. k : best[j].match = 1}}
    /\ m.results = [j \in 1 .. k |-> [score |-> detections[j].score,
                                      match |-> best[j].match]]

\* Every detection has the result of its turn.
LEMMA AssignIsTaken ==
    ASSUME NEW n \in Nat, NEW objects, NEW detections, DOMAIN detections = 1 .. n,
           NEW threshold, NEW h, AssignTurns(objects, detections, threshold, n, h),
           NEW best,
           \A k \in 1 .. n :
              best[k] = Best(objects, h[k - 1].matched, detections[k].box, threshold)
    PROVE  \A k \in 0 .. n : Taken(detections, best, k, h[k])
  <1> DEFINE P == {k \in Nat : k <= n => Taken(detections, best, k, h[k])}
             R(j) == [score |-> detections[j].score, match |-> best[j].match]
  <1>1. 0 \in P
    <2>1. h[0].matched = {} /\ h[0].results = <<>>
      BY DEF AssignTurns, Unmatched
    <2>2. 1 .. 0 = {}
      OBVIOUS
    <2>3. [j \in 1 .. 0 |-> R(j)] = <<>>
      BY <2>2
    <2> QED BY <2>1, <2>2, <2>3 DEF Taken
  <1>2. ASSUME NEW k \in Nat, k \in P PROVE k + 1 \in P
    <2> SUFFICES ASSUME k + 1 <= n
                 PROVE  Taken(detections, best, k + 1, h[k + 1])
      OBVIOUS
    <2>1. k + 1 \in 1 .. n /\ (k + 1) - 1 = k /\ 1 .. (k + 1) = (1 .. k) \cup {k + 1}
      OBVIOUS
    <2>2. h[k + 1] = TakeOne(objects, threshold, h[k], detections[k + 1])
      BY <2>1 DEF AssignTurns
    <2>3. best[k + 1] = Best(objects, h[k].matched, detections[k + 1].box, threshold)
      BY <2>1
    <2>4. /\ h[k + 1].matched = IF best[k + 1].match = 1
                                THEN h[k].matched \cup {best[k + 1].index}
                                ELSE h[k].matched
          /\ h[k + 1].results = Append(h[k].results, R(k + 1))
      BY <2>2, <2>3 DEF TakeOne
    <2>5. Taken(detections, best, k, h[k])
      BY <1>2
    <2>6. h[k + 1].matched = {best[j].index : j \in {j \in 1 .. (k + 1) : best[j].match = 1}}
      BY <2>1, <2>4, <2>5, SMTT(20) DEF Taken
    <2>7. h[k + 1].results = [j \in 1 .. (k + 1) |-> R(j)]
      <3>1. h[k].results = [j \in 1 .. k |-> R(j)]
        BY <2>5 DEF Taken
      <3> DEFINE V == {R(j) : j \in 1 .. n}
      <3>2. \A j \in 1 .. (k + 1) : R(j) \in V
        BY <2>1
      <3> HIDE DEF R, V
      <3>3. [j \in 1 .. k |-> R(j)] \in Seq(V)
        BY <3>2
      <3>4. Append([j \in 1 .. k |-> R(j)], R(k + 1)) = [j \in 1 .. (k + 1) |-> R(j)]
        BY <3>2, <3>3
      <3> QED BY <2>4, <3>1, <3>4
    <2> QED BY <2>6, <2>7 DEF Taken
  <1>3. Nat \subseteq P
    BY <1>1, <1>2, Induction
  <1>4. \A k \in 0 .. n : k \in P /\ k <= n
    BY <1>3
  <1> QED BY <1>4

-----------------------------------------------------------------------------
(* The matching is greedy.                                                 *)

\* _match_image with its lists in order gives every detection, at every
\* threshold, the free real object it overlaps most, none twice, and one without
\* an object is a false positive unless an ignored object holds it: for images
\* of any size, with any number of objects and detections.
THEOREM AssignIsGreedy ==
    ASSUME NEW n \in Nat, NEW objects, DOMAIN objects = 1 .. n, IgnoredLast(objects),
           NEW m \in Nat, NEW detections, DOMAIN detections = 1 .. m,
           \A j \in 1 .. m : detections[j].box \in Box,
           NEW threshold \in Thresholds
    PROVE  IsMatching(objects, detections, threshold,
                      Assign(objects, detections, threshold))
  <1>0. threshold \in Fraction
    BY ScorerAssumption DEF Fraction
  <1>1. PICK h : /\ AssignTurns(objects, detections, threshold, m, h)
                 /\ Assign(objects, detections, threshold) = h[m].results
    BY AssignByTurns
  <1> DEFINE best == [k \in 1 .. m |-> Best(objects, h[k - 1].matched,
                                           detections[k].box, threshold)]
             results == Assign(objects, detections, threshold)
             real == {i \in DOMAIN objects : ~objects[i].ignore}
             hits == {j \in DOMAIN detections : results[j].match = 1}
             o(j, i) == Overlap(detections[j].box, objects[i])
             g == [j \in hits |-> best[j].index]
             free(j) == {i \in real : /\ AtLeast(o(j, i), threshold)
                                      /\ \A k \in hits : k < j => g[k] # i}
  <1>2. \A k \in 0 .. m : Taken(detections, best, k, h[k])
    <2>1. \A k \in 1 .. m :
             best[k] = Best(objects, h[k - 1].matched, detections[k].box, threshold)
      OBVIOUS
    <2> HIDE DEF best
    <2> QED BY <1>1, <2>1, AssignIsTaken
  <1>3. \A j \in 1 .. m : FoundIn(objects, h[j - 1].matched, detections[j].box,
                                  threshold, n, best[j])
    BY <1>0, BestIsFound
  <1>4. \A j \in 1 .. m : results[j].match = best[j].match
    <2> HIDE DEF best
    <2>1. Taken(detections, best, m, h[m])
      BY <1>2
    <2>2. results = [j \in 1 .. m |-> [score |-> detections[j].score,
                                       match |-> best[j].match]]
      BY <1>1, <2>1 DEF Taken
    <2> HIDE DEF results
    <2> QED BY <2>2
  <1>5. hits = {j \in 1 .. m : best[j].match = 1}
    BY <1>4
  <1>6. \A j \in 1 .. m : h[j - 1].matched = {g[k] : k \in {k \in hits : k < j}}
    <2> SUFFICES ASSUME NEW j \in 1 .. m
                 PROVE  h[j - 1].matched = {g[k] : k \in {k \in hits : k < j}}
      OBVIOUS
    <2>1. \A k \in hits : g[k] = best[k].index
      OBVIOUS
    <2> HIDE DEF g, hits, best
    <2>2. j - 1 \in 0 .. m /\ \A k \in 1 .. m : k \in 1 .. (j - 1) <=> k < j
      OBVIOUS
    <2>3. Taken(detections, best, j - 1, h[j - 1])
      BY <1>2, <2>2
    <2>4. h[j - 1].matched = {best[k].index : k \in {k \in 1 .. (j - 1) : best[k].match = 1}}
      BY <2>3 DEF Taken
    <2>5. 1 .. (j - 1) \subseteq 1 .. m
      OBVIOUS
    <2>6. {k \in 1 .. (j - 1) : best[k].match = 1} = {k \in hits : k < j}
      BY <1>5, <2>2, <2>5
    <2> QED BY <2>1, <2>4, <2>6
  <1> HIDE DEF best, results, hits, g
  <1>7. \A j \in hits : j \in 1 .. m /\ g[j] = best[j].index /\ best[j].match = 1
    BY <1>5 DEF g
  <1>8. \A j \in hits : g[j] \in 1 .. n /\ g[j] \notin h[j - 1].matched /\ g[j] \in real
    BY <1>3, <1>7 DEF FoundIn, FreeUpTo
  <1>9. \A j \in hits, k \in hits : k < j => g[k] # g[j]
    BY <1>6, <1>7, <1>8
  <1>10. g \in [hits -> real] /\ IsInjective(g)
    <2>1. DOMAIN g = hits /\ g \in [hits -> real]
      BY <1>8 DEF g
    <2>2. \A j \in hits, k \in hits : g[j] = g[k] => j = k
      BY <1>7, <1>9
    <2> QED BY <2>1, <2>2 DEF IsInjective
  <1>11. \A j \in 1 .. m : \A i \in 1 .. n :
            i \notin h[j - 1].matched <=> \A k \in hits : k < j => g[k] # i
    BY <1>6
  <1>12. \A j \in 1 .. m : free(j) = {i \in real : /\ AtLeast(o(j, i), threshold)
                                                  /\ i \notin h[j - 1].matched}
    BY <1>11
  <1>13. ASSUME NEW j \in hits
         PROVE  g[j] \in free(j) /\ \A i \in free(j) : AtLeast(o(j, g[j]), o(j, i))
    <2>1. FoundIn(objects, h[j - 1].matched, detections[j].box, threshold, n, best[j])
      BY <1>3, <1>7
    <2>2. best[j].match = 1 /\ g[j] = best[j].index /\ j \in 1 .. m
      BY <1>7
    <2>3. best[j].overlap = o(j, g[j]) /\ AtLeast(o(j, g[j]), threshold)
      BY <2>1, <2>2 DEF FoundIn
    <2>4. g[j] \in free(j)
      BY <1>8, <1>12, <2>2, <2>3
    <2>5. \A i \in free(j) : i \in FreeUpTo(h[j - 1].matched, n) /\ ~objects[i].ignore
      BY <1>12, <2>2 DEF FreeUpTo
    <2>6. \A i \in free(j) : AtLeast(best[j].overlap, o(j, i))
      BY <2>1, <2>2, <2>5 DEF FoundIn
    <2> QED BY <2>3, <2>4, <2>6
  <1>14. ASSUME NEW j \in 1 .. m, j \notin hits
         PROVE  /\ free(j) = {}
                /\ best[j].match = (IF \E i \in DOMAIN objects \ real :
                                           AtLeast(o(j, i), threshold)
                                    THEN -1 ELSE 0)
    <2>1. FoundIn(objects, h[j - 1].matched, detections[j].box, threshold, n, best[j])
      BY <1>3
    <2>2. best[j].match \in {0, -1}
      BY <1>5, <1>14, <2>1 DEF FoundIn, BestRecord
    <2>3. \A i \in free(j) : i \in FreeUpTo(h[j - 1].matched, n) /\ ~objects[i].ignore
                             /\ AtLeast(o(j, i), threshold)
      BY <1>12 DEF FreeUpTo
    <2>4. free(j) = {}
      BY <2>1, <2>2, <2>3 DEF FoundIn
    <2>5. ASSUME best[j].match = -1
          PROVE  \E i \in DOMAIN objects \ real : AtLeast(o(j, i), threshold)
      <3>1. /\ best[j].index \in 1 .. n /\ objects[best[j].index].ignore
            /\ AtLeast(o(j, best[j].index), threshold)
        BY <2>1, <2>5 DEF FoundIn, FreeUpTo
      <3> QED BY <3>1
    <2>6. ASSUME best[j].match = 0, NEW i \in DOMAIN objects \ real
          PROVE  ~AtLeast(o(j, i), threshold)
      <3>1. i \notin h[j - 1].matched
        BY <1>6, <1>8, <2>6
      <3>2. i \in FreeUpTo(h[j - 1].matched, n)
        BY <3>1 DEF FreeUpTo
      <3> QED BY <2>1, <2>6, <3>2 DEF FoundIn
    <2> QED BY <2>2, <2>4, <2>5, <2>6
  <1>15. \A j \in DOMAIN detections :
            IF j \in hits
            THEN g[j] \in free(j) /\ \A i \in free(j) : AtLeast(o(j, g[j]), o(j, i))
            ELSE /\ free(j) = {}
                 /\ results[j].match = (IF \E i \in DOMAIN objects \ real :
                                               AtLeast(o(j, i), threshold)
                                        THEN -1 ELSE 0)
    BY <1>4, <1>13, <1>14
  <1>16. \E f \in [hits -> real] :
            /\ IsInjective(f)
            /\ \A j \in DOMAIN detections :
                 LET left == {i \in real : /\ AtLeast(o(j, i), threshold)
                                           /\ \A k \in hits : k < j => f[k] # i}
                 IN  IF j \in hits
                     THEN f[j] \in left /\ \A i \in left : AtLeast(o(j, f[j]), o(j, i))
                     ELSE /\ left = {}
                          /\ results[j].match =
                               (IF \E i \in DOMAIN objects \ real :
                                       AtLeast(o(j, i), threshold)
                                THEN -1 ELSE 0)
    BY <1>10, <1>15
  <1> QED BY <1>16 DEF IsMatching, hits, results

-----------------------------------------------------------------------------
(* The lists _match_image works on.                                        *)

\* The objects of an image are rearranged so that what is ignored comes last.
LEMMA OrderedIs ==
    ASSUME NEW V, NEW objects \in Seq(V), \A i \in DOMAIN objects : objects[i].ignore \in BOOLEAN
    PROVE  /\ Ordered(objects) \in Seq(V) /\ Len(Ordered(objects)) = Len(objects)
           /\ \E o : Rearranges(o, Len(objects), objects, Ordered(objects))
           /\ \A k, l \in 1 .. Len(objects) :
                 k < l /\ Ordered(objects)[k].ignore => Ordered(objects)[l].ignore
  <1> DEFINE n == Len(objects)
             A == {i \in 1 .. n : ~objects[i].ignore}
             B == {i \in 1 .. n : objects[i].ignore}
             a == Cardinality(A)
             b == Cardinality(B)
             s == At(objects, A)
             t == At(objects, B)
             w == Ordered(objects)
             o == [k \in 1 .. n |-> IF k <= a THEN Nth(A, k) ELSE Nth(B, k - a)]
  <1>1. n \in Nat /\ DOMAIN objects = 1 .. n
    OBVIOUS
  <1>2. /\ A \in SUBSET (1 .. n) /\ B \in SUBSET (1 .. n)
        /\ A \cup B = 1 .. n /\ A \cap B = {}
    OBVIOUS
  <1>3. w = s \o t
    BY <1>1 DEF Ordered
  <1>4. \A i \in A : ~objects[i].ignore
    OBVIOUS
  <1>5. \A i \in B : objects[i].ignore
    OBVIOUS
  <1> HIDE DEF A, B, n
  <1>6. /\ IsFiniteSet(A) /\ a \in Nat /\ Len(s) = a
        /\ \A k \in 1 .. a : Nth(A, k) \in A /\ s[k] = objects[Nth(A, k)]
        /\ \A i \in A : \E k \in 1 .. a : Nth(A, k) = i
        /\ \A k, l \in 1 .. a : k < l <=> Nth(A, k) < Nth(A, l)
    BY <1>1, <1>2, AtIs
  <1>7. /\ IsFiniteSet(B) /\ b \in Nat /\ Len(t) = b
        /\ \A k \in 1 .. b : Nth(B, k) \in B /\ t[k] = objects[Nth(B, k)]
        /\ \A i \in B : \E k \in 1 .. b : Nth(B, k) = i
        /\ \A k, l \in 1 .. b : k < l <=> Nth(B, k) < Nth(B, l)
    BY <1>1, <1>2, AtIs
  <1>8. s \in Seq(V) /\ t \in Seq(V)
    BY <1>1, <1>2, AtType
  <1> HIDE DEF a, b, s, t, w
  <1>9. a + b = n
    <2>1. Cardinality(A \cup B) = Cardinality(A) + Cardinality(B) - Cardinality(A \cap B)
      BY <1>6, <1>7, FS_Union
    <2>2. Cardinality(A \cap B) = 0
      BY <1>2, FS_EmptySet
    <2>3. Cardinality(1 .. n) = n
      BY <1>1, FS_Interval
    <2>4. Cardinality(A \cup B) = n
      BY <1>2, <2>3
    <2>5. a = Cardinality(A) /\ b = Cardinality(B)
      BY DEF a, b
    <2> QED BY <1>1, <1>6, <1>7, <2>1, <2>2, <2>4, <2>5
  <1>10. /\ w \in Seq(V) /\ Len(w) = n
         /\ \A k \in 1 .. n : w[k] = IF k <= a THEN s[k] ELSE t[k - a]
    <2>1. /\ s \o t \in Seq(V) /\ Len(s \o t) = Len(s) + Len(t)
          /\ \A k \in 1 .. Len(s) + Len(t) :
                (s \o t)[k] = IF k <= Len(s) THEN s[k] ELSE t[k - Len(s)]
      BY <1>8, ConcatProperties
    <2> QED BY <1>3, <1>6, <1>7, <1>9, <2>1
  <1>11. \A k \in 1 .. n : /\ k <= a => k \in 1 .. a
                           /\ ~(k <= a) => k - a \in 1 .. b
    BY <1>1, <1>6, <1>7, <1>9
  <1>12. /\ o \in [1 .. n -> 1 .. n]
         /\ \A k \in 1 .. n : /\ k <= a => o[k] = Nth(A, k) /\ o[k] \in A
                              /\ ~(k <= a) => o[k] = Nth(B, k - a) /\ o[k] \in B
    BY <1>2, <1>6, <1>7, <1>11
  <1> HIDE DEF o
  <1>13. \A k \in 1 .. n : w[k] = objects[o[k]]
    BY <1>6, <1>7, <1>10, <1>11, <1>12
  <1>14. ASSUME NEW k \in 1 .. n, NEW l \in 1 .. n, o[k] = o[l] PROVE k = l
    <2>1. CASE k <= a
      <3>1. l <= a
        BY <1>2, <1>12, <1>14, <2>1
      <3>2. k \in 1 .. a /\ l \in 1 .. a /\ Nth(A, k) = Nth(A, l)
        BY <1>11, <1>12, <1>14, <2>1, <3>1
      <3>3. Nth(A, k) \in Int
        BY <1>2, <1>6, <3>2
      <3>4. ~(k < l) /\ ~(l < k)
        BY <1>6, <3>2, <3>3
      <3> QED BY <3>2, <3>4
    <2>2. CASE ~(k <= a)
      <3>1. ~(l <= a)
        BY <1>2, <1>12, <1>14, <2>2
      <3>2. k - a \in 1 .. b /\ l - a \in 1 .. b /\ Nth(B, k - a) = Nth(B, l - a)
        BY <1>11, <1>12, <1>14, <2>2, <3>1
      <3>3. Nth(B, k - a) \in Int
        BY <1>2, <1>7, <3>2
      <3>4. ~(k - a < l - a) /\ ~(l - a < k - a)
        BY <1>7, <3>2, <3>3
      <3> QED BY <1>6, <3>2, <3>4
    <2> QED BY <2>1, <2>2
  <1>15. ASSUME NEW i \in 1 .. n PROVE \E k \in 1 .. n : o[k] = i
    <2>1. CASE i \in A
      <3>1. PICK k \in 1 .. a : Nth(A, k) = i
        BY <1>6, <2>1
      <3>2. k \in 1 .. n /\ k <= a
        BY <1>6, <1>7, <1>9
      <3> QED BY <1>12, <3>1, <3>2
    <2>2. CASE i \in B
      <3>1. PICK k \in 1 .. b : Nth(B, k) = i
        BY <1>7, <2>2
      <3>2. k + a \in 1 .. n /\ ~(k + a <= a) /\ (k + a) - a = k
        BY <1>6, <1>7, <1>9
      <3> QED BY <1>12, <3>1, <3>2
    <2> QED BY <1>2, <2>1, <2>2
  <1>16. \A k, l \in 1 .. n : k < l /\ w[k].ignore => w[l].ignore
    <2> SUFFICES ASSUME NEW k \in 1 .. n, NEW l \in 1 .. n, k < l, w[k].ignore
                 PROVE  w[l].ignore
      OBVIOUS
    <2>1. ~(k <= a)
      BY <1>4, <1>12, <1>13
    <2>2. ~(l <= a)
      BY <1>6, <2>1
    <2> QED BY <1>5, <1>12, <1>13, <2>2
  <1>17. Rearranges(o, n, objects, w)
    BY <1>12, <1>13, <1>14, <1>15 DEF Rearranges
  <1> QED BY <1>10, <1>16, <1>17 DEF n, w

\* What is true of the objects in one order is true of them in any.
LEMMA MatchingOfOrder ==
    ASSUME NEW n \in Nat, NEW objects, DOMAIN objects = 1 .. n,
           NEW ordered, DOMAIN ordered = 1 .. n,
           NEW o, Rearranges(o, n, objects, ordered),
           NEW ranked, NEW threshold, NEW results,
           IsMatching(ordered, ranked, threshold, results)
    PROVE  IsMatching(objects, ranked, threshold, results)
  <1> DEFINE real == {i \in DOMAIN objects : ~objects[i].ignore}
             kept == {k \in DOMAIN ordered : ~ordered[k].ignore}
             hits == {j \in DOMAIN ranked : results[j].match = 1}
             O(j, i) == Overlap(ranked[j].box, objects[i])
             R(j, k) == Overlap(ranked[j].box, ordered[k])
             free(g, j) == {i \in real : /\ AtLeast(O(j, i), threshold)
                                         /\ \A h \in hits : h < j => g[h] # i}
             left(g, j) == {k \in kept : /\ AtLeast(R(j, k), threshold)
                                         /\ \A h \in hits : h < j => g[h] # k}
             Right(g, j) == IF j \in hits
                            THEN /\ g[j] \in free(g, j)
                                 /\ \A i \in free(g, j) : AtLeast(O(j, g[j]), O(j, i))
                            ELSE /\ free(g, j) = {}
                                 /\ results[j].match =
                                      (IF \E i \in DOMAIN objects \ real :
                                             AtLeast(O(j, i), threshold)
                                       THEN -1 ELSE 0)
  <1>1. PICK g \in [hits -> kept] :
            /\ IsInjective(g)
            /\ \A j \in DOMAIN ranked :
                 IF j \in hits
                 THEN g[j] \in left(g, j) /\ \A k \in left(g, j) : AtLeast(R(j, g[j]), R(j, k))
                 ELSE /\ left(g, j) = {}
                      /\ results[j].match =
                           (IF \E k \in DOMAIN ordered \ kept : AtLeast(R(j, k), threshold)
                            THEN -1 ELSE 0)
    BY DEF IsMatching
  <1>0. /\ o \in [1 .. n -> 1 .. n]
        /\ \A k \in 1 .. n : ordered[k] = objects[o[k]]
        /\ \A k, l \in 1 .. n : o[k] = o[l] => k = l
        /\ \A i \in 1 .. n : \E k \in 1 .. n : o[k] = i
    BY DEF Rearranges
  <1> USE <1>0
  <1> DEFINE f == [j \in hits |-> o[g[j]]]
  <1>2. \A j, k : k \in 1 .. n => R(j, k) = O(j, o[k])
    OBVIOUS
  <1>3. \A k \in 1 .. n : k \in kept <=> o[k] \in real
    OBVIOUS
  <1>4. /\ \A j \in hits : g[j] \in 1 .. n /\ g[j] \in kept
        /\ \A j \in hits : f[j] = o[g[j]]
        /\ \A h \in hits, k \in 1 .. n : f[h] = o[k] <=> g[h] = k
    BY <1>1
  <1>5. kept \subseteq 1 .. n /\ real \subseteq 1 .. n
    OBVIOUS
  <1>6. f \in [hits -> real] /\ IsInjective(f)
    <2>1. f \in [hits -> real] /\ DOMAIN f = hits
      BY <1>3, <1>4
    <2>2. \A i, j \in hits : f[i] = f[j] => i = j
      BY <1>1, <1>4 DEF IsInjective
    <2> HIDE DEF f
    <2> QED BY <2>1, <2>2 DEF IsInjective
  <1> HIDE DEF f, O, R
  <1>7. \A j \in DOMAIN ranked : \A k \in 1 .. n : k \in left(g, j) <=> o[k] \in free(f, j)
    <2> SUFFICES ASSUME NEW j \in DOMAIN ranked, NEW k \in 1 .. n
                 PROVE  k \in left(g, j) <=> o[k] \in free(f, j)
      OBVIOUS
    <2> HIDE DEF real, kept, hits
    <2>1. R(j, k) = O(j, o[k])
      BY <1>2
    <2>2. k \in left(g, j) <=> /\ k \in kept /\ AtLeast(R(j, k), threshold)
                               /\ \A h \in hits : h < j => g[h] # k
      OBVIOUS
    <2>3. o[k] \in free(f, j) <=> /\ o[k] \in real /\ AtLeast(O(j, o[k]), threshold)
                                  /\ \A h \in hits : h < j => f[h] # o[k]
      OBVIOUS
    <2>4. \A h \in hits : f[h] = o[k] <=> g[h] = k
      BY <1>4
    <2> HIDE DEF left, free
    <2> QED BY <1>3, <2>1, <2>2, <2>3, <2>4
  <1>8. \A j \in DOMAIN ranked : \A i \in free(f, j) : \E k \in left(g, j) : i = o[k]
    <2> SUFFICES ASSUME NEW j \in DOMAIN ranked, NEW i \in free(f, j)
                 PROVE  \E k \in left(g, j) : i = o[k]
      OBVIOUS
    <2>1. PICK k \in 1 .. n : o[k] = i
      BY <1>5
    <2> HIDE DEF left, free
    <2> QED BY <1>7, <2>1
  <1>9. left(g, 0) = left(g, 0) /\ \A j \in DOMAIN ranked : left(g, j) \subseteq 1 .. n
    OBVIOUS
  <1>10. \A j : (\E k \in DOMAIN ordered \ kept : AtLeast(R(j, k), threshold))
                <=> (\E i \in DOMAIN objects \ real : AtLeast(O(j, i), threshold))
    <2> TAKE j
    <2>1. ASSUME NEW k \in DOMAIN ordered \ kept, AtLeast(R(j, k), threshold)
          PROVE  \E i \in DOMAIN objects \ real : AtLeast(O(j, i), threshold)
      <3>1. k \in 1 .. n /\ o[k] \in 1 .. n /\ o[k] \notin real
        BY <1>3
      <3> QED BY <1>2, <2>1, <3>1
    <2>2. ASSUME NEW i \in DOMAIN objects \ real, AtLeast(O(j, i), threshold)
          PROVE  \E k \in DOMAIN ordered \ kept : AtLeast(R(j, k), threshold)
      <3>1. PICK k \in 1 .. n : o[k] = i
        OBVIOUS
      <3>2. k \in DOMAIN ordered \ kept
        BY <1>3, <3>1
      <3> QED BY <1>2, <2>2, <3>1, <3>2
    <2> QED BY <2>1, <2>2
  <1> HIDE DEF kept, real, hits
  <1>11. ASSUME NEW j \in DOMAIN ranked PROVE Right(f, j)
    <2>1. CASE j \in hits
      <3>1. g[j] \in left(g, j) /\ \A k \in left(g, j) : AtLeast(R(j, g[j]), R(j, k))
        BY <1>1, <2>1
      <3> HIDE DEF left, free
      <3>2. f[j] \in free(f, j)
        BY <1>4, <1>7, <2>1, <3>1
      <3>3. \A i \in free(f, j) : AtLeast(O(j, f[j]), O(j, i))
        <4> TAKE i \in free(f, j)
        <4>1. PICK k \in left(g, j) : i = o[k]
          BY <1>8
        <4>2. k \in 1 .. n /\ AtLeast(R(j, g[j]), R(j, k))
          BY <1>9, <3>1
        <4>3. f[j] = o[g[j]] /\ g[j] \in 1 .. n
          BY <1>4, <2>1
        <4>4. R(j, g[j]) = O(j, f[j]) /\ R(j, k) = O(j, i)
          BY <1>2, <4>1, <4>2, <4>3
        <4> QED BY <4>2, <4>4
      <3> QED BY <2>1, <3>2, <3>3, Zenon
    <2>2. CASE j \notin hits
      <3>1. /\ left(g, j) = {}
            /\ results[j].match = (IF \E k \in DOMAIN ordered \ kept : AtLeast(R(j, k), threshold)
                                   THEN -1 ELSE 0)
        BY <1>1, <2>2
      <3> HIDE DEF left, free
      <3>2. free(f, j) = {}
        BY <1>8, <3>1
      <3>3. results[j].match = (IF \E i \in DOMAIN objects \ real : AtLeast(O(j, i), threshold)
                                THEN -1 ELSE 0)
        BY <1>10, <3>1, ZenonT(30)
      <3> QED BY <2>2, <3>2, <3>3, Zenon
    <2> QED BY <2>1, <2>2
  <1>12. \E e \in [hits -> real] : IsInjective(e) /\ \A j \in DOMAIN ranked : Right(e, j)
    <2> HIDE DEF Right
    <2> QED BY <1>6, <1>11
  <1> QED BY <1>12 DEF IsMatching, hits, real, O


\* The results of an image.
Results == [score : Nat, match : {0, 1, -1}]

\* The loops of _match_image: what was best for each detection, and the results.
BestAt(objects, detections, threshold, h, j) ==
    Best(objects, h[j - 1].matched, detections[j].box, threshold)
ResultAt(objects, detections, threshold, h, j) ==
    [score |-> detections[j].score,
     match |-> BestAt(objects, detections, threshold, h, j).match]

Assigned(objects, detections, threshold, n, h) ==
    /\ AssignTurns(objects, detections, threshold, n, h)
    /\ Assign(objects, detections, threshold)
          = [j \in 1 .. n |-> ResultAt(objects, detections, threshold, h, j)]

\* _match_image gives each detection the result of its turn.
LEMMA AssignResults ==
    ASSUME NEW n \in Nat, NEW objects, NEW detections, DOMAIN detections = 1 .. n,
           NEW threshold
    PROVE  \E h : Assigned(objects, detections, threshold, n, h)
  <1>1. PICK h : /\ AssignTurns(objects, detections, threshold, n, h)
                 /\ Assign(objects, detections, threshold) = h[n].results
    BY AssignByTurns
  <1> DEFINE b == [j \in 1 .. n |-> BestAt(objects, detections, threshold, h, j)]
  <1>2. \A j \in 1 .. n : b[j] = Best(objects, h[j - 1].matched, detections[j].box, threshold)
    BY DEF BestAt
  <1>3. \A j \in 1 .. n : b[j] = BestAt(objects, detections, threshold, h, j)
    OBVIOUS
  <1> HIDE DEF b
  <1>4. Taken(detections, b, n, h[n])
    <2>1. \A i \in 0 .. n : Taken(detections, b, i, h[i])
      BY <1>1, <1>2, AssignIsTaken
    <2> QED BY <2>1
  <1>5. h[n].results = [j \in 1 .. n |-> [score |-> detections[j].score, match |-> b[j].match]]
    BY <1>4 DEF Taken
  <1>6. h[n].results = [j \in 1 .. n |-> ResultAt(objects, detections, threshold, h, j)]
    BY <1>3, <1>5 DEF ResultAt
  <1>7. Assigned(objects, detections, threshold, n, h)
    BY <1>1, <1>6 DEF Assigned
  <1> QED BY <1>7

\* Every detection has a result.
LEMMA AssignShape ==
    ASSUME NEW n \in Nat, NEW objects, DOMAIN objects = 1 .. n, IgnoredLast(objects),
           NEW m \in Nat, NEW detections, DOMAIN detections = 1 .. m,
           \A j \in 1 .. m : detections[j].box \in Box /\ detections[j].score \in Nat,
           NEW threshold \in Fraction
    PROVE  /\ Assign(objects, detections, threshold) \in Seq(Results)
           /\ Len(Assign(objects, detections, threshold)) = m
  <1>1. PICK h : Assigned(objects, detections, threshold, m, h)
    BY AssignResults
  <1>2. \A j \in 1 .. m : ResultAt(objects, detections, threshold, h, j) \in Results
    <2> TAKE j \in 1 .. m
    <2>1. FoundIn(objects, h[j - 1].matched, detections[j].box, threshold, n,
                  BestAt(objects, detections, threshold, h, j))
      BY BestIsFound DEF BestAt
    <2> QED BY <2>1 DEF FoundIn, BestRecord, ResultAt, Results
  <1>3. Assign(objects, detections, threshold) \in [1 .. m -> Results]
    BY <1>1, <1>2 DEF Assigned
  <1> QED BY <1>3

\* What the first detections are given does not depend on those that follow.
LEMMA AssignBegins ==
    ASSUME NEW objects, NEW threshold, NEW k \in Nat, NEW m \in Nat, k <= m,
           NEW few, DOMAIN few = 1 .. k, NEW many, DOMAIN many = 1 .. m,
           \A j \in 1 .. k : few[j] = many[j]
    PROVE  \A j \in 1 .. k :
              Assign(objects, few, threshold)[j] = Assign(objects, many, threshold)[j]
  <1>1. PICK g : Assigned(objects, few, threshold, k, g)
    BY AssignResults
  <1>2. PICK h : Assigned(objects, many, threshold, m, h)
    BY AssignResults
  <1> DEFINE P == {i \in Nat : i <= k => g[i] = h[i]}
  <1>3. 0 \in P
    BY <1>1, <1>2 DEF Assigned, AssignTurns
  <1>4. ASSUME NEW i \in Nat, i \in P PROVE i + 1 \in P
    <2> SUFFICES ASSUME i + 1 <= k PROVE g[i + 1] = h[i + 1]
      OBVIOUS
    <2>1. i + 1 \in 1 .. k /\ i + 1 \in 1 .. m /\ (i + 1) - 1 = i
      OBVIOUS
    <2>2. g[i + 1] = TakeOne(objects, threshold, g[i], few[i + 1])
      BY <1>1, <2>1 DEF Assigned, AssignTurns
    <2>3. h[i + 1] = TakeOne(objects, threshold, h[i], many[i + 1])
      BY <1>2, <2>1 DEF Assigned, AssignTurns
    <2>4. g[i] = h[i] /\ few[i + 1] = many[i + 1]
      BY <1>4, <2>1
    <2> QED BY <2>2, <2>3, <2>4
  <1>5. \A i \in 0 .. k : g[i] = h[i]
    <2>1. Nat \subseteq P
      BY <1>3, <1>4, Induction
    <2> QED BY <2>1
  <1>6. ASSUME NEW j \in 1 .. k
        PROVE  ResultAt(objects, few, threshold, g, j) = ResultAt(objects, many, threshold, h, j)
    <2>1. j - 1 \in 0 .. k
      OBVIOUS
    <2>2. g[j - 1] = h[j - 1] /\ few[j] = many[j]
      BY <1>5, <2>1
    <2> QED BY <2>2 DEF ResultAt, BestAt
  <1>7. \A j \in 1 .. k : j \in 1 .. m
    OBVIOUS
  <1> QED BY <1>1, <1>2, <1>6, <1>7 DEF Assigned

\* The thresholds are fractions,
LEMMA ThresholdIsFraction == Thresholds \subseteq Fraction
  BY ScorerAssumption DEF Fraction

\* and the boxes that pass validation are boxes.
LEMMA BoxesAreBoxes == Boxes \subseteq Box
  BY DEF Boxes, Box

\* What is known of a list of detections.
LEMMA ScoredList ==
    ASSUME NEW s \in Seq(Detections)
    PROVE  /\ Len(s) \in Nat /\ DOMAIN s = 1 .. Len(s) /\ Scored(s, Len(s))
           /\ \A i \in 1 .. Len(s) : /\ s[i] \in Detections /\ s[i].box \in Boxes
                                     /\ s[i].score \in Nat /\ s[i].class \in Int
  <1>1. Len(s) \in Nat /\ DOMAIN s = 1 .. Len(s) /\ \A i \in 1 .. Len(s) : s[i] \in Detections
    OBVIOUS
  <1>2. \A d \in Detections : d.box \in Boxes /\ d.score \in Nat /\ d.class \in Int
    BY DEF Detections
  <1> QED BY <1>1, <1>2 DEF Scored

\* _match_image sorts the objects, and finds the detections in order.
LEMMA MatchImageIs ==
    ASSUME NEW objects \in Seq(Objects), NEW ranked \in Seq(Detections), Falling(ranked),
           NEW threshold \in Thresholds
    PROVE  /\ MatchImage(objects, ranked, threshold)
                 = Assign(Ordered(objects), ranked, threshold)
           /\ MatchImage(objects, ranked, threshold) \in Seq(Results)
           /\ Len(MatchImage(objects, ranked, threshold)) = Len(ranked)
           /\ IsMatching(objects, ranked, threshold, MatchImage(objects, ranked, threshold))
  <1> DEFINE w == Ordered(objects)
             n == Len(objects)
             m == Len(ranked)
  <1>1. /\ m \in Nat /\ DOMAIN ranked = 1 .. m /\ Scored(ranked, m)
        /\ \A i \in 1 .. m : ranked[i].box \in Box /\ ranked[i].score \in Nat
    BY ScoredList, BoxesAreBoxes
  <1>2. ByScore(ranked) = ranked
    <2>1. ByScore(ranked) = [k \in 1 .. m |-> ranked[k]]
      <3> HIDE DEF m
      <3> QED BY <1>1, ByScoreSorts
    <2> QED BY <1>1, <2>1
  <1>3. MatchImage(objects, ranked, threshold) = Assign(w, ranked, threshold)
    BY <1>2 DEF MatchImage
  <1>4. /\ n \in Nat /\ DOMAIN objects = 1 .. n
        /\ \A i \in 1 .. n : objects[i].ignore \in BOOLEAN /\ objects[i].box \in Box
    <2>1. \A d \in Objects : d.ignore \in BOOLEAN /\ d.box \in Box
      BY BoxesAreBoxes DEF Objects
    <2> QED BY <2>1
  <1>5. /\ w \in Seq(Objects) /\ Len(w) = n
        /\ \A k, l \in 1 .. n : k < l /\ w[k].ignore => w[l].ignore
    BY <1>4, OrderedIs
  <1>6. PICK o : Rearranges(o, n, objects, w)
    <2>1. \A i \in DOMAIN objects : objects[i].ignore \in BOOLEAN
      BY <1>4
    <2> QED BY <2>1, OrderedIs
  <1> HIDE DEF w, n, m
  <1>7. DOMAIN w = 1 .. n /\ IgnoredLast(w)
    <2>1. DOMAIN w = 1 .. n
      BY <1>5
    <2>2. \A k \in 1 .. n : w[k].box \in Box /\ w[k].ignore \in BOOLEAN
      <3>1. \A k \in 1 .. n : o[k] \in 1 .. n /\ w[k] = objects[o[k]]
        BY <1>6 DEF Rearranges
      <3> QED BY <1>4, <3>1
    <2> QED BY <1>5, <2>1, <2>2 DEF IgnoredLast
  <1>8. threshold \in Fraction
    BY ThresholdIsFraction
  <1>9. Assign(w, ranked, threshold) \in Seq(Results) /\ Len(Assign(w, ranked, threshold)) = m
    <2>1. n \in Nat /\ m \in Nat /\ DOMAIN ranked = 1 .. m
      BY <1>1, <1>4
    <2>2. \A i \in 1 .. m : ranked[i].box \in Box /\ ranked[i].score \in Nat
      BY <1>1
    <2> QED BY <1>7, <1>8, <2>1, <2>2, AssignShape
  <1>10. IsMatching(w, ranked, threshold, Assign(w, ranked, threshold))
    <2>1. n \in Nat /\ m \in Nat /\ DOMAIN ranked = 1 .. m
      BY <1>1, <1>4
    <2>2. \A i \in 1 .. m : ranked[i].box \in Box
      BY <1>1
    <2> QED BY <1>7, <2>1, <2>2, AssignIsGreedy, SMTT(30)
  <1>11. IsMatching(objects, ranked, threshold, Assign(w, ranked, threshold))
    BY <1>4, <1>6, <1>7, <1>10, MatchingOfOrder
  <1> QED BY <1>3, <1>9, <1>11 DEF w, m

\* No object is hit twice, and more detections hit no less.
LEMMA HitsBounded ==
    ASSUME NEW objects \in Seq(Objects), NEW ranked \in Seq(Detections),
           NEW threshold, NEW results, Len(results) = Len(ranked),
           IsMatching(objects, ranked, threshold, results)
    PROVE  /\ Found(results) <= Cardinality({i \in DOMAIN objects : ~objects[i].ignore})
           /\ Cardinality({i \in DOMAIN objects : ~objects[i].ignore}) \in Nat
           /\ Found(results) <= Len(ranked) /\ Found(results) \in Nat
  <1> DEFINE real == {i \in DOMAIN objects : ~objects[i].ignore}
             hits == {j \in DOMAIN ranked : results[j].match = 1}
             n == Len(objects)
             m == Len(ranked)
  <1>1. n \in Nat /\ DOMAIN objects = 1 .. n /\ m \in Nat /\ DOMAIN ranked = 1 .. m
    OBVIOUS
  <1>2. Found(results) = Cardinality(hits)
    BY <1>1 DEF Found, CountOf
  <1>3. PICK g \in [hits -> real] : IsInjective(g)
    BY DEF IsMatching
  <1>4. IsFiniteSet(real) /\ real \in SUBSET (1 .. n)
    <2>1. IsFiniteSet(1 .. n)
      BY <1>1, FS_Interval
    <2>2. real \in SUBSET (1 .. n)
      BY <1>1
    <2> QED BY <2>1, <2>2, FS_Subset
  <1>5. IsFiniteSet(hits) /\ Cardinality(hits) <= m
    <2>1. IsFiniteSet(1 .. m) /\ Cardinality(1 .. m) = m
      BY <1>1, SegmentSize
    <2>2. hits \in SUBSET (1 .. m)
      BY <1>1
    <2> HIDE DEF hits, m
    <2>3. IsFiniteSet(hits) /\ Cardinality(hits) <= Cardinality(1 .. m)
      BY <2>1, <2>2, FS_Subset
    <2> QED BY <2>1, <2>3
  <1> HIDE DEF hits, real
  <1>6. g \in Injection(hits, real)
    BY <1>3 DEF Injection, IsInjective
  <1>7. Cardinality(hits) <= Cardinality(real)
    BY <1>4, <1>6, FS_Injection
  <1> QED BY <1>2, <1>4, <1>5, <1>7, FS_CardinalityType DEF real

-----------------------------------------------------------------------------
(* Average precision.                                                      *)

\* Counting results: one more counts one or nothing, and counts grow.
LEMMA Counts ==
    ASSUME NEW n \in Nat, NEW matches, NEW kind
    PROVE  /\ CountOf(matches, n, kind) \in Nat
           /\ CountOf(matches, 0, kind) = 0
           /\ CountOf(matches, n, kind) <= n
           /\ matches[n + 1].match = kind =>
                 CountOf(matches, n + 1, kind) = CountOf(matches, n, kind) + 1
           /\ matches[n + 1].match # kind =>
                 CountOf(matches, n + 1, kind) = CountOf(matches, n, kind)
           /\ \A k \in 0 .. n : CountOf(matches, k, kind) \in Nat
                                /\ CountOf(matches, k, kind) <= CountOf(matches, n, kind)
  <1> DEFINE S(k) == {i \in 1 .. k : matches[i].match = kind}
  <1>1. \A k \in Nat : IsFiniteSet(1 .. k) /\ Cardinality(1 .. k) = k
    BY FS_Interval
  <1>2. \A k \in Nat : /\ IsFiniteSet(S(k)) /\ Cardinality(S(k)) \in Nat
                       /\ Cardinality(S(k)) <= k
    <2> SUFFICES ASSUME NEW k \in Nat
                 PROVE  /\ IsFiniteSet(S(k)) /\ Cardinality(S(k)) \in Nat
                        /\ Cardinality(S(k)) <= k
      OBVIOUS
    <2>1. S(k) \in SUBSET (1 .. k)
      OBVIOUS
    <2> HIDE DEF S
    <2>2. IsFiniteSet(S(k)) /\ Cardinality(S(k)) <= Cardinality(1 .. k)
      BY <1>1, <2>1, FS_Subset
    <2> QED BY <1>1, <2>2, FS_CardinalityType
  <1>3. Cardinality(S(0)) = 0
    <2>1. Cardinality(S(0)) \in Nat /\ Cardinality(S(0)) <= 0
      BY <1>2
    <2> HIDE DEF S
    <2> QED BY <2>1
  <1>4. Cardinality(S(n + 1)) = Cardinality(S(n)) + IF matches[n + 1].match = kind THEN 1 ELSE 0
    <2>1. n + 1 \notin S(n)
      OBVIOUS
    <2>2. S(n + 1) = IF matches[n + 1].match = kind THEN S(n) \cup {n + 1} ELSE S(n)
      OBVIOUS
    <2> HIDE DEF S
    <2>3. Cardinality(S(n) \cup {n + 1}) = Cardinality(S(n)) + 1
      BY <1>2, <2>1, FS_AddElement
    <2> QED BY <1>2, <2>2, <2>3
  <1>5. \A k \in 0 .. n : Cardinality(S(k)) <= Cardinality(S(n))
    <2> SUFFICES ASSUME NEW k \in 0 .. n PROVE Cardinality(S(k)) <= Cardinality(S(n))
      OBVIOUS
    <2>1. S(k) \in SUBSET S(n)
      OBVIOUS
    <2> HIDE DEF S
    <2> QED BY <1>2, <2>1, FS_Subset
  <1>6. \A k \in Nat : CountOf(matches, k, kind) = Cardinality(S(k))
    BY DEF CountOf
  <1> HIDE DEF S
  <1> QED BY <1>2, <1>3, <1>4, <1>5, <1>6

\* A count is a natural number.
LEMMA CountType ==
    ASSUME NEW n \in Nat, NEW matches, NEW kind
    PROVE  CountOf(matches, n, kind) \in Nat
  BY Counts

\* A hit adds one.
LEMMA CountHit ==
    ASSUME NEW n \in Nat \ {0}, NEW matches, matches[n].match = 1
    PROVE  CountOf(matches, n, 1) = CountOf(matches, n - 1, 1) + 1
  <1> DEFINE k == n - 1
  <1>1. k \in Nat /\ n = k + 1
    OBVIOUS
  <1> HIDE DEF k
  <1>2. matches[k + 1].match = 1
    BY <1>1
  <1>3. CountOf(matches, k + 1, 1) = CountOf(matches, k, 1) + 1
    BY <1>1, <1>2, Counts
  <1>4. CountOf(matches, n, 1) = CountOf(matches, k, 1) + 1
    BY <1>1, <1>3
  <1> QED BY <1>4 DEF k

\* A precision is a fraction, also before anything is counted.
LEMMA PrecisionType ==
    ASSUME NEW n \in Nat, NEW matches
    PROVE  Precision(matches, n) \in Fraction
  <1> DEFINE tp == CountOf(matches, n, 1)
             fp == CountOf(matches, n, 0)
  <1>1. tp \in Nat /\ fp \in Nat
    BY Counts
  <1>2. Precision(matches, n) = <<tp, Greatest(1, tp + fp)>>
    BY DEF Precision
  <1> HIDE DEF tp, fp
  <1> QED BY <1>1, <1>2 DEF Greatest, Fraction

\* The envelope: at each place the best precision from there on.
LEMMA EnvelopeIs ==
    ASSUME NEW n \in Nat, NEW matches, Len(matches) = n
    PROVE  /\ DOMAIN Envelope(matches) = 1 .. n
           /\ \A i \in 1 .. n :
                 /\ Envelope(matches)[i] \in {Precision(matches, k) : k \in i .. n}
                 /\ \A k \in i .. n : AtLeast(Envelope(matches)[i], Precision(matches, k))
  <1> DEFINE Pr(i) == Precision(matches, i)
             F == [w \in (1 .. n) \X Fraction |-> Higher(Pr(w[1]), w[2])]
             e == Envelope(matches)
             Good(i) == /\ e[i] \in {Pr(k) : k \in i .. n}
                        /\ \A k \in i .. n : AtLeast(e[i], Pr(k))
  <1>0. \A i \in 1 .. n : Pr(i) \in Fraction
    BY PrecisionType
  <1>1. F \in [(1 .. n) \X Fraction -> Fraction] /\ <<0, 1>> \in Fraction
    BY <1>0 DEF Higher, Fraction
  <1>2. \A g \in [1 .. n -> Fraction] : Descends(g, n, <<0, 1>>, F) <=>
           g = [i \in 1 .. n |-> Higher(Pr(i), IF i = n THEN <<0, 1>> ELSE g[i + 1])]
    <2> TAKE g \in [1 .. n -> Fraction]
    <2> DEFINE after(i) == IF i = n THEN <<0, 1>> ELSE g[i + 1]
    <2>1. ASSUME NEW i \in 1 .. n PROVE after(i) \in Fraction
      <3>1. i # n => i + 1 \in 1 .. n
        OBVIOUS
      <3> QED BY <1>1, <3>1
    <2>2. \A i \in 1 .. n : F[<<i, after(i)>>] = Higher(Pr(i), after(i))
      <3> HIDE DEF after, Pr
      <3> QED BY <2>1
    <2> HIDE DEF F, Pr
    <2>3. Descends(g, n, <<0, 1>>, F) <=> g = [i \in 1 .. n |-> F[<<i, after(i)>>]]
      BY DEF Descends
    <2> HIDE DEF after
    <2>4. [i \in 1 .. n |-> F[<<i, after(i)>>]] = [i \in 1 .. n |-> Higher(Pr(i), after(i))]
      BY <2>2
    <2> QED BY <2>3, <2>4 DEF after
  <1>3. \E g : g = [i \in 1 .. n |-> Higher(Pr(i), IF i = n THEN <<0, 1>> ELSE g[i + 1])]
    <2>1. \E g \in [1 .. n -> Fraction] : Descends(g, n, <<0, 1>>, F)
      BY <1>1, DescentExists
    <2> QED BY <1>2, <2>1
  <1>4. e = [i \in 1 .. n |-> Higher(Pr(i), IF i = n THEN <<0, 1>> ELSE e[i + 1])]
    BY <1>3 DEF Envelope
  <1>5. /\ DOMAIN e = 1 .. n
        /\ \A i \in 1 .. n : e[i] = Higher(Pr(i), IF i = n THEN <<0, 1>> ELSE e[i + 1])
    <2> HIDE DEF e
    <2> QED BY <1>4
  <1> HIDE DEF e
  <1> DEFINE P == {m \in Nat : m < n => Good(n - m)}
  <1>6. 0 \in P
    <2> SUFFICES ASSUME 0 < n PROVE Good(n)
      OBVIOUS
    <2>1. n \in 1 .. n /\ n .. n = {n}
      OBVIOUS
    <2>2. Pr(n) \in Fraction
      BY <1>0, <2>1
    <2>3. AtLeast(Pr(n), <<0, 1>>) /\ AtLeast(Pr(n), Pr(n))
      BY <2>2 DEF AtLeast, Fraction
    <2>4. e[n] = Pr(n)
      BY <1>5, <2>1, <2>3 DEF Higher
    <2> QED BY <2>1, <2>3, <2>4
  <1>7. ASSUME NEW m \in Nat, m \in P PROVE m + 1 \in P
    <2> SUFFICES ASSUME m + 1 < n PROVE Good(n - (m + 1))
      OBVIOUS
    <2> DEFINE i == n - (m + 1)
    <2>1. i \in 1 .. n /\ i # n /\ i + 1 = n - m /\ i .. n = {i} \cup (i + 1) .. n
          /\ i + 1 \in 1 .. n
      OBVIOUS
    <2>2. Good(i + 1)
      BY <1>7, <2>1
    <2> HIDE DEF i
    <2>3. e[i] = Higher(Pr(i), e[i + 1])
      BY <1>5, <2>1
    <2>4. PICK k \in (i + 1) .. n : e[i + 1] = Pr(k)
      BY <2>2
    <2>5. Pr(i) \in Fraction /\ e[i + 1] \in Fraction /\ \A l \in i .. n : Pr(l) \in Fraction
      <3>1. \A l \in i .. n : l \in 1 .. n
        BY <2>1
      <3> QED BY <1>0, <2>1, <2>4, <3>1
    <2>6. CASE AtLeast(Pr(i), e[i + 1])
      <3>1. e[i] = Pr(i)
        BY <2>3, <2>6 DEF Higher
      <3>2. \A l \in (i + 1) .. n : AtLeast(Pr(i), Pr(l))
        <4> TAKE l \in (i + 1) .. n
        <4>1. AtLeast(e[i + 1], Pr(l)) /\ Pr(l) \in Fraction
          BY <2>1, <2>2, <2>5
        <4> QED BY <2>5, <2>6, <4>1, AtLeastTransitive
      <3>3. AtLeast(Pr(i), Pr(i))
        BY <2>5, AtLeastTotal
      <3> HIDE DEF Pr
      <3>4. i \in i .. n
        BY <2>1
      <3> QED BY <2>1, <3>1, <3>2, <3>3, <3>4 DEF i
    <2>7. CASE ~AtLeast(Pr(i), e[i + 1])
      <3>1. e[i] = e[i + 1]
        BY <2>3, <2>7 DEF Higher
      <3>2. AtLeast(e[i + 1], Pr(i))
        BY <2>5, <2>7, AtLeastTotal
      <3> HIDE DEF Pr
      <3> QED BY <2>1, <2>2, <3>1, <3>2 DEF i
    <2> QED BY <2>6, <2>7
  <1>8. Nat \subseteq P
    <2> HIDE DEF Good
    <2> QED BY <1>6, <1>7, Induction
  <1>9. ASSUME NEW i \in 1 .. n PROVE Good(i)
    <2>1. n - i \in Nat /\ n - i < n /\ n - (n - i) = i
      OBVIOUS
    <2>2. n - i \in P
      BY <1>8, <2>1
    <2> HIDE DEF Good
    <2> QED BY <2>1, <2>2
  <1> QED BY <1>5, <1>9 DEF e

\* _voc_ap takes, at each step of recall, the best precision that is reached with
\* at least that recall: for lists of results of any length.
THEOREM EnvelopeIsBest ==
    ASSUME NEW n \in Nat, NEW matches, DOMAIN matches = 1 .. n, Len(matches) = n
    PROVE  IsAveragePrecision(matches, VocAp(matches))
  <1> DEFINE H == {i \in 1 .. n : matches[i].match = 1}
             e == Envelope(matches)
             N == Cardinality(H)
  <1>1. H \in SUBSET (1 .. n)
    OBVIOUS
  <1>2. /\ DOMAIN e = 1 .. n
        /\ \A i \in 1 .. n : /\ e[i] \in {Precision(matches, k) : k \in i .. n}
                             /\ \A k \in i .. n : AtLeast(e[i], Precision(matches, k))
    BY EnvelopeIs
  <1>3. VocAp(matches) = At(e, H)
    BY DEF VocAp
  <1>4. Found(matches) = N
    BY DEF Found, CountOf
  <1> HIDE DEF e
  <1>5. /\ IsFiniteSet(H) /\ H \in SUBSET Int
        /\ DOMAIN At(e, H) = 1 .. N /\ Len(At(e, H)) = N
        /\ \A r \in 1 .. N : Nth(H, r) \in H /\ At(e, H)[r] = e[Nth(H, r)]
    <2> HIDE DEF H
    <2> QED BY <1>1, <1>2, AtIs
  <1>6. ASSUME NEW r \in 1 .. N
        PROVE  SameFraction(At(e, H)[r], BestPrecision(matches, r))
    <2> DEFINE i == Nth(H, r)
               late == {k \in DOMAIN matches : CountOf(matches, k, 1) >= r}
               Best1(f) == \A k \in late : AtLeast(f, Precision(matches, k))
               S == {Precision(matches, k) : k \in late}
               b == CHOOSE f \in S : Best1(f)
    <2>1. i \in 1 .. n /\ i \in H
      BY <1>1, <1>5
    <2>2. CountOf(matches, i, 1) = r
      <3>1. Cardinality({j \in H : j <= i}) = r
        <4> HIDE DEF H
        <4> QED BY <1>5, NthIs
      <3>2. {j \in H : j <= i} = {j \in 1 .. i : matches[j].match = 1}
        <4> HIDE DEF i
        <4> QED BY <2>1
      <3> QED BY <3>1, <3>2 DEF CountOf
    <2> HIDE DEF i, H
    <2>3. late = i .. n
      <3>1. ASSUME NEW k \in i .. n PROVE k \in 1 .. n /\ CountOf(matches, k, 1) >= r
        <4>1. k \in 1 .. n /\ k \in Nat /\ i \in 0 .. k
          BY <2>1
        <4>2. /\ CountOf(matches, i, 1) <= CountOf(matches, k, 1)
              /\ CountOf(matches, i, 1) \in Nat /\ CountOf(matches, k, 1) \in Nat
          BY <4>1, Counts
        <4> QED BY <2>2, <4>1, <4>2
      <3>2. ASSUME NEW k \in 1 .. n, k < i PROVE CountOf(matches, k, 1) < r
        <4>1. i - 1 \in Nat /\ k \in 0 .. i - 1 /\ (i - 1) + 1 = i
          BY <2>1, <3>2
        <4>2. /\ CountOf(matches, k, 1) <= CountOf(matches, i - 1, 1)
              /\ CountOf(matches, k, 1) \in Nat /\ CountOf(matches, i - 1, 1) \in Nat
          BY <4>1, Counts
        <4>3. matches[i].match = 1 /\ i \in Nat \ {0}
          BY <2>1 DEF H
        <4>4. CountOf(matches, i, 1) = CountOf(matches, i - 1, 1) + 1
          BY <4>3, CountHit
        <4> QED BY <2>2, <4>1, <4>2, <4>4
      <3>3. \A k \in 1 .. n : k \in late <=> k \in i .. n
        <4> TAKE k \in 1 .. n
        <4>1. CASE k < i
          <5>1. CountOf(matches, k, 1) \in Nat
            BY CountType
          <5>2. r \in Int
            BY <2>2, <2>1, Counts
          <5> QED BY <2>1, <3>2, <4>1, <5>1, <5>2
        <4>2. CASE ~(k < i)
          <5>1. k \in i .. n
            BY <2>1, <4>2
          <5> QED BY <3>1, <5>1
        <4> QED BY <4>1, <4>2
      <3>4. late \subseteq 1 .. n /\ i .. n \subseteq 1 .. n
        BY <3>1
      <3> HIDE DEF late
      <3> QED BY <3>3, <3>4
    <2> HIDE DEF late
    <2>4. e[i] \in S /\ Best1(e[i])
      BY <1>2, <2>1, <2>3
    <2>5. b \in S /\ Best1(b)
      <3> HIDE DEF S, Best1
      <3> QED BY <2>4
    <2>6. b = BestPrecision(matches, r)
      BY DEF BestPrecision, late
    <2>7. \A f \in S : f \in Fraction
      <3>1. \A k \in late : k \in Nat
        BY <2>1, <2>3
      <3> QED BY <3>1, PrecisionType
    <2>8. AtLeast(e[i], b) /\ AtLeast(b, e[i]) /\ e[i] \in Fraction /\ b \in Fraction
      <3> HIDE DEF b
      <3> QED BY <2>4, <2>5, <2>7
    <2> HIDE DEF b
    <2>9. SameFraction(e[i], b)
      BY <2>8, SMTT(20) DEF AtLeast, SameFraction, Fraction
    <2> QED BY <1>5, <2>6, <2>9 DEF i
  <1> QED BY <1>3, <1>4, <1>5, <1>6 DEF IsAveragePrecision

-----------------------------------------------------------------------------
(* The length of the union of the intervals of a strip.                    *)

\* A finite set of numbers has a least and a greatest element.
LEMMA Extremes ==
    ASSUME NEW S \in SUBSET Int, IsFiniteSet(S), S # {}
    PROVE  /\ \E m \in S : \A i \in S : m <= i
           /\ \E m \in S : \A i \in S : i <= m
  <1> DEFINE n == Cardinality(S)
             C(i) == Cardinality({j \in S : j <= i})
  <1>1. n \in Nat /\ n # 0
    BY FS_CardinalityType, FS_EmptySet
  <1>2. /\ \A k \in 1 .. n : Nth(S, k) \in S
        /\ \A k, l \in 1 .. n : k < l => Nth(S, k) < Nth(S, l)
        /\ \A i \in S : C(i) \in 1 .. n
        /\ \A i \in S, k \in 1 .. n : Nth(S, k) = i <=> C(i) = k
    BY NthIs
  <1> HIDE DEF C, n
  <1>3. 1 \in 1 .. n /\ n \in 1 .. n
    BY <1>1
  <1>4. \A i \in S : Nth(S, C(i)) = i
    BY <1>2
  <1>5. Nth(S, 1) \in S /\ Nth(S, n) \in S
    BY <1>2, <1>3
  <1>6. ASSUME NEW i \in S PROVE Nth(S, 1) <= i /\ i <= Nth(S, n)
    <2>1. C(i) \in 1 .. n /\ Nth(S, C(i)) = i
      BY <1>2, <1>4
    <2>2. C(i) = 1 \/ 1 < C(i)
      BY <2>1
    <2>3. C(i) = n \/ C(i) < n
      BY <1>1, <2>1
    <2>4. Nth(S, 1) = i \/ Nth(S, 1) < i
      BY <1>2, <1>3, <2>1, <2>2
    <2>5. Nth(S, n) = i \/ i < Nth(S, n)
      BY <1>2, <1>3, <2>1, <2>3
    <2>6. i \in Int /\ Nth(S, 1) \in Int /\ Nth(S, n) \in Int
      BY <1>5
    <2> QED BY <2>4, <2>5, <2>6
  <1> QED BY <1>5, <1>6

\* What an interval covers.
Span(i) == i[1] .. i[2] - 1
Spans(intervals) == UNION {Span(i) : i \in intervals}

\* The intervals in their order.
LEMMA IntervalOrder ==
    ASSUME NEW I \in SUBSET (Int \X Int), IsFiniteSet(I)
    PROVE  /\ Cardinality(I) \in Nat
           /\ \A k \in 1 .. Cardinality(I) : Interval(I, k) \in I
           /\ \A i \in I : \E k \in 1 .. Cardinality(I) : Interval(I, k) = i
           /\ \A k, l \in 1 .. Cardinality(I) :
                 k < l => Interval(I, k)[1] <= Interval(I, l)[1]
  <1> DEFINE below == [i \in I |-> {j \in I : Before(j, i)}]
             C(i) == Cardinality({j \in I : Before(j, i)})
             n == Cardinality(I)
  <1>0. \A i \in I : i[1] \in Int /\ i[2] \in Int /\ i = <<i[1], i[2]>>
    OBVIOUS
  <1>1. Orders(I, below)
    <2>1. \A i \in I : below[i] \in SUBSET I
      OBVIOUS
    <2>2. \A i, j \in I : i \in below[j] <=> Before(i, j)
      OBVIOUS
    <2> HIDE DEF below
    <2>3. \A i \in I : Before(i, i)
      BY <1>0 DEF Before
    <2>4. ASSUME NEW i \in I, NEW j \in I, i # j PROVE Before(i, j) <=> ~Before(j, i)
      <3>1. i[1] # j[1] \/ i[2] # j[2]
        BY <1>0, <2>4
      <3> QED BY <1>0, <3>1 DEF Before
    <2>5. ASSUME NEW i \in I, NEW j \in I, NEW k \in I, Before(i, j), Before(k, i)
          PROVE  Before(k, j)
      BY <1>0, <2>5 DEF Before
    <2>6. \A i, j \in I : i \in below[j] => below[i] \subseteq below[j]
      BY <2>1, <2>2, <2>5
    <2> QED BY <2>1, <2>2, <2>3, <2>4, <2>6 DEF Orders
  <1>2. \A i \in I : Cardinality(below[i]) = C(i)
    OBVIOUS
  <1>3. \A i, j \in I : i \in below[j] <=> Before(i, j)
    OBVIOUS
  <1> HIDE DEF below
  <1>4. Ranked(I, below)
    BY <1>1, Ranking
  <1> HIDE DEF C
  <1>5. /\ n \in Nat
        /\ \A i \in I : C(i) \in 1 .. n
        /\ \A i, j \in I : i # j /\ Before(i, j) => C(i) < C(j)
        /\ \A i, j \in I : C(i) = C(j) => i = j
        /\ \A k \in 1 .. n : \E i \in I : C(i) = k
    BY <1>2, <1>3, <1>4 DEF Ranked
  <1>6. \A k \in 1 .. n : Interval(I, k) \in I /\ C(Interval(I, k)) = k
    BY <1>5 DEF Interval, C
  <1> HIDE DEF n
  <1>7. \A i \in I : \E k \in 1 .. n : Interval(I, k) = i
    BY <1>5, <1>6
  <1>8. ASSUME NEW k \in 1 .. n, NEW l \in 1 .. n, k < l
        PROVE  Interval(I, k)[1] <= Interval(I, l)[1]
    <2> DEFINE i == Interval(I, k)
               j == Interval(I, l)
    <2>1. i \in I /\ j \in I /\ C(i) = k /\ C(j) = l
      BY <1>6
    <2> HIDE DEF i, j
    <2>2. ~Before(j, i)
      <3>1. j # i /\ Before(j, i) => l < k
        BY <1>5, <2>1
      <3>2. j # i
        BY <1>5, <1>8, <2>1
      <3> QED BY <1>5, <1>8, <3>1, <3>2
    <2>3. i[1] <= j[1]
      BY <1>0, <2>1, <2>2 DEF Before
    <2> QED BY <2>3 DEF i, j
  <1> QED BY <1>5, <1>6, <1>7, <1>8 DEF n

\* What the loop over the intervals knows after k of them.
StretchRecord == [sum : Int, start : Int, end : Int]
First(I, k) == {Interval(I, j) : j \in 1 .. k}
Merged(I, k, m) ==
    /\ m \in StretchRecord /\ m.start < m.end
    /\ m.start <= Interval(I, k)[1]
    /\ IsFiniteSet(Spans(First(I, k)))
    /\ Cardinality(Spans(First(I, k))) = m.sum + (m.end - m.start)
    /\ m.start .. m.end - 1 \subseteq Spans(First(I, k))
    /\ \A y \in Spans(First(I, k)) : y \in Int /\ y < m.end

\* One turn of the loop.
MergeOne(m, i) ==
    IF i[1] > m.end
    THEN [sum |-> m.sum + (m.end - m.start), start |-> i[1], end |-> i[2]]
    ELSE [m EXCEPT !.end = Greatest(@, i[2])]

\* One turn of the loop covers one interval more.
LEMMA MergedNext ==
    ASSUME NEW I \in SUBSET (Int \X Int), IsFiniteSet(I), \A i \in I : i[1] < i[2],
           NEW k \in Nat, k \in 1 .. Cardinality(I), k + 1 \in 1 .. Cardinality(I),
           NEW m, Merged(I, k, m)
    PROVE  Merged(I, k + 1, MergeOne(m, Interval(I, k + 1)))
  <1> DEFINE i == Interval(I, k + 1)
             U == Spans(First(I, k))
             W == Spans(First(I, k + 1))
             e == MergeOne(m, i)
  <1>1. i \in I /\ i[1] \in Int /\ i[2] \in Int /\ i[1] < i[2]
    BY IntervalOrder
  <1>2. W = U \cup Span(i)
    <2>1. First(I, k + 1) = First(I, k) \cup {i}
      <3>1. 1 .. k + 1 = 1 .. k \cup {k + 1}
        OBVIOUS
      <3> QED BY <3>1 DEF First
    <2> QED BY <2>1 DEF Spans
  <1>3. m.start <= i[1]
    <2> DEFINE h == Interval(I, k)
    <2>1. h[1] <= i[1]
      <3>1. k < k + 1
        OBVIOUS
      <3> QED BY <3>1, IntervalOrder
    <2>2. h[1] \in Int
      BY IntervalOrder
    <2>3. m.start <= h[1] /\ m.start \in Int
      BY DEF Merged, StretchRecord
    <2> HIDE DEF h, i
    <2> QED BY <1>1, <2>1, <2>2, <2>3
  <1>4. /\ m.sum \in Int /\ m.start \in Int /\ m.end \in Int /\ m.start < m.end
        /\ IsFiniteSet(U) /\ Cardinality(U) = m.sum + (m.end - m.start)
        /\ m.start .. m.end - 1 \subseteq U
        /\ \A y \in U : y \in Int /\ y < m.end
    BY DEF Merged, StretchRecord
  <1>5. Span(i) = i[1] .. i[2] - 1
    BY DEF Span
  <1> HIDE DEF U, W
  <1>6. CASE i[1] > m.end
    <2>1. e = [sum |-> m.sum + (m.end - m.start), start |-> i[1], end |-> i[2]]
      BY <1>6 DEF MergeOne
    <2> HIDE DEF i, e
    <2>2. U \cap Span(i) = {}
      BY <1>1, <1>4, <1>5, <1>6
    <2>3. IsFiniteSet(Span(i)) /\ Cardinality(Span(i)) = i[2] - i[1]
      <3>1. /\ IsFiniteSet(i[1] .. i[2] - 1)
            /\ Cardinality(i[1] .. i[2] - 1) = i[2] - i[1]
        BY <1>1, SpanSize
      <3> QED BY <1>5, <3>1
    <2>4. IsFiniteSet(W) /\ Cardinality(W) = Cardinality(U) + (i[2] - i[1])
      <3>1. /\ IsFiniteSet(U \cup Span(i))
            /\ Cardinality(U \cup Span(i))
                  = Cardinality(U) + Cardinality(Span(i)) - Cardinality(U \cap Span(i))
        BY <1>4, <2>3, FS_Union
      <3>2. Cardinality(U \cap Span(i)) = 0
        BY <2>2, FS_EmptySet
      <3> QED BY <1>1, <1>2, <1>4, <2>3, <3>1, <3>2
    <2>5. /\ e \in StretchRecord /\ e.start = i[1] /\ e.end = i[2]
          /\ e.sum = m.sum + (m.end - m.start)
      BY <1>1, <1>4, <2>1 DEF StretchRecord
    <2>6. i[1] .. i[2] - 1 \subseteq W
      BY <1>2, <1>5
    <2>7. \A y \in W : y \in Int /\ y < i[2]
      BY <1>1, <1>2, <1>4, <1>5, <1>6
    <2>8. Cardinality(W) = e.sum + (e.end - e.start)
      BY <1>4, <2>4, <2>5
    <2> QED BY <1>1, <2>4, <2>5, <2>6, <2>7, <2>8 DEF Merged, W, i, e
  <1>7. CASE ~(i[1] > m.end)
    <2> DEFINE z == Greatest(m.end, i[2])
               D == m.end .. z - 1
    <2>1. e = [m EXCEPT !.end = z]
      BY <1>7 DEF MergeOne
    <2>2. z \in Int /\ m.end <= z /\ i[2] <= z /\ (z = m.end \/ z = i[2])
      <3> HIDE DEF i
      <3> QED BY <1>1, <1>4 DEF Greatest
    <2> HIDE DEF i, e, z
    <2>3. U \cap D = {}
      BY <1>4, <2>2
    <2>4. W = U \cup D
      <3>1. \A y \in D : y \in Span(i)
        BY <1>1, <1>4, <1>5, <1>7, <2>2
      <3>2. \A y \in Span(i) : y \in U \/ y \in D
        <4> TAKE y \in Span(i)
        <4>1. y \in Int /\ i[1] <= y /\ y < i[2]
          BY <1>1, <1>5
        <4>2. CASE y < m.end
          <5>1. y \in m.start .. m.end - 1
            BY <1>1, <1>3, <1>4, <4>1, <4>2
          <5> QED BY <1>4, <5>1
        <4>3. CASE ~(y < m.end)
          <5>1. y \in D
            BY <1>1, <1>4, <2>2, <4>1, <4>3
          <5> QED BY <5>1
        <4> QED BY <4>2, <4>3
      <3> HIDE DEF D
      <3> QED BY <1>2, <3>1, <3>2
    <2>5. IsFiniteSet(D) /\ Cardinality(D) = z - m.end
      BY <1>4, <2>2, SpanSize
    <2>6. IsFiniteSet(W) /\ Cardinality(W) = Cardinality(U) + (z - m.end)
      <3> HIDE DEF D
      <3>1. /\ IsFiniteSet(U \cup D)
            /\ Cardinality(U \cup D)
                  = Cardinality(U) + Cardinality(D) - Cardinality(U \cap D)
        BY <1>4, <2>5, FS_Union
      <3>2. Cardinality(U \cap D) = 0
        BY <2>3, FS_EmptySet
      <3> QED BY <1>4, <2>2, <2>4, <2>5, <3>1, <3>2
    <2>7. /\ e \in StretchRecord /\ e.start = m.start /\ e.end = z /\ e.sum = m.sum
      <3>1. m \in StretchRecord
        BY DEF Merged
      <3> QED BY <1>4, <2>1, <2>2, <3>1 DEF StretchRecord
    <2>8. m.start .. z - 1 \subseteq W
      <3> SUFFICES ASSUME NEW y \in m.start .. z - 1 PROVE y \in W
        OBVIOUS
      <3>1. y \in m.start .. m.end - 1 \/ y \in D
        BY <1>4, <2>2
      <3> HIDE DEF D
      <3> QED BY <1>4, <2>4, <3>1
    <2>9. \A y \in W : y \in Int /\ y < z
      BY <1>4, <2>2, <2>4
    <2>10. Cardinality(W) = e.sum + (e.end - e.start)
      BY <1>4, <2>2, <2>6, <2>7
    <2>11. e.start < e.end
      BY <1>4, <2>2, <2>7
    <2> QED BY <1>3, <2>6, <2>7, <2>8, <2>9, <2>10, <2>11 DEF Merged, W, i, e
  <1> QED BY <1>6, <1>7

\* The loop over the sorted intervals measures their union.
LEMMA HeightIsUnion ==
    ASSUME NEW I \in SUBSET (Int \X Int), IsFiniteSet(I), \A i \in I : i[1] < i[2]
    PROVE  IsFiniteSet(Spans(I)) /\ CoveredHeight(I) = Cardinality(Spans(I))
  <1> DEFINE n == Cardinality(I)
             V == StretchRecord
             base == [sum |-> 0, start |-> Interval(I, 1)[1], end |-> Interval(I, 1)[2]]
             F == [w \in (1 .. n) \X V |-> MergeOne(w[2], Interval(I, w[1]))]
             IsChain(g) == g = [k \in 1 .. n |->
                              IF k = 1
                              THEN [sum |-> 0, start |-> Interval(I, k)[1],
                                    end |-> Interval(I, k)[2]]
                              ELSE MergeOne(g[k - 1], Interval(I, k))]
             merged == CHOOSE g : IsChain(g)
  <1>0. n \in Nat /\ (n = 0 <=> I = {})
    BY FS_CardinalityType, FS_EmptySet
  <1>1. CASE I = {}
    <2>1. CoveredHeight(I) = 0
      BY <1>1 DEF CoveredHeight
    <2>2. Spans(I) = {}
      BY <1>1 DEF Spans
    <2> QED BY <2>1, <2>2, FS_EmptySet
  <1>2. CASE I # {}
    <2>1. \A k \in 1 .. n : /\ Interval(I, k) \in I
                            /\ Interval(I, k)[1] \in Int /\ Interval(I, k)[2] \in Int
                            /\ Interval(I, k)[1] < Interval(I, k)[2]
      BY IntervalOrder
    <2>2. CoveredHeight(I) = merged[n].sum + (merged[n].end - merged[n].start)
      BY <1>2 DEF CoveredHeight, MergeOne
    <2>3. 1 \in 1 .. n
      BY <1>0, <1>2
    <2>4. \A m \in V, k \in 1 .. n : MergeOne(m, Interval(I, k)) \in V
      <3> SUFFICES ASSUME NEW m \in V, NEW k \in 1 .. n, NEW i, i = Interval(I, k)
                   PROVE  MergeOne(m, i) \in V
        OBVIOUS
      <3>1. i[1] \in Int /\ i[2] \in Int /\ m.sum \in Int /\ m.start \in Int /\ m.end \in Int
        BY <2>1 DEF StretchRecord
      <3>2. Greatest(m.end, i[2]) \in Int /\ m.sum + (m.end - m.start) \in Int
        BY <3>1 DEF Greatest
      <3> QED BY <3>1, <3>2 DEF MergeOne, StretchRecord
    <2>5. base \in V
      BY <2>1, <2>3 DEF StretchRecord
    <2>6. F \in [(1 .. n) \X V -> V]
      <3> HIDE DEF V
      <3> QED BY <2>4
    <2>7. \A k \in 1 .. n, m \in V : F[<<k, m>>] = MergeOne(m, Interval(I, k))
      OBVIOUS
    <2> HIDE DEF F, base, n, V
    <2>8. PICK g \in [1 .. n -> V] : Climbs(g, n, base, F)
      BY <1>0, <2>5, <2>6, ClimbExists
    <2>9. IsChain(g)
      <3>1. \A k \in 1 .. n : k # 1 => k - 1 \in 1 .. n
        BY <1>0
      <3>2. \A k \in 1 .. n : g[k] = IF k = 1 THEN base ELSE F[<<k, g[k - 1]>>]
        BY <2>8 DEF Climbs
      <3>3. \A k \in 1 .. n :
               g[k] = IF k = 1
                      THEN [sum |-> 0, start |-> Interval(I, k)[1],
                            end |-> Interval(I, k)[2]]
                      ELSE MergeOne(g[k - 1], Interval(I, k))
        BY <2>7, <3>1, <3>2 DEF base
      <3> QED BY <3>3
    <2>10. IsChain(merged)
      <3> HIDE DEF IsChain
      <3> QED BY <2>9
    <2>11. \A k \in 1 .. n :
               merged[k] = IF k = 1
                           THEN [sum |-> 0, start |-> Interval(I, k)[1],
                                 end |-> Interval(I, k)[2]]
                           ELSE MergeOne(merged[k - 1], Interval(I, k))
      <3> HIDE DEF merged
      <3> QED BY <2>10
    <2> HIDE DEF merged
    <2> DEFINE P == {k \in Nat : k + 1 <= n => Merged(I, k + 1, merged[k + 1])}
    <2>12. 0 \in P
      <3> DEFINE i == Interval(I, 1)
                 m == merged[1]
      <3>1. m = [sum |-> 0, start |-> i[1], end |-> i[2]]
        BY <2>3, <2>11
      <3>2. i[1] \in Int /\ i[2] \in Int /\ i[1] < i[2]
        BY <2>1, <2>3
      <3>3. Spans(First(I, 1)) = Span(i)
        <4>1. First(I, 1) = {i}
          BY DEF First
        <4> QED BY <4>1 DEF Spans
      <3>4. Span(i) = i[1] .. i[2] - 1
        BY DEF Span
      <3> HIDE DEF i, m
      <3>5. IsFiniteSet(i[1] .. i[2] - 1) /\ Cardinality(i[1] .. i[2] - 1) = 0 + (i[2] - i[1])
        <4>1. /\ IsFiniteSet(i[1] .. i[2] - 1)
              /\ Cardinality(i[1] .. i[2] - 1) = i[2] - i[1]
          BY <3>2, SpanSize
        <4> QED BY <3>2, <4>1
      <3>6. m \in StretchRecord /\ m.sum = 0 /\ m.start = i[1] /\ m.end = i[2]
        BY <3>1, <3>2 DEF StretchRecord
      <3>7. \A y \in i[1] .. i[2] - 1 : y \in Int /\ y < i[2]
        BY <3>2
      <3>8. i = Interval(I, 1)
        BY DEF i
      <3>9. Merged(I, 1, m)
        BY <3>2, <3>3, <3>4, <3>5, <3>6, <3>7, <3>8 DEF Merged
      <3> QED BY <3>9 DEF m
    <2>13. ASSUME NEW k \in Nat, k \in P PROVE k + 1 \in P
      <3> SUFFICES ASSUME (k + 1) + 1 <= n
                   PROVE  Merged(I, (k + 1) + 1, merged[(k + 1) + 1])
        OBVIOUS
      <3> DEFINE l == k + 1
      <3>1. l \in Nat /\ l \in 1 .. n /\ l + 1 \in 1 .. n /\ l + 1 # 1 /\ (l + 1) - 1 = l
        BY <1>0
      <3>2. Merged(I, l, merged[l])
        BY <1>0, <2>13
      <3> HIDE DEF l
      <3>3. merged[l + 1] = MergeOne(merged[l], Interval(I, l + 1))
        BY <2>11, <3>1
      <3>4. Merged(I, l + 1, MergeOne(merged[l], Interval(I, l + 1)))
        BY <3>1, <3>2, MergedNext DEF n
      <3> QED BY <3>3, <3>4 DEF l
    <2>14. Nat \subseteq P
      BY <2>12, <2>13, Induction
    <2>15. Merged(I, n, merged[n])
      <3>1. n - 1 \in Nat /\ (n - 1) + 1 = n /\ n <= n
        BY <1>0, <1>2
      <3>2. n - 1 \in P
        BY <2>14, <3>1
      <3> QED BY <3>1, <3>2
    <2>16. First(I, n) = I
      BY <2>1, IntervalOrder DEF First, n
    <2> QED BY <2>2, <2>15, <2>16 DEF Merged
  <1> QED BY <1>1, <1>2

-----------------------------------------------------------------------------
(* The sweep over the strips.                                              *)

\* Clipped regions, and the pixels they have.
Clips == [l : Int, t : Int, r : Int, b : Int]
Valid(clipped) ==
    /\ clipped \in SUBSET Clips /\ IsFiniteSet(clipped)
    /\ \A c \in clipped : c.l < c.r /\ c.t < c.b
Pixels(c) == (c.l .. c.r - 1) \X (c.t .. c.b - 1)

\* What reaches into the strip between two edges.
Reaching(clipped, l, r) == {c \in clipped : c.l < r /\ c.r > l}
Intervals(clipped, l, r) == {<<c.t, c.b>> : c \in Reaching(clipped, l, r)}

\* There are finitely many edges.
LEMMA EdgesFinite ==
    ASSUME NEW C, Valid(C)
    PROVE  Edges(C) \in SUBSET Int /\ IsFiniteSet(Edges(C))
  <1>1. \A c \in C : c.l \in Int /\ c.r \in Int
    BY DEF Valid, Clips
  <1> DEFINE f == [c \in C |-> c.l]
             g == [c \in C |-> c.r]
             F == {f[c] : c \in C}
             G == {g[c] : c \in C}
  <1>2. Edges(C) = F \cup G
    BY DEF Edges
  <1>3. IsFiniteSet(C)
    BY DEF Valid
  <1>4. IsFiniteSet(F) /\ IsFiniteSet(G)
    <2> HIDE DEF f, g
    <2> QED BY <1>3, ImageIsFinite
  <1>5. F \cup G \in SUBSET Int
    BY <1>1
  <1> HIDE DEF F, G
  <1> QED BY <1>2, <1>4, <1>5, FS_Union

\* The next edge is the nearest one on the right.
LEMMA NextEdgeIs ==
    ASSUME NEW E \in SUBSET Int, IsFiniteSet(E), NEW x \in E, \E y \in E : y > x
    PROVE  /\ NextEdge(E, x) \in E /\ NextEdge(E, x) > x
           /\ \A y \in E : y > x => NextEdge(E, x) <= y
  <1> DEFINE S == {y \in E : y > x}
  <1>1. S \in SUBSET Int /\ S # {} /\ S \in SUBSET E
    OBVIOUS
  <1>2. IsFiniteSet(S)
    BY <1>1, FS_Subset
  <1>3. NextEdge(E, x) = Min(S)
    BY DEF NextEdge
  <1>4. \A y \in E : y > x <=> y \in S
    OBVIOUS
  <1> HIDE DEF S
  <1>5. Min(S) \in S /\ \A y \in S : Min(S) <= y
    <2>1. \E m \in S : \A i \in S : m <= i
      BY <1>1, <1>2, Extremes
    <2> QED BY <2>1 DEF Min
  <1> QED BY <1>1, <1>3, <1>4, <1>5

\* A strip between two neighbouring edges is covered over its whole width.
LEMMA StripIs ==
    ASSUME NEW C, Valid(C), NEW x \in Edges(C), \E y \in Edges(C) : y > x,
           NEW r, r = NextEdge(Edges(C), x)
    PROVE  LET G == (x .. r - 1) \X Spans(Intervals(C, x, r))
           IN  /\ IsFiniteSet(G) /\ Strip(C, x, r) = Cardinality(G)
               /\ \A p : p \in G <=> /\ p \in UNION {Pixels(c) : c \in C}
                                     /\ x <= p[1] /\ p[1] < r
  <1> DEFINE I == Intervals(C, x, r)
             G == (x .. r - 1) \X Spans(I)
  <1>1. /\ x \in Int /\ r \in Int /\ x < r /\ \A y \in Edges(C) : y > x => r <= y
    BY EdgesFinite, NextEdgeIs
  <1>2. \A c \in C : /\ c.l \in Int /\ c.t \in Int /\ c.r \in Int /\ c.b \in Int
                     /\ c.l < c.r /\ c.t < c.b
                     /\ c.l \in Edges(C) /\ c.r \in Edges(C)
    BY DEF Valid, Clips, Edges
  <1>3. I \in SUBSET (Int \X Int) /\ \A i \in I : i[1] < i[2]
    BY <1>2 DEF Intervals, Reaching
  <1>4. IsFiniteSet(I)
    <2> DEFINE R == Reaching(C, x, r)
               f == [c \in C |-> <<c.t, c.b>>]
    <2>1. R \in SUBSET C /\ IsFiniteSet(C)
      BY DEF Reaching, Valid
    <2>2. IsFiniteSet(R)
      BY <2>1, FS_Subset
    <2>3. I = {f[c] : c \in R}
      BY <2>1 DEF Intervals
    <2> HIDE DEF R, I, f
    <2> QED BY <2>2, <2>3, ImageIsFinite
  <1>5. Strip(C, x, r) = (r - x) * CoveredHeight(I)
    BY DEF Strip, Intervals, Reaching
  <1> HIDE DEF I
  <1>6. IsFiniteSet(Spans(I)) /\ CoveredHeight(I) = Cardinality(Spans(I))
    BY <1>3, <1>4, HeightIsUnion
  <1>7. IsFiniteSet(G) /\ Cardinality(G) = (r - x) * Cardinality(Spans(I))
    <2> DEFINE S == x .. r - 1
    <2>1. IsFiniteSet(S) /\ Cardinality(S) = r - x
      BY <1>1, SpanSize
    <2> HIDE DEF S
    <2>2. /\ IsFiniteSet(S \X Spans(I))
          /\ Cardinality(S \X Spans(I)) = Cardinality(S) * Cardinality(Spans(I))
      BY <1>6, <2>1, FS_Product
    <2>3. G = S \X Spans(I)
      BY DEF S
    <2> HIDE DEF G
    <2> QED BY <2>1, <2>2, <2>3
  <1>8. ASSUME NEW y \in Int, NEW z
        PROVE  x <= y /\ y < r /\ z \in Spans(I) <=>
               x <= y /\ y < r /\ \E c \in C : <<y, z>> \in Pixels(c)
    <2>1. z \in Spans(I) <=> \E c \in C : c.l < r /\ c.r > x /\ z \in c.t .. c.b - 1
      <3>1. \A c \in C : Span(<<c.t, c.b>>) = c.t .. c.b - 1
        BY DEF Span
      <3>2. \A i : i \in I <=> \E c \in C : c.l < r /\ c.r > x /\ i = <<c.t, c.b>>
        BY DEF I, Intervals, Reaching
      <3>3. z \in Spans(I) <=> \E i \in I : z \in Span(i)
        BY DEF Spans
      <3> QED BY <3>1, <3>2, <3>3, ZenonT(30)
    <2>2. \A c \in C : <<y, z>> \in Pixels(c) <=>
                          c.l <= y /\ y < c.r /\ z \in c.t .. c.b - 1
      <3> TAKE c \in C
      <3>1. y \in c.l .. c.r - 1 <=> c.l <= y /\ y < c.r
        BY <1>2
      <3> QED BY <3>1 DEF Pixels
    <2>3. ASSUME x <= y, y < r, NEW c \in C
          PROVE  c.l < r /\ c.r > x <=> c.l <= y /\ y < c.r
      <3>1. c.l > x => r <= c.l
        BY <1>1, <1>2
      <3>2. c.r > x => r <= c.r
        BY <1>1, <1>2
      <3>3. c.l \in Int /\ c.r \in Int
        BY <1>2
      <3> QED BY <1>1, <2>3, <3>1, <3>2, <3>3
    <2> QED BY <2>1, <2>2, <2>3
  <1>9. ASSUME NEW p PROVE p \in G <=> /\ p \in UNION {Pixels(c) : c \in C}
                                       /\ x <= p[1] /\ p[1] < r
    <2>1. ASSUME p \in G PROVE p = <<p[1], p[2]>> /\ p[1] \in Int
      BY <1>1, <2>1
    <2>2. ASSUME p \in UNION {Pixels(c) : c \in C} PROVE p = <<p[1], p[2]>> /\ p[1] \in Int
      <3>1. PICK c \in C : p \in Pixels(c)
        BY <2>2
      <3>2. p[1] \in c.l .. c.r - 1 /\ p = <<p[1], p[2]>>
        BY <3>1 DEF Pixels
      <3> QED BY <1>2, <3>2
    <2>3. ASSUME p = <<p[1], p[2]>>, p[1] \in Int
          PROVE p \in G <=> x <= p[1] /\ p[1] < r /\ p[2] \in Spans(I)
      <3>1. p \in G <=> p[1] \in x .. r - 1 /\ p[2] \in Spans(I)
        BY <2>3
      <3> QED BY <1>1, <2>3, <3>1
    <2>4. p \in UNION {Pixels(c) : c \in C} <=> \E c \in C : p \in Pixels(c)
      OBVIOUS
    <2> HIDE DEF G
    <2> QED BY <1>8, <2>1, <2>2, <2>3, <2>4
  <1> QED BY <1>5, <1>6, <1>7, <1>9 DEF I

\* What the regions cover of a box, from the clipped regions.
LEMMA CoveredIsClipped ==
    ASSUME NEW box \in Boxes, NEW n \in Nat, NEW regions, DOMAIN regions = 1 .. n,
           \A i \in 1 .. n : regions[i] \in Boxes
    PROVE  /\ Valid(ClippedTo(box, regions))
           /\ Covered(box, regions) = UNION {Pixels(c) : c \in ClippedTo(box, regions)}
  <1> DEFINE C == ClippedTo(box, regions)
             c(i) == Clip(box, regions[i])
             f == [i \in 1 .. n |-> c(i)]
             D == {f[i] : i \in 1 .. n}
  <1>0. /\ box.x \in Int /\ box.y \in Int /\ box.w \in Int /\ box.h \in Int
        /\ \A i \in 1 .. n : /\ regions[i].x \in Int /\ regions[i].y \in Int
                             /\ regions[i].w \in Int /\ regions[i].h \in Int
    BY DEF Boxes
  <1>1. \A i \in 1 .. n :
           /\ c(i) \in Clips
           /\ c(i).l = Greatest(box.x, regions[i].x)
           /\ c(i).t = Greatest(box.y, regions[i].y)
           /\ c(i).r = Least(box.x + box.w, regions[i].x + regions[i].w)
           /\ c(i).b = Least(box.y + box.h, regions[i].y + regions[i].h)
    BY <1>0, SMTT(20) DEF Clip, Clips, Greatest, Least
  <1>2. C = {e \in D : e.l < e.r /\ e.t < e.b}
    BY DEF ClippedTo, ToSet
  <1>3. IsFiniteSet(D)
    <2> DEFINE S == 1 .. n
    <2>1. IsFiniteSet(S)
      BY FS_Interval
    <2> HIDE DEF S, f
    <2>2. IsFiniteSet({f[i] : i \in S})
      BY <2>1, ImageIsFinite
    <2> QED BY <2>2 DEF S
  <1>4. D \in SUBSET Clips
    BY <1>1
  <1>5. Valid(C)
    <2> HIDE DEF D, C
    <2>1. C \in SUBSET D
      BY <1>2
    <2>2. IsFiniteSet(C)
      BY <1>3, <2>1, FS_Subset
    <2> QED BY <1>2, <1>4, <2>1, <2>2 DEF Valid
  <1>6. ASSUME NEW p \in Int \X Int
        PROVE  p \in Covered(box, regions) <=> \E e \in C : p \in Pixels(e)
    <2> DEFINE In(i) == /\ box.x <= p[1] /\ p[1] < box.x + box.w
                        /\ box.y <= p[2] /\ p[2] < box.y + box.h
                        /\ regions[i].x <= p[1] /\ p[1] < regions[i].x + regions[i].w
                        /\ regions[i].y <= p[2] /\ p[2] < regions[i].y + regions[i].h
    <2>1. p \in Covered(box, regions) <=> \E i \in 1 .. n : In(i)
      <3>1. p \in (box.x .. box.x + box.w - 1) \X (box.y .. box.y + box.h - 1) <=>
               /\ box.x <= p[1] /\ p[1] < box.x + box.w
               /\ box.y <= p[2] /\ p[2] < box.y + box.h
        <4>1. p = <<p[1], p[2]>> /\ p[1] \in Int /\ p[2] \in Int
          OBVIOUS
        <4>2. p[1] \in box.x .. box.x + box.w - 1 <=> box.x <= p[1] /\ p[1] < box.x + box.w
          BY <1>0, <4>1
        <4>3. p[2] \in box.y .. box.y + box.h - 1 <=> box.y <= p[2] /\ p[2] < box.y + box.h
          BY <1>0, <4>1
        <4> QED BY <4>1, <4>2, <4>3
      <3>2. p \in Covered(box, regions) <=>
               /\ p \in (box.x .. box.x + box.w - 1) \X (box.y .. box.y + box.h - 1)
               /\ \E i \in 1 .. n :
                     /\ regions[i].x <= p[1] /\ p[1] < regions[i].x + regions[i].w
                     /\ regions[i].y <= p[2] /\ p[2] < regions[i].y + regions[i].h
        BY DEF Covered
      <3> QED BY <3>1, <3>2
    <2>2. \A i \in 1 .. n : In(i) <=> c(i).l < c(i).r /\ c(i).t < c(i).b /\ p \in Pixels(c(i))
      <3> TAKE i \in 1 .. n
      <3> DEFINE e == c(i)
                 R == regions[i]
      <3>1. e.l \in Int /\ e.r \in Int /\ e.t \in Int /\ e.b \in Int
        BY <1>1 DEF Clips
      <3>2. p = <<p[1], p[2]>> /\ p[1] \in Int /\ p[2] \in Int
        OBVIOUS
      <3>3. /\ e.l <= p[1] <=> box.x <= p[1] /\ R.x <= p[1]
            /\ e.t <= p[2] <=> box.y <= p[2] /\ R.y <= p[2]
            /\ p[1] < e.r <=> p[1] < box.x + box.w /\ p[1] < R.x + R.w
            /\ p[2] < e.b <=> p[2] < box.y + box.h /\ p[2] < R.y + R.h
        <4>1. \A a, b, q \in Int : (Greatest(a, b) <= q <=> a <= q /\ b <= q)
                                   /\ (q < Least(a, b) <=> q < a /\ q < b)
          BY DEF Greatest, Least
        <4>2. /\ box.x + box.w \in Int /\ box.y + box.h \in Int /\ R.x \in Int /\ R.y \in Int
              /\ R.x + R.w \in Int /\ R.y + R.h \in Int
          <5>1. R.x \in Int /\ R.y \in Int /\ R.w \in Int /\ R.h \in Int
            BY <1>0
          <5> HIDE DEF R
          <5> QED BY <1>0, <5>1, SMTT(20)
        <4>3. /\ e.l = Greatest(box.x, R.x) /\ e.t = Greatest(box.y, R.y)
              /\ e.r = Least(box.x + box.w, R.x + R.w)
              /\ e.b = Least(box.y + box.h, R.y + R.h)
          BY <1>1
        <4> HIDE DEF e, R
        <4> QED BY <1>0, <3>2, <4>1, <4>2, <4>3
      <3> HIDE DEF e, R
      <3>4. p \in Pixels(e) <=> e.l <= p[1] /\ p[1] < e.r /\ e.t <= p[2] /\ p[2] < e.b
        <4>1. p[1] \in e.l .. e.r - 1 <=> e.l <= p[1] /\ p[1] < e.r
          BY <3>1, <3>2
        <4>2. p[2] \in e.t .. e.b - 1 <=> e.t <= p[2] /\ p[2] < e.b
          BY <3>1, <3>2
        <4> QED BY <3>2, <4>1, <4>2 DEF Pixels
      <3>5. p \in Pixels(e) => e.l < e.r /\ e.t < e.b
        BY <3>1, <3>2, <3>4
      <3>6. In(i) <=> p \in Pixels(e)
        BY <3>3, <3>4 DEF R
      <3> QED BY <3>5, <3>6 DEF e
    <2>3. \A e : e \in C <=> \E i \in 1 .. n : e = c(i) /\ e.l < e.r /\ e.t < e.b
      <3>1. \A e : e \in D <=> \E i \in 1 .. n : e = c(i)
        OBVIOUS
      <3> HIDE DEF D, C
      <3> QED BY <1>2, <3>1
    <2> HIDE DEF In, C, c
    <2> QED BY <2>1, <2>2, <2>3
  <1>7. \A p \in Covered(box, regions) : p \in Int \X Int
    BY <1>0 DEF Covered
  <1>8. \A e \in C : \A p \in Pixels(e) : p \in Int \X Int
    BY <1>5 DEF Valid, Clips, Pixels
  <1> HIDE DEF C
  <1>9. Covered(box, regions) = UNION {Pixels(e) : e \in C}
    BY <1>6, <1>7, <1>8
  <1> QED BY <1>5, <1>9 DEF C

\* _covered_area measures the union of the regions inside the box: for boxes and
\* regions of any size, any number of regions and any overlaps among them.
THEOREM SweepIsUnion ==
    ASSUME NEW box \in Boxes, NEW n \in Nat, NEW regions, DOMAIN regions = 1 .. n,
           \A i \in 1 .. n : regions[i] \in Boxes
    PROVE  CoveredArea(box, regions) = Cardinality(Covered(box, regions))
  <1> DEFINE C == ClippedTo(box, regions)
             E == Edges(C)
             L == {x \in E : \E y \in E : y > x}
             d == [x \in L |-> Strip(C, x, NextEdge(E, x))]
             F == [x \in L |-> (x .. NextEdge(E, x) - 1)
                                 \X Spans(Intervals(C, x, NextEdge(E, x)))]
             U == UNION {Pixels(c) : c \in C}
  <1>1. Valid(C) /\ Covered(box, regions) = U
    BY CoveredIsClipped
  <1>2. CoveredArea(box, regions) = SumFunction(d)
    BY DEF CoveredArea
  <1>3. SumFunction(d) = SumFunctionOnSet(d, L)
    BY DEF SumFunction
  <1> HIDE DEF C, U
  <1>4. E \in SUBSET Int /\ IsFiniteSet(E)
    BY <1>1, EdgesFinite
  <1>5. L \in SUBSET E /\ \A x \in L : x \in E /\ \E y \in E : y > x
    OBVIOUS
  <1>6. IsFiniteSet(L)
    BY <1>4, <1>5, FS_Subset
  <1>7. ASSUME NEW x \in L
        PROVE  /\ IsFiniteSet(F[x]) /\ d[x] = Cardinality(F[x])
               /\ \A p : p \in F[x] <=> p \in U /\ x <= p[1] /\ p[1] < NextEdge(E, x)
    <2>1. x \in Edges(C) /\ \E y \in Edges(C) : y > x
      BY <1>5
    <2> HIDE DEF L, E
    <2> DEFINE r == NextEdge(Edges(C), x)
               G == (x .. r - 1) \X Spans(Intervals(C, x, r))
    <2>2. /\ IsFiniteSet(G) /\ Strip(C, x, r) = Cardinality(G)
          /\ \A p : p \in G <=> /\ p \in UNION {Pixels(c) : c \in C}
                                /\ x <= p[1] /\ p[1] < r
      BY <1>1, <2>1, StripIs
    <2>3. F[x] = G /\ d[x] = Strip(C, x, r) /\ r = NextEdge(E, x)
      BY DEF E
    <2> HIDE DEF F, G, d, r
    <2> QED BY <2>2, <2>3 DEF U
  <1>8. \A x \in L : /\ x \in Int /\ NextEdge(E, x) \in Int
                     /\ \A y \in L : y > x => NextEdge(E, x) <= y
    <2> TAKE x \in L
    <2>1. NextEdge(E, x) \in E /\ \A y \in E : y > x => NextEdge(E, x) <= y
      <3> HIDE DEF E
      <3> QED BY <1>4, <1>5, NextEdgeIs
    <2> HIDE DEF E, L
    <2> QED BY <1>4, <1>5, <2>1
  <1> HIDE DEF F, d
  <1>9. \A x, y \in L : x # y => F[x] \cap F[y] = {}
    <2> SUFFICES ASSUME NEW x \in L, NEW y \in L, x # y, NEW p \in (F[x] \cap F[y])
                 PROVE  FALSE
      OBVIOUS
    <2> HIDE DEF L, E
    <2>1. /\ p \in U /\ x <= p[1] /\ p[1] < NextEdge(E, x)
          /\ y <= p[1] /\ p[1] < NextEdge(E, y)
      BY <1>7
    <2>2. p[1] \in Int
      <3>1. PICK c \in C : p \in Pixels(c)
        BY <2>1 DEF U
      <3>2. p[1] \in c.l .. c.r - 1 /\ c.l \in Int /\ c.r \in Int
        BY <1>1, <3>1 DEF Pixels, Valid, Clips
      <3> QED BY <3>2
    <2>3. x \in Int /\ y \in Int /\ NextEdge(E, x) \in Int /\ NextEdge(E, y) \in Int
          /\ (y > x => NextEdge(E, x) <= y) /\ (x > y => NextEdge(E, y) <= x)
      BY <1>8
    <2> QED BY <2>1, <2>2, <2>3
  <1>10. UNION {F[x] : x \in L} = U
    <2>1. ASSUME NEW p \in U PROVE \E x \in L : p \in F[x]
      <3>1. PICK c \in C : p \in Pixels(c)
        BY DEF U
      <3>2. /\ c.l \in Int /\ c.r \in Int /\ p[1] \in Int /\ c.l <= p[1] /\ p[1] < c.r
            /\ c.l \in E /\ c.r \in E
        <4>1. c.l \in Int /\ c.r \in Int /\ c.l \in E /\ c.r \in E
          BY <1>1 DEF Valid, Clips, Edges
        <4>2. p[1] \in c.l .. c.r - 1
          BY <3>1 DEF Pixels
        <4> QED BY <4>1, <4>2
      <3> DEFINE B == {e \in E : e <= p[1]}
      <3>3. B \in SUBSET E /\ B \in SUBSET Int /\ c.l \in B
        BY <1>4, <3>2
      <3>4. IsFiniteSet(B)
        BY <1>4, <3>3, FS_Subset
      <3>5. PICK x \in B : \A e \in B : e <= x
        <4> HIDE DEF B
        <4>1. B # {}
          BY <3>3
        <4> QED BY <3>3, <3>4, <4>1, Extremes
      <3>6. x \in E /\ x <= p[1] /\ x \in Int
        BY <1>4
      <3>7. x \in L
        BY <3>2, <3>6
      <3>8. p[1] < NextEdge(E, x)
        <4>1. NextEdge(E, x) \in E /\ NextEdge(E, x) > x /\ NextEdge(E, x) \in Int
          <5>1. \E y \in E : y > x
            BY <1>5, <3>7
          <5> HIDE DEF E, L
          <5>2. NextEdge(E, x) \in E /\ NextEdge(E, x) > x
            BY <1>4, <3>6, <5>1, NextEdgeIs
          <5> QED BY <1>4, <5>2
        <4>2. NextEdge(E, x) \notin B
          BY <3>5, <3>6, <4>1
        <4> QED BY <3>2, <4>1, <4>2
      <3> HIDE DEF L, E, B
      <3> QED BY <1>7, <3>6, <3>7, <3>8
    <2>2. \A x \in L : \A p \in F[x] : p \in U
      <3> HIDE DEF L, E
      <3> QED BY <1>7
    <2> HIDE DEF L, E
    <2> QED BY <2>1, <2>2
  <1> HIDE DEF L, E
  <1>11. Cardinality(UNION {F[x] : x \in L}) = SumFunctionOnSet(d, L)
    <2>1. \A x \in L : IsFiniteSet(F[x]) /\ d[x] = Cardinality(F[x])
      BY <1>7
    <2> QED BY <1>6, <1>9, <2>1, UnionCounts
  <1> QED BY <1>1, <1>2, <1>3, <1>10, <1>11

-----------------------------------------------------------------------------
(* The detections of a class, and the cap.                                 *)

\* A part of a ranked list is ranked.
LEMMA PartFalls ==
    ASSUME NEW s \in Seq(Detections), Falling(s), NEW S \in SUBSET DOMAIN s
    PROVE  /\ At(s, S) \in Seq(Detections) /\ Len(At(s, S)) = Cardinality(S)
           /\ Falling(At(s, S))
  <1> DEFINE n == Len(s)
             a == At(s, S)
  <1>1. n \in Nat /\ DOMAIN s = 1 .. n
    BY ScoredList
  <1>2. At(s, S) \in Seq(Detections)
    BY AtType
  <1> HIDE DEF n
  <1>3. S \in SUBSET (1 .. n)
    BY <1>1
  <1>4. /\ DOMAIN a = 1 .. Cardinality(S) /\ Len(a) = Cardinality(S)
        /\ \A k \in 1 .. Cardinality(S) : Nth(S, k) \in S /\ a[k] = s[Nth(S, k)]
        /\ \A k, l \in 1 .. Cardinality(S) : k < l <=> Nth(S, k) < Nth(S, l)
    BY <1>1, <1>3, AtIs
  <1> HIDE DEF a
  <1>5. Falling(a)
    BY <1>1, <1>3, <1>4 DEF Falling
  <1> QED BY <1>2, <1>4, <1>5 DEF a

\* Selecting from the start of a list gives the start of what is selected from it.
LEMMA PartBegins ==
    ASSUME NEW n \in Nat, NEW few, DOMAIN few = 1 .. n,
           NEW m \in Nat, NEW many, DOMAIN many = 1 .. m, n <= m,
           \A i \in 1 .. n : few[i] = many[i],
           NEW S \in SUBSET (1 .. n), NEW T \in SUBSET (1 .. m),
           \A i \in 1 .. n : i \in S <=> i \in T
    PROVE  /\ Cardinality(S) \in Nat /\ Cardinality(T) \in Nat /\ Cardinality(S) <= Cardinality(T)
           /\ \A k \in 1 .. Cardinality(S) : At(few, S)[k] = At(many, T)[k]
  <1>1. /\ IsFiniteSet(S) /\ Cardinality(S) \in Nat
        /\ \A k \in 1 .. Cardinality(S) : Nth(S, k) \in S /\ At(few, S)[k] = few[Nth(S, k)]
    <2>1. n \in Nat /\ DOMAIN few = 1 .. n /\ S \in SUBSET (1 .. n)
      OBVIOUS
    <2> QED BY ONLY <2>1, AtIs
  <1>2. /\ IsFiniteSet(T) /\ Cardinality(T) \in Nat
        /\ \A k \in 1 .. Cardinality(T) : Nth(T, k) \in T /\ At(many, T)[k] = many[Nth(T, k)]
    <2>1. m \in Nat /\ DOMAIN many = 1 .. m /\ T \in SUBSET (1 .. m)
      OBVIOUS
    <2> QED BY ONLY <2>1, AtIs
  <1>3. S \in SUBSET T
    OBVIOUS
  <1>4. Cardinality(S) <= Cardinality(T)
    BY <1>2, <1>3, FS_Subset
  <1>5. \A k \in 1 .. Cardinality(S) : k \in 1 .. Cardinality(T) /\ Nth(S, k) = Nth(T, k)
    <2>1. T \in SUBSET Int
      OBVIOUS
    <2>2. \A i \in S, j \in T : j <= i => j \in S
      <3> SUFFICES ASSUME NEW i \in S, NEW j \in T, j <= i PROVE j \in S
        OBVIOUS
      <3>1. j \in 1 .. n
        OBVIOUS
      <3> QED BY <3>1
    <2> QED BY <1>2, <1>3, <2>1, <2>2, NthBegins
  <1>6. ASSUME NEW k \in 1 .. Cardinality(S) PROVE At(few, S)[k] = At(many, T)[k]
    <2>1. k \in 1 .. Cardinality(T) /\ Nth(S, k) = Nth(T, k) /\ Nth(S, k) \in S
      BY <1>1, <1>5
    <2>2. few[Nth(S, k)] = many[Nth(T, k)]
      BY <2>1
    <2> QED BY <1>1, <1>2, <2>1, <2>2
  <1> QED BY <1>1, <1>2, <1>4, <1>6

\* The detections of a class are ranked.
LEMMA OfClassIs ==
    ASSUME NEW s \in Seq(Detections), Falling(s), NEW c
    PROVE  OfClass(s, c) \in Seq(Detections) /\ Falling(OfClass(s, c))
  <1> DEFINE S == {i \in DOMAIN s : s[i].class = c}
  <1>1. S \in SUBSET DOMAIN s
    OBVIOUS
  <1>2. OfClass(s, c) = At(s, S)
    BY DEF OfClass
  <1> HIDE DEF S
  <1> QED BY <1>1, <1>2, PartFalls

\* How many detections of an image are looked at.
Cap(s, n) == Least(n, Len(s))
CapOfClass(s, c, n) == {i \in 1 .. Cap(s, n) : s[i].class = c}

\* So are those of a class among the first ones.
LEMMA CappedIs ==
    ASSUME NEW s \in Seq(Detections), Falling(s), NEW c, NEW n \in Nat
    PROVE  /\ Cap(s, n) \in Nat /\ Cap(s, n) <= n /\ Cap(s, n) <= Len(s)
           /\ Capped(s, c, n) \in Seq(Detections) /\ Falling(Capped(s, c, n))
           /\ Len(Capped(s, c, n)) = Cardinality(CapOfClass(s, c, n))
           /\ Capped(s, c, n) = At(SubSeq(s, 1, Cap(s, n)), CapOfClass(s, c, n))
           /\ DOMAIN SubSeq(s, 1, Cap(s, n)) = 1 .. Cap(s, n)
           /\ \A i \in 1 .. Cap(s, n) : SubSeq(s, 1, Cap(s, n))[i] = s[i]
  <1> DEFINE k == Cap(s, n)
             t == SubSeq(s, 1, k)
             S == CapOfClass(s, c, n)
  <1>1. /\ Len(s) \in Nat /\ DOMAIN s = 1 .. Len(s)
        /\ \A i \in 1 .. Len(s) : s[i] \in Detections
    BY ScoredList
  <1>2. k \in Nat /\ k <= n /\ k <= Len(s)
    BY <1>1 DEF Cap, Least
  <1>3. Capped(s, c, n) = OfClass(t, c)
    BY DEF Capped, Cap
  <1> HIDE DEF k
  <1>4. t \in Seq(Detections) /\ Len(t) = k /\ \A i \in 1 .. k : t[i] = s[i]
    <2>1. \A i \in 1 .. k : s[i] \in Detections
      BY <1>1, <1>2
    <2>2. 1 \in Int /\ k \in Int
      BY <1>2
    <2>3. /\ t \in Seq(Detections) /\ Len(t) = IF 1 <= k THEN k - 1 + 1 ELSE 0
          /\ \A i \in 1 .. k - 1 + 1 : t[i] = s[1 + i - 1]
      BY <2>1, <2>2, SubSeqProperties
    <2>4. Len(t) = k /\ k - 1 + 1 = k
      BY <1>2, <2>3
    <2>5. \A i \in 1 .. k : 1 + i - 1 = i
      OBVIOUS
    <2> HIDE DEF t
    <2> QED BY <2>3, <2>4, <2>5
  <1> HIDE DEF t
  <1>5. DOMAIN t = 1 .. k
    BY <1>4
  <1>6. Falling(t)
    BY <1>1, <1>2, <1>4, <1>5 DEF Falling
  <1>7. {i \in DOMAIN t : t[i].class = c} = S
    BY <1>4, <1>5 DEF CapOfClass, k
  <1>8. OfClass(t, c) = At(t, S)
    BY <1>7 DEF OfClass
  <1>9. S \in SUBSET DOMAIN t
    BY <1>7
  <1> HIDE DEF S
  <1>10. At(t, S) \in Seq(Detections) /\ Len(At(t, S)) = Cardinality(S) /\ Falling(At(t, S))
    BY <1>4, <1>6, <1>9, PartFalls
  <1> QED BY <1>2, <1>3, <1>4, <1>5, <1>8, <1>10 DEF k, t, S

\* With a larger cap an image has the same results first, and no fewer hits.
LEMMA HitsGrow ==
    ASSUME NEW objects \in Seq(Objects), NEW s \in Seq(Detections), Falling(s), NEW c,
           NEW threshold \in Thresholds, NEW n \in Nat, NEW m \in Nat, n <= m
    PROVE  Found(MatchImage(objects, Capped(s, c, n), threshold))
              <= Found(MatchImage(objects, Capped(s, c, m), threshold))
  <1> DEFINE few == Capped(s, c, n)
             many == Capped(s, c, m)
             a == Len(few)
             b == Len(many)
             w == Ordered(objects)
             r == Assign(w, few, threshold)
             q == Assign(w, many, threshold)
  <1>1. /\ few \in Seq(Detections) /\ Falling(few)
        /\ many \in Seq(Detections) /\ Falling(many)
    BY CappedIs
  <1>2. a \in Nat /\ DOMAIN few = 1 .. a /\ b \in Nat /\ DOMAIN many = 1 .. b
    BY <1>1, ScoredList
  <1>3. a <= b /\ \A k \in 1 .. a : few[k] = many[k]
    <2> DEFINE i == Cap(s, n)
               j == Cap(s, m)
               S == CapOfClass(s, c, n)
               T == CapOfClass(s, c, m)
               x == SubSeq(s, 1, i)
               y == SubSeq(s, 1, j)
    <2>1. i \in Nat /\ j \in Nat /\ i <= j
      BY ScoredList DEF Cap, Least
    <2>2. /\ few = At(x, S) /\ a = Cardinality(S) /\ DOMAIN x = 1 .. i
          /\ \A l \in 1 .. i : x[l] = s[l]
      BY CappedIs
    <2>3. /\ many = At(y, T) /\ b = Cardinality(T) /\ DOMAIN y = 1 .. j
          /\ \A l \in 1 .. j : y[l] = s[l]
      BY CappedIs
    <2>4. \A l \in 1 .. i : l \in 1 .. j /\ x[l] = y[l]
      BY <2>1, <2>2, <2>3
    <2>5. /\ S \in SUBSET (1 .. i) /\ T \in SUBSET (1 .. j)
          /\ \A l \in 1 .. i : l \in S <=> l \in T
      BY <2>4 DEF CapOfClass
    <2> HIDE DEF i, j, S, T, x, y, few, many, a, b
    <2>6. /\ Cardinality(S) <= Cardinality(T)
          /\ \A k \in 1 .. Cardinality(S) : At(x, S)[k] = At(y, T)[k]
      <3>1. DOMAIN x = 1 .. i /\ DOMAIN y = 1 .. j /\ \A l \in 1 .. i : x[l] = y[l]
        BY <2>2, <2>3, <2>4
      <3>2. i \in Nat
        BY <2>1
      <3>3. j \in Nat
        BY <2>1
      <3>4. i <= j
        BY <2>1
      <3>5. DOMAIN x = 1 .. i
        BY <3>1
      <3>6. DOMAIN y = 1 .. j
        BY <3>1
      <3>7. \A l \in 1 .. i : x[l] = y[l]
        BY <3>1
      <3>8. S \in SUBSET (1 .. i)
        BY <2>5
      <3>9. T \in SUBSET (1 .. j)
        BY <2>5
      <3>10. \A l \in 1 .. i : l \in S <=> l \in T
        BY <2>5
      <3> QED BY ONLY <3>2, <3>3, <3>4, <3>5, <3>6, <3>7, <3>8, <3>9, <3>10, PartBegins, SMTT(30)
    <2> QED BY <2>2, <2>3, <2>6
  <1> HIDE DEF few, many
  <1>4. /\ MatchImage(objects, few, threshold) = r /\ Len(r) = a
        /\ MatchImage(objects, many, threshold) = q /\ Len(q) = b
    BY <1>1, MatchImageIs
  <1> HIDE DEF a, b, w
  <1>5. \A k \in 1 .. a : r[k] = q[k]
    BY <1>2, <1>3, AssignBegins
  <1> HIDE DEF r, q
  <1>6. CountOf(r, a, 1) = CountOf(q, a, 1)
    BY <1>5 DEF CountOf
  <1>7. CountOf(q, a, 1) <= CountOf(q, b, 1)
    <2>1. a \in 0 .. b
      BY <1>2, <1>3
    <2> QED BY <1>2, <2>1, Counts
  <1>8. Found(r) = CountOf(r, a, 1) /\ Found(q) = CountOf(q, b, 1)
    BY <1>4 DEF Found
  <1>9. Found(r) <= Found(q)
    BY <1>6, <1>7, <1>8
  <1> QED BY <1>4, <1>9 DEF few, many

-----------------------------------------------------------------------------
(* The matches of all images.                                              *)

\* The lists of a list, one after the other.
Chained(s, g) ==
    /\ g[1] = s[1]
    /\ \A k \in 2 .. Len(s) : g[k] = g[k - 1] \o s[k]

\* FlattenSeq puts the lists one after the other.
LEMMA FlattenIs ==
    ASSUME NEW V, NEW s \in Seq(Seq(V)), s # <<>>
    PROVE  \E g \in [1 .. Len(s) -> Seq(V)] : Chained(s, g) /\ FlattenSeq(s) = g[Len(s)]
  <1> DEFINE n == Len(s)
             F == [w \in (1 .. n) \X Seq(V) |-> w[2] \o s[w[1]]]
             f == CHOOSE f : f = [i \in 1 .. n |-> IF i = 1 THEN s[i] ELSE f[i - 1] \o s[i]]
  <1>1. n \in Nat /\ n # 0 /\ DOMAIN s = 1 .. n /\ \A i \in 1 .. n : s[i] \in Seq(V)
    OBVIOUS
  <1>2. FlattenSeq(s) = f[n]
    BY <1>1 DEF FlattenSeq
  <1> HIDE DEF n
  <1>3. F \in [(1 .. n) \X Seq(V) -> Seq(V)] /\ s[1] \in Seq(V)
    <2>1. \A w \in (1 .. n) \X Seq(V) : w[2] \o s[w[1]] \in Seq(V)
      <3> SUFFICES ASSUME NEW k \in 1 .. n, NEW x \in Seq(V) PROVE x \o s[k] \in Seq(V)
        OBVIOUS
      <3>1. s[k] \in Seq(V)
        BY <1>1
      <3> QED BY <3>1, ConcatProperties
    <2> QED BY <1>1, <2>1
  <1>4. PICK g \in [1 .. n -> Seq(V)] : Climbs(g, n, s[1], F)
    BY <1>1, <1>3, ClimbExists
  <1>5. g = [i \in 1 .. n |-> IF i = 1 THEN s[i] ELSE g[i - 1] \o s[i]]
    <2> DEFINE a == [i \in 1 .. n |-> IF i = 1 THEN s[1] ELSE F[<<i, g[i - 1]>>]]
               b == [i \in 1 .. n |-> IF i = 1 THEN s[i] ELSE g[i - 1] \o s[i]]
    <2>1. ASSUME NEW i \in 1 .. n, i # 1 PROVE F[<<i, g[i - 1]>>] = g[i - 1] \o s[i]
      <3>1. g[i - 1] \in Seq(V)
        BY <1>1, <2>1
      <3> QED BY <3>1
    <2> HIDE DEF F
    <2>2. a = b
      BY <2>1
    <2>3. g = a
      BY <1>4 DEF Climbs
    <2> HIDE DEF a, b
    <2>4. g = b
      BY <2>2, <2>3
    <2> QED BY <2>4 DEF b
  <1>6. f = [i \in 1 .. n |-> IF i = 1 THEN s[i] ELSE f[i - 1] \o s[i]]
    BY <1>5
  <1> HIDE DEF f, F
  <1> DEFINE P == {m \in Nat : m + 1 <= n => f[m + 1] \in Seq(V)}
  <1>7. f[1] = s[1] /\ \A i \in 2 .. n : f[i] = f[i - 1] \o s[i]
    <2>1. \A i \in 1 .. n : f[i] = IF i = 1 THEN s[i] ELSE f[i - 1] \o s[i]
      BY <1>6
    <2>2. 1 \in 1 .. n /\ \A i \in 2 .. n : i \in 1 .. n /\ i # 1
      BY <1>1
    <2> QED BY <2>1, <2>2
  <1>8. 0 \in P
    BY <1>1, <1>7
  <1>9. ASSUME NEW m \in Nat, m \in P PROVE m + 1 \in P
    <2> SUFFICES ASSUME m + 2 <= n PROVE f[m + 2] \in Seq(V)
      OBVIOUS
    <2>1. f[m + 1] \in Seq(V) /\ m + 2 \in 2 .. n /\ (m + 2) - 1 = m + 1
      BY <1>1, <1>9
    <2>2. f[m + 2] = f[(m + 2) - 1] \o s[m + 2]
      BY <1>7, <2>1
    <2>3. s[m + 2] \in Seq(V)
      BY <1>1, <2>1
    <2>4. f[m + 1] \o s[m + 2] \in Seq(V)
      BY <2>1, <2>3, ConcatProperties
    <2> QED BY <2>1, <2>2, <2>4
  <1>10. Nat \subseteq P
    BY <1>8, <1>9, Induction
  <1>11. \A i \in 1 .. n : f[i] \in Seq(V)
    <2> TAKE i \in 1 .. n
    <2>1. i - 1 \in Nat /\ (i - 1) + 1 = i /\ i <= n
      BY <1>1
    <2>2. i - 1 \in P
      BY <1>10, <2>1
    <2> QED BY <2>1, <2>2
  <1>12. DOMAIN f = 1 .. n /\ f = [i \in 1 .. n |-> f[i]]
    BY <1>6
  <1>13. f \in [1 .. n -> Seq(V)]
    BY <1>11, <1>12
  <1>14. Chained(s, f)
    BY <1>7 DEF Chained, n
  <1> QED BY <1>2, <1>13, <1>14 DEF n

\* One result more.
HitAt(matches, n) == IF matches[n].match = 1 THEN 1 ELSE 0

\* A count of hits goes up by one or not at all.
LEMMA CountNext ==
    ASSUME NEW n \in Nat, NEW matches
    PROVE  CountOf(matches, n + 1, 1) = CountOf(matches, n, 1) + HitAt(matches, n + 1)
  <1>1. CountOf(matches, n, 1) \in Nat
    BY CountType
  <1>2. CASE matches[n + 1].match = 1
    <2>1. CountOf(matches, n + 1, 1) = CountOf(matches, n, 1) + 1
      BY <1>2, Counts
    <2> QED BY <1>2, <2>1 DEF HitAt
  <1>3. CASE matches[n + 1].match # 1
    <2>1. CountOf(matches, n + 1, 1) = CountOf(matches, n, 1)
      BY <1>3, Counts
    <2> QED BY <1>1, <1>3, <2>1 DEF HitAt
  <1> QED BY <1>2, <1>3

\* Hits of two lists.
LEMMA FoundTogether ==
    ASSUME NEW x \in Seq(Results), NEW y \in Seq(Results)
    PROVE  /\ x \o y \in Seq(Results) /\ Found(x \o y) = Found(x) + Found(y)
           /\ Found(x) \in Nat /\ Found(y) \in Nat
  <1> DEFINE a == Len(x)
             b == Len(y)
             z == x \o y
             P == {j \in Nat : j <= b => CountOf(z, a + j, 1) = CountOf(x, a, 1) + CountOf(y, j, 1)}
  <1>1. a \in Nat /\ b \in Nat
    OBVIOUS
  <1>2. /\ z \in Seq(Results) /\ Len(z) = a + b
        /\ \A i \in 1 .. a : z[i] = x[i]
        /\ \A i \in 1 .. b : z[a + i] = y[i]
    BY ConcatProperties
  <1>3. /\ Found(x) = CountOf(x, a, 1) /\ Found(y) = CountOf(y, b, 1)
        /\ Found(z) = CountOf(z, a + b, 1)
    BY <1>2 DEF Found
  <1> HIDE DEF a, b, z
  <1>4. \A k \in Nat : /\ CountOf(x, k, 1) \in Nat /\ CountOf(y, k, 1) \in Nat
                       /\ CountOf(z, k, 1) \in Nat
    BY Counts
  <1>5. 0 \in P
    <2>1. CountOf(z, a, 1) = CountOf(x, a, 1)
      BY <1>2 DEF CountOf
    <2>2. CountOf(y, 0, 1) = 0
      BY <1>1, Counts
    <2> QED BY <1>1, <1>4, <2>1, <2>2
  <1>6. ASSUME NEW j \in Nat, j \in P PROVE j + 1 \in P
    <2> SUFFICES ASSUME j + 1 <= b
                 PROVE  CountOf(z, a + (j + 1), 1) = CountOf(x, a, 1) + CountOf(y, j + 1, 1)
      OBVIOUS
    <2> DEFINE k == a + j
    <2>1. k \in Nat /\ a + (j + 1) = k + 1 /\ j + 1 \in 1 .. b
      BY <1>1
    <2>2. z[k + 1] = y[j + 1]
      BY <1>2, <2>1
    <2>3. CountOf(z, k, 1) = CountOf(x, a, 1) + CountOf(y, j, 1)
      BY <1>1, <1>6
    <2> HIDE DEF k
    <2>4. CountOf(z, k + 1, 1) = CountOf(z, k, 1) + HitAt(z, k + 1)
      BY <2>1, CountNext
    <2>5. CountOf(y, j + 1, 1) = CountOf(y, j, 1) + HitAt(y, j + 1)
      BY CountNext
    <2>6. HitAt(z, k + 1) = HitAt(y, j + 1) /\ HitAt(y, j + 1) \in Nat
      BY <2>2 DEF HitAt
    <2>7. /\ CountOf(y, j, 1) \in Nat /\ CountOf(x, a, 1) \in Nat
          /\ CountOf(z, k, 1) \in Nat
      BY <1>1, <1>4, <2>1
    <2>8. CountOf(z, k + 1, 1) = CountOf(x, a, 1) + CountOf(y, j + 1, 1)
      BY <2>3, <2>4, <2>5, <2>6, <2>7
    <2> QED BY <2>1, <2>8
  <1>7. Nat \subseteq P
    BY <1>5, <1>6, Induction
  <1>8. CountOf(z, a + b, 1) = CountOf(x, a, 1) + CountOf(y, b, 1)
    BY <1>1, <1>7
  <1> QED BY <1>1, <1>2, <1>3, <1>4, <1>8 DEF z

\* Hits of all lists together.
LEMMA FoundSums ==
    ASSUME NEW s \in Seq(Seq(Results)), s # <<>>, NEW f,
           \A i \in 1 .. Len(s) : f[i] = Found(s[i])
    PROVE  /\ FlattenSeq(s) \in Seq(Results)
           /\ Found(FlattenSeq(s)) = SumFunctionOnSet(f, 1 .. Len(s))
  <1> DEFINE n == Len(s)
  <1>1. n \in Nat /\ n # 0 /\ \A i \in 1 .. n : s[i] \in Seq(Results)
    OBVIOUS
  <1>2. PICK g \in [1 .. n -> Seq(Results)] : Chained(s, g) /\ FlattenSeq(s) = g[n]
    BY FlattenIs
  <1>3. g[1] = s[1] /\ \A k \in 2 .. n : g[k] = g[k - 1] \o s[k]
    BY <1>2 DEF Chained
  <1>4. \A i \in 1 .. n : f[i] = Found(s[i])
    OBVIOUS
  <1> HIDE DEF n
  <1>5. \A x \in Seq(Results) : Found(x) \in Nat
    BY FoundTogether
  <1>6. ASSUME NEW i \in 1 .. n PROVE f[i] \in Int
    <2>1. s[i] \in Seq(Results) /\ f[i] = Found(s[i])
      BY <1>1, <1>4
    <2>2. Found(s[i]) \in Nat
      BY <1>5, <2>1
    <2> QED BY <2>1, <2>2
  <1> DEFINE Sum(m) == SumFunctionOnSet(f, 1 .. m)
             P == {m \in Nat : m + 1 <= n => Found(g[m + 1]) = Sum(m + 1)}
  <1>7. ASSUME NEW m \in Nat, m + 1 <= n PROVE Sum(m) \in Int /\ Sum(m + 1) = Sum(m) + f[m + 1]
    <2>1. IsFiniteSet(1 .. m) /\ m + 1 \notin 1 .. m /\ (1 .. m) \cup {m + 1} = 1 .. m + 1
      <3>1. IsFiniteSet(1 .. m)
        BY SegmentSize
      <3>2. m + 1 \notin 1 .. m /\ (1 .. m) \cup {m + 1} = 1 .. m + 1
        OBVIOUS
      <3> QED BY <3>1, <3>2
    <2>2. \A i \in (1 .. m) \cup {m + 1} : f[i] \in Int
      BY <1>1, <1>6, <1>7
    <2>3. /\ SumFunctionOnSet(f, 1 .. m) \in Int
          /\ SumFunctionOnSet(f, (1 .. m) \cup {m + 1}) = SumFunctionOnSet(f, 1 .. m) + f[m + 1]
      BY <2>1, <2>2, SumAdds
    <2> QED BY <2>1, <2>3
  <1>8. Sum(0) = 0
    <2>1. 1 .. 0 = {} /\ IsFiniteSet({})
      BY FS_EmptySet
    <2> QED BY <2>1, SumUnfold
  <1> HIDE DEF Sum
  <1>9. 0 \in P
    <2>1. Sum(0 + 1) = Sum(0) + f[0 + 1] /\ f[1] \in Int
      BY <1>1, <1>6, <1>7
    <2> QED BY <1>1, <1>3, <1>4, <1>8, <2>1
  <1>10. ASSUME NEW m \in Nat, m \in P PROVE m + 1 \in P
    <2> SUFFICES ASSUME m + 2 <= n PROVE Found(g[m + 2]) = Sum(m + 2)
      OBVIOUS
    <2>1. /\ Found(g[m + 1]) = Sum(m + 1) /\ m + 1 \in 1 .. n
          /\ m + 2 \in 2 .. n /\ m + 2 \in 1 .. n /\ (m + 2) - 1 = m + 1
      BY <1>1, <1>10
    <2>2. g[m + 2] = g[m + 1] \o s[m + 2] /\ g[m + 1] \in Seq(Results) /\ s[m + 2] \in Seq(Results)
      BY <1>1, <1>3, <2>1
    <2>3. Found(g[m + 2]) = Found(g[m + 1]) + Found(s[m + 2])
      BY <2>2, FoundTogether
    <2>4. Sum((m + 1) + 1) = Sum(m + 1) + f[(m + 1) + 1]
      BY <1>7
    <2>5. (m + 1) + 1 = m + 2 /\ f[m + 2] = Found(s[m + 2])
      BY <1>4, <2>1
    <2> QED BY <2>1, <2>3, <2>4, <2>5
  <1>11. Nat \subseteq P
    BY <1>9, <1>10, Induction
  <1>12. n - 1 \in Nat /\ (n - 1) + 1 = n
    BY <1>1
  <1>13. Found(g[n]) = Sum(n)
    <2>1. n - 1 \in P
      BY <1>11, <1>12
    <2> QED BY <1>1, <1>12, <2>1
  <1>14. n \in 1 .. n
    BY <1>1
  <1> QED BY <1>2, <1>13, <1>14 DEF Sum, n

\* Ranking the results changes no count.
LEMMA RankedFound ==
    ASSUME NEW r \in Seq(Results)
    PROVE  /\ DOMAIN ByScore(r) = 1 .. Len(r) /\ Len(ByScore(r)) = Len(r)
           /\ Found(ByScore(r)) = Found(r)
  <1> DEFINE n == Len(r)
             b == ByScore(r)
             X == {i \in 1 .. n : b[i].match = 1}
             Y == {i \in 1 .. n : r[i].match = 1}
  <1>1. n \in Nat /\ DOMAIN r = 1 .. n /\ Scored(r, n)
    <2>1. \A d \in Results : d.score \in Nat
      BY DEF Results
    <2>2. DOMAIN r = 1 .. n /\ \A i \in 1 .. n : r[i] \in Results
      OBVIOUS
    <2> QED BY <2>1, <2>2 DEF Scored
  <1>2. Found(r) = Cardinality(Y)
    BY DEF Found, CountOf
  <1> HIDE DEF n
  <1>3. DOMAIN b = 1 .. n
    BY <1>1, ByScoreSorts
  <1>4. PICK p : Rearranges(p, n, r, b)
    BY <1>1, ByScoreSorts
  <1> HIDE DEF b
  <1>5. Len(b) = n
    BY <1>1, <1>3
  <1>6. Found(b) = Cardinality(X)
    BY <1>5 DEF Found, CountOf
  <1>7. Cardinality(X) = Cardinality(Y)
    <2> DEFINE q == [i \in X |-> p[i]]
    <2>1. IsFiniteSet(X)
      <3>1. IsFiniteSet(1 .. n) /\ X \in SUBSET (1 .. n)
        BY <1>1, FS_Interval
      <3> QED BY <3>1, FS_Subset
    <2>2. /\ q \in [X -> Y]
          /\ \A i, j \in X : q[i] = q[j] => i = j
          /\ \A y \in Y : \E x \in X : q[x] = y
      BY <1>4 DEF Rearranges
    <2> HIDE DEF q, X, Y
    <2>3. q \in Bijection(X, Y)
      BY <2>2 DEF Bijection, Injection, IsInjective, Surjection
    <2>4. ExistsBijection(X, Y)
      BY <2>3 DEF ExistsBijection
    <2> QED BY <2>1, <2>4, FS_Bijection
  <1> QED BY <1>2, <1>3, <1>5, <1>6, <1>7 DEF n, b

-----------------------------------------------------------------------------
(* All images of an evaluation.                                            *)

\* What score_detection prepares of an image.
Images == [objects : Seq(Objects), detections : {s \in Seq(Detections) : Falling(s)}]

\* What validation has found of the documents.
Documents(known, answers) ==
    /\ known \in Seq(Labels) /\ known # <<>>
    /\ \A i \in DOMAIN known : ItemOf(answers, known[i].id).detections \in Seq(Detections)

\* sorted(...) of detections.
LEMMA SortedDetections ==
    ASSUME NEW s \in Seq(Detections)
    PROVE  ByScore(s) \in Seq(Detections) /\ Falling(ByScore(s)) /\ Len(ByScore(s)) = Len(s)
  <1> DEFINE n == Len(s)
             b == ByScore(s)
  <1>1. n \in Nat /\ DOMAIN s = 1 .. n /\ Scored(s, n)
    BY ScoredList
  <1>2. \A i \in 1 .. n : s[i] \in Detections
    BY <1>1
  <1> HIDE DEF n
  <1>3. DOMAIN b = 1 .. n /\ Falling(b)
    BY <1>1, ByScoreSorts
  <1>4. PICK p : Rearranges(p, n, s, b)
    BY <1>1, ByScoreSorts
  <1>5. \A i \in 1 .. n : b[i] \in Detections
    BY <1>2, <1>4 DEF Rearranges
  <1>6. b = [i \in 1 .. n |-> b[i]]
    BY <1>3 DEF ByScore
  <1> HIDE DEF b
  <1>7. b \in Seq(Detections) /\ Len(b) = n
    BY <1>1, <1>5, <1>6
  <1> QED BY <1>3, <1>7 DEF b, n

\* An image is prepared with its detections in order.
LEMMA PreparedIs ==
    ASSUME NEW known, NEW answers, Documents(known, answers), NEW i \in DOMAIN known
    PROVE  Prepared(known[i], answers) \in Images
  <1> DEFINE l == known[i]
             d == ItemOf(answers, l.id).detections
             r == l.ignored_regions
  <1>1. l.objects \in Seq(Objects) /\ d \in Seq(Detections)
    <2>1. l \in Labels /\ d \in Seq(Detections)
      BY DEF Documents
    <2>2. \A x \in Labels : x.objects \in Seq(Objects)
      BY DEF Labels
    <2> QED BY <2>1, <2>2
  <1> HIDE DEF d
  <1>2. ASSUME NEW V, NEW items \in Seq(V) PROVE Visible(items, r) \in Seq(V)
    <2> DEFINE S == {k \in DOMAIN items : ~InIgnoredRegion(items[k].box, r)}
    <2>1. S \in SUBSET DOMAIN items
      OBVIOUS
    <2>2. Visible(items, r) = At(items, S)
      BY DEF Visible
    <2> HIDE DEF S
    <2> QED BY <1>2, <2>1, <2>2, AtType
  <1>3. Visible(l.objects, r) \in Seq(Objects) /\ Visible(d, r) \in Seq(Detections)
    BY <1>1, <1>2
  <1>4. ByScore(Visible(d, r)) \in {s \in Seq(Detections) : Falling(s)}
    BY <1>3, SortedDetections
  <1>5. Prepared(l, answers)
            = [objects |-> Visible(l.objects, r), detections |-> ByScore(Visible(d, r))]
    BY DEF Prepared, d
  <1> QED BY <1>3, <1>4, <1>5 DEF Images

\* All images are prepared.
LEMMA PreparedAllIs ==
    ASSUME NEW known, NEW answers, Documents(known, answers)
    PROVE  /\ PreparedAll(known, answers) \in Seq(Images)
           /\ Len(PreparedAll(known, answers)) = Len(known)
           /\ DOMAIN known = 1 .. Len(known) /\ Len(known) \in Nat \ {0}
           /\ \A i \in DOMAIN known :
                 PreparedAll(known, answers)[i] = Prepared(known[i], answers)
  <1> DEFINE n == Len(known)
             p == PreparedAll(known, answers)
  <1>1. n \in Nat \ {0} /\ DOMAIN known = 1 .. n
    BY DEF Documents
  <1>2. p = [i \in 1 .. n |-> Prepared(known[i], answers)]
    BY <1>1 DEF PreparedAll
  <1>3. \A i \in 1 .. n : Prepared(known[i], answers) \in Images
    BY <1>1, PreparedIs
  <1> HIDE DEF n, p
  <1>4. p \in Seq(Images) /\ Len(p) = n
    BY <1>1, <1>2, <1>3
  <1> QED BY <1>1, <1>2, <1>4 DEF n, p

\* What is selected of a class in an image.
LEMMA ImageOfClass ==
    ASSUME NEW p \in Images, NEW c
    PROVE  /\ OfClass(p.objects, c) \in Seq(Objects) /\ p.detections \in Seq(Detections)
           /\ Falling(p.detections)
           /\ OfClass(p.detections, c) \in Seq(Detections) /\ Falling(OfClass(p.detections, c))
  <1>1. p.objects \in Seq(Objects) /\ p.detections \in Seq(Detections) /\ Falling(p.detections)
    BY DEF Images
  <1>2. OfClass(p.objects, c) \in Seq(Objects)
    <2> DEFINE S == {i \in DOMAIN p.objects : p.objects[i].class = c}
    <2>1. S \in SUBSET DOMAIN p.objects
      OBVIOUS
    <2>2. OfClass(p.objects, c) = At(p.objects, S)
      BY DEF OfClass
    <2> HIDE DEF S
    <2> QED BY <1>1, <2>1, <2>2, AtType
  <1> QED BY <1>1, <1>2, OfClassIs

\* In every image _match_image is the greedy matching.
LEMMA ImagesAreMatched ==
    ASSUME NEW p \in Images, NEW c, NEW threshold \in Thresholds
    PROVE  IsMatching(OfClass(p.objects, c), OfClass(p.detections, c), threshold,
                      MatchImage(OfClass(p.objects, c), OfClass(p.detections, c), threshold))
  BY ImageOfClass, MatchImageIs

\* The results of an image under a cap, and its hits.
ImageResults(p, c, threshold, n) ==
    MatchImage(OfClass(p.objects, c), Capped(p.detections, c, n), threshold)
ImageTruths(p, c) ==
    Cardinality({k \in DOMAIN OfClass(p.objects, c) : ~OfClass(p.objects, c)[k].ignore})

\* An image has no more hits than objects, and than detections that are looked at.
LEMMA ImageHits ==
    ASSUME NEW p \in Images, NEW c, NEW threshold \in Thresholds, NEW n \in Nat
    PROVE  /\ ImageResults(p, c, threshold, n) \in Seq(Results)
           /\ Found(ImageResults(p, c, threshold, n)) \in Nat
           /\ Found(ImageResults(p, c, threshold, n)) <= ImageTruths(p, c)
           /\ ImageTruths(p, c) \in Nat
           /\ Found(ImageResults(p, c, threshold, n)) <= Cardinality(CapOfClass(p.detections, c, n))
  <1> DEFINE o == OfClass(p.objects, c)
             d == Capped(p.detections, c, n)
             r == MatchImage(o, d, threshold)
  <1>1. o \in Seq(Objects) /\ p.detections \in Seq(Detections) /\ Falling(p.detections)
    BY ImageOfClass
  <1>2. d \in Seq(Detections) /\ Falling(d) /\ Len(d) = Cardinality(CapOfClass(p.detections, c, n))
    BY <1>1, CappedIs
  <1> HIDE DEF o, d
  <1>3. r \in Seq(Results) /\ Len(r) = Len(d) /\ IsMatching(o, d, threshold, r)
    BY <1>1, <1>2, MatchImageIs
  <1> HIDE DEF r
  <1>4. /\ Found(r) <= Cardinality({i \in DOMAIN o : ~o[i].ignore})
        /\ Cardinality({i \in DOMAIN o : ~o[i].ignore}) \in Nat
        /\ Found(r) <= Len(d) /\ Found(r) \in Nat
    BY <1>1, <1>2, <1>3, HitsBounded
  <1> QED BY <1>2, <1>3, <1>4 DEF ImageResults, ImageTruths, o, d, r

\* The matches of a class are those of the images together, ranked.
LEMMA MatchesAre ==
    ASSUME NEW p \in Seq(Images), p # <<>>, NEW c, NEW threshold \in Thresholds, NEW n \in Nat
    PROVE  /\ Len(Matches(p, c, threshold, n)) \in Nat
           /\ DOMAIN Matches(p, c, threshold, n) = 1 .. Len(Matches(p, c, threshold, n))
           /\ Found(Matches(p, c, threshold, n))
                = SumFunctionOnSet([i \in DOMAIN p |-> Found(ImageResults(p[i], c, threshold, n))],
                                   DOMAIN p)
  <1> DEFINE m == Len(p)
             s == [i \in 1 .. m |-> ImageResults(p[i], c, threshold, n)]
             f == [i \in 1 .. m |-> Found(ImageResults(p[i], c, threshold, n))]
             r == FlattenSeq(s)
  <1>1. m \in Nat /\ m # 0 /\ DOMAIN p = 1 .. m /\ \A i \in 1 .. m : p[i] \in Images
    OBVIOUS
  <1>2. Matches(p, c, threshold, n) = ByScore(r)
    BY <1>1 DEF Matches, ImageResults
  <1> HIDE DEF m
  <1>3. \A i \in 1 .. m : ImageResults(p[i], c, threshold, n) \in Seq(Results)
    BY <1>1, ImageHits
  <1>4. s \in Seq(Seq(Results)) /\ Len(s) = m /\ s # <<>>
    <2> DEFINE e(i) == ImageResults(p[i], c, threshold, n)
               V == Seq(Results)
    <2>1. \A i \in 1 .. m : e(i) \in V
      BY <1>3
    <2> HIDE DEF e, V
    <2>2. [i \in 1 .. m |-> e(i)] \in Seq(V) /\ Len([i \in 1 .. m |-> e(i)]) = m
      BY <1>1, <2>1
    <2>3. s \in Seq(V) /\ Len(s) = m
      BY <2>2 DEF e
    <2> HIDE DEF s
    <2>4. s # <<>>
      BY <1>1, <2>3
    <2> QED BY <2>3, <2>4 DEF V
  <1>5. \A i \in 1 .. m : f[i] = Found(s[i])
    OBVIOUS
  <1> HIDE DEF s, f
  <1>6. \A i \in 1 .. Len(s) : f[i] = Found(s[i])
    BY <1>4, <1>5
  <1>7. r \in Seq(Results) /\ Found(r) = SumFunctionOnSet(f, 1 .. Len(s))
    BY <1>4, <1>6, FoundSums
  <1> HIDE DEF r
  <1>8. Len(r) \in Nat
    BY <1>7
  <1>9. /\ DOMAIN ByScore(r) = 1 .. Len(r) /\ Len(ByScore(r)) = Len(r)
        /\ Found(ByScore(r)) = Found(r)
    BY <1>7, RankedFound
  <1> QED BY <1>1, <1>2, <1>4, <1>7, <1>8, <1>9 DEF f

-----------------------------------------------------------------------------
(* Recall.                                                                 *)

\* Recall is at most one.
LEMMA RecallBounded ==
    ASSUME NEW p \in Seq(Images), p # <<>>, NEW c, NEW threshold \in Thresholds, NEW n \in Nat
    PROVE  Found(Matches(p, c, threshold, n)) <= Truths(p, c)
  <1> DEFINE D == DOMAIN p
             f == [i \in D |-> Found(ImageResults(p[i], c, threshold, n))]
             d == [i \in D |-> ImageTruths(p[i], c)]
  <1>1. IsFiniteSet(D) /\ \A i \in D : p[i] \in Images
    <2>1. Len(p) \in Nat /\ D = 1 .. Len(p)
      OBVIOUS
    <2>2. IsFiniteSet(D)
      BY <2>1, SegmentSize
    <2> QED BY <2>2
  <1>2. Found(Matches(p, c, threshold, n)) = SumFunctionOnSet(f, D)
    BY MatchesAre
  <1>3. Truths(p, c) = SumFunctionOnSet(d, D)
    BY DEF Truths, ImageTruths, SumFunction
  <1> HIDE DEF D
  <1>4. ASSUME NEW i \in D PROVE f[i] \in Int /\ d[i] \in Int /\ f[i] <= d[i]
    <2>1. /\ Found(ImageResults(p[i], c, threshold, n)) \in Nat /\ ImageTruths(p[i], c) \in Nat
          /\ Found(ImageResults(p[i], c, threshold, n)) <= ImageTruths(p[i], c)
      BY <1>1, ImageHits
    <2> QED BY <2>1
  <1> HIDE DEF f, d
  <1>5. SumFunctionOnSet(f, D) <= SumFunctionOnSet(d, D)
    <2>1. D \in SUBSET D /\ \A i \in D \ D : d[i] \in Nat
      OBVIOUS
    <2> QED BY <1>1, <1>4, <2>1, SumGrows
  <1> QED BY <1>2, <1>3, <1>5

\* A larger cap finds no less.
LEMMA FoundGrows ==
    ASSUME NEW p \in Seq(Images), p # <<>>, NEW c, NEW threshold \in Thresholds,
           NEW n \in Nat, NEW m \in Nat, n <= m
    PROVE  Found(Matches(p, c, threshold, n)) <= Found(Matches(p, c, threshold, m))
  <1> DEFINE D == DOMAIN p
             f == [i \in D |-> Found(ImageResults(p[i], c, threshold, n))]
             d == [i \in D |-> Found(ImageResults(p[i], c, threshold, m))]
  <1>1. IsFiniteSet(D) /\ \A i \in D : p[i] \in Images
    <2>1. Len(p) \in Nat /\ D = 1 .. Len(p)
      OBVIOUS
    <2>2. IsFiniteSet(D)
      BY <2>1, SegmentSize
    <2> QED BY <2>2
  <1>2. Found(Matches(p, c, threshold, n)) = SumFunctionOnSet(f, D)
    BY MatchesAre
  <1>3. Found(Matches(p, c, threshold, m)) = SumFunctionOnSet(d, D)
    BY MatchesAre
  <1> HIDE DEF D
  <1>4. ASSUME NEW i \in D PROVE f[i] \in Int /\ d[i] \in Int /\ f[i] <= d[i]
    <2>1. /\ Found(ImageResults(p[i], c, threshold, n)) \in Nat
          /\ Found(ImageResults(p[i], c, threshold, m)) \in Nat
      BY <1>1, ImageHits
    <2>2. Found(ImageResults(p[i], c, threshold, n)) <= Found(ImageResults(p[i], c, threshold, m))
      <3>1. /\ OfClass(p[i].objects, c) \in Seq(Objects)
            /\ p[i].detections \in Seq(Detections) /\ Falling(p[i].detections)
        BY <1>1, ImageOfClass
      <3> QED BY <3>1, HitsGrow DEF ImageResults
    <2> QED BY <2>1, <2>2
  <1> HIDE DEF f, d
  <1>5. SumFunctionOnSet(f, D) <= SumFunctionOnSet(d, D)
    <2>1. D \in SUBSET D /\ \A i \in D \ D : d[i] \in Nat
      OBVIOUS
    <2> QED BY <1>1, <1>4, <2>1, SumGrows
  <1> QED BY <1>2, <1>3, <1>5

\* The detections of a class that are looked at, as places in images.
LookedAt(p, c, n) == UNION {{i} \X CapOfClass(p[i].detections, c, n) : i \in DOMAIN p}

\* There are no more hits of a class than detections that are looked at.
LEMMA FoundLookedAt ==
    ASSUME NEW p \in Seq(Images), p # <<>>, NEW c, NEW threshold \in Thresholds, NEW n \in Nat
    PROVE  /\ IsFiniteSet(LookedAt(p, c, n))
           /\ Found(Matches(p, c, threshold, n)) \in Int
           /\ Found(Matches(p, c, threshold, n)) <= Cardinality(LookedAt(p, c, n))
  <1> DEFINE D == DOMAIN p
             f == [i \in D |-> Found(ImageResults(p[i], c, threshold, n))]
             S(i) == CapOfClass(p[i].detections, c, n)
             F == [i \in D |-> {i} \X S(i)]
             d == [i \in D |-> Cardinality(S(i))]
  <1>1. IsFiniteSet(D) /\ \A i \in D : p[i] \in Images
    <2>1. Len(p) \in Nat /\ D = 1 .. Len(p)
      OBVIOUS
    <2>2. IsFiniteSet(D)
      BY <2>1, SegmentSize
    <2> QED BY <2>2
  <1>2. Found(Matches(p, c, threshold, n)) = SumFunctionOnSet(f, D)
    BY MatchesAre
  <1>3. LookedAt(p, c, n) = UNION {F[i] : i \in D}
    BY DEF LookedAt
  <1> HIDE DEF D
  <1>4. ASSUME NEW i \in D PROVE IsFiniteSet(S(i)) /\ Cardinality(S(i)) \in Nat
    <2>1. p[i].detections \in Seq(Detections) /\ Falling(p[i].detections)
      BY <1>1, ImageOfClass
    <2>2. Cap(p[i].detections, n) \in Nat
      BY <2>1, CappedIs
    <2>3. IsFiniteSet(1 .. Cap(p[i].detections, n))
      BY <2>2, SegmentSize
    <2>4. S(i) \in SUBSET (1 .. Cap(p[i].detections, n))
      BY DEF CapOfClass
    <2> HIDE DEF S
    <2> QED BY <2>3, <2>4, FS_Subset, FS_CardinalityType
  <1>5. ASSUME NEW i \in D PROVE f[i] \in Int /\ f[i] <= Cardinality(S(i))
    <2>1. /\ Found(ImageResults(p[i], c, threshold, n)) \in Nat
          /\ Found(ImageResults(p[i], c, threshold, n)) <= Cardinality(S(i))
      BY <1>1, ImageHits
    <2> QED BY <2>1
  <1> HIDE DEF S, f
  <1>6. ASSUME NEW i \in D PROVE IsFiniteSet(F[i]) /\ d[i] = Cardinality(F[i])
    <2>1. IsFiniteSet({i}) /\ Cardinality({i}) = 1
      BY FS_Singleton
    <2>2. IsFiniteSet({i} \X S(i)) /\ Cardinality({i} \X S(i)) = 1 * Cardinality(S(i))
      BY <1>4, <2>1, FS_Product
    <2> QED BY <1>4, <2>2
  <1>7. \A i, j \in D : i # j => F[i] \cap F[j] = {}
    OBVIOUS
  <1>8. \A i \in D : f[i] \in Int /\ d[i] \in Int /\ f[i] <= d[i]
    BY <1>4, <1>5
  <1> HIDE DEF F, d
  <1>9. /\ IsFiniteSet(UNION {F[i] : i \in D})
        /\ Cardinality(UNION {F[i] : i \in D}) = SumFunctionOnSet(d, D)
    BY <1>1, <1>6, <1>7, UnionCounts
  <1>10. SumFunctionOnSet(f, D) \in Int /\ SumFunctionOnSet(f, D) <= SumFunctionOnSet(d, D)
    <2>1. D \in SUBSET D /\ \A i \in D \ D : d[i] \in Nat
      OBVIOUS
    <2> QED BY <1>1, <1>8, <2>1, SumGrows
  <1> QED BY <1>2, <1>3, <1>9, <1>10

\* No image contributes more hits, of all classes, than the cap.
LEMMA FoundOfAllClasses ==
    ASSUME NEW p \in Seq(Images), p # <<>>, NEW C, IsFiniteSet(C),
           NEW threshold \in Thresholds, NEW n \in Nat,
           NEW f, \A c \in C : f[c] = Found(Matches(p, c, threshold, n))
    PROVE  SumFunctionOnSet(f, C) <= n * Len(p)
  <1> DEFINE m == Len(p)
             F == [c \in C |-> LookedAt(p, c, n)]
             d == [c \in C |-> Cardinality(F[c])]
             U == UNION {F[c] : c \in C}
             All == (1 .. m) \X (1 .. n)
  <1>1. m \in Nat /\ DOMAIN p = 1 .. m /\ \A i \in 1 .. m : p[i] \in Images
    OBVIOUS
  <1> HIDE DEF m
  <1>2. \A c \in C : IsFiniteSet(F[c]) /\ d[c] = Cardinality(F[c])
    BY FoundLookedAt
  <1>3. \A c \in C : f[c] \in Int /\ f[c] <= Cardinality(F[c])
    BY FoundLookedAt
  <1>4. \A c \in C : \A w \in F[c] :
           /\ w = <<w[1], w[2]>> /\ w[1] \in 1 .. m
           /\ w[2] \in CapOfClass(p[w[1]].detections, c, n)
    BY <1>1 DEF LookedAt
  <1> HIDE DEF F
  <1>5. \A b, c \in C : b # c => F[b] \cap F[c] = {}
    <2> SUFFICES ASSUME NEW b \in C, NEW c \in C, NEW w \in (F[b] \cap F[c]) PROVE b = c
      OBVIOUS
    <2>1. /\ w[2] \in CapOfClass(p[w[1]].detections, b, n)
          /\ w[2] \in CapOfClass(p[w[1]].detections, c, n)
      BY <1>4
    <2> QED BY <2>1 DEF CapOfClass
  <1>6. U \in SUBSET All
    <2> SUFFICES ASSUME NEW c \in C, NEW w \in F[c] PROVE w \in All
      OBVIOUS
    <2> DEFINE i == w[1]
               s == p[i].detections
    <2>1. w = <<i, w[2]>> /\ i \in 1 .. m /\ w[2] \in CapOfClass(s, c, n)
      BY <1>4
    <2>2. s \in Seq(Detections) /\ Falling(s)
      BY <1>1, <2>1, ImageOfClass
    <2> HIDE DEF s
    <2>3. Cap(s, n) \in Nat /\ Cap(s, n) <= n
      BY <2>2, CappedIs
    <2>4. w[2] \in 1 .. Cap(s, n)
      BY <2>1 DEF CapOfClass
    <2>5. w[2] \in 1 .. n
      BY <2>3, <2>4
    <2> QED BY <2>1, <2>5
  <1>7. IsFiniteSet(All) /\ Cardinality(All) = m * n
    <2>1. IsFiniteSet(1 .. m) /\ Cardinality(1 .. m) = m
      BY <1>1, SegmentSize
    <2>2. IsFiniteSet(1 .. n) /\ Cardinality(1 .. n) = n
      BY SegmentSize
    <2> QED BY <2>1, <2>2, FS_Product
  <1> HIDE DEF All
  <1>8. \A c \in C : d[c] \in Nat
    BY <1>2, FS_CardinalityType
  <1>9. \A c \in C : f[c] \in Int /\ d[c] \in Int /\ f[c] <= d[c]
    BY <1>2, <1>3, <1>8
  <1> HIDE DEF d
  <1>10. IsFiniteSet(U) /\ Cardinality(U) = SumFunctionOnSet(d, C)
    BY <1>2, <1>5, UnionCounts
  <1> HIDE DEF U
  <1>11. Cardinality(U) <= m * n
    BY <1>6, <1>7, FS_Subset
  <1>12. /\ SumFunctionOnSet(f, C) \in Int /\ SumFunctionOnSet(d, C) \in Int
         /\ SumFunctionOnSet(f, C) <= SumFunctionOnSet(d, C)
    <2>1. C \in SUBSET C /\ \A c \in C \ C : d[c] \in Nat
      OBVIOUS
    <2> QED BY <1>9, <2>1, SumGrows
  <1>13. m * n = n * m /\ m * n \in Int
    BY <1>1
  <1>14. SumFunctionOnSet(f, C) <= n * m
    BY <1>10, <1>11, <1>12, <1>13
  <1> QED BY <1>14 DEF m

\* There are finitely many classes to average over.
LEMMA AvailableFinite ==
    ASSUME NEW p \in Seq(Images)
    PROVE  IsFiniteSet(Available(p))
  <1> DEFINE Of(q) == {o.class : o \in {o \in ToSet(q.objects) : ~o.ignore}}
             A == {Of(q) : q \in ToSet(p)}
  <1>1. ASSUME NEW V, NEW s \in Seq(V) PROVE IsFiniteSet(ToSet(s)) /\ ToSet(s) \in SUBSET V
    <2>1. Len(s) \in Nat /\ DOMAIN s = 1 .. Len(s) /\ \A i \in 1 .. Len(s) : s[i] \in V
      BY <1>1
    <2>2. IsFiniteSet(1 .. Len(s))
      BY <2>1, SegmentSize
    <2>3. IsFiniteSet({s[i] : i \in 1 .. Len(s)})
      BY <2>2, ImageIsFinite
    <2> QED BY <2>1, <2>3 DEF ToSet
  <1>2. ASSUME NEW q \in Images PROVE IsFiniteSet(Of(q))
    <2> DEFINE R == {o \in ToSet(q.objects) : ~o.ignore}
               g == [o \in R |-> o.class]
    <2>1. q.objects \in Seq(Objects)
      BY DEF Images
    <2>2. IsFiniteSet(ToSet(q.objects))
      BY <1>1, <2>1
    <2>3. IsFiniteSet(R)
      BY <2>2, FS_Subset
    <2>4. Of(q) = {g[o] : o \in R}
      OBVIOUS
    <2> HIDE DEF R, g, Of
    <2> QED BY <2>3, <2>4, ImageIsFinite
  <1>3. IsFiniteSet(A)
    <2> DEFINE T == ToSet(p)
               g == [q \in T |-> Of(q)]
    <2>1. IsFiniteSet(T)
      BY <1>1
    <2>2. A = {g[q] : q \in T}
      OBVIOUS
    <2> HIDE DEF T, g, A
    <2> QED BY <2>1, <2>2, ImageIsFinite
  <1>4. \A a \in A : IsFiniteSet(a)
    <2>1. ToSet(p) \in SUBSET Images
      BY <1>1
    <2> HIDE DEF Of
    <2> QED BY <1>2, <2>1
  <1>5. Available(p) = UNION A
    BY DEF Available
  <1> HIDE DEF A
  <1> QED BY <1>3, <1>4, <1>5, FS_UNION

-----------------------------------------------------------------------------
(* What score.py has written.                                              *)

\* The metrics are those of documents that were accepted.
Outcome ==
    script = "scored" =>
        /\ at = "returned" /\ labels \in LabelFiles[task] /\ Accepts(labels)
        /\ metrics = IF task = "object_detection" THEN ScoreDetection(labels, predictions)
                     ELSE ScoreClassification(labels, predictions)

\* Only Score writes metrics, and nothing they depend on changes afterwards.
LEMMA OutcomeKept == ASSUME Inv, Outcome, [Next]_vars PROVE Outcome'
  <1>1. CASE Score
    <2>1. UNCHANGED <<dataset, provider>> /\ at = "returned"
      BY <1>1 DEF Score
    <2>2. PICK l \in LabelFiles[task] :
             /\ labels' = l
             /\ IF Accepts(l)
                THEN /\ script' = "scored"
                     /\ metrics' = IF task = "object_detection"
                                   THEN ScoreDetection(l, predictions)
                                   ELSE ScoreClassification(l, predictions)
                ELSE script' = "failed" /\ UNCHANGED metrics
      BY <1>1 DEF Score
    <2>3. task' = task /\ at' = at /\ predictions' = predictions
      BY <2>1 DEF dataset, provider
    <2>4. CASE Accepts(l)
      <3>1. Accepts(labels)'
        BY <2>2, <2>3, <2>4 DEF Accepts
      <3> QED BY <2>1, <2>2, <2>3, <2>4, <3>1 DEF Outcome
    <2>5. CASE ~Accepts(l)
      BY <2>2, <2>5 DEF Outcome
    <2> QED BY <2>4, <2>5
  <1>2. CASE Provider \/ ReceiveTimeout
    <2>1. UNCHANGED host
      BY <1>2 DEF Provider, StageSubmission, SpawnWorker, AwaitReady, LoadData, SendChunk,
             SendBroken, ReceiveAnswer, ReceiveEnd, ReceiveTimeout, SendEnd, WaitWorker,
             CloseEnds, PollWorker, KillWorker, ReapWorker
    <2>2. at # "returned"
      BY <1>2 DEF Provider, StageSubmission, SpawnWorker, AwaitReady, LoadData, SendChunk,
             SendBroken, ReceiveAnswer, ReceiveEnd, ReceiveTimeout, SendEnd, WaitWorker,
             CloseEnds, PollWorker, KillWorker, ReapWorker
    <2> QED BY <2>1, <2>2 DEF Outcome, host
  <1>3. CASE UNCHANGED <<dataset, provider>> /\ (UNCHANGED host \/ script' # "scored")
    <2>1. task' = task /\ at' = at /\ predictions' = predictions
      BY <1>3 DEF dataset, provider
    <2>2. CASE UNCHANGED host
      <3>1. labels' = labels /\ metrics' = metrics /\ script' = script
        BY <2>2 DEF host
      <3>2. Accepts(labels)' = Accepts(labels)
        BY <2>1, <3>1 DEF Accepts
      <3> QED BY <2>1, <3>1, <3>2 DEF Outcome
    <2>3. CASE script' # "scored"
      BY <2>3 DEF Outcome
    <2> QED BY <1>3, <2>2, <2>3
  <1>4. CASE WorkerCode \/ HookCode \/ Submission \/ WorkerKilled \/ UNCHANGED vars
    <2>1. UNCHANGED <<dataset, provider, host>>
      BY <1>4 DEF Submission, HookForks, HelperEnds, HookHangs, WorkerCode, DropPrivileges,
             ReadChunk, ReadEnd, WorkerExits, HookCode,
             LoadHooks, HookNext, HookFails, Answer, HookExits, WorkerKilled, vars, provider
    <2> QED BY <1>3, <2>1
  <1>5. CASE InferenceFails \/ ClientTimeout
    BY <1>3, <1>5 DEF InferenceFails, ClientTimeout
  <1> QED BY <1>1, <1>2, <1>4, <1>5 DEF Next

\* So they are always those of the documents.
LEMMA OutcomeAlways == Spec => [](Inv /\ Outcome)
  <1>1. Init => Outcome
    BY DEF Init, Outcome
  <1>2. Inv /\ Outcome /\ [Next]_vars => (Inv /\ Outcome)'
    BY InvStep, OutcomeKept
  <1> QED BY <1>1, <1>2, InvInit, PTL DEF Spec

\* What the documents of an evaluation with metrics are.
LEMMA OutcomeIs ==
    ASSUME Inv, Outcome, script = "scored"
    PROVE  /\ labels \in Seq(Labels) /\ labels # <<>>
           /\ Len(labels) = Examples /\ Len(predictions) = Examples
           /\ DOMAIN labels = 1 .. Examples /\ DOMAIN predictions = 1 .. Examples
           /\ predictions \in Seq(PredictionRecord)
           /\ \A i \in 1 .. Examples : predictions[i].id = i
           /\ \A i, j \in 1 .. Examples : labels[i].id = labels[j].id => i = j
           /\ \A i \in 1 .. Examples : labels[i].id \in 1 .. Examples
           /\ \A j \in 1 .. Examples : \E i \in 1 .. Examples : labels[i].id = j
           /\ \A j \in 1 .. Examples : ItemOf(predictions, j) = predictions[j]
  <1>1. /\ at = "returned" /\ labels \in LabelFiles[task] /\ SameExamples(labels, predictions)
        /\ task \in Tasks
    BY DEF Outcome, Accepts, Inv, Scalars
  <1>2. Len(predictions) = Examples /\ predictions \in Seq(PredictionRecord)
    BY <1>1 DEF Inv, Progress, Queues
  <1>3. labels \in Seq(Labels)
    BY <1>1, EvaluatorAssumption
  <1>4. Len(labels) > 0 /\ Len(labels) = Examples
    BY <1>1, <1>2 DEF SameExamples
  <1>5. labels # <<>> /\ DOMAIN labels = 1 .. Examples /\ DOMAIN predictions = 1 .. Examples
    BY <1>2, <1>3, <1>4
  <1>6. \A i \in 1 .. Examples : predictions[i].id = i
    BY <1>5 DEF Inv, InStep, AnswersTheirOwn
  <1>7. \A i, j \in 1 .. Examples : labels[i].id = labels[j].id => i = j
    BY <1>1, <1>5 DEF SameExamples, Ids, IsInjective
  <1>8. {labels[i].id : i \in 1 .. Examples} = 1 .. Examples
    <2>1. ToSet(Ids(labels)) = {labels[i].id : i \in 1 .. Examples}
      BY <1>5 DEF ToSet, Ids
    <2>2. ToSet(Ids(predictions)) = {predictions[i].id : i \in 1 .. Examples}
      BY <1>5 DEF ToSet, Ids
    <2>3. {predictions[i].id : i \in 1 .. Examples} = 1 .. Examples
      BY <1>6
    <2> QED BY <1>1, <2>1, <2>2, <2>3 DEF SameExamples
  <1>9. /\ \A i \in 1 .. Examples : labels[i].id \in 1 .. Examples
        /\ \A j \in 1 .. Examples : \E i \in 1 .. Examples : labels[i].id = j
    BY <1>8
  <1>10. ASSUME NEW j \in 1 .. Examples PROVE ItemOf(predictions, j) = predictions[j]
    BY <1>5, <1>6 DEF ItemOf
  <1> QED BY <1>2, <1>3, <1>4, <1>5, <1>6, <1>7, <1>9, <1>10

\* The documents have passed validation.
LEMMA OutcomeDocuments ==
    ASSUME Inv, Outcome, script = "scored"
    PROVE  Documents(labels, predictions)
  <1>1. /\ labels \in Seq(Labels) /\ labels # <<>>
        /\ DOMAIN labels = 1 .. Examples /\ DOMAIN predictions = 1 .. Examples
        /\ predictions \in Seq(PredictionRecord)
        /\ \A i \in 1 .. Examples : labels[i].id \in 1 .. Examples
        /\ \A j \in 1 .. Examples : ItemOf(predictions, j) = predictions[j]
    BY OutcomeIs
  <1>2. ASSUME NEW j \in 1 .. Examples PROVE predictions[j].detections \in Seq(Detections)
    <2>1. predictions[j] \in PredictionRecord
      <3> DEFINE V == PredictionRecord
      <3>1. predictions \in Seq(V) /\ j \in DOMAIN predictions
        BY <1>1
      <3> HIDE DEF V
      <3>2. predictions[j] \in V
        BY <3>1
      <3> QED BY <3>2 DEF V
    <2>2. PICK d \in {<<>>} \cup DetectionAnswers : predictions[j].detections = ByScore(d)
      BY <2>1 DEF PredictionRecord
    <2>3. d \in Seq(Detections)
      <3>1. <<>> \in Seq(Detections)
        OBVIOUS
      <3>2. DetectionAnswers \subseteq Seq(Detections)
        BY EvaluatorAssumption
      <3> QED BY <3>1, <3>2
    <2> QED BY <2>2, <2>3, SortedDetections
  <1>3. ASSUME NEW i \in DOMAIN labels
        PROVE  ItemOf(predictions, labels[i].id).detections \in Seq(Detections)
    BY <1>1, <1>2
  <1> QED BY <1>1, <1>3 DEF Documents

\* The terms of ScoreDetection.
LEMMA DetectionTerms ==
    ASSUME NEW p, NEW l, NEW q, p = PreparedAll(l, q), NEW c \in Available(p), NEW t \in Thresholds
    PROVE  /\ ScoreDetection(l, q)[c][t].truths = Truths(p, c)
           /\ \A n \in recall_limits : ScoreDetection(l, q)[c][t].ar[n] = Found(Matches(p, c, t, n))
           /\ ScoreDetection(l, q)[c][t].ap = VocAp(Matches(p, c, t, maximum_detections))
  BY DEF ScoreDetection

\* There are terms for every class with an object that is not ignored.
LEMMA DetectionClasses ==
    ASSUME NEW l, NEW q
    PROVE  DOMAIN ScoreDetection(l, q) = Available(PreparedAll(l, q))
  BY DEF ScoreDetection

\* top1_accuracy counts every example once.
LEMMA ClassesCounted ==
    ASSUME Inv, Outcome, script = "scored"
    PROVE  ScoreClassification(labels, predictions)
              = Cardinality({ i \in 1 .. Examples :
                    \E l \in ToSet(labels) :
                        l.id = predictions[i].id /\ l.class = predictions[i].class })
  <1> DEFINE X == {i \in 1 .. Examples : predictions[labels[i].id].class = labels[i].class}
             Y == { i \in 1 .. Examples :
                      \E k \in 1 .. Examples :
                         labels[k].id = i /\ labels[k].class = predictions[i].class }
             h == [i \in X |-> labels[i].id]
  <1>1. /\ DOMAIN labels = 1 .. Examples
        /\ \A i \in 1 .. Examples : predictions[i].id = i
        /\ \A i, j \in 1 .. Examples : labels[i].id = labels[j].id => i = j
        /\ \A i \in 1 .. Examples : labels[i].id \in 1 .. Examples
        /\ \A j \in 1 .. Examples : ItemOf(predictions, j) = predictions[j]
    BY OutcomeIs
  <1>2. ScoreClassification(labels, predictions) = Cardinality(X)
    <2>1. \A i \in 1 .. Examples : ItemOf(predictions, labels[i].id) = predictions[labels[i].id]
      BY <1>1
    <2>2. X = {i \in DOMAIN labels : ItemOf(predictions, labels[i].id).class = labels[i].class}
      BY <1>1, <2>1
    <2> QED BY <2>2 DEF ScoreClassification
  <1>3. Y = { i \in 1 .. Examples :
                \E l \in ToSet(labels) :
                   l.id = predictions[i].id /\ l.class = predictions[i].class }
    BY <1>1 DEF ToSet
  <1>4. IsFiniteSet(X)
    <2>1. IsFiniteSet(1 .. Examples)
      BY EvaluatorAssumption, SegmentSize
    <2>2. X \in SUBSET (1 .. Examples)
      OBVIOUS
    <2> QED BY <2>1, <2>2, FS_Subset
  <1>5. h \in [X -> Y]
    BY <1>1
  <1>6. \A i, j \in X : h[i] = h[j] => i = j
    BY <1>1
  <1>7. \A y \in Y : \E x \in X : h[x] = y
    BY <1>1
  <1> HIDE DEF h, X, Y
  <1>8. h \in Bijection(X, Y)
    BY <1>5, <1>6, <1>7 DEF Bijection, Injection, Surjection, IsInjective
  <1>9. Cardinality(Y) = Cardinality(X)
    BY <1>4, <1>8, FS_Bijection DEF ExistsBijection
  <1> QED BY <1>2, <1>3, <1>9

\* Metrics are about all examples, and are what their definitions say.
LEMMA MetricsHold == ASSUME Inv, Outcome PROVE MetricsAreReference
  <1> SUFFICES ASSUME script = "scored"
               PROVE  /\ {p.id : p \in ToSet(predictions)} = {l.id : l \in ToSet(labels)}
                      /\ Len(predictions) = Examples
                      /\ IF task = "image_classification"
                         THEN metrics = Cardinality({ i \in 1 .. Examples :
                                  \E l \in ToSet(labels) :
                                      l.id = predictions[i].id /\ l.class = predictions[i].class })
                         ELSE \A c \in DOMAIN metrics, t \in Thresholds :
                                  LET m == Matches(PreparedAll(labels, predictions), c, t,
                                                   maximum_detections)
                                  IN  IsAveragePrecision(m, metrics[c][t].ap)
    BY DEF MetricsAreReference
  <1>1. /\ DOMAIN labels = 1 .. Examples /\ DOMAIN predictions = 1 .. Examples
        /\ Len(predictions) = Examples
        /\ \A i \in 1 .. Examples : predictions[i].id = i
        /\ \A i \in 1 .. Examples : labels[i].id \in 1 .. Examples
        /\ \A j \in 1 .. Examples : \E i \in 1 .. Examples : labels[i].id = j
    BY OutcomeIs
  <1>2. {p.id : p \in ToSet(predictions)} = {l.id : l \in ToSet(labels)}
    <2>1. ToSet(predictions) = {predictions[i] : i \in 1 .. Examples}
      BY <1>1 DEF ToSet
    <2>2. ToSet(labels) = {labels[i] : i \in 1 .. Examples}
      BY <1>1 DEF ToSet
    <2>3. {p.id : p \in ToSet(predictions)} = 1 .. Examples
      <3>1. \A p \in ToSet(predictions) : p.id \in 1 .. Examples
        BY <1>1, <2>1
      <3>2. \A i \in 1 .. Examples : \E p \in ToSet(predictions) : p.id = i
        BY <1>1, <2>1
      <3> QED BY <3>1, <3>2
    <2>4. {l.id : l \in ToSet(labels)} = 1 .. Examples
      <3>1. \A l \in ToSet(labels) : l.id \in 1 .. Examples
        BY <1>1, <2>2
      <3>2. \A i \in 1 .. Examples : \E l \in ToSet(labels) : l.id = i
        BY <1>1, <2>2
      <3> QED BY <3>1, <3>2
    <2> QED BY <2>3, <2>4
  <1>3. CASE task = "image_classification"
    <2>1. metrics = ScoreClassification(labels, predictions)
      BY <1>3 DEF Outcome
    <2> QED BY <1>1, <1>2, <1>3, <2>1, ClassesCounted
  <1>4. CASE task # "image_classification"
    <2> DEFINE p == PreparedAll(labels, predictions)
               m(c, t) == Matches(p, c, t, maximum_detections)
    <2>1. task = "object_detection"
      BY <1>4, EvaluatorAssumption DEF Inv, Scalars
    <2>2. metrics = ScoreDetection(labels, predictions)
      BY <2>1 DEF Outcome
    <2>3. p \in Seq(Images) /\ p # <<>>
      <3>1. p \in Seq(Images) /\ Len(p) = Len(labels) /\ Len(labels) \in Nat \ {0}
        BY OutcomeDocuments, PreparedAllIs
      <3> HIDE DEF p
      <3> QED BY <3>1
    <2>4. DOMAIN metrics = Available(p)
      BY <2>2, DetectionClasses
    <2>5. ASSUME NEW c \in Available(p), NEW t \in Thresholds
          PROVE  IsAveragePrecision(m(c, t), metrics[c][t].ap)
      <3>1. metrics[c][t].ap = VocAp(m(c, t))
        BY <2>2, DetectionTerms
      <3>2. maximum_detections \in Nat
        BY ScorerAssumption
      <3> HIDE DEF p
      <3>3. Len(m(c, t)) \in Nat /\ DOMAIN m(c, t) = 1 .. Len(m(c, t))
        BY <2>3, <3>2, MatchesAre
      <3> HIDE DEF m
      <3>4. IsAveragePrecision(m(c, t), VocAp(m(c, t)))
        BY <3>3, EnvelopeIsBest
      <3> QED BY <3>1, <3>4
    <2>6. \A c \in DOMAIN metrics, t \in Thresholds : IsAveragePrecision(m(c, t), metrics[c][t].ap)
      <3> HIDE DEF m
      <3> QED BY <2>4, <2>5
    <2> QED BY <1>1, <1>2, <1>4, <2>6
  <1> QED BY <1>3, <1>4

\* Every detection is given the object that the definition gives it.
LEMMA MatchingHolds == ASSUME Inv, Outcome PROVE MatchingIsGreedy
  <1> SUFFICES ASSUME script = "scored", task = "object_detection",
                      NEW i \in DOMAIN labels, NEW c \in DOMAIN metrics, NEW t \in Thresholds
               PROVE  LET p == Prepared(labels[i], predictions)
                          objects == OfClass(p.objects, c)
                          ranked == OfClass(p.detections, c)
                      IN  IsMatching(objects, ranked, t, MatchImage(objects, ranked, t))
    BY DEF MatchingIsGreedy
  <1>1. Prepared(labels[i], predictions) \in Images
    BY OutcomeDocuments, PreparedIs
  <1> QED BY <1>1, ImagesAreMatched

\* Recall never exceeds one, grows with the limit, and the limit is for all classes.
LEMMA RecallHolds == ASSUME Inv, Outcome PROVE RecallGrows
  <1> SUFFICES ASSUME script = "scored", task = "object_detection" PROVE RecallGrows
    BY DEF RecallGrows
  <1> DEFINE p == PreparedAll(labels, predictions)
             C == DOMAIN metrics
  <1>1. metrics = ScoreDetection(labels, predictions)
    BY DEF Outcome
  <1>2. p \in Seq(Images) /\ p # <<>> /\ Len(p) = Len(labels)
    <2>1. p \in Seq(Images) /\ Len(p) = Len(labels) /\ Len(labels) \in Nat \ {0}
      BY OutcomeDocuments, PreparedAllIs
    <2> HIDE DEF p
    <2> QED BY <2>1
  <1>3. C = Available(p)
    BY <1>1, DetectionClasses
  <1>4. ASSUME NEW c \in C, NEW t \in Thresholds
        PROVE  /\ metrics[c][t].truths = Truths(p, c)
               /\ \A n \in recall_limits : metrics[c][t].ar[n] = Found(Matches(p, c, t, n))
               /\ metrics[c][t].ap = VocAp(Matches(p, c, t, maximum_detections))
    BY <1>1, <1>3, DetectionTerms
  <1>5. /\ maximum_detections \in Nat
        /\ \A n \in recall_limits : n \in Nat /\ n <= maximum_detections
    BY ScorerAssumption
  <1> HIDE DEF p, C
  <1>6. IsFiniteSet(C)
    BY <1>2, <1>3, AvailableFinite
  <1>7. ASSUME NEW t \in Thresholds, NEW n \in recall_limits
        PROVE  SumFunction([c \in DOMAIN metrics |-> metrics[c][t].ar[n]]) <= n * Len(labels)
    <2> DEFINE f == [c \in C |-> metrics[c][t].ar[n]]
    <2>1. \A c \in C : f[c] = Found(Matches(p, c, t, n))
      BY <1>4
    <2>2. SumFunction(f) = SumFunctionOnSet(f, C)
      BY DEF SumFunction
    <2> HIDE DEF f
    <2>3. n \in Nat
      BY <1>5
    <2>4. SumFunctionOnSet(f, C) <= n * Len(p)
      BY <1>2, <1>6, <2>1, <2>3, FoundOfAllClasses
    <2>5. SumFunction(f) <= n * Len(labels)
      BY <1>2, <2>2, <2>4
    <2> QED BY <2>5 DEF f, C
  <1>8. ASSUME NEW c \in C, NEW t \in Thresholds, NEW n \in recall_limits
        PROVE  /\ metrics[c][t].ar[n] <= metrics[c][t].truths
               /\ metrics[c][t].ar[n] <= Len(metrics[c][t].ap)
               /\ \A k \in recall_limits : n <= k => metrics[c][t].ar[n] <= metrics[c][t].ar[k]
    <2> DEFINE F(k) == Found(Matches(p, c, t, k))
               m == Matches(p, c, t, maximum_detections)
    <2>1. n \in Nat /\ n <= maximum_detections
      BY <1>5
    <2>2. F(n) <= Truths(p, c)
      BY <1>2, <2>1, RecallBounded
    <2>3. F(n) <= F(maximum_detections)
      BY <1>2, <1>5, <2>1, FoundGrows
    <2>4. ASSUME NEW k \in recall_limits, n <= k PROVE F(n) <= F(k)
      <3>1. k \in Nat
        BY <1>5
      <3> QED BY <1>2, <2>1, <2>4, <3>1, FoundGrows
    <2>5. Len(m) \in Nat /\ DOMAIN m = 1 .. Len(m)
      BY <1>2, <1>5, MatchesAre
    <2>6. F(maximum_detections) = Found(m)
      OBVIOUS
    <2> HIDE DEF F, m
    <2>7. Len(VocAp(m)) = Found(m)
      BY <2>5, EnvelopeIsBest DEF IsAveragePrecision
    <2>8. metrics[c][t].truths = Truths(p, c) /\ metrics[c][t].ap = VocAp(m)
      BY <1>4 DEF m
    <2>9. \A k \in recall_limits : metrics[c][t].ar[k] = F(k)
      BY <1>4 DEF F
    <2> QED BY <2>2, <2>3, <2>4, <2>6, <2>7, <2>8, <2>9
  <1> QED BY <1>7, <1>8 DEF RecallGrows, C

\* The covered area is that of the union.
LEMMA CoverHolds == ASSUME Inv, Outcome PROVE CoverIsUnion
  <1> SUFFICES ASSUME script = "scored", NEW l \in ToSet(labels), NEW o \in ToSet(l.objects)
               PROVE  CoveredArea(o.box, l.ignored_regions)
                          = Cardinality(Covered(o.box, l.ignored_regions))
    BY DEF CoverIsUnion
  <1> DEFINE r == l.ignored_regions
             s == l.objects
  <1>1. l \in Labels
    <2>1. labels \in Seq(Labels)
      BY OutcomeIs
    <2> QED BY <2>1 DEF ToSet
  <1>2. r \in Seq(Boxes) /\ s \in Seq(Objects)
    BY <1>1 DEF Labels
  <1>3. o \in ToSet(s)
    OBVIOUS
  <1> HIDE DEF r, s
  <1>4. o \in Objects
    BY <1>2, <1>3 DEF ToSet
  <1>5. o.box \in Boxes
    BY <1>4 DEF Objects
  <1>6. Len(r) \in Nat /\ DOMAIN r = 1 .. Len(r) /\ \A i \in 1 .. Len(r) : r[i] \in Boxes
    BY <1>2
  <1>7. CoveredArea(o.box, r) = Cardinality(Covered(o.box, r))
    BY <1>5, <1>6, SweepIsUnion
  <1> QED BY <1>7 DEF r

\* What score.py writes is what its definitions say.
THEOREM ScoresRight == Spec => []ScoresAreRight
  <1>1. Inv /\ Outcome => ScoresAreRight
    BY MetricsHold, MatchingHolds, RecallHolds, CoverHolds DEF ScoresAreRight
  <1> QED BY <1>1, OutcomeAlways, PTL
=============================================================================
