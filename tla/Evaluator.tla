----------------------------- MODULE Evaluator ------------------------------
(***************************************************************************)
(* One evaluation on the hidden set: docker/evaluator evaluate, the        *)
(* provider and the worker of docker/eval/odbench_eval, and the scorer.    *)
(*                                                                         *)
(* The provider forks a worker, which runs the submitted hooks, and speaks *)
(* to it over two pipes.  One step is one system call of either side.      *)
(* Frames are written by the code of the worker only: that a hook writes   *)
(* to the response pipe itself is not modelled.                            *)
(*                                                                         *)
(*   task, size the evaluation dataset                                      *)
(*   at         control point of run_provider                              *)
(*   example    the example the provider is at, 0 before the first         *)
(*   written    chunks of its frame that are written                       *)
(*   verdict    how run_provider will end once it has cleaned up           *)
(*   blamed     the example an error message names, 0 if none              *)
(*   predictions                                                           *)
(*              what the provider collected, with the example each answer  *)
(*              was computed from                                          *)
(*   loaded     the evaluation data is in the memory of the provider       *)
(*   open       pipe ends of the provider that are open                    *)
(*   worker     control point of the worker                                *)
(*   dropped    the worker has given up its privileges                     *)
(*   input      chunks of the frame the worker is reading                  *)
(*   status     what waitpid will report of the worker                     *)
(*   helper     a process that a hook has forked holds the worker's pipe   *)
(*              ends, which are inherited across a fork                    *)
(*   hung       the worker no longer runs: a thread that a hook has        *)
(*              started keeps the interpreter                              *)
(*   requests, responses                                                   *)
(*              contents of the pipes                                      *)
(*   script     the evaluator command of the host                          *)
(*   labels, metrics                                                       *)
(*              what score.py read and wrote                               *)
(*   file       the file with the predictions exists                       *)
(***************************************************************************)
EXTENDS Scorer

CONSTANTS
    Tasks,            \* dataset_manifest["task"], one of two
    Examples,         \* the number of examples
    Sizes,            \* chunks of the frames of the examples, as functions
    MaxChunks,        \* the longest frame a worker accepts
    Capacity,         \* chunks a pipe holds
    ClassAnswers,     \* classes a hook may answer that are in range
    DetectionAnswers, \* lists of detections that are in range
    LabelFiles,       \* for each task, the labels score.py may find
    Faults

FaultKinds == {"stage", "hook", "helper", "hang", "kill", "data", "client"}

ASSUME EvaluatorAssumption ==
    /\ Tasks \subseteq {"image_classification", "object_detection"}
    /\ Examples \in Nat \ {0}
    /\ Sizes \subseteq [1 .. Examples -> Nat \ {0}]
    /\ MaxChunks \in Nat /\ Capacity \in Nat \ {0}
    /\ Faults \subseteq FaultKinds
    /\ DetectionAnswers \subseteq Seq(Detections)
    /\ \A t \in Tasks : LabelFiles[t] \subseteq Seq(Labels)

VARIABLES
    task, size, at, example, written, verdict, blamed, predictions, loaded, open,
    worker, dropped, input, status, helper, hung, requests, responses,
    script, labels, metrics, file

provider == <<at, example, written, verdict, blamed, predictions, loaded, open>>
child    == <<worker, dropped, input, status>>
submission == <<helper, hung>>
pipes    == <<requests, responses>>
host     == <<script, labels, metrics, file>>
dataset  == <<task, size>>
vars     == <<dataset, submission, provider, child, pipes, host>>

-----------------------------------------------------------------------------
Talking  == {"ready", "load", "send", "receive", "finish", "wait"}
Cleaning == {"close", "poll", "kill", "reap"}
Ended    == {"returned", "raised"}
Alive    == {"forked", "loading", "reading", "preprocess", "infer", "postprocess",
             "leaving"}
Hooks    == {"loading", "preprocess", "infer", "postprocess"}
None     == "none"

Init ==
    /\ task \in Tasks /\ size \in Sizes
    /\ at = "stage" /\ example = 0 /\ written = 0
    /\ verdict = None /\ blamed = 0 /\ predictions = <<>>
    /\ loaded = FALSE /\ open = {}
    /\ worker = "absent" /\ dropped = FALSE /\ input = <<>> /\ status = 0
    /\ helper = FALSE /\ hung = FALSE
    /\ requests = <<>> /\ responses = <<>>
    /\ script = "infer" /\ labels = <<>> /\ metrics = None /\ file = TRUE

-----------------------------------------------------------------------------
(* The provider.                                                           *)

\* An exception inside the try: the finally clause runs next.
Raise(name) == at' = "close" /\ verdict' = "raised" /\ blamed' = name

\* _stage_submission and _submission_digest, before there is a worker.
StageSubmission ==
    /\ at = "stage"
    /\ at' \in {"fork"} \cup (IF "stage" \in Faults THEN {"raised"} ELSE {})
    /\ UNCHANGED <<dataset, submission, example, written, verdict, blamed, predictions, loaded,
                   open,
                   child, pipes, host>>

SpawnWorker ==
    /\ at = "fork"
    /\ at' = "ready" /\ open' = {"request", "response"} /\ worker' = "forked"
    /\ UNCHANGED <<dataset, submission, example, written, verdict, blamed, predictions, loaded,
                   dropped, input, status, pipes, host>>

\* Variant: the data is loaded while the worker starts.
AwaitReadyEarly ==
    /\ at = "ready"
    /\ at' = "load"
    /\ UNCHANGED <<dataset, submission, example, written, verdict, blamed, predictions, loaded,
                   open, child, pipes, host>>

\* The first frame must be the ready message.
AwaitReady ==
    /\ at = "ready" /\ responses # <<>>
    /\ responses' = Tail(responses)
    /\ IF Head(responses).kind = "R"
       THEN at' = "load" /\ UNCHANGED <<verdict, blamed>>
       ELSE Raise(0)
    /\ UNCHANGED <<dataset, submission, example, written, predictions, loaded, open, child,
                   requests, host>>

\* _load_eval_manifest and iter_examples, which may be invalid.
LoadData ==
    /\ at = "load"
    /\ \/ at' = "send" /\ loaded' = TRUE /\ example' = 1 /\ UNCHANGED <<verdict, blamed>>
       \/ "data" \in Faults /\ Raise(0) /\ UNCHANGED <<loaded, example>>
    /\ UNCHANGED <<dataset, submission, written, predictions, open, child, pipes, host>>

\* Some process has the worker's ends of the pipes open.
Held == worker \in Alive \/ helper

\* _write_all: one chunk, if the pipe has room and somebody could read it.
SendChunk ==
    /\ at = "send" /\ Held /\ Len(requests) < Capacity
    /\ requests' = Append(requests, [of |-> example, chunks |-> size[example]])
    /\ IF written + 1 = size[example]
       THEN at' = "receive" /\ written' = 0
       ELSE written' = written + 1 /\ UNCHANGED at
    /\ UNCHANGED <<dataset, submission, example, verdict, blamed, predictions, loaded, open,
                   child, responses, host>>

\* EPIPE: nobody can read it.
SendBroken ==
    /\ at \in {"send", "finish"} /\ ~Held
    /\ Raise(0)
    /\ UNCHANGED <<dataset, submission, example, written, predictions, loaded, open, child,
                   pipes, host>>

\* What the provider makes of an answer in range.
Prediction(r) ==
    [id |-> example, of |-> r.of,
     class |-> r.value.class, detections |-> ByScore(r.value.detections)]

Expected == IF task = "image_classification" THEN "P" ELSE "D"

\* An error frame, an answer of the wrong kind or out of range ends the run.
ReceiveAnswer ==
    LET r == Head(responses)
    IN  /\ at = "receive" /\ responses # <<>>
        /\ responses' = Tail(responses)
        /\ IF r.kind = Expected
           THEN /\ predictions' = Append(predictions, Prediction(r))
                /\ IF example = Examples
                   THEN at' = "finish" /\ UNCHANGED example
                   ELSE at' = "send" /\ example' = example + 1
                /\ UNCHANGED <<verdict, blamed>>
           ELSE Raise(example) /\ UNCHANGED <<predictions, example>>
        /\ UNCHANGED <<dataset, submission, written, loaded, open, child, requests, host>>

\* The pipe is empty and nobody will write to it.
ReceiveEnd ==
    /\ at \in {"ready", "receive"} /\ responses = <<>> /\ ~Held
    /\ Raise(0)
    /\ UNCHANGED <<dataset, submission, example, written, predictions, loaded, open, child,
                   pipes, host>>

\* Variant: an example that takes too long gets no prediction.
ReceiveTimeoutSkips ==
    /\ at \in {"ready", "receive"} /\ responses = <<>> /\ worker # "forked"
    /\ IF at = "receive" /\ example < Examples
       THEN at' = "send" /\ example' = example + 1 /\ UNCHANGED <<verdict, blamed>>
       ELSE Raise(0) /\ UNCHANGED example
    /\ UNCHANGED <<dataset, submission, written, predictions, loaded, open, child, pipes, host>>

\* Variant: only the ready message is awaited with a time limit.
ReceiveTimeoutReady ==
    /\ at = "ready" /\ responses = <<>> /\ worker # "forked"
    /\ Raise(0)
    /\ UNCHANGED <<dataset, submission, example, written, predictions, loaded, open, child,
                   pipes, host>>

\* The deadline of receive_frame; an answer may arrive right after it.  The 60
\* seconds of the first frame outlast the setsid of the child, without which
\* killpg would find no group.
ReceiveTimeout ==
    /\ at \in {"ready", "receive"} /\ responses = <<>> /\ worker # "forked"
    /\ Raise(0)
    /\ UNCHANGED <<dataset, submission, example, written, predictions, loaded, open, child,
                   pipes, host>>

\* The empty frame, and the end of the request pipe.
SendEnd ==
    /\ at = "finish" /\ Held /\ Len(requests) < Capacity
    /\ requests' = Append(requests, [of |-> 0, chunks |-> 0])
    /\ open' = open \ {"request"} /\ at' = "wait"
    /\ UNCHANGED <<dataset, submission, example, written, verdict, blamed, predictions, loaded,
                   child, responses, host>>

\* Variant: the exit status of the worker is not looked at.
WaitWorkerAnyStatus ==
    /\ at = "wait" /\ worker = "zombie"
    /\ worker' = "reaped" /\ at' = "close" /\ verdict' = "returned"
    /\ UNCHANGED <<dataset, submission, example, written, blamed, predictions, loaded, open,
                   dropped, input, status, pipes, host>>

\* waitpid without a time limit.
WaitWorker ==
    /\ at = "wait" /\ worker = "zombie"
    /\ worker' = "reaped"
    /\ IF status = 0
       THEN at' = "close" /\ verdict' = "returned" /\ UNCHANGED blamed
       ELSE Raise(0)
    /\ UNCHANGED <<dataset, submission, example, written, predictions, loaded, open, dropped,
                   input, status, pipes, host>>

\* The finally clause.
CloseEnds ==
    /\ at = "close"
    /\ open' = {} /\ at' = IF worker = "reaped" THEN verdict ELSE "poll"
    /\ UNCHANGED <<dataset, submission, example, written, verdict, blamed, predictions, loaded,
                   child, pipes, host>>

\* _terminate_worker: waitpid with WNOHANG.  The staged copy goes with the
\* container, whether or not rmtree can remove it.
PollWorker ==
    /\ at = "poll"
    /\ IF worker = "zombie" THEN at' = verdict /\ worker' = "reaped"
       ELSE at' = "kill" /\ UNCHANGED worker
    /\ UNCHANGED <<dataset, submission, example, written, verdict, blamed, predictions, loaded,
                   open, dropped, input, status, pipes, host>>

\* killpg, which ends the helper, too; the worker may have ended meanwhile.
KillWorker ==
    /\ at = "kill"
    /\ at' = "reap"
    /\ IF worker \in Alive THEN worker' = "zombie" /\ status' = 9
       ELSE UNCHANGED <<worker, status>>
    /\ helper' = FALSE
    /\ UNCHANGED <<dataset, hung, example, written, verdict, blamed, predictions, loaded,
                   open, dropped, input, pipes, host>>

ReapWorker ==
    /\ at = "reap" /\ worker = "zombie"
    /\ at' = verdict /\ worker' = "reaped"
    /\ UNCHANGED <<dataset, submission, example, written, verdict, blamed, predictions, loaded,
                   open, dropped, input, status, pipes, host>>

-----------------------------------------------------------------------------
(* The worker.  What the hooks do, and for how long, is up to them.        *)

Nothing == [class |-> 0, detections |-> <<>>]

\* A frame is written, unless the provider has closed the pipe.
Say(kind, of, value) ==
    responses' = IF "response" \in open
                 THEN Append(responses, [kind |-> kind, of |-> of, value |-> value])
                 ELSE responses

\* child_main up to run_worker; an exception is answered with E.
DropPrivileges ==
    /\ worker = "forked"
    /\ worker' = "loading" /\ dropped' = TRUE
    /\ UNCHANGED <<dataset, submission, provider, input, status, pipes, host>>

\* The hooks and the model are loaded.
LoadHooks ==
    /\ worker = "loading"
    /\ \/ worker' = "reading" /\ Say("R", 0, Nothing)
       \/ "hook" \in Faults /\ worker' = "leaving" /\ Say("E", 0, Nothing)
    /\ UNCHANGED <<dataset, submission, provider, dropped, input, status, requests, host>>

\* Variant: the worker reads whatever it is sent.
ReadChunkUnlimited ==
    LET c == Head(requests)
    IN  /\ worker = "reading" /\ ~hung /\ requests # <<>>
        /\ requests' = Tail(requests)
        /\ IF c.chunks = 0
           THEN worker' = "leaving" /\ UNCHANGED input
           ELSE /\ input' = Append(input, c.of)
                /\ worker' = IF Len(input') = c.chunks THEN "preprocess" ELSE "reading"
        /\ UNCHANGED <<dataset, submission, provider, dropped, status, responses, host>>

\* receive_frame: the length comes first, and may be zero or too large.
ReadChunk ==
    LET c == Head(requests)
    IN  /\ worker = "reading" /\ ~hung /\ requests # <<>>
        /\ requests' = Tail(requests)
        /\ IF c.chunks = 0 \/ c.chunks > MaxChunks
           THEN /\ worker' = "leaving" /\ UNCHANGED input
                /\ IF c.chunks = 0 THEN UNCHANGED responses ELSE Say("E", c.of, Nothing)
           ELSE /\ input' = Append(input, c.of)
                /\ worker' = IF Len(input') = c.chunks THEN "preprocess" ELSE "reading"
                /\ UNCHANGED responses
        /\ UNCHANGED <<dataset, submission, provider, dropped, status, host>>

\* EOFError: the provider has closed the pipe.
ReadEnd ==
    /\ worker = "reading" /\ ~hung /\ requests = <<>> /\ "request" \notin open
    /\ worker' = "leaving" /\ Say("E", 0, Nothing)
    /\ UNCHANGED <<dataset, submission, provider, dropped, input, status, requests, host>>

ErrorOf(phase) ==
    CASE phase = "preprocess" -> "E1" [] phase = "infer" -> "E2" [] OTHER -> "E3"

\* preprocess and session.run succeed.
HookNext ==
    /\ worker \in {"preprocess", "infer"}
    /\ worker' = IF worker = "preprocess" THEN "infer" ELSE "postprocess"
    /\ UNCHANGED <<dataset, submission, provider, dropped, input, status, pipes, host>>

\* An exception of a phase is answered with its code.
HookFails ==
    /\ "hook" \in Faults /\ worker \in {"preprocess", "infer", "postprocess"}
    /\ worker' = "leaving" /\ Say(ErrorOf(worker), input[1], Nothing)
    /\ UNCHANGED <<dataset, submission, provider, dropped, input, status, requests, host>>

\* _encode_postprocess: a class, detections, or an answer out of range (X).
Answer ==
    /\ worker = "postprocess"
    /\ worker' = "reading" /\ input' = <<>>
    /\ \/ \E c \in ClassAnswers : Say("P", input[1], [Nothing EXCEPT !.class = c])
       \/ \E d \in DetectionAnswers :
             Say("D", input[1], [Nothing EXCEPT !.detections = d])
       \/ "hook" \in Faults /\ Say("X", input[1], Nothing)
    /\ UNCHANGED <<dataset, submission, provider, dropped, status, requests, host>>

\* SystemExit is not an Exception: the worker goes without a word.
HookExits ==
    /\ "hook" \in Faults /\ worker \in Hooks
    /\ worker' = "leaving"
    /\ UNCHANGED <<dataset, submission, provider, dropped, input, status, pipes, host>>

\* A hook starts a process of its own, which may end before or after the worker.
HookForks ==
    /\ "helper" \in Faults /\ worker \in Hooks /\ ~helper
    /\ helper' = TRUE
    /\ UNCHANGED <<dataset, hung, provider, child, pipes, host>>

HelperEnds ==
    /\ helper /\ helper' = FALSE
    /\ UNCHANGED <<dataset, hung, provider, child, pipes, host>>

\* What a hook has started keeps the worker from going on, between two of its
\* own steps.
HookHangs ==
    /\ "hang" \in Faults /\ worker \in {"reading", "leaving"} /\ ~hung
    /\ hung' = TRUE
    /\ UNCHANGED <<dataset, helper, provider, child, pipes, host>>

\* os._exit(0).
WorkerExits ==
    /\ worker = "leaving" /\ ~hung
    /\ worker' = "zombie"
    /\ UNCHANGED <<dataset, submission, provider, dropped, input, status, pipes, host>>

\* The kernel kills the worker, for instance for its memory.
WorkerKilled ==
    /\ "kill" \in Faults /\ worker \in Alive
    /\ worker' = "zombie" /\ status' = 9
    /\ UNCHANGED <<dataset, submission, provider, dropped, input, pipes, host>>

-----------------------------------------------------------------------------
(* The evaluator command and score.py.                                     *)

\* The checks of score_documents on the two documents.
Accepts(l) ==
    /\ SameExamples(l, predictions)
    /\ task = "object_detection" => DetectionsValid(l, predictions)

Score ==
    /\ script = "infer" /\ at = "returned"
    /\ \E l \in LabelFiles[task] :
          /\ labels' = l
          /\ IF Accepts(l)
             THEN /\ script' = "scored"
                  /\ metrics' = IF task = "object_detection"
                                THEN ScoreDetection(l, predictions)
                                ELSE ScoreClassification(l, predictions)
             ELSE script' = "failed" /\ UNCHANGED metrics
    /\ file' = FALSE
    /\ UNCHANGED <<dataset, submission, provider, child, pipes>>

\* set -e: docker run failed, and the trap removes the file.
InferenceFails ==
    /\ script = "infer" /\ at = "raised"
    /\ script' = "failed" /\ file' = FALSE
    /\ UNCHANGED <<dataset, submission, provider, child, pipes, labels, metrics>>

\* The caller kills the command after 1800 seconds; the container goes on.
ClientTimeout ==
    /\ "client" \in Faults /\ script = "infer"
    /\ script' = "killed"
    /\ UNCHANGED <<dataset, submission, provider, child, pipes, labels, metrics, file>>

-----------------------------------------------------------------------------
Provider ==
    \/ StageSubmission \/ SpawnWorker \/ AwaitReady \/ LoadData
    \/ SendChunk \/ SendBroken \/ ReceiveAnswer \/ ReceiveEnd \/ SendEnd
    \/ WaitWorker \/ CloseEnds \/ PollWorker \/ KillWorker \/ ReapWorker

\* What the worker does outside the code of the submission.
WorkerCode == DropPrivileges \/ ReadChunk \/ ReadEnd \/ WorkerExits

HookCode == LoadHooks \/ HookNext \/ HookFails \/ Answer \/ HookExits

\* What goes on beside the worker's own code.
Submission == HookForks \/ HelperEnds \/ HookHangs

Next ==
    \/ Provider \/ ReceiveTimeout
    \/ WorkerCode \/ HookCode \/ Submission \/ WorkerKilled
    \/ Score \/ InferenceFails \/ ClientTimeout

Spec == Init /\ [][Next]_vars

\* Processes that can run do run, and deadlines pass.  A hook may hang.
Fairness ==
    /\ WF_vars(Provider) /\ WF_vars(WorkerCode) /\ WF_vars(ReceiveTimeout)
    /\ WF_vars(Score) /\ WF_vars(InferenceFails)

FairSpec == Spec /\ Fairness

-----------------------------------------------------------------------------
(* Properties.                                                             *)

Frame == [kind : {"R", "P", "D", "X", "E", "E1", "E2", "E3"}, of : 0 .. Examples,
          value : [class : {0} \cup ClassAnswers,
                   detections : {<<>>} \cup DetectionAnswers]]

\* The types; a frame is never longer than announced, and at most the answer
\* to one request waits in the response pipe, with the E of a worker that ends.
TypeOK ==
    /\ task \in Tasks /\ size \in Sizes
    /\ at \in {"stage", "fork"} \cup Talking \cup Cleaning \cup Ended
    /\ example \in 0 .. Examples /\ blamed \in 0 .. Examples
    /\ written \in 0 .. Greatest(0, IF example = 0 THEN 0 ELSE size[example] - 1)
    /\ verdict \in {None} \cup Ended
    /\ Len(predictions) <= Examples
    /\ loaded \in BOOLEAN /\ dropped \in BOOLEAN /\ file \in BOOLEAN
    /\ open \subseteq {"request", "response"}
    /\ worker \in Alive \cup {"absent", "zombie", "reaped"} /\ status \in {0, 9}
    /\ helper \in BOOLEAN /\ hung \in BOOLEAN
    /\ input \in BoundedSeq(1 .. Examples, MaxChunks)
    /\ Len(requests) <= Capacity /\ Len(responses) <= 2
    /\ \A i \in DOMAIN responses : responses[i] \in Frame
    /\ script \in {"infer", "scored", "failed", "killed"}

\* Every prediction was computed from the image whose id it carries, and the
\* examples are answered in order: no answer is lost, doubled or late.
AnswersTheirOwn ==
    \A i \in DOMAIN predictions : predictions[i].id = i /\ predictions[i].of = i

\* run_provider returns a result only when every example was answered and the
\* worker ended by itself and was waited for.
ResultComplete ==
    at = "returned" =>
        Len(predictions) = Examples /\ worker = "reaped" /\ status = 0

\* However run_provider ends, no worker, zombie or pipe end is left behind.  A
\* helper may be, of a worker that was gone before: it ends with the container.
NothingLeft ==
    at \in Ended => worker \in {"absent", "reaped"} /\ open = {}

\* An evaluation ends with a complete result or without one, and
\* without its worker.
EndsClean == ResultComplete /\ NothingLeft

\* "only after the worker has forked and dropped privileges": no image is in
\* the memory of the provider while the worker could still inherit or read it.
DataAfterDrop == loaded => dropped

\* An error message names the first example that has no prediction.
BlameIsRight == blamed # 0 => blamed = Len(predictions) + 1

\* Requests and answers stay in step.
InStep == AnswersTheirOwn /\ BlameIsRight

\* Metrics are about all examples, and a correct class or a true positive is
\* counted once: what score.py computes is what the definitions say.
MetricsAreReference ==
    script = "scored" =>
        /\ {p.id : p \in ToSet(predictions)} = {l.id : l \in ToSet(labels)}
        /\ Len(predictions) = Examples
        /\ IF task = "image_classification"
           THEN metrics = Cardinality({ i \in 1 .. Examples :
                    \E l \in ToSet(labels) :
                        l.id = predictions[i].id /\ l.class = predictions[i].class })
           ELSE \A c \in DOMAIN metrics, t \in Thresholds :
                    LET m == Matches(PreparedAll(labels, predictions), c, t,
                                     maximum_detections)
                    IN  IsAveragePrecision(m, metrics[c][t].ap)

\* _match_image gives every detection the object a reader of the definition
\* would give it, at every threshold and in every image.
MatchingIsGreedy ==
    script = "scored" /\ task = "object_detection" =>
        \A i \in DOMAIN labels, c \in DOMAIN metrics, t \in Thresholds :
            LET p == Prepared(labels[i], predictions)
                objects == OfClass(p.objects, c)
                ranked == OfClass(p.detections, c)
            IN  IsMatching(objects, ranked, t, MatchImage(objects, ranked, t))

\* A larger detection limit never lowers the recall, which never exceeds one,
\* and an image contributes no more detections than the limit, of all classes.
RecallGrows ==
    script = "scored" /\ task = "object_detection" =>
        /\ \A t \in Thresholds, n \in recall_limits :
              SumFunction([c \in DOMAIN metrics |-> metrics[c][t].ar[n]])
                  <= n * Len(labels)
        /\ \A c \in DOMAIN metrics, t \in Thresholds :
              LET s == metrics[c][t]
              IN  \A n \in recall_limits :
                      /\ s.ar[n] <= s.truths /\ s.ar[n] <= Len(s.ap)
                      /\ \A k \in recall_limits : n <= k => s.ar[n] <= s.ar[k]

\* The sweep of _covered_area measures the union of the ignored regions.
CoverIsUnion ==
    script = "scored" =>
        \A l \in ToSet(labels) :
            \A o \in ToSet(l.objects) :
                CoveredArea(o.box, l.ignored_regions)
                    = Cardinality(Covered(o.box, l.ignored_regions))

\* The scores, from the areas to the metrics, are what their definitions say.
ScoresAreRight == MetricsAreReference /\ MatchingIsGreedy /\ RecallGrows /\ CoverIsUnion

\* The provider is in a system call without a time limit that nothing ends: a
\* write to a full pipe that a hung worker, or the helper of a dead one, holds
\* open, or the waitpid for a hung worker.
Stuck ==
    \/ /\ at \in {"send", "finish"} /\ Len(requests) = Capacity
       /\ Held /\ (hung \/ worker \notin Alive)
    \/ at = "wait" /\ worker \in Alive /\ hung

\* Wherever the worker dies, hangs or answers out of order, the evaluation ends
\* and the command returns, unless the provider is stuck for ever: only two of
\* its system calls can make it so, and only while what a hook has started holds
\* out.  The time limit of the caller then ends the command.
EvaluationEnds == (<>(at \in Ended) /\ <>(script # "infer")) \/ <>[]Stuck
=============================================================================
