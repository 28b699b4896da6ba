# A TLA+ model of od-benchmark

od-benchmark lets a language model develop an object-detection network by
itself: it edits code in a sandbox, trains on metered compute, has epochs and
submissions scored on a hidden set, and submits one network. What is hard in
the program is the bookkeeping around it: a training job is driven by
short-lived commands that share one state file, the same job is paused, billed,
evaluated and resumed while commands time out; three quotas (hidden-set
evaluations, training time, model requests) must stay exact through all of
that; submitted code runs beside the hidden data; and every result crosses a
process, container or host boundary where either side may stop. This directory
models these parts, checks them with TLC and proves their main safety
properties with TLAPS.

## 1. The system

| component | state | operations | interacts with |
|---|---|---|---|
| Training controller, `docker/train/controller.py` | `<job>/state.json`, `staged/`, `results/`, `decisions/` on disk; the Docker container | `start`, `await`, `record-evaluation`, `continue`, `stop` (one process each), `build`, `status`, `logs` | Docker; the mailbox; called by the tool runtime, locally or by SSH |
| Epoch mailbox SDK, `docker/train/odbench_train/mailbox.py` | the epoch it published last | `epoch_end` | event and decision files |
| Remote training, `remote_client.py`, `remote_worker.py`, `remote_protocol.py` | staged epochs it fetched | the same commands over SSH; send a start payload, fetch and evaluate a stage, record its evaluation | controller with `--stage-only`; archive streams |
| Tool runtime, `odbench_outer/tools.py` | evaluation and training counters, active job, pending events, best candidate, submission | one method per tool; `submit_best_candidate`; `close` | controller, evaluator, hardware verifier, sandbox |
| Agent loop, `odbench_outer/agent.py` | conversation, turns, token and cost totals, failure counter, status | `run` | model client, tool runtime, event log |
| OpenRouter client, `openrouter.py` | attempt counter | `complete` with transport retries | HTTP |
| Hardware verification, `hardware_verification.py`, `n6_loader_wrapper.py` | device lock, artifacts on disk | `verify`, `analyze` | vendor tools, device |
| Evaluator, `docker/evaluator`, `docker/eval/odbench_eval` | one worker process, two pipes, the predictions | `evaluate` | hooks of the submission, scorer |
| Scorer, `docker/eval/score.py` | pure | mAP, recall, accuracy | predictions and private labels |
| Sandbox, `sandbox.py`, `tool_runner.py`, `workspace_transfer.py`, `workspace_archive.py` | container, process table, `started` | commands, patches, copies in and out | Docker |
| Prepared task, `prepare_task.py`, `task.py` | files of `<tasks_root>/<id>` | prepare, load | everything that reads the task |
| Command line, `odbench_outer/cli.py` | what it must release | one run from load to stop | task, sandbox, tool runtime, loop |
| Dashboard, plots, datasets, quantization | none that another component relies on | | |

What is hard, by component (the full list, each entry with its source line and
the properties that cover it, is `hazards` in `PROJECT.json`):

- *controller*: no lock on `state.json`; a command may be killed between any two
  effects; Docker calls fail, `docker rm` and `docker inspect` without anybody
  noticing; an SSH command outlives its client; the meter is moved between two fields by every pause.
  Correct means: nothing recorded is lost, a pending notification stands for a
  frozen stage and a paused job, the meter shows what really ran, the budget
  holds across pauses, `await` and `epoch_end` come back.
- *tool runtime*: a reservation precedes the command it pays for, and the
  command may fail, half succeed or be interrupted. Correct means: the last slot
  is kept for the submission, used slots are never given back, the training
  total is respected across jobs, no container escapes the active-job slot, the
  best candidate is the best.
- *agent loop*: request failures, invalid answers, parallel calls, budgets,
  interrupts and a submission in every combination. Correct means: it ends after
  a bounded number of requests, it never sends a malformed conversation, it
  spends nothing past a budget, a good candidate is submitted.
- *hardware verification*: several runs share a board; every step is a vendor
  tool that may fail, hang or leave children behind. Correct means: a verdict is
  about the model it names, one call programs the board at a time, the lock comes
  free.
- *evaluator and scorer*: code of the submission answers over a pipe while it
  may exit, hang, answer late or be killed. Correct means: each answer belongs
  to its image, the hidden data is loaded only after the worker has lost its
  privileges, the worker is reaped, the metrics are their definitions.
- *archive streams*: a tar stream has no end that can be trusted, both ends
  count, either side is killed. Correct means: what is reported or published is
  complete, the limits hold, a legal directory is never refused.
- *sandbox and command line*: commands leave processes that fork, change their
  group and hold the output open. Correct means: a call ends, its result is
  honest, nothing of the agent runs when the run is over.
- *prepared task*: files are replaced one by one and the preparation may stop in
  between. Correct means: what loads is what one preparation completed.

## 2. The modules

| module | models | kind |
|---|---|---|
| `EpochHandshake` | what a job promises about epochs: offered one at a time, increasing, standing until settled | abstract specification |
| `TrainJob` | controller commands, mailbox, container of one job | component |
| `EvaluationQuota` | what a run promises about hidden-set evaluations | abstract specification |
| `ToolRuntime` | tool runtime, with jobs as the controller presents them | component |
| `AgentLoop` | the loop between model and tools | component |
| `HardwareVerification` | `analyze` and `verify` of concurrent runs, the loader wrapper, the board | component |
| `Scorer` | `score.py` as functions | pure functions |
| `Evaluator` | provider, worker, pipes and command of one evaluation; extends `Scorer` | component |
| `Transfer` | every archive stream between host, container and training host | component |
| `PreparedTask` | preparation and loader | component |
| `Sandbox` | one tool call: host, supervisor, processes | component |
| `CommandLine` | one run: `PreparedTask` and `Sandbox` composed under `main()` | composition |
| `TrainJobProofs`, `ToolRuntimeProofs`, `AgentLoopProofs`, `HardwareVerificationProofs`, `CommandLineProofs`, `EvaluatorProofs`, `TransferProofs` | theorems about the component each is named after | proofs |
| `SumTheorems` | lemmas about sums over finite sets, cited by the other proofs | proofs |
| `MC...` | the instance of each component that TLC checks | model checking |

An operator whose comment begins with "Variant" is a plausible error in the
definition that follows it. It is used by no action; put in the place of that
definition it must make a property of a run false, which shows that the property
depends on that line of the code.

### TrainJob

One step is one effect of a command: a read of `state.json`, a Docker call, a
file written. `at[c]` is where process `c` is; `mem[c]` is its copy of
`state.json`. Steps of different processes, of the script and of the clock
interleave freely. The names follow the code: `Start`, `Await`, `Record`,
`Resume` and `Stop` begin a command, `Poll` to `Publish` are `command_await` and
`process_event` line by line, `ResumeRead` to `ResumeWrite` are
`command_continue`, `StopRead` to `StopWrite` `command_stop`. `epoch_end` is
`EpochEnd` (publish) and `ReadDecision`.

Abstractions: time is counted in polls; `active_started_at` is represented by
the running lap `now - active_started_at`, the only thing the code computes from
it. A file replaced by `os.replace` changes in one step. Of an artifact or event
file only its flaw is kept. The half second that `stop` sleeps, and the time of a
Docker call or a file write, are shorter than a poll (`Tick` waits for them); an
evaluation and the waits between commands are not.

Faults, chosen per run by the constant `Faults`: `kill` (the caller's timeout
kills a command anywhere), `detach` (ssh is killed, the command goes on),
`docker` (run, pause or unpause fails), `rm` (`docker rm` fails), `inspect`
(`docker inspect` fails, which `docker_status` returns as "missing"), `artifact`
and `event` (files the controller refuses), `die` (a paused container is killed).
No command looks at a failure of `rm` or `inspect`; the history variable `unseen`
remembers that one met a live container.

### ToolRuntime

One step is one trusted command or the bookkeeping after it; `call` is the tool
call in progress. A job is reduced to what the runtime can observe, in the terms
of `TrainJob`: `paused` (a notification is pending), `stuck` (paused, the
notification was never published), `adrift` (unpaused by a `continue` or `stop`
that was killed before its last write), `exited`, `ended`. Faults: `lost` (a start is
reported failed after it launched), `await` (a wait fails), `adrift`, `stop`
(a stop fails, before or after its effect), `copy` (a stage is refused or cannot
be copied), `unseen` (the end of a job is recorded although its container goes on,
after a `docker rm` or `docker inspect` whose failure no command reports),
`interrupt` (KeyboardInterrupt between two commands). `attempts`, `finals` and `shown` are history variables; `left` marks a job whose
start or stop was reported to have failed, `loose` one that outlives its recorded
end.

### AgentLoop

One step is what happens between two exchanges with the outside. `owed` is the
number of tool calls in `messages` without their tool message; `asked` counts
requests. A tool call is reduced to its effect on the loop: it may leave a best
candidate, and it may submit. Faults: `interrupt`, `raise` (an exception that
is not a tool error), `final` (the automatic submission fails).

### HardwareVerification

A call is one `analyze` or `verify`, of any run on the host; `at` follows the
stages of `report["stage"]`. A vendor tool is started by `Enter` and ends by the
action of its stage, by `Broken` (non-zero exit, unusable output) or, if it hangs,
by `TimedOut`. Inside the stage `load` the wrapper is modelled process by
process: the vendor loader spawns GDB servers (`Spawn`), programs the network and
ends (`LoadEnds`), and the `finally` block stops the servers one after the other
(`StopServer`, `ServerStuck`, `Loaded`). A timeout kills the wrapper only; its
debugger then works on as an orphan (`Straggle`, `OrphanExits`; external, as is
the board).

Abstractions: the ONNX file is the sizes of its memory images and the duration
the board would measure; the report keeps `passed`. The tolerance is an amount,
not a fraction. All runs share one temporary directory, hence one lock file.
Faults: `hang`, `stuck` (a killed server does not die within five seconds),
`raise` (KeyboardInterrupt, undecodable tool output, a report that cannot be
written). That a tool fails is always possible.

The parts of `VerdictHolds` about the board, and `OnlyHolderPrograms`, make an
exception of `CutShort`: the sentence of `docs/outer-loop.md:125` that the lock
keeps concurrent runs from programming the board at the same time does not hold
for a loader that was killed by its 900 second timeout while its debugger was at
work.

### Scorer and Evaluator

`Scorer` follows `score.py` function by function: the sweep of `_covered_area`
over sorted intervals, `_match_image` with its ordering of ignored objects and
its early `break`, the recall limits, the envelope of `_voc_ap`. Overlaps,
thresholds and precisions are fractions, so that no comparison depends on
rounding; the averages over thresholds and classes are left out. A list that is
filtered or sorted is written as the items at a set of places (`At`, `ByScore`),
a loop that carries values along a list as a recursive function of the place.
`Boxes`, `Detections`, `Objects` and `Labels` are what `_bbox` and the checks of
items accept: a box has a corner that is not negative and a size that is not zero.

In `Evaluator` one step is one system call of the provider (`at`) or of the
worker it forked (`worker`). A frame of the request pipe is sent in chunks, and
the pipe has a capacity; what the hooks of the submission compute, and for how
long, is free. Hooks run in the worker's process and may leave more behind than an
answer: a process that holds the worker's pipe ends (`helper`), so that the
provider meets neither EPIPE nor the end of the file when the worker is gone, and
a thread that keeps the worker from going on (`hung`). Frames are written by the
worker's own code only: that a hook writes to the response pipe itself is left
out. `Score`, `InferenceFails` and `ClientTimeout` are the evaluator command
of the host around it. The definitions the metrics are compared with
(`IsMatching`, `IsAveragePrecision`, `Covered`) are stated apart from the code:
a greedy assignment, the area under the largest precision at each recall, a set
of pixels. Faults: `stage` (the submission cannot be staged), `hook` (raises,
exits, answers out of range), `helper`, `hang`, `kill` (the kernel kills the worker), `data` (the
dataset is invalid), `client` (the caller gives up).

### Transfer

Every archive stream: `copy_directory` ("directory") and `copy_file` ("file")
out of the container, `copy_into_directory` ("import"), the remote `fetch` of a
stage, and the remote "start" and "resume", which are an export, a snapshot and
a push to the training host. A tree is what `os.walk` lists; an entry is a file
with a size, a directory, perhaps without write permission, or a link, and may
be excluded from the export or ignored by the snapshot. What is counted, left out
or stored is a set of places of the tree (`Kept`, `Exported`, `Fits`), and a limit
is on a sum over such a set; `Listed` assumes of a tree what `os.walk` does, that
each name is listed once and none is the request or the checkpoint. The snapshot
(`Workspace`) is the tree with every name marked excluded that did not arrive, so
that each entry keeps its place in the tree. `os.walk` lists a directory when it
comes to it and passes over what it cannot list, so an entry that is removed before
(`Unlisted`, `Vanish`) is left out of an archive that is complete for all its
writer knows; one that is removed after it was listed makes the writer refuse
(`Touch`). On the wire are members,
blocks and the end marker. The reader treats the end of a stream at a member
boundary as the end of the archive, as `tarfile` does, and sets the modes of
directories last. Faults, at most one in a behaviour: `touch` and `vanish` (a
process of the agent truncates or removes a file while it is exported, or removes
entries before they are listed), `cut` (the stream ends early), `kill` (the caller
is killed); `slow` records that a timeout expired, of the wait for the writer of a
pull or of a push as a whole (`PushExpires`), which is always possible.

### PreparedTask, Sandbox and CommandLine

`PreparedTask`: one step writes, hashes or reads one file. A file is reduced to
its version, the manifest to the versions whose hashes it holds. `documents` is
what the preparation read before it built the images; the other files are copied
when they are written. `Edit` changes the repository, `Crash` interrupts a
preparation anywhere, `overlap` tells that a file was replaced by another while the
loader worked, and `current` that a preparation completed and no later one has
replaced a file by another since.

`Sandbox`: the supervisor goes through `execute_command` (`Spawn`, `Read`,
`TimeUp`, `EndOfOutput`, the rounds `List`, `ReadStatuses` and `KillListed`) while the processes
of the command fork, leave their group, exit, write and close their output. A
read takes any number of the bytes that are there. `owned_processes` is two steps,
the names in `/proc` and the status of each: a process that ends in between is
found, is not found, or is gone while its status is read, and then a
`ProcessLookupError` ends the supervisor (`Owned`, `Vanishes`). `OuterTimeout` is
the host giving up on the supervisor and killing the container, which may fail and
then leaves it `adrift`.

`CommandLine` composes both: the task is prepared in another terminal until the
run loads it; then the container is started, tools are called, and on every way
out `runtime.close()` and `sandbox.stop()` follow. A session may begin with the
load or, since nothing looks at the task directory afterwards, with the start of
the sandbox. Faults, at most one of the host: `start`, `interrupt`
(KeyboardInterrupt during a call), `close` (`runtime.close()` raises), `stop`
(docker fails). Besides, `git` (git itself fails half way, by its exit code or by its
timeout) and `kill` (`docker kill` fails).

## 3. The runs

| run | instance | question |
|---|---|---|
| `train_job_docker` | 1 caller, epochs 0..2 of which 2 has a name `await` cannot match, budget 2, clocks to 3, Docker and file faults, fair | Is the container what `state.json` says, its time metered exactly and ended at the budget? Do `await` and `epoch_end` come back? |
| `train_job_kill` | 1 caller, epochs 0..2, budget 2, clocks to 3, local and stage-only awaits, faults `kill docker rm inspect artifact die detach` | Is what was told on disk, is what was settled final? Does the job refine `EpochHandshake`? |
| `train_job_orphans` | 2 commands at once on one job, epochs 0..1, budget 1, local and stage-only awaits, fault `detach` | Whatever the two overwrite, is what was announced and answered backed by its stage and result on disk? |
| `tool_runtime_calm` | 2 jobs, 2 events each, 2 scores, 3 slots, total 3, budget 2, no faults | Are slots, training time, pending events and the best candidate accounted exactly? |
| `tool_runtime_faulty` | the same with all seven faults | Does a job ever escape the slot, the account or the shutdown? Does the runtime refine `EvaluationQuota`? |
| `agent_loop_limits` | 4 turns, 2 retries, token budget 4, cost budget 5, 0..2 per response, up to 3 parallel calls, all faults, fair | Are requests bounded and in order, does nothing follow a budget or a submission, is a candidate submitted, does the run end? |
| `hardware_verification` | 2 calls; a fast model of two images, one fast enough only for a submission, a slow one without images, one whose second image is too large; up to 2 servers per loader; all faults, fair | Is a verdict about its own model, is the board in one hand, does every call end? |
| `evaluation` | both kinds of task, 2 examples of 1 to 3 chunks of which a worker accepts 2, images of 4 x 2 pixels, 7 lists of detections, labels with 6 lists of objects and 3 of regions, two thresholds, two recall limits, all faults, fair | Does every answer belong to its image, is the hidden data loaded late enough, does the evaluation end clean, are the metrics what their definitions say? |
| `transfer` | 9 trees below, at and above the limits, the limits of the container (3), of the caller (2) and of the training host (4) all different, 3 items on the wire, a fetch tried twice, all faults, fair | Is what is reported or published complete, do the limits hold, is every legal tree accepted, does each call return without leaving its child? |
| `command_line` | 2 files of which one is read early, each edited once, 2 preparations, 5 processes, a pipe of 2, 2 units of output of which 1 is kept, 2 tool calls, all faults, fair | Is what loads what a preparation completed, what survives a command, is its result honest, does every call end, is nothing left after the run? |

Most properties are conjunctions of parts with names of their own:
`ContainerAsRecorded` of `PendingIsPaused` and `EndedReleases`, `TimeMetered` of
`MeterExact` and `BudgetEnforced`, `DiskBeforeWord` of
`BackedWord` and the outcome announced, `BooksHold` of `SlotsAccounted`,
`EventAwaitsDecision` and `BestIsBest`, and so on; the parts are defined, with
the sentence they state, just before. The type invariants of `TrainJob`,
`ToolRuntime`, `AgentLoop`, `HardwareVerification` and `CommandLine` are proved
for all values of the constants and therefore in no run; those of `Evaluator`
and `Transfer` are checked by a run as well.

Bounds. Two processes are the least that can meet on a job: the runtime issues one
command at a time, and an orphan meets the next one (`train_job_orphans`; the
theorem `WordAfterDisk` has no such bound). Two epochs are enough
for one to be settled while the next is offered, a third for the order among
unsettled ones; the budget of two polls is met exactly, or overrun, after one or
more pauses. Two jobs are enough for the total to pass from an earlier to a
later one, three slots for one adaptive use after another before the reserved
one. `Horizon` lies above the budget, so that a clock that saturates is past
every test the code makes. Two calls are one on the board and one that waits,
left its traces or has an orphan; two images are a first and a last one, two
servers one before and one after a stuck one. Four turns with two retries let
every sequence of failure kinds occur and the counter be reset in between. Two
examples let an answer be taken for the next one; the frame of three chunks is
refused while its writer still writes; the detections and objects include equal
scores, equal boxes, an ignored object better than a counted one, and regions
that overlap. Each transfer limit is met exactly and exceeded by one by some
tree. Five processes are a leader, one that escapes its group, and the three
forks with which its descendants pass the rounds of the clean-up; the theorems of
`CommandLineProofs` do not depend on that bound.

Deadlock is checked for `TrainJob` (time can always pass or a command begin) and
not for the others, which stop when the run, the calls or the evaluation are
over.

Fairness. `TrainJob`: a command that was started is an operating-system process
and runs (`WF` of each step); the SDK polls its decision file (`WF`); time passes
even if the caller issues commands without end (`SF` of `Tick`, because every
command disables it for a moment). Nothing forces the script to publish or exit,
nor the caller to call. `AgentLoop`: requests and trusted commands have
timeouts, so each exchange ends (`WF` of the loop's own steps); faults are never
forced. `HardwareVerification`: `subprocess.run` ends every tool, by its exit or
by its timeout, and `flock` wakes a waiter when the lock is free (`WF` of the
steps of each call); servers, orphans and exceptions are never forced.
`Evaluator`: provider, worker code and deadlines go on (`WF`); hooks may hang for
ever, and so may what they have started, beside the worker's own code. The
deadline of the first frame, 60 seconds, is taken to outlast the `setsid` of the
child. `Transfer`: only the calling process goes on, with its timeouts: it extracts
what arrives, it packs a push, it waits and gives up. Nothing makes the writer of a
pull or the other side of a push go on, hence the exception of `CallReturns`: a
pull whose writer stalls within its archive.
`CommandLine`: the supervisor and the clocks go on; commands may run, and hold
their output, for ever.

### Disagreements

Two runs show the code doing other than a document says. Each
checks one property that states the sentence, and TLC reports a shortest behaviour.

| run | sentence | what happens |
|---|---|---|
| `train_job_unmetered` | active wall time is metered (`README.md:187`) | a failed `docker inspect` is read as "missing": `await` turns the meter off on a running container; with `kill` as the only fault, `continue` killed between unpause and write |
| `tool_runtime_leak` | a wait without an event releases its slot (`docs/outer-loop.md:133`) | a wait that fails keeps it |

Other behaviours of the code that a document, a comment or a reader may not expect.
The models have them, and a property that they concern makes its exception
explicit or says less than the sentence:

- "Every epoch notification represents a live paused job"
  (`docker/train/README.md:83`): an `await` whose ssh client was killed goes on
  (`remote_worker.py:148`), and when a `stop` passes it between its pause and its
  write it publishes a notification of a job whose container is gone
  (`controller.py:387`). `PendingIsPaused` is
  checked and proved for a caller that waits for one command at a time (`Steady`).
- "`train_stop` releases compute" (`docs/outer-loop.md:15`): when `docker rm` fails,
  `stop` reports success and the container goes on (`controller.py:751`).
  `EndedReleases` is required of jobs without such a failure.
- After a `docker rm` or `docker inspect` that failed on a live container
  (`unseen`), the meter is off: a later `await` is ended by neither the budget nor
  an exit (`BudgetEnforced`, `AwaitReturns`), and the runtime gives the slot of
  that job to another one (`loose` in `NoJobForgotten`). Nothing removes the
  container later.
- A start that is reported failed although it launched leaves a job that the run
  does not know: its seconds are charged to nobody and `close()` does not stop it.
- "A summary is written at termination" (`docs/outer-loop.md:199`): the automatic
  submission is made outside the `try` of `run` (`agent.py:467`), and its failure
  leaves `run` before the summary. In `AgentLoop` this is the fault `final`, which
  `BestIsSubmitted` excludes.
- "Per-example timeouts are enforced" (`docker/eval/README.md:56`): only the answer
  to an example has a deadline. A write of the provider to a full pipe, and its
  `waitpid` for a worker that said it was done, have none; a worker that hangs
  before it reads, or what a hook has started, can hold them up until the caller's
  timeout. `EvaluationEnds` excepts exactly that (`Stuck`).
- The supervisor "removes background processes created during the call"
  (`docs/outer-loop.md:206`). One survives the clean-up by forking in each of its three
  rounds, or, with everything that was listed, by ending between the two steps of
  one of them; this is what `SurvivorsForked` says. A process that vanishes while
  its status is read may end the supervisor with an error instead.
- A patch that `git apply` fails to write as a whole is an ordinary result with
  `applied` false (`tool_runner.py:194-207`), and a part of it may be in the
  workspace; `PatchTold` says no more than that.
- What is removed before `os.walk` lists its directory is missing from an export
  that succeeds: `CompleteOrAbsent` is about what the walk listed.
- A remote start whose stream is cut at a member boundary launches a job with
  part of the workspace, or without its resume checkpoint
  (`remote_worker.py:84`): the worker asks only for the request and some
  workspace. The caller is told of an error; `CompleteOrAbsent` is about calls
  that report success.
- A refused export whose stream is empty raises `tarfile.ReadError` and not the
  `WorkspaceArchiveError` that carries the message of the exporter.
- `fetch_stage` writes its request to ssh before the `try` that kills ssh
  (`remote_client.py:159-160`); the write fails only when ssh is gone.
- A legal workspace survives a resume only if the caller's limit and a checkpoint
  fit together into what the remote host accepts (`Roomy` in `TransferProofs`; TLC
  finds `LegalSucceeds` violated when any of its conjuncts is dropped). The
  code's numbers do: 256 MiB for a start (`controller.py:806`) and
  4 GiB for a checkpoint (`controller.py:42`) against 5 GiB
  (`remote_protocol.py:14`). Nothing compares them: `--max-bytes` above
  1 GiB with a full checkpoint would make the remote host refuse a resume that
  the caller had accepted.
- The loader opens a file again after it has hashed it, so a load during which a
  preparation replaces files may mix two of them; `AcceptedWasCompleted` excludes
  that. A preparation replaces the files before the manifest: between the first
  file it changes and its end, or if it is interrupted there, every load refuses,
  also of what had been complete before. `PreparationKept` says that nothing else
  makes a prepared task stop loading. An interrupted `export-labels` leaves a
  directory that ends every later preparation until somebody removes it, and labels
  are never exported again.
- "Killing the disposable sandbox also guarantees no command processes survive"
  (`sandbox.py:122`): the exit code of `docker kill` is ignored, and after a failed
  one the processes go on and `stop()` does nothing. `NothingOutlives` excepts a
  sandbox that is adrift in this way.
- A container whose supervisor wedged is killed and not removed. If
  `runtime.close()` raises, or an interrupt arrives inside `Sandbox.start`, the
  container goes on running; `NothingOutlives` excludes these.

## 4. The proofs

All theorems hold for every value of the constants that satisfies the named
assumptions of the modules (`TrainJobAssumption`, `ToolRuntimeAssumption`,
`AgentLoopAssumption`, `HardwareAssumption`, `PreparedTaskAssumption`,
`SandboxAssumption`, `CommandLineAssumption`, `EvaluatorAssumption`,
`TransferAssumption`), in particular for any number of commands, jobs, epochs,
turns, calls, images, files and processes. Where a theorem excludes faults, the
hypothesis is named, and TLC finds the property violated when any one of the
excluded faults is allowed.

- `TrainJobProofs`. `TypeCorrect` is by induction over one lemma per group of
  actions. `CommandsKnowTheirEpoch` proves `InFlight`, what a command knows of
  its own local variables: its strength is that it mentions no other process, so
  it is inductive even with orphans. `ImplementsHandshake` is about a caller
  that waits for one command at a time (`"detach"` is not among the faults). It
  needs `OneCommand`, a busy process is the caller's, from which it follows that
  the copy of a busy command is what the file holds (`NoLostUpdate`, a lemma and
  not a result: with one command at a time there is nobody to write in between).
  With `PendingIsLater` nothing is then offered over a pending epoch.
  `WordAfterDisk` is the result about commands that overlap: it proves
  `BackedWord` and excludes no fault, orphans and two controllers
  included. `Disk` says of `state.json` and of every copy of it that its pending
  epoch is staged and has an outcome (`Backed`), and of every command what it has
  put on disk at its control point (`DiskOf`). Since no step takes a stage or an
  outcome away (`Grows`), what another process does cannot disturb it.
  `NotificationsAreOnDisk` adds that the outcome is the same in `state.json` and
  in the result file (`NoteOnDisk`), which two commands at once may break; it
  assumes `"detach" \notin Faults`.
  Its second half is about a caller that waits for one command at a time.
  `Doing` is the control point of that command, `Handled` its epoch.
  `SettledIsFinal` (`"detach" \notin Faults`): by `Closed` a job that ended has
  neither a pending epoch nor a running lap, and each command that could make it
  active again needs one of the two. `TheMeterIsRight` (`Serving`: no `kill`,
  no `detach`): `Metering` says that a running container has a running lap
  and a paused one has none, except within the commands that are about to say so,
  and names the control points where they differ. `TheContainerIsAsRecorded`
  (`Steady`: in addition no `die`): by `Frozen` an epoch that is neither settled
  nor pending is the one its script waits for, so the next event `await` takes up
  is that one. `docker rm` and `docker inspect` may fail in both; both properties
  except the container on which one of them did (`unseen`), since the code then
  records the end of a job that goes on, as `train_job_unmetered` shows. The excluded faults break them in the code: a
  command killed after `unpause` leaves a container running with its meter off, an
  orphan writes what it read before another command wrote, and a container that
  dies while it is paused is not what was recorded.
- `ToolRuntimeProofs`. The invariant `Inv` adds to the types what the call in
  progress knows (`CallInv`: its job is the active one, a granted budget fits)
  and that a call which holds a slot holds an unused one (`SlotInv`). From it
  follow `LastSlotIsKept` and `GrantsAlwaysFit`, together `PromisesAreKept`, and
  `ImplementsQuota`. No fault is excluded. `JobsInv` follows the jobs: a job with
  a container is in the slot, was reported left behind, or was recorded as ended
  on the word of a failed `docker rm` or `inspect` (`loose`; `Known`), no job is
  charged more than it was metered and one that left the slot no less
  (`Charged`), and a call about to give a job up knows that it has ended
  (`Ending`). `NoJobIsForgotten` and `EverySecondIsCharged` follow, under all
  faults. `BooksAreKept` assumes `Reported`, that none of the faults `await`,
  `adrift`, `stop` and `copy` occurs: each leaves the active job without a pending
  event, which is what `tool_runtime_leak` shows for one of them. Starts may still
  be lost and the run interrupted anywhere. Its invariant counts the slot that a
  call in progress holds (`SlotsUsed`) and says of the job, between two calls, that
  it is paused at its pending event (`Decided`). `TheTotalIsBounded` assumes
  `Supervised`, none of `await`, `adrift`, `lost` and `interrupt`: each lets a job
  compute while nobody waits for it. By `OnlyAwaited` only the job of an `await`
  is metered, and by `Added` the seconds of all jobs are those accounted and those
  the active job has not been charged for; so the budget of the next grant, which
  fits what is left of the accounted ones, bounds the sum.
- `SumTheorems`. A sum over a finite set is a fold, defined by recursion. What it
  is over a set with one element more, or when the function changes at one
  element, is proved by induction over the size of the set: a set of
  numbers that are counterexamples has a least element (`WFMin`), which is how
  `Induction` avoids a theorem with an operator parameter. From these follow that a
  sum over a set of images is one over their sources (`SumOfImage`), that a part
  of a set has no larger a sum (`SumBetween`), and what adding or raising one
  element does (`SumAdds`, `SumGrows`). By the same induction a function that
  takes its value at a place from the one before, or from the one after, exists
  (`ClimbExists`, `DescentExists`), which is what a loop along a list needs before
  anything can be said of it; and the points of a segment and of a union of
  disjoint sets are counted (`SegmentSize`, `SpanSize`, `UnionCounts`).
- `AgentLoopProofs`. `Counted` is the strengthening of `RequestsBounded`:
  `asked <= turns * (max_model_retries + 1) + failures`. A failure raises both
  sides; a response raises the right side by a whole round, which pays for the
  reset of the counter. `Paired` and `Told` say, by control point, which calls
  are unanswered and what the status says of the submission. `AskedInOrder`,
  `EndsAtOnce` and `CandidateSubmitted` follow.
- `HardwareVerificationProofs`. `Holder` ties the lock to the control points, so
  that two calls past `Acquire` are one (`Exclusive`). `Programmed` says what a
  call on the board has got through (its images fit, the first `done` banks are
  its own), `OwnNetwork` that a loader that worked left its own network unless
  one was cut short, `Reaped` that servers belong to a loader or are abandoned.
  A step of one call leaves the place of the others alone (`OthersStay`), and
  only `flash` and the loader touch the board (`FlashStep`, `FirmwareStep`):
  with `Exclusive` this keeps `Programmed` and `OwnNetwork` for the others.
  `VerdictStands`, `NoServerForgotten` and `OneProgrammer` follow.
- `CommandLineProofs`. `TaskInv` is about the task directory. `Prepared`: a
  manifest is always one that a preparation completed with, and the directory is
  what the manifest says (`current`) from the end of a preparation until a later
  one replaces a file by another content.
  `Loading`: what an undisturbed loader has checked and read is what the
  directory holds (`Undisturbed`). A step of a preparation that replaces something
  is noticed, and then nothing is claimed of the loader; one that replaces nothing
  changes nothing a loader looks at (`LoaderKnows`).
  `SessionInv` is about the sandbox: `Fresh` (nothing exists before the start),
  `Calling` (where the supervisor is while the host waits), `Living` (processes
  live in a running container that `Sandbox.started` knows of, unless `docker kill`
  failed on it), `Tally` (output
  read is kept up to the limit, and `truncated` says whether it was less),
  `Drained` (a result is made when nobody can write any more), `Patching`, and
  `Cleaned` (in round `r` of the clean-up, a new process that is not about to be
  looked at or killed exists only if one forked, in every round so far, after
  `/proc` was listed, which includes the time in which the statuses are read). From them follow
  `LoadedWasCompleted`, `PreparationsKeep`, `ResultsAreHonest`,
  `SurvivorsHaveForked` and `NothingIsLeft`.

- `EvaluatorProofs`. `Progress` ties the number of predictions to the example
  and the control point of the provider, `Processes` the worker and the pipe ends
  to it. `InStep` is not inductive: that an answer is about the current image
  depends on everything in the two pipes and in the hands of the worker being
  about it. `Traffic` says so: the worker speaks once per request, a request
  pipe holds chunks of the current example only, and a worker that has everything
  makes the provider wait. `Started` says that the worker has dropped its
  privileges before it speaks or is spoken to. `StaysInStep`, `AlwaysEndsClean`
  and `DataIsLoadedLate` follow. No fault is excluded: hooks may fail, hang, be killed
  and leave helpers that hold the pipes or die later. Only one thing is
  assumed of them: nothing but the worker's own code writes frames. Neither the
  number of images nor the size of frames and pipes is bounded.

  `AssignIsGreedy` is about `Scorer`: the two loops of `_match_image` over lists in
  order meet `IsMatching`, whatever the number of objects and detections. A loop is
  a fold, which the community modules define over sets of places; `BestByTurns` and
  `AssignByTurns` turn it into a sequence of turns, by the induction of
  `SumTheorems`. `FoundIn` is the invariant of the inner loop: without a match no
  free object reaches the threshold; with one it is a free real object that is at
  least as close as every other seen so far, or an ignored one and no real one
  reaches. The order of the list, real objects first (`IgnoredLast`), is needed: it
  is what makes the early `break` right. `Taken` is the invariant of the outer
  loop. Overlaps are compared as fractions (`AtLeastTransitive`), which have a
  positive denominator because valid boxes are not empty (`score.py:82`).
  `MatchImageIs` says that `Ordered` and `ByScore` deliver such lists.

  `EnvelopeIsBest` goes through the list from its end: what the envelope has at a
  place is one of the precisions at or after it and at least each of them. At the
  place of the r-th true positive these are the precisions with a recall of at
  least r, so `_voc_ap` adds up the terms of the interpolated curve.

  `SweepIsUnion` has two inductions. Inside a strip the intervals are sorted by
  their top: what is behind the current stretch and the stretch itself are the
  points of the intervals seen so far, since a later one begins no earlier. Between
  two neighbouring edges no rectangle begins or ends, so the pixels covered in a
  strip are its width times that number, and the strips share no pixel
  (`UnionCounts`).

  `ScoresRight` puts these together. Its strengthening is `Outcome`: metrics once
  written are those of the accepted labels and of the predictions, which nothing
  changes afterwards (`OutcomeKept`). Inside it, `MetricsHold`, `MatchingHolds`,
  `RecallHolds` and `CoverHolds` prove the four parts of `ScoresAreRight`. For
  `RecallHolds` a larger limit leaves each detection its match, because the matching
  of a longer list begins as that of the shorter one (`HitsGrow`); a match uses up a
  truth (`HitsBounded`); and what all classes find together is at most the number
  of detections within the limits (`FoundOfAllClasses`). `EvaluatorAssumption` says
  what these need of the inputs: that the answers of the hooks and the label
  files consist of the boxes, detections and labels that the checks of `score.py`
  accept.
- `TransferProofs`. `WhatIsAcceptedIsComplete` is about what is on its way.
  `Flow` says that there is a chain of places in the payload, from the one the
  extractor has reached, over one place after every item on the wire, to the one
  the writer is at, and that nothing which has to be carried lies between two
  neighbours without its item (`ChainGrows` when the writer appends an item,
  `ChainShrinks` when the extractor takes one). When the end marker, or the end of
  a stream whose writer exited with code 0, is all that is left, everything has
  arrived: everything that the walk listed (`lost` are the places it did not,
  because they were removed before). `Legs` says what a stream has to carry: in a
  pull the tree, in a push what was asked for; `SnapshotWanted` is the step from one to the other, the
  snapshot of the workspace with its request and checkpoint. `Protocol` keeps the
  two processes and the call together, in particular that only a writer that has
  exited has an exit code; `NoChildIsLeft` is part of it. No fault is excluded.

  `LimitsAreKept` is about sums. `Stocked` says that what is on the disk of a stage
  is a set of places of the payload, `Counted` that its files and bytes are no
  more than what the extractor has counted, which is within the limit at every
  moment; each item extracted adds one place and its size to both (`SumAdds`).
  `Listing` says that a name stands for one entry of the payload and a member for
  its entry, so that nothing is counted twice. No fault is excluded.

  `LegalTreesArrive` says that a legal tree is never refused, over limit or
  short: nothing but a fault makes such a call fail. `Smooth` is what holds while
  there was no fault. `Counts` and `Stored` say what the writer and the extractor have counted:
  exactly the places sent and those on disk. `Light` says that all a stream has to
  carry is within the limits of both ends, which for the push follows from the
  pull (`SnapshotLight`: the snapshot is part of the tree, `SumBetween`, and the
  request and the checkpoint add two files). `Peace` says that no process fails
  and no error is recorded, `EndComes` that a stream ends with its marker or a
  writer that is still to send it, `Unlocked` that no directory without write
  permission is in the way. It assumes `Roomy`: the limits of the exporter and of
  the remote host leave room for what a caller may ask for and a checkpoint,
  as the code's constants do.

Model-checked only: the liveness properties `AwaitReturns`,
`SettledWakesScript`, `Terminates`, `EveryCallReturns`, `EvaluationEnds`,
`CallReturns` and `CallEnds`, since liveness under fairness and `ENABLED` are out of
the prover's reach; and the two sentences of documents that TLC refutes. Every
safety property and refinement that a passing run checks is a theorem.

None of the modules with theorems uses a RECURSIVE operator.

## 5. Not modelled

- Preparation of datasets, weights and quantization, dashboard and plots: they
  share no state with a run, or only read what it has left.
- The OpenRouter client: a retry loop over one exchange, with no state another
  part sees; `AgentLoop` takes its outcome as one request that was answered or
  failed.
- The arguments of Docker and the checks of arguments and configurations, the
  text of logs and reports, floating-point rounding: no property is about them.
- A crash of the outer program itself: a run is not resumable and its state dies
  with it. In particular a crash between the rename of the submission and
  `submission-result.json` (`tools.py:1102`) leaves a directory that nothing
  reads back.
- Two preparations of one task at the same time, the reuse of process ids, and
  image tags that are moved between a preparation and a run.
- `verify_on_hw` as a tool leaves the runtime's counters alone; what it does is
  `HardwareVerification`.

## 6. Plan

1. `OuterRun`: `AgentLoop` composed with `ToolRuntime`: quotas and submission
   across the whole run, `close` after every end.
2. `ModelRequest`: the transport retries of the OpenRouter client below one
   request, and the number of HTTP requests of a run.
