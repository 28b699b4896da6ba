---------------------------- MODULE CommandLine -----------------------------
(***************************************************************************)
(* One run of odbench_outer/cli.py: it loads a prepared task, starts the   *)
(* sandbox, lets the agent loop call workspace tools, and releases what it *)
(* started on whichever way it ends.                                       *)
(*                                                                         *)
(*   main       control point of main()                                    *)
(*   fault      a step of the host that failed, at most one                *)
(***************************************************************************)
EXTENDS PreparedTask, Sandbox

CONSTANT MaxCalls     \* tool calls

ASSUME CommandLineAssumption == MaxCalls \in Nat

VARIABLES main, calls, fault

session == <<main, calls, fault>>
vars    == <<taskVars, sandboxVars, session>>

-----------------------------------------------------------------------------
\* A session begins with a task that is loaded, or, after any such load, with
\* the start of the sandbox: nothing from there on looks at the task directory.
Init ==
    /\ TaskInit /\ SandboxInit
    /\ main \in {"load", "start"} /\ calls = 0 /\ fault = "none"

Fault(name) == name \in Faults /\ fault = "none" /\ fault' = name

\* PreparedTask.load returned or raised.
Load ==
    /\ main = "load" /\ load \in {"loaded", "refused"}
    /\ main' = IF load = "loaded" THEN "loaded" ELSE "ended"
    /\ UNCHANGED <<taskVars, sandboxVars, calls, fault>>

\* Sandbox.start: the container runs, or docker run failed, or the command was
\* interrupted with the container running or not.
Start ==
    /\ main = "start"
    /\ \/ /\ main' = "loop" /\ container' = "running" /\ started' = TRUE
          /\ UNCHANGED fault
       \/ /\ Fault("start")
          /\ main' = "stop" /\ container' \in {"absent", "dead", "running"}
          /\ UNCHANGED started
    /\ UNCHANGED <<taskVars, tool, supervisor, processes, cleaning, output, patching, calls>>

\* A tool call of the agent loop.
Call ==
    /\ main = "loop" /\ calls < MaxCalls
    /\ Exec \/ Patch
    /\ calls' = calls + 1
    /\ UNCHANGED <<taskVars, main, fault>>

\* The loop returns, or raises because the supervisor was given up.
LeaveLoop ==
    /\ main = "loop" /\ tool \in {"none", "wedged", "adrift"}
    /\ main' = "close"
    /\ UNCHANGED <<taskVars, sandboxVars, calls, fault>>

\* KeyboardInterrupt during a call: the docker exec client is killed, its
\* supervisor is not.
Interrupt ==
    /\ main = "loop" /\ tool \in {"exec", "patch"}
    /\ Fault("interrupt")
    /\ main' = "close" /\ tool' = "none"
    /\ UNCHANGED <<taskVars, container, started, supervisor, processes, cleaning, output,
                   patching, calls>>

\* runtime.close(): if it raises, sandbox.stop() is not called.
Close ==
    /\ main = "close"
    /\ \/ main' = "stop" /\ UNCHANGED fault
       \/ main' = "ended" /\ Fault("close")
    /\ UNCHANGED <<taskVars, sandboxVars, calls>>

MustStop == started

\* Sandbox.stop: docker stop and docker rm, whose failures are ignored.
Stop ==
    /\ main = "stop"
    /\ main' = "ended"
    /\ IF ~MustStop THEN UNCHANGED <<container, alive, group, holders, supervisor, started, fault>>
       ELSE /\ started' = FALSE
            /\ \/ container' = "absent" /\ Kill(alive) /\ supervisor' = "idle" /\ UNCHANGED fault
               \/ Fault("stop") /\ UNCHANGED <<container, alive, group, holders, supervisor>>
    /\ UNCHANGED <<taskVars, tool, spawned, leader, cleaning, output, patching, calls>>

-----------------------------------------------------------------------------
\* The supervisor and the command's processes, while the container runs.
InContainer ==
    /\ container = "running" /\ main # "ended"
    /\ Supervising \/ \E p \in alive : Fork(p) \/ Exit(p) \/ CloseOutput(p) \/ Write(p)
    /\ UNCHANGED <<taskVars, session>>

Tasks == main = "load" /\ TaskNext /\ UNCHANGED <<sandboxVars, session>>

Next == Tasks \/ Load \/ Start \/ Call \/ LeaveLoop \/ Interrupt \/ Close \/ Stop \/ InContainer

Spec == Init /\ [][Next]_vars

\* The supervisor and the clock go on; commands may run for ever.
FairSpec == Spec /\ WF_vars(container = "running" /\ Supervising /\ UNCHANGED <<taskVars, session>>)

-----------------------------------------------------------------------------
(* Properties.                                                             *)

TypeOK ==
    /\ TaskTypeOK /\ SandboxTypeOK
    /\ main \in {"load", "loaded", "start", "loop", "close", "stop", "ended"}
    /\ calls \in 0 .. MaxCalls /\ fault \in Faults \cup {"none"}

\* After the session no process of the agent runs, interrupted or wedged as it
\* may have been, unless starting, closing or stopping failed, or docker kill.
NothingRunsAfter ==
    main = "ended" /\ fault \notin {"start", "close", "stop"} /\ tool # "adrift" =>
        container # "running" /\ alive = {}

\* No process of the agent outlives the wait for it.
NothingOutlives == NothingRunsAfter /\ WedgedMeansDead

\* Every tool call returns or fails, whatever its processes do.
CallEnds == tool \in {"exec", "patch"} ~> tool \in {"none", "wedged", "adrift"}
=============================================================================
