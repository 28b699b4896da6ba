------------------------ MODULE HardwareVerification ------------------------
(***************************************************************************)
(* Physical verification on one board: NucleoN657Verifier.analyze and      *)
(* .verify of odbench_outer/hardware_verification.py and the loader        *)
(* wrapper odbench_outer/n6_loader_wrapper.py.                             *)
(*                                                                         *)
(* The calls come from benchmark runs that share a host, a lock file and   *)
(* a board.  One step is the start or the end of a vendor tool (_run), or  *)
(* what the verifier does between two of them.                             *)
(*                                                                         *)
(*   at        control point of a call                                     *)
(*   mode      "analyze", or the acceptance mode of verify                 *)
(*   model     the ONNX file: sizes of its memory images, mean duration    *)
(*   tool      what becomes of the tool the call waits for; while the      *)
(*             loader cleans up, the return code of load_and_run           *)
(*   done      images of the call that are programmed                      *)
(*   passed    report["passed"], and report["compiled"] of an analysis     *)
(*   lock      holder of the flock                                         *)
(*   flash, firmware                                                       *)
(*             the board: whose image lies in each bank, whose network is  *)
(*             loaded                                                      *)
(*   servers   GDB servers of the call that are alive                      *)
(*   orphan    what is left of a loader whose wrapper is no more           *)
(***************************************************************************)
EXTENDS Integers, Sequences

CONSTANTS
    Calls, Nobody,
    Models,                     \* records [images, duration]
    runtime_seconds, Tolerance, \* threshold, and what a submission may add
    max_external_image_bytes,
    MaxImages, MaxServers,      \* bounds: of one model, of one loader
    Faults

FaultKinds == {"hang", "stuck", "raise"}
Torn == "torn"     \* a bank or a program that was written in part

ASSUME HardwareAssumption ==
    /\ Nobody \notin Calls /\ Torn \notin Calls /\ Nobody # Torn
    /\ MaxImages \in Nat /\ MaxServers \in Nat
    /\ runtime_seconds \in Nat /\ Tolerance \in Nat
    /\ max_external_image_bytes \in Nat
    /\ \A k \in Models :
          /\ k.images \in Seq(Nat) /\ Len(k.images) <= MaxImages
          /\ k.duration \in Nat
    /\ Faults \subseteq FaultKinds

VARIABLES
    at, mode, model, tool, done, passed, lock, flash, firmware, servers, orphan

request == <<mode, model>>
board   == <<flash, firmware>>
loader  == <<servers, orphan>>
vars    == <<at, request, tool, done, passed, lock, board, loader>>

-----------------------------------------------------------------------------
Modes   == {"analyze", "strict", "submission"}
OnBoard == {"reset", "flash", "load", "profile"}
Running == {"generate"} \cup OnBoard
Locked  == Running \cup {"images", "leave"}
Over    == {"returned", "raised"}
Banks   == 1 .. MaxImages
Owners  == Calls \cup {Nobody, Torn}

Init ==
    /\ at = [c \in Calls |-> "idle"]
    /\ mode = [c \in Calls |-> "analyze"]
    /\ model \in [Calls -> Models]
    /\ tool = [c \in Calls |-> "none"]
    /\ done = [c \in Calls |-> 0]
    /\ passed = [c \in Calls |-> FALSE]
    /\ lock = Nobody
    /\ flash = [b \in Banks |-> Nobody] /\ firmware = Nobody
    /\ servers = [c \in Calls |-> 0] /\ orphan = [c \in Calls |-> "no"]

\* allowed_runtime_seconds.
Allowed(c) ==
    runtime_seconds + (IF mode[c] = "submission" THEN Tolerance ELSE 0)

\* validate_external_memory_image_sizes.
Fits(k) == \A i \in DOMAIN k.images : k.images[i] <= max_external_image_bytes

-----------------------------------------------------------------------------
(* Control.                                                                *)

Go(c, point) == at' = [at EXCEPT ![c] = point]

\* The call goes on without a tool of its own.
Plain(c, point) == Go(c, point) /\ tool' = [tool EXCEPT ![c] = "none"]

\* A tool is started; one that hangs never returns by itself.
Enter(c, point) ==
    /\ Go(c, point)
    /\ \E t \in {"runs"} \cup (IF "hang" \in Faults THEN {"hangs"} ELSE {}) :
          tool' = [tool EXCEPT ![c] = t]

Ready(c, point) == at[c] = point /\ tool[c] = "runs"

\* A bank whose programming was cut off.
Spoilt(c) ==
    IF at[c] = "flash"
    THEN \E x \in {flash[done[c] + 1], Torn} :
            flash' = [flash EXCEPT ![done[c] + 1] = x]
    ELSE UNCHANGED flash

\* The debugger of a loader may program the board until it is cut off.
Debugging(c) == at[c] = "load" /\ tool[c] \in {"runs", "hangs"} /\ servers[c] > 0

CutOff(c) ==
    IF Debugging(c) THEN firmware' \in {firmware, c, Torn} ELSE UNCHANGED firmware

\* The wrapper of a call is no more: nobody stops its children.
Abandoned(c) ==
    /\ UNCHANGED servers
    /\ orphan' =
          IF at[c] = "load" /\ servers[c] > 0
          THEN [orphan EXCEPT ![c] = IF Debugging(c) THEN "loader" ELSE "server"]
          ELSE orphan

-----------------------------------------------------------------------------
(* analyze and verify.                                                     *)

Begin(c) ==
    /\ at[c] = "idle"
    /\ \E m \in Modes : mode' = [mode EXCEPT ![c] = m]
    /\ Go(c, "environment")
    /\ UNCHANGED <<model, tool, done, passed, lock, board, loader>>

\* The vendor installation is complete, or the report says what is missing.
Environment(c) ==
    /\ at[c] = "environment"
    /\ \E point \in {"lock", "report"} : Go(c, point)
    /\ UNCHANGED <<request, tool, done, passed, lock, board, loader>>

\* Variant: the lock file is opened and not locked.
AcquireUnlocked(c) ==
    /\ at[c] = "lock"
    /\ lock' = c
    /\ Enter(c, "generate")
    /\ UNCHANGED <<request, done, passed, board, loader>>

Acquire(c) ==
    /\ at[c] = "lock"
    /\ lock = Nobody
    /\ lock' = c
    /\ Enter(c, "generate")
    /\ UNCHANGED <<request, done, passed, board, loader>>

Generated(c) ==
    /\ Ready(c, "generate")
    /\ Plain(c, "images")
    /\ UNCHANGED <<request, done, passed, lock, board, loader>>

\* Images that are too large, or without an address, end the call.
Images(c) ==
    /\ at[c] = "images"
    /\ \/ Plain(c, "leave") /\ UNCHANGED passed
       \/ /\ Fits(model[c]) /\ mode[c] = "analyze"
          /\ passed' = [passed EXCEPT ![c] = TRUE]
          /\ Plain(c, "leave")
       \/ /\ Fits(model[c]) /\ mode[c] # "analyze"
          /\ Enter(c, "reset")
          /\ UNCHANGED passed
    /\ UNCHANGED <<request, done, lock, board, loader>>

\* Variant: the last image is forgotten.
AllButLast(c, n) ==
    /\ done' = [done EXCEPT ![c] = n]
    /\ Enter(c, IF n + 1 < Len(model[c].images) THEN "flash" ELSE "load")

\* The next image, or the loader after the last one.
NextImage(c, n) ==
    /\ done' = [done EXCEPT ![c] = n]
    /\ Enter(c, IF n < Len(model[c].images) THEN "flash" ELSE "load")

\* check=False: a reset that fails is only a warning.
ResetDone(c) ==
    /\ Ready(c, "reset")
    /\ firmware' \in {firmware, Nobody}
    /\ NextImage(c, 0)
    /\ UNCHANGED <<request, passed, lock, flash, loader>>

Flashed(c) ==
    /\ Ready(c, "flash")
    /\ flash' = [flash EXCEPT ![done[c] + 1] = c]
    /\ NextImage(c, done[c] + 1)
    /\ UNCHANGED <<request, passed, lock, firmware, loader>>

\* The checker measures whatever runs on the board.
Profiled(c) ==
    /\ Ready(c, "profile")
    /\ firmware \in Calls
    /\ passed' = [passed EXCEPT ![c] = model[firmware].duration <= Allowed(c)]
    /\ Plain(c, "leave")
    /\ UNCHANGED <<request, done, lock, board, loader>>

\* A tool fails, or its output is not what the verifier expects.
Broken(c) ==
    /\ \E point \in {"generate", "flash", "profile"} : Ready(c, point)
    /\ Spoilt(c)
    /\ Plain(c, "leave")
    /\ UNCHANGED <<request, done, passed, lock, firmware, loader>>

\* Variant: the reset is run without a timeout.
TimedOutButReset(c) ==
    /\ tool[c] = "hangs" /\ at[c] # "reset"
    /\ Spoilt(c) /\ CutOff(c) /\ Abandoned(c)
    /\ Plain(c, "leave")
    /\ UNCHANGED <<request, done, passed, lock>>

\* subprocess.run kills the tool it started, and only that process.
TimedOut(c) ==
    /\ tool[c] = "hangs"
    /\ Spoilt(c) /\ CutOff(c) /\ Abandoned(c)
    /\ Plain(c, "leave")
    /\ UNCHANGED <<request, done, passed, lock>>

\* The lock is released with the `with` block, the report is written after it.
Leave(c) ==
    /\ at[c] = "leave"
    /\ lock' = Nobody
    /\ Go(c, "report")
    /\ UNCHANGED <<request, tool, done, passed, board, loader>>

Report(c) ==
    /\ at[c] = "report"
    /\ Go(c, "returned")
    /\ UNCHANGED <<request, tool, done, passed, lock, board, loader>>

\* KeyboardInterrupt, and what verify does not catch: output that is not UTF-8,
\* a report that cannot be written.
Raise(c) ==
    /\ "raise" \in Faults
    /\ at[c] \in Locked \cup {"environment", "lock", "report"}
    /\ Spoilt(c) /\ CutOff(c) /\ Abandoned(c)
    /\ Plain(c, "raised")
    /\ lock' = IF at[c] \in Locked THEN Nobody ELSE lock
    /\ UNCHANGED <<request, done, passed>>

-----------------------------------------------------------------------------
(* The loader: load_and_run_with_cleanup around the vendor's load_and_run. *)

Spawn(c) ==
    /\ at[c] = "load" /\ tool[c] \in {"runs", "hangs"}
    /\ servers[c] < MaxServers
    /\ servers' = [servers EXCEPT ![c] = @ + 1]
    /\ UNCHANGED <<at, request, tool, done, passed, lock, board, orphan>>

\* load_and_run ends, in `finally` the servers are still there.
LoadEnds(c) ==
    /\ Ready(c, "load")
    /\ \/ /\ servers[c] > 0
          /\ firmware' = c
          /\ tool' = [tool EXCEPT ![c] = "worked"]
       \/ /\ firmware' \in {firmware, Torn}
          /\ tool' = [tool EXCEPT ![c] = "broke"]
    /\ UNCHANGED <<at, request, done, passed, lock, flash, loader>>

Cleaning(c) == at[c] = "load" /\ tool[c] \in {"worked", "broke"}

\* _stop_process: terminate, then kill.
StopServer(c) ==
    /\ Cleaning(c)
    /\ servers[c] > 0
    /\ servers' = [servers EXCEPT ![c] = @ - 1]
    /\ UNCHANGED <<at, request, tool, done, passed, lock, board, orphan>>

\* A killed server that does not die in time raises out of `finally`, past the
\* servers that come after it.
ServerStuck(c) ==
    /\ "stuck" \in Faults
    /\ Cleaning(c)
    /\ servers[c] > 0
    /\ Abandoned(c)
    /\ Plain(c, "leave")
    /\ UNCHANGED <<request, done, passed, lock, board>>

\* Variant: servers are stopped only after a load that worked.
LoadedUnclean(c) ==
    /\ Cleaning(c)
    /\ \/ tool[c] = "worked" /\ servers[c] = 0 /\ Enter(c, "profile")
       \/ tool[c] = "broke" /\ Plain(c, "leave")
    /\ UNCHANGED <<request, done, passed, lock, board, loader>>

Loaded(c) ==
    /\ Cleaning(c)
    /\ servers[c] = 0
    /\ \/ tool[c] = "worked" /\ Enter(c, "profile")
       \/ tool[c] = "broke" /\ Plain(c, "leave")
    /\ UNCHANGED <<request, done, passed, lock, board, loader>>

\* The debugger of a killed wrapper is still programming.
Straggle(c) ==
    /\ orphan[c] = "loader"
    /\ firmware' \in {c, Torn}
    /\ UNCHANGED <<at, request, tool, done, passed, lock, flash, loader>>

\* What was left behind exits.
OrphanExits(c) ==
    /\ orphan[c] \in {"loader", "server"}
    /\ orphan' = [orphan EXCEPT ![c] = IF @ = "loader" THEN "gone" ELSE "no"]
    /\ servers' = [servers EXCEPT ![c] = 0]
    /\ UNCHANGED <<at, request, tool, done, passed, lock, board>>

-----------------------------------------------------------------------------
Step(c) ==
    \/ Environment(c) \/ Acquire(c) \/ Generated(c) \/ Images(c)
    \/ ResetDone(c) \/ Flashed(c) \/ Profiled(c) \/ Broken(c) \/ TimedOut(c)
    \/ LoadEnds(c) \/ StopServer(c) \/ ServerStuck(c) \/ Loaded(c)
    \/ Leave(c) \/ Report(c)

Outside(c) ==
    Begin(c) \/ Spawn(c) \/ Raise(c) \/ Straggle(c) \/ OrphanExits(c)

Next == \E c \in Calls : Step(c) \/ Outside(c)

Spec == Init /\ [][Next]_vars

\* Every tool either ends or runs into its timeout, and a process that waits
\* for the lock gets it when it is free.
FairSpec == Spec /\ \A c \in Calls : WF_vars(Step(c))

-----------------------------------------------------------------------------
(* Properties.                                                             *)

\* Every variable stays in its range.
TypeOK ==
    /\ at \in [Calls -> Locked \cup Over
                        \cup {"idle", "environment", "lock", "report"}]
    /\ mode \in [Calls -> Modes]
    /\ model \in [Calls -> Models]
    /\ tool \in [Calls -> {"none", "runs", "hangs", "worked", "broke"}]
    /\ done \in [Calls -> 0 .. MaxImages]
    /\ passed \in [Calls -> BOOLEAN]
    /\ lock \in Calls \cup {Nobody}
    /\ flash \in [Banks -> Owners]
    /\ firmware \in Owners
    /\ servers \in [Calls -> 0 .. MaxServers]
    /\ orphan \in [Calls -> {"no", "server", "loader", "gone"}]

\* Some loader was killed before its clean-up: the board may have been
\* programmed by a debugger that no call waits for.
CutShort == \E c \in Calls : orphan[c] \in {"loader", "gone"}

\* A call measures its own network with all of its own weights, whatever other
\* calls, and failed calls before, left on the board.
Installed ==
    ~CutShort =>
        \A c \in Calls : at[c] = "profile" =>
            /\ firmware = c
            /\ \A b \in DOMAIN model[c].images : flash[b] = c

\* A model that passes is itself fast enough, for an explicit verification
\* without the tolerance of a submission.
PassedIsFast ==
    ~CutShort =>
        \A c \in Calls : passed[c] =>
            /\ mode[c] = "strict" => model[c].duration <= runtime_seconds
            /\ mode[c] = "submission" =>
                  model[c].duration <= runtime_seconds + Tolerance

\* No part of a model with an image over the limit ever reaches the board.
NothingTooLarge ==
    \A c \in Calls :
        firmware = c \/ (\E b \in Banks : flash[b] = c) =>
            \A i \in DOMAIN model[c].images :
                model[c].images[i] <= max_external_image_bytes

\* A verdict is about the model of the call, measured on the board as a whole,
\* and a model that is too large gets none.
VerdictHolds == Installed /\ PassedIsFast /\ NothingTooLarge

\* A GDB server that is alive belongs to the holder of the lock, unless it
\* resisted being stopped or its wrapper was killed.
ServersReaped ==
    \A c \in Calls : servers[c] > 0 => lock = c \/ orphan[c] # "no"

\* docs/outer-loop.md: the process lock serializes access to the board.
OnlyHolderPrograms ==
    [][ board' # board =>
            CutShort \/ \E c \in Calls : lock = c /\ at[c] \in OnBoard ]_vars

\* Every call returns or raises, and the lock is free for the next one.
EveryCallReturns ==
    \A c \in Calls : at[c] # "idle" ~> at[c] \in Over /\ lock # c
==============================================================================
