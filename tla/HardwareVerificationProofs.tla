--------------------- MODULE HardwareVerificationProofs ---------------------
(* Theorems about HardwareVerification, for any number of calls, any models *)
(* and all faults.                                                          *)
EXTENDS HardwareVerification, TLAPS

\* The lock is held exactly between its acquisition and the end of the block,
\* and tools run only in between.
Holder ==
    \A c \in Calls :
        /\ at[c] \in Locked <=> lock = c
        /\ tool[c] # "none" => at[c] \in Running

\* What a call that works on the board has got through.
ProgrammedBy(c) ==
    /\ at[c] \in OnBoard => Fits(model[c])
    /\ orphan[c] = "loader" => Fits(model[c])
    /\ at[c] = "flash" => done[c] < Len(model[c].images)
    /\ at[c] \in {"load", "profile"} => done[c] = Len(model[c].images)
    /\ at[c] \in {"flash", "load", "profile"} =>
          \A b \in 1 .. done[c] : flash[b] = c

Programmed == \A c \in Calls : ProgrammedBy(c)

\* The network that is loaded is that of the call whose loader worked.
OwnNetwork ==
    ~CutShort =>
        \A c \in Calls :
            at[c] = "profile" \/ (at[c] = "load" /\ tool[c] = "worked") =>
                firmware = c

\* Servers are alive only while a loader is, or after it was abandoned, which
\* ends the call.
Reaped ==
    \A c \in Calls :
        /\ servers[c] > 0 => at[c] = "load" \/ orphan[c] # "no"
        /\ orphan[c] # "no" => at[c] \in {"leave", "report"} \cup Over

\* What a report says, before and after it is decided.
Judged ==
    /\ \A c \in Calls : at[c] = "idle" => ~passed[c]
    /\ PassedIsFast

IInv ==
    /\ TypeOK /\ Holder /\ Programmed /\ OwnNetwork /\ Reaped /\ Judged
    /\ NothingTooLarge

USE HardwareAssumption

-----------------------------------------------------------------------------
\* Any tool may be started, and it either runs or hangs.
LEMMA EnterType ==
    ASSUME TypeOK, NEW c \in Calls, NEW p, Enter(c, p)
    PROVE  /\ at' = [at EXCEPT ![c] = p]
           /\ \E t \in {"runs", "hangs"} : tool' = [tool EXCEPT ![c] = t]
           /\ tool' \in [Calls -> {"none", "runs", "hangs", "worked", "broke"}]
BY DEF Enter, Go, TypeOK

\* A model has at most MaxImages images.
LEMMA ModelType ==
    ASSUME TypeOK, NEW c \in Calls
    PROVE  /\ model[c] \in Models
           /\ model[c].images \in Seq(Nat)
           /\ Len(model[c].images) \in 0 .. MaxImages
           /\ DOMAIN model[c].images = 1 .. Len(model[c].images)
BY DEF TypeOK

\* The initial state satisfies the invariant.
LEMMA InitIInv == ASSUME Init PROVE IInv
<1>1. TypeOK
  BY DEF Init, TypeOK, Locked, Running, OnBoard, Over, Modes, Banks, Owners
<1>2. \A c \in Calls : at[c] = "idle" /\ tool[c] = "none" /\ orphan[c] = "no" /\ servers[c] = 0
  BY DEF Init
<1>3. lock = Nobody  BY DEF Init
<1>4. \A c \in Calls : ~passed[c]  BY DEF Init
<1>5. NothingTooLarge
  BY DEF NothingTooLarge, Init
<1> QED
  BY <1>1, <1>2, <1>3, <1>4, <1>5
  DEF IInv, Holder, Programmed, ProgrammedBy, OwnNetwork, Reaped, Judged,
      PassedIsFast, Locked, Running, OnBoard

-----------------------------------------------------------------------------
(* Type correctness.                                                       *)

LEMMA CutOffType ==
    ASSUME TypeOK, NEW c \in Calls, Spoilt(c), CutOff(c), Abandoned(c),
           at[c] = "flash" => done[c] + 1 \in Banks
    PROVE  /\ flash' \in [Banks -> Owners] /\ firmware' \in Owners
           /\ servers' \in [Calls -> 0 .. MaxServers]
           /\ orphan' \in [Calls -> {"no", "server", "loader", "gone"}]
<1>1. flash' \in [Banks -> Owners]
  BY DEF TypeOK, Spoilt, Owners
<1>2. firmware' \in Owners
  BY DEF TypeOK, CutOff, Owners
<1>3. orphan' \in [Calls -> {"no", "server", "loader", "gone"}]
  BY DEF TypeOK, Abandoned
<1> QED  BY <1>1, <1>2, <1>3 DEF TypeOK, Abandoned

\* An image that is being programmed has a bank.
LEMMA BankOf ==
    ASSUME TypeOK, Programmed, NEW c \in Calls, at[c] = "flash"
    PROVE  done[c] + 1 \in Banks /\ done[c] + 1 <= Len(model[c].images)
BY ModelType DEF TypeOK, Programmed, ProgrammedBy, Banks

\* What moving on to image n + 1 does.
LEMMA NextImageType ==
    ASSUME TypeOK, NEW c \in Calls, NEW n \in 0 .. MaxImages, NextImage(c, n)
    PROVE  /\ done' = [done EXCEPT ![c] = n]
           /\ done' \in [Calls -> 0 .. MaxImages]
           /\ \E p \in {"flash", "load"} :
                 /\ at' = [at EXCEPT ![c] = p]
                 /\ p = "flash" <=> n < Len(model[c].images)
           /\ \E t \in {"runs", "hangs"} : tool' = [tool EXCEPT ![c] = t]
           /\ tool' \in [Calls -> {"none", "runs", "hangs", "worked", "broke"}]
<1>1. done' = [done EXCEPT ![c] = n]  BY DEF NextImage
<1>2. done' \in [Calls -> 0 .. MaxImages]  BY <1>1 DEF TypeOK
<1>3. CASE n < Len(model[c].images)
  <2>1. Enter(c, "flash")  BY <1>3 DEF NextImage
  <2> QED  BY <1>1, <1>2, <1>3, <2>1, EnterType
<1>4. CASE ~(n < Len(model[c].images))
  <2>1. Enter(c, "load")  BY <1>4 DEF NextImage
  <2> QED  BY <1>1, <1>2, <1>4, <2>1, EnterType
<1> QED  BY <1>3, <1>4

\* Every step keeps the types.
LEMMA TypeStep == ASSUME TypeOK, Programmed, [Next]_vars PROVE TypeOK'
<1> USE DEF TypeOK, Locked, Running, OnBoard, Over
<1>1. CASE UNCHANGED vars
  BY <1>1 DEF vars, request, board, loader
<1>2. ASSUME NEW c \in Calls, Begin(c) PROVE TypeOK'
  BY <1>2 DEF Begin, Go, board, loader
<1>3. ASSUME NEW c \in Calls, Environment(c) \/ Leave(c) \/ Report(c) PROVE TypeOK'
  BY <1>3 DEF Environment, Leave, Report, Go, request, board, loader
<1>4. ASSUME NEW c \in Calls, Acquire(c) PROVE TypeOK'
  <2>1. Enter(c, "generate")  BY <1>4 DEF Acquire
  <2>2. /\ at' = [at EXCEPT ![c] = "generate"]
        /\ tool' \in [Calls -> {"none", "runs", "hangs", "worked", "broke"}]
    BY <2>1, EnterType
  <2> QED  BY <1>4, <2>2 DEF Acquire, request, board, loader
<1>5. ASSUME NEW c \in Calls, Generated(c) PROVE TypeOK'
  BY <1>5 DEF Generated, Plain, Go, request, board, loader
<1>6. ASSUME NEW c \in Calls, Images(c) PROVE TypeOK'
  <2>1. CASE Plain(c, "leave") /\ (UNCHANGED passed
                \/ passed' = [passed EXCEPT ![c] = TRUE])
    BY <1>6, <2>1 DEF Images, Plain, Go, request, board, loader
  <2>2. CASE Enter(c, "reset") /\ UNCHANGED passed
    <3>1. /\ at' = [at EXCEPT ![c] = "reset"]
          /\ tool' \in [Calls -> {"none", "runs", "hangs", "worked", "broke"}]
      BY <2>2, EnterType
    <3> QED  BY <1>6, <2>2, <3>1 DEF Images, request, board, loader
  <2> QED  BY <1>6, <2>1, <2>2 DEF Images
<1>7. ASSUME NEW c \in Calls, ResetDone(c) PROVE TypeOK'
  <2>1. NextImage(c, 0) /\ 0 \in 0 .. MaxImages  BY <1>7 DEF ResetDone
  <2>2. /\ done' \in [Calls -> 0 .. MaxImages]
        /\ \E p \in {"flash", "load"} : at' = [at EXCEPT ![c] = p]
        /\ tool' \in [Calls -> {"none", "runs", "hangs", "worked", "broke"}]
    BY <2>1, NextImageType
  <2> QED  BY <1>7, <2>2 DEF ResetDone, request, board, loader, Owners
<1>8. ASSUME NEW c \in Calls, Flashed(c) PROVE TypeOK'
  <2>1. done[c] + 1 \in Banks  BY <1>8, BankOf DEF Flashed, Ready
  <2>2. done[c] + 1 \in 0 .. MaxImages  BY <2>1 DEF Banks
  <2>3. NextImage(c, done[c] + 1)  BY <1>8 DEF Flashed
  <2>4. flash' \in [Banks -> Owners]  BY <1>8, <2>1 DEF Flashed, Owners
  <2>5. /\ done' \in [Calls -> 0 .. MaxImages]
        /\ \E p \in {"flash", "load"} : at' = [at EXCEPT ![c] = p]
        /\ tool' \in [Calls -> {"none", "runs", "hangs", "worked", "broke"}]
    BY <2>2, <2>3, NextImageType
  <2> QED  BY <1>8, <2>4, <2>5 DEF Flashed, request, board, loader
<1>9. ASSUME NEW c \in Calls, Profiled(c) PROVE TypeOK'
  <2>1. (model[firmware].duration <= Allowed(c)) \in BOOLEAN  OBVIOUS
  <2>2. passed' \in [Calls -> BOOLEAN]  BY <1>9, <2>1 DEF Profiled
  <2> QED  BY <1>9, <2>2 DEF Profiled, Plain, Go, request, board, loader
<1>10. ASSUME NEW c \in Calls, Broken(c) PROVE TypeOK'
  <2>1. flash' \in [Banks -> Owners]
    BY <1>10, BankOf DEF Broken, Spoilt, Owners
  <2> QED  BY <1>10, <2>1 DEF Broken, Plain, Go, request, board, loader
<1>11. ASSUME NEW c \in Calls, TimedOut(c) \/ Raise(c) PROVE TypeOK'
  <2>1. Spoilt(c) /\ CutOff(c) /\ Abandoned(c)  BY <1>11 DEF TimedOut, Raise
  <2>2. at[c] = "flash" => done[c] + 1 \in Banks  BY BankOf
  <2>3. /\ flash' \in [Banks -> Owners] /\ firmware' \in Owners
        /\ servers' \in [Calls -> 0 .. MaxServers]
        /\ orphan' \in [Calls -> {"no", "server", "loader", "gone"}]
    BY <2>1, <2>2, CutOffType
  <2>4. lock' \in Calls \cup {Nobody}  BY <1>11 DEF TimedOut, Raise
  <2> HIDE DEF Spoilt, CutOff, Abandoned
  <2> QED  BY <1>11, <2>3, <2>4 DEF TimedOut, Raise, Plain, Go, request
<1>12. ASSUME NEW c \in Calls, Spawn(c) \/ StopServer(c) PROVE TypeOK'
  <2>1. servers[c] \in 0 .. MaxServers /\ MaxServers \in Nat  OBVIOUS
  <2>2. CASE Spawn(c)
    <3>1. servers[c] + 1 \in 0 .. MaxServers  BY <2>1, <2>2 DEF Spawn
    <3>2. servers' \in [Calls -> 0 .. MaxServers]  BY <2>2, <3>1 DEF Spawn
    <3> QED  BY <2>2, <3>2 DEF Spawn, request, board, loader
  <2>3. CASE StopServer(c)
    <3>1. servers[c] - 1 \in 0 .. MaxServers  BY <2>1, <2>3 DEF StopServer
    <3>2. servers' \in [Calls -> 0 .. MaxServers]  BY <2>3, <3>1 DEF StopServer
    <3> QED  BY <2>3, <3>2 DEF StopServer, request, board, loader
  <2> QED  BY <1>12, <2>2, <2>3
<1>13. ASSUME NEW c \in Calls, LoadEnds(c) PROVE TypeOK'
  BY <1>13 DEF LoadEnds, request, board, loader, Owners
<1>14. ASSUME NEW c \in Calls, ServerStuck(c) PROVE TypeOK'
  <2>1. /\ servers' \in [Calls -> 0 .. MaxServers]
        /\ orphan' \in [Calls -> {"no", "server", "loader", "gone"}]
    BY <1>14 DEF ServerStuck, Abandoned
  <2> QED  BY <1>14, <2>1 DEF ServerStuck, Plain, Go, request, board
<1>15. ASSUME NEW c \in Calls, Loaded(c) PROVE TypeOK'
  <2>1. CASE Enter(c, "profile")
    <3>1. /\ at' = [at EXCEPT ![c] = "profile"]
          /\ tool' \in [Calls -> {"none", "runs", "hangs", "worked", "broke"}]
      BY <2>1, EnterType
    <3> QED  BY <1>15, <3>1 DEF Loaded, request, board, loader
  <2>2. CASE Plain(c, "leave")
    BY <1>15, <2>2 DEF Loaded, Plain, Go, request, board, loader
  <2> QED  BY <1>15, <2>1, <2>2 DEF Loaded
<1>16. ASSUME NEW c \in Calls, Straggle(c) \/ OrphanExits(c) PROVE TypeOK'
  <2>1. CASE Straggle(c)
    BY <2>1 DEF Straggle, request, board, loader, Owners
  <2>2. CASE OrphanExits(c)
    <3>1. orphan' \in [Calls -> {"no", "server", "loader", "gone"}]
      BY <2>2 DEF OrphanExits
    <3>2. servers' \in [Calls -> 0 .. MaxServers]  BY <2>2 DEF OrphanExits
    <3> QED  BY <2>2, <3>1, <3>2 DEF OrphanExits, request, board, loader
  <2> QED  BY <1>16, <2>1, <2>2
<1> QED
  BY <1>1, <1>2, <1>3, <1>4, <1>5, <1>6, <1>7, <1>8, <1>9, <1>10, <1>11,
     <1>12, <1>13, <1>14, <1>15, <1>16
  DEF Next, Step, Outside

-----------------------------------------------------------------------------
(* The lock.                                                               *)

\* No step breaks the correspondence between the lock and the control points.
LEMMA HolderStep == ASSUME TypeOK, Programmed, Holder, [Next]_vars PROVE Holder'
<1> USE DEF TypeOK, Holder, Locked, Running, OnBoard, Over
<1>1. CASE UNCHANGED vars  BY <1>1 DEF vars
<1>2. ASSUME NEW c \in Calls, Begin(c) \/ Environment(c) \/ Report(c)
      PROVE  Holder'
  BY <1>2 DEF Begin, Environment, Report, Go
<1>3. ASSUME NEW c \in Calls, Acquire(c) PROVE Holder'
  <2>1. Enter(c, "generate")  BY <1>3 DEF Acquire
  <2>2. /\ at' = [at EXCEPT ![c] = "generate"]
        /\ \E t \in {"runs", "hangs"} : tool' = [tool EXCEPT ![c] = t]
    BY <2>1, EnterType
  <2> QED  BY <1>3, <2>2 DEF Acquire
<1>4. ASSUME NEW c \in Calls, Leave(c) \/ Raise(c) PROVE Holder'
  <2>1. Nobody \notin Calls  OBVIOUS
  <2>2. CASE Leave(c)
    BY <2>1, <2>2 DEF Leave, Go
  <2>3. CASE Raise(c)
    <3>1. /\ at' = [at EXCEPT ![c] = "raised"]
          /\ tool' = [tool EXCEPT ![c] = "none"]
          /\ lock' = IF at[c] \in Locked THEN Nobody ELSE lock
      BY <2>3 DEF Raise, Plain, Go
    <3>2. CASE at[c] \in Locked  BY <2>1, <3>1, <3>2
    <3>3. CASE at[c] \notin Locked  BY <2>1, <3>1, <3>3
    <3> QED  BY <3>2, <3>3
  <2> QED  BY <1>4, <2>2, <2>3
<1>5. ASSUME NEW c \in Calls, NEW p \in {"images", "leave"}, Plain(c, p),
             at[c] \in Locked, UNCHANGED lock
      PROVE  Holder'
  BY <1>5 DEF Plain, Go
<1>6. ASSUME NEW c \in Calls, NEW p \in Running, Enter(c, p),
             at[c] \in Locked, UNCHANGED lock
      PROVE  Holder'
  <2>1. /\ at' = [at EXCEPT ![c] = p]
        /\ \E t \in {"runs", "hangs"} : tool' = [tool EXCEPT ![c] = t]
    BY <1>6, EnterType
  <2> QED  BY <1>6, <2>1
<1>7. ASSUME NEW c \in Calls,
             Generated(c) \/ Profiled(c) \/ Broken(c) \/ TimedOut(c)
             \/ ServerStuck(c)
      PROVE  Holder'
  <2>1. /\ at[c] \in Locked /\ UNCHANGED lock
        /\ Plain(c, "images") \/ Plain(c, "leave")
    BY <1>7 DEF Generated, Profiled, Broken, TimedOut, ServerStuck, Ready,
                Cleaning
  <2> QED  BY <2>1, <1>5
<1>8. ASSUME NEW c \in Calls, Images(c) \/ Loaded(c) PROVE Holder'
  <2>1. /\ at[c] \in Locked /\ UNCHANGED lock
        /\ Plain(c, "leave") \/ Enter(c, "reset") \/ Enter(c, "profile")
    BY <1>8 DEF Images, Loaded, Cleaning
  <2> QED  BY <2>1, <1>5, <1>6
<1>9. ASSUME NEW c \in Calls, ResetDone(c) \/ Flashed(c) PROVE Holder'
  <2>1. /\ at[c] \in Locked /\ UNCHANGED lock
        /\ Enter(c, "flash") \/ Enter(c, "load")
    BY <1>9 DEF ResetDone, Flashed, Ready, NextImage
  <2> QED  BY <2>1, <1>6
<1>10. ASSUME NEW c \in Calls,
             LoadEnds(c) \/ Spawn(c) \/ StopServer(c) \/ Straggle(c)
             \/ OrphanExits(c)
      PROVE  Holder'
  BY <1>10 DEF LoadEnds, Ready, Spawn, StopServer, Straggle, OrphanExits
<1> QED
  BY <1>1, <1>2, <1>3, <1>4, <1>7, <1>8, <1>9, <1>10 DEF Next, Step, Outside

-----------------------------------------------------------------------------
(* The servers.                                                            *)

\* No step leaves a server behind that is neither the loader's nor abandoned.
LEMMA ReapedStep == ASSUME TypeOK, Reaped, [Next]_vars PROVE Reaped'
<1> USE DEF TypeOK, Reaped, Over
<1>1. CASE UNCHANGED vars  BY <1>1 DEF vars, loader
<1>2. ASSUME NEW c \in Calls, UNCHANGED loader, at[c] # "load",
             \/ at[c] \notin {"leave", "report"} \cup Over
                /\ \E p : Go(c, p) \/ Plain(c, p) \/ Enter(c, p)
             \/ \E p \in {"report", "returned"} : Go(c, p)
      PROVE  Reaped'
  BY <1>2 DEF loader, Go, Plain, Enter
<1>3. ASSUME NEW c \in Calls,
             Begin(c) \/ Environment(c) \/ Leave(c) \/ Report(c) \/ Acquire(c)
             \/ Generated(c) \/ Images(c) \/ ResetDone(c) \/ Flashed(c)
             \/ Profiled(c) \/ Broken(c)
      PROVE  Reaped'
  <2>1. UNCHANGED loader
    BY <1>3 DEF Begin, Environment, Leave, Report, Acquire, Generated, Images,
                ResetDone, Flashed, Profiled, Broken
  <2>2. at[c] # "load"
    BY <1>3 DEF Begin, Environment, Leave, Report, Acquire, Generated, Images,
                ResetDone, Flashed, Profiled, Broken, Ready
  <2>3. \/ at[c] \notin {"leave", "report"} \cup Over
           /\ \E p : Go(c, p) \/ Plain(c, p) \/ Enter(c, p)
        \/ \E p \in {"report", "returned"} : Go(c, p)
    BY <1>3 DEF Begin, Environment, Leave, Report, Acquire, Generated, Images,
                ResetDone, Flashed, Profiled, Broken, NextImage, Ready
  <2> QED  BY <2>1, <2>2, <2>3, <1>2
<1>4. ASSUME NEW c \in Calls, TimedOut(c) \/ Raise(c) \/ ServerStuck(c)
      PROVE  Reaped'
  <2>1. Abandoned(c) /\ \E p \in {"leave", "raised"} : Plain(c, p)
    BY <1>4 DEF TimedOut, Raise, ServerStuck
  <2> QED  BY <2>1 DEF Abandoned, Plain, Go
<1>5. ASSUME NEW c \in Calls, Spawn(c) \/ StopServer(c) \/ LoadEnds(c)
      PROVE  Reaped'
  BY <1>5 DEF Spawn, StopServer, LoadEnds, Ready, Cleaning, loader
<1>6. ASSUME NEW c \in Calls, Loaded(c) PROVE Reaped'
  <2>1. servers[c] = 0 /\ at[c] = "load" /\ UNCHANGED loader
    BY <1>6 DEF Loaded, Cleaning
  <2>2. PICK p : at' = [at EXCEPT ![c] = p]
    BY <1>6 DEF Loaded, Enter, Plain, Go
  <2>3. servers' = servers /\ orphan' = orphan /\ orphan[c] = "no"
    BY <2>1 DEF loader, Over
  <2> QED  BY <2>1, <2>2, <2>3
<1>7. ASSUME NEW c \in Calls, Straggle(c) PROVE Reaped'
  BY <1>7 DEF Straggle, loader
<1>8. ASSUME NEW c \in Calls, OrphanExits(c) PROVE Reaped'
  <2>1. /\ at' = at /\ servers' = [servers EXCEPT ![c] = 0]
        /\ \A d \in Calls : d # c => orphan'[d] = orphan[d]
        /\ orphan[c] # "no"
    BY <1>8 DEF OrphanExits
  <2>2. servers'[c] = 0  BY <2>1
  <2> QED  BY <2>1, <2>2
<1> QED
  BY <1>1, <1>3, <1>4, <1>5, <1>6, <1>7, <1>8 DEF Next, Step, Outside

-----------------------------------------------------------------------------
(* The board.                                                              *)

\* The board is in the hands of one call.
LEMMA Exclusive ==
    ASSUME Holder, NEW c \in Calls, NEW d \in Calls,
           at[c] \in Locked, at[d] \in Locked
    PROVE  c = d
BY DEF Holder

\* A call that keeps its place keeps what it got through, if the flash is not
\* touched under its hands.
LEMMA Bystander ==
    ASSUME TypeOK, NEW d \in Calls, ProgrammedBy(d), model' = model,
           at'[d] = at[d], done'[d] = done[d], orphan'[d] \in {orphan[d], "gone", "no"},
           at[d] \in {"flash", "load", "profile"} => flash' = flash
    PROVE  ProgrammedBy(d)'
BY DEF ProgrammedBy, Fits

\* A call that leaves the board keeps nothing but what its orphan may load.
LEMMA Departure ==
    ASSUME TypeOK, NEW c \in Calls, ProgrammedBy(c), model' = model,
           at'[c] \notin OnBoard,
           \/ orphan'[c] = orphan[c]
           \/ orphan'[c] = "server"
           \/ at[c] = "load"
    PROVE  ProgrammedBy(c)'
BY DEF ProgrammedBy, Fits, OnBoard

\* Only the call that programs an image touches the flash.
LEMMA FlashStep ==
    ASSUME TypeOK, NEW c \in Calls, Step(c) \/ Outside(c), flash' # flash
    PROVE  at[c] = "flash"
BY DEF Step, Outside, Begin, Environment, Acquire, Generated, Images, ResetDone,
       Flashed, Ready, Profiled, Broken, TimedOut, Spoilt, Leave, Report, Raise,
       Spawn, LoadEnds, StopServer, ServerStuck, Loaded, Straggle, OrphanExits,
       board

\* A step of one call leaves the place of the others alone.
LEMMA OthersStay ==
    ASSUME TypeOK, NEW c \in Calls, Step(c) \/ Outside(c),
           NEW d \in Calls, d # c
    PROVE  /\ at'[d] = at[d] /\ tool'[d] = tool[d] /\ done'[d] = done[d]
           /\ mode'[d] = mode[d] /\ passed'[d] = passed[d]
           /\ orphan'[d] = orphan[d] /\ servers'[d] = servers[d]
           /\ model' = model
<1> USE DEF TypeOK, Plain, Enter, Go, request, loader
<1>1. CASE Begin(c) \/ Environment(c) \/ Acquire(c) \/ Generated(c)
           \/ Leave(c) \/ Report(c)
  BY <1>1 DEF Begin, Environment, Acquire, Generated, Leave, Report
<1>2. CASE Images(c) \/ Profiled(c) \/ Broken(c) \/ Loaded(c)
  BY <1>2 DEF Images, Profiled, Broken, Loaded
<1>3. CASE ResetDone(c) \/ Flashed(c)
  BY <1>3 DEF ResetDone, Flashed, NextImage
<1>4. CASE TimedOut(c) \/ Raise(c) \/ ServerStuck(c)
  BY <1>4 DEF TimedOut, Raise, ServerStuck, Abandoned
<1>5. CASE Spawn(c) \/ LoadEnds(c) \/ StopServer(c)
  BY <1>5 DEF Spawn, LoadEnds, StopServer
<1>6. CASE Straggle(c) \/ OrphanExits(c)
  BY <1>6 DEF Straggle, OrphanExits
<1> QED  BY <1>1, <1>2, <1>3, <1>4, <1>5, <1>6 DEF Step, Outside

\* What a call got through stays true of it at each of its own steps.
LEMMA OwnProgress ==
    ASSUME TypeOK, Holder, Reaped, Programmed,
           NEW c \in Calls, Step(c) \/ Outside(c)
    PROVE  ProgrammedBy(c)'
<1> USE DEF TypeOK
<1>0. ProgrammedBy(c)  BY DEF Programmed
<1>1. model' = model
  BY DEF Step, Outside, Begin, Environment, Acquire, Generated, Images,
         ResetDone, Flashed, Profiled, Broken, TimedOut, Leave, Report, Raise,
         Spawn, LoadEnds, StopServer, ServerStuck, Loaded, Straggle,
         OrphanExits, request
<1>2. CASE Begin(c) \/ Environment(c) \/ Leave(c) \/ Report(c)
  <2>1. at'[c] \notin OnBoard /\ orphan' = orphan
    BY <1>2 DEF Begin, Environment, Leave, Report, Go, OnBoard, loader
  <2> QED  BY <1>0, <1>1, <2>1, Departure
<1>3. CASE Generated(c) \/ Profiled(c) \/ Broken(c)
  <2>1. at'[c] \notin OnBoard /\ orphan' = orphan
    BY <1>3 DEF Generated, Profiled, Broken, Plain, Go, OnBoard, loader
  <2> QED  BY <1>0, <1>1, <2>1, Departure
<1>4. CASE TimedOut(c) \/ Raise(c) \/ ServerStuck(c)
  <2>1. at'[c] \notin OnBoard /\ Abandoned(c)
    BY <1>4 DEF TimedOut, Raise, ServerStuck, Plain, Go, OnBoard
  <2>2. at[c] = "load" \/ orphan'[c] = orphan[c]
    BY <2>1 DEF Abandoned
  <2> QED  BY <1>0, <1>1, <2>1, <2>2, Departure
<1>5. CASE Acquire(c)
  <2>1. Enter(c, "generate") /\ orphan' = orphan  BY <1>5 DEF Acquire, loader
  <2>2. at'[c] \notin OnBoard  BY <2>1 DEF Enter, Go, OnBoard
  <2> QED  BY <1>0, <1>1, <2>1, <2>2, Departure
<1>6. CASE Images(c)
  <2>1. orphan' = orphan  BY <1>6 DEF Images, loader
  <2>2. CASE at'[c] \notin OnBoard
    BY <1>0, <1>1, <2>1, <2>2, Departure
  <2>3. CASE Fits(model[c]) /\ Enter(c, "reset")
    <3>1. at'[c] = "reset"  BY <2>3 DEF Enter, Go
    <3>2. Fits(model[c])'  BY <1>1, <2>3 DEF Fits
    <3> QED  BY <2>1, <3>1, <3>2 DEF ProgrammedBy
  <2>4. at'[c] \notin OnBoard \/ (Fits(model[c]) /\ Enter(c, "reset"))
    BY <1>6 DEF Images, Plain, Go, OnBoard
  <2> QED  BY <2>2, <2>3, <2>4
<1>7. CASE ResetDone(c)
  <2>1. NextImage(c, 0) /\ 0 \in 0 .. MaxImages /\ orphan' = orphan
    BY <1>7 DEF ResetDone, loader
  <2>2. PICK p \in {"flash", "load"} :
            /\ at' = [at EXCEPT ![c] = p]
            /\ p = "flash" <=> 0 < Len(model[c].images)
    BY <2>1, NextImageType
  <2>3. done' = [done EXCEPT ![c] = 0]  BY <2>1, NextImageType
  <2>4. Fits(model[c])'
    BY <1>0, <1>1, <1>7 DEF ResetDone, Ready, ProgrammedBy, OnBoard, Fits
  <2>5. Len(model[c].images) \in 0 .. MaxImages  BY ModelType
  <2>6. at'[c] = p /\ done'[c] = 0  BY <2>2, <2>3
  <2>7. \A b \in 1 .. done'[c] : FALSE  BY <2>6
  <2> QED  BY <1>1, <2>1, <2>2, <2>4, <2>5, <2>6, <2>7 DEF ProgrammedBy
<1>8. CASE Flashed(c)
  <2> DEFINE n == done[c] + 1
  <2>1. /\ n \in Banks /\ n <= Len(model[c].images) /\ n \in 0 .. MaxImages
    BY <1>8, BankOf DEF Flashed, Ready, Banks
  <2>2. NextImage(c, n) /\ orphan' = orphan /\ flash' = [flash EXCEPT ![n] = c]
    BY <1>8 DEF Flashed, loader
  <2>3. PICK p \in {"flash", "load"} :
            /\ at' = [at EXCEPT ![c] = p]
            /\ p = "flash" <=> n < Len(model[c].images)
    BY <2>1, <2>2, NextImageType
  <2>4. done' = [done EXCEPT ![c] = n]  BY <2>1, <2>2, NextImageType
  <2>5. /\ Fits(model[c])' /\ at[c] = "flash"
        /\ \A b \in 1 .. done[c] : flash[b] = c
    BY <1>0, <1>1, <1>8 DEF Flashed, Ready, ProgrammedBy, OnBoard, Fits
  <2>6. Len(model[c].images) \in 0 .. MaxImages  BY ModelType
  <2>7. at'[c] = p /\ done'[c] = n  BY <2>3, <2>4
  <2>8. \A b \in 1 .. done'[c] : flash'[b] = c
    <3>1. SUFFICES ASSUME NEW b \in 1 .. n PROVE flash'[b] = c  BY <2>7
    <3>2. b \in Banks /\ (b = n \/ b \in 1 .. done[c])  BY <2>1 DEF Banks
    <3> QED  BY <2>2, <2>5, <3>2
  <2> QED  BY <1>1, <2>1, <2>2, <2>3, <2>5, <2>6, <2>7, <2>8 DEF ProgrammedBy
<1>9. CASE LoadEnds(c) \/ Spawn(c) \/ StopServer(c) \/ Straggle(c) \/ OrphanExits(c)
  <2>1. /\ at' = at /\ done' = done /\ flash' = flash
        /\ orphan'[c] \in {orphan[c], "gone", "no"}
    BY <1>9 DEF LoadEnds, Spawn, StopServer, Straggle, OrphanExits, board, loader
  <2> QED  BY <1>0, <1>1, <2>1, Bystander
<1>10. CASE Loaded(c)
  <2>1. at[c] = "load" /\ flash' = flash /\ orphan' = orphan /\ done' = done
    BY <1>10 DEF Loaded, Cleaning, board, loader
  <2>2. CASE at'[c] \notin OnBoard
    BY <1>0, <1>1, <2>1, <2>2, Departure
  <2>3. CASE at'[c] = "profile"
    BY <1>0, <1>1, <2>1, <2>3 DEF ProgrammedBy, OnBoard, Fits
  <2>4. at'[c] = "profile" \/ at'[c] \notin OnBoard
    BY <1>10 DEF Loaded, Enter, Plain, Go, OnBoard
  <2> QED  BY <2>2, <2>3, <2>4
<1> QED
  BY <1>2, <1>3, <1>4, <1>5, <1>6, <1>7, <1>8, <1>9, <1>10 DEF Step, Outside

LEMMA ProgrammedStep ==
    ASSUME TypeOK, Holder, Reaped, Programmed, [Next]_vars
    PROVE  Programmed'
<1>1. CASE UNCHANGED vars
  BY <1>1 DEF vars, request, board, loader, Programmed, ProgrammedBy, Fits
<1>2. ASSUME NEW c \in Calls, Step(c) \/ Outside(c), NEW d \in Calls
      PROVE  ProgrammedBy(d)'
  <2>1. CASE d = c  BY <1>2, <2>1, OwnProgress
  <2>2. CASE d # c
    <3>1. /\ at'[d] = at[d] /\ done'[d] = done[d] /\ model' = model
          /\ orphan'[d] = orphan[d]
      BY <1>2, <2>2, OthersStay
    <3>2. at[d] \in {"flash", "load", "profile"} => flash' = flash
      BY <1>2, <2>2, FlashStep, Exclusive DEF Locked, Running, OnBoard
    <3> QED  BY <3>1, <3>2, Bystander DEF Programmed
  <2> QED  BY <2>1, <2>2
<1> QED  BY <1>1, <1>2 DEF Next, Programmed

\* A loader that was cut short is never forgotten.
LEMMA CutShortStays ==
    ASSUME TypeOK, Reaped, [Next]_vars, CutShort
    PROVE  CutShort'
<1> USE DEF TypeOK
<1>1. PICK d \in Calls : orphan[d] \in {"loader", "gone"}  BY DEF CutShort
<1>2. CASE UNCHANGED vars  BY <1>1, <1>2 DEF vars, loader, CutShort
<1>3. ASSUME NEW c \in Calls, Step(c) \/ Outside(c) PROVE CutShort'
  <2>1. CASE d # c
    BY <1>1, <1>3, <2>1, OthersStay DEF CutShort
  <2>2. CASE d = c
    <3>1. at[c] \in {"leave", "report"} \cup Over
      BY <1>1, <2>2 DEF Reaped
    <3>2. orphan' = orphan \/ orphan' = [orphan EXCEPT ![c] = "gone"]
             \/ orphan[c] = "server"
      BY <1>3, <3>1 DEF Over, Step, Outside, Begin, Environment, Acquire,
         Generated, Images, ResetDone, Flashed, Profiled, Broken, TimedOut,
         Leave, Report, Raise, Spawn, LoadEnds, StopServer, ServerStuck,
         Loaded, Straggle, OrphanExits, Abandoned, Cleaning, loader
    <3> QED  BY <1>1, <2>2, <3>2 DEF CutShort
  <2> QED  BY <2>1, <2>2
<1> QED  BY <1>2, <1>3 DEF Next

\* A program is loaded by the loader of the call that holds the board, by the
\* orphan of a loader, or lost in a reset.
LEMMA FirmwareStep ==
    ASSUME TypeOK, NEW c \in Calls, Step(c) \/ Outside(c), firmware' # firmware
    PROVE  /\ firmware' \in {c, Torn, Nobody}
           /\ \/ at[c] = "reset"
              \/ at[c] = "load" /\ tool[c] \in {"runs", "hangs"}
              \/ orphan[c] = "loader" /\ UNCHANGED <<at, tool, orphan, flash>>
<1>1. CASE ResetDone(c) \/ LoadEnds(c)
  BY <1>1 DEF ResetDone, LoadEnds, Ready
<1>2. CASE Straggle(c)
  BY <1>2 DEF Straggle, loader
<1>3. CASE TimedOut(c) \/ Raise(c)
  BY <1>3 DEF TimedOut, Raise, CutOff, Debugging
<1>4. CASE ~(ResetDone(c) \/ LoadEnds(c) \/ Straggle(c) \/ TimedOut(c) \/ Raise(c))
  BY <1>4 DEF Step, Outside, Begin, Environment, Acquire, Generated, Images,
     Flashed, Profiled, Broken, Leave, Report, Spawn, StopServer, ServerStuck,
     Loaded, OrphanExits, board
<1> QED  BY <1>1, <1>2, <1>3, <1>4

LEMMA OwnNetworkStep ==
    ASSUME TypeOK, Holder, Reaped, OwnNetwork, [Next]_vars
    PROVE  OwnNetwork'
<1> USE DEF TypeOK
<1>1. SUFFICES ASSUME ~CutShort, ~CutShort', NEW d \in Calls,
                      at'[d] = "profile" \/ (at'[d] = "load" /\ tool'[d] = "worked")
               PROVE  firmware' = d
  BY CutShortStays DEF OwnNetwork
<1>2. CASE UNCHANGED vars
  BY <1>1, <1>2 DEF vars, board, OwnNetwork
<1>3. ASSUME NEW c \in Calls, Step(c) \/ Outside(c) PROVE firmware' = d
  <2>1. CASE d # c
    <3>1. at'[d] = at[d] /\ tool'[d] = tool[d]  BY <1>3, <2>1, OthersStay
    <3>2. firmware = d  BY <1>1, <3>1 DEF OwnNetwork
    <3>3. CASE firmware' # firmware
      <4>1. at[c] \in {"reset", "load"} \/ orphan[c] = "loader"
        BY <1>3, <3>3, FirmwareStep
      <4>2. at[c] \in {"reset", "load"}  BY <1>1, <4>1 DEF CutShort
      <4>3. at[c] \in Locked /\ at[d] \in Locked
        BY <1>1, <3>1, <4>2 DEF Locked, Running, OnBoard
      <4> QED  BY <2>1, <4>3, Exclusive
    <3> QED  BY <3>2, <3>3
  <2>2. CASE d = c
    <3>1. CASE LoadEnds(c)
      BY <1>1, <2>2, <3>1 DEF LoadEnds, Ready
    <3>2. CASE Loaded(c)
      <4>1. at[c] = "load" /\ tool[c] = "worked" /\ firmware' = firmware
        BY <1>1, <2>2, <3>2 DEF Loaded, Cleaning, Plain, Go, board
      <4> QED  BY <1>1, <2>2, <4>1 DEF OwnNetwork
    <3>3. CASE StopServer(c) \/ OrphanExits(c)
      BY <1>1, <2>2, <3>3 DEF StopServer, OrphanExits, board, OwnNetwork
    <3>4. CASE Straggle(c)
      BY <1>1, <3>4 DEF Straggle, CutShort
    <3>5. CASE ResetDone(c) \/ Flashed(c)
      <4>1. Enter(c, "flash") \/ Enter(c, "load")
        BY <3>5 DEF ResetDone, Flashed, NextImage
      <4>2. at'[c] \in {"flash", "load"} /\ tool'[c] \in {"runs", "hangs"}
        BY <4>1, EnterType
      <4> QED  BY <1>1, <2>2, <4>2
    <3>6. CASE Spawn(c)
      BY <1>1, <2>2, <3>6 DEF Spawn
    <3>7. CASE Acquire(c) \/ Images(c)
      <4>1. at'[c] \in {"generate", "leave", "reset"}
        BY <3>7 DEF Acquire, Images, Enter, Plain, Go
      <4> QED  BY <1>1, <2>2, <4>1
    <3>8. CASE Begin(c) \/ Environment(c) \/ Generated(c) \/ Profiled(c)
               \/ Broken(c) \/ TimedOut(c) \/ Leave(c) \/ Report(c) \/ Raise(c)
               \/ ServerStuck(c)
      <4>1. at'[c] \in {"environment", "lock", "report", "images", "leave",
                        "returned", "raised"}
        BY <3>8 DEF Begin, Environment, Generated, Profiled, Broken, TimedOut,
           Leave, Report, Raise, ServerStuck, Plain, Go
      <4> QED  BY <1>1, <2>2, <4>1
    <3> QED
      BY <1>3, <3>1, <3>2, <3>3, <3>4, <3>5, <3>6, <3>7, <3>8 DEF Step, Outside
  <2> QED  BY <2>1, <2>2
<1> QED  BY <1>2, <1>3 DEF Next

-----------------------------------------------------------------------------
(* The verdicts.                                                           *)

LEMMA JudgedStep ==
    ASSUME TypeOK, Reaped, OwnNetwork, Judged, [Next]_vars
    PROVE  Judged'
<1> USE DEF TypeOK
<1>1. CASE UNCHANGED vars
  <2>1. CutShort' = CutShort  BY <1>1 DEF vars, loader, CutShort
  <2> QED  BY <1>1, <2>1 DEF vars, request, Judged, PassedIsFast, Allowed
<1>2. ASSUME NEW c \in Calls, Step(c) \/ Outside(c), NEW d \in Calls
      PROVE  at'[d] = "idle" => ~passed'[d]
  <2>1. CASE d # c
    BY <1>2, <2>1, OthersStay DEF Judged
  <2>2. CASE d = c
    <3>1. CASE at' = at /\ passed' = passed  BY <3>1 DEF Judged
    <3>2. CASE at'[c] # "idle"  BY <2>2, <3>2
    <3>3. (at' = at /\ passed' = passed) \/ at'[c] # "idle"
      BY <1>2 DEF Step, Outside, Begin, Environment, Acquire, Generated, Images,
         ResetDone, Flashed, Profiled, Broken, TimedOut, Leave, Report, Raise,
         Spawn, LoadEnds, StopServer, ServerStuck, Loaded, Straggle,
         OrphanExits, NextImage, Enter, Plain, Go
    <3> QED  BY <3>1, <3>2, <3>3
  <2> QED  BY <2>1, <2>2
<1>3. ASSUME ~CutShort, ~CutShort', NEW c \in Calls, Step(c) \/ Outside(c),
             NEW d \in Calls, passed'[d], mode'[d] # "analyze"
      PROVE  model'[d].duration <= Allowed(d)'
  <2>1. ASSUME model'[d] = model[d], mode'[d] = mode[d], passed'[d] = passed[d]
        PROVE  model'[d].duration <= Allowed(d)'
    BY <1>3, <2>1 DEF Judged, PassedIsFast, Allowed, Modes
  <2>2. CASE d # c
    BY <1>3, <2>1, <2>2, OthersStay
  <2>3. CASE d = c /\ Profiled(c)
    <3>1. firmware = c  BY <1>3, <2>3 DEF OwnNetwork, Profiled, Ready
    <3>2. passed'[c] = (model[c].duration <= Allowed(c))
      BY <2>3, <3>1 DEF Profiled
    <3>3. model' = model /\ mode' = mode  BY <2>3 DEF Profiled, request
    <3> QED  BY <1>3, <2>3, <3>2, <3>3 DEF Allowed
  <2>4. CASE d = c /\ Begin(c)
    <3>1. ~passed[c] /\ passed' = passed  BY <2>4 DEF Begin, Judged
    <3> QED  BY <1>3, <2>4, <3>1
  <2>5. CASE d = c /\ Images(c)
    <3>1. model' = model /\ mode' = mode  BY <2>5 DEF Images, request
    <3>2. passed' = passed \/ mode[c] = "analyze"  BY <2>5 DEF Images
    <3> QED  BY <1>3, <2>1, <2>5, <3>1, <3>2
  <2>6. CASE ~(Profiled(c) \/ Begin(c) \/ Images(c))
    <3>1. model' = model /\ mode' = mode /\ passed' = passed
      BY <1>3, <2>6 DEF Step, Outside, Environment, Acquire, Generated,
         ResetDone, Flashed, Broken, TimedOut, Leave, Report, Raise,
         Spawn, LoadEnds, StopServer, ServerStuck, Loaded, Straggle,
         OrphanExits, request
    <3> QED  BY <2>1, <3>1
  <2> QED  BY <2>2, <2>3, <2>4, <2>5, <2>6
<1>4. ASSUME NEW c \in Calls, Step(c) \/ Outside(c) PROVE PassedIsFast'
  <2>1. SUFFICES ASSUME ~CutShort', NEW d \in Calls, passed'[d]
                 PROVE  /\ mode'[d] = "strict" =>
                              model'[d].duration <= runtime_seconds
                        /\ mode'[d] = "submission" =>
                              model'[d].duration <= runtime_seconds + Tolerance
    BY DEF PassedIsFast
  <2>2. ~CutShort  BY <2>1, CutShortStays
  <2>3. mode'[d] # "analyze" => model'[d].duration <= Allowed(d)'
    BY <1>3, <1>4, <2>1, <2>2
  <2>4. /\ mode'[d] = "strict" => Allowed(d)' = runtime_seconds
        /\ mode'[d] = "submission" => Allowed(d)' = runtime_seconds + Tolerance
    BY DEF Allowed
  <2> QED  BY <2>3, <2>4
<1> QED  BY <1>1, <1>2, <1>4 DEF Next, Judged

\* Images over the limit are refused before the board is touched.
LEMMA SizeStep ==
    ASSUME TypeOK, Programmed, NothingTooLarge, [Next]_vars
    PROVE  NothingTooLarge'
<1> USE DEF TypeOK
<1>1. CASE UNCHANGED vars
  BY <1>1 DEF vars, request, board, NothingTooLarge, Fits
<1>2. ASSUME NEW c \in Calls, Step(c) \/ Outside(c) PROVE NothingTooLarge'
  <2>1. model' = model
    BY <1>2 DEF Step, Outside, Begin, Environment, Acquire, Generated, Images,
       ResetDone, Flashed, Profiled, Broken, TimedOut, Leave, Report, Raise,
       Spawn, LoadEnds, StopServer, ServerStuck, Loaded, Straggle,
       OrphanExits, request
  <2>2. SUFFICES ASSUME NEW d \in Calls,
                        firmware' = d \/ (\E b \in Banks : flash'[b] = d)
                 PROVE  Fits(model[d])
    BY <2>1 DEF NothingTooLarge, Fits
  <2>3. CASE firmware' = d
    <3>1. CASE firmware' = firmware  BY <2>3, <3>1 DEF NothingTooLarge, Fits
    <3>2. CASE firmware' # firmware
      <4>1. d = c /\ (at[c] \in {"reset", "load"} \/ orphan[c] = "loader")
        BY <1>2, <2>3, <3>2, FirmwareStep
      <4> QED  BY <4>1 DEF Programmed, ProgrammedBy, OnBoard
    <3> QED  BY <3>1, <3>2
  <2>4. CASE \E b \in Banks : flash'[b] = d
    <3>1. PICK b \in Banks : flash'[b] = d  BY <2>4
    <3>2. CASE flash'[b] = flash[b]  BY <3>1, <3>2 DEF NothingTooLarge, Fits
    <3>3. CASE flash'[b] # flash[b]
      <4>1. at[c] = "flash"  BY <1>2, <3>3, FlashStep
      <4>2. flash'[b] \in {c, Torn}
        BY <1>2, <3>3, <4>1 DEF Step, Outside, Begin, Environment, Acquire,
           Generated, Images, ResetDone, Flashed, Ready, Profiled, Broken,
           TimedOut, Spoilt, Leave, Report, Raise, Spawn, LoadEnds, StopServer,
           ServerStuck, Loaded, Straggle, OrphanExits, board
      <4>3. d = c  BY <3>1, <4>2
      <4> QED  BY <4>1, <4>3 DEF Programmed, ProgrammedBy, OnBoard
    <3> QED  BY <3>2, <3>3
  <2> QED  BY <2>2, <2>3, <2>4
<1> QED  BY <1>1, <1>2 DEF Next

-----------------------------------------------------------------------------
(* The theorems.                                                           *)

\* The invariant is inductive.
LEMMA Inductive == Spec => []IInv
<1>1. Init => IInv  BY InitIInv
<1>2. ASSUME IInv, [Next]_vars PROVE IInv'
  <2>1. /\ TypeOK /\ Holder /\ Programmed /\ OwnNetwork /\ Reaped /\ Judged
        /\ NothingTooLarge
    BY <1>2 DEF IInv
  <2>2. TypeOK'           BY <1>2, <2>1, TypeStep
  <2>3. Holder'           BY <1>2, <2>1, HolderStep
  <2>4. Programmed'       BY <1>2, <2>1, ProgrammedStep
  <2>5. OwnNetwork'       BY <1>2, <2>1, OwnNetworkStep
  <2>6. Reaped'           BY <1>2, <2>1, ReapedStep
  <2>7. Judged'           BY <1>2, <2>1, JudgedStep
  <2>8. NothingTooLarge'  BY <1>2, <2>1, SizeStep
  <2> QED  BY <2>2, <2>3, <2>4, <2>5, <2>6, <2>7, <2>8 DEF IInv
<1> QED  BY <1>1, <1>2, PTL DEF Spec

\* Every variable stays in its range.
THEOREM TypeCorrect == Spec => []TypeOK
<1>1. IInv => TypeOK  BY DEF IInv
<1> QED  BY <1>1, Inductive, PTL

\* A measured board holds the network and all the weights of the call that
\* measures it.
THEOREM OwnModelMeasured == Spec => []Installed
<1>1. ASSUME IInv PROVE Installed
  <2>1. SUFFICES ASSUME ~CutShort, NEW c \in Calls, at[c] = "profile"
                 PROVE  firmware = c /\ \A b \in DOMAIN model[c].images : flash[b] = c
    BY DEF Installed
  <2>2. TypeOK /\ ProgrammedBy(c) /\ OwnNetwork
    BY <1>1 DEF IInv, Programmed
  <2>3. firmware = c  BY <2>1, <2>2 DEF OwnNetwork
  <2>4. DOMAIN model[c].images = 1 .. done[c]
    BY <2>1, <2>2, ModelType DEF ProgrammedBy
  <2> QED  BY <2>1, <2>2, <2>3, <2>4 DEF ProgrammedBy
<1> QED  BY <1>1, Inductive, PTL

\* A model that passed is itself fast enough for the mode it was judged in.
THEOREM VerdictSound == Spec => []PassedIsFast
<1>1. IInv => PassedIsFast  BY DEF IInv, Judged
<1> QED  BY <1>1, Inductive, PTL

\* Nothing of a model that exceeds the image limit reaches the board.
THEOREM OversizeKeptOut == Spec => []NothingTooLarge
<1>1. IInv => NothingTooLarge  BY DEF IInv
<1> QED  BY <1>1, Inductive, PTL

\* A verdict is about the model of the call, measured on the whole board.
THEOREM VerdictStands == Spec => []VerdictHolds
<1>1. VerdictHolds <=> Installed /\ PassedIsFast /\ NothingTooLarge  BY DEF VerdictHolds
<1> QED  BY <1>1, OwnModelMeasured, VerdictSound, OversizeKeptOut, PTL

\* A server that outlives the lock of its call was abandoned, never forgotten.
THEOREM NoServerForgotten == Spec => []ServersReaped
<1>1. ASSUME IInv PROVE ServersReaped
  BY <1>1 DEF IInv, TypeOK, Reaped, Holder, ServersReaped, Locked, Running, OnBoard
<1> QED  BY <1>1, Inductive, PTL

\* While no loader was cut short, only the holder of the lock changes the board.
THEOREM OneProgrammer == Spec => OnlyHolderPrograms
<1>1. ASSUME IInv, [Next]_vars
      PROVE  [ board' # board =>
                 CutShort \/ \E c \in Calls : lock = c /\ at[c] \in OnBoard ]_vars
  <2>1. SUFFICES ASSUME board' # board, ~CutShort
                 PROVE  \E c \in Calls : lock = c /\ at[c] \in OnBoard
    OBVIOUS
  <2>2. TypeOK /\ Holder  BY <1>1 DEF IInv
  <2>3. ~(UNCHANGED vars)  BY <2>1 DEF vars
  <2>4. PICK c \in Calls : Step(c) \/ Outside(c)  BY <1>1, <2>3 DEF Next
  <2>5. at[c] \in OnBoard
    <3>1. CASE flash' # flash
      BY <2>2, <2>4, <3>1, FlashStep DEF OnBoard
    <3>2. CASE firmware' # firmware
      BY <2>1, <2>2, <2>4, <3>2, FirmwareStep DEF OnBoard, CutShort
    <3> QED  BY <2>1, <3>1, <3>2 DEF board
  <2> QED  BY <2>2, <2>5 DEF Holder, Locked, Running
<1> QED  BY <1>1, Inductive, PTL DEF Spec, OnlyHolderPrograms
=============================================================================
