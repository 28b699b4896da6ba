--------------------------- MODULE TransferProofs ---------------------------
(***************************************************************************)
(* Theorems about Transfer, for every set of source trees, every limit,    *)
(* every capacity of the stream and every set of faults.                   *)
(*                                                                         *)
(* The inductive invariant follows what is on its way.  Linked says that   *)
(* there is a chain of places in the payload, from the one the extractor   *)
(* has reached (Arrives), over one place after every item on the wire      *)
(* (Passes), to the one the writer is at (Departs), and that nothing which *)
(* has to be carried lies between two neighbours without its item.  So     *)
(* when the end marker, or the end of a stream whose writer exited with    *)
(* code 0, is all that is left, everything has arrived.                    *)
(*                                                                         *)
(* Vanish takes carried places out of the chain.  Travelled is why that is *)
(* harmless: what is on the wire or has arrived lies behind the writer,    *)
(* and os.walk has listed that already.                                    *)
(*                                                                         *)
(* The limits need the sums of SumTheorems: Stocked bounds what is on disk *)
(* by what the extractor counted, whatever goes wrong; Stored and Counts   *)
(* make both counts exact while nothing does, and then no limit refuses a  *)
(* tree that its caller allows.                                            *)
(***************************************************************************)
EXTENDS Transfer, SumTheorems, FiniteSetTheorems, TLAPS

-----------------------------------------------------------------------------
(* Types.                                                                  *)

Items == [item: {"member", "block"}, of: Entries] \cup [item: {"end"}, of: {Nothing}]

WriterStates == {"absent", "pack", "walk", "ended", "exited"}
ExtractorStates == {"absent", "open", "header", "data", "modes", "done", "gone",
                    "failed", "answered"}
Codes == {-9, 0, 1, 2, 255}

Writers == [at: Nat, left: Nat, files: Nat, bytes: Nat, state: WriterStates, code: Int]

Extractors == [at: ExtractorStates, entry: Paths \cup {Nothing}, left: Int,
               files: Nat, bytes: Nat]

\* The shape of every variable.
Shape ==
    /\ op \in Operations /\ tree \in Trees /\ leg \in {"pull", "push"}
    /\ lost \subseteq Names(tree)
    /\ op \in {"file", "fetch"} \/ fault = "none" => lost = {}
    /\ payload \in Seq(Entries) /\ (leg = "pull" => Names(payload) = Names(tree))
    /\ sender \in Writers /\ sender.at \in 1 .. Len(payload) + 1 /\ sender.code \in Codes
    /\ wire \in Seq(Items) /\ Len(wire) <= Capacity /\ ended \in BOOLEAN
    /\ reader \in Extractors
    /\ locked \subseteq held
    /\ dest = {} \/ \E x : dest = {x}
    /\ job = {} \/ \E x : job = {x}
    /\ call \in {"new", "busy", "ok", "error", "killed"} /\ tries \in 1 .. MaxTries
    /\ fault \in FaultKinds \cup {"none"}

\* Every name that travels is the name of an entry.
Named ==
    /\ held \subseteq Names(payload)
    /\ \A j \in DOMAIN wire : wire[j].item = "member" => wire[j].of.name \in Names(payload)
    /\ reader.at = "data" => reader.entry \in Names(payload)

\* The numbers among the constants.
LEMMA Numbers == Capacity \in Nat /\ Capacity > 0 /\ MaxTries \in Nat /\ MaxTries > 0
  <1>1. Capacity \in Nat \ {0} /\ MaxTries \in Nat \ {0}
    BY TransferAssumption, Zenon
  <1> QED BY <1>1

\* The entry that the writer is at.
LEMMA EntryType ==
    ASSUME Shape, Working
    PROVE  /\ Entry \in Entries /\ Entry.name \in Names(payload) /\ Entry.size \in Nat
           /\ sender.at \in DOMAIN payload /\ sender.at \in 1 .. Len(payload)
           /\ Len(payload) \in Nat
  <1>1. /\ sender.at \in DOMAIN payload /\ sender.at \in 1 .. Len(payload)
        /\ Len(payload) \in Nat
    BY DEF Shape, Working
  <1>2. Entry \in Entries
    BY <1>1 DEF Shape, Entry
  <1> QED BY <1>1, <1>2 DEF Entries, Names, Entry

\* The processes as they start.
LEMMA NewProcesses ==
    /\ \A s \in WriterStates : Writer(s) \in Writers /\ Writer(s).at = 1 /\ Writer(s).code = 0
                               /\ Writer(s).left = 0 /\ Writer(s).state = s
    /\ \A p \in {"absent", "open"} : Extractor(p) \in Extractors /\ Extractor(p).at = p
  BY DEF Writer, Writers, WriterStates, Extractor, Extractors, ExtractorStates, Nothing

\* The fields of the two processes.
LEMMA Fields ==
    ASSUME Shape
    PROVE  /\ sender.at \in Nat /\ sender.left \in Nat /\ sender.files \in Nat
           /\ sender.bytes \in Nat /\ sender.state \in WriterStates /\ sender.code \in Int
           /\ reader.at \in ExtractorStates /\ reader.entry \in Paths \cup {Nothing}
           /\ reader.left \in Int /\ reader.files \in Nat /\ reader.bytes \in Nat
  BY DEF Shape, Writers, Extractors

\* A writer that only changes its state and exit code.
LEMMA WriterStops ==
    ASSUME Shape, NEW s \in WriterStates, NEW c \in Codes
    PROVE  /\ [sender EXCEPT !.state = s] \in Writers
           /\ [sender EXCEPT !.state = s].code = sender.code
           /\ [sender EXCEPT !.state = s].at = sender.at
           /\ [sender EXCEPT !.state = s].left = sender.left
           /\ [sender EXCEPT !.state = s].state = s
           /\ [sender EXCEPT !.state = s, !.code = c] \in Writers
           /\ [sender EXCEPT !.state = s, !.code = c].code = c
           /\ [sender EXCEPT !.state = s, !.code = c].at = sender.at
           /\ [sender EXCEPT !.state = s, !.code = c].left = sender.left
           /\ [sender EXCEPT !.state = s, !.code = c].state = s
  <1>1. sender \in Writers /\ c \in Int
    BY DEF Shape, Codes
  <1>2. [sender EXCEPT !.state = s] \in Writers
    BY <1>1, Zenon DEF Writers
  <1>3. [sender EXCEPT !.state = s, !.code = c] \in Writers
    BY <1>1, Zenon DEF Writers
  <1> QED BY <1>1, <1>2, <1>3 DEF Writers

\* An extractor that only changes its place.
LEMMA ExtractorMoves ==
    ASSUME Shape, NEW p \in ExtractorStates
    PROVE  /\ [reader EXCEPT !.at = p] \in Extractors
           /\ [reader EXCEPT !.at = p].at = p
           /\ [reader EXCEPT !.at = p].left = reader.left
           /\ [reader EXCEPT !.at = p].entry = reader.entry
  <1>1. reader \in Extractors
    BY DEF Shape
  <1>2. [reader EXCEPT !.at = p] \in Extractors
    BY <1>1, Zenon DEF Extractors
  <1> QED BY <1>1, <1>2 DEF Extractors

\* An item at the end of the stream.
LEMMA ItemSent ==
    ASSUME NEW w \in Items, wire \in Seq(Items), wire' = Append(wire, w)
    PROVE  /\ wire' \in Seq(Items) /\ Len(wire') = Len(wire) + 1 /\ DOMAIN wire' = 1 .. Len(wire')
           /\ wire'[Len(wire) + 1] = w
           /\ \A j \in 1 .. Len(wire) : wire'[j] = wire[j]
  OBVIOUS

\* An item taken from the front of the stream.
LEMMA ItemTaken ==
    ASSUME wire \in Seq(Items), wire # <<>>, wire' = Tail(wire)
    PROVE  /\ wire' \in Seq(Items) /\ Len(wire') = Len(wire) - 1 /\ DOMAIN wire' = 1 .. Len(wire')
           /\ Len(wire) > 0
           /\ \A j \in 1 .. Len(wire) - 1 : wire'[j] = wire[j + 1]
           /\ Head(wire) = wire[1] /\ wire[1] \in Items
  OBVIOUS

\* What a member on the wire is.
LEMMA MemberType ==
    ASSUME Shape, Named, Arrived("member")
    PROVE  /\ Member \in Entries /\ Member.name \in Names(payload) /\ Member.size \in Nat
           /\ Member.name \in Paths
  <1>1. wire # <<>> /\ wire \in Seq(Items) /\ Head(wire) = wire[1] /\ 1 \in DOMAIN wire
    BY DEF Arrived, Shape
  <1>2. Head(wire).item = "member" /\ Head(wire) \in Items
    BY <1>1 DEF Arrived
  <1>3. Member \in Entries
    BY <1>2 DEF Member, Items
  <1> QED BY <1>1, <1>2, <1>3 DEF Named, Member, Entries

\* The payload of a launch: the request, the workspace, and the checkpoint.
LEMMA SnapshotType ==
    ASSUME tree \in Seq(Entries)
    PROVE  /\ Snapshot \in Seq(Entries)
           /\ Workspace \in Seq(Entries) /\ Len(Workspace) = Len(tree)
           /\ Request \in Entries /\ Checkpoint \in Entries
           /\ Checkpoint.name = "resume-checkpoint.pt" /\ Checkpoint.skip = "no"
           /\ \A i \in DOMAIN tree :
                 Workspace[i] = IF tree[i].name \in held THEN tree[i]
                                ELSE [tree[i] EXCEPT !.skip = "excluded"]
  <1>1. Request \in Entries /\ Checkpoint \in Entries
    BY TransferAssumption DEF Request, Checkpoint, Entries
  <1>2. \A i \in DOMAIN tree : /\ tree[i] \in Entries
                               /\ [tree[i] EXCEPT !.skip = "excluded"] \in Entries
    <2> TAKE i \in DOMAIN tree
    <2>1. tree[i] \in Entries
      OBVIOUS
    <2> DEFINE e == tree[i]
    <2> HIDE DEF e
    <2>2. e \in Entries => [e EXCEPT !.skip = "excluded"] \in Entries
      BY Zenon DEF Entries
    <2> QED BY <2>1, <2>2 DEF e
  <1>3. Workspace \in [1 .. Len(tree) -> Entries] /\ DOMAIN tree = 1 .. Len(tree)
    BY <1>2 DEF Workspace
  <1>4. Workspace \in Seq(Entries) /\ Len(Workspace) = Len(tree)
    BY <1>3
  <1>5. Snapshot \in Seq(Entries)
    BY <1>1, <1>4 DEF Snapshot
  <1>6. Checkpoint.name = "resume-checkpoint.pt" /\ Checkpoint.skip = "no"
    BY DEF Checkpoint, Request
  <1> QED BY <1>1, <1>4, <1>5, <1>6 DEF Workspace

\* The snapshot, place by place.
LEMMA SnapshotPlaces ==
    ASSUME tree \in Seq(Entries)
    PROVE  LET n == Len(tree)
           IN /\ n \in Nat /\ DOMAIN tree = 1 .. n
              /\ DOMAIN Snapshot = 1 .. n + 1 + (IF op = "resume" THEN 1 ELSE 0)
              /\ Snapshot[1] = Request
              /\ \A i \in 1 .. n : Snapshot[i + 1] = Workspace[i]
              /\ op = "resume" => Snapshot[n + 2] = Checkpoint
  <1> DEFINE ckpt == IF op = "resume" THEN <<Checkpoint>> ELSE <<>>
             W == Workspace
             U == <<Request>> \o W
             n == Len(tree)
  <1>1. /\ W \in Seq(Entries) /\ Len(W) = n /\ n \in Nat /\ DOMAIN tree = 1 .. n
        /\ Request \in Entries /\ Checkpoint \in Entries
    BY SnapshotType
  <1>2. Snapshot = U \o ckpt
    BY DEF Snapshot
  <1> HIDE DEF W, n
  <1>3. /\ U \in Seq(Entries) /\ Len(U) = n + 1 /\ DOMAIN U = 1 .. n + 1 /\ U[1] = Request
        /\ \A i \in 1 .. n : U[i + 1] = W[i]
    BY <1>1
  <1> HIDE DEF U
  <1>4. CASE op = "resume"
    <2>1. Snapshot = U \o <<Checkpoint>>
      BY <1>2, <1>4
    <2>2. /\ DOMAIN Snapshot = 1 .. n + 2 /\ Snapshot[n + 2] = Checkpoint
          /\ \A i \in 1 .. n + 1 : Snapshot[i] = U[i]
      BY <1>1, <1>3, <2>1
    <2>3. n + 1 + 1 = n + 2 /\ 1 \in 1 .. n + 1 /\ \A i \in 1 .. n : i + 1 \in 1 .. n + 1
      BY <1>1
    <2> QED BY <1>1, <1>3, <1>4, <2>2, <2>3 DEF n, W
  <1>5. CASE op # "resume"
    <2>1. Snapshot = U
      BY <1>2, <1>3, <1>5
    <2>2. n + 1 + 0 = n + 1
      BY <1>1
    <2> QED BY <1>1, <1>3, <1>5, <2>1, <2>2 DEF n, W
  <1> QED BY <1>4, <1>5

\* A file that is truncated keeps everything but its kind.
LEMMA TouchedPayload ==
    ASSUME Shape, Touch
    PROVE  /\ payload' \in Seq(Entries) /\ Len(payload') = Len(payload)
           /\ DOMAIN payload' = DOMAIN payload
           /\ \A i \in DOMAIN payload :
                 /\ payload'[i].name = payload[i].name /\ payload'[i].skip = payload[i].skip
                 /\ payload'[i].size = payload[i].size
                 /\ payload'[i].kind \in {payload[i].kind, "gone"}
           /\ Names(payload') = Names(payload)
  <1>1. PICK i \in sender.at .. Len(payload) : payload' = [payload EXCEPT ![i].kind = "gone"]
    BY DEF Touch
  <1>2. i \in DOMAIN payload
    BY <1>1 DEF Shape
  <1>3. /\ payload' \in Seq(Entries) /\ Len(payload') = Len(payload)
        /\ DOMAIN payload' = DOMAIN payload
        /\ \A k \in DOMAIN payload :
              /\ payload'[k].name = payload[k].name /\ payload'[k].skip = payload[k].skip
              /\ payload'[k].size = payload[k].size
              /\ payload'[k].kind \in {payload[k].kind, "gone"}
    <2>1. payload[i] \in Entries /\ payload \in Seq(Entries)
      BY <1>2 DEF Shape
    <2> DEFINE e == payload[i]
               f == [e EXCEPT !.kind = "gone"]
    <2>2. payload' = [payload EXCEPT ![i] = f]
      BY <1>1
    <2> HIDE DEF e
    <2>3. e \in Entries => f \in Entries
      BY Zenon DEF Entries
    <2>4. e \in Entries => f.name = e.name /\ f.skip = e.skip /\ f.size = e.size /\ f.kind = "gone"
      BY DEF Entries
    <2>5. f \in Entries /\ f.name = e.name /\ f.skip = e.skip /\ f.size = e.size /\ f.kind = "gone"
      BY <2>1, <2>3, <2>4 DEF e
    <2> HIDE DEF f
    <2> QED BY <1>2, <2>1, <2>2, <2>5 DEF e
  <1> QED BY <1>3 DEF Names

-----------------------------------------------------------------------------
(* What is shared by several steps.                                        *)

\* A pull that raises.
LEMMA FailEffect ==
    ASSUME Shape, Fail
    PROVE  /\ sender' \in Writers /\ sender'.at = sender.at /\ sender'.left = sender.left
           /\ sender'.state = "exited" /\ sender'.code = -9 /\ sender'.code \in Codes
           /\ reader' \in Extractors /\ reader'.at = "gone"
           /\ ended' = TRUE /\ call' = "error"
  <1>1. "exited" \in WriterStates /\ -9 \in Codes /\ "gone" \in ExtractorStates
    BY DEF WriterStates, Codes, ExtractorStates
  <1> QED BY <1>1, WriterStops, ExtractorMoves DEF Fail

\* An extractor that raises.
LEMMA RaiseEffect ==
    ASSUME Shape, Raise
    PROVE  /\ sender' \in Writers /\ sender'.at = sender.at /\ sender'.left = sender.left
           /\ sender'.code \in Codes
           /\ reader' \in Extractors /\ reader'.at \in {"gone", "failed"}
           /\ ended' \in BOOLEAN /\ call' \in {call, "error"}
           /\ Pull => call' = "error" /\ sender'.state = "exited"
           /\ ~Pull => UNCHANGED <<call, sender, ended>> /\ reader'.at = "failed"
  <1>1. CASE Pull
    BY <1>1, FailEffect DEF Raise
  <1>2. CASE ~Pull
    <2>1. "failed" \in ExtractorStates
      BY DEF ExtractorStates
    <2> QED BY <1>2, <2>1, ExtractorMoves DEF Raise, Shape
  <1> QED BY <1>1, <1>2

\* A step that leaves the archive alone and moves the two processes.
LEMMA ShapeStays ==
    ASSUME Shape, Named,
           UNCHANGED <<source, leg, payload, wire, held, locked, effects, tries, fault>>,
           sender' \in Writers, sender'.at \in 1 .. Len(payload) + 1, sender'.code \in Codes,
           reader' \in Extractors, reader'.at = "data" => reader.at = "data",
           reader'.at = "data" => reader'.entry = reader.entry,
           ended' \in BOOLEAN, call' \in {"new", "busy", "ok", "error", "killed"}
    PROVE  Shape' /\ Named'
  <1>1. /\ UNCHANGED <<op, tree, lost, leg, payload, wire, held, locked, dest, job, tries, fault>>
        /\ Names(tree)' = Names(tree) /\ Names(payload)' = Names(payload)
    BY DEF source, effects, Names
  <1>2. Shape'
    BY <1>1 DEF Shape
  <1>3. Named'
    BY <1>1 DEF Named
  <1> QED BY <1>2, <1>3

-----------------------------------------------------------------------------
(* Every step keeps the shape.                                             *)

\* The writer packs, goes on, stops.
LEMMA ShapePack ==
    ASSUME Shape, Named, Pack \/ SkipExcluded \/ Refuse \/ SenderBroken \/ SenderExits
    PROVE  Shape' /\ Named'
  <1>0. /\ "walk" \in WriterStates /\ "exited" \in WriterStates
        /\ 2 \in Codes /\ 1 \in Codes /\ -9 \in Codes /\ "gone" \in ExtractorStates
    BY DEF WriterStates, Codes, ExtractorStates
  <1>1. CASE Pack
    <2>1. CASE Fail
      BY <1>1, <2>1, FailEffect, ShapeStays DEF Pack, Shape
    <2>2. CASE sender' = [sender EXCEPT !.state = "walk"] /\ UNCHANGED <<call, ended, reader>>
      BY <1>0, <1>1, <2>2, WriterStops, ShapeStays DEF Pack, Shape
    <2> QED BY <1>1, <2>1, <2>2 DEF Pack
  <1>2. CASE SkipExcluded
    <2>1. sender' = [sender EXCEPT !.at = sender.at + 1] /\ Working
      BY <1>2 DEF SkipExcluded
    <2>2. /\ sender \in Writers /\ sender.at + 1 \in Nat
          /\ sender.at + 1 \in 1 .. Len(payload) + 1
      <3>1. sender.at \in 1 .. Len(payload) /\ Len(payload) \in Nat
        BY <2>1, EntryType
      <3> QED BY <3>1 DEF Shape
    <2>3. [sender EXCEPT !.at = sender.at + 1] \in Writers
      BY <2>2, Zenon DEF Writers
    <2>4. sender' \in Writers /\ sender'.at = sender.at + 1 /\ sender'.code = sender.code
      BY <2>1, <2>2, <2>3 DEF Writers
    <2> QED BY <1>2, <2>2, <2>4, ShapeStays
            DEF SkipExcluded, Rest, extract, caller, Shape
  <1>3. CASE Refuse \/ SenderBroken \/ SenderExits
    <2>1. /\ sender' \in Writers /\ sender'.at = sender.at /\ sender'.code \in Codes
          /\ ended' = TRUE
      <3>1. sender.code \in Codes
        BY DEF Shape
      <3>2. CASE Refuse
        BY <1>0, <3>2, WriterStops DEF Refuse
      <3>3. CASE SenderBroken
        BY <1>0, <3>3, WriterStops DEF SenderBroken
      <3>4. CASE SenderExits
        BY <1>0, <3>1, <3>4, WriterStops DEF SenderExits
      <3> QED BY <1>3, <3>2, <3>3, <3>4
    <2>2. UNCHANGED <<source, wire, Rest>>
      BY <1>3 DEF Refuse, SenderBroken, SenderExits
    <2> QED BY <2>1, <2>2, ShapeStays DEF Rest, extract, caller, Shape
  <1> QED BY <1>1, <1>2, <1>3

\* What a header does to the writer.
LEMMA HeaderEffect ==
    ASSUME Shape, SendHeader
    PROVE  /\ sender' \in Writers /\ sender'.at \in 1 .. Len(payload) + 1
           /\ sender'.code = sender.code /\ sender'.state = "walk"
           /\ IF Entry.kind = "dir" \/ Entry.size = 0
              THEN sender'.at = sender.at + 1 /\ sender'.left = 0
              ELSE sender'.at = sender.at /\ sender'.left = Entry.size
  <1>1. Working /\ sender.left = 0
    BY DEF SendHeader
  <1>0. sender \in Writers
    BY DEF Shape
  <1>2. /\ Entry \in Entries /\ Entry.size \in Nat /\ sender \in Writers
        /\ sender.at \in 1 .. Len(payload) /\ Len(payload) \in Nat
    BY <1>0, <1>1, EntryType
  <1>3. CASE Entry.kind = "dir"
    <2>1. sender' = [sender EXCEPT !.at = sender.at + 1]
      BY <1>3 DEF SendHeader
    <2>2. sender.at + 1 \in Nat
      BY <1>2
    <2>3. sender' \in Writers
      BY <1>2, <2>1, <2>2, Zenon DEF Writers
    <2> QED BY <1>1, <1>2, <1>3, <2>1, <2>3 DEF Writers, Working
  <1>4. CASE Entry.kind # "dir"
    <2> DEFINE f == sender.files + 1
               b == sender.bytes + Entry.size
               n == IF Entry.size = 0 THEN sender.at + 1 ELSE sender.at
    <2>1. sender' = [sender EXCEPT !.files = f, !.bytes = b, !.left = Entry.size, !.at = n]
      BY <1>4 DEF SendHeader
    <2>2. f \in Nat /\ b \in Nat /\ n \in Nat
      BY <1>2, Fields
    <2> HIDE DEF f, b
    <2>3. sender' \in Writers
      BY <1>2, <2>1, <2>2, Zenon DEF Writers
    <2>4. /\ sender'.at = n /\ sender'.left = Entry.size
          /\ sender'.code = sender.code /\ sender'.state = sender.state
      BY <1>2, <2>1 DEF Writers
    <2> QED BY <1>1, <1>2, <1>4, <2>3, <2>4 DEF Working
  <1> QED BY <1>3, <1>4

\* What a block does to the writer.
LEMMA BlockEffect ==
    ASSUME Shape, SendData
    PROVE  /\ sender' \in Writers /\ sender'.at \in 1 .. Len(payload) + 1
           /\ sender'.code = sender.code /\ sender'.state = "walk"
           /\ sender'.left = sender.left - 1
           /\ sender'.at = IF sender.left = 1 THEN sender.at + 1 ELSE sender.at
  <1>1. Working /\ sender.left > 0
    BY DEF SendData
  <1>0. sender \in Writers
    BY DEF Shape
  <1>2. sender \in Writers /\ sender.at \in 1 .. Len(payload) /\ Len(payload) \in Nat
    BY <1>0, <1>1, EntryType
  <1> DEFINE n == IF sender.left = 1 THEN sender.at + 1 ELSE sender.at
             m == sender.left - 1
  <1>3. sender' = [sender EXCEPT !.left = m, !.at = n]
    BY DEF SendData
  <1>4. n \in Nat /\ m \in Nat
    BY <1>1, <1>2, Fields
  <1> HIDE DEF m
  <1>5. sender' \in Writers
    BY <1>2, <1>3, <1>4, Zenon DEF Writers
  <1>6. /\ sender'.at = n /\ sender'.left = m
        /\ sender'.code = sender.code /\ sender'.state = sender.state
    BY <1>2, <1>3 DEF Writers
  <1> QED BY <1>1, <1>2, <1>5, <1>6 DEF Working, m

\* The item that a step puts on the wire.
Sent == IF SendHeader THEN [item |-> "member", of |-> Entry]
        ELSE IF SendData THEN [item |-> "block", of |-> Entry]
        ELSE [item |-> "end", of |-> Nothing]

\* It is what the step says, and there is room for it.
LEMMA SentType ==
    ASSUME Shape, SendHeader \/ SendData \/ SendEnd
    PROVE  /\ wire' = Append(wire, Sent) /\ Sent \in Items /\ Len(wire) < Capacity
           /\ Sent.item = "member" => Sent.of = Entry /\ Entry.name \in Names(payload)
  <1>0. SendHeader \/ SendData => /\ Working /\ Entry \in Entries
                                  /\ Entry.name \in Names(payload)
    BY EntryType DEF SendHeader, SendData
  <1>1. CASE SendHeader
    <2>1. Sent = [item |-> "member", of |-> Entry]
      BY <1>1 DEF Sent
    <2> QED BY <1>0, <1>1, <2>1 DEF SendHeader, Room, Items
  <1>2. CASE SendData /\ ~SendHeader
    <2>1. Sent = [item |-> "block", of |-> Entry]
      BY <1>2 DEF Sent
    <2> QED BY <1>0, <1>2, <2>1 DEF SendData, Room, Items
  <1>3. CASE SendEnd /\ ~SendHeader /\ ~SendData
    <2>1. Sent = [item |-> "end", of |-> Nothing]
      BY <1>3 DEF Sent
    <2> QED BY <1>3, <2>1 DEF SendEnd, Room, Items
  <1> QED BY <1>1, <1>2, <1>3

\* Members, blocks and the end marker are put on the wire.
LEMMA ShapeSend ==
    ASSUME Shape, Named, SendHeader \/ SendData \/ SendEnd
    PROVE  Shape' /\ Named'
  <1>1. /\ wire' \in Seq(Items) /\ Len(wire') = Len(wire) + 1 /\ DOMAIN wire' = 1 .. Len(wire')
        /\ wire'[Len(wire) + 1] = Sent
        /\ \A j \in 1 .. Len(wire) : wire'[j] = wire[j]
    <2>1. wire \in Seq(Items)
      BY DEF Shape
    <2> QED BY <2>1, SentType, ItemSent
  <1>2. /\ Sent.item = "member" => Sent.of.name \in Names(payload)
        /\ Len(wire) < Capacity
    BY SentType
  <1>3. /\ sender' \in Writers /\ sender'.at \in 1 .. Len(payload) + 1 /\ sender'.code \in Codes
    <2>1. CASE SendHeader \/ SendData
      BY <2>1, HeaderEffect, BlockEffect DEF Shape
    <2>2. CASE SendEnd
      <3>1. "ended" \in WriterStates
        BY DEF WriterStates
      <3> QED BY <2>2, <3>1, WriterStops DEF SendEnd, Shape
    <2> QED BY <2>1, <2>2
  <1>4. UNCHANGED <<source, ended, Rest>>
    BY DEF SendHeader, SendData, SendEnd
  <1>5. Len(wire') <= Capacity
    BY <1>1, <1>2, Numbers DEF Shape
  <1>6. \A j \in DOMAIN wire' : wire'[j].item = "member" => wire'[j].of.name \in Names(payload)
    <2> TAKE j \in DOMAIN wire'
    <2>1. j = Len(wire) + 1 \/ (j \in 1 .. Len(wire) /\ j \in DOMAIN wire)
      BY <1>1 DEF Shape
    <2> QED BY <1>1, <1>2, <2>1 DEF Named
  <1>7. Shape'
    BY <1>1, <1>3, <1>4, <1>5 DEF Shape, Rest, source, extract, effects, caller
  <1>8. Named'
    BY <1>4, <1>6 DEF Named, Rest, source, extract, effects, caller, Names
  <1> QED BY <1>7, <1>8

\* What a header does to the extractor that accepts it.
LEMMA ReadHeaderEffect ==
    ASSUME Shape, Named, ReadHeader, Accepts(Member)
    PROVE  /\ reader' \in Extractors /\ reader'.entry = Member.name
           /\ reader'.left = Member.size
           /\ reader'.at = IF Member.size = 0 THEN "header" ELSE "data"
  <1>1. Arrived("member")
    BY DEF ReadHeader
  <1>2. Member.size \in Nat /\ Member.name \in Paths
    BY <1>1, MemberType
  <1> DEFINE p == IF Member.size = 0 THEN "header" ELSE "data"
             n == Member.name
             l == Member.size
             f == reader.files + 1
             b == reader.bytes + Member.size
  <1>3. reader' = [at |-> p, entry |-> n, left |-> l, files |-> f, bytes |-> b]
    BY DEF ReadHeader
  <1>4. p \in ExtractorStates /\ n \in Paths \cup {Nothing} /\ l \in Int /\ f \in Nat /\ b \in Nat
    BY <1>2, Fields DEF ExtractorStates
  <1> HIDE DEF p, n, l, f, b
  <1>5. reader' \in Extractors
    BY <1>3, <1>4, Zenon DEF Extractors
  <1>6. reader'.entry = n /\ reader'.left = l /\ reader'.at = p
    BY <1>3
  <1> QED BY <1>5, <1>6 DEF p, n, l

\* What a block does to the extractor.
LEMMA ReadBlockEffect ==
    ASSUME Shape, ReadBlock
    PROVE  /\ reader' \in Extractors /\ reader'.entry = reader.entry
           /\ reader'.left = reader.left - 1
           /\ reader'.at = IF reader.left = 1 THEN "header" ELSE "data"
  <1> DEFINE p == IF reader.left = 1 THEN "header" ELSE "data"
             l == reader.left - 1
  <1>1. reader' = [reader EXCEPT !.left = l, !.at = p]
    BY DEF ReadBlock
  <1>a. reader \in Extractors
    BY DEF Shape
  <1>b. l \in Int
    BY Fields
  <1>c. p \in ExtractorStates
    BY DEF ExtractorStates
  <1>2. p \in ExtractorStates /\ l \in Int /\ reader \in Extractors
    BY <1>a, <1>b, <1>c
  <1> HIDE DEF p, l
  <1>3. reader' \in Extractors
    BY <1>1, <1>2, Zenon DEF Extractors
  <1>4. reader'.entry = reader.entry /\ reader'.left = l /\ reader'.at = p
    BY <1>1, <1>2 DEF Extractors
  <1> QED BY <1>3, <1>4 DEF p, l

\* A step that takes an item from the wire, or leaves the wire alone.
LEMMA ShapeTake ==
    ASSUME Shape, Named,
           wire' = wire \/ (wire # <<>> /\ wire' = Tail(wire)),
           UNCHANGED Outside,
           sender' \in Writers, sender'.at = sender.at, sender'.code \in Codes,
           reader' \in Extractors,
           reader'.at = "data" => reader'.entry \in Names(payload),
           held' \subseteq Names(payload), locked' \subseteq held',
           ended' \in BOOLEAN, call' \in {call, "error"}
    PROVE  Shape' /\ Named'
  <1>1. /\ wire' \in Seq(Items) /\ Len(wire') <= Len(wire)
        /\ \A j \in DOMAIN wire' : \E k \in DOMAIN wire : wire'[j] = wire[k]
    <2>1. CASE wire' = wire
      BY <2>1 DEF Shape
    <2>2. CASE wire # <<>> /\ wire' = Tail(wire)
      <3>1. wire \in Seq(Items)
        BY DEF Shape
      <3>a. /\ wire' \in Seq(Items) /\ Len(wire') = Len(wire) - 1 /\ DOMAIN wire' = 1 .. Len(wire')
            /\ \A j \in 1 .. Len(wire) - 1 : wire'[j] = wire[j + 1]
        BY <2>2, <3>1, ItemTaken
      <3>b. Len(wire) \in Nat /\ DOMAIN wire = 1 .. Len(wire)
        BY <3>1
      <3>2. /\ wire' \in Seq(Items) /\ Len(wire') = Len(wire) - 1 /\ Len(wire) \in Nat
            /\ DOMAIN wire' = 1 .. Len(wire') /\ DOMAIN wire = 1 .. Len(wire)
            /\ \A j \in 1 .. Len(wire) - 1 : wire'[j] = wire[j + 1]
        BY <3>a, <3>b
      <3>3. \A j \in DOMAIN wire' : j + 1 \in DOMAIN wire /\ wire'[j] = wire[j + 1]
        BY <3>2
      <3> QED BY <3>2, <3>3
    <2> QED BY <2>1, <2>2
  <1>2. Len(wire') <= Capacity
    BY <1>1, Numbers DEF Shape
  <1>3. Shape'
    BY <1>1, <1>2 DEF Shape, Outside, source, effects
  <1>4. Named'
    BY <1>1 DEF Named, Outside, source, effects, Names
  <1> QED BY <1>3, <1>4

\* The steps of the extractor.
LEMMA ShapeReading ==
    ASSUME Shape, Named, Reading
    PROVE  Shape' /\ Named'
  <1>0. /\ "header" \in ExtractorStates /\ "modes" \in ExtractorStates
        /\ "done" \in ExtractorStates
    BY DEF ExtractorStates
  <1>a. /\ sender \in Writers /\ sender.code \in Codes /\ locked \subseteq held
        /\ ended \in BOOLEAN /\ held \subseteq Names(payload)
    BY DEF Shape, Named
  <1>1. CASE ReadDirectory
    <2>1. Arrived("member") /\ wire # <<>> /\ wire' = Tail(wire)
      BY <1>1 DEF ReadDirectory, Arrived
    <2>2. Member.name \in Names(payload)
      BY <2>1, MemberType
    <2>3. reader' \in Extractors /\ reader'.at = "header"
      BY <1>0, <1>1, ExtractorMoves DEF ReadDirectory
    <2>4. /\ UNCHANGED <<locked, sender, ended, call, Outside>>
          /\ held' = held \cup {Member.name}
      BY <1>1 DEF ReadDirectory
    <2> QED BY <1>a, <2>1, <2>2, <2>3, <2>4, ShapeTake
  <1>2. CASE ReadHeader
    <2>1. Arrived("member") /\ wire # <<>> /\ wire' = Tail(wire)
      BY <1>2 DEF ReadHeader, Arrived
    <2>2. Member.name \in Names(payload)
      BY <2>1, MemberType
    <2>3. UNCHANGED <<locked, Outside>>
      BY <1>2 DEF ReadHeader
    <2>4. CASE Accepts(Member)
      <3>1. UNCHANGED <<call, sender, ended>> /\ (held' = held \cup {Member.name} \/ held' = held)
        BY <1>2, <2>4 DEF ReadHeader
      <3>2. reader' \in Extractors /\ reader'.entry \in Names(payload)
        BY <1>2, <2>2, <2>4, ReadHeaderEffect
      <3> QED BY <1>a, <2>1, <2>2, <2>3, <3>1, <3>2, ShapeTake
    <2>5. CASE ~Accepts(Member)
      <3>1. Raise /\ UNCHANGED held
        BY <1>2, <2>5 DEF ReadHeader
      <3> QED BY <1>a, <2>1, <2>3, <3>1, RaiseEffect, ShapeTake
    <2> QED BY <2>4, <2>5
  <1>3. CASE ReadBlock
    <2>1. wire # <<>> /\ wire' = Tail(wire) /\ reader.at = "data"
      BY <1>3 DEF ReadBlock, Arrived
    <2>2. reader.entry \in Names(payload)
      BY <2>1 DEF Named
    <2>3. reader' \in Extractors /\ reader'.entry = reader.entry
      BY <1>3, ReadBlockEffect
    <2>4. /\ UNCHANGED <<locked, sender, ended, call, Outside>>
          /\ held' = held \cup {reader.entry} \/ held' = held
      BY <1>3 DEF ReadBlock
    <2> QED BY <1>a, <2>1, <2>2, <2>3, <2>4, ShapeTake
  <1>4. CASE ReadEnd
    <2>1. UNCHANGED <<wire, held, locked, sender, ended, call, Outside>>
      BY <1>4 DEF ReadEnd
    <2>2. reader' \in Extractors /\ reader'.at = "modes"
      BY <1>0, <1>4, ExtractorMoves DEF ReadEnd
    <2> QED BY <1>a, <2>1, <2>2, ShapeTake
  <1>5. CASE ReadCutShort
    <2>1. Raise /\ UNCHANGED <<wire, held, locked, Outside>>
      BY <1>5 DEF ReadCutShort
    <2> QED BY <1>a, <2>1, RaiseEffect, ShapeTake
  <1>6. CASE ApplyModes
    <2>1. UNCHANGED <<wire, held, sender, ended, call, Outside>> /\ locked' \subseteq held
      BY <1>6 DEF ApplyModes
    <2>2. reader' \in Extractors /\ reader'.at = "done"
      BY <1>0, <1>6, ExtractorMoves DEF ApplyModes
    <2> QED BY <1>a, <2>1, <2>2, ShapeTake
  <1> QED BY <1>1, <1>2, <1>3, <1>4, <1>5, <1>6 DEF Reading

\* The streams that a call starts with.
LEMMA ShapeFresh ==
    ASSUME Shape, payload' \in Seq(Entries), leg' \in {"pull", "push"},
           leg' = "pull" => Names(payload') = Names(tree),
           UNCHANGED <<source, effects, fault>>,
           \E s \in WriterStates : sender' = Writer(s),
           \E p \in {"absent", "open"} : reader' = Extractor(p),
           wire' = <<>>, ended' = FALSE, held' = {}, locked' = {},
           call' \in {call, "new"}, tries' \in 1 .. MaxTries
    PROVE  Shape' /\ Named'
  <1>1. /\ sender' \in Writers /\ sender'.at = 1 /\ sender'.code = 0 /\ 0 \in Codes
        /\ reader' \in Extractors /\ reader'.at \in {"absent", "open"}
    BY NewProcesses DEF Codes
  <1>2. 1 \in 1 .. Len(payload') + 1 /\ wire' \in Seq(Items) /\ Len(wire') = 0
    OBVIOUS
  <1>3. Len(wire') <= Capacity
    BY <1>2, Numbers
  <1>4. /\ UNCHANGED <<op, tree, lost, dest, job>>
        /\ Names(tree)' = Names(tree) /\ Names(payload)' = Names(payload')
    BY DEF source, effects, Names
  <1>5. Shape'
    BY <1>1, <1>2, <1>3, <1>4 DEF Shape
  <1>6. Named'
    BY <1>1, <1>2 DEF Named, Names
  <1> QED BY <1>5, <1>6

\* The steps of the caller.
LEMMA ShapeCalling ==
    ASSUME Shape, Named, Calling \/ Finish \/ FetchAgain
    PROVE  Shape' /\ Named'
  <1>0. /\ "gone" \in ExtractorStates /\ "answered" \in ExtractorStates
        /\ "failed" \in ExtractorStates
        /\ {"walk", "pack", "absent"} \subseteq WriterStates
    BY DEF ExtractorStates, WriterStates
  <1>a. /\ sender \in Writers /\ sender.at \in 1 .. Len(payload) + 1 /\ sender.code \in Codes
        /\ reader \in Extractors /\ ended \in BOOLEAN
    BY DEF Shape
  <1>1. CASE Begin
    <2>0. UNCHANGED <<source, leg, payload, wire, ended, held, locked, effects, tries, fault>>
      BY <1>1 DEF Begin
    <2>1. CASE UNCHANGED <<sender, reader>>
      BY <1>1, <1>a, <2>0, <2>1, ShapeStays DEF Begin
    <2>2. CASE /\ call' = "busy" /\ reader' = Extractor("open")
               /\ sender' = Writer(IF Pull THEN "walk" ELSE "pack")
      <3>1. /\ reader' \in Extractors /\ reader'.at = "open"
            /\ sender' \in Writers /\ sender'.at = 1 /\ sender'.code = 0 /\ 0 \in Codes
        BY <1>0, <2>2, NewProcesses DEF Codes
      <3>2. 1 \in 1 .. Len(payload) + 1
        BY <1>a DEF Shape
      <3> QED BY <1>a, <2>0, <2>2, <3>1, <3>2, ShapeStays
    <2> QED BY <1>1, <2>1, <2>2 DEF Begin
  <1>2. CASE Publish
    <2>1. reader' \in Extractors /\ reader'.at = "gone"
      BY <1>0, <1>2, ExtractorMoves DEF Publish
    <2>2. /\ UNCHANGED <<source, leg, payload, sender, wire, ended, held, locked, job, tries,
                         fault>>
          /\ dest' = dest \/ dest' = {held}
          /\ call' \in {"ok", "error"}
      BY <1>2 DEF Publish, stream
    <2>3. Shape'
      BY <1>a, <2>1, <2>2 DEF Shape, source
    <2>4. Named'
      BY <2>1, <2>2 DEF Named, Names
    <2> QED BY <2>3, <2>4
  <1>3. CASE SendSnapshot
    <2>0. UNCHANGED <<source, effects, tries, fault>>
      BY <1>3 DEF SendSnapshot
    <2>1. CASE /\ leg' = "push" /\ payload' = Snapshot
               /\ sender' = Writer("pack") /\ reader' = Extractor("open")
               /\ wire' = <<>> /\ ended' = FALSE /\ held' = {} /\ locked' = {}
               /\ UNCHANGED call
      <3>1. tree \in Seq(Entries)
        BY TransferAssumption DEF Listed, Shape
      <3>2. payload' \in Seq(Entries)
        BY <2>1, <3>1, SnapshotType
      <3>3. tries' \in 1 .. MaxTries
        BY <2>0 DEF Shape
      <3> QED BY <1>0, <2>0, <2>1, <3>2, <3>3, ShapeFresh
    <2>2. CASE /\ call' = "error" /\ reader' = [reader EXCEPT !.at = "gone"]
               /\ UNCHANGED <<leg, payload, stream, held, locked>>
      <3>1. reader' \in Extractors /\ reader'.at = "gone"
        BY <1>0, <2>2, ExtractorMoves
      <3> QED BY <1>a, <2>0, <2>2, <3>1, ShapeStays DEF stream
    <2> QED BY <1>3, <2>1, <2>2 DEF SendSnapshot
  <1>4. CASE WaitExpires
    <2>1. /\ Fail /\ fault' = "slow"
          /\ UNCHANGED <<source, leg, payload, wire, held, locked, effects, tries>>
      BY <1>4 DEF WaitExpires
    <2>2. /\ sender' \in Writers /\ sender'.at = sender.at /\ sender'.code \in Codes
          /\ reader' \in Extractors /\ reader'.at = "gone" /\ ended' = TRUE /\ call' = "error"
      BY <2>1, FailEffect
    <2>3. fault' \in FaultKinds \cup {"none"}
      BY <2>1 DEF FaultKinds
    <2>4. Shape'
      BY <1>a, <2>1, <2>2, <2>3 DEF Shape, source, effects
    <2>5. Named'
      BY <2>1, <2>2 DEF Named, Names
    <2> QED BY <2>4, <2>5
  <1>5. CASE Finish
    <2>1. reader' \in Extractors /\ reader'.at \in {"answered", "failed"}
      BY <1>0, <1>5, ExtractorMoves DEF Finish
    <2>2. /\ UNCHANGED <<source, leg, payload, sender, wire, ended, held, locked, dest,
                         call, tries, fault>>
          /\ job' = job \/ job' = {held}
      BY <1>5 DEF Finish, stream, caller
    <2>3. Shape'
      BY <1>a, <2>1, <2>2 DEF Shape, source
    <2>4. Named'
      BY <2>1, <2>2 DEF Named, Names
    <2> QED BY <2>3, <2>4
  <1>6. CASE Reply
    <2>1. /\ UNCHANGED <<source, leg, payload, stream, extract, effects, tries, fault>>
          /\ call' \in {"ok", "error"}
      BY <1>6 DEF Reply
    <2> QED BY <1>a, <2>1, ShapeStays DEF stream, extract
  <1>7. CASE FetchAgain
    <2>1. /\ UNCHANGED <<source, leg, payload, effects, fault>>
          /\ sender' = Writer("absent") /\ reader' = Extractor("absent")
          /\ wire' = <<>> /\ ended' = FALSE /\ held' = {} /\ locked' = {}
          /\ call' = "new" /\ tries < MaxTries /\ tries' = tries + 1
      BY <1>7 DEF FetchAgain
    <2>2. tries' \in 1 .. MaxTries
      BY <2>1, Numbers DEF Shape
    <2>3. /\ payload' \in Seq(Entries) /\ leg' \in {"pull", "push"}
          /\ leg' = "pull" => Names(payload') = Names(tree)
      BY <2>1 DEF Shape
    <2> QED BY <1>0, <2>1, <2>2, <2>3, ShapeFresh
  <1> QED BY <1>1, <1>2, <1>3, <1>4, <1>5, <1>6, <1>7 DEF Calling

\* What is lost on the way leaves the front of the stream.
LEMMA PrefixType ==
    ASSUME wire \in Seq(Items), NEW p \in Prefixes(wire)
    PROVE  /\ p \in Seq(Items) /\ Len(p) <= Len(wire)
           /\ \A j \in DOMAIN p : j \in DOMAIN wire /\ p[j] = wire[j]
  <1>1. PICK l \in 0 .. Len(wire) : p = SubSeq(wire, 1, l)
    BY DEF Prefixes
  <1> QED BY <1>1

\* What goes wrong.
LEMMA ShapeFaults ==
    ASSUME Shape, Named, Cut \/ PushExpires \/ Kill \/ Touch \/ Vanish
    PROVE  Shape' /\ Named'
  <1>0. "exited" \in WriterStates /\ 255 \in Codes /\ "gone" \in ExtractorStates
    BY DEF WriterStates, Codes, ExtractorStates
  <1>a. /\ sender \in Writers /\ sender.at \in 1 .. Len(payload) + 1 /\ sender.code \in Codes
        /\ reader \in Extractors /\ wire \in Seq(Items)
    BY DEF Shape
  <1>b. {"cut", "slow", "kill", "touch", "vanish"} \subseteq FaultKinds \ {"none"}
    BY DEF FaultKinds
  <1>1. CASE Cut \/ PushExpires
    <2>1. /\ fault' \in {"cut", "slow"} /\ wire' \in Prefixes(wire) /\ ended' = TRUE
          /\ sender' = [sender EXCEPT !.state = "exited", !.code = 255]
          /\ call' \in {call, "error"}
          /\ UNCHANGED <<source, leg, payload, extract, effects, tries>>
      BY <1>1 DEF Cut, PushExpires, Disconnect
    <2>2. sender' \in Writers /\ sender'.at = sender.at /\ sender'.code = 255
      <3>1. sender' = [sender EXCEPT !.state = "exited", !.code = 255]
        BY <2>1
      <3>2. PICK c \in Codes : c = 255
        BY <1>0
      <3>3. sender' = [sender EXCEPT !.state = "exited", !.code = c]
        BY <3>1, <3>2
      <3>4. sender' \in Writers /\ sender'.at = sender.at /\ sender'.code = c
        BY <1>0, <3>3, WriterStops
      <3> QED BY <3>2, <3>4
    <2>3. /\ wire' \in Seq(Items) /\ Len(wire') <= Len(wire)
          /\ \A j \in DOMAIN wire' : j \in DOMAIN wire /\ wire'[j] = wire[j]
      BY <1>a, <2>1, PrefixType
    <2>4. Len(wire') <= Capacity
      BY <1>a, <2>3, Numbers DEF Shape
    <2>5. Shape'
      BY <1>0, <1>b, <2>1, <2>2, <2>3, <2>4 DEF Shape, source, extract, effects
    <2>6. Named'
      BY <2>1, <2>3 DEF Named, extract, Names
    <2> QED BY <2>5, <2>6
  <1>2. CASE Kill
    <2>1. /\ fault' = "kill" /\ call' = "killed"
          /\ UNCHANGED <<source, leg, payload, sender, wire, ended, held, locked, effects, tries>>
          /\ reader' = reader \/ reader' = [reader EXCEPT !.at = "gone"]
      BY <1>2 DEF Kill, stream
    <2>2. reader' \in Extractors /\ (reader' = reader \/ reader'.at = "gone")
      BY <1>0, <1>a, <2>1, ExtractorMoves
    <2>3. Shape'
      BY <1>b, <2>1, <2>2 DEF Shape, source, effects
    <2>4. Named'
      BY <2>1, <2>2 DEF Named, Names
    <2> QED BY <2>3, <2>4
  <1>3. CASE Touch
    <2>1. fault' = "touch" /\ UNCHANGED <<source, leg, stream, extract, effects, caller>>
      BY <1>3 DEF Touch
    <2>2. /\ payload' \in Seq(Entries) /\ Len(payload') = Len(payload)
          /\ Names(payload') = Names(payload)
      BY <1>3, TouchedPayload
    <2>3. Shape'
      BY <1>b, <2>1, <2>2 DEF Shape, source, stream, extract, effects, caller
    <2>4. Named'
      BY <2>1, <2>2 DEF Named, stream, extract
    <2> QED BY <2>3, <2>4
  <1>4. CASE Vanish
    <2>1. /\ fault' = "vanish" /\ op \notin {"file", "fetch"} /\ Pull
          /\ UNCHANGED <<op, tree, leg, payload, stream, extract, effects, caller>>
      BY <1>4 DEF Vanish
    <2>2. lost' \subseteq Names(payload)
      BY <1>4 DEF Vanish, Unlisted, Names
    <2>3. Names(payload) = Names(tree)
      BY <2>1 DEF Shape, Pull
    <2>4. Shape'
      BY <1>b, <2>1, <2>2, <2>3 DEF Shape, stream, extract, effects, caller
    <2>5. Named'
      BY <2>1 DEF Named, Names, stream, extract
    <2> QED BY <2>4, <2>5
  <1> QED BY <1>1, <1>2, <1>3, <1>4

\* As the program starts.
LEMMA ShapeInit == Init => Shape /\ Named
  <1> SUFFICES ASSUME Init PROVE Shape /\ Named
    OBVIOUS
  <1>1. tree \in Seq(Entries) /\ payload = tree
    BY TransferAssumption DEF Listed, Init
  <1>2. /\ sender \in Writers /\ sender.at = 1 /\ sender.code = 0 /\ 0 \in Codes
        /\ reader \in Extractors /\ reader.at = "absent"
    BY NewProcesses DEF Init, Codes, WriterStates
  <1>3. wire = <<>> /\ wire \in Seq(Items) /\ Len(wire) = 0 /\ 1 \in 1 .. Len(payload) + 1
    BY <1>1 DEF Init
  <1>4. Len(wire) <= Capacity /\ 1 \in 1 .. MaxTries
    BY <1>3, Numbers
  <1>5. Shape
    BY <1>1, <1>2, <1>3, <1>4 DEF Init, Shape
  <1>6. Named
    BY <1>2, <1>3 DEF Init, Named
  <1> QED BY <1>5, <1>6

\* No step loses the shape.
LEMMA ShapeNext == Shape /\ Named /\ [Next]_vars => Shape' /\ Named'
  <1> SUFFICES ASSUME Shape, Named, [Next]_vars PROVE Shape' /\ Named'
    OBVIOUS
  <1>1. CASE Next
    BY <1>1, ShapePack, ShapeSend, ShapeReading, ShapeCalling, ShapeFaults DEF Next, Sending
  <1>2. CASE UNCHANGED vars
    <2>1. UNCHANGED <<op, tree, lost, leg, payload, sender, wire, ended, reader, held, locked,
                      dest, job, call, tries, fault>>
      BY <1>2 DEF vars, source, stream, extract, effects, caller
    <2>2. Names(tree)' = Names(tree) /\ Names(payload)' = Names(payload)
      BY <2>1 DEF Names
    <2>3. Shape'
      BY <2>1, <2>2 DEF Shape
    <2>4. Named'
      BY <2>1, <2>2 DEF Named
    <2> QED BY <2>3, <2>4
  <1> QED BY <1>1, <1>2

\* Both parts of the shape hold in every state.
LEMMA ShapeHolds == Spec => [](Shape /\ Named)
  <1>1. Init => Shape /\ Named
    BY ShapeInit
  <1>2. (Shape /\ Named) /\ [Next]_vars => (Shape /\ Named)'
    BY ShapeNext
  <1> QED BY <1>1, <1>2, PTL DEF Spec

\* The shape is the type that the model states.
LEMMA ShapeIsType == Shape /\ Named => TypeOK
  <1> SUFFICES ASSUME Shape, Named PROVE TypeOK
    OBVIOUS
  <1>1. Cardinality(dest) <= 1 /\ Cardinality(job) <= 1
    <2>1. \A S : S = {} \/ (\E x : S = {x}) => Cardinality(S) <= 1
      BY FS_Singleton, FS_EmptySet
    <2> QED BY <2>1 DEF Shape
  <1>2. sender.left \in Nat /\ sender.state \in WriterStates /\ reader.at \in ExtractorStates
    BY Fields
  <1> QED BY <1>1, <1>2 DEF TypeOK, Shape, Named, WriterStates, ExtractorStates, Codes

\* Every attribute has its type.
THEOREM TypeCorrect == Spec => []TypeOK
  BY ShapeHolds, ShapeIsType, PTL

-----------------------------------------------------------------------------
(* The two processes and the call.                                         *)

\* What a stream has to carry.
Carried == {i \in DOMAIN payload : ~Excluded(payload[i])}
Wanted  == {payload[i].name : i \in Carried}

\* The stream of a pull carries the tree, that of a push what was asked for.
Legs ==
    /\ op \in {"directory", "file", "fetch"} => Pull
    /\ Pull => /\ DOMAIN payload = DOMAIN tree
               /\ \A i \in DOMAIN tree : /\ payload[i].name = tree[i].name
                                         /\ payload[i].skip = tree[i].skip
    /\ ~Pull => Wanted = Asked

\* Nothing of an earlier call is left when one starts.
Fresh ==
    call = "new" => /\ sender.state = "absent" /\ reader.at = "absent"
                    /\ wire = <<>> /\ ~ended /\ held = {}

\* A call in progress has its two processes.
Started == call = "busy" => sender.state # "absent" /\ reader.at # "absent"

\* Only a writer that has exited has an exit code; the file that it is in is
\* one that it sends.
Orderly ==
    /\ sender.state # "exited" => sender.code = 0
    /\ sender.left > 0 => sender.at \in DOMAIN payload /\ ~Excluded(payload[sender.at])

\* In a push the writer fails only after the extractor did.
Pushing ==
    ~Pull /\ call = "busy" =>
        /\ reader.at \in {"gone", "failed"} \/ sender.code = 0
        /\ sender.state # "pack" =>
              \A i \in DOMAIN payload : Excluded(payload[i]) \/ Regular(payload[i])

\* The other side answers when it has stored what arrived.
Answered == reader.at = "answered" => ~Pull /\ (Launches => job = {held})

\* What the writer has sent, or is sending.
Behind ==
    {payload[i].name : i \in {k \in DOMAIN payload :
                                 k < sender.at \/ (k = sender.at /\ sender.left > 0)}}

\* Everything that is on its way or has arrived was sent.
Travelled ==
    /\ held \subseteq Behind
    /\ \A j \in DOMAIN wire : wire[j].item \in {"member", "block"} => wire[j].of.name \in Behind
    /\ reader.at = "data" => reader.entry \in Behind

\* A call that succeeded reads nothing more.
Returned == call = "ok" => reader.at \in {"absent", "gone", "answered"}

Protocol == Fresh /\ Started /\ NothingLeft /\ Orderly /\ Pushing /\ Answered /\ Returned

\* Steps that leave the operation and its payload alone.
LEMMA LegsStay ==
    ASSUME Legs, UNCHANGED <<op, tree, lost, leg, payload>>
    PROVE  Legs' /\ Wanted' = Wanted /\ Asked' = Asked
  BY DEF Legs, Wanted, Carried, Asked, Kept, Excluded, Launches, Pull

\* The workspace is pushed with the request and the checkpoint.
LEMMA SnapshotWanted ==
    ASSUME tree \in Seq(Entries), Launches, op' = op, tree' = tree, lost' = lost,
           leg' = "push", payload' = Snapshot,
           lost \subseteq Names(tree), Listed(tree),
           held = {tree[i].name : i \in {k \in DOMAIN tree : tree[k].skip # "excluded"}} \ lost
    PROVE  Wanted' = Asked'
  <1> DEFINE W == Workspace
             n == Len(tree)
  <1>1. /\ W \in Seq(Entries) /\ Len(W) = n /\ n \in Nat /\ DOMAIN tree = 1 .. n
        /\ Request \in Entries /\ Checkpoint \in Entries
        /\ \A i \in DOMAIN tree : W[i] = IF tree[i].name \in held THEN tree[i]
                                         ELSE [tree[i] EXCEPT !.skip = "excluded"]
    BY SnapshotType
  <1>2. \A i \in DOMAIN tree : /\ W[i].name = tree[i].name
                               /\ W[i].skip = IF tree[i].name \in held THEN tree[i].skip
                                              ELSE "excluded"
    <2> TAKE i \in DOMAIN tree
    <2>1. tree[i] \in Entries
      BY <1>1
    <2>2. [tree[i] EXCEPT !.skip = "excluded"].name = tree[i].name
      BY <2>1 DEF Entries
    <2>3. [tree[i] EXCEPT !.skip = "excluded"].skip = "excluded"
      BY <2>1 DEF Entries
    <2> QED BY <1>1, <2>2, <2>3
  <1>4. /\ DOMAIN payload' = 1 .. n + 1 + (IF op = "resume" THEN 1 ELSE 0)
        /\ payload'[1] = Request
        /\ \A i \in 1 .. n : payload'[i + 1] = W[i]
        /\ op = "resume" => payload'[n + 2] = Checkpoint
    BY SnapshotPlaces
  <1> HIDE DEF W, n
  <1>5. Wanted' = {payload'[i].name : i \in {k \in DOMAIN payload' :
                                        /\ payload'[k].skip \notin {"excluded", "ignored"}
                                        /\ payload'[k].name \notin lost}}
    BY DEF Wanted, Carried, Excluded, Launches, Pull
  <1>6. Asked' = ({tree[i].name : i \in {k \in DOMAIN tree : tree[k].skip = "no"}} \ lost) \cup
                    {"request.json"} \cup
                    (IF op = "resume" THEN {"resume-checkpoint.pt"} ELSE {})
    <2>1. Request.name = "request.json" /\ Checkpoint.name = "resume-checkpoint.pt"
      BY SnapshotType DEF Request
    <2> QED BY <2>1, Zenon DEF Asked, Kept, Launches
  <1>7. /\ Request.skip = "no" /\ Request.name = "request.json"
        /\ Checkpoint.skip = "no" /\ Checkpoint.name = "resume-checkpoint.pt"
        /\ Request.name \notin lost /\ Checkpoint.name \notin lost
    BY SnapshotType DEF Request, Listed, Names
  <1>8. ASSUME NEW x \in Wanted' PROVE x \in Asked'
    <2>1. PICK i \in DOMAIN payload' : /\ payload'[i].skip \notin {"excluded", "ignored"}
                                       /\ x = payload'[i].name /\ x \notin lost
      BY <1>5, <1>8
    <2>2. CASE i = 1
      BY <1>4, <1>6, <1>7, <2>1, <2>2
    <2>3. CASE i \in 2 .. n + 1
      <3>1. /\ i - 1 \in 1 .. n /\ payload'[i] = W[i - 1] /\ tree[i - 1] \in Entries
            /\ i - 1 \in DOMAIN tree
        BY <1>1, <1>4, <2>3
      <3>2. W[i - 1].name = tree[i - 1].name /\ W[i - 1].skip = tree[i - 1].skip
        BY <1>2, <2>1, <3>1
      <3>3. x = tree[i - 1].name /\ tree[i - 1].skip = "no"
        BY <2>1, <3>1, <3>2 DEF Entries
      <3> QED BY <1>6, <2>1, <3>1, <3>3
    <2>4. CASE i > n + 1
      <3>1. op = "resume" /\ i = n + 2
        BY <1>1, <1>4, <2>4
      <3>2. x = "resume-checkpoint.pt"
        BY <1>4, <1>7, <2>1, <3>1
      <3> QED BY <1>6, <3>1, <3>2
    <2> QED BY <1>1, <1>4, <2>2, <2>3, <2>4
  <1>9. ASSUME NEW x \in Asked' PROVE x \in Wanted'
    <2>1. CASE x = "request.json"
      <3>1. 1 \in DOMAIN payload'
        BY <1>1, <1>4
      <3> QED BY <1>4, <1>5, <1>7, <2>1, <3>1
    <2>2. CASE op = "resume" /\ x = "resume-checkpoint.pt"
      <3>1. n + 2 \in DOMAIN payload'
        BY <1>1, <1>4, <2>2
      <3> QED BY <1>4, <1>5, <1>7, <2>2, <3>1
    <2>3. CASE \E i \in DOMAIN tree : tree[i].skip = "no" /\ x = tree[i].name /\ x \notin lost
      <3>1. PICK i \in DOMAIN tree : tree[i].skip = "no" /\ x = tree[i].name /\ x \notin lost
        BY <2>3
      <3>2. tree[i].name \in held
        BY <3>1
      <3>3. W[i].name = x /\ W[i].skip = "no"
        BY <1>2, <3>1, <3>2
      <3>4. i + 1 \in DOMAIN payload' /\ payload'[i + 1] = W[i]
        BY <1>1, <1>4, <3>1
      <3> QED BY <1>5, <3>1, <3>3, <3>4
    <2> QED BY <1>6, <1>9, <2>1, <2>2, <2>3
  <1> QED BY <1>8, <1>9

\* A pull that raises, or a push whose extractor raises, keeps to the protocol.
LEMMA ProtocolRaise ==
    ASSUME Shape, Protocol, Raise, call = "busy" \/ reader.at \in {"open", "header", "data"},
           UNCHANGED <<op, lost, leg, payload, held, job>>
    PROVE  Protocol'
  <1>1. /\ sender'.at = sender.at /\ sender'.left = sender.left
        /\ reader'.at \in {"gone", "failed"}
        /\ Pull => call' = "error" /\ sender'.state = "exited"
        /\ ~Pull => UNCHANGED <<call, sender, ended>> /\ reader'.at = "failed"
    BY RaiseEffect
  <1>2. call # "new" /\ call # "ok"
    BY DEF Protocol, Fresh, Returned
  <1>3. UNCHANGED <<Pull, Launches>> /\ \A e : Excluded(e)' <=> Excluded(e)
    BY DEF Pull, Launches, Excluded
  <1>4. CASE Pull
    BY <1>1, <1>2, <1>3, <1>4 DEF Protocol, Fresh, Started, NothingLeft, Orderly, Pushing,
                             Answered, Returned
  <1>5. CASE ~Pull
    BY <1>1, <1>2, <1>3, <1>5 DEF Protocol, Fresh, Started, NothingLeft, Orderly, Pushing,
                             Answered, Returned
  <1> QED BY <1>4, <1>5

\* The steps of the writer keep to the protocol.
LEMMA ProtocolSending ==
    ASSUME Shape, Legs, Protocol, Sending \/ SenderExits
    PROVE  Legs' /\ Protocol'
  <1>0. {"walk", "exited", "ended"} \subseteq WriterStates /\ 1 \in Codes /\ 2 \in Codes
    BY DEF WriterStates, Codes
  <1>a. UNCHANGED <<op, tree, lost, leg, payload, held, job>>
    BY DEF Sending, SenderExits, Pack, SkipExcluded, Refuse, SendHeader, SendData, SendEnd,
           SenderBroken, Rest, source, extract, effects
  <1>b. UNCHANGED <<Pull, Launches>> /\ \A e : Excluded(e)' <=> Excluded(e)
    BY <1>a DEF Pull, Launches, Excluded
  <1>c. Legs'
    BY <1>a, LegsStay
  <1>1. CASE Pack
    <2>1. CASE Fail
      <3>1. /\ sender'.at = sender.at /\ sender'.left = sender.left
            /\ sender'.state = "exited" /\ reader'.at = "gone" /\ call' = "error"
        BY <2>1, FailEffect
      <3> QED BY <1>a, <1>b, <1>c, <3>1 DEF Protocol, Fresh, Started, NothingLeft, Orderly, Pushing,
                                Answered, Returned
    <2>2. CASE /\ \A i \in DOMAIN payload : Excluded(payload[i]) \/ Regular(payload[i])
               /\ sender' = [sender EXCEPT !.state = "walk"] /\ UNCHANGED <<call, ended, reader>>
      <3>1. /\ sender'.at = sender.at /\ sender'.left = sender.left
            /\ sender'.state = "walk" /\ sender'.code = sender.code
        BY <1>0, <2>2, WriterStops
      <3>2. sender.state = "pack" /\ UNCHANGED wire
        BY <1>1 DEF Pack
      <3> QED BY <1>a, <1>b, <1>c, <2>2, <3>1, <3>2
              DEF Protocol, Fresh, Started, NothingLeft, Orderly,
                                Pushing, Answered, Returned
    <2> QED BY <1>1, <2>1, <2>2 DEF Pack
  <1>2. CASE SkipExcluded \/ SendHeader \/ SendData \/ SendEnd
    <2>1. /\ sender.state = "walk" /\ sender'.state \in {"walk", "ended"}
          /\ sender'.code = sender.code
          /\ sender'.left > 0 => /\ sender'.at = sender.at /\ sender.at \in DOMAIN payload
                                 /\ ~Excluded(payload[sender.at])
      <3>1. CASE SkipExcluded
        <4>1. sender' = [sender EXCEPT !.at = sender.at + 1] /\ sender.left = 0 /\ Working
          BY <3>1 DEF SkipExcluded
        <4> QED BY <4>1 DEF Shape, Writers, Working
      <3>2. CASE SendHeader
        <4>1. /\ Working /\ ~Excluded(Entry)
          BY <3>2 DEF SendHeader
        <4>2. sender.at \in DOMAIN payload
          BY <4>1, EntryType
        <4> QED BY <3>2, <4>1, <4>2, HeaderEffect DEF Working, Entry
      <3>3. CASE SendData
        <4>1. Working /\ sender.left > 0 /\ sender.left \in Nat
          BY <3>3, Fields DEF SendData
        <4>2. sender.at \in DOMAIN payload /\ ~Excluded(payload[sender.at])
          BY <4>1 DEF Protocol, Orderly
        <4> QED BY <3>3, <4>1, <4>2, BlockEffect DEF Working
      <3>4. CASE SendEnd
        <4>1. sender' = [sender EXCEPT !.state = "ended"] /\ sender.state = "walk"
          BY <3>4 DEF SendEnd
        <4>2. /\ sender'.state = "ended" /\ sender'.code = sender.code /\ sender'.at = sender.at
              /\ sender'.left = sender.left
          BY <1>0, <4>1, WriterStops
        <4> QED BY <4>1, <4>2 DEF Protocol, Orderly
      <3> QED BY <1>2, <3>1, <3>2, <3>3, <3>4
    <2>2. UNCHANGED <<ended, reader, call>>
      BY <1>2 DEF SkipExcluded, SendHeader, SendData, SendEnd, Rest, extract, caller
    <2> QED BY <1>a, <1>b, <1>c, <2>1, <2>2 DEF Protocol, Fresh, Started, NothingLeft, Orderly,
                              Pushing, Answered, Returned
  <1>3. CASE Refuse
    <2>1. sender' = [sender EXCEPT !.state = "exited", !.code = 2] /\ Working
      BY <1>3 DEF Refuse
    <2>2. /\ sender'.at = sender.at /\ sender'.left = sender.left
          /\ sender'.state = "exited" /\ sender.state = "walk"
      <3>1. sender' = [sender EXCEPT !.state = "exited", !.code = 2] /\ sender.state = "walk"
        BY <2>1 DEF Working
      <3> QED BY <1>0, <3>1, WriterStops
    <2>3. UNCHANGED <<wire, reader, call>>
      BY <1>3 DEF Refuse, Rest, extract, caller
    <2>4. ~Pull => call # "busy"
      <3> SUFFICES ASSUME ~Pull, call = "busy" PROVE FALSE
        OBVIOUS
      <3>1. sender.at \in DOMAIN payload /\ Entry = payload[sender.at]
        BY <2>1, EntryType DEF Entry
      <3>2. Excluded(Entry) \/ Regular(Entry)
        BY <2>2, <3>1 DEF Protocol, Pushing
      <3>3. sender.left > 0 => ~Excluded(Entry)
        BY <3>1 DEF Protocol, Orderly
      <3>4. ~Excluded(Entry) /\ ~Allowed(Entry)
        BY <1>3, <3>2, <3>3 DEF Refuse
      <3> QED BY <3>2, <3>4 DEF Allowed, SenderAllows
    <2> QED BY <1>a, <1>b, <1>c, <2>2, <2>3, <2>4
            DEF Protocol, Fresh, Started, NothingLeft, Orderly,
                              Pushing, Answered, Returned
  <1>4. CASE SenderBroken
    <2>1. /\ sender' = [sender EXCEPT !.state = "exited", !.code = 1] /\ sender.state = "walk"
          /\ reader.at \in {"gone", "failed"} /\ UNCHANGED <<wire, reader, call>>
      BY <1>4 DEF SenderBroken, Rest, extract, caller
    <2>2. /\ sender'.at = sender.at /\ sender'.left = sender.left /\ sender'.state = "exited"
      <3>1. sender' = [sender EXCEPT !.state = "exited", !.code = 1]
        BY <2>1
      <3> QED BY <1>0, <3>1, WriterStops
    <2> QED BY <1>a, <1>b, <1>c, <2>1, <2>2 DEF Protocol, Fresh, Started, NothingLeft, Orderly,
                              Pushing, Answered, Returned
  <1>5. CASE SenderExits
    <2>1. /\ sender' = [sender EXCEPT !.state = "exited"] /\ sender.state = "ended"
          /\ UNCHANGED <<wire, reader, call>>
      BY <1>5 DEF SenderExits, Rest, extract, caller
    <2>2. /\ sender'.at = sender.at /\ sender'.left = sender.left /\ sender'.state = "exited"
          /\ sender'.code = sender.code
      BY <1>0, <2>1, WriterStops
    <2> QED BY <1>a, <1>b, <1>c, <2>1, <2>2 DEF Protocol, Fresh, Started, NothingLeft, Orderly,
                              Pushing, Answered, Returned
  <1> QED BY <1>c, <1>1, <1>2, <1>3, <1>4, <1>5 DEF Sending

\* The steps of the extractor keep to the protocol.
LEMMA ProtocolReading ==
    ASSUME Shape, Named, Legs, Protocol, Reading
    PROVE  Legs' /\ Protocol'
  <1>0. /\ "header" \in ExtractorStates /\ "modes" \in ExtractorStates
        /\ "done" \in ExtractorStates
    BY DEF ExtractorStates
  <1>a. UNCHANGED <<op, tree, lost, leg, payload, dest, job>>
    BY DEF Reading, ReadDirectory, ReadHeader, ReadBlock, ReadEnd, ReadCutShort, ApplyModes,
           Outside, source, effects
  <1>b. UNCHANGED <<Pull, Launches>> /\ \A e : Excluded(e)' <=> Excluded(e)
    BY <1>a DEF Pull, Launches, Excluded
  <1>c. Legs'
    BY <1>a, LegsStay
  <1>1. reader.at \in {"open", "header", "data", "modes"}
    BY DEF Reading, ReadDirectory, ReadHeader, ReadBlock, ReadEnd, ReadCutShort, ApplyModes
  <1>2. CASE /\ UNCHANGED <<call, sender>>
             /\ reader'.at \in {"header", "data", "modes", "done"}
    BY <1>a, <1>b, <1>c, <1>1, <1>2 DEF Protocol, Fresh, Started, NothingLeft, Orderly, Pushing,
                             Answered, Returned
  <1>3. CASE Raise /\ UNCHANGED held /\ reader.at \in {"open", "header", "data"}
    BY <1>a, <1>c, <1>3, ProtocolRaise
  <1>4. CASE ReadDirectory
    BY <1>0, <1>2, <1>4, ExtractorMoves DEF ReadDirectory
  <1>5. CASE ReadHeader
    <2>1. CASE Accepts(Member)
      BY <1>2, <1>5, <2>1, ReadHeaderEffect DEF ReadHeader
    <2>2. CASE ~Accepts(Member)
      BY <1>3, <1>5, <2>2 DEF ReadHeader
    <2> QED BY <2>1, <2>2
  <1>6. CASE ReadBlock
    BY <1>2, <1>6, ReadBlockEffect DEF ReadBlock
  <1>7. CASE ReadEnd
    BY <1>0, <1>2, <1>7, ExtractorMoves DEF ReadEnd
  <1>8. CASE ReadCutShort
    BY <1>3, <1>8 DEF ReadCutShort
  <1>9. CASE ApplyModes
    BY <1>0, <1>2, <1>9, ExtractorMoves DEF ApplyModes
  <1> QED BY <1>c, <1>4, <1>5, <1>6, <1>7, <1>8, <1>9 DEF Reading

-----------------------------------------------------------------------------
(* The chain of positions.                                                 *)

Titles == [i \in DOMAIN payload |-> payload[i].name]

\* What an item on the wire does to the place that a reader has reached: the
\* number of the next entry and the blocks of the current file still to come.
Passes(carried, titles, w, a1, l1, a2, l2) ==
    \/ /\ w.item = "member" /\ l1 = 0
       /\ \E k \in carried :
             /\ a1 <= k /\ \A i \in carried : i < k => i < a1
             /\ w.of.name = titles[k]
             /\ IF w.of.kind = "dir" \/ w.of.size = 0 THEN a2 = k + 1 /\ l2 = 0
                ELSE a2 = k /\ l2 = w.of.size
    \/ /\ w.item = "block" /\ l1 > 0 /\ a1 \in carried /\ w.of.name = titles[a1]
       /\ IF l1 = 1 THEN a2 = a1 + 1 /\ l2 = 0 ELSE a2 = a1 /\ l2 = l1 - 1
    \/ /\ w.item = "end" /\ l1 = 0 /\ a2 = a1 /\ l2 = 0
       /\ \A i \in carried : i < a1

\* The names before a place.
Before(carried, titles, n) == {titles[i] : i \in {k \in carried : k < n}}

\* Where the extractor is.
Arrives(a, l) ==
    /\ held = Before(Carried, Titles, a)
    /\ reader.at \in {"open", "header"} => l = 0
    /\ reader.at = "data" => /\ l = reader.left /\ l > 0
                             /\ a \in Carried /\ reader.entry = Titles[a]

\* Where the writer is: it may have passed over names that are left out.
Departs(a, l) ==
    /\ sender.state \in {"pack", "walk"} =>
          /\ l = sender.left /\ a <= sender.at /\ (l > 0 => a = sender.at)
          /\ \A i \in Carried : i < sender.at => i < a
    /\ sender.state \in {"ended", "exited"} =>
          l = 0 /\ \A i \in Carried : i < a

\* From the extractor over every item on the wire to the writer.
Chain(a, l) ==
    /\ \A j \in 1 .. Len(wire) : Passes(Carried, Titles, wire[j], a[j], l[j], a[j + 1], l[j + 1])
    /\ Arrives(a[1], l[1])
    /\ Departs(a[Len(wire) + 1], l[Len(wire) + 1])

Linked == \E a \in [Nat -> Nat], l \in [Nat -> Nat] : Chain(a, l)

Sealed == sender.state \in {"ended", "exited"}

Streaming ==
    /\ reader.at \in {"open", "header", "data"} => Linked
    /\ reader.at \in {"modes", "done", "answered"} => held = Wanted /\ Sealed
    /\ (\E j \in DOMAIN wire : wire[j].item = "end") => Sealed
    /\ ended => sender.state = "exited"

\* The stream of a call in progress whose writer has not failed.
Flow == call = "busy" /\ sender.code = 0 => Streaming

\* What a pull wants is what the tree has, unless it is left out.
LEMMA PullWanted ==
    ASSUME Shape, Legs, Pull
    PROVE  /\ Launches => Wanted = {tree[i].name : i \in {k \in DOMAIN tree :
                                                 tree[k].skip # "excluded"}} \ lost
           /\ ~Launches => Wanted = Asked
           /\ op \in {"file", "fetch"} => Wanted = Names(tree) /\ Asked = Names(tree)
  <1>1. \A i \in DOMAIN tree :
            /\ payload[i].name = tree[i].name
            /\ Excluded(payload[i]) <=>
                  tree[i].name \in lost \/ (Launches /\ tree[i].skip = "excluded")
    BY DEF Legs, Excluded
  <1>2. DOMAIN payload = DOMAIN tree
    BY DEF Legs
  <1>3. Wanted = {tree[i].name : i \in {k \in DOMAIN tree :
                      ~(tree[k].name \in lost \/ (Launches /\ tree[k].skip = "excluded"))}}
    BY <1>1, <1>2 DEF Wanted, Carried
  <1>4. ~Launches => Asked = Names(tree) \ lost
    BY DEF Asked, Kept, Names, Launches
  <1>5. op \in {"file", "fetch"} => ~Launches /\ lost = {}
    BY DEF Shape, Launches
  <1> QED BY <1>3, <1>4, <1>5 DEF Names

\* The steps of the caller keep to the protocol.
LEMMA ProtocolCalling ==
    ASSUME Shape, Legs, Protocol, Flow, Calling \/ Finish \/ FetchAgain
    PROVE  Legs' /\ Protocol'
  <1>0. /\ "gone" \in ExtractorStates /\ "answered" \in ExtractorStates
        /\ "failed" \in ExtractorStates
        /\ {"walk", "pack", "absent"} \subseteq WriterStates
    BY DEF ExtractorStates, WriterStates
  <1>u. ASSUME UNCHANGED <<op, lost, leg>>
        PROVE  UNCHANGED <<Pull, Launches>> /\ \A e : Excluded(e)' <=> Excluded(e)
    BY <1>u DEF Pull, Launches, Excluded
  <1>1. CASE Begin
    <2>0. /\ UNCHANGED <<op, tree, lost, leg, payload, wire, ended, held, locked, dest, job, tries,
                         fault>>
          /\ call = "new"
      BY <1>1 DEF Begin, source, effects
    <2>1. Legs' /\ UNCHANGED <<Pull, Launches>> /\ \A e : Excluded(e)' <=> Excluded(e)
      BY <1>u, <2>0, LegsStay
    <2>2. CASE op = "fetch" /\ call' = "ok" /\ UNCHANGED <<sender, reader>>
      BY <2>0, <2>1, <2>2 DEF Protocol, Fresh, Started, NothingLeft, Orderly, Pushing, Answered,
                              Returned, Legs
    <2>3. CASE /\ call' = "busy" /\ reader' = Extractor("open")
               /\ sender' = Writer(IF Pull THEN "walk" ELSE "pack")
      <3>1. /\ reader'.at = "open" /\ sender'.code = 0 /\ sender'.left = 0
            /\ sender'.state = IF Pull THEN "walk" ELSE "pack"
        BY <1>0, <2>3, NewProcesses
      <3> QED BY <2>0, <2>1, <2>3, <3>1
              DEF Protocol, Fresh, Started, NothingLeft, Orderly, Pushing, Answered, Returned
    <2> QED BY <1>1, <2>2, <2>3 DEF Begin
  <1>2. CASE Publish
    <2>0. /\ UNCHANGED <<op, tree, lost, leg, payload, sender, wire, ended, held, job>>
          /\ reader' = [reader EXCEPT !.at = "gone"] /\ call' \in {"ok", "error"} /\ Ready
      BY <1>2 DEF Publish, source, stream
    <2>1. Legs' /\ UNCHANGED <<Pull, Launches>> /\ \A e : Excluded(e)' <=> Excluded(e)
      BY <1>u, <2>0, LegsStay
    <2>2. reader'.at = "gone"
      BY <1>0, <2>0, ExtractorMoves
    <2> QED BY <2>0, <2>1, <2>2 DEF Protocol, Fresh, Started, NothingLeft, Orderly, Pushing,
                              Answered, Returned, Ready
  <1>3. CASE SendSnapshot
    <2>0. UNCHANGED <<op, tree, lost, dest, job>> /\ Ready /\ Launches
      BY <1>3 DEF SendSnapshot, source, effects
    <2>1. CASE /\ leg' = "push" /\ payload' = Snapshot /\ Succeeds
               /\ sender' = Writer("pack") /\ reader' = Extractor("open")
               /\ wire' = <<>> /\ ended' = FALSE /\ held' = {} /\ locked' = {}
               /\ UNCHANGED call
      <3>1. tree \in Seq(Entries)
        BY TransferAssumption DEF Listed, Shape
      <3>2. held = Wanted
        BY <2>0, <2>1 DEF Flow, Streaming, Ready, Succeeds
      <3>3. held = {tree[i].name : i \in {k \in DOMAIN tree : tree[k].skip # "excluded"}} \ lost
        BY <2>0, <3>2, PullWanted DEF Ready
      <3>a. Listed(tree) /\ lost \subseteq Names(tree)
        BY TransferAssumption DEF Shape
      <3>4. Wanted' = Asked'
        BY <2>0, <2>1, <3>1, <3>3, <3>a, SnapshotWanted
      <3>5. Legs'
        BY <2>0, <2>1, <3>4 DEF Legs, Pull, Launches
      <3>6. /\ reader'.at = "open" /\ sender'.code = 0 /\ sender'.left = 0
            /\ sender'.state = "pack"
        BY <1>0, <2>1, NewProcesses
      <3>7. Protocol'
        BY <2>0, <2>1, <3>6 DEF Protocol, Fresh, Started, NothingLeft, Orderly, Pushing, Answered,
                                Returned, Ready
      <3> QED BY <3>5, <3>7
    <2>2. CASE /\ call' = "error" /\ reader' = [reader EXCEPT !.at = "gone"]
               /\ UNCHANGED <<leg, payload, stream, held, locked>>
      <3>1. Legs' /\ UNCHANGED <<Pull, Launches>> /\ \A e : Excluded(e)' <=> Excluded(e)
        BY <1>u, <2>0, <2>2, LegsStay
      <3>2. reader'.at = "gone" /\ UNCHANGED <<sender, wire, ended>>
        BY <1>0, <2>2, ExtractorMoves DEF stream
      <3> QED BY <2>0, <2>2, <3>1, <3>2 DEF Protocol, Fresh, Started, NothingLeft, Orderly, Pushing,
                              Answered, Returned, Ready
    <2> QED BY <1>3, <2>1, <2>2 DEF SendSnapshot
  <1>4. CASE WaitExpires
    <2>0. /\ UNCHANGED <<op, tree, lost, leg, payload, held, job>> /\ Pull /\ Fail /\ call = "busy"
      BY <1>4 DEF WaitExpires, source, effects
    <2>1. Legs'
      BY <2>0, LegsStay
    <2> QED BY <2>0, <2>1, ProtocolRaise DEF Raise
  <1>5. CASE Finish
    <2>0. /\ UNCHANGED <<op, tree, lost, leg, payload, sender, wire, ended, held, call>>
          /\ ~Pull /\ reader.at = "done"
      BY <1>5 DEF Finish, source, stream, caller
    <2>1. Legs' /\ UNCHANGED <<Pull, Launches>> /\ \A e : Excluded(e)' <=> Excluded(e)
      BY <1>u, <2>0, LegsStay
    <2>2. /\ reader'.at \in {"answered", "failed"}
          /\ reader'.at = "answered" /\ Launches => job' = {held}
      BY <1>0, <1>5, ExtractorMoves DEF Finish
    <2> QED BY <2>0, <2>1, <2>2 DEF Protocol, Fresh, Started, NothingLeft, Orderly, Pushing,
                              Answered, Returned
  <1>6. CASE Reply
    <2>0. /\ UNCHANGED <<op, tree, lost, leg, payload, sender, wire, ended, reader, held, job>>
          /\ ~Pull /\ (reader.at = "answered" \/ call' = "error") /\ call' \in {"ok", "error"}
      BY <1>6 DEF Reply, source, stream, extract, effects
    <2>1. Legs' /\ UNCHANGED <<Pull, Launches>> /\ \A e : Excluded(e)' <=> Excluded(e)
      BY <1>u, <2>0, LegsStay
    <2> QED BY <2>0, <2>1 DEF Protocol, Fresh, Started, NothingLeft, Orderly, Pushing,
                              Answered, Returned
  <1>7. CASE FetchAgain
    <2>0. /\ UNCHANGED <<op, tree, lost, leg, payload, job>> /\ call' = "new"
          /\ sender' = Writer("absent") /\ reader' = Extractor("absent")
          /\ wire' = <<>> /\ ended' = FALSE /\ held' = {}
      BY <1>7 DEF FetchAgain, source, effects
    <2>1. Legs'
      BY <2>0, LegsStay
    <2>2. /\ reader'.at = "absent" /\ sender'.code = 0 /\ sender'.left = 0
          /\ sender'.state = "absent"
      BY <1>0, <2>0, NewProcesses
    <2> QED BY <2>0, <2>1, <2>2 DEF Protocol, Fresh, Started, NothingLeft, Orderly, Pushing,
                              Answered, Returned
  <1> QED BY <1>1, <1>2, <1>3, <1>4, <1>5, <1>6, <1>7 DEF Calling

\* What vanishes is not sent yet.
LEMMA VanishEffect ==
    ASSUME Shape, Legs, Vanish
    PROVE  /\ Carried' \subseteq Carried /\ Titles' = Titles
           /\ \A i \in Carried : payload[i].name \in Behind => i \in Carried'
           /\ sender.left > 0 => (sender.at \in Carried => sender.at \in Carried')
  <1>1. /\ UNCHANGED <<op, tree, leg, payload, sender>> /\ lost = {} /\ Pull
      BY DEF Vanish, Shape, stream
  <1>2. PICK removed \in SUBSET Unlisted : lost' = {payload[i].name : i \in removed}
    BY DEF Vanish
  <1>3. \A i, k \in DOMAIN payload : payload[i].name = payload[k].name => i = k
    BY <1>1, TransferAssumption DEF Shape, Listed, Legs
  <1>4. \A i \in Unlisted : /\ i \in DOMAIN payload
                            /\ i > sender.at \/ (i = sender.at /\ sender.left = 0)
    BY DEF Unlisted
  <1>5. DOMAIN payload \subseteq Nat /\ sender.at \in Nat /\ sender.left \in Nat
    <2>1. payload \in Seq(Entries)
      BY DEF Shape
    <2>2. DOMAIN payload \subseteq Nat
      BY <2>1
    <2> QED BY <2>2, Fields
  <1>6. ASSUME NEW i \in Carried, i < sender.at \/ (i = sender.at /\ sender.left > 0)
        PROVE  i \in Carried'
    <2>1. i \in DOMAIN payload /\ ~Excluded(payload[i])
      BY <1>6 DEF Carried
    <2>2. i \notin removed
      BY <1>4, <1>5, <1>6, <2>1
    <2>3. payload[i].name \notin lost'
      BY <1>2, <1>3, <1>4, <2>1, <2>2
    <2> QED BY <1>1, <2>1, <2>3 DEF Carried, Excluded, Launches, Pull
  <1>7. ASSUME NEW i \in Carried, payload[i].name \in Behind PROVE i \in Carried'
    <2>1. PICK k \in DOMAIN payload : /\ payload[k].name = payload[i].name
                                      /\ k < sender.at \/ (k = sender.at /\ sender.left > 0)
      BY <1>7 DEF Behind
    <2>2. k = i
      BY <1>3, <2>1 DEF Carried
    <2> QED BY <1>6, <2>1, <2>2
  <1>8. Carried' \subseteq Carried
    BY <1>1 DEF Carried, Excluded, Launches, Pull
  <1>9. Titles' = Titles
    BY <1>1 DEF Titles
  <1> QED BY <1>6, <1>7, <1>8, <1>9

\* Nothing that goes wrong breaks the protocol.
LEMMA ProtocolFaults ==
    ASSUME Shape, Legs, Protocol, Cut \/ PushExpires \/ Kill \/ Touch \/ Vanish
    PROVE  Legs' /\ Protocol'
  <1>0. "exited" \in WriterStates /\ 255 \in Codes /\ "gone" \in ExtractorStates
    BY DEF WriterStates, Codes, ExtractorStates
  <1>u. ASSUME UNCHANGED <<op, lost, leg>>
        PROVE  UNCHANGED <<Pull, Launches>> /\ \A e : Excluded(e)' <=> Excluded(e)
    BY <1>u DEF Pull, Launches, Excluded
  <1>1. CASE Cut \/ PushExpires
    <2>0. /\ UNCHANGED <<op, tree, lost, leg, payload, reader, held, job>> /\ call = "busy"
          /\ call' = IF Pull THEN call ELSE "error"
      BY <1>1 DEF Cut, PushExpires, Disconnect, source, extract, effects
    <2>1. Legs' /\ UNCHANGED <<Pull, Launches>> /\ \A e : Excluded(e)' <=> Excluded(e)
      BY <1>u, <2>0, LegsStay
    <2>2. PICK c \in Codes : c = 255
      BY <1>0
    <2>3. sender' = [sender EXCEPT !.state = "exited", !.code = c]
      BY <1>1, <2>2 DEF Cut, PushExpires, Disconnect
    <2>4. sender'.state = "exited" /\ sender'.at = sender.at /\ sender'.left = sender.left
      BY <1>0, <2>3, WriterStops
    <2> QED BY <2>0, <2>1, <2>4 DEF Protocol, Fresh, Started, NothingLeft, Orderly, Pushing,
                              Answered, Returned
  <1>2. CASE Kill
    <2>0. /\ UNCHANGED <<op, tree, lost, leg, payload, sender, wire, ended, held, job>>
          /\ call' = "killed" /\ (reader' = reader \/ reader' = [reader EXCEPT !.at = "gone"])
      BY <1>2 DEF Kill, source, stream, effects
    <2>1. Legs' /\ UNCHANGED <<Pull, Launches>> /\ \A e : Excluded(e)' <=> Excluded(e)
      BY <1>u, <2>0, LegsStay
    <2>2. reader'.at \in {reader.at, "gone"}
      BY <1>0, <2>0, ExtractorMoves
    <2> QED BY <2>0, <2>1, <2>2 DEF Protocol, Fresh, Started, NothingLeft, Orderly, Pushing,
                              Answered, Returned
  <1>3. CASE Touch
    <2>0. /\ UNCHANGED <<op, tree, lost, leg, sender, wire, ended, reader, held, job, call>>
          /\ Pull
      BY <1>3 DEF Touch, source, stream, extract, effects, caller
    <2>1. UNCHANGED <<Pull, Launches>> /\ \A e : Excluded(e)' <=> Excluded(e)
      BY <1>u, <2>0
    <2>2. /\ DOMAIN payload' = DOMAIN payload
          /\ \A i \in DOMAIN payload :
                payload'[i].name = payload[i].name /\ payload'[i].skip = payload[i].skip
      BY <1>3, TouchedPayload
    <2>3. Legs'
      BY <2>0, <2>1, <2>2 DEF Legs, Wanted, Carried, Asked, Launches
    <2>4. Orderly'
      BY <2>0, <2>2 DEF Protocol, Orderly, Excluded, Launches, Pull
    <2> QED BY <2>0, <2>1, <2>3, <2>4 DEF Protocol, Fresh, Started, NothingLeft, Pushing,
                              Answered, Returned
  <1>4. CASE Vanish
    <2>0. /\ UNCHANGED <<op, tree, leg, payload, sender, wire, ended, reader, held, job, call>>
          /\ Pull
      BY <1>4 DEF Vanish, stream, extract, effects, caller
    <2>1. UNCHANGED <<Pull, Launches>>
      BY <2>0 DEF Pull, Launches
    <2>2. Legs'
      BY <2>0, <2>1 DEF Legs
    <2>3. Orderly'
      BY <2>0, <2>1, <1>4, VanishEffect DEF Protocol, Orderly, Carried
    <2> QED BY <2>0, <2>1, <2>2, <2>3 DEF Protocol, Fresh, Started, NothingLeft, Pushing,
                              Answered, Returned
  <1> QED BY <1>1, <1>2, <1>3, <1>4

\* The chain speaks of names and of what is left out only.
LEMMA CarriedStay ==
    ASSUME UNCHANGED <<op, lost, leg>>, DOMAIN payload' = DOMAIN payload,
           \A i \in DOMAIN payload :
              payload'[i].name = payload[i].name /\ payload'[i].skip = payload[i].skip
    PROVE  Carried' = Carried /\ Titles' = Titles /\ Wanted' = Wanted
  <1>1. Carried' = Carried
    BY DEF Carried, Excluded, Launches, Pull
  <1> QED BY <1>1 DEF Titles, Wanted, Carried

\* What is carried, by name.
LEMMA CarriedTypes ==
    ASSUME Shape
    PROVE  /\ Carried \subseteq 1 .. Len(payload) /\ Carried \subseteq Nat /\ Len(payload) \in Nat
           /\ \A i \in Carried : /\ Titles[i] = payload[i].name /\ i >= 1
                                 /\ ~Excluded(payload[i]) /\ i \in DOMAIN payload
           /\ \A n : (\A i \in Carried : i < n) => Before(Carried, Titles, n) = Wanted
           /\ Before(Carried, Titles, 0) = {} /\ Before(Carried, Titles, 1) = {}
  <1>1. /\ Carried \subseteq 1 .. Len(payload) /\ Len(payload) \in Nat
        /\ \A i \in Carried : i \in DOMAIN payload /\ ~Excluded(payload[i])
    BY DEF Carried, Shape
  <1>2. \A i \in Carried : Titles[i] = payload[i].name
    BY <1>1 DEF Titles
  <1>3. \A n : (\A i \in Carried : i < n) => Before(Carried, Titles, n) = Wanted
    BY <1>2 DEF Before, Wanted
  <1>4. Before(Carried, Titles, 0) = {} /\ Before(Carried, Titles, 1) = {}
    BY <1>1 DEF Before
  <1> QED BY <1>1, <1>2, <1>3, <1>4

\* The names before the entry after k, when k is the next one carried.
LEMMA BeforeNext ==
    ASSUME Shape, NEW n \in Nat, NEW k \in Carried, n <= k, \A i \in Carried : i < k => i < n
    PROVE  /\ Before(Carried, Titles, k) = Before(Carried, Titles, n)
           /\ Before(Carried, Titles, k + 1) = Before(Carried, Titles, n) \cup {Titles[k]}
  <1>1. \A i \in Carried : i \in Nat
    BY CarriedTypes
  <1>2. {i \in Carried : i < k} = {i \in Carried : i < n}
    BY <1>1
  <1>3. {i \in Carried : i < k + 1} = {i \in Carried : i < n} \cup {k}
    BY <1>1
  <1> QED BY <1>2, <1>3 DEF Before

\* An item more.
LEMMA ChainGrows ==
    ASSUME NEW a \in [Nat -> Nat], NEW l \in [Nat -> Nat], Chain(a, l),
           NEW w \in Items, wire \in Seq(Items), wire' = Append(wire, w),
           UNCHANGED <<Carried, Titles, held, reader>>,
           NEW n \in Nat, NEW m \in Nat,
           Passes(Carried, Titles, w, a[Len(wire) + 1], l[Len(wire) + 1], n, m), Departs(n, m)'
    PROVE  Linked'
  <1>z. PICK z \in Nat : z = Len(wire)
    OBVIOUS
  <1>1. /\ Len(wire') = z + 1 /\ wire'[z + 1] = w
        /\ \A j \in 1 .. z : wire'[j] = wire[j]
    BY <1>z, ItemSent
  <1>2. /\ Passes(Carried, Titles, w, a[z + 1], l[z + 1], n, m) /\ Arrives(a[1], l[1])
        /\ \A j \in 1 .. z : Passes(Carried, Titles, wire[j], a[j], l[j], a[j + 1], l[j + 1])
    BY <1>z DEF Chain
  <1>3. PICK aa \in [Nat -> Nat], ll \in [Nat -> Nat] :
            /\ \A j \in 1 .. z + 1 : aa[j] = a[j] /\ ll[j] = l[j]
            /\ aa[z + 2] = n /\ ll[z + 2] = m
    <2> DEFINE x == [j \in Nat |-> IF j = z + 2 THEN n ELSE a[j]]
               y == [j \in Nat |-> IF j = z + 2 THEN m ELSE l[j]]
    <2>1. x \in [Nat -> Nat] /\ y \in [Nat -> Nat]
      OBVIOUS
    <2>2. \A j \in 1 .. z + 1 : j \in Nat /\ j # z + 2
      OBVIOUS
    <2>3. \A j \in 1 .. z + 1 : x[j] = a[j] /\ y[j] = l[j]
      BY <2>2
    <2>4. z + 2 \in Nat
      OBVIOUS
    <2>5. x[z + 2] = n /\ y[z + 2] = m
      BY <2>4
    <2> HIDE DEF x, y
    <2> QED BY <2>1, <2>3, <2>5
  <1>4. ASSUME NEW j \in 1 .. z + 1
        PROVE  Passes(Carried', Titles', wire'[j], aa[j], ll[j], aa[j + 1], ll[j + 1])
    <2>1. CASE j = z + 1
      <3>1. j + 1 = z + 2 /\ z + 1 \in 1 .. z + 1
        BY <1>1, <2>1
      <3> QED BY <1>1, <1>2, <1>3, <2>1, <3>1
    <2>2. CASE j \in 1 .. z
      <3>1. j \in 1 .. z + 1 /\ j + 1 \in 1 .. z + 1
        BY <2>2
      <3>2. /\ wire'[j] = wire[j] /\ aa[j] = a[j] /\ ll[j] = l[j]
            /\ aa[j + 1] = a[j + 1] /\ ll[j + 1] = l[j + 1]
        BY <1>1, <1>3, <2>2, <3>1
      <3> QED BY <1>2, <2>2, <3>2
    <2>3. j = z + 1 \/ j \in 1 .. z
      OBVIOUS
    <2> QED BY <2>1, <2>2, <2>3
  <1>5. Arrives(aa[1], ll[1])'
    <2>1. 1 \in 1 .. z + 1
      OBVIOUS
    <2>2. aa[1] = a[1] /\ ll[1] = l[1]
      BY <1>3, <2>1
    <2> QED BY <1>2, <2>2 DEF Arrives
  <1>6. Departs(aa[z + 2], ll[z + 2])'
    BY <1>3 DEF Departs
  <1>7. Chain(aa, ll)'
    <2>1. Len(wire') + 1 = z + 2
      BY <1>1
    <2> QED BY <1>1, <1>4, <1>5, <1>6, <2>1 DEF Chain, Departs
  <1> QED BY <1>7 DEF Linked

\* An item less.
LEMMA ChainShrinks ==
    ASSUME NEW a \in [Nat -> Nat], NEW l \in [Nat -> Nat], Chain(a, l),
           wire \in Seq(Items), wire # <<>>, wire' = Tail(wire),
           UNCHANGED <<Carried, Titles, sender>>,
           Arrives(a[2], l[2])'
    PROVE  Linked'
  <1>z. PICK z \in Nat : z = Len(wire)
    OBVIOUS
  <1>1. /\ Len(wire') = z - 1 /\ z > 0
        /\ \A j \in 1 .. z - 1 : wire'[j] = wire[j + 1]
    BY <1>z, ItemTaken
  <1>2. /\ Departs(a[z + 1], l[z + 1])
        /\ \A j \in 1 .. z : Passes(Carried, Titles, wire[j], a[j], l[j], a[j + 1], l[j + 1])
    BY <1>z DEF Chain
  <1>3. PICK aa \in [Nat -> Nat], ll \in [Nat -> Nat] :
            \A j \in Nat : aa[j] = a[j + 1] /\ ll[j] = l[j + 1]
    <2> DEFINE x == [j \in Nat |-> a[j + 1]]
               y == [j \in Nat |-> l[j + 1]]
    <2>1. \A j \in Nat : j + 1 \in Nat
      OBVIOUS
    <2>2. x \in [Nat -> Nat] /\ y \in [Nat -> Nat]
      BY <2>1
    <2>3. \A j \in Nat : x[j] = a[j + 1] /\ y[j] = l[j + 1]
      OBVIOUS
    <2> HIDE DEF x, y
    <2> QED BY <2>2, <2>3
  <1>4. ASSUME NEW j \in 1 .. z - 1
        PROVE  Passes(Carried', Titles', wire'[j], aa[j], ll[j], aa[j + 1], ll[j + 1])
    <2>1. j + 1 \in 1 .. z /\ j \in Nat /\ j + 1 \in Nat
      BY <1>1
    <2>2. wire'[j] = wire[j + 1] /\ aa[j] = a[j + 1] /\ aa[j + 1] = a[j + 1 + 1]
          /\ ll[j] = l[j + 1] /\ ll[j + 1] = l[j + 1 + 1]
      BY <1>1, <1>3, <2>1
    <2> QED BY <1>2, <2>1, <2>2
  <1>5. Arrives(aa[1], ll[1])'
    <2>1. aa[1] = a[2] /\ ll[1] = l[2]
      BY <1>3
    <2> QED BY <2>1 DEF Arrives
  <1>6. Departs(aa[z], ll[z])'
    <2>1. aa[z] = a[z + 1] /\ ll[z] = l[z + 1]
      BY <1>1, <1>3
    <2> QED BY <1>2, <2>1 DEF Departs
  <1>7. Chain(aa, ll)'
    <2>1. Len(wire') + 1 = z
      BY <1>1
    <2> QED BY <1>1, <1>4, <1>5, <1>6, <2>1 DEF Chain, Departs
  <1> QED BY <1>7 DEF Linked

\* The same items.
LEMMA ChainStays ==
    ASSUME NEW a \in [Nat -> Nat], NEW l \in [Nat -> Nat], Chain(a, l),
           UNCHANGED <<Carried, Titles, wire>>,
           NEW z \in Nat, z = Len(wire) + 1,
           Arrives(a[1], l[1])', Departs(a[z], l[z])'
    PROVE  Linked'
  <1>1. Chain(a, l)'
    BY DEF Chain, Departs
  <1> QED BY <1>1 DEF Linked

\* Nothing is on the wire and nothing has arrived.
LEMMA ChainStarts ==
    ASSUME sender'.state \in {"pack", "walk"}, sender'.at = 1, sender'.left = 0,
           reader'.at = "open", held' = {}, wire' = <<>>, \A i \in Carried' : i \in Nat \ {0}
    PROVE  Linked'
  <1>1. PICK a \in [Nat -> Nat], l \in [Nat -> Nat] : a[1] = 1 /\ l[1] = 0
    <2> DEFINE x == [j \in Nat |-> 1]
               y == [j \in Nat |-> 0]
    <2>1. x \in [Nat -> Nat] /\ y \in [Nat -> Nat] /\ x[1] = 1 /\ y[1] = 0
      OBVIOUS
    <2> HIDE DEF x, y
    <2> QED BY <2>1
  <1>2. Len(wire') = 0
    OBVIOUS
  <1>3. Arrives(a[1], l[1])'
    <2>1. \A i \in Carried' : ~(i < 1)
      OBVIOUS
    <2> QED BY <1>1, <2>1 DEF Arrives, Before
  <1>4. Departs(a[1], l[1])'
    <2>1. sender'.state \notin {"ended", "exited"}
      OBVIOUS
    <2>2. /\ l[1] = sender'.left /\ a[1] = sender'.at /\ a[1] <= sender'.at
          /\ \A i \in Carried' : i < sender'.at => i < a[1]
      BY <1>1
    <2> QED BY <2>1, <2>2 DEF Departs
  <1>5. Chain(a, l)'
    BY <1>2, <1>3, <1>4 DEF Chain
  <1> QED BY <1>5 DEF Linked

-----------------------------------------------------------------------------
(* Every step keeps the chain.                                             *)

\* The writer moves and sends nothing.
LEMMA WriterMoves ==
    ASSUME Shape, Streaming, UNCHANGED <<Carried, Titles, Wanted, wire, held, reader>>,
           \A n, m \in Nat : Departs(n, m) => Departs(n, m)',
           Sealed => Sealed', ended' => sender'.state = "exited"
    PROVE  Streaming'
  <1>1. Linked => Linked'
    <2> SUFFICES ASSUME Linked PROVE Linked'
      OBVIOUS
    <2>1. PICK a \in [Nat -> Nat], l \in [Nat -> Nat] : Chain(a, l)
      BY DEF Linked
    <2>2. Arrives(a[1], l[1])'
      BY <2>1 DEF Chain, Arrives
    <2>3. PICK z \in Nat : z = Len(wire) + 1
      BY DEF Shape
    <2>4. Departs(a[z], l[z])
      BY <2>1, <2>3 DEF Chain
    <2>5. a[z] \in Nat /\ l[z] \in Nat
      BY <2>3
    <2>6. Departs(a[z], l[z])'
      BY <2>4, <2>5
    <2> QED BY <2>1, <2>2, <2>3, <2>6, ChainStays
  <1> QED BY <1>1 DEF Streaming, Sealed

\* What a step of the writer that sends an item does.
LEMMA WriterSends ==
    ASSUME Shape, Streaming, sender.state = "walk",
           UNCHANGED <<Carried, Titles, Wanted, held, reader>>,
           NEW w \in Items, wire' = Append(wire, w),
           NEW n \in Nat, NEW m \in Nat, Departs(n, m)',
           \A i, j \in Nat : Departs(i, j) => Passes(Carried, Titles, w, i, j, n, m),
           w.item = "end" => Sealed', ended' => sender'.state = "exited"
    PROVE  Streaming'
  <1>1. wire \in Seq(Items) /\ ~Sealed
    BY DEF Shape, Sealed
  <1>2. /\ reader.at \notin {"modes", "done", "answered"}
        /\ \A j \in DOMAIN wire : wire[j].item # "end"
    BY <1>1 DEF Streaming
  <1>3. Linked => Linked'
    <2> SUFFICES ASSUME Linked PROVE Linked'
      OBVIOUS
    <2>1. PICK a \in [Nat -> Nat], l \in [Nat -> Nat] : Chain(a, l)
      BY DEF Linked
    <2>2. Departs(a[Len(wire) + 1], l[Len(wire) + 1])
      BY <2>1 DEF Chain
    <2>3. a[Len(wire) + 1] \in Nat /\ l[Len(wire) + 1] \in Nat
      BY <1>1
    <2>4. Passes(Carried, Titles, w, a[Len(wire) + 1], l[Len(wire) + 1], n, m)
      BY <2>2, <2>3
    <2> QED BY <1>1, <2>1, <2>4, ChainGrows
  <1>4. (\E j \in DOMAIN wire' : wire'[j].item = "end") => w.item = "end"
    <2> SUFFICES ASSUME NEW j \in DOMAIN wire', wire'[j].item = "end" PROVE w.item = "end"
      OBVIOUS
    <2>1. /\ DOMAIN wire' = 1 .. Len(wire') /\ Len(wire') = Len(wire) + 1
          /\ wire'[Len(wire) + 1] = w /\ \A i \in 1 .. Len(wire) : wire'[i] = wire[i]
      BY <1>1, ItemSent
    <2>2. j \in 1 .. Len(wire) + 1 /\ Len(wire) \in Nat /\ DOMAIN wire = 1 .. Len(wire)
      BY <1>1, <2>1
    <2>3. j = Len(wire) + 1 \/ j \in 1 .. Len(wire)
      BY <2>2
    <2> QED BY <1>2, <2>1, <2>2, <2>3
  <1> QED BY <1>2, <1>3, <1>4 DEF Streaming

\* The steps of the writer keep the chain.
LEMMA FlowSending ==
    ASSUME Shape, Named, Protocol, Flow, Sending \/ SenderExits
    PROVE  Flow'
  <1> SUFFICES ASSUME call' = "busy", sender'.code = 0
               PROVE  Streaming'
    BY DEF Flow
  <1>0. {"walk", "exited", "ended"} \subseteq WriterStates /\ 1 \in Codes /\ 2 \in Codes
    BY DEF WriterStates, Codes
  <1>a. UNCHANGED <<op, tree, lost, leg, payload, held>>
    BY DEF Sending, SenderExits, Pack, SkipExcluded, Refuse, SendHeader, SendData, SendEnd,
           SenderBroken, Rest, source, extract, effects
  <1>b. UNCHANGED <<Carried, Titles, Wanted>>
    BY <1>a, CarriedStay
  <1>c. \A i \in Carried : i \in Nat /\ i <= Len(payload)
    BY CarriedTypes
  <1>1. CASE Pack
    <2>1. ~Fail
      BY FailEffect
    <2>2. sender' = [sender EXCEPT !.state = "walk"] /\ UNCHANGED <<call, ended, reader, wire>>
      BY <1>1, <2>1 DEF Pack
    <2>3. /\ sender'.at = sender.at /\ sender'.left = sender.left
          /\ sender'.state = "walk" /\ sender'.code = sender.code /\ sender.state = "pack"
      BY <1>0, <1>1, <2>2, WriterStops DEF Pack
    <2>4. Streaming
      BY <2>2, <2>3 DEF Flow
    <2>5. \A n, m \in Nat : Departs(n, m) => Departs(n, m)'
      BY <1>b, <2>3 DEF Departs
    <2>6. ended' => sender'.state = "exited"
      BY <2>2, <2>3, <2>4 DEF Streaming
    <2> QED BY <1>a, <1>b, <2>2, <2>3, <2>4, <2>5, <2>6, WriterMoves DEF Sealed
  <1>2. CASE SkipExcluded
    <2>1. /\ sender' = [sender EXCEPT !.at = sender.at + 1] /\ Working /\ sender.left = 0
          /\ Excluded(Entry) /\ UNCHANGED <<call, ended, reader, wire>>
      BY <1>2 DEF SkipExcluded, Rest, extract, caller
    <2>2. /\ sender'.at = sender.at + 1 /\ sender'.left = 0 /\ sender.at \in Nat
          /\ sender'.state = "walk" /\ sender'.code = sender.code /\ sender.state = "walk"
      BY <2>1, Fields DEF Shape, Writers, Working
    <2>3. Streaming
      BY <2>1, <2>2 DEF Flow
    <2>4. sender.at \notin Carried
      BY <2>1 DEF Carried, Entry
    <2>5. \A n, m \in Nat : Departs(n, m) => Departs(n, m)'
      <3> SUFFICES ASSUME NEW n \in Nat, NEW m \in Nat, Departs(n, m) PROVE Departs(n, m)'
        OBVIOUS
      <3>1. /\ m = 0 /\ n <= sender.at /\ \A i \in Carried : i < sender.at => i < n
        BY <2>1, <2>2 DEF Departs
      <3>2. \A i \in Carried : i < sender.at + 1 => i < n
        BY <1>c, <2>2, <2>4, <3>1
      <3>3. n <= sender.at + 1
        BY <2>2, <3>1
      <3> QED BY <1>b, <2>2, <3>1, <3>2, <3>3 DEF Departs
    <2>6. ended' => sender'.state = "exited"
      BY <2>1, <2>2, <2>3 DEF Streaming
    <2> QED BY <1>a, <1>b, <2>1, <2>2, <2>3, <2>5, <2>6, WriterMoves DEF Sealed
  <1>3. CASE SenderExits
    <2>1. /\ sender' = [sender EXCEPT !.state = "exited"] /\ sender.state = "ended"
          /\ UNCHANGED <<call, reader, wire>>
      BY <1>3 DEF SenderExits, Rest, extract, caller
    <2>2. sender'.state = "exited" /\ sender'.code = sender.code
      BY <1>0, <2>1, WriterStops
    <2>3. Streaming
      BY <2>1, <2>2 DEF Flow
    <2>4. \A n, m \in Nat : Departs(n, m) => Departs(n, m)'
      BY <1>b, <2>1, <2>2 DEF Departs
    <2> QED BY <1>a, <1>b, <2>1, <2>2, <2>3, <2>4, WriterMoves DEF Sealed
  <1>4. CASE Refuse \/ SenderBroken
    <2>1. sender \in Writers
      BY DEF Shape
    <2>2. CASE Refuse
      <3>1. sender' = [sender EXCEPT !.state = "exited", !.code = 2]
        BY <2>2 DEF Refuse
      <3> QED BY <2>1, <3>1 DEF Writers
    <2>3. CASE SenderBroken
      <3>1. sender' = [sender EXCEPT !.state = "exited", !.code = 1]
        BY <2>3 DEF SenderBroken
      <3> QED BY <2>1, <3>1 DEF Writers
    <2> QED BY <1>4, <2>2, <2>3
  <1>5. CASE SendHeader
    <2>0. /\ Working /\ sender.left = 0 /\ ~Excluded(Entry) /\ UNCHANGED <<call, ended, reader>>
          /\ wire' = Append(wire, [item |-> "member", of |-> Entry])
      BY <1>5 DEF SendHeader, Rest, extract, caller
    <2>1. /\ sender.at \in DOMAIN payload /\ Entry \in Entries /\ Entry.size \in Nat
          /\ sender.at \in Nat
      BY <2>0, EntryType, Fields
    <2>2. sender.at \in Carried /\ Titles[sender.at] = Entry.name
      BY <2>0, <2>1 DEF Carried, Titles, Entry
    <2>3. /\ sender'.code = sender.code /\ sender'.state = "walk" /\ sender.state = "walk"
          /\ IF Entry.kind = "dir" \/ Entry.size = 0
             THEN sender'.at = sender.at + 1 /\ sender'.left = 0
             ELSE sender'.at = sender.at /\ sender'.left = Entry.size
      BY <1>5, <2>0, HeaderEffect DEF Working
    <2>4. Streaming
      BY <2>0, <2>3 DEF Flow
    <2>5. PICK n \in Nat, m \in Nat : n = sender'.at /\ m = sender'.left
      BY <2>1, <2>3
    <2>6. Departs(n, m)'
      BY <2>3, <2>5 DEF Departs
    <2>7. PICK w \in Items : /\ wire' = Append(wire, w) /\ w.item = "member" /\ w.of = Entry
      BY <2>0, <2>1 DEF Items
    <2>8. ASSUME NEW i \in Nat, NEW j \in Nat, Departs(i, j)
          PROVE  Passes(Carried, Titles, w, i, j, n, m)
      <3>1. j = 0 /\ i <= sender.at /\ \A k \in Carried : k < sender.at => k < i
        BY <2>0, <2>3, <2>8 DEF Departs
      <3>2. IF w.of.kind = "dir" \/ w.of.size = 0 THEN n = sender.at + 1 /\ m = 0
            ELSE n = sender.at /\ m = w.of.size
        BY <2>3, <2>5, <2>7
      <3> QED BY <2>2, <2>7, <3>1, <3>2 DEF Passes
    <2>9. ended' => sender'.state = "exited"
      BY <2>0, <2>3, <2>4 DEF Streaming
    <2> QED BY <1>a, <1>b, <2>0, <2>3, <2>4, <2>6, <2>7, <2>8, <2>9, WriterSends
  <1>6. CASE SendData
    <2>0. /\ Working /\ sender.left > 0 /\ UNCHANGED <<call, ended, reader>>
          /\ wire' = Append(wire, [item |-> "block", of |-> Entry])
      BY <1>6 DEF SendData, Rest, extract, caller
    <2>1. /\ Entry \in Entries /\ sender.at \in Nat /\ sender.left \in Nat
      BY <2>0, EntryType, Fields
    <2>2. sender.at \in Carried /\ Titles[sender.at] = Entry.name
      BY <2>0 DEF Protocol, Orderly, Carried, Titles, Entry
    <2>3. /\ sender'.code = sender.code /\ sender'.state = "walk" /\ sender.state = "walk"
          /\ sender'.left = sender.left - 1
          /\ sender'.at = IF sender.left = 1 THEN sender.at + 1 ELSE sender.at
      BY <1>6, <2>0, BlockEffect DEF Working
    <2>4. Streaming
      BY <2>0, <2>3 DEF Flow
    <2>5. PICK n \in Nat, m \in Nat : n = sender'.at /\ m = sender'.left
      BY <2>0, <2>1, <2>3
    <2>6. Departs(n, m)'
      BY <2>3, <2>5 DEF Departs
    <2>7. PICK w \in Items : /\ wire' = Append(wire, w) /\ w.item = "block" /\ w.of = Entry
      BY <2>0, <2>1 DEF Items
    <2>8. ASSUME NEW i \in Nat, NEW j \in Nat, Departs(i, j)
          PROVE  Passes(Carried, Titles, w, i, j, n, m)
      <3>1. j = sender.left /\ i = sender.at
        BY <2>0, <2>3, <2>8 DEF Departs
      <3>2. IF j = 1 THEN n = i + 1 /\ m = 0 ELSE n = i /\ m = j - 1
        BY <2>1, <2>3, <2>5, <3>1
      <3> QED BY <2>0, <2>2, <2>7, <3>1, <3>2 DEF Passes
    <2>9. ended' => sender'.state = "exited"
      BY <2>0, <2>3, <2>4 DEF Streaming
    <2> QED BY <1>a, <1>b, <2>0, <2>3, <2>4, <2>6, <2>7, <2>8, <2>9, WriterSends
  <1>7. CASE SendEnd
    <2>0. /\ sender.state = "walk" /\ sender.at > Len(payload) /\ UNCHANGED <<call, ended, reader>>
          /\ sender' = [sender EXCEPT !.state = "ended"]
          /\ wire' = Append(wire, [item |-> "end", of |-> Nothing])
      BY <1>7 DEF SendEnd, Rest, extract, caller
    <2>1. sender.at \in Nat /\ sender.left \in Nat /\ Len(payload) \in Nat
      BY Fields, CarriedTypes
    <2>2. sender.left = 0
      <3>1. sender.at \notin DOMAIN payload
        BY <2>0 DEF Shape
      <3> QED BY <2>1, <3>1 DEF Protocol, Orderly
    <2>3. sender'.code = sender.code /\ sender'.state = "ended"
      BY <1>0, <2>0, WriterStops
    <2>4. Streaming
      BY <2>0, <2>3 DEF Flow
    <2>7. PICK w \in Items : /\ wire' = Append(wire, w) /\ w.item = "end"
      BY <2>0 DEF Items
    <2>8. ASSUME NEW i \in Nat, NEW j \in Nat, Departs(i, j)
          PROVE  j = 0 /\ \A k \in Carried : k < i
      <3>1. j = 0 /\ i <= sender.at /\ \A k \in Carried : k < sender.at => k < i
        BY <2>0, <2>2, <2>8 DEF Departs
      <3>2. \A k \in Carried : k < sender.at
        BY <1>c, <2>0, <2>1
      <3> QED BY <3>1, <3>2
    <2>9. ended' => sender'.state = "exited"
      BY <2>0, <2>3, <2>4 DEF Streaming
    <2>10. wire \in Seq(Items) /\ wire' \in Seq(Items)
      BY <2>7 DEF Shape
    <2>11. Sealed' /\ reader'.at \notin {"modes", "done", "answered"}
      BY <2>0, <2>3, <2>4 DEF Streaming, Sealed
    <2>12. Linked => Linked'
      <3> SUFFICES ASSUME Linked PROVE Linked'
        OBVIOUS
      <3>1. PICK a \in [Nat -> Nat], l \in [Nat -> Nat] : Chain(a, l)
        BY DEF Linked
      <3>a. Len(wire) + 1 \in Nat
        BY <2>10
      <3>2. PICK n \in Nat, m \in Nat : n = a[Len(wire) + 1] /\ m = l[Len(wire) + 1]
        BY <3>a
      <3>3. Departs(n, m)
        BY <3>1, <3>2 DEF Chain
      <3>4. m = 0 /\ \A k \in Carried : k < n
        BY <2>8, <3>3
      <3>5. Departs(n, m)'
        BY <1>b, <2>3, <3>4 DEF Departs
      <3>6. Passes(Carried, Titles, w, a[Len(wire) + 1], l[Len(wire) + 1], n, m)
        BY <2>7, <3>2, <3>4 DEF Passes
      <3> QED BY <1>a, <1>b, <2>0, <2>7, <2>10, <3>1, <3>5, <3>6, ChainGrows
    <2> QED BY <2>0, <2>4, <2>9, <2>11, <2>12 DEF Streaming
  <1> QED BY <1>1, <1>2, <1>3, <1>4, <1>5, <1>6, <1>7 DEF Sending

\* The item at the front of the wire, and what it does to the extractor.
LEMMA ItemArrives ==
    ASSUME Shape, Streaming, reader.at \in {"open", "header", "data"}, wire # <<>>
    PROVE  \E a \in [Nat -> Nat], l \in [Nat -> Nat] :
              /\ Chain(a, l) /\ Arrives(a[1], l[1])
              /\ Passes(Carried, Titles, Head(wire), a[1], l[1], a[2], l[2])
  <1>1. PICK a \in [Nat -> Nat], l \in [Nat -> Nat] : Chain(a, l)
    BY DEF Streaming, Linked
  <1>2. 1 \in 1 .. Len(wire) /\ Head(wire) = wire[1]
    BY DEF Shape
  <1>3. Passes(Carried, Titles, wire[1], a[1], l[1], a[1 + 1], l[1 + 1])
    BY <1>1, <1>2 DEF Chain
  <1>4. Passes(Carried, Titles, Head(wire), a[1], l[1], a[2], l[2])
    BY <1>2, <1>3
  <1>5. Arrives(a[1], l[1])
    BY <1>1 DEF Chain
  <1> WITNESS a \in [Nat -> Nat], l \in [Nat -> Nat]
  <1> QED BY <1>1, <1>4, <1>5

\* The extractor takes an item and is not at the end.
LEMMA ReaderTakes ==
    ASSUME Shape, Streaming, wire # <<>>, wire' = Tail(wire),
           UNCHANGED <<Carried, Titles, sender, ended>>,
           reader'.at \in {"header", "data", "failed"},
           reader'.at \in {"header", "data"} =>
              \E a \in [Nat -> Nat], l \in [Nat -> Nat] : Chain(a, l) /\ Arrives(a[2], l[2])'
    PROVE  Streaming'
  <1>1. wire \in Seq(Items)
    BY DEF Shape
  <1>2. reader'.at \in {"header", "data"} => Linked'
    <2> SUFFICES ASSUME reader'.at \in {"header", "data"} PROVE Linked'
      OBVIOUS
    <2>1. PICK a \in [Nat -> Nat], l \in [Nat -> Nat] : Chain(a, l) /\ Arrives(a[2], l[2])'
      OBVIOUS
    <2> QED BY <1>1, <2>1, ChainShrinks
  <1>3. (\E j \in DOMAIN wire' : wire'[j].item = "end") =>
           \E j \in DOMAIN wire : wire[j].item = "end"
    <2> SUFFICES ASSUME NEW j \in DOMAIN wire', wire'[j].item = "end"
                 PROVE  \E i \in DOMAIN wire : wire[i].item = "end"
      OBVIOUS
    <2>1. /\ DOMAIN wire' = 1 .. Len(wire') /\ Len(wire') = Len(wire) - 1
          /\ \A i \in 1 .. Len(wire) - 1 : wire'[i] = wire[i + 1]
      BY <1>1, ItemTaken
    <2>2. Len(wire) \in Nat /\ DOMAIN wire = 1 .. Len(wire)
      BY <1>1
    <2>3. j \in 1 .. Len(wire) - 1 /\ j + 1 \in DOMAIN wire
      BY <2>1, <2>2
    <2> QED BY <2>1, <2>3
  <1> QED BY <1>2, <1>3 DEF Streaming, Sealed

\* The steps of the extractor keep the chain.
LEMMA FlowReading ==
    ASSUME Shape, Named, Protocol, Flow, Reading
    PROVE  Flow'
  <1> SUFFICES ASSUME call' = "busy", sender'.code = 0
               PROVE  Streaming'
    BY DEF Flow
  <1>0. /\ "header" \in ExtractorStates /\ "modes" \in ExtractorStates
        /\ "done" \in ExtractorStates
    BY DEF ExtractorStates
  <1>a. UNCHANGED <<op, tree, lost, leg, payload>>
    BY DEF Reading, ReadDirectory, ReadHeader, ReadBlock, ReadEnd, ReadCutShort, ApplyModes,
           Outside, source
  <1>b. UNCHANGED <<Carried, Titles, Wanted>>
    BY <1>a, CarriedStay
  <1>c. \A i \in Carried : i \in Nat
    BY CarriedTypes
  <1>r. Raise => UNCHANGED <<call, sender, ended>> /\ reader'.at = "failed"
    BY RaiseEffect
  <1>1. CASE ReadDirectory
    <2>0. /\ reader.at \in {"open", "header"} /\ wire # <<>> /\ wire' = Tail(wire)
          /\ Head(wire).item = "member" /\ Member = Head(wire).of /\ Member.kind = "dir"
          /\ held' = held \cup {Member.name} /\ UNCHANGED <<sender, ended, call>>
      BY <1>1 DEF ReadDirectory, Arrived, Member
    <2>1. Streaming
      BY <2>0 DEF Flow
    <2>2. reader'.at = "header"
      BY <1>0, <1>1, ExtractorMoves DEF ReadDirectory
    <2>3. PICK a \in [Nat -> Nat], l \in [Nat -> Nat] :
              /\ Chain(a, l) /\ Arrives(a[1], l[1])
              /\ Passes(Carried, Titles, Head(wire), a[1], l[1], a[2], l[2])
      BY <2>0, <2>1, ItemArrives
    <2>4. PICK k \in Carried : /\ a[1] <= k /\ \A i \in Carried : i < k => i < a[1]
                               /\ Member.name = Titles[k] /\ a[2] = k + 1 /\ l[2] = 0
      BY <2>0, <2>3 DEF Passes
    <2>5. held' = Before(Carried, Titles, k + 1)
      <3>1. held = Before(Carried, Titles, a[1]) /\ a[1] \in Nat
        BY <2>3 DEF Arrives
      <3> QED BY <2>0, <2>4, <3>1, BeforeNext
    <2>6. Arrives(a[2], l[2])'
      BY <1>b, <2>2, <2>4, <2>5 DEF Arrives
    <2> QED BY <1>b, <2>0, <2>1, <2>2, <2>3, <2>6, ReaderTakes
  <1>2. CASE ReadHeader
    <2>0. /\ reader.at \in {"open", "header"} /\ wire # <<>> /\ wire' = Tail(wire)
          /\ Head(wire).item = "member" /\ Member = Head(wire).of /\ Member.kind = "file"
      BY <1>2 DEF ReadHeader, Arrived, Member
    <2>1. CASE Accepts(Member)
      <3>0. /\ UNCHANGED <<sender, ended, call>>
            /\ held' = IF Member.size = 0 THEN held \cup {Member.name} ELSE held
        BY <1>2, <2>1 DEF ReadHeader
      <3>1. Streaming
        BY <3>0 DEF Flow
      <3>2. /\ reader'.entry = Member.name /\ reader'.left = Member.size
            /\ reader'.at = IF Member.size = 0 THEN "header" ELSE "data"
        BY <1>2, <2>1, ReadHeaderEffect
      <3>3. PICK a \in [Nat -> Nat], l \in [Nat -> Nat] :
                /\ Chain(a, l) /\ Arrives(a[1], l[1])
                /\ Passes(Carried, Titles, Head(wire), a[1], l[1], a[2], l[2])
        BY <2>0, <3>1, ItemArrives
      <3>4. PICK k \in Carried : /\ a[1] <= k /\ \A i \in Carried : i < k => i < a[1]
                                 /\ Member.name = Titles[k]
                                 /\ IF Member.size = 0 THEN a[2] = k + 1 /\ l[2] = 0
                                    ELSE a[2] = k /\ l[2] = Member.size
        BY <2>0, <3>3 DEF Passes
      <3>5. /\ Before(Carried, Titles, k) = held
            /\ Before(Carried, Titles, k + 1) = held \cup {Member.name}
        <4>1. held = Before(Carried, Titles, a[1]) /\ a[1] \in Nat
          BY <3>3 DEF Arrives
        <4> QED BY <3>4, <4>1, BeforeNext
      <3>6. Member.size \in Nat
        BY <2>0, MemberType DEF Arrived
      <3>7. Arrives(a[2], l[2])'
        <4>1. CASE Member.size = 0
          BY <1>b, <3>0, <3>2, <3>4, <3>5, <4>1 DEF Arrives
        <4>2. CASE Member.size # 0
          BY <1>b, <3>0, <3>2, <3>4, <3>5, <3>6, <4>2 DEF Arrives
        <4> QED BY <4>1, <4>2
      <3> QED BY <1>b, <2>0, <3>0, <3>1, <3>2, <3>3, <3>7, ReaderTakes
    <2>2. CASE ~Accepts(Member)
      <3>1. Raise
        BY <1>2, <2>2 DEF ReadHeader
      <3>2. Streaming
        BY <1>r, <3>1 DEF Flow
      <3> QED BY <1>b, <1>r, <2>0, <3>1, <3>2, ReaderTakes
    <2> QED BY <2>1, <2>2
  <1>3. CASE ReadBlock
    <2>0. /\ reader.at = "data" /\ wire # <<>> /\ wire' = Tail(wire) /\ Head(wire).item = "block"
          /\ held' = (IF reader.left = 1 THEN held \cup {reader.entry} ELSE held)
          /\ UNCHANGED <<sender, ended, call>>
      BY <1>3 DEF ReadBlock, Arrived
    <2>1. Streaming
      BY <2>0 DEF Flow
    <2>2. /\ reader'.entry = reader.entry /\ reader'.left = reader.left - 1
          /\ reader'.at = IF reader.left = 1 THEN "header" ELSE "data"
      BY <1>3, ReadBlockEffect
    <2>3. PICK a \in [Nat -> Nat], l \in [Nat -> Nat] :
              /\ Chain(a, l) /\ Arrives(a[1], l[1])
              /\ Passes(Carried, Titles, Head(wire), a[1], l[1], a[2], l[2])
      BY <2>0, <2>1, ItemArrives
    <2>4. /\ a[1] \in Carried /\ a[1] \in Nat /\ l[1] = reader.left /\ l[1] \in Nat /\ l[1] > 0
          /\ reader.entry = Titles[a[1]] /\ held = Before(Carried, Titles, a[1])
      BY <2>0, <2>3 DEF Arrives
    <2>5. IF l[1] = 1 THEN a[2] = a[1] + 1 /\ l[2] = 0 ELSE a[2] = a[1] /\ l[2] = l[1] - 1
      BY <2>0, <2>3 DEF Passes
    <2>6. Before(Carried, Titles, a[1] + 1) = held \cup {reader.entry}
      BY <2>4, BeforeNext
    <2>7. Arrives(a[2], l[2])'
      <3>1. CASE l[1] = 1
        BY <1>b, <2>0, <2>2, <2>4, <2>5, <2>6, <3>1 DEF Arrives
      <3>2. CASE l[1] # 1
        <4>1. /\ reader'.at = "data" /\ l[2] = reader'.left /\ l[2] > 0 /\ a[2] = a[1]
              /\ held' = held
          <5>1. reader.left # 1 /\ l[1] = reader.left
            BY <2>4, <3>2
          <5>2. reader'.at = "data" /\ held' = held /\ reader'.left = reader.left - 1
            BY <2>0, <2>2, <5>1
          <5>3. l[2] = l[1] - 1 /\ a[2] = a[1]
            BY <2>5, <3>2
          <5>4. l[1] - 1 > 0
            BY <2>4, <3>2
          <5> QED BY <5>1, <5>2, <5>3, <5>4
        <4> QED BY <1>b, <2>2, <2>4, <4>1 DEF Arrives
      <3> QED BY <3>1, <3>2
    <2> QED BY <1>b, <2>0, <2>1, <2>2, <2>3, <2>7, ReaderTakes
  <1>4. CASE ReadEnd
    <2>0. /\ reader.at \in {"open", "header"} /\ UNCHANGED <<wire, held, sender, ended, call>>
          /\ (wire # <<>> /\ Head(wire).item = "end") \/ (wire = <<>> /\ ended)
      BY <1>4 DEF ReadEnd, Arrived
    <2>1. Streaming
      BY <2>0 DEF Flow
    <2>2. reader'.at = "modes"
      BY <1>0, <1>4, ExtractorMoves DEF ReadEnd
    <2>3. held = Wanted /\ Sealed
      <3>1. CASE wire # <<>> /\ Head(wire).item = "end"
        <4>1. PICK a \in [Nat -> Nat], l \in [Nat -> Nat] :
                  /\ Chain(a, l) /\ Arrives(a[1], l[1])
                  /\ Passes(Carried, Titles, Head(wire), a[1], l[1], a[2], l[2])
          BY <2>0, <2>1, <3>1, ItemArrives
        <4>2. \A i \in Carried : i < a[1]
          BY <3>1, <4>1 DEF Passes
        <4>3. held = Before(Carried, Titles, a[1])
          BY <4>1 DEF Arrives
        <4>4. 1 \in DOMAIN wire /\ wire[1].item = "end"
          <5>1. wire \in Seq(Items)
            BY DEF Shape
          <5>2. 1 \in DOMAIN wire /\ Head(wire) = wire[1]
            BY <3>1, <5>1
          <5> QED BY <3>1, <5>2
        <4> QED BY <2>1, <4>2, <4>3, <4>4, CarriedTypes DEF Streaming
      <3>2. CASE wire = <<>> /\ ended
        <4>1. sender.state = "exited"
          BY <2>1, <3>2 DEF Streaming
        <4>2. PICK a \in [Nat -> Nat], l \in [Nat -> Nat] : Chain(a, l)
          BY <2>0, <2>1 DEF Streaming, Linked
        <4>3. Len(wire) + 1 = 1
          BY <3>2
        <4>4. Arrives(a[1], l[1]) /\ Departs(a[1], l[1])
          BY <4>2, <4>3 DEF Chain
        <4>5. \A i \in Carried : i < a[1]
          BY <4>1, <4>4 DEF Departs
        <4> QED BY <4>1, <4>4, <4>5, CarriedTypes DEF Arrives, Sealed
      <3> QED BY <2>0, <3>1, <3>2
    <2> QED BY <1>b, <2>0, <2>1, <2>2, <2>3 DEF Streaming, Sealed
  <1>5. CASE ReadCutShort
    <2>1. Raise /\ UNCHANGED <<wire, held>>
      BY <1>5 DEF ReadCutShort
    <2>2. Streaming
      BY <1>r, <2>1 DEF Flow
    <2> QED BY <1>b, <1>r, <2>1, <2>2 DEF Streaming, Sealed
  <1>6. CASE ApplyModes
    <2>0. reader.at = "modes" /\ UNCHANGED <<wire, held, sender, ended, call>>
      BY <1>6 DEF ApplyModes
    <2>1. Streaming
      BY <2>0 DEF Flow
    <2>2. reader'.at = "done"
      BY <1>0, <1>6, ExtractorMoves DEF ApplyModes
    <2> QED BY <1>b, <2>0, <2>1, <2>2 DEF Streaming, Sealed
  <1> QED BY <1>1, <1>2, <1>3, <1>4, <1>5, <1>6 DEF Reading

\* The steps of the caller keep the chain.
LEMMA FlowCalling ==
    ASSUME Shape, Named, Protocol, Flow, Calling \/ Finish \/ FetchAgain
    PROVE  Flow'
  <1> SUFFICES ASSUME call' = "busy", sender'.code = 0
               PROVE  Streaming'
    BY DEF Flow
  <1>0. /\ "answered" \in ExtractorStates /\ "failed" \in ExtractorStates
        /\ {"walk", "pack"} \subseteq WriterStates
    BY DEF ExtractorStates, WriterStates
  <1>1. ~Publish /\ ~WaitExpires /\ ~Reply /\ ~FetchAgain
    BY DEF Publish, WaitExpires, Fail, Reply, FetchAgain
  <1>f. ASSUME \E s \in {"walk", "pack"} : sender' = Writer(s), reader' = Extractor("open"),
               wire' = <<>>, ~ended', held' = {}, payload' \in Seq(Entries)
        PROVE  Streaming'
    <2>1. /\ sender'.state \in {"walk", "pack"} /\ sender'.at = 1 /\ sender'.left = 0
          /\ reader'.at = "open"
      BY <1>0, <1>f, NewProcesses
    <2>2. \A i \in Carried' : i \in Nat \ {0}
      BY <1>f DEF Carried
    <2>3. Linked'
      BY <1>f, <2>1, <2>2, ChainStarts
    <2> QED BY <1>f, <2>1, <2>3 DEF Streaming
  <1>2. CASE Begin
    <2>1. call = "new" /\ UNCHANGED <<payload, wire, ended, held>>
      BY <1>2 DEF Begin
    <2>2. \E s \in {"walk", "pack"} : sender' = Writer(s) /\ reader' = Extractor("open")
      BY <1>2 DEF Begin
    <2> QED BY <1>f, <2>1, <2>2 DEF Protocol, Fresh, Shape
  <1>3. CASE SendSnapshot
    <2>1. /\ payload' = Snapshot /\ sender' = Writer("pack") /\ reader' = Extractor("open")
          /\ wire' = <<>> /\ ended' = FALSE /\ held' = {}
      BY <1>3 DEF SendSnapshot
    <2>2. tree \in Seq(Entries)
      BY TransferAssumption DEF Listed, Shape
    <2>3. payload' \in Seq(Entries)
      BY <2>1, <2>2, SnapshotType
    <2> QED BY <1>f, <2>1, <2>3
  <1>4. CASE Finish
    <2>1. /\ UNCHANGED <<op, tree, lost, leg, payload, sender, wire, ended, held, call>>
          /\ reader.at = "done"
      BY <1>4 DEF Finish, source, stream, caller
    <2>2. Streaming /\ UNCHANGED <<Carried, Titles, Wanted>>
      BY <2>1, CarriedStay DEF Flow
    <2>3. reader'.at \in {"answered", "failed"}
      BY <1>0, <1>4, ExtractorMoves DEF Finish
    <2> QED BY <2>1, <2>2, <2>3 DEF Streaming, Sealed
  <1> QED BY <1>1, <1>2, <1>3, <1>4 DEF Calling

\* What is not sent yet is no link of the chain.
LEMMA ChainKeeps ==
    ASSUME Shape, Legs, Travelled, Vanish, Linked,
           UNCHANGED <<payload, sender, wire, reader, held>>
    PROVE  Linked'
  <1>1. PICK a \in [Nat -> Nat], l \in [Nat -> Nat] : Chain(a, l)
    BY DEF Linked
  <1>2. /\ Carried' \subseteq Carried /\ Titles' = Titles
        /\ \A i \in Carried : payload[i].name \in Behind => i \in Carried'
    BY VanishEffect
  <1>3. \A i \in Carried : Titles[i] = payload[i].name
    BY CarriedTypes
  <1>4. ASSUME NEW j \in 1 .. Len(wire)
        PROVE  Passes(Carried', Titles', wire'[j], a[j], l[j], a[j + 1], l[j + 1])
    <2>1. Passes(Carried, Titles, wire[j], a[j], l[j], a[j + 1], l[j + 1])
      BY <1>1 DEF Chain
    <2>2. wire[j].item \in {"member", "block"} => wire[j].of.name \in Behind
      <3>1. wire \in Seq(Items)
        BY DEF Shape
      <3>2. j \in DOMAIN wire
        BY <3>1
      <3> QED BY <3>2 DEF Travelled
    <2>3. \A k \in Carried : wire[j].item \in {"member", "block"} /\ wire[j].of.name = Titles[k]
                               => k \in Carried'
      BY <1>2, <1>3, <2>2
    <2> QED BY <1>2, <2>1, <2>3 DEF Passes
  <1>5. Arrives(a[1], l[1])'
    <2>1. Arrives(a[1], l[1])
      BY <1>1 DEF Chain
    <2>2. held = Before(Carried, Titles, a[1])
      BY <2>1 DEF Arrives
    <2>3. Before(Carried', Titles', a[1]) = Before(Carried, Titles, a[1])
      <3>1. \A i \in Carried : i < a[1] => i \in Carried'
        BY <1>2, <1>3, <2>2 DEF Travelled, Before
      <3> QED BY <1>2, <3>1 DEF Before
    <2>4. reader.at = "data" => a[1] \in Carried'
      BY <1>2, <1>3, <2>1 DEF Arrives, Travelled
    <2> QED BY <1>2, <2>1, <2>2, <2>3, <2>4 DEF Arrives
  <1>6. Departs(a[Len(wire) + 1], l[Len(wire) + 1])'
    BY <1>1, <1>2 DEF Chain, Departs
  <1>7. Chain(a, l)'
    BY <1>4, <1>5, <1>6 DEF Chain
  <1> QED BY <1>7 DEF Linked

\* What goes wrong either ends what the chain is about or leaves it alone.
LEMMA FlowFaults ==
    ASSUME Shape, Named, Legs, Protocol, Flow, Travelled,
           Cut \/ PushExpires \/ Kill \/ Touch \/ Vanish
    PROVE  Flow'
  <1> SUFFICES ASSUME call' = "busy", sender'.code = 0
               PROVE  Streaming'
    BY DEF Flow
  <1>1. ~Kill
    BY DEF Kill
  <1>2. ~Cut /\ ~PushExpires
    <2> SUFFICES ASSUME Cut \/ PushExpires PROVE FALSE
      OBVIOUS
    <2>1. sender' = [sender EXCEPT !.state = "exited", !.code = 255] /\ sender \in Writers
      BY DEF Cut, PushExpires, Disconnect, Shape
    <2>2. sender'.code = 255
      BY <2>1 DEF Writers
    <2> QED BY <2>2
  <1>3. CASE Touch
    <2>1. UNCHANGED <<op, tree, lost, leg, sender, wire, ended, reader, held, call>>
      BY <1>3 DEF Touch, source, stream, extract, caller
    <2>2. UNCHANGED <<Carried, Titles, Wanted>>
      BY <1>3, <2>1, TouchedPayload, CarriedStay
    <2>3. Streaming
      BY <2>1 DEF Flow
    <2> QED BY <2>1, <2>2, <2>3, WriterMoves DEF Sealed, Departs, Streaming
  <1>4. CASE Vanish
    <2>1. UNCHANGED <<op, tree, leg, payload, sender, wire, ended, reader, held, call>>
      BY <1>4 DEF Vanish, stream, extract, caller
    <2>2. Streaming /\ ~Sealed
      BY <1>4, <2>1 DEF Flow, Vanish, Working, Sealed
    <2>3. Linked => Linked'
      BY <1>4, <2>1, ChainKeeps
    <2> QED BY <2>1, <2>2, <2>3 DEF Streaming, Sealed
  <1> QED BY <1>1, <1>2, <1>3, <1>4

-----------------------------------------------------------------------------
(* What is accepted is complete.                                           *)

\* The one place where something is renamed, and the two where a call returns.
LEMMA CompleteNext ==
    ASSUME Shape, Legs, Protocol, Flow, CompleteOrAbsent, [Next]_vars
    PROVE  CompleteOrAbsent'
  <1>a. UNCHANGED <<op, tree, lost>> => UNCHANGED <<Asked, Names(tree), Launches>>
    BY DEF Asked, Kept, Names, Launches
  <1>b. ASSUME UNCHANGED <<op, tree, lost, dest, job, held>>, call' = "ok" => call = "ok"
        PROVE  CompleteOrAbsent'
    BY <1>a, <1>b DEF CompleteOrAbsent, AcceptedIsComplete, PublishedWhole
  <1>1. CASE Sending \/ SenderExits
    BY <1>1, <1>b DEF Sending, SenderExits, Pack, Fail, SkipExcluded, Refuse, SendHeader, SendData,
           SendEnd, SenderBroken, Rest, source, extract, effects, caller
  <1>2. CASE Reading
    <2>1. call # "ok"
      BY <1>2 DEF Protocol, Returned, Reading, ReadDirectory, ReadHeader, ReadBlock, ReadEnd,
                  ReadCutShort, ApplyModes
    <2>2. UNCHANGED <<op, tree, lost, dest, job>> /\ call' # "ok"
      BY <1>2, <2>1 DEF Reading, ReadDirectory, ReadHeader, ReadBlock, ReadEnd, ReadCutShort,
                  ApplyModes, Raise, Fail, Outside, source, effects
    <2> QED BY <1>a, <2>2 DEF CompleteOrAbsent, AcceptedIsComplete, PublishedWhole
  <1>3. CASE Begin
    <2>1. UNCHANGED <<op, tree, lost, dest, job, held>> /\ call' \in {"ok", "busy"}
      BY <1>3 DEF Begin, source, effects
    <2>2. CASE call' = "ok"
      <3>1. op = "fetch" /\ dest # {}
        BY <1>3, <2>2 DEF Begin
      <3>2. dest = {Names(tree)} /\ Asked = Names(tree)
        BY <3>1, PullWanted DEF CompleteOrAbsent, PublishedWhole, Legs, Launches
      <3>3. op' = "fetch" /\ dest' = {Asked'}
        BY <1>a, <2>1, <3>1, <3>2
      <3>4. PublishedWhole'
        BY <1>a, <2>1 DEF CompleteOrAbsent, PublishedWhole
      <3>5. AcceptedIsComplete'
        BY <3>3 DEF AcceptedIsComplete, Launches
      <3> QED BY <3>4, <3>5 DEF CompleteOrAbsent
    <2>3. CASE call' # "ok"
      BY <1>b, <2>1, <2>3
    <2> QED BY <2>2, <2>3
  <1>4. CASE Publish
    <2>0. UNCHANGED <<op, tree, lost, held, job>> /\ Ready /\ ~Launches
      BY <1>4 DEF Publish, source
    <2>1. CASE /\ Succeeds /\ call' = "ok"
               /\ dest' = IF op \in {"file", "fetch"} /\ dest = {} THEN {held} ELSE dest
      <3>1. held = Wanted
        BY <2>0, <2>1 DEF Flow, Streaming, Ready, Succeeds
      <3>2. held = Asked /\ (op \in {"file", "fetch"} => held = Names(tree))
        BY <2>0, <3>1, PullWanted DEF Ready
      <3> QED BY <1>a, <2>0, <2>1, <3>2 DEF CompleteOrAbsent, AcceptedIsComplete, PublishedWhole,
                                    Launches
    <2>2. CASE call' = "error" /\ UNCHANGED dest
      BY <1>b, <2>0, <2>2
    <2> QED BY <1>4, <2>1, <2>2 DEF Publish
  <1>5. CASE SendSnapshot
    <2>1. UNCHANGED <<op, tree, lost, dest, job>> /\ call' # "ok"
      BY <1>5 DEF SendSnapshot, Ready, source, effects
    <2> QED BY <1>a, <2>1 DEF CompleteOrAbsent, AcceptedIsComplete, PublishedWhole
  <1>6. CASE WaitExpires
    BY <1>6, <1>b DEF WaitExpires, Fail, source, effects
  <1>7. CASE Finish
    <2>1. UNCHANGED <<op, tree, lost, dest, call>> /\ call # "ok"
      BY <1>7 DEF Finish, source, caller, Protocol, Returned
    <2> QED BY <1>a, <2>1 DEF CompleteOrAbsent, AcceptedIsComplete, PublishedWhole
  <1>8. CASE Reply
    <2>0. /\ UNCHANGED <<op, tree, lost, dest, job, held>> /\ ~Pull /\ call = "busy"
          /\ (reader.at = "answered" /\ call' = "ok") \/ call' = "error"
      BY <1>8 DEF Reply, source, extract, effects
    <2>1. CASE reader.at = "answered" /\ call' = "ok"
      <3>1. sender.code = 0
        BY <2>0, <2>1 DEF Protocol, Pushing
      <3>2. held = Asked
        BY <2>0, <2>1, <3>1 DEF Flow, Streaming, Legs
      <3>3. op \notin {"file", "fetch", "directory"} /\ (Launches => job = {Asked})
        BY <2>0, <2>1, <3>2 DEF Legs, Protocol, Answered
      <3>4. PublishedWhole'
        BY <1>a, <2>0 DEF CompleteOrAbsent, PublishedWhole
      <3>5. Asked' = Asked /\ (Launches' <=> Launches)
        BY <1>a, <2>0 DEF Launches
      <3>6. AcceptedIsComplete'
        BY <2>0, <3>2, <3>3, <3>5 DEF AcceptedIsComplete
      <3> QED BY <3>4, <3>6 DEF CompleteOrAbsent
    <2>2. CASE call' = "error"
      BY <1>b, <2>0, <2>2
    <2> QED BY <2>0, <2>1, <2>2
  <1>9. CASE FetchAgain
    <2>1. UNCHANGED <<op, tree, lost, dest, job>> /\ call' # "ok"
      BY <1>9 DEF FetchAgain, source, effects
    <2> QED BY <1>a, <2>1 DEF CompleteOrAbsent, AcceptedIsComplete, PublishedWhole
  <1>10. CASE Cut \/ PushExpires \/ Kill \/ Touch
    BY <1>10, <1>b DEF Cut, PushExpires, Disconnect, Kill, Touch, source, extract, effects,
                       caller
  <1>12. CASE Vanish
    <2>1. call # "ok"
      BY <1>12 DEF Vanish, Working, Protocol, NothingLeft
    <2>2. UNCHANGED <<op, tree, dest, call>>
      BY <1>12 DEF Vanish, effects, caller
    <2> QED BY <2>1, <2>2 DEF CompleteOrAbsent, AcceptedIsComplete, PublishedWhole
  <1>11. CASE UNCHANGED vars
    BY <1>11, <1>b DEF vars, source, extract, effects, caller
  <1> QED BY <1>1, <1>2, <1>3, <1>4, <1>5, <1>6, <1>7, <1>8, <1>9, <1>10, <1>11, <1>12
          DEF Next, Calling

\* What is on its way or has arrived stays behind the writer.
LEMMA TravelledNext ==
    ASSUME Shape, Named, Protocol, Travelled, [Next]_vars
    PROVE  Travelled'
  <1>0. /\ sender.at \in Nat /\ sender.left \in Nat /\ DOMAIN payload \subseteq Nat
        /\ wire \in Seq(Items) /\ reader \in Extractors
    <2>1. payload \in Seq(Entries) /\ wire \in Seq(Items) /\ reader \in Extractors
      BY DEF Shape
    <2>2. DOMAIN payload \subseteq Nat
      BY <2>1
    <2> QED BY <2>1, <2>2, Fields
  <1>1. CASE SendHeader \/ SendData
    <2>1. /\ Working /\ UNCHANGED <<payload, held, reader>>
          /\ \E x \in {"member", "block"} : wire' = Append(wire, [item |-> x, of |-> Entry])
      BY <1>1 DEF SendHeader, SendData, Rest, extract
    <2>2. \A k \in DOMAIN payload :
             k < sender.at \/ (k = sender.at /\ sender.left > 0) \/ k = sender.at =>
                k < sender'.at \/ (k = sender'.at /\ sender'.left > 0)
      BY <1>0, <1>1, <2>1, HeaderEffect, BlockEffect, EntryType DEF SendHeader, SendData
    <2>3. Behind \subseteq Behind' /\ Entry.name \in Behind'
      BY <2>1, <2>2, EntryType DEF Behind, Entry
    <2> QED BY <1>0, <2>1, <2>3 DEF Travelled
  <1>2. ASSUME held' = {}, wire' = <<>>, reader'.at # "data" PROVE Travelled'
    BY <1>2 DEF Travelled
  <1>3. ASSUME Behind \subseteq Behind', held' \subseteq Behind,
               \A j \in DOMAIN wire' : \E k \in DOMAIN wire : wire'[j] = wire[k],
               reader'.at = "data" => reader'.entry \in Behind
        PROVE  Travelled'
    BY <1>3 DEF Travelled
  <1>4. ASSUME Behind \subseteq Behind', UNCHANGED <<held, wire>>,
               UNCHANGED reader \/ reader'.at # "data"
        PROVE  Travelled'
    BY <1>3, <1>4 DEF Travelled
  <1>5. ASSUME UNCHANGED payload, sender'.at = sender.at, sender'.left = sender.left
        PROVE  Behind' = Behind
    BY <1>5 DEF Behind
  <1>6. Fail \/ Raise => /\ reader'.at # "data" /\ sender'.at = sender.at
                         /\ sender'.left = sender.left
    BY FailEffect, RaiseEffect
  <1>7. CASE Pack \/ WaitExpires
    <2>1. UNCHANGED <<payload, held, wire>>
      BY <1>7 DEF Pack, WaitExpires
    <2>2. CASE Fail
      BY <1>4, <1>5, <1>6, <2>1, <2>2
    <2>3. CASE sender' = [sender EXCEPT !.state = "walk"] /\ UNCHANGED reader
      <3>1. sender'.at = sender.at /\ sender'.left = sender.left
        BY <2>3 DEF Shape, Writers
      <3> QED BY <1>4, <1>5, <2>1, <2>3, <3>1
    <2> QED BY <1>7, <2>2, <2>3 DEF Pack, WaitExpires
  <1>8. CASE SkipExcluded
    <2>1. /\ sender.left = 0 /\ sender' = [sender EXCEPT !.at = sender.at + 1]
          /\ UNCHANGED <<payload, held, wire, reader>>
      BY <1>8 DEF SkipExcluded, Rest, extract
    <2>2. sender'.at = sender.at + 1
      BY <2>1 DEF Shape, Writers
    <2>3. Behind \subseteq Behind'
      BY <1>0, <2>1, <2>2 DEF Behind
    <2> QED BY <1>4, <2>1, <2>3
  <1>9. CASE Refuse \/ SenderBroken \/ SenderExits
    <2>1. UNCHANGED <<payload, held, wire, reader>>
      BY <1>9 DEF Refuse, SenderBroken, SenderExits, Rest, extract
    <2>2. sender'.at = sender.at /\ sender'.left = sender.left
      BY <1>9 DEF Refuse, SenderBroken, SenderExits, Shape, Writers
    <2> QED BY <1>4, <1>5, <2>1, <2>2
  <1>10. CASE SendEnd
    <2>1. /\ UNCHANGED <<payload, held, reader>>
          /\ wire' = Append(wire, [item |-> "end", of |-> Nothing])
      BY <1>10 DEF SendEnd, Rest, extract
    <2>2. sender'.at = sender.at /\ sender'.left = sender.left
      BY <1>10 DEF SendEnd, Shape, Writers
    <2>3. Behind' = Behind
      BY <1>5, <2>1, <2>2
    <2> QED BY <1>0, <2>1, <2>3 DEF Travelled
  <1>11. ASSUME wire # <<>>, wire' = Tail(wire)
         PROVE  /\ \A j \in DOMAIN wire' : \E k \in DOMAIN wire : wire'[j] = wire[k]
                /\ Head(wire).item = "member" => Member.name \in Behind
    <2>1. /\ DOMAIN wire = 1 .. Len(wire) /\ Len(wire) \in Nat
          /\ DOMAIN wire' = 1 .. Len(wire') /\ Len(wire') = Len(wire) - 1
          /\ \A j \in 1 .. Len(wire) - 1 : wire'[j] = wire[j + 1]
          /\ Head(wire) = wire[1] /\ Len(wire) > 0
      BY <1>0, <1>11, ItemTaken
    <2>2. \A j \in DOMAIN wire' : j + 1 \in DOMAIN wire /\ wire'[j] = wire[j + 1]
      BY <2>1
    <2>3. 1 \in DOMAIN wire
      BY <2>1
    <2> QED BY <2>1, <2>2, <2>3 DEF Travelled, Member
  <1>12. CASE Reading
    <2>1. UNCHANGED payload
      BY <1>12 DEF Reading, ReadDirectory, ReadHeader, ReadBlock, ReadEnd, ReadCutShort,
                   ApplyModes, Outside
    <2>2. CASE ReadDirectory
      <3>1. /\ wire # <<>> /\ Head(wire).item = "member" /\ wire' = Tail(wire)
            /\ held' = held \cup {Member.name} /\ UNCHANGED sender
        BY <2>2 DEF ReadDirectory, Arrived
      <3>2. reader'.at = "header"
        BY <2>2, ExtractorMoves DEF ReadDirectory, ExtractorStates
      <3> QED BY <1>3, <1>5, <1>11, <2>1, <3>1, <3>2 DEF Travelled
    <2>3. CASE ReadHeader
      <3>1. wire # <<>> /\ Head(wire).item = "member" /\ wire' = Tail(wire)
        BY <2>3 DEF ReadHeader, Arrived
      <3>2. CASE Accepts(Member)
        <4>1. UNCHANGED sender /\ (held' = held \cup {Member.name} \/ held' = held)
          BY <2>3, <3>2 DEF ReadHeader
        <4>2. reader'.entry = Member.name
          BY <2>3, <3>2, ReadHeaderEffect
        <4> QED BY <1>3, <1>5, <1>11, <2>1, <3>1, <4>1, <4>2 DEF Travelled
      <3>3. CASE ~Accepts(Member)
        <4>1. Raise /\ UNCHANGED held
          BY <2>3, <3>3 DEF ReadHeader
        <4> QED BY <1>3, <1>5, <1>6, <1>11, <2>1, <3>1, <4>1 DEF Travelled
      <3> QED BY <3>2, <3>3
    <2>4. CASE ReadBlock
      <3>1. /\ wire # <<>> /\ wire' = Tail(wire) /\ reader.at = "data" /\ UNCHANGED sender
            /\ held' = held \cup {reader.entry} \/ held' = held
        BY <2>4 DEF ReadBlock, Arrived
      <3>2. reader'.entry = reader.entry
        BY <2>4, ReadBlockEffect
      <3> QED BY <1>3, <1>5, <1>11, <2>1, <3>1, <3>2 DEF Travelled
    <2>5. CASE ReadEnd \/ ApplyModes
      <3>1. UNCHANGED <<wire, held, sender>>
        BY <2>5 DEF ReadEnd, ApplyModes
      <3>2. reader'.at # "data"
        BY <2>5, ExtractorMoves DEF ReadEnd, ApplyModes, ExtractorStates
      <3> QED BY <1>4, <1>5, <2>1, <3>1, <3>2
    <2>6. CASE ReadCutShort
      <3>1. Raise /\ UNCHANGED <<wire, held>>
        BY <2>6 DEF ReadCutShort
      <3> QED BY <1>4, <1>5, <1>6, <2>1, <3>1
    <2> QED BY <1>12, <2>2, <2>3, <2>4, <2>5, <2>6 DEF Reading
  <1>13. CASE Begin
    <2>1. UNCHANGED <<payload, wire, held>> /\ wire = <<>> /\ held = {}
      BY <1>13 DEF Begin, Protocol, Fresh
    <2>2. CASE UNCHANGED <<sender, reader>>
      BY <1>4, <1>5, <2>1, <2>2
    <2>3. CASE reader' = Extractor("open")
      BY <1>2, <2>1, <2>3, NewProcesses
    <2> QED BY <1>13, <2>2, <2>3 DEF Begin
  <1>14. CASE SendSnapshot
    <2>1. CASE reader' = Extractor("open") /\ wire' = <<>> /\ held' = {}
      BY <1>2, <2>1, NewProcesses
    <2>2. CASE reader' = [reader EXCEPT !.at = "gone"] /\ UNCHANGED <<payload, stream, held>>
      <3>1. reader'.at = "gone"
        BY <2>2, ExtractorMoves DEF ExtractorStates
      <3> QED BY <1>4, <1>5, <2>2, <3>1 DEF stream
    <2> QED BY <1>14, <2>1, <2>2 DEF SendSnapshot
  <1>15. CASE FetchAgain
    <2>1. reader' = Extractor("absent") /\ wire' = <<>> /\ held' = {}
      BY <1>15 DEF FetchAgain
    <2> QED BY <1>2, <2>1, NewProcesses
  <1>16. CASE Publish \/ Reply \/ Finish \/ Kill
    <2>1. UNCHANGED <<payload, sender, wire, held>>
      BY <1>16 DEF Publish, Reply, Finish, Kill, stream, extract
    <2>2. UNCHANGED reader \/ \E p \in {"gone", "answered", "failed"} :
                                 reader' = [reader EXCEPT !.at = p]
      BY <1>16 DEF Publish, Reply, Finish, Kill, extract
    <2>3. UNCHANGED reader \/ reader'.at # "data"
      BY <2>2, ExtractorMoves DEF ExtractorStates
    <2> QED BY <1>4, <1>5, <2>1, <2>3
  <1>17. CASE Cut \/ PushExpires
    <2>1. /\ wire' \in Prefixes(wire) /\ UNCHANGED <<payload, reader, held>>
          /\ sender' = [sender EXCEPT !.state = "exited", !.code = 255]
      BY <1>17 DEF Cut, PushExpires, Disconnect, extract
    <2>2. sender'.at = sender.at /\ sender'.left = sender.left
      BY <2>1 DEF Shape, Writers
    <2>3. \A j \in DOMAIN wire' : j \in DOMAIN wire /\ wire'[j] = wire[j]
      BY <1>0, <2>1, PrefixType
    <2> QED BY <1>3, <1>5, <2>1, <2>2, <2>3 DEF Travelled
  <1>18. CASE Touch
    <2>1. UNCHANGED <<sender, wire, reader, held>>
      BY <1>18 DEF Touch, stream, extract
    <2>2. /\ DOMAIN payload' = DOMAIN payload
          /\ \A i \in DOMAIN payload : payload'[i].name = payload[i].name
      BY <1>18, TouchedPayload
    <2>3. Behind' = Behind
      BY <2>1, <2>2 DEF Behind
    <2> QED BY <1>4, <2>1, <2>3
  <1>19. CASE Vanish \/ UNCHANGED vars
    BY <1>4, <1>5, <1>19 DEF Vanish, vars, stream, extract
  <1> QED BY <1>1, <1>7, <1>8, <1>9, <1>10, <1>12, <1>13, <1>14, <1>15, <1>16, <1>17, <1>18,
             <1>19 DEF Next, Sending, Calling

\* All of it together.
Inv == Shape /\ Named /\ Legs /\ Protocol /\ Travelled /\ Flow /\ CompleteOrAbsent

\* As the program starts.
LEMMA InvInit == Init => Inv
  <1> SUFFICES ASSUME Init PROVE Inv
    OBVIOUS
  <1>1. Shape /\ Named
    BY ShapeInit
  <1>2. /\ sender.state = "absent" /\ sender.code = 0 /\ sender.left = 0 /\ reader.at = "absent"
        /\ wire = <<>> /\ ended = FALSE /\ held = {} /\ call = "new" /\ dest = {} /\ payload = tree
    BY NewProcesses DEF Init, WriterStates
  <1>3. Legs
    <2>1. leg = (IF op = "import" THEN "push" ELSE "pull")
      BY DEF Init
    <2> QED BY <1>2, <2>1 DEF Legs, Pull, Wanted, Carried, Asked, Kept, Excluded, Launches
  <1>4. Protocol
    BY <1>2 DEF Protocol, Fresh, Started, NothingLeft, Orderly, Pushing, Answered, Returned
  <1>5. Travelled /\ Flow /\ CompleteOrAbsent
    BY <1>2 DEF Travelled, Flow, CompleteOrAbsent, AcceptedIsComplete, PublishedWhole
  <1> QED BY <1>1, <1>3, <1>4, <1>5 DEF Inv

\* No step breaks it.
LEMMA InvNext == Inv /\ [Next]_vars => Inv'
  <1> SUFFICES ASSUME Inv, [Next]_vars PROVE Inv'
    OBVIOUS
  <1> USE DEF Inv
  <1>1. Shape' /\ Named'
    BY ShapeNext
  <1>2. CompleteOrAbsent' /\ Travelled'
    BY CompleteNext, TravelledNext
  <1>3. CASE Sending \/ SenderExits
    BY <1>1, <1>2, <1>3, ProtocolSending, FlowSending
  <1>4. CASE Reading
    BY <1>1, <1>2, <1>4, ProtocolReading, FlowReading
  <1>5. CASE Calling \/ Finish \/ FetchAgain
    BY <1>1, <1>2, <1>5, ProtocolCalling, FlowCalling
  <1>6. CASE Cut \/ PushExpires \/ Kill \/ Touch \/ Vanish
    BY <1>1, <1>2, <1>6, ProtocolFaults, FlowFaults
  <1>7. CASE UNCHANGED vars
    <2>1. UNCHANGED <<op, tree, lost, leg, payload, sender, wire, ended, reader, held, locked,
                      dest, job, call, tries, fault>>
      BY <1>7 DEF vars, source, stream, extract, effects, caller
    <2>2. UNCHANGED <<Carried, Titles, Wanted>> /\ Legs'
      BY <2>1, CarriedStay, LegsStay
    <2>3. Protocol'
      BY <2>1 DEF Protocol, Fresh, Started, NothingLeft, Orderly, Pushing, Answered, Returned,
                  Pull, Launches, Excluded
    <2>4. Flow'
      <3>1. Streaming => Streaming'
        BY <2>1, <2>2, WriterMoves DEF Sealed, Departs, Streaming
      <3> QED BY <2>1, <3>1 DEF Flow
    <2> QED BY <1>1, <1>2, <2>2, <2>3, <2>4
  <1> QED BY <1>3, <1>4, <1>5, <1>6, <1>7 DEF Next

\* It holds in every state.
LEMMA InvHolds == Spec => []Inv
  BY InvInit, InvNext, PTL DEF Spec

\* Whatever is removed, truncated or lost on the way, a call that is reported to
\* have succeeded carried everything that was asked for and that the walk of the
\* source listed, and what was renamed into place is whole.
THEOREM WhatIsAcceptedIsComplete == Spec => []CompleteOrAbsent
  <1>1. Inv => CompleteOrAbsent
    BY DEF Inv
  <1> QED BY <1>1, InvHolds, PTL

\* A pull that has returned or raised has no child left.
THEOREM NoChildIsLeft == Spec => []NothingLeft
  <1>1. Inv => NothingLeft
    BY DEF Inv, Protocol
  <1> QED BY <1>1, InvHolds, PTL

-----------------------------------------------------------------------------
(* The limits: what is on the wire is of the payload.                                  *)

\* A member is its entry; a process of the agent may have touched the entry
\* after the member was sent.
Like(e, m) == e.name = m.name /\ e.size = m.size /\ (e.kind = m.kind \/ e.kind = "gone")

\* Every name is the name of one entry, and every member is like its entry.
Listing ==
    /\ \A i, k \in DOMAIN payload : payload[i].name = payload[k].name => i = k
    /\ \A j \in DOMAIN wire : wire[j].item = "member" =>
          \E i \in DOMAIN payload : Like(payload[i], wire[j].of)

\* The snapshot lists everything once.
LEMMA SnapshotListed ==
    ASSUME tree \in Trees
    PROVE  \A i, k \in DOMAIN Snapshot : Snapshot[i].name = Snapshot[k].name => i = k
  <1> DEFINE n == Len(tree)
  <1>1. Listed(tree) /\ tree \in Seq(Entries)
    BY TransferAssumption DEF Listed
  <1>2. /\ n \in Nat /\ DOMAIN tree = 1 .. n
        /\ DOMAIN Snapshot = 1 .. n + 1 + (IF op = "resume" THEN 1 ELSE 0)
        /\ Snapshot[1] = Request
        /\ \A i \in 1 .. n : Snapshot[i + 1] = Workspace[i]
        /\ op = "resume" => Snapshot[n + 2] = Checkpoint
    BY <1>1, SnapshotPlaces
  <1>3. \A i \in 1 .. n : Workspace[i].name = tree[i].name
    <2> TAKE i \in 1 .. n
    <2>1. tree[i] \in Entries /\ i \in DOMAIN tree
      BY <1>1, <1>2
    <2>2. [tree[i] EXCEPT !.skip = "excluded"].name = tree[i].name
      BY <2>1 DEF Entries
    <2> QED BY <1>1, <2>1, <2>2, SnapshotType
  <1>4. Request.name = "request.json" /\ Checkpoint.name = "resume-checkpoint.pt"
    BY SnapshotType, <1>1 DEF Request
  <1> DEFINE Name(i) == IF i = 1 THEN "request.json"
                        ELSE IF i <= n + 1 THEN tree[i - 1].name ELSE "resume-checkpoint.pt"
  <1>5. \A i \in DOMAIN Snapshot : /\ Snapshot[i].name = Name(i)
                                   /\ i \in 2 .. n + 1 => i - 1 \in DOMAIN tree
                                   /\ i \in Nat /\ i > 0 /\ (i > n + 1 => i = n + 2)
    <2> TAKE i \in DOMAIN Snapshot
    <2>1. CASE i = 1
      BY <1>2, <1>4, <2>1
    <2>2. CASE i \in 2 .. n + 1
      <3>1. i - 1 \in 1 .. n /\ Snapshot[i] = Workspace[i - 1]
        BY <1>2, <2>2
      <3> QED BY <1>2, <1>3, <2>2, <3>1
    <2>3. CASE i > n + 1
      <3>1. op = "resume" /\ i = n + 2
        BY <1>2, <2>3
      <3> QED BY <1>2, <1>4, <2>3, <3>1
    <2> QED BY <1>2, <2>1, <2>2, <2>3
  <1>6. \A i, k \in DOMAIN Snapshot : Name(i) = Name(k) => i = k
    <2>1. \A i \in DOMAIN tree : tree[i].name \notin {"request.json", "resume-checkpoint.pt"}
      BY <1>1, <1>4 DEF Listed
    <2>2. \A i, k \in DOMAIN tree : tree[i].name = tree[k].name => i = k
      BY <1>1 DEF Listed
    <2> QED BY <1>2, <1>5, <2>1, <2>2
  <1> QED BY <1>5, <1>6

\* Steps that put nothing new on the wire.
LEMMA ListingStays ==
    ASSUME Shape, Listing, UNCHANGED payload,
           \/ UNCHANGED wire
           \/ wire' \in Prefixes(wire)
           \/ wire' = <<>>
           \/ wire # <<>> /\ wire' = Tail(wire)
    PROVE  Listing'
  <1>0. wire \in Seq(Items)
    BY DEF Shape
  <1>1. \A j \in DOMAIN wire' : \E k \in DOMAIN wire : wire'[j] = wire[k]
    <2>1. CASE UNCHANGED wire
      BY <2>1
    <2>2. CASE wire' \in Prefixes(wire)
      BY <1>0, <2>2, PrefixType
    <2>3. CASE wire' = <<>>
      BY <2>3
    <2>4. CASE wire # <<>> /\ wire' = Tail(wire)
      BY <1>0, <2>4
    <2> QED BY <2>1, <2>2, <2>3, <2>4
  <1> QED BY <1>1 DEF Listing

\* No step breaks it.
LEMMA ListingNext == Shape /\ Named /\ Listing /\ [Next]_vars => Listing'
  <1> SUFFICES ASSUME Shape, Named, Listing, [Next]_vars PROVE Listing'
    OBVIOUS
  <1>1. CASE SendHeader \/ SendData \/ SendEnd
    <2>1. UNCHANGED payload /\ wire' = Append(wire, Sent) /\ wire \in Seq(Items) /\ Sent \in Items
      BY <1>1, SentType DEF SendHeader, SendData, SendEnd, Rest, Shape
    <2>2. Sent.item = "member" => \E i \in DOMAIN payload : Like(payload[i], Sent.of)
      <3> SUFFICES ASSUME Sent.item = "member" PROVE \E i \in DOMAIN payload : payload[i] = Sent.of
        BY DEF Like
      <3>1. SendHeader
        BY DEF Sent
      <3>2. Sent.of = payload[sender.at] /\ sender.at \in DOMAIN payload
        BY <1>1, <3>1, SentType, EntryType DEF SendHeader, Entry
      <3> QED BY <3>2
    <2>3. /\ DOMAIN wire' = 1 .. Len(wire) + 1 /\ wire'[Len(wire) + 1] = Sent
          /\ DOMAIN wire = 1 .. Len(wire) /\ Len(wire) \in Nat
          /\ \A j \in 1 .. Len(wire) : wire'[j] = wire[j]
      BY <2>1
    <2> QED BY <2>1, <2>2, <2>3 DEF Listing
  <1>2. CASE Touch
    <2>1. UNCHANGED wire
      BY <1>2 DEF Touch, stream
    <2>2. /\ DOMAIN payload' = DOMAIN payload
          /\ \A i \in DOMAIN payload :
                 /\ payload'[i].name = payload[i].name /\ payload'[i].size = payload[i].size
                 /\ payload'[i].kind \in {payload[i].kind, "gone"}
      BY <1>2, TouchedPayload
    <2>3. \A m : \A i \in DOMAIN payload : Like(payload[i], m) => Like(payload'[i], m)
      BY <2>2 DEF Like
    <2> QED BY <2>1, <2>2, <2>3 DEF Listing
  <1>3. CASE SendSnapshot /\ payload' = Snapshot /\ wire' = <<>>
    BY <1>3, SnapshotListed DEF Listing, Shape
  <1>4. CASE ~(SendHeader \/ SendData \/ SendEnd) /\ ~Touch
             /\ ~(SendSnapshot /\ payload' = Snapshot /\ wire' = <<>>)
    <2>1. CASE Sending \/ SenderExits
      BY <1>4, <2>1, ListingStays DEF Sending, SenderExits, Pack, SkipExcluded, Refuse,
             SenderBroken, Rest
    <2>2. CASE Reading
      BY <2>2, ListingStays DEF Reading, ReadDirectory, ReadHeader, ReadBlock, ReadEnd,
             ReadCutShort, ApplyModes, Outside, Arrived
    <2>3. CASE Calling \/ Finish \/ FetchAgain
      BY <1>4, <2>3, ListingStays DEF Calling, FetchAgain, Begin, Publish, SendSnapshot,
             WaitExpires, Finish, Reply, stream
    <2>4. CASE Cut \/ PushExpires \/ Kill \/ Vanish \/ UNCHANGED vars
      BY <2>4, ListingStays DEF Cut, PushExpires, Disconnect, Kill, Vanish, vars, stream
    <2> QED BY <1>4, <2>1, <2>2, <2>3, <2>4 DEF Next
  <1> QED BY <1>1, <1>2, <1>3, <1>4

-----------------------------------------------------------------------------
(* What is on disk has been counted.                                       *)

\* The files on disk, the one that is arriving included, are among those
\* counted, with their whole size.
Stocked ==
    /\ Cardinality(OnDisk) <= reader.files
    /\ SumFunctionOnSet(Sizes(payload), OnDisk) <= reader.bytes
    /\ reader.at = "data" => reader.left > 0

\* What is counted is within the limits of the extractor.
Counted == Within(reader.files, reader.bytes, ReaderLimit)

\* The limits are numbers.
LEMMA LimitType ==
    /\ ReaderLimit.files \in Nat /\ ReaderLimit.bytes \in Nat
    /\ ReaderLimit'.files \in Nat /\ ReaderLimit'.bytes \in Nat
  <1>1. /\ ExporterLimit \in [files: Nat, bytes: Nat] /\ CallerLimit \in [files: Nat, bytes: Nat]
        /\ RemoteLimit \in [files: Nat, bytes: Nat]
    BY TransferAssumption
  <1>2. [CallerLimit EXCEPT !.files = 1] \in [files: Nat, bytes: Nat]
    BY <1>1
  <1>3. ReaderLimit \in [files: Nat, bytes: Nat] /\ ReaderLimit' \in [files: Nat, bytes: Nat]
    BY <1>1, <1>2 DEF ReaderLimit
  <1> QED BY <1>3

\* The places of the payload and the sizes there.
LEMMA DiskType ==
    ASSUME Shape
    PROVE  /\ OnDisk \subseteq DOMAIN payload /\ IsFiniteSet(DOMAIN payload) /\ IsFiniteSet(OnDisk)
           /\ Cardinality(OnDisk) \in Nat
           /\ \A i \in DOMAIN payload : /\ payload[i].size \in Nat
                                        /\ Sizes(payload)[i] = payload[i].size
           /\ SumFunctionOnSet(Sizes(payload), OnDisk) \in Int
  <1>1. payload \in Seq(Entries) /\ DOMAIN payload = 1 .. Len(payload) /\ Len(payload) \in Nat
    BY DEF Shape
  <1>2. IsFiniteSet(DOMAIN payload) /\ OnDisk \subseteq DOMAIN payload
    BY <1>1, FS_Interval DEF OnDisk, Partial, Files
  <1>3. IsFiniteSet(OnDisk) /\ Cardinality(OnDisk) \in Nat
    BY <1>2, FS_Subset, FS_CardinalityType
  <1>4. \A i \in DOMAIN payload : payload[i].size \in Nat /\ Sizes(payload)[i] = payload[i].size
    <2> SUFFICES ASSUME NEW i \in DOMAIN payload PROVE payload[i].size \in Nat
      BY DEF Sizes
    <2>1. payload[i] \in Entries
      BY <1>1
    <2> QED BY <2>1 DEF Entries
  <1>5. SumFunctionOnSet(Sizes(payload), OnDisk) \in Int
    <2>1. \A i \in OnDisk : Sizes(payload)[i] \in Int
      BY <1>2, <1>4
    <2> QED BY <1>3, <2>1, SumSplits
  <1> QED BY <1>2, <1>3, <1>4, <1>5

\* Nothing more on disk.
LEMMA StockedShrinks ==
    ASSUME Shape, Shape', Stocked, OnDisk' \subseteq OnDisk, DOMAIN payload' = DOMAIN payload,
           \A i \in DOMAIN payload : payload'[i].size = payload[i].size,
           reader'.files = reader.files, reader'.bytes = reader.bytes,
           reader'.at = "data" => reader'.left > 0
    PROVE  Stocked'
  <1>1. /\ OnDisk \subseteq DOMAIN payload /\ IsFiniteSet(OnDisk)
        /\ \A i \in DOMAIN payload : /\ payload[i].size \in Nat
                                     /\ Sizes(payload)[i] = payload[i].size
    BY DiskType
  <1>2. \A i \in DOMAIN payload : Sizes(payload')[i] = payload[i].size
    BY DEF Sizes
  <1>3. Cardinality(OnDisk') <= Cardinality(OnDisk) /\ Cardinality(OnDisk') \in Nat
    BY <1>1, FS_Subset, FS_CardinalityType
  <1> DEFINE f == Sizes(payload')
             d == Sizes(payload)
             T == OnDisk'
             S == OnDisk
  <1>4. /\ T \in SUBSET S /\ IsFiniteSet(S)
        /\ \A i \in S : f[i] \in Nat /\ d[i] \in Nat /\ f[i] = d[i]
    BY <1>1, <1>2
  <1> HIDE DEF f, d, T, S
  <1>5. /\ SumFunctionOnSet(f, T) <= SumFunctionOnSet(d, S)
        /\ SumFunctionOnSet(f, T) \in Int /\ SumFunctionOnSet(d, S) \in Int
    BY <1>4, SumGrows
  <1>6. Cardinality(S) \in Nat
    BY DiskType DEF S
  <1>7. reader.files \in Nat /\ reader.bytes \in Nat
    BY Fields
  <1> QED BY <1>3, <1>5, <1>6, <1>7 DEF Stocked, S, T, f, d

\* A stream that begins.
LEMMA StockedFresh ==
    ASSUME Shape', held' = {}, \E p \in {"absent", "open"} : reader' = Extractor(p)
    PROVE  Stocked' /\ Counted'
  <1>1. reader'.at # "data" /\ reader'.files = 0 /\ reader'.bytes = 0
    BY DEF Extractor
  <1>2. OnDisk' = {}
    BY <1>1 DEF OnDisk, Partial
  <1>3. Cardinality(OnDisk') = 0 /\ SumFunctionOnSet(Sizes(payload'), OnDisk') = 0
    BY <1>2, FS_EmptySet, SumUnfold
  <1>4. ReaderLimit'.files \in Nat /\ ReaderLimit'.bytes \in Nat
    BY LimitType
  <1> QED BY <1>1, <1>3, <1>4 DEF Stocked, Counted, Within

\* A header that is accepted.
LEMMA StockedHeader ==
    ASSUME Shape, Named, Listing, Stocked, ReadHeader, Accepts(Member)
    PROVE  Stocked' /\ Counted'
  <1>0. UNCHANGED <<op, lost, leg, payload>> /\ Arrived("member") /\ Member.kind = "file"
    BY DEF ReadHeader, Outside, source
  <1>1. PICK k \in DOMAIN payload : Like(payload[k], Member)
    BY <1>0 DEF Listing, Arrived, Member, Shape
  <1>2. /\ Member.size \in Nat /\ reader.files \in Nat /\ reader.bytes \in Nat
        /\ reader'.files = reader.files + 1 /\ reader'.bytes = reader.bytes + Member.size
        /\ reader'.entry = Member.name /\ reader'.left = Member.size
        /\ reader'.at = (IF Member.size = 0 THEN "header" ELSE "data")
        /\ held' \subseteq held \cup {Member.name}
    BY <1>0, MemberType, Fields DEF ReadHeader
  <1>3. Counted'
    BY <1>0, <1>2 DEF Counted, Accepts, ReaderLimit, Pull, Launches, Within
  <1>4. OnDisk' \subseteq OnDisk \cup {k}
    <2> SUFFICES ASSUME NEW i \in OnDisk', i # k PROVE i \in OnDisk
      OBVIOUS
    <2>1. i \in DOMAIN payload /\ payload[i].name # Member.name
      BY <1>0, <1>1 DEF OnDisk, Partial, Files, Listing, Like
    <2> QED BY <1>0, <1>2, <2>1 DEF OnDisk, Partial, Files
  <1> DEFINE S == OnDisk
             T == OnDisk'
             d == Sizes(payload)
  <1>5. /\ IsFiniteSet(S) /\ Cardinality(S) \in Nat /\ S \subseteq DOMAIN payload
        /\ \A i \in DOMAIN payload : d[i] \in Nat
        /\ d[k] = Member.size /\ SumFunctionOnSet(d, S) \in Int
    BY <1>1, DiskType DEF Like
  <1>6. T \subseteq S \cup {k} /\ Sizes(payload') = d
    BY <1>0, <1>4
  <1> HIDE DEF S, T, d
  <1> DEFINE U == S \cup {k}
  <1>u. \/ U = S
        \/ /\ IsFiniteSet(U) /\ Cardinality(U) = Cardinality(S) + 1
           /\ SumFunctionOnSet(d, U) = SumFunctionOnSet(d, S) + d[k]
    <2>1. CASE k \in S
      <3>1. U = S
        BY <2>1
      <3> QED BY <3>1
    <2>2. CASE k \notin S
      <3>1. \A i \in S \cup {k} : d[i] \in Int
        BY <1>5
      <3>2. SumFunctionOnSet(d, S \cup {k}) = SumFunctionOnSet(d, S) + d[k]
        BY <1>5, <2>2, <3>1, SumAdds
      <3>3. IsFiniteSet(S \cup {k}) /\ Cardinality(S \cup {k}) = Cardinality(S) + 1
        BY <1>5, <2>2, FS_AddElement
      <3> QED BY <3>2, <3>3
    <2> QED BY <2>1, <2>2
  <1>t. T \in SUBSET U /\ \A i \in U : d[i] \in Nat /\ d[i] \in Int /\ d[i] <= d[i]
    BY <1>5, <1>6
  <1> HIDE DEF U
  <1>7. /\ IsFiniteSet(U) /\ Cardinality(U) \in Nat /\ Cardinality(U) <= Cardinality(S) + 1
        /\ SumFunctionOnSet(d, U) \in Int
        /\ SumFunctionOnSet(d, U) <= SumFunctionOnSet(d, S) + Member.size
    BY <1>2, <1>5, <1>u
  <1>8. Cardinality(T) <= Cardinality(U) /\ Cardinality(T) \in Nat
    BY <1>t, <1>7, FS_Subset, FS_CardinalityType
  <1>9. SumFunctionOnSet(d, T) \in Int /\ SumFunctionOnSet(d, T) <= SumFunctionOnSet(d, U)
    BY <1>t, <1>7, SumGrows
  <1>11. Cardinality(S) <= reader.files /\ SumFunctionOnSet(d, S) <= reader.bytes
    BY DEF Stocked, S, d
  <1>12. Cardinality(T) <= reader'.files /\ SumFunctionOnSet(d, T) <= reader'.bytes
    BY <1>2, <1>5, <1>7, <1>8, <1>9, <1>11
  <1>13. reader'.at = "data" => reader'.left > 0
    BY <1>2
  <1>14. Stocked'
    BY <1>6, <1>12, <1>13 DEF Stocked, T
  <1> QED BY <1>3, <1>14

\* The extractor or the caller stops where it is.
LEMMA StockedStays ==
    ASSUME Shape, Shape', Stocked, Counted, UNCHANGED <<op, leg, payload, held>>,
           UNCHANGED reader \/ \E p \in ExtractorStates \ {"data"} :
                                 reader' = [reader EXCEPT !.at = p]
    PROVE  Stocked' /\ Counted'
  <1>0. reader'.files = reader.files /\ reader'.bytes = reader.bytes
        /\ reader'.left = reader.left /\ reader'.entry = reader.entry
        /\ (reader'.at = "data" => reader.at = "data")
    BY DEF Shape, Extractors
  <1>1. OnDisk' \subseteq OnDisk
    BY <1>0 DEF OnDisk, Partial, Files
  <1>2. Stocked'
    BY <1>0, <1>1, StockedShrinks DEF Stocked
  <1>3. Counted'
    BY <1>0 DEF Counted, Within, ReaderLimit, Pull, Launches
  <1> QED BY <1>2, <1>3

\* No step breaks it.
LEMMA StockedNext ==
    ASSUME Inv, Inv', Listing, Stocked, Counted, [Next]_vars
    PROVE  Stocked' /\ Counted'
  <1>0. Shape /\ Shape' /\ Named /\ reader \in Extractors
    BY DEF Inv, Shape
  <1>s. /\ {"gone", "failed", "answered", "modes", "done", "header"}
              \subseteq ExtractorStates \ {"data"}
    BY DEF ExtractorStates
  <1>f. Fail \/ Raise => UNCHANGED reader \/ \E p \in ExtractorStates \ {"data"} :
                                                 reader' = [reader EXCEPT !.at = p]
    BY <1>s DEF Fail, Raise
  <1>1. CASE Sending \/ SenderExits
    <2>1. UNCHANGED <<op, lost, leg, payload, held>> /\ (Fail \/ UNCHANGED reader)
      BY <1>1 DEF Sending, SenderExits, Pack, SkipExcluded, Refuse, SendHeader, SendData,
             SendEnd, SenderBroken, Rest, source, extract
    <2> QED BY <1>0, <1>f, <2>1, StockedStays
  <1>2. CASE ReadDirectory
    <2>1. /\ UNCHANGED <<op, lost, leg, payload>> /\ Arrived("member") /\ Member.kind = "dir"
          /\ held' = held \cup {Member.name} /\ reader' = [reader EXCEPT !.at = "header"]
      BY <1>2 DEF ReadDirectory, Outside, source
    <2>2. PICK k \in DOMAIN payload : Like(payload[k], Member)
      BY <1>0, <2>1 DEF Listing, Arrived, Member, Shape
    <2>3. /\ reader'.files = reader.files /\ reader'.bytes = reader.bytes
          /\ reader'.at = "header"
      BY <1>0, <2>1 DEF Extractors
    <2>4. OnDisk' \subseteq OnDisk
      <3> SUFFICES ASSUME NEW i \in OnDisk' PROVE i \in OnDisk
        OBVIOUS
      <3>1. i \in Files(payload) /\ (payload[i].name \in held \/ payload[i].name = payload[k].name)
        BY <2>1, <2>2, <2>3 DEF OnDisk, Partial, Files, Like
      <3>2. k \notin Files(payload)
        BY <2>1, <2>2 DEF Files, Like
      <3> QED BY <3>1, <3>2 DEF OnDisk, Files, Listing
    <2>5. Stocked'
      BY <1>0, <2>1, <2>3, <2>4, StockedShrinks
    <2> QED BY <2>1, <2>3, <2>5 DEF Counted, Within, ReaderLimit, Pull, Launches
  <1>3. CASE ReadHeader /\ Accepts(Member)
    BY <1>0, <1>3, StockedHeader DEF ReadHeader
  <1>4. CASE ReadBlock
    <2>1. UNCHANGED <<op, lost, leg, payload>> /\ reader.at = "data"
          /\ held' = IF reader.left = 1 THEN held \cup {reader.entry} ELSE held
      BY <1>4 DEF ReadBlock, Outside, source
    <2>2. /\ reader'.entry = reader.entry /\ reader'.left = reader.left - 1
          /\ reader'.at = (IF reader.left = 1 THEN "header" ELSE "data")
          /\ reader.left \in Int /\ reader.left > 0
      BY <1>0, <1>4, <2>1, ReadBlockEffect, Fields DEF Stocked
    <2>3. reader'.files = reader.files /\ reader'.bytes = reader.bytes
      <3>1. reader' = [reader EXCEPT !.left = reader.left - 1,
                                     !.at = IF reader.left = 1 THEN "header" ELSE reader.at]
        BY <1>4 DEF ReadBlock
      <3> QED BY <1>0, <3>1 DEF Extractors
    <2>4. OnDisk' \subseteq OnDisk
      BY <2>1, <2>2 DEF OnDisk, Partial, Files
    <2>5. Stocked'
      BY <1>0, <2>1, <2>2, <2>3, <2>4, StockedShrinks
    <2> QED BY <2>1, <2>3, <2>5 DEF Counted, Within, ReaderLimit, Pull, Launches
  <1>5. CASE Reading /\ ~ReadDirectory /\ ~ReadBlock /\ ~(ReadHeader /\ Accepts(Member))
    <2>1. UNCHANGED <<op, lost, leg, payload, held>>
      BY <1>5 DEF Reading, ReadHeader, ReadEnd, ReadCutShort, ApplyModes, Outside, source
    <2>2. Raise \/ \E p \in {"modes", "done"} : reader' = [reader EXCEPT !.at = p]
      BY <1>5 DEF Reading, ReadHeader, ReadEnd, ReadCutShort, ApplyModes
    <2> QED BY <1>0, <1>f, <1>s, <2>1, <2>2, StockedStays
  <1>6. CASE held' = {} /\ \E p \in {"absent", "open"} : reader' = Extractor(p)
    BY <1>0, <1>6, StockedFresh
  <1>7. CASE /\ Calling \/ Finish \/ FetchAgain
             /\ ~(held' = {} /\ \E p \in {"absent", "open"} : reader' = Extractor(p))
    <2>1. Begin => held' = {}
      BY DEF Begin, Inv, Protocol, Fresh
    <2>2. UNCHANGED <<op, lost, leg, payload, held>>
      BY <1>7, <2>1 DEF Calling, FetchAgain, Begin, Publish, SendSnapshot, WaitExpires, Finish,
             Reply, source, extract
    <2>3. Fail \/ UNCHANGED reader \/ \E p \in {"gone", "answered", "failed"} :
                                          reader' = [reader EXCEPT !.at = p]
      BY <1>7, <2>1 DEF Calling, FetchAgain, Begin, Publish, SendSnapshot, WaitExpires, Finish,
             Reply, extract
    <2> QED BY <1>0, <1>f, <1>s, <2>2, <2>3, StockedStays
  <1>8. CASE Touch
    <2>1. UNCHANGED <<op, lost, leg, reader, held>>
      BY <1>8 DEF Touch, source, extract
    <2>2. /\ DOMAIN payload' = DOMAIN payload
          /\ \A i \in DOMAIN payload :
                 /\ payload'[i].name = payload[i].name /\ payload'[i].size = payload[i].size
                 /\ payload'[i].kind \in {payload[i].kind, "gone"}
      BY <1>0, <1>8, TouchedPayload
    <2>3. OnDisk' \subseteq OnDisk
      BY <2>1, <2>2 DEF OnDisk, Partial, Files
    <2>4. Stocked'
      BY <1>0, <2>1, <2>2, <2>3, StockedShrinks DEF Stocked
    <2> QED BY <2>1, <2>4 DEF Counted, Within, ReaderLimit, Pull, Launches
  <1>9. CASE Cut \/ PushExpires \/ Kill \/ Vanish \/ UNCHANGED vars
    <2>1. /\ UNCHANGED <<op, leg, payload, held>>
          /\ UNCHANGED reader \/ reader' = [reader EXCEPT !.at = "gone"]
      BY <1>9 DEF Cut, PushExpires, Disconnect, Kill, Vanish, vars, source, extract
    <2> QED BY <1>0, <1>s, <2>1, StockedStays
  <1> QED BY <1>1, <1>2, <1>3, <1>4, <1>5, <1>6, <1>7, <1>8, <1>9 DEF Next

LimitsInv == Listing /\ Stocked /\ Counted

\* As the program starts.
LEMMA LimitsInit == Init => LimitsInv
  <1> SUFFICES ASSUME Init PROVE LimitsInv
    OBVIOUS
  <1>1. Listing
    <2>1. payload = tree /\ tree \in Trees /\ wire = <<>>
      BY DEF Init
    <2>2. \A i, k \in DOMAIN payload : payload[i].name = payload[k].name => i = k
      BY <2>1, TransferAssumption, Zenon DEF Listed
    <2> QED BY <2>1, <2>2 DEF Listing
  <1>2. reader.at # "data" /\ reader.files = 0 /\ reader.bytes = 0 /\ held = {}
    BY DEF Init, Extractor
  <1>3. OnDisk = {}
    BY <1>2 DEF OnDisk, Partial
  <1>4. Cardinality(OnDisk) = 0 /\ SumFunctionOnSet(Sizes(payload), OnDisk) = 0
    BY <1>3, FS_EmptySet, SumUnfold
  <1> QED BY <1>1, <1>2, <1>4, LimitType DEF LimitsInv, Stocked, Counted, Within

\* No step breaks it.
LEMMA LimitsNext == Inv /\ Inv' /\ LimitsInv /\ [Next]_vars => LimitsInv'
  BY ListingNext, StockedNext DEF LimitsInv, Inv

\* What is written of a file is at most its size.
LEMMA LimitsFollow == Inv /\ LimitsInv => LimitsHold
  <1> SUFFICES ASSUME Inv, LimitsInv PROVE LimitsHold
    OBVIOUS
  <1>1. Shape
    BY DEF Inv
  <1>2. /\ OnDisk \subseteq DOMAIN payload /\ IsFiniteSet(OnDisk) /\ Cardinality(OnDisk) \in Nat
        /\ \A i \in DOMAIN payload : payload[i].size \in Nat /\ Sizes(payload)[i] = payload[i].size
    BY <1>1, DiskType
  <1>3. reader.left \in Int /\ (reader.at = "data" => reader.left > 0)
    BY <1>1, Fields DEF LimitsInv, Stocked
  <1>4. \A i \in DOMAIN payload : /\ Written[i] \in Int
                                  /\ Written[i] <= Sizes(payload)[i]
    BY <1>2, <1>3 DEF Written, Partial
  <1> DEFINE f == Written
             d == Sizes(payload)
  <1>5. \A i \in OnDisk : f[i] \in Int /\ d[i] \in Int /\ f[i] <= d[i]
    BY <1>2, <1>4
  <1> HIDE DEF f, d
  <1>6. /\ SumFunctionOnSet(f, OnDisk) \in Int /\ SumFunctionOnSet(d, OnDisk) \in Int
        /\ SumFunctionOnSet(f, OnDisk) <= SumFunctionOnSet(d, OnDisk)
    BY <1>2, <1>5, SumGrows
  <1>7. /\ reader.files \in Nat /\ reader.bytes \in Nat
        /\ ReaderLimit.files \in Nat /\ ReaderLimit.bytes \in Nat
    BY <1>1, Fields, LimitType
  <1>8. /\ Cardinality(OnDisk) <= reader.files /\ SumFunctionOnSet(d, OnDisk) <= reader.bytes
        /\ reader.files <= ReaderLimit.files /\ reader.bytes <= ReaderLimit.bytes
    BY DEF LimitsInv, Stocked, Counted, Within, d
  <1>9. /\ Cardinality(OnDisk) <= ReaderLimit.files
        /\ SumFunctionOnSet(f, OnDisk) <= ReaderLimit.bytes
    BY <1>2, <1>6, <1>7, <1>8
  <1> QED BY <1>9 DEF LimitsHold, Within, f

\* The files on disk, also the one that is arriving, never exceed the limits of
\* their extractor, whatever the headers declare.
THEOREM LimitsAreKept == Spec => []LimitsHold
  <1>1. Init => LimitsInv
    BY LimitsInit
  <1>2. Inv /\ Inv' /\ LimitsInv /\ [Next]_vars => LimitsInv'
    BY LimitsNext
  <1>3. Inv /\ LimitsInv => LimitsHold
    BY LimitsFollow
  <1> QED BY <1>1, <1>2, <1>3, InvHolds, PTL DEF Spec

-----------------------------------------------------------------------------
(* What is legal succeeds.                                                 *)

\* What the limits of the code leave: the container's exporter allows what a
\* caller does, and the training host the request and the checkpoint besides.
\* In the code a caller allows 10 000 files and 256 MiB (controller.py:806), the
\* exporter 10 000 files and 4 GiB (workspace_transfer.py:23), the training host
\* 10 005 files and 5 GiB (remote_protocol.py:14), and a checkpoint has at most
\* 4 GiB (controller.py:42).
Roomy ==
    /\ CallerLimit.files <= ExporterLimit.files /\ CallerLimit.bytes <= ExporterLimit.bytes
    /\ CallerLimit.files + 2 <= RemoteLimit.files
    /\ CallerLimit.bytes + Request.size + Checkpoint.size <= RemoteLimit.bytes

\* Nothing has gone wrong with a legal tree.
Calm == Legal /\ fault = "none"

\* The files that a stream has to carry, and how much of them is in some places.
Cargo == Files(payload) \cap Carried
Load(places) == SumFunctionOnSet(Sizes(payload), places)

\* They are regular and within the limits of both ends.
Light ==
    /\ \A i \in Carried : Regular(payload[i])
    /\ Within(Cardinality(Cargo), Load(Cargo), ReaderLimit)
    /\ Pull /\ op # "fetch" => Within(Cardinality(Cargo), Load(Cargo), ExporterLimit)
    /\ Pull \/ ~Launches => payload = tree

\* Nobody has failed.
Peace ==
    /\ sender.code = 0 /\ call \in {"new", "busy", "ok"} /\ reader.at # "failed"
    /\ reader.at = "gone" => Pull /\ call = "ok"
    /\ sender.state = "pack" => ~Pull

\* The last item on the wire is the end marker, unless the writer is at work.
EndComes ==
    Sealed /\ reader.at \in {"open", "header", "data"} =>
        wire # <<>> /\ wire[Len(wire)].item = "end"

\* Nothing is locked before the archive is complete.
Unlocked ==
    reader.at \in {"absent", "open", "header", "data", "modes"} => locked = {}

\* The extractor has counted what is on disk, and nothing else is there.
Stored ==
    /\ OnDisk \subseteq Cargo
    /\ reader.files = Cardinality(OnDisk) /\ reader.bytes = Load(OnDisk)

\* The writer has counted what it has sent.
Gone == {i \in Cargo : i < sender.at \/ (i = sender.at /\ sender.left > 0)}
Counts == sender.files = Cardinality(Gone) /\ sender.bytes = Load(Gone)

\* While nothing goes wrong with a legal tree, all of it holds.
Smooth == Calm => Light /\ Peace /\ EndComes /\ Stored /\ Counts

\* What export-file walks is one entry.
OneFile == op = "file" => Len(tree) = 1
LegalInv == OneFile /\ Unlocked /\ Smooth

\* Whatever holds at every moment.
Known == Inv /\ LimitsInv /\ LegalInv

\* A legal tree stays legal, and what has gone wrong stays wrong.
LEMMA CalmBefore ==
    ASSUME [Next]_vars
    PROVE  UNCHANGED <<op, tree, Legal>> /\ (Calm' => Calm /\ fault' = "none")
  <1>1. UNCHANGED <<op, tree>> /\ (fault' = "none" => fault = "none")
    <2>1. CASE Sending \/ SenderExits
      BY <2>1 DEF Sending, SenderExits, Pack, SkipExcluded, Refuse, SendHeader, SendData,
             SendEnd, SenderBroken, Rest, source
    <2>2. CASE Reading
      BY <2>2 DEF Reading, ReadDirectory, ReadHeader, ReadBlock, ReadEnd, ReadCutShort,
             ApplyModes, Outside, source
    <2>3. CASE Calling \/ Finish \/ FetchAgain
      BY <2>3 DEF Calling, FetchAgain, Begin, Publish, SendSnapshot, WaitExpires, Finish,
             Reply, source
    <2>4. CASE Cut \/ PushExpires \/ Kill \/ Touch \/ Vanish \/ UNCHANGED vars
      BY <2>4 DEF Cut, PushExpires, Disconnect, Kill, Touch, Vanish, vars, source
    <2> QED BY <2>1, <2>2, <2>3, <2>4 DEF Next
  <1>2. UNCHANGED Legal
    BY <1>1 DEF Legal, Exported, Kept, Fits, Launches
  <1> QED BY <1>1, <1>2 DEF Calm

\* The files of a stream.
LEMMA CargoType ==
    ASSUME Shape
    PROVE  /\ Cargo \subseteq DOMAIN payload /\ IsFiniteSet(Cargo) /\ Cardinality(Cargo) \in Nat
           /\ Load(Cargo) \in Int
           /\ \A i \in DOMAIN payload : /\ payload[i].size \in Nat
                                        /\ Sizes(payload)[i] = payload[i].size
  <1>1. Cargo \subseteq DOMAIN payload
    BY DEF Cargo, Files
  <1>2. IsFiniteSet(Cargo) /\ Cardinality(Cargo) \in Nat
    BY <1>1, DiskType, FS_Subset, FS_CardinalityType
  <1>3. \A i \in Cargo : Sizes(payload)[i] \in Int
    BY <1>1, DiskType
  <1> QED BY <1>1, <1>2, <1>3, DiskType, SumSplits DEF Load

\* One file more, of those to be carried.
LEMMA CargoAdds ==
    ASSUME Shape, NEW S \in SUBSET Cargo, NEW k \in Cargo, k \notin S
    PROVE  /\ Cardinality(S \cup {k}) = Cardinality(S) + 1 /\ Cardinality(S) \in Nat
           /\ Load(S \cup {k}) = Load(S) + payload[k].size /\ Load(S) \in Int
           /\ Cardinality(S) + 1 <= Cardinality(Cargo)
           /\ Load(S) + payload[k].size <= Load(Cargo)
  <1> DEFINE U == S \cup {k}
             d == Sizes(payload)
             C == Cargo
  <1>1. /\ C \subseteq DOMAIN payload /\ IsFiniteSet(C) /\ Cardinality(C) \in Nat
        /\ \A i \in C : d[i] \in Nat
        /\ d[k] = payload[k].size /\ payload[k].size \in Nat
    BY CargoType
  <1>2. U \in SUBSET C /\ IsFiniteSet(S) /\ IsFiniteSet(U)
    BY <1>1, FS_Subset
  <1>3. /\ \A i \in U : d[i] \in Int
        /\ \A i \in U : d[i] \in Int /\ d[i] \in Int /\ d[i] <= d[i]
        /\ \A i \in C \ U : d[i] \in Nat
    BY <1>1, <1>2
  <1> HIDE DEF d, C
  <1>4. /\ Cardinality(S \cup {k}) = Cardinality(S) + 1
        /\ Cardinality(S) \in Nat
    BY <1>2, FS_AddElement, FS_CardinalityType
  <1>5. /\ SumFunctionOnSet(d, S \cup {k}) = SumFunctionOnSet(d, S) + d[k]
        /\ SumFunctionOnSet(d, S) \in Int
    BY <1>2, <1>3, SumAdds
  <1> HIDE DEF U
  <1>6. Cardinality(U) <= Cardinality(C)
    BY <1>1, <1>2, FS_Subset
  <1>7. SumFunctionOnSet(d, U) <= SumFunctionOnSet(d, C)
    BY <1>1, <1>2, <1>3, SumGrows
  <1> QED BY <1>1, <1>4, <1>5, <1>6, <1>7 DEF Load, U, d, C

\* An extractor at work belongs to a call in progress.
LEMMA AtWork ==
    ASSUME Known, Calm, reader.at \in {"open", "header", "data", "modes", "done"}
    PROVE  call = "busy" /\ sender.code = 0 /\ Streaming
  BY DEF Known, Inv, LegalInv, Smooth, Peace, Protocol, Fresh, Returned, Flow

\* The member that arrives is the next entry that has to be carried, and it is
\* not there yet.
LEMMA MemberIsNext ==
    ASSUME Known, Calm, reader.at \in {"open", "header"}, Arrived("member")
    PROVE  \E k \in Carried : /\ payload[k].name = Member.name /\ payload[k].size = Member.size
                              /\ payload[k].kind = Member.kind /\ k \notin OnDisk
                              /\ k \in DOMAIN payload
  <1>0. Shape /\ Streaming /\ wire # <<>> /\ Head(wire).item = "member" /\ Listing
    BY AtWork DEF Known, Inv, LimitsInv, Arrived
  <1>1. PICK a \in [Nat -> Nat], l \in [Nat -> Nat] :
              /\ Chain(a, l) /\ Arrives(a[1], l[1])
              /\ Passes(Carried, Titles, Head(wire), a[1], l[1], a[2], l[2])
    BY <1>0, ItemArrives
  <1>2. PICK k \in Carried : a[1] <= k /\ Head(wire).of.name = Titles[k]
    BY <1>0, <1>1 DEF Passes
  <1>3. k \in DOMAIN payload /\ payload[k].name = Member.name
    BY <1>0, <1>2, CarriedTypes DEF Member
  <1>4. PICK m \in DOMAIN payload : Like(payload[m], Member)
    <2>1. 1 \in DOMAIN wire /\ Head(wire) = wire[1]
      BY <1>0 DEF Shape
    <2> QED BY <1>0, <2>1 DEF Listing, Member
  <1>5. Like(payload[k], Member)
    BY <1>0, <1>3, <1>4 DEF Listing, Like
  <1>6. Regular(payload[k])
    BY DEF Known, LegalInv, Smooth, Light
  <1>7. k \notin OnDisk
    <2> SUFFICES ASSUME payload[k].name \in held PROVE FALSE
      BY DEF OnDisk, Partial
    <2>1. PICK i \in Carried : i < a[1] /\ Titles[i] = payload[k].name
      BY <1>1 DEF Arrives, Before
    <2>2. i \in DOMAIN payload /\ payload[i].name = payload[k].name /\ i \in Nat /\ k \in Nat
      BY <1>0, <2>1, CarriedTypes
    <2>3. i = k
      BY <1>0, <1>3, <2>2 DEF Listing
    <2> QED BY <1>2, <2>1, <2>2, <2>3
  <1> QED BY <1>3, <1>5, <1>6, <1>7 DEF Like, Regular

-----------------------------------------------------------------------------
(* Nobody fails.                                                           *)

\* What the writer sends is allowed.
LEMMA NoRefusal ==
    ASSUME Known, Calm, Roomy
    PROVE  ~Refuse /\ ~SenderBroken
  <1>0. Shape /\ Light /\ Peace /\ Counts
    BY DEF Known, Inv, LegalInv, Smooth
  <1>1. ASSUME SenderBroken PROVE FALSE
    BY <1>0, <1>1 DEF SenderBroken, Peace, Known, Inv, Protocol, NothingLeft
  <1>2. ASSUME Working, sender.left > 0, ~Regular(Entry) PROVE FALSE
    BY <1>0, <1>2 DEF Known, Inv, Protocol, Orderly, Light, Carried, Entry
  <1>3. ASSUME Working, sender.left = 0, ~Excluded(Entry) PROVE Allowed(Entry)
    <2> DEFINE k == sender.at
    <2>1. k \in Carried /\ Entry = payload[k] /\ k \in DOMAIN payload
      BY <1>0, <1>3, EntryType DEF Carried, Entry
    <2>2. Regular(Entry)
      BY <1>0, <2>1 DEF Light
    <2>3. ASSUME Entry.kind = "file" PROVE SenderAllows(sender.files + 1, sender.bytes + Entry.size)
      <3>1. k \in Cargo /\ k \notin Gone /\ Gone \in SUBSET Cargo
        BY <1>3, <2>1, <2>3, EntryType DEF Cargo, Files, Gone
      <3>2. /\ sender.files + 1 <= Cardinality(Cargo)
            /\ sender.bytes + Entry.size <= Load(Cargo)
        BY <1>0, <2>1, <3>1, CargoAdds DEF Counts
      <3>3. ASSUME Pull, op # "fetch"
            PROVE  Within(sender.files + 1, sender.bytes + Entry.size, ExporterLimit)
        <4>1. Within(Cardinality(Cargo), Load(Cargo), ExporterLimit)
          BY <1>0, <3>3 DEF Light
        <4>2. /\ ExporterLimit.files \in Nat /\ ExporterLimit.bytes \in Nat
              /\ Cardinality(Cargo) \in Nat /\ Load(Cargo) \in Int
              /\ sender.files \in Nat /\ sender.bytes \in Nat /\ Entry.size \in Nat
          BY <1>0, <1>3, TransferAssumption, CargoType, Fields, EntryType
        <4> QED BY <3>2, <4>1, <4>2 DEF Within
      <3> QED BY <3>3 DEF SenderAllows
    <2> QED BY <2>2, <2>3 DEF Allowed
  <1> QED BY <1>1, <1>2, <1>3 DEF Refuse

\* What arrives is accepted, and the end marker with it.
LEMMA NoRaise ==
    ASSUME Known, Calm
    PROVE  /\ ReadHeader => Accepts(Member)
           /\ ~ReadCutShort
  <1>0. Shape /\ Light /\ Stored /\ EndComes /\ Listed(tree)
    BY TransferAssumption DEF Known, Inv, LegalInv, Smooth, Shape
  <1>1. ASSUME ReadCutShort PROVE FALSE
    <2>1. reader.at \in {"open", "data"} /\ wire = <<>> /\ ended
      BY <1>1 DEF ReadCutShort
    <2>2. Sealed
      BY <2>1, AtWork DEF Streaming, Sealed
    <2> QED BY <1>0, <2>1, <2>2 DEF EndComes
  <1>2. ASSUME ReadHeader PROVE Accepts(Member)
    <2>0. reader.at \in {"open", "header"} /\ Arrived("member") /\ Member.kind = "file"
      BY <1>2 DEF ReadHeader
    <2>1. PICK k \in Carried : /\ payload[k].size = Member.size /\ payload[k].kind = Member.kind
                               /\ k \notin OnDisk /\ k \in DOMAIN payload
      BY <2>0, MemberIsNext
    <2>2. k \in Cargo /\ OnDisk \in SUBSET Cargo
      BY <1>0, <2>0, <2>1 DEF Cargo, Files, Stored
    <2>3. /\ reader.files + 1 <= Cardinality(Cargo)
          /\ reader.bytes + Member.size <= Load(Cargo)
      BY <1>0, <2>1, <2>2, CargoAdds DEF Stored
    <2>4. Within(Cardinality(Cargo), Load(Cargo), ReaderLimit)
      BY <1>0 DEF Light
    <2>5. /\ ReaderLimit.files \in Nat /\ ReaderLimit.bytes \in Nat
          /\ Cardinality(Cargo) \in Nat /\ Load(Cargo) \in Int
          /\ reader.files \in Nat /\ reader.bytes \in Nat /\ Member.size \in Nat
      BY <1>0, <2>0, LimitType, CargoType, Fields, MemberType DEF Known, Inv
    <2>6. Within(reader.files + 1, reader.bytes + Member.size, ReaderLimit)
      BY <2>3, <2>4, <2>5 DEF Within
    <2>7. locked = {}
      BY <2>0 DEF Known, LegalInv, Unlocked
    <2> QED BY <2>6, <2>7 DEF Accepts
  <1> QED BY <1>1, <1>2

\* The files of the tree among some entries that may be exported.
LEMMA FitsLess ==
    ASSUME Shape, NEW limit \in [files: Nat, bytes: Nat], Fits(Exported, limit),
           NEW S \in SUBSET Exported
    PROVE  Fits(S, limit)
  <1> DEFINE E == Files(tree) \cap Exported
             F == Files(tree) \cap S
             d == Sizes(tree)
  <1>1. tree \in Seq(Entries) /\ IsFiniteSet(DOMAIN tree)
    <2>1. tree \in Seq(Entries)
      BY TransferAssumption DEF Shape, Listed
    <2>2. DOMAIN tree = 1 .. Len(tree) /\ Len(tree) \in Nat
      BY <2>1
    <2> QED BY <2>1, <2>2, FS_Interval
  <1>2. IsFiniteSet(E) /\ F \in SUBSET E /\ E \subseteq DOMAIN tree
    BY <1>1, FS_Subset DEF Files, Exported
  <1>3. \A i \in DOMAIN tree : d[i] \in Nat
    <2> SUFFICES ASSUME NEW i \in DOMAIN tree PROVE tree[i].size \in Nat
      BY DEF Sizes
    <2>1. tree[i] \in Entries
      BY <1>1
    <2> QED BY <2>1 DEF Entries
  <1>4. /\ \A i \in F : d[i] \in Int /\ d[i] \in Int /\ d[i] <= d[i]
        /\ \A i \in E \ F : d[i] \in Nat
    BY <1>2, <1>3
  <1>5. Within(Cardinality(E), SumFunctionOnSet(d, E), limit)
    BY DEF Fits
  <1> HIDE DEF E, F, d
  <1>6. /\ Cardinality(F) \in Nat /\ Cardinality(E) \in Nat /\ Cardinality(F) <= Cardinality(E)
    BY <1>2, FS_Subset, FS_CardinalityType
  <1>7. /\ SumFunctionOnSet(d, F) \in Int /\ SumFunctionOnSet(d, E) \in Int
        /\ SumFunctionOnSet(d, F) <= SumFunctionOnSet(d, E)
    BY <1>2, <1>4, SumGrows
  <1>8. Within(Cardinality(F), SumFunctionOnSet(d, F), limit)
    BY <1>5, <1>6, <1>7 DEF Within
  <1> QED BY <1>8 DEF Fits, F, d

\* The caller has nothing to complain of.
LEMMA NoComplaint ==
    ASSUME Known, Calm
    PROVE  /\ Publish => Succeeds /\ (op = "file" => Cardinality(held) = 1)
           /\ SendSnapshot => Succeeds /\ Fits({i \in Kept : tree[i].name \in held}, CallerLimit)
           /\ Finish => ~Launches \/ PayloadUsable(held)
           /\ Reply => reader.at = "answered"
  <1>0. Shape /\ Peace /\ Listed(tree) /\ Legs
    BY TransferAssumption DEF Known, Inv, LegalInv, Smooth, Shape
  <1>1. ASSUME reader.at = "done" PROVE held = Wanted /\ sender.code = 0
    BY <1>1, AtWork DEF Streaming
  <1>2. ASSUME Publish PROVE Succeeds /\ (op = "file" => Cardinality(held) = 1)
    <2>1. held = Wanted /\ Succeeds /\ Pull /\ ~Launches
      BY <1>1, <1>2 DEF Publish, Ready, Succeeds
    <2>2. ASSUME op = "file" PROVE Cardinality(held) = 1
      <3>1. held = Names(tree)
        BY <1>0, <2>1, <2>2, PullWanted
      <3>2. Len(tree) = 1 /\ tree \in Seq(Entries)
        BY <1>0, <2>2 DEF Known, LegalInv, OneFile, Listed
      <3>3. held = {tree[1].name}
        BY <3>1, <3>2 DEF Names
      <3> QED BY <3>3, FS_Singleton
    <2> QED BY <2>1, <2>2
  <1>3. ASSUME SendSnapshot
        PROVE  Succeeds /\ Fits({i \in Kept : tree[i].name \in held}, CallerLimit)
    <2>1. Succeeds /\ Launches
      BY <1>1, <1>3 DEF SendSnapshot, Ready, Succeeds
    <2>2. Fits(Exported, CallerLimit)
      BY <2>1 DEF Calm, Legal, Launches
    <2>3. {i \in Kept : tree[i].name \in held} \in SUBSET Exported
      BY DEF Kept, Exported
    <2>4. CallerLimit \in [files: Nat, bytes: Nat]
      BY TransferAssumption
    <2> QED BY <1>0, <2>1, <2>2, <2>3, <2>4, FitsLess
  <1>4. ASSUME Finish, Launches PROVE PayloadUsable(held)
    <2>1. held = Asked
      BY <1>0, <1>1, <1>4 DEF Finish, Legs
    <2>2. PICK i \in Kept : TRUE
      BY <1>4 DEF Calm, Legal
    <2>3. tree[i].name \in Asked /\ tree[i].name \in Names(tree) /\ Request.name \in Asked
      BY <1>0, <1>4, <2>2 DEF Asked, Kept, Names, Shape, Calm
    <2> QED BY <2>1, <2>3 DEF PayloadUsable
  <1>5. ASSUME Reply PROVE reader.at = "answered"
    BY <1>0, <1>5 DEF Reply, Peace
  <1> QED BY <1>2, <1>3, <1>4, <1>5

\* What goes wrong is seen.
LEMMA NoFault ==
    ASSUME Calm', [Next]_vars
    PROVE  ~Cut /\ ~PushExpires /\ ~Kill /\ ~Touch /\ ~Vanish /\ ~WaitExpires
  BY DEF Calm, Cut, PushExpires, Kill, Touch, Vanish, WaitExpires

\* The snapshot of a legal workspace is as light, with the request and the
\* checkpoint.
LEMMA SnapshotLight ==
    ASSUME Known, Calm, Roomy, UNCHANGED <<op, tree, lost>>, Launches,
           Fits({i \in Kept : tree[i].name \in held}, CallerLimit),
           leg' = "push", payload' = Snapshot, Shape'
    PROVE  Light'
  <1> DEFINE n == Len(tree)
             F == Files(tree) \cap {i \in Kept : tree[i].name \in held}
             f == Sizes(tree)
             C == Cargo'
             z == Sizes(payload')
  <1>0. tree \in Seq(Entries)
    BY TransferAssumption DEF Listed, Known, Inv, Shape
  <1>1. /\ n \in Nat /\ DOMAIN tree = 1 .. n
        /\ DOMAIN payload' = 1 .. n + 1 + (IF op = "resume" THEN 1 ELSE 0)
        /\ payload'[1] = Request
        /\ \A i \in 1 .. n : payload'[i + 1] = Workspace[i]
        /\ op = "resume" => payload'[n + 2] = Checkpoint
    BY <1>0, SnapshotPlaces
  <1>2. /\ Request.size = 1 /\ Checkpoint.size = 1 /\ Request.kind = "file"
        /\ Checkpoint.kind = "file"
    BY DEF Request, Checkpoint
  <1>3. \A i \in 1 .. n : tree[i] \in Entries /\ tree[i].size \in Nat
    <2> TAKE i \in 1 .. n
    <2>1. tree[i] \in Entries
      BY <1>0, <1>1
    <2> QED BY <2>1 DEF Entries
  <1>4. Carried' = {i \in DOMAIN payload' : payload'[i].skip \notin {"excluded", "ignored"}}
    <2>1. lost' = {}
      BY DEF Known, Inv, Shape, Calm
    <2> QED BY <2>1 DEF Carried, Excluded, Launches, Pull
  <1>5. \A i \in 1 .. n : i + 1 \in Carried' =>
            /\ payload'[i + 1] = tree[i] /\ i \in Kept /\ tree[i].name \in held /\ i \in Exported
    <2> SUFFICES ASSUME NEW i \in 1 .. n, i + 1 \in Carried'
                 PROVE  /\ payload'[i + 1] = tree[i] /\ i \in Kept /\ tree[i].name \in held
                        /\ i \in Exported
      OBVIOUS
    <2>1. payload'[i + 1] = Workspace[i] /\ Workspace[i].skip \notin {"excluded", "ignored"}
      BY <1>1, <1>4
    <2>2. Workspace[i] = IF tree[i].name \in held THEN tree[i]
                         ELSE [tree[i] EXCEPT !.skip = "excluded"]
      BY <1>0, <1>1, SnapshotType
    <2>3. [tree[i] EXCEPT !.skip = "excluded"].skip = "excluded"
      BY <1>3 DEF Entries
    <2>4. tree[i].name \in held /\ Workspace[i] = tree[i]
      BY <2>1, <2>2, <2>3
    <2>5. tree[i].skip = "no"
      BY <1>3, <2>1, <2>4 DEF Entries
    <2> QED BY <1>1, <2>1, <2>4, <2>5 DEF Kept, Exported
  <1>6. \A i \in DOMAIN payload' : /\ i \in Nat
                                   /\ \/ i = 1
                                      \/ i - 1 \in 1 .. n /\ i - 1 + 1 = i
                                      \/ i = n + 2 /\ op = "resume"
    BY <1>1
  <1>7. \A i \in Carried' : Regular(payload'[i])
    <2> SUFFICES ASSUME NEW i \in Carried' PROVE Regular(payload'[i])
      OBVIOUS
    <2>0. i \in DOMAIN payload'
      BY <1>4
    <2>1. CASE i = 1 \/ (i = n + 2 /\ op = "resume")
      <3>1. payload'[i].kind = "file"
        BY <1>1, <1>2, <2>1
      <3> QED BY <3>1 DEF Regular
    <2>2. CASE i - 1 \in 1 .. n /\ i - 1 + 1 = i
      <3>1. payload'[i] = tree[i - 1] /\ i - 1 \in Exported
        BY <1>5, <2>2
      <3>2. Regular(tree[i - 1])
        BY <3>1 DEF Calm, Legal
      <3> QED BY <3>1, <3>2
    <2> QED BY <1>6, <2>0, <2>1, <2>2
  <1>8. C \in SUBSET Nat /\ F \in SUBSET (1 .. n) /\ \A i \in F : f[i] \in Nat
    BY <1>1, <1>3, <1>6 DEF Cargo, Files, Sizes
  <1>9. Between(z, C, n, 1, 1, f, F)
    <2> SUFFICES ASSUME NEW i \in C
                 PROVE  /\ z[i] \in Nat
                        /\ \/ i = 1 /\ z[i] = 1
                           \/ i = n + 2 /\ z[i] = 1
                           \/ i - 1 \in F /\ z[i] = f[i - 1]
      BY DEF Between
    <2>1. /\ i \in DOMAIN payload' /\ i \in Carried' /\ payload'[i].kind = "file"
          /\ z[i] = payload'[i].size
      BY DEF Cargo, Files, Sizes
    <2>2. CASE i = 1 \/ (i = n + 2 /\ op = "resume")
      BY <1>1, <1>2, <2>1, <2>2
    <2>3. CASE i - 1 \in 1 .. n /\ i - 1 + 1 = i
      <3>1. payload'[i] = tree[i - 1] /\ i - 1 \in F
        BY <1>1, <1>5, <2>1, <2>3 DEF Files
      <3>2. f[i - 1] = tree[i - 1].size
        BY <1>1, <2>3 DEF Sizes
      <3> QED BY <1>3, <2>1, <2>3, <3>1, <3>2
    <2> QED BY <1>6, <2>1, <2>2, <2>3
  <1>10. Within(Cardinality(F), SumFunctionOnSet(f, F), CallerLimit)
    BY DEF Fits
  <1>u. 1 \in Nat
    OBVIOUS
  <1> HIDE DEF n, F, f, C, z
  <1>11. /\ Cardinality(C) <= Cardinality(F) + 2
         /\ SumFunctionOnSet(z, C) <= SumFunctionOnSet(f, F) + 1 + 1
         /\ Cardinality(C) \in Nat /\ Cardinality(F) \in Nat
         /\ SumFunctionOnSet(z, C) \in Int /\ SumFunctionOnSet(f, F) \in Int
    BY <1>1, <1>8, <1>9, <1>u, SumBetween
  <1>12. /\ CallerLimit.files \in Nat /\ CallerLimit.bytes \in Nat
         /\ RemoteLimit.files \in Nat /\ RemoteLimit.bytes \in Nat
    BY TransferAssumption
  <1>13. Cardinality(C) <= RemoteLimit.files /\ SumFunctionOnSet(z, C) <= RemoteLimit.bytes
    BY <1>2, <1>10, <1>11, <1>12 DEF Roomy, Within
  <1>14. ReaderLimit' = RemoteLimit /\ ~Pull' /\ Launches'
    BY DEF ReaderLimit, Pull, Launches
  <1>15. Within(Cardinality(Cargo), Load(Cargo), ReaderLimit)'
    BY <1>13, <1>14 DEF Within, Load, C, z
  <1> QED BY <1>7, <1>14, <1>15 DEF Light

-----------------------------------------------------------------------------
(* The steps of a transfer in which nobody fails.                          *)

\* The writer goes on, the extractor takes what arrives, a process starts, the
\* call succeeds, the archive of a push is packed.
Sends == SkipExcluded \/ SendHeader \/ SendData \/ SendEnd \/ SenderExits
Takes == \/ ReadDirectory \/ ReadBlock \/ ReadEnd \/ ApplyModes
         \/ ReadHeader /\ Accepts(Member)
Turns == Begin \/ FetchAgain \/ (SendSnapshot /\ leg' = "push" /\ payload' = Snapshot)
Ends  == \/ Publish /\ call' = "ok"
         \/ Finish /\ reader' = [reader EXCEPT !.at = "answered"]
         \/ Reply /\ call' = "ok"
Packs == Pack /\ sender' = [sender EXCEPT !.state = "walk"] /\ UNCHANGED <<call, ended, reader>>

\* As long as nothing has gone wrong with a legal tree, every step is one of
\* them.
LEMMA CalmStep ==
    ASSUME Known, Roomy, Calm', [Next]_vars
    PROVE  Calm /\ (Packs \/ Sends \/ Takes \/ Turns \/ Ends \/ UNCHANGED vars)
  <1>0. Calm /\ Light
    BY CalmBefore DEF Known, LegalInv, Smooth
  <1>1. ASSUME Pack PROVE Packs
    <2>1. \A i \in DOMAIN payload : Excluded(payload[i]) \/ Regular(payload[i])
      BY <1>0 DEF Light, Carried
    <2> QED BY <1>1, <2>1 DEF Pack, Packs
  <1>2. Sending \/ SenderExits => Packs \/ Sends
    BY <1>0, <1>1, NoRefusal DEF Sending, Sends
  <1>3. Reading => Takes
    BY <1>0, NoRaise DEF Reading, Takes
  <1>4. Calling \/ Finish \/ FetchAgain => Turns \/ Ends
    <2>1. Publish => call' = "ok"
      BY <1>0, NoComplaint DEF Publish
    <2>2. SendSnapshot => leg' = "push" /\ payload' = Snapshot
      BY <1>0, NoComplaint DEF SendSnapshot
    <2>3. Finish => reader' = [reader EXCEPT !.at = "answered"]
      BY <1>0, NoComplaint DEF Finish
    <2>4. Reply => call' = "ok"
      BY <1>0, NoComplaint DEF Reply
    <2> QED BY <2>1, <2>2, <2>3, <2>4, NoFault DEF Calling, Turns, Ends
  <1> QED BY <1>0, <1>2, <1>3, <1>4, NoFault DEF Next

\* What the stream has to carry stays as it is, or is that of the snapshot.
LEMMA LightNext ==
    ASSUME Known, Roomy, Calm', [Next]_vars
    PROVE  Light'
  <1>0. Calm /\ Light /\ Shape'
    BY CalmStep, InvNext DEF Known, LegalInv, Smooth, Inv
  <1>1. CASE UNCHANGED <<op, tree, lost, leg, payload>>
    <2>1. UNCHANGED <<Carried, Cargo, ReaderLimit>>
      BY <1>1, CarriedStay DEF Cargo, ReaderLimit, Pull, Launches
    <2>2. UNCHANGED Load(Cargo)
      BY <1>1, <2>1 DEF Load
    <2> QED BY <1>0, <1>1, <2>1, <2>2 DEF Light, Pull, Launches
  <1>2. CASE SendSnapshot /\ leg' = "push" /\ payload' = Snapshot
    BY <1>0, <1>2, NoComplaint, SnapshotLight DEF SendSnapshot, source
  <1>3. CASE ~(SendSnapshot /\ leg' = "push" /\ payload' = Snapshot)
    <2>1. Packs \/ Sends \/ Takes \/ Begin \/ FetchAgain \/ Ends \/ UNCHANGED vars
      BY <1>3, CalmStep DEF Turns
    <2>2. UNCHANGED <<op, tree, lost, leg, payload>>
      BY <2>1 DEF Packs, Pack, Sends, SkipExcluded, SendHeader, SendData, SendEnd, SenderExits,
             Rest, Takes, ReadDirectory, ReadHeader, ReadBlock, ReadEnd, ApplyModes, Outside,
             Begin, FetchAgain, Ends, Publish, Finish, Reply, source, vars
    <2> QED BY <1>1, <2>2
  <1> QED BY <1>2, <1>3

\* A name that is left out.
LEMMA SkipEffect ==
    ASSUME Shape, SkipExcluded
    PROVE  /\ sender'.at = sender.at + 1 /\ sender'.left = 0 /\ sender.left = 0
           /\ sender'.files = sender.files /\ sender'.bytes = sender.bytes
           /\ sender'.code = sender.code /\ sender'.state = "walk" /\ sender.state = "walk"
  <1>1. /\ sender' = [sender EXCEPT !.at = sender.at + 1] /\ sender.state = "walk"
        /\ sender.left = 0
    BY DEF SkipExcluded, Working
  <1>2. sender \in Writers
    BY DEF Shape
  <1> QED BY <1>1, <1>2 DEF Writers

\* Nobody fails.
LEMMA PeaceNext ==
    ASSUME Known, Roomy, Calm', [Next]_vars
    PROVE  Peace'
  <1>0. Calm /\ Peace /\ Shape /\ Protocol
    BY CalmStep DEF Known, LegalInv, Smooth, Inv
  <1>w. /\ "walk" \in WriterStates /\ "ended" \in WriterStates /\ "exited" \in WriterStates
        /\ "pack" \in WriterStates /\ "absent" \in WriterStates /\ 0 \in Codes
        /\ "header" \in ExtractorStates /\ "modes" \in ExtractorStates
        /\ "done" \in ExtractorStates /\ "gone" \in ExtractorStates
        /\ "answered" \in ExtractorStates
    BY DEF WriterStates, ExtractorStates, Codes
  <1>1. CASE Packs
    <2>1. sender'.state = "walk" /\ sender'.code = sender.code
      BY <1>0, <1>1, <1>w, WriterStops DEF Packs
    <2>2. UNCHANGED <<leg, reader, call>>
      BY <1>1 DEF Packs, Pack
    <2> QED BY <1>0, <2>1, <2>2 DEF Peace, Pull
  <1>2. CASE Sends
    <2>1. sender'.code = sender.code /\ (sender'.state = "pack" => sender.state = "pack")
      <3>1. CASE SkipExcluded
        BY <1>0, <3>1, SkipEffect
      <3>2. CASE SendHeader
        BY <1>0, <3>2, HeaderEffect
      <3>3. CASE SendData
        BY <1>0, <3>3, BlockEffect
      <3>4. CASE SendEnd \/ SenderExits
        <4>1. \E s \in {"ended", "exited"} : sender' = [sender EXCEPT !.state = s]
          BY <3>4 DEF SendEnd, SenderExits
        <4>2. sender \in Writers
          BY <1>0 DEF Shape
        <4> QED BY <4>1, <4>2 DEF Writers
      <3> QED BY <1>2, <3>1, <3>2, <3>3, <3>4 DEF Sends
    <2>2. UNCHANGED <<leg, reader, call>>
      BY <1>2 DEF Sends, SkipExcluded, SendHeader, SendData, SendEnd, SenderExits, Rest, extract,
             caller
    <2> QED BY <1>0, <2>1, <2>2 DEF Peace, Pull
  <1>3. CASE Takes
    <2>1. reader'.at \in {"header", "data", "modes", "done"}
      <3>1. CASE ReadDirectory \/ ReadEnd \/ ApplyModes
        BY <1>0, <1>w, <3>1, ExtractorMoves DEF ReadDirectory, ReadEnd, ApplyModes
      <3>2. CASE ReadBlock
        BY <1>0, <3>2, ReadBlockEffect
      <3>3. CASE ReadHeader /\ Accepts(Member)
        BY <3>3 DEF ReadHeader
      <3> QED BY <1>3, <3>1, <3>2, <3>3 DEF Takes
    <2>2. UNCHANGED <<leg, sender, call>>
      BY <1>3 DEF Takes, ReadDirectory, ReadHeader, ReadBlock, ReadEnd, ApplyModes, Outside
    <2> QED BY <1>0, <2>1, <2>2 DEF Peace, Pull
  <1>4. CASE Turns
    <2>1. CASE Begin
      BY <1>0, <1>w, <2>1, NewProcesses DEF Begin, Peace, Pull, Protocol, Fresh
    <2>2. CASE FetchAgain
      BY <1>0, <1>w, <2>2, NewProcesses DEF FetchAgain, Peace
    <2>3. CASE SendSnapshot /\ leg' = "push"
      <3>1. ~Pull' /\ Pull /\ call = "busy"
        BY <2>3 DEF Pull, SendSnapshot, Ready
      <3>2. /\ sender' = Writer("pack") /\ reader' = Extractor("open") /\ UNCHANGED call
        BY <2>3, <3>1 DEF SendSnapshot, Pull
      <3> QED BY <1>w, <3>1, <3>2, NewProcesses DEF Peace
    <2> QED BY <1>4, <2>1, <2>2, <2>3 DEF Turns
  <1>5. CASE Ends
    <2>1. CASE Publish /\ call' = "ok"
      BY <1>0, <1>w, <2>1, ExtractorMoves DEF Publish, Peace, Ready, Pull, stream
    <2>2. CASE Finish /\ reader' = [reader EXCEPT !.at = "answered"]
      BY <1>0, <1>w, <2>2, ExtractorMoves DEF Finish, Peace, Pull, stream, caller
    <2>3. CASE Reply /\ call' = "ok"
      BY <1>0, <2>3 DEF Reply, Peace, Pull, stream, extract
    <2> QED BY <1>5, <2>1, <2>2, <2>3 DEF Ends
  <1>6. CASE UNCHANGED vars
    BY <1>0, <1>6 DEF vars, stream, extract, caller, Peace, Pull
  <1> QED BY <1>1, <1>2, <1>3, <1>4, <1>5, <1>6, CalmStep

\* The end marker stays last.
LEMMA EndComesNext ==
    ASSUME Known, Roomy, Calm', [Next]_vars
    PROVE  EndComes'
  <1>0. Calm /\ EndComes /\ Shape /\ wire \in Seq(Items)
    BY CalmStep DEF Known, LegalInv, Smooth, Inv, Shape
  <1>w. /\ "walk" \in WriterStates /\ "ended" \in WriterStates /\ "exited" \in WriterStates
        /\ "pack" \in WriterStates /\ "absent" \in WriterStates /\ 0 \in Codes
        /\ "header" \in ExtractorStates /\ "modes" \in ExtractorStates
        /\ "done" \in ExtractorStates /\ "gone" \in ExtractorStates
        /\ "answered" \in ExtractorStates
    BY DEF WriterStates, ExtractorStates, Codes
  <1>1. CASE Packs \/ SkipExcluded \/ SendHeader \/ SendData
    <2>1. sender'.state = "walk"
      <3>1. CASE Packs
        BY <1>0, <1>w, <3>1, WriterStops DEF Packs
      <3>2. CASE SkipExcluded
        BY <1>0, <3>2, SkipEffect
      <3> QED BY <1>0, <1>1, <3>1, <3>2, HeaderEffect, BlockEffect
    <2> QED BY <2>1 DEF EndComes, Sealed
  <1>2. CASE SendEnd
    BY <1>0, <1>2, SentType DEF SendEnd, EndComes
  <1>3. CASE SenderExits
    <2>1. UNCHANGED <<wire, reader>> /\ Sealed
      BY <1>3 DEF SenderExits, Rest, extract, Sealed
    <2> QED BY <1>0, <2>1 DEF EndComes
  <1>4. CASE ReadDirectory \/ ReadBlock \/ (ReadHeader /\ Accepts(Member))
    <2>1. /\ wire' = Tail(wire) /\ wire # <<>> /\ wire[1].item # "end" /\ UNCHANGED sender
          /\ reader.at \in {"open", "header", "data"}
      BY <1>0, <1>4 DEF ReadDirectory, ReadBlock, ReadHeader, Arrived
    <2> SUFFICES ASSUME Sealed PROVE wire' # <<>> /\ wire'[Len(wire')].item = "end"
      BY <2>1 DEF EndComes, Sealed
    <2>2. wire[Len(wire)].item = "end"
      BY <1>0, <2>1 DEF EndComes
    <2>3. /\ Len(wire) \in Nat /\ Len(wire) > 1 /\ wire' \in Seq(Items)
          /\ Len(wire') = Len(wire) - 1 /\ wire'[Len(wire) - 1] = wire[Len(wire)]
      BY <1>0, <2>1, <2>2
    <2> QED BY <2>2, <2>3
  <1>5. CASE ReadEnd \/ ApplyModes
    <2>1. reader'.at \in {"modes", "done"}
      BY <1>0, <1>5, <1>w, ExtractorMoves DEF ReadEnd, ApplyModes
    <2> QED BY <2>1 DEF EndComes
  <1>6. CASE Turns
    <2>1. CASE Begin
      BY <1>0, <1>w, <2>1, NewProcesses DEF Begin, EndComes, Sealed, Known, Inv, Protocol, Fresh
    <2>2. CASE FetchAgain
      BY <1>0, <1>w, <2>2, NewProcesses DEF FetchAgain, EndComes
    <2>3. CASE SendSnapshot /\ leg' = "push"
      <3>1. Pull
        BY <2>3 DEF SendSnapshot, Ready
      <3>2. sender' = Writer("pack")
        BY <2>3, <3>1 DEF SendSnapshot, Pull
      <3> QED BY <1>w, <3>2, NewProcesses DEF EndComes, Sealed
    <2> QED BY <1>6, <2>1, <2>2, <2>3 DEF Turns
  <1>7. CASE Ends
    <2>1. CASE Publish /\ call' = "ok"
      BY <1>0, <1>w, <2>1, ExtractorMoves DEF Publish, EndComes
    <2>2. CASE Finish /\ reader' = [reader EXCEPT !.at = "answered"]
      BY <1>0, <1>w, <2>2, ExtractorMoves DEF EndComes
    <2>3. CASE Reply /\ call' = "ok"
      BY <1>0, <2>3 DEF Reply, EndComes, stream, extract, Sealed
    <2> QED BY <1>7, <2>1, <2>2, <2>3 DEF Ends
  <1>8. CASE UNCHANGED vars
    BY <1>0, <1>8 DEF vars, stream, extract, EndComes, Sealed
  <1> QED BY <1>1, <1>2, <1>3, <1>4, <1>5, <1>6, <1>7, <1>8, CalmStep DEF Sends, Takes

\* Directories get their modes last.
LEMMA UnlockedNext == Known /\ [Next]_vars => Unlocked'
  <1> SUFFICES ASSUME Known, [Next]_vars PROVE Unlocked'
    OBVIOUS
  <1>0. Shape /\ Unlocked /\ reader \in Extractors
    BY DEF Known, Inv, LegalInv, Shape
  <1> DEFINE early == {"absent", "open", "header", "data", "modes"}
  <1>f. Fail \/ Raise => UNCHANGED reader \/ reader'.at \notin early
    BY <1>0, FailEffect, RaiseEffect
  <1>1. CASE Sending \/ SenderExits
    <2>1. UNCHANGED locked /\ (Fail \/ UNCHANGED reader)
      BY <1>1 DEF Sending, SenderExits, Pack, SkipExcluded, Refuse, SendHeader, SendData,
             SendEnd, SenderBroken, Rest, extract
    <2> QED BY <1>0, <1>f, <2>1 DEF Unlocked
  <1>2. CASE Reading /\ ~ApplyModes
    <2>1. /\ UNCHANGED locked
          /\ Raise \/ reader.at \in early
      BY <1>2 DEF Reading, ReadDirectory, ReadHeader, ReadBlock, ReadEnd, ReadCutShort
    <2> QED BY <1>0, <1>f, <2>1 DEF Unlocked
  <1>3. CASE ApplyModes
    <2>1. reader'.at = "done"
      BY <1>0, <1>3 DEF ApplyModes, Extractors
    <2> QED BY <2>1 DEF Unlocked
  <1>4. CASE Begin
    BY <1>0, <1>4 DEF Begin, Unlocked, Known, Inv, Protocol, Fresh
  <1>5. CASE locked' = {}
    BY <1>5 DEF Unlocked
  <1>6. CASE Publish \/ WaitExpires \/ Finish \/ Reply \/ (SendSnapshot /\ locked' # {})
    <2>1. UNCHANGED locked
      BY <1>6 DEF Publish, WaitExpires, Finish, Reply, SendSnapshot, extract
    <2>2. Fail \/ UNCHANGED reader \/ \E p \in {"gone", "answered", "failed"} :
                                          reader' = [reader EXCEPT !.at = p]
      BY <1>6 DEF Publish, WaitExpires, Finish, Reply, SendSnapshot, extract
    <2>3. UNCHANGED reader \/ reader'.at \notin early
      BY <1>0, <1>f, <2>2 DEF Extractors
    <2> QED BY <1>0, <2>1, <2>3 DEF Unlocked
  <1>7. CASE Cut \/ PushExpires \/ Kill \/ Touch \/ Vanish \/ UNCHANGED vars
    <2>1. UNCHANGED locked /\ (UNCHANGED reader \/ reader' = [reader EXCEPT !.at = "gone"])
      BY <1>7 DEF Cut, PushExpires, Disconnect, Kill, Touch, Vanish, vars, extract
    <2>2. UNCHANGED reader \/ reader'.at \notin early
      BY <1>0, <2>1 DEF Extractors
    <2> QED BY <1>0, <2>1, <2>2 DEF Unlocked
  <1>8. FetchAgain => locked' = {}
    BY DEF FetchAgain
  <1> QED BY <1>1, <1>2, <1>3, <1>4, <1>5, <1>6, <1>7, <1>8 DEF Next, Calling

\* A count that begins anew.
LEMMA NothingCounted ==
    /\ Cardinality({}) = 0
    /\ Load({}) = 0
  BY FS_EmptySet, SumUnfold DEF Load

\* The extractor knows what it has stored.
LEMMA StoredNext ==
    ASSUME Known, Roomy, Calm', [Next]_vars
    PROVE  Stored'
  <1>0. Calm /\ Stored /\ Shape /\ reader \in Extractors /\ Listing /\ Stocked
    BY CalmStep DEF Known, LegalInv, LimitsInv, Smooth, Inv, Shape
  <1>s. ASSUME UNCHANGED <<op, lost, leg, payload>>
        PROVE  Cargo' = Cargo /\ \A places : (Load(places))' = Load(places')
    BY <1>s, CarriedStay DEF Cargo, Load
  <1>t. ASSUME UNCHANGED <<op, lost, leg, payload>>, OnDisk' = OnDisk,
               reader'.files = reader.files, reader'.bytes = reader.bytes
        PROVE  Stored'
    BY <1>0, <1>t, CarriedStay DEF Cargo, Load, Stored
  <1>1. CASE Packs \/ Sends \/ UNCHANGED vars
    <2>1. UNCHANGED <<op, lost, leg, payload, reader, held>>
      BY <1>1 DEF Packs, Pack, Sends, SkipExcluded, SendHeader, SendData, SendEnd, SenderExits,
             Rest, source, extract, vars
    <2> QED BY <1>t, <2>1 DEF OnDisk, Partial
  <1>2. CASE ReadDirectory
    <2>1. /\ UNCHANGED <<op, lost, leg, payload>> /\ Arrived("member") /\ Member.kind = "dir"
          /\ held' = held \cup {Member.name} /\ reader' = [reader EXCEPT !.at = "header"]
          /\ reader.at # "data" /\ reader.at \in {"open", "header"}
      BY <1>2 DEF ReadDirectory, Outside, source
    <2>2. /\ reader'.files = reader.files /\ reader'.bytes = reader.bytes
          /\ reader'.at = "header"
      BY <1>0, <2>1 DEF Extractors
    <2>3. PICK k \in Carried : /\ payload[k].name = Member.name /\ payload[k].kind = "dir"
                               /\ k \in DOMAIN payload
      BY <1>0, <2>1, MemberIsNext
    <2>4. \A i \in DOMAIN payload : payload[i].name = Member.name => payload[i].kind = "dir"
      BY <1>0, <2>3 DEF Listing
    <2>5. OnDisk' = OnDisk
      BY <2>1, <2>2, <2>4 DEF OnDisk, Partial, Files
    <2> QED BY <1>t, <2>1, <2>2, <2>5
  <1>3. CASE ReadHeader /\ Accepts(Member)
    <2>1. /\ UNCHANGED <<op, lost, leg, payload>> /\ Arrived("member") /\ Member.kind = "file"
          /\ reader.at \in {"open", "header"}
          /\ held' = IF Member.size = 0 THEN held \cup {Member.name} ELSE held
          /\ reader' = [at |-> IF Member.size = 0 THEN "header" ELSE "data",
                        entry |-> Member.name, left |-> Member.size,
                        files |-> reader.files + 1, bytes |-> reader.bytes + Member.size]
      BY <1>3 DEF ReadHeader, Outside, source
    <2>2. PICK k \in Carried : /\ payload[k].name = Member.name /\ payload[k].kind = "file"
                               /\ payload[k].size = Member.size
                               /\ k \in DOMAIN payload /\ k \notin OnDisk
      BY <1>0, <2>1, MemberIsNext
    <2>3. \A i \in DOMAIN payload : payload[i].name = Member.name => i = k
      BY <1>0, <2>2 DEF Listing
    <2>4. OnDisk' = OnDisk \cup {k}
      <3>1. CASE Member.size = 0
        BY <2>1, <2>2, <2>3, <3>1 DEF OnDisk, Partial, Files
      <3>2. CASE Member.size # 0
        BY <2>1, <2>2, <2>3, <3>2 DEF OnDisk, Partial, Files
      <3> QED BY <3>1, <3>2
    <2>5. k \in Cargo /\ OnDisk \in SUBSET Cargo /\ Cargo' = Cargo
      BY <1>0, <1>s, <2>1, <2>2 DEF Cargo, Files, Stored
    <2>6. /\ Cardinality(OnDisk \cup {k}) = Cardinality(OnDisk) + 1
          /\ Load(OnDisk \cup {k}) = Load(OnDisk) + payload[k].size
      BY <1>0, <2>2, <2>5, CargoAdds
    <2>7. reader'.files = reader.files + 1 /\ reader'.bytes = reader.bytes + Member.size
      BY <2>1
    <2>8. (Load(OnDisk))' = Load(OnDisk \cup {k})
      BY <2>1, <2>4 DEF Load
    <2> QED BY <1>0, <2>2, <2>4, <2>5, <2>6, <2>7, <2>8 DEF Stored
  <1>4. CASE ReadBlock
    <2>1. UNCHANGED <<op, lost, leg, payload>> /\ reader.at = "data"
          /\ held' = IF reader.left = 1 THEN held \cup {reader.entry} ELSE held
      BY <1>4 DEF ReadBlock, Outside, source
    <2>2. /\ reader'.entry = reader.entry
          /\ reader'.at = (IF reader.left = 1 THEN "header" ELSE "data")
      BY <1>0, <1>4, ReadBlockEffect
    <2>3. reader'.files = reader.files /\ reader'.bytes = reader.bytes
      <3>1. reader' = [reader EXCEPT !.left = reader.left - 1,
                                     !.at = IF reader.left = 1 THEN "header" ELSE reader.at]
        BY <1>4 DEF ReadBlock
      <3> QED BY <1>0, <3>1 DEF Extractors
    <2>4. Partial \subseteq Files(payload)
      BY <1>0 DEF Stored, OnDisk, Cargo
    <2>5. OnDisk' = OnDisk
      <3>1. CASE reader.left = 1
        BY <2>1, <2>2, <2>4, <3>1 DEF OnDisk, Partial, Files
      <3>2. CASE reader.left # 1
        BY <2>1, <2>2, <3>2 DEF OnDisk, Partial
      <3> QED BY <3>1, <3>2
    <2> QED BY <1>t, <2>1, <2>3, <2>5
  <1>5. CASE ReadEnd \/ ApplyModes \/ Ends
    <2>1. UNCHANGED <<op, lost, leg, payload, held>> /\ reader.at # "data"
      <3>1. CASE ReadEnd \/ ApplyModes
        BY <3>1 DEF ReadEnd, ApplyModes, Outside, source
      <3>2. CASE Ends
        BY <3>2 DEF Ends, Publish, Finish, Reply, Ready, source, extract
      <3> QED BY <1>5, <3>1, <3>2
    <2>2. UNCHANGED reader \/ \E p \in {"modes", "done", "gone", "answered"} :
                                 reader' = [reader EXCEPT !.at = p]
      BY <1>5 DEF ReadEnd, ApplyModes, Ends, Publish, Finish, Reply, extract
    <2>3. reader'.files = reader.files /\ reader'.bytes = reader.bytes /\ reader'.at # "data"
      BY <1>0, <2>1, <2>2 DEF Extractors
    <2>4. OnDisk' = OnDisk
      BY <2>1, <2>3 DEF OnDisk, Partial
    <2> QED BY <1>t, <2>1, <2>3, <2>4
  <1>6. CASE Turns
    <2>1. CASE Begin /\ reader' = reader
      <3>1. UNCHANGED <<op, lost, leg, payload, held>>
        BY <2>1 DEF Begin, source
      <3> QED BY <1>t, <2>1, <3>1 DEF OnDisk, Partial
    <2>2. CASE held' = {} /\ \E p \in {"open", "absent"} : reader' = Extractor(p)
      <3>1. reader'.files = 0 /\ reader'.bytes = 0 /\ reader'.at # "data"
        BY <2>2 DEF Extractor
      <3>2. OnDisk' = {}
        BY <2>2, <3>1 DEF OnDisk, Partial
      <3>3. (Load(OnDisk))' = 0
        <4>1. (Load(OnDisk))' = SumFunctionOnSet(Sizes(payload'), {})
          BY <3>2 DEF Load
        <4>2. SumFunctionOnSet(Sizes(payload'), {}) = 0
          BY FS_EmptySet, SumUnfold
        <4> QED BY <4>1, <4>2
      <3> QED BY <3>1, <3>2, <3>3, NothingCounted DEF Stored
    <2>3. Begin => held' = {}
      BY DEF Begin, Known, Inv, Protocol, Fresh
    <2>4. SendSnapshot /\ leg' = "push" => held' = {} /\ reader' = Extractor("open")
      BY DEF SendSnapshot, Ready, Pull
    <2> QED BY <1>6, <2>1, <2>2, <2>3, <2>4 DEF Turns, Begin, FetchAgain
  <1> QED BY <1>1, <1>2, <1>3, <1>4, <1>5, <1>6, CalmStep DEF Takes

\* The writer knows what it has sent.
LEMMA CountsNext ==
    ASSUME Known, Roomy, Calm', [Next]_vars
    PROVE  Counts'
  <1>0. Calm /\ Counts /\ Shape /\ sender \in Writers
    BY CalmStep DEF Known, LegalInv, Smooth, Inv, Shape
  <1>c. Cargo \subseteq DOMAIN payload /\ DOMAIN payload = 1 .. Len(payload) /\ Len(payload) \in Nat
    <2>1. payload \in Seq(Entries)
      BY <1>0 DEF Shape
    <2> QED BY <1>0, <2>1, CargoType
  <1>s. ASSUME UNCHANGED <<op, lost, leg, payload>> PROVE Cargo' = Cargo
    BY <1>s, CarriedStay DEF Cargo
  <1>t. ASSUME UNCHANGED <<op, lost, leg, payload>>, Gone' = Gone,
               sender'.files = sender.files, sender'.bytes = sender.bytes
        PROVE  Counts'
    BY <1>0, <1>t DEF Load, Counts
  <1>1. CASE SkipExcluded
    <2>1. UNCHANGED <<op, lost, leg, payload>> /\ Excluded(payload[sender.at])
      BY <1>1 DEF SkipExcluded, Rest, source, Entry
    <2>2. sender.at \notin Cargo
      BY <2>1 DEF Cargo, Carried
    <2>3. /\ sender'.at = sender.at + 1 /\ sender'.left = 0 /\ sender.left = 0
          /\ sender.at \in Nat
      BY <1>0, <1>1, SkipEffect, Fields
    <2>4. Gone' = Gone
      BY <1>c, <1>s, <2>1, <2>2, <2>3 DEF Gone
    <2> QED BY <1>0, <1>1, <1>t, <2>1, <2>4, SkipEffect
  <1>2. CASE SendHeader
    <2> DEFINE k == sender.at
    <2>1. /\ UNCHANGED <<op, lost, leg, payload>> /\ ~Excluded(Entry) /\ Entry = payload[k]
          /\ sender.left = 0 /\ Regular(Entry) /\ Working
      BY <1>2 DEF SendHeader, Rest, source, Entry, Allowed
    <2>2. k \in DOMAIN payload /\ k \in Nat /\ Entry.size \in Nat
      BY <1>0, <2>1, EntryType, Fields
    <2>3. IF Entry.kind = "dir" \/ Entry.size = 0
          THEN sender'.at = k + 1 /\ sender'.left = 0
          ELSE sender'.at = k /\ sender'.left = Entry.size
      BY <1>0, <1>2, HeaderEffect
    <2>4. CASE Entry.kind = "dir"
      <3>1. k \notin Cargo
        BY <2>1, <2>4 DEF Cargo, Files
      <3>2. Gone' = Gone
        BY <1>c, <1>s, <2>1, <2>2, <2>3, <2>4, <3>1 DEF Gone
      <3>3. sender' = [sender EXCEPT !.at = sender.at + 1]
        BY <1>2, <2>4 DEF SendHeader
      <3>4. sender'.files = sender.files /\ sender'.bytes = sender.bytes
        BY <1>0, <3>3 DEF Writers
      <3> QED BY <1>t, <2>1, <3>2, <3>4
    <2>5. CASE Entry.kind = "file"
      <3>1. k \in Cargo /\ k \notin Gone /\ Gone \in SUBSET Cargo
        BY <2>1, <2>2, <2>5 DEF Cargo, Files, Carried, Gone
      <3>2. Gone' = Gone \cup {k}
        <4>1. CASE Entry.size = 0
          BY <1>c, <1>s, <2>1, <2>2, <2>3, <3>1, <4>1 DEF Gone
        <4>2. CASE Entry.size # 0
          BY <1>c, <1>s, <2>1, <2>2, <2>3, <2>5, <3>1, <4>2 DEF Gone
        <4> QED BY <4>1, <4>2
      <3>3. sender' = [sender EXCEPT !.files = sender.files + 1,
                                     !.bytes = sender.bytes + Entry.size, !.left = Entry.size,
                                     !.at = IF Entry.size = 0 THEN k + 1 ELSE k]
        BY <1>2, <2>5 DEF SendHeader
      <3>4. sender'.files = sender.files + 1 /\ sender'.bytes = sender.bytes + Entry.size
        BY <1>0, <3>3 DEF Writers
      <3>5. /\ Cardinality(Gone \cup {k}) = Cardinality(Gone) + 1
            /\ Load(Gone \cup {k}) = Load(Gone) + payload[k].size
        BY <1>0, <3>1, CargoAdds
      <3>6. (Load(Gone))' = Load(Gone \cup {k})
        BY <2>1, <3>2 DEF Load
      <3> QED BY <1>0, <2>1, <3>2, <3>4, <3>5, <3>6 DEF Counts
    <2> QED BY <2>1, <2>4, <2>5 DEF Regular
  <1>3. CASE SendData
    <2>1. UNCHANGED <<op, lost, leg, payload>> /\ sender.left > 0
      BY <1>3 DEF SendData, Rest, source
    <2>2. /\ sender'.left = sender.left - 1
          /\ sender'.at = (IF sender.left = 1 THEN sender.at + 1 ELSE sender.at)
          /\ sender.at \in Nat /\ sender.left \in Nat
      BY <1>0, <1>3, BlockEffect, Fields
    <2>3. Gone' = Gone
      <3>1. CASE sender.left = 1
        BY <1>c, <1>s, <2>1, <2>2, <3>1 DEF Gone
      <3>2. CASE sender.left # 1
        BY <1>c, <1>s, <2>1, <2>2, <3>2 DEF Gone
      <3> QED BY <3>1, <3>2
    <2>4. sender' = [sender EXCEPT !.left = sender.left - 1,
                                   !.at = IF sender.left = 1 THEN sender.at + 1 ELSE sender.at]
      BY <1>3 DEF SendData
    <2>5. sender'.files = sender.files /\ sender'.bytes = sender.bytes
      BY <1>0, <2>4 DEF Writers
    <2> QED BY <1>t, <2>1, <2>3, <2>5
  <1>4. CASE Packs \/ SendEnd \/ SenderExits \/ Takes \/ Ends \/ UNCHANGED vars
    <2>1. UNCHANGED <<op, lost, leg, payload>>
      BY <1>4 DEF Packs, Pack, SendEnd, SenderExits, Rest, Takes, ReadDirectory, ReadHeader,
             ReadBlock, ReadEnd, ApplyModes, Outside, Ends, Publish, Finish, Reply, source, vars
    <2>2. UNCHANGED sender \/ \E s \in WriterStates : sender' = [sender EXCEPT !.state = s]
      BY <1>4 DEF Packs, SendEnd, SenderExits, Takes, ReadDirectory, ReadHeader,
             ReadBlock, ReadEnd, ApplyModes, Ends, Publish, Finish, Reply, stream, vars,
             WriterStates
    <2>3. UNCHANGED <<sender.at, sender.left, sender.files, sender.bytes>>
      BY <1>0, <2>2 DEF Writers
    <2> QED BY <1>s, <1>t, <2>1, <2>3 DEF Gone
  <1>5. CASE Begin /\ UNCHANGED sender
    <2>1. UNCHANGED <<op, lost, leg, payload>>
      BY <1>5 DEF Begin, source
    <2> QED BY <1>5, <1>s, <1>t, <2>1 DEF Gone
  <1>6. CASE \E s \in WriterStates : sender' = Writer(s)
    <2>1. sender'.at = 1 /\ sender'.left = 0 /\ sender'.files = 0 /\ sender'.bytes = 0
      BY <1>6 DEF Writer
    <2>2. Shape'
      BY InvNext DEF Known, Inv
    <2>3. payload' \in Seq(Entries)
      BY <2>2 DEF Shape
    <2>4. Cargo' \subseteq 1 .. Len(payload') /\ Len(payload') \in Nat
      BY <2>3 DEF Cargo, Files
    <2>6. \A i \in Cargo' : i \in Nat /\ ~(i < 1)
      BY <2>4
    <2>7. Gone' = {}
      BY <2>1, <2>6 DEF Gone
    <2>5. (Load(Gone))' = 0
      <3>1. (Load(Gone))' = SumFunctionOnSet(Sizes(payload'), {})
        BY <2>7 DEF Load
      <3>2. SumFunctionOnSet(Sizes(payload'), {}) = 0
        BY FS_EmptySet, SumUnfold
      <3> QED BY <3>1, <3>2
    <2> QED BY <2>1, <2>7, <2>5, NothingCounted DEF Counts
  <1>7. CASE Turns
    <2>1. SendSnapshot /\ leg' = "push" => sender' = Writer("pack")
      BY DEF SendSnapshot, Ready, Pull
    <2> QED BY <1>5, <1>6, <1>7, <2>1 DEF Turns, Begin, FetchAgain, WriterStates
  <1> QED BY <1>1, <1>2, <1>3, <1>4, <1>7, CalmStep DEF Sends

\* As the program starts.
LEMMA LegalInit == Roomy /\ Init => LegalInv
  <1> SUFFICES ASSUME Roomy, Init PROVE LegalInv
    OBVIOUS
  <1>0. Shape /\ payload \in Seq(Entries)
    BY ShapeInit DEF Shape
  <1>1. /\ sender.at = 1 /\ sender.left = 0 /\ sender.files = 0 /\ sender.bytes = 0
        /\ sender.state = "absent" /\ sender.code = 0
        /\ reader.at = "absent" /\ reader.files = 0 /\ reader.bytes = 0
        /\ wire = <<>> /\ held = {} /\ locked = {} /\ call = "new" /\ payload = tree
    BY DEF Init, Writer, Extractor
  <1>2. OneFile /\ Unlocked
    BY <1>1 DEF Init, OneFile, Unlocked
  <1>3. \A i \in Cargo : i \in Nat /\ ~(i < 1) /\ i \in DOMAIN payload
    BY <1>0 DEF Cargo, Files
  <1>4. OnDisk = {} /\ Gone = {}
    BY <1>1, <1>3 DEF OnDisk, Partial, Gone
  <1>5. Peace /\ EndComes /\ Stored /\ Counts
    BY <1>1, <1>4, NothingCounted DEF Peace, EndComes, Sealed, Stored, Counts
  <1>6. ASSUME Calm PROVE Light
    <2>1. leg = (IF op = "import" THEN "push" ELSE "pull")
      BY DEF Init
    <2>2. Carried = Exported /\ \A i \in DOMAIN payload : payload[i] = tree[i]
      BY <1>1, <2>1 DEF Init, Carried, Exported, Excluded, Launches, Pull
    <2>3. \A i \in Carried : Regular(payload[i])
      BY <1>6, <1>1, <2>2 DEF Calm, Legal
    <2> DEFINE limit == CASE op = "import" -> ExporterLimit
                          [] op = "fetch" -> RemoteLimit
                          [] OTHER -> CallerLimit
               n == Cardinality(Cargo)
               b == Load(Cargo)
    <2>4. n \in Nat /\ b \in Int
      BY <1>0, CargoType
    <2>5. Within(n, b, limit)
      BY <1>1, <1>6, <2>2 DEF Calm, Legal, Fits, Cargo, Load
    <2>6. op = "file" => n <= 1
      <3> SUFFICES ASSUME op = "file" PROVE n <= 1
        OBVIOUS
      <3>1. Len(payload) = 1 /\ DOMAIN payload = 1 .. Len(payload)
        BY <1>0, <1>1, <1>2 DEF OneFile
      <3>2. Cargo \subseteq {1}
        BY <1>3, <3>1
      <3>3. IsFiniteSet({1}) /\ Cardinality({1}) = 1
        BY FS_Singleton
      <3>4. Cardinality(Cargo) <= Cardinality({1})
        BY <3>2, <3>3, FS_Subset
      <3> QED BY <3>3, <3>4
    <2>7. /\ ExporterLimit.files \in Nat /\ ExporterLimit.bytes \in Nat
          /\ CallerLimit \in [files: Nat, bytes: Nat]
          /\ CallerLimit.files \in Nat /\ CallerLimit.bytes \in Nat
      BY TransferAssumption
    <2> HIDE DEF n, b
    <2>8. Within(n, b, ReaderLimit)
      <3>1. CASE op = "file"
        <4>1. limit = CallerLimit /\ ReaderLimit = [CallerLimit EXCEPT !.files = 1]
          BY <2>1, <3>1 DEF ReaderLimit, Pull, Launches
        <4>2. ReaderLimit.files = 1 /\ ReaderLimit.bytes = CallerLimit.bytes
          BY <2>7, <4>1
        <4> QED BY <2>5, <2>6, <3>1, <4>1, <4>2 DEF Within
      <3>2. CASE op # "file"
        <4>1. ReaderLimit = limit
          BY <2>1, <3>2 DEF ReaderLimit, Pull, Launches
        <4> QED BY <2>5, <4>1
      <3> QED BY <3>1, <3>2
    <2>9. Pull /\ op # "fetch" => Within(n, b, ExporterLimit)
      <3> SUFFICES ASSUME Pull, op # "fetch" PROVE Within(n, b, ExporterLimit)
        OBVIOUS
      <3>1. limit = CallerLimit
        BY <2>1 DEF Pull
      <3> QED BY <2>4, <2>5, <2>7, <3>1 DEF Within, Roomy
    <2> QED BY <1>1, <2>3, <2>8, <2>9 DEF Light, n, b
  <1> QED BY <1>2, <1>5, <1>6 DEF LegalInv, Smooth

\* No step breaks it.
LEMMA LegalNext == Roomy /\ Known /\ [Next]_vars => LegalInv'
  <1> SUFFICES ASSUME Roomy, Known, [Next]_vars PROVE LegalInv'
    OBVIOUS
  <1>1. OneFile'
    BY CalmBefore DEF OneFile, Known, LegalInv
  <1>2. Unlocked'
    BY UnlockedNext
  <1>3. Calm' => Light' /\ Peace' /\ EndComes' /\ Stored' /\ Counts'
    BY LightNext, PeaceNext, EndComesNext, StoredNext, CountsNext
  <1> QED BY <1>1, <1>2, <1>3 DEF LegalInv, Smooth

\* If the limits leave room for it, as those of the code do, a tree of regular
\* files and directories that is within the limits of its caller is transferred,
\* unless something goes wrong: no writer, no extractor, no check on the way
\* refuses what the caller allows.
THEOREM LegalTreesArrive == Roomy => (Spec => []LegalSucceeds)
  <1> SUFFICES ASSUME Roomy PROVE Spec => []LegalSucceeds
    OBVIOUS
  <1>1. Init => LimitsInv /\ LegalInv
    BY LimitsInit, LegalInit
  <1>2. Inv /\ Inv' /\ LimitsInv /\ LegalInv /\ [Next]_vars => LimitsInv' /\ LegalInv'
    BY LimitsNext, LegalNext DEF Known
  <1>3. LegalInv => LegalSucceeds
    BY DEF LegalInv, Smooth, Peace, Calm, LegalSucceeds
  <1> QED BY <1>1, <1>2, <1>3, InvHolds, PTL DEF Spec
=============================================================================
