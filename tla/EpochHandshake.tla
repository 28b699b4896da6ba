--------------------------- MODULE EpochHandshake ---------------------------
(***************************************************************************)
(* What a training job promises its caller about epochs, whatever commands *)
(* are issued, refused, retried or killed: epochs are offered one at a     *)
(* time, each one later than every epoch settled before, and an offer      *)
(* stands until it is settled.                                             *)
(*                                                                         *)
(*   settled   the last epoch a decision was recorded for                  *)
(*   offered   the epoch whose notification awaits a decision, or None     *)
(***************************************************************************)
EXTENDS Integers

CONSTANTS Epochs, None

VARIABLES settled, offered

Init == settled = None /\ offered = None

Offer(e) ==
    /\ offered = None
    /\ e > settled
    /\ offered' = e
    /\ UNCHANGED settled

Settle ==
    /\ offered # None
    /\ settled' = offered
    /\ offered' = None

Next == (\E e \in Epochs : Offer(e)) \/ Settle

Spec == Init /\ [][Next]_<<settled, offered>>
=============================================================================
