--------------------------- MODULE EvaluationQuota ---------------------------
(***************************************************************************)
(* What a run promises about its hidden-set quota: an evaluation is only   *)
(* performed on a slot reserved before, at most Limit slots are ever       *)
(* taken, adaptive evaluations leave the last one alone, and only a slot   *)
(* that was not used can be given back.                                    *)
(*                                                                         *)
(*   taken      slots taken, the reserved ones included                    *)
(*   final      slots among them that were taken for a submission          *)
(*   performed  evaluations performed                                      *)
(***************************************************************************)
EXTENDS Integers

CONSTANT Limit

VARIABLES taken, final, performed

Init == taken = 0 /\ final = 0 /\ performed = 0

ReserveAdaptive ==
    /\ taken < Limit - 1
    /\ taken' = taken + 1
    /\ UNCHANGED <<final, performed>>

ReserveFinal ==
    /\ taken < Limit
    /\ taken' = taken + 1
    /\ final' = final + 1
    /\ UNCHANGED performed

Perform ==
    /\ performed < taken
    /\ performed' = performed + 1
    /\ UNCHANGED <<taken, final>>

Release ==
    /\ performed < taken
    /\ taken' = taken - 1
    /\ UNCHANGED <<final, performed>>

Next == ReserveAdaptive \/ ReserveFinal \/ Perform \/ Release

Spec == Init /\ [][Next]_<<taken, final, performed>>
=============================================================================
