----------------------------- MODULE MCTrainJob -----------------------------
(* TrainJob with the fault sets of the runs.                               *)
EXTENDS TrainJob, TLC

CONSTANTS c1, c2, none

OneCaller == {c1}
WithOrphan == {c1, c2}
Symmetry == Permutations(WithOrphan)
NoOne == none
Local == {"local"}
EitherMode == {"local", "stage-only"}
FaultyDocker == {"docker", "rm", "inspect", "artifact", "event"}
Timeouts == {"kill", "docker", "rm", "inspect", "artifact", "die", "detach"}
BrokenSsh == {"detach"}
LostMeters == {"kill", "inspect"}
=============================================================================
