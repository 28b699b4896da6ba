--------------------------- MODULE MCToolRuntime ---------------------------
(* ToolRuntime with two jobs and the fault sets of the runs.               *)
EXTENDS ToolRuntime, TLC

CONSTANTS j1, j2, none

TwoJobs == {j1, j2}
NoOne == none
TwoScores == {1, 2}
NoFaults == {}
AllFaults == {"lost", "await", "adrift", "stop", "unseen", "copy", "interrupt"}
OnlyAwait == {"await"}
Symmetry == Permutations(TwoJobs)
=============================================================================
