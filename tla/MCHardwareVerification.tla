----------------------- MODULE MCHardwareVerification -----------------------
(* HardwareVerification with two calls and models that are fast, fast       *)
(* enough only for a submission, slow, and too large.                       *)
EXTENDS HardwareVerification, TLC

CONSTANTS v1, v2, none

TwoCalls == {v1, v2}
NoCall == none
SomeModels ==
    { [images |-> <<1, 1>>, duration |-> 1], [images |-> <<1>>, duration |-> 2],
      [images |-> <<>>, duration |-> 3], [images |-> <<1, 2>>, duration |-> 1] }
AllFaults == {"hang", "stuck", "raise"}
Symmetry == Permutations(TwoCalls)
=============================================================================
