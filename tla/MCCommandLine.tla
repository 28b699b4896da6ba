--------------------------- MODULE MCCommandLine ----------------------------
(* CommandLine with one prompt and one hardware file.                      *)
EXTENDS CommandLine

TwoFiles == <<"task.md", "target-hardware.json">>
OneDocument == {"target-hardware.json"}
AllFaults == {"git", "kill", "start", "interrupt", "close", "stop"}
=============================================================================
