CONSTANTS
  Files <- TwoFiles
  Documents <- OneDocument
  MaxContent = 2
  MaxPreparations = 2
  MaxProcesses = 5
  MAX_OUTPUT_BYTES = 1
  MaxProduced = 2
  PipeSize = 2
  Faults <- AllFaults
  MaxCalls = 2
CHECK_DEADLOCK FALSE
SPECIFICATION FairSpec
INVARIANTS AcceptedWasCompleted SurvivorsForked ResultsHonest NothingOutlives
PROPERTIES PreparationKept CallEnds
