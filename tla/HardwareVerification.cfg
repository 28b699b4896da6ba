CONSTANTS
  v1 = v1
  v2 = v2
  none = none
  Calls <- TwoCalls
  Nobody <- NoCall
  Models <- SomeModels
  runtime_seconds = 1
  Tolerance = 1
  max_external_image_bytes = 1
  MaxImages = 2
  MaxServers = 2
  Faults <- AllFaults
CHECK_DEADLOCK FALSE
SPECIFICATION FairSpec
INVARIANTS VerdictHolds ServersReaped
PROPERTIES OnlyHolderPrograms EveryCallReturns
