CONSTANTS
  Operations <- AllOperations
  Paths <- AllPaths
  Trees <- SomeTrees
  ExporterLimit <- OfWorkspaceTransfer
  CallerLimit <- OfTheCaller
  RemoteLimit <- OfRemoteProtocol
  Capacity = 3
  MaxTries = 2
  Faults <- AllFaults
CHECK_DEADLOCK FALSE
SPECIFICATION FairSpec
INVARIANTS TypeOK CompleteOrAbsent LimitsHold LegalSucceeds NothingLeft
PROPERTIES CallReturns
