CONSTANTS
  c1 = c1
  c2 = c2
  none = none
  Ctl <- OneCaller
  NoCaller <- NoOne
  MaxEpoch = 2
  SixDigits = 1
  Budget = 2
  Horizon = 3
  Modes <- Local
  Faults <- FaultyDocker
SPECIFICATION FairSpec
INVARIANTS ContainerAsRecorded TimeMetered
PROPERTIES AwaitReturns SettledWakesScript
