CONSTANTS
  c1 = c1
  c2 = c2
  none = none
  Ctl <- OneCaller
  NoCaller <- NoOne
  MaxEpoch = 0
  SixDigits = 0
  Budget = 1
  Horizon = 2
  Modes <- Local
  Faults <- LostMeters
SPECIFICATION Spec
INVARIANTS RunningIsMetered
