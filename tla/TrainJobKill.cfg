CONSTANTS
  c1 = c1
  c2 = c2
  none = none
  Ctl <- OneCaller
  NoCaller <- NoOne
  MaxEpoch = 2
  SixDigits = 2
  Budget = 2
  Horizon = 3
  Modes <- EitherMode
  Faults <- Timeouts
SPECIFICATION Spec
INVARIANTS DiskBeforeWord
PROPERTIES RefinesHandshake SettledForGood
