CONSTANTS
  c1 = c1
  c2 = c2
  none = none
  Ctl <- WithOrphan
  NoCaller <- NoOne
  MaxEpoch = 1
  SixDigits = 1
  Budget = 1
  Horizon = 2
  Modes <- EitherMode
  Faults <- BrokenSsh
SYMMETRY Symmetry
SPECIFICATION Spec
INVARIANTS BackedWord
