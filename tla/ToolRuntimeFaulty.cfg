CONSTANTS
  j1 = j1
  j2 = j2
  none = none
  Jobs <- TwoJobs
  NoJob <- NoOne
  MaxEvent = 2
  Scores <- TwoScores
  max_evaluations = 3
  max_train_starts = 2
  max_train_job_seconds = 2
  max_total_train_seconds = 3
  Slack = 1
  Horizon = 4
  Hardware = TRUE
  Faults <- AllFaults
CHECK_DEADLOCK FALSE
SPECIFICATION Spec
INVARIANTS NoJobForgotten EverySecondCharged ReservationsFit
PROPERTIES RefinesQuota
