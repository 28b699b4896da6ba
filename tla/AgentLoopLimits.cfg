CONSTANTS
  max_turns = 4
  max_model_retries = 2
  max_total_tokens = 4
  max_cost = 5
  MaxUse = 2
  MaxCalls = 3
  Faults <- Unwinding
CHECK_DEADLOCK FALSE
SPECIFICATION FairSpec
INVARIANTS RequestsInOrder StopsAtOnce BestIsSubmitted
PROPERTIES Terminates
