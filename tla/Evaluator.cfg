CONSTANTS
  Thresholds <- Halves
  recall_limits <- Limits
  maximum_detections = 3
  Tasks <- BothTasks
  Examples = 2
  Sizes <- SomeSizes
  MaxChunks = 2
  Capacity = 2
  ClassAnswers <- Classes
  DetectionAnswers <- SomeDetections
  LabelFiles <- SomeLabels
  Faults <- AllFaults
CHECK_DEADLOCK FALSE
SPECIFICATION FairSpec
INVARIANTS TypeOK InStep EndsClean DataAfterDrop ScoresAreRight
PROPERTIES EvaluationEnds
