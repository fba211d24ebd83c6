\* A graph with one output.
CONSTANTS
  Runs <- SomeRuns
  Warmups = 3
  GraphOutputs <- OneOutput
  Durations <- OneOrTwo
  BestStart = 9
SPECIFICATION Spec
INVARIANT SingleOutputBenched
CHECK_DEADLOCK FALSE
