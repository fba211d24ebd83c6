\* --runs 0.
CONSTANTS
  Runs <- NoRuns
  Warmups = 3
  GraphOutputs <- OneOrTwo
  Durations <- OneOrTwo
  BestStart = 9
SPECIFICATION Spec
INVARIANT OutputsLive
CHECK_DEADLOCK FALSE
