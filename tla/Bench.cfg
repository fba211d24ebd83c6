\* Any graph, one to three timed runs, with and without a dump.
CONSTANTS
  Runs <- SomeRuns
  Warmups = 3
  GraphOutputs <- AnyOutputs
  Durations <- OneOrTwo
  BestStart = 9
SPECIFICATION Spec
INVARIANTS TypeOK OutputsLive OneFrameHeld EverythingReleased DumpIsLastRun BestAtMostMean
CHECK_DEADLOCK FALSE
