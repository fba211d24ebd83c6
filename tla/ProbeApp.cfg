\* Three launches of up to two builds; lines of two lengths and a sink that
\* the longest report just fits.
CONSTANTS
  Devices <- AnyDevice
  LineLengths <- ShortOrLong
  LineMax = 1
  Cap = 30
  Libs <- TwoLibs
  ModelSeq <- TwoModels
  Packages <- Builds
  MaxLaunches = 3
  MaxVersion = 2
SPECIFICATION Spec
INVARIANTS TypeOK LoadsStagedFiles FailureContained SavedIsShown NoLineLost PdBeforeHandle
CHECK_DEADLOCK FALSE
