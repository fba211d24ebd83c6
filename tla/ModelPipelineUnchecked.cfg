SPECIFICATION Spec
CONSTANTS
  t1 = t1  t2 = t2  t3 = t3
  NoTensor = NoTensor  NoFile = NoFile  Torn = Torn
  Checkpoints <- MCCheckpoints
  Arm = "arm"
  ShapeOf <- MCShapeOf
  Sizes <- MCSizes
  Dirs = 3  RefDir = 2
  Inputs = {t1, t2, t3}
  RefInput = t1
  SizeOf <- MCSizeOf
  MaxRuns = 2
INVARIANT CheckedBeforeWritten
CHECK_DEADLOCK FALSE
