SPECIFICATION Spec
CONSTANTS
  a = a  b = b
  Sources <- MCSources
  Paths = {a, b}
  First = a
  Words = {"x", "w", "y", "h", "h1", "h2", "h3", "h4", "s", "f1", "f2", "r", "r1", "r2", "r3", "r4",
           "u1", "u2", "u3", "u1_s", "u1_f", "u2_s", "u2_f", "u3_s", "u3_f", "y_s", "y_f",
           "z", "zu", "zc", "xq", "xd", "x2", "c", "cq", "kpn", "t", "tq", "temporal", "m", "_nhwc", "_scales"}
  Layers = {"Conv", "Sigmoid", "Identity"}
  Heights <- MCHeights
  Widths <- MCWidths
  Batch = 1
  Rounds = 3
  NoFile = NoFile  Torn = Torn
  MaxRuns = 3
INVARIANTS TypeOK WellFormed SameNetwork DeclaredIsActual StaticUnless
CHECK_DEADLOCK FALSE
