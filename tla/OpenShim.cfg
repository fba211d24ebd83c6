\* Two threads, a table of two entries, three opens.
CONSTANTS
  Threads = {t1, t2}
  Fds <- FourFds
  Stdin <- OnlyZero
  MaxTracked = 2
  MaxOpens = 3
SPECIFICATION Spec
INVARIANTS TypeOK MissedOnlyFor StrayOnlyFor
SYMMETRY Symmetry
CHECK_DEADLOCK FALSE
