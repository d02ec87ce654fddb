SPECIFICATION Spec
CONSTANTS
  Tasks = {t1, t2}
  Slots = 1
  FifoSize = 2
  SlowTasks = FALSE
  MaxPackets = 1
  MaxCalls = 2
SYMMETRY Symmetry
INVARIANT NeverLeftDisabled
\* The calls and the packets come to an end.
CHECK_DEADLOCK FALSE
