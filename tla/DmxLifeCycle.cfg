SPECIFICATION Spec
CONSTANTS
  Tasks = {t1, t2}
  Slots = 2
  FifoSize = 3
  SlowTasks = FALSE
  MaxPackets = 2
  MaxCalls = 2
SYMMETRY Symmetry
INVARIANTS
  WholePackets
  EnabledAgain
  SniffedTogether
\* The calls and the packets come to an end.
CHECK_DEADLOCK FALSE
