SPECIFICATION FairSpec
CONSTANTS
  Pids = {p1, p2, p3, p4, p5}
  NoPid = NoPid
  MaxSize = 4
INVARIANTS
  PopSucceeds
PROPERTIES
  Implements
  Delivered
\* A push that never ends stops everything.
CHECK_DEADLOCK FALSE
