SPECIFICATION Spec
CONSTANTS
  Tasks = {t1, t2}
  NoTask = NoTask
  Calls = {"send", "receive", "wait_sent"}
  Kinds = {}
  RxKinds = {}
  PacketMax = 2
  Sizes = {1, 2}
  RdmLen = 2
  ReplyLen = 2
  FifoLen = 2
  HeadMax = 2
  WireMax = 0
  DepthMax = 1
  Elapsed = {"early", "due", "late"}
  Timeouts = TRUE
  SlowTakes = TRUE
  Prompt = FALSE
  LateIsr = TRUE
SYMMETRY Symmetry
INVARIANTS
  MutexHeld
PROPERTIES
  RegistrationEnds
