\* A task that waits for a packet without limit waits for ever once another
\* task turns the bus with dmx_write(): the system really may stop.
CHECK_DEADLOCK FALSE
SPECIFICATION Spec
CONSTANTS
  Tasks = {t1, t2}
  NoTask = NoTask
  Calls = {"write", "send", "receive", "wait_sent"}
  Kinds = {"dub"}
  RxKinds = {"dmx", "request"}
  PacketMax = 3
  Sizes = {0, 2, 4}
  RdmLen = 2
  ReplyLen = 2
  FifoLen = 2
  HeadMax = 4
  WireMax = 0
  DepthMax = 0
  Elapsed = {"early", "due"}
  Timeouts = FALSE
  SlowTakes = FALSE
  Prompt = TRUE
  LateIsr = FALSE
SYMMETRY Symmetry
INVARIANTS
  BusDriven
  SizeFits
