SPECIFICATION FairSpec
CONSTANTS
  Tasks = {t1, t2}
  NoTask = NoTask
  Calls = {"write", "send", "wait_sent"}
  Kinds = {"dmx", "request", "dub_response"}
  RxKinds = {}
  PacketMax = 3
  Sizes = {0, 1, 2, 4}
  RdmLen = 2
  ReplyLen = 3
  FifoLen = 2
  HeadMax = 3
  WireMax = 4
  DepthMax = 0
  Elapsed = {"early", "due", "late"}
  Timeouts = FALSE
  SlowTakes = FALSE
  Prompt = FALSE
  LateIsr = FALSE
INVARIANTS
  TypeOK
  MutexBalanced
  WaitSentIsDone
PROPERTIES
  SentEntirely
  RdmNotOverwritten
  SendsPackets
  SendingEnds
  CallsReturn
