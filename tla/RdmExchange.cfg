SPECIFICATION FairSpec
CONSTANTS
  Tasks = {t1, t2}
  NoTask = NoTask
  Uid = Uid
  Controller = Controller
  Everyone = Everyone
  Requests <- MCRequests
  Frame = Frame
  Garbage = Garbage
  Quiet = Quiet
  PortType = "ACK_TIMER"
  TnCount = 3
  Preempted = FALSE
  CallMax = 1
  FaultMax = 2
INVARIANTS
  TypeOK
  AnswersMatch
  RequestRemoved
PROPERTIES
  CallsSucceed
\* Every task has made its calls.
CHECK_DEADLOCK FALSE
