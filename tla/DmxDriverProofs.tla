-------------------------- MODULE DmxDriverProofs --------------------------
(***************************************************************************)
(* Theorems about the DMX driver for any number of tasks, any packet and   *)
(* FIFO size, and any setting of what may run late.                        *)
(***************************************************************************)
EXTENDS DmxDriver, TLAPS

-----------------------------------------------------------------------------
(* Helpers of the model *)

\* Consecutive slots form a sequence, empty when there are none.
LEMMA SlotsType ==
  ASSUME NEW first \in Int, NEW n \in Int
  PROVE  Slots(first, n) \in Seq(Int)
<1>1. CASE n \in Nat
  BY <1>1 DEF Slots
<1>2. CASE n \notin Nat
  <2>1. 1..n = 1..0
    BY <1>2
  <2>2. Slots(first, n) = [i \in 1..0 |-> first + i - 1]
    BY <2>1 DEF Slots
  <2>3. QED
    BY <2>2
<1>3. QED
  BY <1>1, <1>2

\* The smaller of two numbers is a number.
LEMMA SmallerType ==
  ASSUME NEW a \in Int, NEW b \in Int
  PROVE  Smaller(a, b) \in Int
BY DEF Smaller

\* Slots put into the FIFO leave it a sequence.
LEMMA FifoType ==
  ASSUME HwType, NEW first \in Int, NEW n \in Int
  PROVE  /\ Smaller(n, FifoLen - Len(fifo)) \in Int
         /\ fifo \o Slots(first, Smaller(n, FifoLen - Len(fifo))) \in Seq(Int)
<1>1. Len(fifo) \in Nat /\ FifoLen \in Nat
  BY DriverAssumption DEF HwType
<1>2. Smaller(n, FifoLen - Len(fifo)) \in Int
  BY <1>1, SmallerType
<1>3. Slots(first, Smaller(n, FifoLen - Len(fifo))) \in Seq(Int)
  BY <1>2, SlotsType
<1>4. QED
  BY <1>2, <1>3 DEF HwType

\* A call that returns resets what its task keeps.
LEMMA ReturnType ==
  ASSUME TaskType, NEW t \in Tasks, Return(t)
  PROVE  TaskType'
<1>1. NoLocals \in Locals
  BY DEF NoLocals, Locals, PacketKinds
<1>2. QED
  BY <1>1 DEF TaskType, Return, Goto, Labels

\* A task that goes on keeps its locals.
LEMMA GotoType ==
  ASSUME TaskType, NEW t \in Tasks, NEW label \in Labels, Goto(t, label),
         UNCHANGED <<caller, local>>
  PROVE  TaskType'
BY DEF TaskType, Goto

\* A call that takes the mutex keeps its arguments.
LEMMA ArgumentType ==
  ASSUME TaskType, NEW t \in Tasks, NEW wait \in BOOLEAN, NEW num \in Int
  PROVE  [local EXCEPT ![t].wait = wait, ![t].num = num] \in [Tasks -> Locals]
<1> DEFINE waiting == [local EXCEPT ![t].wait = wait]
<1>1. waiting \in [Tasks -> Locals]
  BY DEF TaskType, Locals
<1>2. [waiting EXCEPT ![t].num = num] \in [Tasks -> Locals]
  <2> HIDE DEF waiting
  <2>1. QED
    BY <1>1 DEF Locals
<1>3. QED
  BY <1>2

\* A give leaves the mutex an owner.
LEMMA GiveType ==
  ASSUME SyncType, NEW t \in Tasks, Give(t)
  PROVE  mux' \in [owner : Tasks \cup {NoTask}, depth : Int]
BY DEF SyncType, Give

\* A mutex that is taken keeps its type.
LEMMA TakeType ==
  ASSUME SyncType, NEW t \in Tasks, Take(t)
  PROVE  mux' \in [owner : Tasks \cup {NoTask}, depth : Int]
BY DEF SyncType, Take

\* The interrupts notify a task with one of the two values.
LEMMA NotifyType ==
  ASSUME SyncType, NEW value \in {"ok", "err"}, Notify(value),
         UNCHANGED <<mux, task_waiting>>
  PROVE  SyncType'
BY DEF SyncType, Notify

\* A task takes its own pending notification.
LEMMA ConsumeType ==
  ASSUME SyncType, NEW t \in Tasks, Consume(t), UNCHANGED <<mux, task_waiting>>
  PROVE  SyncType'
BY DEF SyncType, Consume

\* What is not touched keeps its type.
LEMMA UnchangedType ==
  ASSUME TypeOK
  PROVE  /\ UNCHANGED syncVars => SyncType'
         /\ UNCHANGED dmxVars => DmxType'
         /\ UNCHANGED hwVars => HwType'
         /\ UNCHANGED taskVars => TaskType'
<1>1. UNCHANGED syncVars => SyncType'
  BY DEF TypeOK, SyncType, syncVars
<1>2. UNCHANGED dmxVars => DmxType'
  BY DEF TypeOK, DmxType, dmxVars, driverVars, roleVars
<1>3. UNCHANGED hwVars => HwType'
  BY DEF TypeOK, HwType, hwVars, txVars
<1>4. UNCHANGED taskVars => TaskType'
  BY DEF TypeOK, TaskType, taskVars
<1>5. QED
  BY <1>1, <1>2, <1>3, <1>4

\* The state that dmx_driver_install() leaves is typed.
LEMMA InitType == Init => TypeOK
<1> SUFFICES ASSUME Init PROVE TypeOK
  OBVIOUS
<1>1. SyncType
  BY DEF Init, SyncType
<1>2. DmxType
  <2>1. is_controller \in BOOLEAN /\ last_request_was_broadcast \in BOOLEAN
    BY Zenon DEF Init
  <2>2. QED
    BY <2>1, DriverAssumption DEF Init, DmxType, PacketKinds
<1>3. HwType
  <2>1. timer \in BOOLEAN /\ inverted \in BOOLEAN /\ tx_done \in BOOLEAN
    BY Zenon DEF Init
  <2>2. QED
    BY <2>1 DEF Init, HwType, PacketKinds
<1>4. TaskType
  <2>1. NoLocals \in Locals
    BY DEF NoLocals, Locals, PacketKinds
  <2>2. QED
    BY <2>1 DEF Init, TaskType, Labels
<1>5. QED
  BY <1>1, <1>2, <1>3, <1>4 DEF TypeOK

-----------------------------------------------------------------------------
(* dmx_write() and dmx_wait_sent() keep to the types *)

\* The writers that are overtaken are tasks.
LEMMA OvertakenType ==
  ASSUME TypeOK, NEW kind
  PROVE  Overtaken(kind) \subseteq Tasks
BY DEF TypeOK, DmxType, Overtaken

\* The steps of dmx_write_offset() keep every type.
LEMMA WriteType ==
  ASSUME TypeOK, NEW t \in Tasks, WriteNext(t)
  PROVE  TypeOK'
<1> USE UnchangedType
<1>1. ASSUME NEW kind \in Kinds, WriteCall(t, kind)
      PROVE  TypeOK'
  <2>1. TaskType'
    BY <1>1, DriverAssumption DEF TypeOK, TaskType, WriteCall, Goto, Labels, Locals
  <2>2. QED
    BY <1>1, <2>1 DEF TypeOK, WriteCall
<1>2. CASE WriteCheck(t)
  <2>1. TaskType'
    BY <1>2, ReturnType, GotoType DEF TypeOK, WriteCheck, Labels
  <2>2. QED
    BY <1>2, <2>1 DEF TypeOK, WriteCheck
<1>3. CASE WriteRts(t)
  <2>1. HwType'
    BY <1>3 DEF TypeOK, HwType, WriteRts, TurnToWrite, txVars
  <2>2. TaskType'
    BY <1>3, GotoType DEF TypeOK, WriteRts, Labels
  <2>3. QED
    BY <1>3, <2>1, <2>2 DEF TypeOK, WriteRts
<1>4. CASE WriteCopy(t)
  <2>1. DmxType'
    BY <1>4, OvertakenType DEF TypeOK, DmxType, TaskType, Locals, WriteCopy, driverVars, Sending
  <2>2. TaskType'
    BY <1>4, ReturnType DEF TypeOK, WriteCopy
  <2>3. QED
    BY <1>4, <2>1, <2>2 DEF TypeOK, WriteCopy
<1>5. QED
  BY <1>1, <1>2, <1>3, <1>4 DEF WriteNext

\* dmx_wait_sent() hands its result to its caller.
LEMMA WaitSentReturnType ==
  ASSUME TaskType, NEW t \in Tasks, NEW result \in BOOLEAN, WaitSentReturn(t, result)
  PROVE  TaskType'
<1>1. CASE caller[t] = "none"
  BY <1>1, ReturnType DEF WaitSentReturn
<1>2. CASE caller[t] # "none"
  BY <1>2 DEF TaskType, WaitSentReturn, Goto, Labels, Locals
<1>3. QED
  BY <1>1, <1>2

\* The steps of dmx_wait_sent() keep every type.
LEMMA WaitSentType ==
  ASSUME TypeOK, NEW t \in Tasks, WaitSentNext(t)
  PROVE  TypeOK'
<1> USE UnchangedType
<1>1. ASSUME NEW wait \in BOOLEAN, WaitSentCall(t, wait)
      PROVE  TypeOK'
  <2>1. TaskType'
    BY <1>1 DEF TypeOK, TaskType, WaitSentCall, Goto, Labels, Locals
  <2>2. QED
    BY <1>1, <2>1 DEF TypeOK, WaitSentCall
<1>2. CASE WaitSentTake(t)
  <2>1. SyncType'
    BY <1>2, TakeType DEF TypeOK, SyncType, WaitSentTake
  <2>2. TaskType'
    BY <1>2, GotoType DEF TypeOK, WaitSentTake, Labels
  <2>3. QED
    BY <1>2, <2>1, <2>2 DEF TypeOK, WaitSentTake
<1>3. CASE WaitSentNoTake(t)
  <2>1. TaskType'
    BY <1>3, WaitSentReturnType DEF TypeOK, WaitSentNoTake
  <2>2. QED
    BY <1>3, <2>1 DEF TypeOK, WaitSentNoTake
<1>4. CASE WaitSentLateTake(t)
  <2>1. SyncType'
    BY <1>4, TakeType DEF TypeOK, SyncType, WaitSentLateTake
  <2>2. TaskType'
    BY <1>4, WaitSentReturnType DEF TypeOK, WaitSentLateTake
  <2>3. QED
    BY <1>4, <2>1, <2>2 DEF TypeOK, WaitSentLateTake
<1>5. CASE WaitSentCheck(t)
  <2>1. SyncType'
    BY <1>5, GiveType DEF TypeOK, SyncType, WaitSentCheck
  <2>2. TaskType'
    <3>1. (~Sending) \in BOOLEAN
      BY DEF Sending
    <3>2. QED
      BY <1>5, <3>1, WaitSentReturnType, GotoType DEF TypeOK, WaitSentCheck, Labels
  <2>3. QED
    BY <1>5, <2>1, <2>2 DEF TypeOK, WaitSentCheck
<1>6. CASE WaitSentWake(t)
  <2>1. SyncType'
    BY <1>6, ConsumeType DEF TypeOK, WaitSentWake
  <2>2. TaskType'
    <3>1. PICK sent \in BOOLEAN : local' = [local EXCEPT ![t].sent = sent]
      BY <1>6, Zenon DEF WaitSentWake
    <3>2. QED
      BY <1>6, <3>1 DEF TypeOK, TaskType, WaitSentWake, Goto, Labels, Locals
  <2>3. QED
    BY <1>6, <2>1, <2>2 DEF TypeOK, WaitSentWake
<1>7. CASE WaitSentClear(t)
  <2>1. SyncType'
    BY <1>7, GiveType DEF TypeOK, SyncType, WaitSentClear
  <2>2. TaskType'
    <3>1. local[t].sent \in BOOLEAN
      BY DEF TypeOK, TaskType, Locals
    <3>2. QED
      BY <1>7, <3>1, WaitSentReturnType DEF TypeOK, WaitSentClear
  <2>3. QED
    BY <1>7, <2>1, <2>2 DEF TypeOK, WaitSentClear
<1>8. QED
  BY <1>1, <1>2, <1>3, <1>4, <1>5, <1>6, <1>7 DEF WaitSentNext
-----------------------------------------------------------------------------
(* dmx_send_num() keeps to the types *)

\* dmx_send_num() up to the call of dmx_wait_sent() keeps every type.
LEMMA SendCallType ==
  ASSUME TypeOK, NEW t \in Tasks, NEW n \in Sizes, SendCall(t, n)
  PROVE  TypeOK'
<1> USE UnchangedType
<1>1. SyncType'
  BY TakeType DEF TypeOK, SyncType, SendCall
<1>2. TaskType'
  <2>1. n \in Int
    BY DriverAssumption
  <2>2. PICK wait \in BOOLEAN : local' = [local EXCEPT ![t].wait = wait, ![t].num = n]
    BY Zenon DEF SendCall
  <2>3. local' \in [Tasks -> Locals]
    BY <2>1, <2>2, ArgumentType DEF TypeOK
  <2>4. QED
    BY <2>3 DEF TypeOK, TaskType, SendCall, Goto, Labels
<1>3. QED
  BY <1>1, <1>2 DEF TypeOK, SendCall

\* The look at the packet in dmx_send_num() keeps every type.
LEMMA SendHeaderType ==
  ASSUME TypeOK, NEW t \in Tasks, SendHeader(t)
  PROVE  TypeOK'
<1> USE UnchangedType
<1>1. SyncType'
  BY GiveType DEF TypeOK, SyncType, SendHeader
<1>2. DmxType'
  <2>1. is_controller' \in BOOLEAN
    <3>1. (~IsRdm(data) \/ data \in Requests) \in BOOLEAN
      BY DEF IsRdm
    <3>2. is_controller \in BOOLEAN
      BY DEF TypeOK, DmxType
    <3>3. QED
      BY <3>1, <3>2, Zenon DEF SendHeader
  <2>2. QED
    BY <2>1 DEF TypeOK, DmxType, SendHeader, driverVars
<1>3. TaskType'
  <2>1. data \in PacketKinds
    BY DEF TypeOK, DmxType
  <2>2. CASE local[t].sent
    BY <2>1, <2>2 DEF TypeOK, TaskType, SendHeader, Goto, Labels, Locals
  <2>3. CASE ~local[t].sent
    BY <2>3, ReturnType DEF TypeOK, SendHeader
  <2>4. QED
    BY <2>2, <2>3
<1>4. QED
  BY <1>1, <1>2, <1>3 DEF TypeOK, SendHeader

\* The wait for the time between packets keeps every type.
LEMMA SendAlarmType ==
  ASSUME TypeOK, NEW t \in Tasks, NEW elapsed \in Elapsed, SendAlarm(t, elapsed)
  PROVE  TypeOK'
<1> USE UnchangedType
<1>1. SyncType'
  BY GiveType DEF TypeOK, SyncType, SendAlarm
<1>2. HwType'
  <2>1. timer' \in BOOLEAN
    BY Zenon DEF TypeOK, HwType, SendAlarm
  <2>2. QED
    BY <2>1 DEF TypeOK, HwType, SendAlarm, txVars
<1>3. TaskType'
  BY ReturnType, GotoType DEF TypeOK, SendAlarm, Labels
<1>4. QED
  BY <1>1, <1>2, <1>3 DEF TypeOK, SendAlarm

\* What is recorded of a packet and how long it is.
LEMMA PacketType ==
  ASSUME NEW kind \in PacketKinds
  PROVE  PidOf(kind) \in {"none", "dub", "other"} /\ PacketLen(kind) \in 1..PacketMax
BY DriverAssumption DEF PacketKinds, PidOf, PacketLen

\* What dmx_send_num() sends is a packet, whatever size it is asked for.
LEMMA SendSizeFits ==
  ASSUME NEW kind \in PacketKinds, NEW n \in Int
  PROVE  SendSize(kind, n) \in 1..PacketMax
BY PacketType, DriverAssumption DEF SendSize

\* The packet that is to be sent fits the buffer (io.c:395-404).
LEMMA SendTurnType ==
  ASSUME TypeOK, NEW t \in Tasks, SendTurn(t)
  PROVE  TypeOK'
<1> USE UnchangedType
<1> DEFINE kind == local[t].kind
<1>1. kind \in PacketKinds /\ local[t].num \in Int
  BY DEF TypeOK, TaskType, Locals
<1>2. DmxType'
  <2>1. size' \in Int
    BY <1>1, SendSizeFits, DriverAssumption DEF SendTurn
  <2>2. last_controller_pid' \in {"none", "dub", "other"}
    BY <1>1, PacketType DEF TypeOK, DmxType, SendTurn
  <2>3. last_request_was_broadcast' \in BOOLEAN
    <3>1. (kind \in {"broadcast", "dub"}) \in BOOLEAN
      OBVIOUS
    <3>2. last_request_was_broadcast \in BOOLEAN
      BY DEF TypeOK, DmxType
    <3>3. QED
      BY <3>1, <3>2, Zenon DEF SendTurn
  <2>4. QED
    BY <2>1, <2>2, <2>3 DEF TypeOK, DmxType, SendTurn
<1>3. HwType'
  BY DEF TypeOK, HwType, SendTurn, TurnToWrite, txVars
<1>4. TaskType'
  BY GotoType DEF TypeOK, SendTurn, Labels
<1>5. QED
  BY <1>2, <1>3, <1>4 DEF TypeOK, SendTurn

\* The start of the transmission, with or without a break, keeps every type.
LEMMA SendGoType ==
  ASSUME TypeOK, NEW t \in Tasks, SendGo(t)
  PROVE  TypeOK'
<1> USE UnchangedType
<1>1. SyncType'
  BY GiveType DEF TypeOK, SyncType, SendGo
<1> DEFINE n == Smaller(size, FifoLen - Len(fifo))
<1>2. n \in Int /\ fifo \o Slots(0, n) \in Seq(Int)
  BY FifoType DEF TypeOK, DmxType
<1> HIDE DEF n
<1>3. DmxType'
  BY <1>2, OvertakenType DEF TypeOK, DmxType, SendGo, n
<1>4. HwType'
  <2>1. timer' \in BOOLEAN /\ inverted' \in BOOLEAN
    BY Zenon DEF TypeOK, HwType, SendGo
  <2>2. fifo' \in Seq(Int) /\ wire' \in Seq(Int)
    <3>1. wire' = <<>> /\ (fifo' = fifo \o Slots(0, n) \/ fifo' = fifo)
      BY DEF SendGo, n
    <3>2. <<>> \in Seq(Int)
      OBVIOUS
    <3>3. fifo \in Seq(Int)
      BY DEF TypeOK, HwType
    <3>4. QED
      BY <1>2, <3>1, <3>2, <3>3
  <2>3. QED
    BY <2>1, <2>2 DEF TypeOK, HwType, SendGo
<1>5. TaskType'
  BY ReturnType DEF TypeOK, SendGo
<1>6. QED
  BY <1>1, <1>3, <1>4, <1>5 DEF TypeOK

\* All steps of dmx_send_num() keep every type.
LEMMA SendType ==
  ASSUME TypeOK, NEW t \in Tasks, SendNext(t)
  PROVE  TypeOK'
<1> USE UnchangedType
<1>1. CASE SendWake(t)
  <2>1. SyncType'
    BY <1>1, ConsumeType DEF TypeOK, SendWake
  <2>2. TaskType'
    BY <1>1, GotoType DEF TypeOK, SendWake, Labels
  <2>3. QED
    BY <1>1, <2>1, <2>2 DEF TypeOK, SendWake
<1>2. CASE SendClear(t)
  <2>1. SyncType'
    BY <1>2 DEF TypeOK, SyncType, SendClear
  <2>2. TaskType'
    BY <1>2, GotoType DEF TypeOK, SendClear, Labels
  <2>3. QED
    BY <1>2, <2>1, <2>2 DEF TypeOK, SendClear
<1>3. QED
  BY <1>1, <1>2, SendCallType, SendHeaderType, SendAlarmType, SendTurnType,
     SendGoType DEF SendNext
-----------------------------------------------------------------------------
(* dmx_receive_num() keeps to the types *)

\* dmx_receive_num() up to its look at progress keeps every type.
LEMMA ReceiveCallType ==
  ASSUME TypeOK, NEW t \in Tasks, NEW want \in Sizes, NEW wait \in BOOLEAN,
         ReceiveCall(t, want, wait)
  PROVE  TypeOK'
<1> USE UnchangedType
<1>1. SyncType'
  BY TakeType DEF TypeOK, SyncType, ReceiveCall
<1>2. TaskType'
  <2>1. want \in Int
    BY DriverAssumption
  <2>2. QED
    BY <2>1, ArgumentType DEF TypeOK, TaskType, ReceiveCall, Goto, Labels
<1>3. QED
  BY <1>1, <1>2 DEF TypeOK, ReceiveCall

\* From the call to the look at the packet.
LEMMA ReceiveStartType ==
  ASSUME TypeOK, NEW t \in Tasks,
         ReceiveLateTake(t) \/ ReceiveSent(t) \/ ReceiveTurn(t) \/ ReceiveSize(t)
  PROVE  TypeOK'
<1> USE UnchangedType
<1>1. CASE ReceiveLateTake(t)
  <2>1. SyncType'
    BY <1>1, TakeType DEF TypeOK, SyncType, ReceiveLateTake
  <2>2. QED
    BY <1>1, <2>1 DEF TypeOK, ReceiveLateTake
<1>2. CASE ReceiveSent(t)
  <2>1. SyncType'
    BY <1>2, GiveType DEF TypeOK, SyncType, ReceiveSent
  <2>2. TaskType'
    BY <1>2, ReturnType, GotoType DEF TypeOK, ReceiveSent, Labels
  <2>3. QED
    BY <1>2, <2>1, <2>2 DEF TypeOK, ReceiveSent
<1>3. CASE ReceiveTurn(t)
  <2>1. SyncType'
    BY <1>3, ConsumeType DEF TypeOK, SyncType, ReceiveTurn
  <2>2. DmxType'
    BY <1>3 DEF TypeOK, DmxType, ReceiveTurn, roleVars
  <2>3. HwType'
    BY <1>3 DEF TypeOK, HwType, ReceiveTurn, txVars
  <2>4. TaskType'
    BY <1>3, GotoType DEF TypeOK, ReceiveTurn, Labels
  <2>5. QED
    BY <2>1, <2>2, <2>3, <2>4 DEF TypeOK
<1>4. CASE ReceiveSize(t)
  <2>1. DmxType'
    BY <1>4 DEF TypeOK, DmxType, TaskType, Locals, ReceiveSize, roleVars
  <2>2. TaskType'
    BY <1>4, GotoType DEF TypeOK, ReceiveSize, Labels
  <2>3. QED
    BY <1>4, <2>1, <2>2 DEF TypeOK, ReceiveSize
<1>5. QED
  BY <1>1, <1>2, <1>3, <1>4

\* The look at progress, the registration and the alarm keep every type.
LEMMA ReceiveLookType ==
  ASSUME TypeOK, NEW t \in Tasks, ReceiveLook(t)
  PROVE  TypeOK'
<1> USE UnchangedType
<1>1. SyncType'
  BY GiveType DEF TypeOK, SyncType, ReceiveLook
<1>2. TaskType'
  <2>1. CASE progress = "complete"
    BY <2>1 DEF TypeOK, DmxType, TaskType, ReceiveLook, Goto, Labels, Locals
  <2>2. CASE progress # "complete"
    BY <2>2, ReturnType, GotoType DEF TypeOK, ReceiveLook, Labels
  <2>3. QED
    BY <2>1, <2>2
<1>3. QED
  BY <1>1, <1>2 DEF TypeOK, ReceiveLook

\* The wait for a packet, up to its end.
LEMMA ReceiveWaitType ==
  ASSUME TypeOK, NEW t \in Tasks,
         \/ ReceiveArm(t) \/ ReceiveWake(t)
         \/ \E elapsed \in Elapsed : ReceiveTimer(t, elapsed)
  PROVE  TypeOK'
<1> USE UnchangedType
<1>1. CASE ReceiveArm(t)
  <2>1. SyncType'
    BY <1>1 DEF TypeOK, SyncType, ReceiveArm
  <2>2. TaskType'
    BY <1>1, GotoType DEF TypeOK, ReceiveArm, Labels
  <2>3. QED
    BY <1>1, <2>1, <2>2 DEF TypeOK, ReceiveArm
<1>2. ASSUME NEW elapsed \in Elapsed, ReceiveTimer(t, elapsed)
      PROVE  TypeOK'
  <2>1. SyncType'
    BY <1>2, GiveType DEF TypeOK, SyncType, ReceiveTimer
  <2>2. HwType'
    <3>1. timer' \in BOOLEAN
      BY <1>2, Zenon DEF TypeOK, HwType, ReceiveTimer
    <3>2. QED
      BY <1>2, <3>1 DEF TypeOK, HwType, ReceiveTimer, txVars
  <2>3. TaskType'
    BY <1>2, ReturnType, GotoType DEF TypeOK, ReceiveTimer, Labels
  <2>4. QED
    BY <1>2, <2>1, <2>2, <2>3 DEF TypeOK, ReceiveTimer
<1>3. CASE ReceiveWake(t)
  <2>1. SyncType'
    BY <1>3, ConsumeType DEF TypeOK, ReceiveWake
  <2>2. TaskType'
    BY <1>3 DEF TypeOK, SyncType, TaskType, ReceiveWake, Goto, Labels, Locals
  <2>3. QED
    BY <1>3, <2>1, <2>2 DEF TypeOK, ReceiveWake
<1>4. QED
  BY <1>1, <1>2, <1>3

\* The steps of dmx_receive_num() after its wait keep every type.
LEMMA ReceiveEndType ==
  ASSUME TypeOK, NEW t \in Tasks, ReceiveClear(t) \/ ReceiveParse(t)
  PROVE  TypeOK'
<1> USE UnchangedType
<1>1. CASE ReceiveClear(t)
  <2>1. SyncType'
    BY <1>1, GiveType DEF TypeOK, SyncType, ReceiveClear, Consume
  <2>2. TaskType'
    <3>1. CASE local[t].err = "no"
      BY <1>1, <3>1, ReturnType DEF TypeOK, ReceiveClear
    <3>2. CASE local[t].err # "no"
      <4>1. local' = [local EXCEPT ![t].num = head] /\ Goto(t, "r_parse")
            /\ UNCHANGED caller
        BY <1>1, <3>2 DEF ReceiveClear
      <4>2. QED
        BY <4>1 DEF TypeOK, DmxType, TaskType, Goto, Labels, Locals
    <3>3. QED
      BY <3>1, <3>2
  <2>3. QED
    BY <1>1, <2>1, <2>2 DEF TypeOK, ReceiveClear
<1>2. CASE ReceiveParse(t)
  <2>1. SyncType'
    BY <1>2, GiveType DEF TypeOK, SyncType, ReceiveParse
  <2>2. DmxType'
    BY <1>2 DEF TypeOK, DmxType, ReceiveParse, roleVars
  <2>3. TaskType'
    BY <1>2, ReturnType DEF TypeOK, ReceiveParse
  <2>4. QED
    BY <1>2, <2>1, <2>2, <2>3 DEF TypeOK, ReceiveParse
<1>3. QED
  BY <1>1, <1>2

\* All steps of dmx_receive_num() keep every type.
LEMMA ReceiveType ==
  ASSUME TypeOK, NEW t \in Tasks, ReceiveNext(t)
  PROVE  TypeOK'
BY ReceiveCallType, ReceiveStartType, ReceiveLookType, ReceiveWaitType,
   ReceiveEndType DEF ReceiveNext

-----------------------------------------------------------------------------
(* The interrupts and the UART keep to the types *)

\* The timer interrupt keeps every type.
LEMMA TimerType ==
  ASSUME TypeOK, TimerIsr
  PROVE  TypeOK'
<1> USE UnchangedType
<1>1. CASE TimerAlarm
  <2>1. SyncType'
    BY <1>1, NotifyType DEF TypeOK, TimerAlarm
  <2>2. HwType'
    <3>1. timer' \in BOOLEAN
      BY <1>1, Zenon DEF TimerAlarm
    <3>2. QED
      BY <1>1, <3>1 DEF TypeOK, HwType, TimerAlarm, txVars
  <2>3. QED
    BY <1>1, <2>1, <2>2 DEF TypeOK, TimerAlarm
<1>2. CASE TimerBreakEnd
  <2>1. DmxType'
    BY <1>2 DEF TypeOK, DmxType, TimerBreakEnd, roleVars
  <2>2. HwType'
    <3>1. inverted' \in BOOLEAN
      BY <1>2, Zenon DEF TimerBreakEnd
    <3>2. QED
      BY <1>2, <3>1 DEF TypeOK, HwType, TimerBreakEnd
  <2>3. QED
    BY <1>2, <2>1, <2>2 DEF TypeOK, TimerBreakEnd
<1>3. CASE TimerMabEnd
  <2> DEFINE n == Smaller(size, FifoLen - Len(fifo))
  <2>1. n \in Int /\ fifo \o Slots(0, n) \in Seq(Int)
    BY FifoType DEF TypeOK, DmxType
  <2>2. fifo' = fifo \o Slots(0, n) /\ head' = n
    BY <1>3 DEF TimerMabEnd
  <2> HIDE DEF n
  <2>3. DmxType'
    BY <1>3, <2>1, <2>2 DEF TypeOK, DmxType, TimerMabEnd, roleVars
  <2>4. HwType'
    <3>1. timer' \in BOOLEAN
      BY <1>3, Zenon DEF TimerMabEnd
    <3>2. QED
      BY <1>3, <2>1, <2>2, <3>1 DEF TypeOK, HwType, TimerMabEnd
  <2>5. QED
    BY <1>3, <2>3, <2>4 DEF TypeOK, TimerMabEnd
<1>4. QED
  BY <1>1, <1>2, <1>3 DEF TimerIsr

\* The transmitter and its interrupts keep every type.
LEMMA TransmitType ==
  ASSUME TypeOK, ShiftOut \/ TxData \/ TxDone
  PROVE  TypeOK'
<1> USE UnchangedType
<1>1. CASE ShiftOut
  <2>1. tx_done' \in BOOLEAN
    <3>1. (tx_done \/ LastSlot) \in BOOLEAN
      BY DEF TypeOK, HwType, LastSlot
    <3>2. QED
      BY <1>1, <3>1, Zenon DEF ShiftOut
  <2>2. HwType'
    BY <1>1, <2>1 DEF TypeOK, HwType, ShiftOut
  <2>3. QED
    BY <1>1, <2>2 DEF TypeOK, ShiftOut
<1>2. CASE TxData
  <2> DEFINE n == Smaller(size - head, FifoLen - Len(fifo))
  <2>1. n \in Int /\ fifo \o Slots(head, n) \in Seq(Int)
    BY FifoType DEF TypeOK, DmxType
  <2>2. fifo' = fifo \o Slots(head, n) /\ head' = head + n /\ tx_intr' \subseteq tx_intr
    BY <1>2 DEF TxData, TxIntrAfter
  <2> HIDE DEF n
  <2>3. DmxType'
    BY <1>2, <2>1, <2>2 DEF TypeOK, DmxType, TxData, roleVars
  <2>4. HwType'
    BY <1>2, <2>1, <2>2 DEF TypeOK, HwType, TxData
  <2>5. QED
    BY <1>2, <2>3, <2>4 DEF TypeOK, TxData
<1>3. CASE TxDone
  <2>1. SyncType'
    BY <1>3, NotifyType DEF TypeOK, TxDone
  <2>2. DmxType'
    BY <1>3 DEF TypeOK, DmxType, TxDone, roleVars
  <2>3. HwType'
    <3>1. tx_done' \in BOOLEAN
      BY <1>3, Zenon DEF TxDone
    <3>2. QED
      BY <1>3, <3>1 DEF TypeOK, HwType, TxDone
  <2>4. QED
    BY <1>3, <2>1, <2>2, <2>3 DEF TypeOK, TxDone
<1>4. QED
  BY <1>1, <1>2, <1>3

\* The position in the buffer stays a number, its contents a kind of packet.
LEMMA BufferType ==
  ASSUME TypeOK, NEW n \in 1..FifoLen, NEW h \in Int, NEW kind \in PacketKinds
  PROVE  HeadAfter(n) \in Int /\ DataAfter(h, kind) \in PacketKinds
BY DriverAssumption DEF TypeOK, DmxType, HeadAfter, DataAfter, Smaller, PacketKinds

\* A packet that completes keeps every type.
LEMMA CompleteType ==
  ASSUME TypeOK, NEW value \in {"ok", "err"}, Complete(value),
         UNCHANGED <<mux, task_waiting>>
  PROVE  /\ SyncType'
         /\ timer' \in BOOLEAN
         /\ progress' = "complete" /\ status' = "idle"
<1>1. timer' \in BOOLEAN
  BY Zenon DEF Complete
<1>2. QED
  BY <1>1, NotifyType DEF TypeOK, Complete

\* A break leaves an expected size that fits the buffer (uart.c:82-101).
LEMMA RxBreakType ==
  ASSUME TypeOK, NEW n \in 1..FifoLen, RxBreak(n)
  PROVE  TypeOK'
<1> USE UnchangedType
<1> DEFINE h == HeadAfter(n)
           kind == IF head = 0 THEN "dmx" ELSE rxkind
<1>1. kind \in PacketKinds
  BY DEF TypeOK, HwType, PacketKinds
<1>2. h \in Int /\ DataAfter(h - 1, kind) \in PacketKinds
  <2>1. h \in Int
    BY <1>1, BufferType
  <2>2. h - 1 \in Int
    BY <2>1
  <2>3. QED
    BY <1>1, <2>1, <2>2, BufferType
<1>3. /\ data' = DataAfter(h - 1, kind)
      /\ size' = h - 1 \/ size' = size
      /\ status' = "receiving" /\ progress' = "in_break" /\ head' = 0
      /\ UNCHANGED roleVars
  BY DEF RxBreak
<1> HIDE DEF h, kind
<1>4. DmxType'
  BY <1>2, <1>3 DEF TypeOK, DmxType, roleVars
<1>5. SyncType'
  BY NotifyType DEF TypeOK, SyncType, RxBreak
<1>6. QED
  BY <1>4, <1>5 DEF TypeOK, RxBreak

\* A slot that is received is counted up to the bound (uart.c:57-80).
LEMMA RxDataType ==
  ASSUME TypeOK, NEW n \in 1..FifoLen, NEW k \in RxKinds, RxData(n, k)
  PROVE  TypeOK'
<1> USE UnchangedType
<1> DEFINE h == HeadAfter(n)
           kind == IF head = 0 THEN k ELSE rxkind
<1>1. kind \in PacketKinds
  BY DriverAssumption DEF TypeOK, HwType
<1>2. h \in Int /\ DataAfter(h, kind) \in PacketKinds
  <2>1. h \in Int
    BY <1>1, BufferType
  <2>2. QED
    BY <1>1, <2>1, BufferType
<1>3. /\ head' = h /\ rxkind' = kind /\ data' = DataAfter(h, kind)
      /\ last_controller_pid' \in {PidOf(kind), last_controller_pid}
      /\ UNCHANGED <<mux, task_waiting, size, is_controller,
                     last_request_was_broadcast, overtaken, rts, txVars, taskVars>>
      /\ \/ Complete("ok")
         \/ progress' \in {"in_data", progress} /\ UNCHANGED <<timer, status, notified>>
  BY DEF RxData
<1> HIDE DEF h, kind
<1>4. SyncType' /\ timer' \in BOOLEAN
  <2>1. CASE Complete("ok")
    BY <1>3, <2>1, CompleteType
  <2>2. CASE UNCHANGED <<timer, status, notified>>
    BY <1>3, <2>2 DEF TypeOK, SyncType, HwType
  <2>3. QED
    BY <1>3, <2>1, <2>2
<1>5. DmxType'
  <2>1. last_controller_pid' \in {"none", "dub", "other"}
    BY <1>1, <1>3, PacketType DEF TypeOK, DmxType
  <2>2. QED
    BY <1>2, <1>3, <2>1 DEF TypeOK, DmxType, Complete
<1>6. HwType'
  BY <1>1, <1>3, <1>4 DEF TypeOK, HwType, txVars
<1>7. QED
  BY <1>3, <1>4, <1>5, <1>6 DEF TypeOK

\* A line error keeps every type.
LEMMA RxErrorType ==
  ASSUME TypeOK, NEW n \in 1..FifoLen, RxError(n)
  PROVE  TypeOK'
<1> USE UnchangedType
<1> DEFINE h == HeadAfter(n)
<1>1. "dmx" \in PacketKinds
  BY DEF PacketKinds
<1>2. h \in Int /\ DataAfter(h, "dmx") \in PacketKinds
  <2>1. h \in Int
    BY <1>1, BufferType
  <2>2. QED
    BY <1>1, <2>1, BufferType
<1>3. /\ head' = h /\ rxkind' = "dmx" /\ data' = DataAfter(h, "dmx")
      /\ UNCHANGED <<mux, task_waiting, size, roleVars, rts, txVars, taskVars>>
      /\ \/ Complete("err")
         \/ UNCHANGED <<timer, progress, status, notified>>
  BY DEF RxError
<1> HIDE DEF h
<1>4. SyncType' /\ timer' \in BOOLEAN
  <2>1. CASE Complete("err")
    BY <1>3, <2>1, CompleteType
  <2>2. CASE UNCHANGED <<timer, progress, status, notified>>
    BY <1>3, <2>2 DEF TypeOK, SyncType, HwType
  <2>3. QED
    BY <1>3, <2>1, <2>2
<1>5. DmxType'
  BY <1>2, <1>3 DEF TypeOK, DmxType, roleVars, Complete
<1>6. HwType'
  BY <1>1, <1>3, <1>4 DEF TypeOK, HwType, txVars
<1>7. QED
  BY <1>3, <1>4, <1>5, <1>6 DEF TypeOK

-----------------------------------------------------------------------------
\* No step of a task, an interrupt or the UART leaves a field of the driver out
\* of its range, for any number of tasks and however steps interleave.
THEOREM TypeCorrect == Spec => []TypeOK
<1>1. TypeOK /\ [Next]_vars => TypeOK'
  <2> SUFFICES ASSUME TypeOK, [Next]_vars PROVE TypeOK'
    OBVIOUS
  <2>1. ASSUME NEW t \in Tasks, TaskNext(t) PROVE TypeOK'
    BY <2>1, WriteType, WaitSentType, SendType, ReceiveType DEF TaskNext
  <2>2. CASE RxIsr
    BY <2>2, RxBreakType, RxDataType, RxErrorType DEF RxIsr
  <2>3. CASE UNCHANGED vars
    BY <2>3, UnchangedType DEF TypeOK, vars
  <2>4. QED
    BY <2>1, <2>2, <2>3, TimerType, TransmitType DEF Next
<1>2. QED
  BY InitType, <1>1, PTL DEF Spec
-----------------------------------------------------------------------------
(* The driver mutex *)

\* Inside dmx_send_num or dmx_receive_num, and inside neither.
ControlOf(t) ==
  /\ pc[t] \in {"idle", "w_check", "w_rts", "w_copy"} => caller[t] = "none"
  /\ pc[t] \in {"s_header", "s_alarm", "s_wait", "s_clear", "s_turn", "s_go"}
       => caller[t] = "send"
  /\ pc[t] \in {"r_sent", "r_turn", "r_size", "r_look", "r_arm", "r_timer",
                "r_wait", "r_clear", "r_parse"} => caller[t] = "receive"
Control == \A t \in Tasks : ControlOf(t)

\* A mutex that nobody has taken has no owner.
Counted == mux.depth >= 0 /\ (mux.depth = 0 <=> mux.owner = NoTask)

\* What a step of a task does to the mutex, and what the task then holds.
KeepsMutex(t) == mux' = mux /\ Held(t)' = Held(t)
TakesMutex(t) == Take(t) /\ Held(t)' = Held(t) + 1
GivesMutex(t) == Give(t) /\ Held(t) > 0 /\ Held(t)' = Held(t) - 1
LeaksMutex(t) == SlowTakes /\ Take(t) /\ Held(t)' = Held(t)
Effect(t) ==
  /\ KeepsMutex(t) \/ TakesMutex(t) \/ GivesMutex(t) \/ LeaksMutex(t)
  /\ \A u \in Tasks \ {t} : Held(u)' = Held(u) /\ (ControlOf(u) => ControlOf(u)')
  /\ ControlOf(t)'

\* A step inside a call, between the same take and give.
LEMMA GotoEffect ==
  ASSUME TypeOK, NEW t \in Tasks, NEW label \in Labels, Goto(t, label), UNCHANGED caller
  PROVE  /\ pc'[t] = label /\ caller'[t] = caller[t]
         /\ \A u \in Tasks \ {t} :
              Held(u)' = Held(u) /\ (ControlOf(u) => ControlOf(u)')
BY DEF TypeOK, TaskType, Goto, Held, ControlOf

\* The return from a call.
LEMMA ReturnEffect ==
  ASSUME TypeOK, NEW t \in Tasks, Return(t)
  PROVE  /\ Held(t)' = 0 /\ ControlOf(t)'
         /\ \A u \in Tasks \ {t} :
              Held(u)' = Held(u) /\ (ControlOf(u) => ControlOf(u)')
<1>1. pc'[t] = "idle" /\ caller'[t] = "none"
  BY DEF TypeOK, TaskType, Return, Goto
<1>2. \A u \in Tasks \ {t} : pc'[u] = pc[u] /\ caller'[u] = caller[u]
  BY DEF TypeOK, TaskType, Return, Goto
<1>3. QED
  BY <1>1, <1>2 DEF Held, ControlOf

\* The return from dmx_wait_sent, to the application or to the call it is part of.
LEMMA WaitSentReturnEffect ==
  ASSUME TypeOK, NEW t \in Tasks, NEW result \in BOOLEAN, WaitSentReturn(t, result)
  PROVE  /\ Held(t)' = IF caller[t] = "none" THEN 0 ELSE 1
         /\ ControlOf(t)'
         /\ \A u \in Tasks \ {t} :
              Held(u)' = Held(u) /\ (ControlOf(u) => ControlOf(u)')
<1>1. CASE caller[t] = "none"
  BY <1>1, ReturnEffect DEF WaitSentReturn
<1>2. CASE caller[t] # "none"
  <2>1. PICK label \in {"s_header", "r_sent"} :
          /\ label = IF caller[t] = "send" THEN "s_header" ELSE "r_sent"
          /\ Goto(t, label) /\ UNCHANGED caller
    BY <1>2 DEF WaitSentReturn
  <2>2. label \in Labels
    BY DEF Labels
  <2>3. caller[t] \in {"send", "receive"}
    BY <1>2 DEF TypeOK, TaskType
  <2>4. QED
    BY <1>2, <2>1, <2>2, <2>3, GotoEffect DEF Held, ControlOf
<1>3. QED
  BY <1>1, <1>2

\* dmx_write_offset() does not touch the mutex.
LEMMA WriteEffect ==
  ASSUME TypeOK, Control, NEW t \in Tasks, WriteNext(t)
  PROVE  Effect(t)
<1> USE DEF Effect, KeepsMutex, Control, ControlOf, Held, syncVars
<1>1. ASSUME NEW kind \in Kinds, WriteCall(t, kind)
      PROVE  Effect(t)
  BY <1>1, GotoEffect DEF WriteCall, Labels
<1>2. CASE WriteCheck(t)
  BY <1>2, GotoEffect, ReturnEffect DEF WriteCheck, Labels
<1>3. CASE WriteRts(t)
  BY <1>3, GotoEffect DEF WriteRts, Labels
<1>4. CASE WriteCopy(t)
  BY <1>4, ReturnEffect DEF WriteCopy
<1>5. QED
  BY <1>1, <1>2, <1>3, <1>4 DEF WriteNext

\* Every way through dmx_wait_sent() takes the mutex and gives it back, or leaks it.
LEMMA WaitSentEffect ==
  ASSUME TypeOK, Control, NEW t \in Tasks, WaitSentNext(t)
  PROVE  Effect(t)
<1> USE DEF Effect, Control, ControlOf, Held
<1>0. caller[t] \in {"none", "send", "receive"} /\ local[t].sent \in BOOLEAN
  BY DEF TypeOK, TaskType, Locals
<1>1. ASSUME NEW wait \in BOOLEAN, WaitSentCall(t, wait)
      PROVE  Effect(t)
  BY <1>1, GotoEffect DEF WaitSentCall, Labels, KeepsMutex, syncVars
<1>2. CASE WaitSentTake(t)
  BY <1>0, <1>2, GotoEffect DEF WaitSentTake, Labels, TakesMutex
<1>3. CASE WaitSentNoTake(t)
  <2>1. PICK result \in BOOLEAN : WaitSentReturn(t, result)
    BY <1>3, Zenon DEF WaitSentNoTake
  <2>2. QED
    BY <1>0, <1>3, <2>1, WaitSentReturnEffect DEF WaitSentNoTake, KeepsMutex, syncVars
<1>4. CASE WaitSentLateTake(t)
  <2>1. PICK result \in BOOLEAN : WaitSentReturn(t, result)
    BY <1>4, Zenon DEF WaitSentLateTake
  <2>2. QED
    BY <1>0, <1>4, <2>1, WaitSentReturnEffect DEF WaitSentLateTake, LeaksMutex
<1>5. CASE WaitSentCheck(t)
  <2>1. CASE Sending /\ local[t].wait
    BY <1>0, <1>5, <2>1, GotoEffect DEF WaitSentCheck, Labels, KeepsMutex
  <2>2. CASE ~(Sending /\ local[t].wait)
    <3>1. (~Sending) \in BOOLEAN
      BY DEF Sending
    <3>2. PICK result \in BOOLEAN : WaitSentReturn(t, result)
      BY <1>5, <2>2, <3>1 DEF WaitSentCheck
    <3>3. QED
      BY <1>0, <1>5, <2>2, <3>2, WaitSentReturnEffect DEF WaitSentCheck, GivesMutex
  <2>3. QED
    BY <2>1, <2>2
<1>6. CASE WaitSentWake(t)
  BY <1>0, <1>6, GotoEffect DEF WaitSentWake, Labels, KeepsMutex
<1>7. CASE WaitSentClear(t)
  BY <1>0, <1>7, WaitSentReturnEffect DEF WaitSentClear, GivesMutex
<1>8. QED
  BY <1>1, <1>2, <1>3, <1>4, <1>5, <1>6, <1>7 DEF WaitSentNext

\* The calls that enter dmx_wait_sent with the mutex taken.
LEMMA CallEffect ==
  ASSUME TypeOK, Control, NEW t \in Tasks, NEW name \in {"send", "receive"},
         pc[t] = "idle", Take(t), Goto(t, "ws_take"),
         caller' = [caller EXCEPT ![t] = name]
  PROVE  Effect(t)
<1>1. pc'[t] = "ws_take" /\ caller'[t] = name
  BY DEF TypeOK, TaskType, Goto
<1>2. \A u \in Tasks \ {t} : pc'[u] = pc[u] /\ caller'[u] = caller[u]
  BY DEF TypeOK, TaskType, Goto
<1>3. caller[t] = "none"
  BY DEF Control, ControlOf
<1>4. QED
  BY <1>1, <1>2, <1>3 DEF Effect, TakesMutex, Control, ControlOf, Held

\* Every way through dmx_send_num() takes the mutex and gives it back.
LEMMA SendEffect ==
  ASSUME TypeOK, Control, NEW t \in Tasks, SendNext(t)
  PROVE  Effect(t)
<1> USE DEF Effect, Control, ControlOf, Held
<1>1. ASSUME NEW n \in Sizes, SendCall(t, n)
      PROVE  Effect(t)
  BY <1>1, CallEffect DEF SendCall
<1>2. CASE SendHeader(t)
  BY <1>2, GotoEffect, ReturnEffect DEF SendHeader, Labels, KeepsMutex, GivesMutex
<1>3. ASSUME NEW elapsed \in Elapsed, SendAlarm(t, elapsed)
      PROVE  Effect(t)
  BY <1>3, GotoEffect, ReturnEffect DEF SendAlarm, Labels, KeepsMutex, GivesMutex
<1>4. CASE SendWake(t)
  BY <1>4, GotoEffect DEF SendWake, Labels, KeepsMutex
<1>5. CASE SendClear(t)
  BY <1>5, GotoEffect DEF SendClear, Labels, KeepsMutex
<1>6. CASE SendTurn(t)
  BY <1>6, GotoEffect DEF SendTurn, Labels, KeepsMutex, syncVars
<1>7. CASE SendGo(t)
  BY <1>7, ReturnEffect DEF SendGo, GivesMutex
<1>8. QED
  BY <1>1, <1>2, <1>3, <1>4, <1>5, <1>6, <1>7 DEF SendNext

\* Every way through dmx_receive_num() takes the mutex and gives it back, or leaks it.
LEMMA ReceiveEffect ==
  ASSUME TypeOK, Control, NEW t \in Tasks, ReceiveNext(t)
  PROVE  Effect(t)
<1> USE DEF Effect, Control, ControlOf, Held
<1>1. ASSUME NEW want \in Sizes, NEW wait \in BOOLEAN, ReceiveCall(t, want, wait)
      PROVE  Effect(t)
  BY <1>1, CallEffect DEF ReceiveCall
<1>2. CASE ReceiveLateTake(t)
  BY <1>2 DEF ReceiveLateTake, taskVars, LeaksMutex
<1>3. CASE ReceiveSent(t)
  BY <1>3, GotoEffect, ReturnEffect DEF ReceiveSent, Labels, KeepsMutex, GivesMutex
<1>4. CASE ReceiveTurn(t)
  BY <1>4, GotoEffect DEF ReceiveTurn, Labels, KeepsMutex
<1>5. CASE ReceiveSize(t)
  BY <1>5, GotoEffect DEF ReceiveSize, Labels, KeepsMutex, syncVars
<1>6. CASE ReceiveLook(t)
  BY <1>6, GotoEffect, ReturnEffect DEF ReceiveLook, Labels, KeepsMutex, GivesMutex
<1>7. CASE ReceiveArm(t)
  BY <1>7, GotoEffect DEF ReceiveArm, Labels, KeepsMutex
<1>8. ASSUME NEW elapsed \in Elapsed, ReceiveTimer(t, elapsed)
      PROVE  Effect(t)
  BY <1>8, GotoEffect, ReturnEffect DEF ReceiveTimer, Labels, KeepsMutex, GivesMutex
<1>9. CASE ReceiveWake(t)
  BY <1>9, GotoEffect DEF ReceiveWake, Labels, KeepsMutex
<1>10. CASE ReceiveClear(t)
  BY <1>10, GotoEffect, ReturnEffect DEF ReceiveClear, Labels, KeepsMutex, GivesMutex
<1>11. CASE ReceiveParse(t)
  BY <1>11, ReturnEffect DEF ReceiveParse, GivesMutex
<1>12. QED
  BY <1>1, <1>2, <1>3, <1>4, <1>5, <1>6, <1>7, <1>8, <1>9, <1>10, <1>11 DEF ReceiveNext

\* Interrupts and the UART leave the mutex and the tasks alone.
LEMMA InterruptEffect ==
  ASSUME TimerIsr \/ ShiftOut \/ TxData \/ TxDone \/ RxIsr \/ UNCHANGED vars
  PROVE  UNCHANGED <<mux, taskVars>>
BY DEF TimerIsr, TimerAlarm, TimerBreakEnd, TimerMabEnd, ShiftOut, TxData, TxDone,
       RxIsr, RxBreak, RxData, RxError, vars, syncVars, taskVars

\* Whatever happens, one task gets on, or the mutex and what is held stay.
LEMMA StepEffect ==
  ASSUME TypeOK, Control, [Next]_vars
  PROVE  \/ \E t \in Tasks : Effect(t)
         \/ UNCHANGED mux /\ (\A t \in Tasks : Held(t)' = Held(t)) /\ Control'
<1>1. ASSUME NEW t \in Tasks, TaskNext(t)
      PROVE  Effect(t)
  BY <1>1, WriteEffect, WaitSentEffect, SendEffect, ReceiveEffect DEF TaskNext
<1>2. CASE UNCHANGED <<mux, taskVars>>
  BY <1>2 DEF Control, ControlOf, Held, taskVars
<1>3. QED
  BY <1>1, <1>2, InterruptEffect DEF Next

\* A task holds the mutex at most twice, in dmx_wait_sent inside of a call.
LEMMA HeldRange == \A t \in Tasks : Held(t) \in 0..2 /\ Held(t)' \in 0..2
BY DEF Held

\* A step of a task keeps the mutex with the tasks that hold it, and, unless the

\* mutex is leaked, exactly as often as they hold it.
LEMMA EffectHeld ==
  ASSUME TypeOK, Counted, MutexHeld, NEW t \in Tasks, Effect(t)
  PROVE  /\ Counted' /\ MutexHeld'
         /\ ~SlowTakes /\ MutexBalanced => MutexBalanced'
<1> USE HeldRange
<1>0. mux \in [owner : Tasks \cup {NoTask}, depth : Int] /\ NoTask \notin Tasks
  BY DriverAssumption DEF TypeOK, SyncType
<1>1. CASE KeepsMutex(t)
  BY <1>0, <1>1 DEF Effect, KeepsMutex, Counted, MutexHeld, MutexBalanced
<1>2. CASE TakesMutex(t) \/ LeaksMutex(t)
  <2>1. mux.owner \in {NoTask, t} /\ mux' = [owner |-> t, depth |-> mux.depth + 1]
    BY <1>2 DEF TakesMutex, LeaksMutex, Take
  <2>2. Counted'
    BY <1>0, <2>1 DEF Counted
  <2>3. MutexHeld'
    BY <1>0, <1>2, <2>1 DEF Effect, TakesMutex, LeaksMutex, Counted, MutexHeld
  <2>4. ~SlowTakes /\ MutexBalanced => MutexBalanced'
    BY <1>0, <1>2, <2>1 DEF Effect, TakesMutex, LeaksMutex, Counted, MutexHeld,
       MutexBalanced
  <2>5. QED
    BY <2>2, <2>3, <2>4
<1>3. CASE GivesMutex(t)
  <2>1. mux.owner = t /\ mux.depth >= Held(t) /\ mux.depth > 0
    BY <1>0, <1>3 DEF GivesMutex, MutexHeld
  <2>2. mux' = [owner |-> IF mux.depth = 1 THEN NoTask ELSE t, depth |-> mux.depth - 1]
    BY <1>3, <2>1 DEF GivesMutex, Give
  <2>3. Counted'
    BY <1>0, <2>1, <2>2 DEF Counted
  <2>4. MutexHeld'
    BY <1>0, <1>3, <2>1, <2>2 DEF Effect, GivesMutex, MutexHeld
  <2>5. MutexBalanced => MutexBalanced'
    BY <1>0, <1>3, <2>1, <2>2 DEF Effect, GivesMutex, MutexHeld, MutexBalanced
  <2>6. QED
    BY <2>3, <2>4, <2>5
<1>4. QED
  BY <1>1, <1>2, <1>3 DEF Effect

\* The inductive invariant of the mutex.
MutexInv == TypeOK /\ Control /\ Counted /\ MutexHeld

\* The mutex is free at first.
LEMMA MutexInit == Init => MutexInv /\ MutexBalanced
BY InitType DEF Init, MutexInv, Control, ControlOf, Counted, MutexHeld, MutexBalanced,
   Held

\* No step of a task or an interrupt breaks what holds of the mutex.
LEMMA MutexStep ==
  ASSUME MutexInv, TypeOK', [Next]_vars
  PROVE  MutexInv' /\ (~SlowTakes /\ MutexBalanced => MutexBalanced')
<1>1. TypeOK /\ Control /\ Counted /\ MutexHeld
  BY DEF MutexInv
<1>2. ASSUME NEW t \in Tasks, Effect(t)
      PROVE  MutexInv' /\ (~SlowTakes /\ MutexBalanced => MutexBalanced')
  <2>1. Control'
    BY <1>1, <1>2 DEF Effect, Control
  <2>2. QED
    BY <1>1, <1>2, <2>1, EffectHeld DEF MutexInv
<1>3. CASE UNCHANGED mux /\ (\A t \in Tasks : Held(t)' = Held(t)) /\ Control'
  <2>1. mux \in [owner : Tasks \cup {NoTask}, depth : Int]
    BY <1>1 DEF TypeOK, SyncType
  <2>2. QED
    BY <1>1, <1>3, <2>1 DEF MutexInv, Counted, MutexHeld, MutexBalanced
<1>4. QED
  BY <1>1, <1>2, <1>3, StepEffect

\* Inside dmx_send_num, dmx_receive_num and dmx_wait_sent a task owns the mutex
\* at least as often as the calls nest: no two tasks are between a take and its
\* give, even when a timed-out call keeps the mutex (io.c:129, io.c:480).
THEOREM MutexIsHeld == Spec => []MutexHeld
<1>1. MutexInv /\ TypeOK' /\ [Next]_vars => MutexInv'
  BY MutexStep
<1>2. MutexInv => MutexHeld
  BY DEF MutexInv
<1>3. QED
  BY MutexInit, TypeCorrect, <1>1, <1>2, PTL DEF Spec

\* As long as no wait for the mutex outlasts its ticks, every take is given
\* back: after the calls the mutex is free.
THEOREM MutexIsBalanced ==
  ASSUME ~SlowTakes
  PROVE  Spec => []MutexBalanced
<1>1. MutexInv /\ MutexBalanced /\ TypeOK' /\ [Next]_vars => (MutexInv /\ MutexBalanced)'
  BY MutexStep
<1>2. QED
  BY MutexInit, TypeCorrect, <1>1, PTL DEF Spec
=============================================================================
