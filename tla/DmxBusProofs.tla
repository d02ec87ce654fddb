---------------------------- MODULE DmxBusProofs ----------------------------
(***************************************************************************)
(* Theorems about the bus and the waiting task of the DMX driver, and the  *)
(* proof that it implements DmxLine, for any number of tasks and packets   *)
(* of any length, where no wait runs out of ticks.                         *)
(***************************************************************************)
EXTENDS DmxDriverProofs, SequenceTheorems

\* Nothing is received.
Silent == RxKinds = {} /\ "receive" \notin Calls

\* No wait runs out of ticks; and if packets are received, a woken task runs
\* before the next interrupt, and nobody begins too late to wait for a response.
Timely == ~Timeouts /\ (Silent \/ (Prompt /\ "late" \notin Elapsed))

\* Where a task neither holds the mutex nor has just got it.
Outside == {"idle", "w_check", "w_rts", "w_copy", "ws_take"}

\* The task holds the mutex and knows that no packet is sent.
Knowing(t) ==
  \/ pc[t] \in {"ws_clear", "s_alarm", "s_wait", "s_clear", "s_turn", "s_go", "r_turn",
                "r_size", "r_look", "r_arm", "r_timer", "r_wait", "r_clear", "r_parse"}
  \/ pc[t] \in {"s_header", "r_sent"} /\ local[t].sent
  \/ pc[t] = "ws_wait" /\ Notified(t)

TaskInv(t) ==
  /\ (task_waiting = t) <=> (pc[t] \in Blocked)
  /\ Notified(t) => pc[t] \in {"ws_wait", "s_wait", "r_timer", "r_wait"}
  /\ Knowing(t) => status # "sending"
  /\ pc[t] = "s_go" => rts = 0 /\ size \in 1..PacketMax
  /\ caller[t] = "receive" => "receive" \in Calls

\* The transceiver drives the bus while a packet is sent, the line is inverted
\* until the alarm of its break, and what is sent is a packet.
LineInv ==
  /\ status = "sending" => rts = 0 /\ size \in 1..PacketMax
  /\ inverted => status = "sending" /\ timer /\ progress = "in_break" /\ tx_intr = {}
  /\ tx_intr # {} => status = "sending"

\* Where nothing is received, an alarm is that of a break or of a task.
AlarmInv ==
  Silent => /\ timer => \/ status = "sending"
                        \/ \E t \in Tasks : pc[t] = "s_wait" /\ ~Notified(t)
            /\ tx_intr # {} => ~timer

BusInv == LineInv /\ AlarmInv /\ \A t \in Tasks : TaskInv(t)

-----------------------------------------------------------------------------
(* What a step of one task leaves alone *)

Others(t) ==
  \A u \in Tasks \ {t} : /\ pc'[u] = pc[u] /\ caller'[u] = caller[u] /\ local'[u] = local[u]
                         /\ notified'[u] = notified[u]

\* A task that holds the mutex is the only one that is inside of a call.
LEMMA Alone ==
  ASSUME MutexInv, NEW t \in Tasks, Held(t) > 0
  PROVE  \A u \in Tasks \ {t} : pc[u] \in Outside
<1>1. \A u \in Tasks \ {t} : Held(u) = 0
  BY HeldRange DEF MutexInv, MutexHeld
<1>2. \A u \in Tasks \ {t} : caller[u] = "none" /\ pc[u] \notin {"ws_check", "ws_wait", "ws_clear"}
  <2>1. SUFFICES ASSUME NEW u \in Tasks \ {t}
                 PROVE  caller[u] = "none" /\ pc[u] \notin {"ws_check", "ws_wait", "ws_clear"}
    OBVIOUS
  <2>2. Held(u) = 0
    BY <1>1
  <2>3. CASE caller[u] = "none"
    BY <2>2, <2>3 DEF Held
  <2>4. CASE caller[u] # "none"
    BY <2>2, <2>4 DEF Held
  <2>5. QED
    BY <2>3, <2>4
<1>3. \A u \in Tasks : pc[u] \in Labels
  BY DEF MutexInv, TypeOK, TaskType
<1>4. QED
  BY <1>2, <1>3 DEF MutexInv, Control, ControlOf, Labels, Outside

\* Each label inside of a call comes with the mutex.
LEMMA InsideHolds ==
  ASSUME MutexInv, NEW t \in Tasks, pc[t] \in Labels \ Outside
  PROVE  Held(t) > 0
BY DEF MutexInv, Control, ControlOf, Labels, Outside, Held

\* A step to a label.
LEMMA GotoTask ==
  ASSUME TypeOK, NEW t \in Tasks, NEW label \in Labels, Goto(t, label)
  PROVE  pc'[t] = label /\ \A u \in Tasks \ {t} : pc'[u] = pc[u]
BY DEF TypeOK, TaskType, Goto

\* The return from a call.
LEMMA ReturnTask ==
  ASSUME TypeOK, NEW t \in Tasks, Return(t)
  PROVE  /\ pc'[t] = "idle" /\ caller'[t] = "none" /\ local'[t] = NoLocals
         /\ \A u \in Tasks \ {t} : pc'[u] = pc[u] /\ caller'[u] = caller[u] /\ local'[u] = local[u]
BY DEF TypeOK, TaskType, Return, Goto

\* The return from dmx_wait_sent() to what called it.
LEMMA WaitSentReturnTask ==
  ASSUME TypeOK, NEW t \in Tasks, NEW result \in BOOLEAN, WaitSentReturn(t, result)
  PROVE  /\ \/ pc'[t] = "idle" /\ local'[t].num = 0
            \/ /\ pc'[t] \in {"s_header", "r_sent"}
               /\ local'[t].sent = result /\ local'[t].num = local[t].num
         /\ caller'[t] \in {caller[t], "none"}
         /\ \A u \in Tasks \ {t} : pc'[u] = pc[u] /\ caller'[u] = caller[u] /\ local'[u] = local[u]
<1>1. CASE caller[t] = "none"
  BY <1>1, ReturnTask DEF WaitSentReturn, NoLocals
<1>2. CASE caller[t] # "none"
  BY <1>2 DEF WaitSentReturn, Goto, TypeOK, TaskType, Locals
<1>3. QED
  BY <1>1, <1>2

\* A task that takes its notification leaves those of others alone.
LEMMA ConsumeTask ==
  ASSUME TypeOK, NEW t \in Tasks, Consume(t)
  PROVE  notified'[t] = "no" /\ \A u \in Tasks \ {t} : notified'[u] = notified[u]
BY DEF TypeOK, SyncType, Consume

\* A step of a task outside of the mutex.
LEMMA OutsideStep ==
  ASSUME BusInv, NEW t \in Tasks, Others(t), pc[t] \in Outside,
         \/ pc'[t] \in Outside \cup {"ws_check"}
         \/ pc'[t] \in {"s_header", "r_sent"} /\ ~local'[t].sent,
         caller'[t] = "receive" => "receive" \in Calls,
         UNCHANGED <<task_waiting, notified, status, progress, head, size, timer, inverted, tx_intr>>,
         rts' \in {rts, 0}
  PROVE  BusInv'
<1>1. LineInv'
  BY DEF BusInv, LineInv
<1>2. AlarmInv'
  BY DEF BusInv, AlarmInv, Others, Notified, Outside
<1>3. TaskInv(t)'
  BY DEF BusInv, TaskInv, Knowing, Notified, Outside, Blocked
<1>4. ASSUME NEW u \in Tasks \ {t} PROVE TaskInv(u)'
  BY <1>4 DEF BusInv, TaskInv, Knowing, Notified, Others
<1>5. QED
  BY <1>1, <1>2, <1>3, <1>4 DEF BusInv

\* A step of the task that holds the mutex: the others know nothing of the bus.
LEMMA InsideStep ==
  ASSUME MutexInv, BusInv, NEW t \in Tasks, Others(t), pc[t] \in Labels \ Outside,
         task_waiting' \in {t, NoTask, task_waiting},
         LineInv', AlarmInv', TaskInv(t)'
  PROVE  BusInv'
<1>1. \A u \in Tasks \ {t} : pc[u] \in Outside
  BY Alone, InsideHolds
<1>2. ASSUME NEW u \in Tasks \ {t} PROVE TaskInv(u)'
  <2>1. task_waiting' # u /\ ~Notified(u)
    BY <1>1, <1>2, DriverAssumption DEF BusInv, TaskInv, Outside, Blocked
  <2>2. pc'[u] \in Outside /\ (caller'[u] = "receive" => "receive" \in Calls)
    BY <1>1, <1>2 DEF BusInv, TaskInv, Others, Outside
  <2>3. ~Notified(u)'
    BY <2>1 DEF Others, Notified
  <2>4. QED
    BY <2>1, <2>2, <2>3 DEF TaskInv, Knowing, Outside, Blocked
<1>3. QED
  BY <1>2 DEF BusInv

\* What the alarm is for, to a task that holds the mutex.
LEMMA AlarmOf ==
  ASSUME MutexInv, BusInv, NEW t \in Tasks, pc[t] \in Labels \ Outside, Silent, timer,
         status # "sending"
  PROVE  pc[t] = "s_wait" /\ ~Notified(t)
<1>1. \A u \in Tasks \ {t} : pc[u] \in Outside
  BY Alone, InsideHolds
<1>2. QED
  BY <1>1 DEF BusInv, AlarmInv, Outside

-----------------------------------------------------------------------------
(* The task that waits *)

\* A task that waits is the one that is registered.
Registered == \A t \in Tasks : pc[t] \in Blocked => task_waiting = t

\* What a step of a task does to its registration and to that of others.
RegistersItself(t) ==
  /\ \A u \in Tasks \ {t} : pc'[u] = pc[u]
  /\ task_waiting' = task_waiting \/ pc[t] \in Labels \ Outside
  /\ pc'[t] \in Blocked => \/ task_waiting' = t
                           \/ task_waiting' = task_waiting /\ pc[t] \in Blocked
  /\ pc[t] \in Blocked /\ pc'[t] \notin Blocked
       => task_waiting' # t \/ (pc[t] = "r_timer" /\ pc'[t] = "idle")

\* A task registers itself only when it holds the mutex, before it waits.
LEMMA TaskRegisters ==
  ASSUME TypeOK, NEW t \in Tasks, TaskNext(t)
  PROVE  RegistersItself(t)
<1> USE DEF RegistersItself, Blocked
<1>1. ASSUME NEW label \in Labels, Goto(t, label)
      PROVE  pc'[t] = label /\ \A u \in Tasks \ {t} : pc'[u] = pc[u]
  BY <1>1, GotoTask
<1>2. ASSUME Return(t) PROVE pc'[t] = "idle" /\ \A u \in Tasks \ {t} : pc'[u] = pc[u]
  BY <1>2, ReturnTask
<1>3. NoTask # t
  BY DriverAssumption
<1>4. CASE WriteNext(t)
  BY <1>1, <1>2, <1>4 DEF WriteNext, WriteCall, WriteCheck, WriteRts, WriteCopy, syncVars, Labels
<1>5. CASE WaitSentNext(t)
  <2>1. ASSUME NEW result \in BOOLEAN, WaitSentReturn(t, result)
        PROVE  pc'[t] \in {"idle", "s_header", "r_sent"} /\ \A u \in Tasks \ {t} : pc'[u] = pc[u]
    BY <2>1, WaitSentReturnTask
  <2>2. ASSUME NEW wait \in BOOLEAN, WaitSentCall(t, wait) PROVE RegistersItself(t)
    BY <1>1, <2>2 DEF WaitSentCall, syncVars, Labels
  <2>3. CASE WaitSentTake(t) \/ WaitSentWake(t)
    BY <1>1, <2>3 DEF WaitSentTake, WaitSentWake, Labels
  <2>4. CASE WaitSentNoTake(t) \/ WaitSentLateTake(t)
    BY <2>1, <2>4 DEF WaitSentNoTake, WaitSentLateTake, syncVars
  <2>5. CASE WaitSentCheck(t)
    <3>1. pc[t] = "ws_check" /\ (~Sending) \in BOOLEAN
      BY <2>5 DEF WaitSentCheck, Sending
    <3>2. CASE task_waiting' = t /\ Goto(t, "ws_wait")
      BY <1>1, <3>1, <3>2 DEF Labels, Outside
    <3>3. CASE WaitSentReturn(t, ~Sending) /\ UNCHANGED task_waiting
      BY <2>1, <3>1, <3>3
    <3>4. QED
      BY <2>5, <3>2, <3>3 DEF WaitSentCheck
  <2>6. CASE WaitSentClear(t)
    <3>1. local[t].sent \in BOOLEAN
      BY DEF TypeOK, TaskType, Locals
    <3>2. QED
      BY <1>3, <2>1, <2>6, <3>1 DEF WaitSentClear, Labels, Outside
  <2>7. QED
    BY <1>5, <2>2, <2>3, <2>4, <2>5, <2>6 DEF WaitSentNext
<1>6. CASE SendNext(t)
  BY <1>1, <1>2, <1>3, <1>6 DEF SendNext, SendCall, SendHeader, SendAlarm, SendWake, SendClear,
     SendTurn, SendGo, syncVars, Labels, Outside
<1>7. CASE ReceiveNext(t)
  BY <1>1, <1>2, <1>3, <1>7 DEF ReceiveNext, ReceiveCall, ReceiveLateTake, ReceiveSent, ReceiveTurn,
     ReceiveSize, ReceiveLook, ReceiveArm, ReceiveTimer, ReceiveWake, ReceiveClear, ReceiveParse,
     syncVars, taskVars, Labels, Outside
<1>8. QED
  BY <1>4, <1>5, <1>6, <1>7 DEF TaskNext

\* A wait that ends was registered to its end and takes the registration with
\* it, but for the one way out at io.c:226 (io.c:197, 243, 376, 498): for any
\* number of tasks, also when ticks run out and the mutex is leaked.
THEOREM WaitsAreRegistered == Spec => RegistrationEnds
<1> DEFINE Ends == \A t \in Tasks : pc[t] \in Blocked /\ pc'[t] \notin Blocked
                     => /\ task_waiting = t
                        /\ task_waiting' = t => pc[t] = "r_timer" /\ pc'[t] = "idle"
<1>1. Init => Registered
  BY DEF Init, Registered, Blocked
<1>2. ASSUME MutexInv, Registered, [Next]_vars PROVE Registered' /\ Ends
  <2>1. ASSUME NEW t \in Tasks, TaskNext(t) PROVE Registered' /\ Ends
    <3>1. RegistersItself(t)
      BY <1>2, <2>1, TaskRegisters DEF MutexInv
    <3>2. ASSUME NEW u \in Tasks \ {t}, pc[u] \in Blocked PROVE task_waiting' = task_waiting
      <4>1. Held(u) > 0
        BY <1>2, <3>2, InsideHolds DEF Labels, Outside, Blocked
      <4>2. pc[t] \in Outside
        BY <1>2, <3>2, <4>1, Alone
      <4>3. QED
        BY <3>1, <4>2 DEF RegistersItself
    <3>3. Registered'
      BY <1>2, <3>1, <3>2 DEF Registered, RegistersItself
    <3>4. Ends
      BY <1>2, <3>1 DEF Registered, RegistersItself
    <3>5. QED
      BY <3>3, <3>4
  <2>2. CASE TimerIsr \/ ShiftOut \/ TxData \/ TxDone \/ RxIsr
    <3>1. UNCHANGED <<task_waiting, pc>>
      BY <2>2 DEF TimerIsr, TimerAlarm, TimerBreakEnd, TimerMabEnd, ShiftOut, TxData, TxDone, RxIsr,
         RxBreak, RxData, RxError, syncVars, taskVars
    <3>2. QED
      BY <1>2, <3>1 DEF Registered
  <2>3. CASE UNCHANGED vars
    BY <1>2, <2>3 DEF vars, syncVars, taskVars, Registered
  <2>4. QED
    BY <1>2, <2>1, <2>2, <2>3 DEF Next
<1>3. MutexInv /\ TypeOK' /\ [Next]_vars => MutexInv'
  BY MutexStep
<1>4. MutexInv /\ Registered /\ [Next]_vars => Registered'
  BY <1>2
<1>5. MutexInv /\ Registered /\ [Next]_vars => [Ends]_vars
  BY <1>2
<1>6. QED
  BY MutexInit, TypeCorrect, <1>1, <1>3, <1>4, <1>5, PTL DEF Spec, RegistrationEnds

-----------------------------------------------------------------------------
(* The calls *)

\* dmx_write_offset() only turns the bus to write.
LEMMA WriteBus ==
  ASSUME MutexInv, BusInv, NEW t \in Tasks, WriteNext(t)
  PROVE  BusInv'
<1> USE DEF MutexInv
<1>1. caller[t] = "receive" => "receive" \in Calls
  BY DEF BusInv, TaskInv
<1>3. ASSUME NEW kind \in Kinds, WriteCall(t, kind) PROVE BusInv'
  <2>1. pc[t] = "idle" /\ UNCHANGED <<syncVars, dmxVars, hwVars, caller>>
        /\ local' = [local EXCEPT ![t].kind = kind]
    BY <1>3 DEF WriteCall
  <2>2. pc'[t] \in {"w_check", "w_rts"} /\ \A u \in Tasks \ {t} : pc'[u] = pc[u]
    BY <1>3, GotoTask DEF WriteCall, Labels
  <2>3. \A u \in Tasks \ {t} : local'[u] = local[u]
    BY <2>1 DEF TypeOK, TaskType, Locals
  <2>4. Others(t)
    BY <2>1, <2>2, <2>3 DEF Others, syncVars
  <2>5. QED
    BY <1>1, <2>1, <2>2, <2>3, <2>4, OutsideStep
    DEF Outside, syncVars, dmxVars, driverVars, hwVars, txVars
<1>4. CASE WriteCheck(t) \/ WriteCopy(t)
  <2>1. /\ pc[t] \in {"w_check", "w_copy"}
        /\ UNCHANGED <<task_waiting, notified, status, progress, head, size, timer, inverted, tx_intr, rts>>
    BY <1>4 DEF WriteCheck, WriteCopy, syncVars, dmxVars, driverVars, hwVars, txVars
  <2>2. Return(t) \/ (Goto(t, "w_rts") /\ UNCHANGED <<caller, local>>)
    BY <1>4 DEF WriteCheck, WriteCopy
  <2>3. CASE Return(t)
    BY <1>1, <2>1, <2>3, ReturnTask, OutsideStep DEF Others, Outside, NoLocals
  <2>4. CASE Goto(t, "w_rts") /\ UNCHANGED <<caller, local>>
    <3>1. pc'[t] = "w_rts" /\ \A u \in Tasks \ {t} : pc'[u] = pc[u]
      BY <2>4, GotoTask DEF Labels
    <3>2. QED
      BY <1>1, <2>1, <2>4, <3>1, OutsideStep DEF Others, Outside
  <2>5. QED
    BY <2>2, <2>3, <2>4
<1>5. CASE WriteRts(t)
  <2>1. /\ pc[t] = "w_rts" /\ rts' = 0 /\ UNCHANGED <<caller, local>>
        /\ UNCHANGED <<task_waiting, notified, status, progress, head, size, timer, inverted, tx_intr>>
    BY <1>5 DEF WriteRts, TurnToWrite, syncVars, dmxVars, driverVars, txVars
  <2>2. pc'[t] = "w_copy" /\ \A u \in Tasks \ {t} : pc'[u] = pc[u]
    BY <1>5, GotoTask DEF WriteRts, Labels
  <2>3. QED
    BY <1>1, <2>1, <2>2, OutsideStep DEF Others, Outside
<1>6. QED
  BY <1>3, <1>4, <1>5 DEF WriteNext

\* dmx_wait_sent() returns true only when no packet is sent.
LEMMA WaitSentBus ==
  ASSUME ~Timeouts, MutexInv, BusInv, NEW t \in Tasks, WaitSentNext(t)
  PROVE  BusInv'
<1> USE DEF MutexInv
<1>1. caller[t] = "receive" => "receive" \in Calls
  BY DEF BusInv, TaskInv
<1>3. ASSUME NEW wait \in BOOLEAN, WaitSentCall(t, wait) PROVE BusInv'
  <2>1. pc[t] = "idle" /\ UNCHANGED <<syncVars, dmxVars, hwVars, caller>>
        /\ local' = [local EXCEPT ![t].wait = wait]
    BY <1>3 DEF WaitSentCall
  <2>2. pc'[t] = "ws_take" /\ \A u \in Tasks \ {t} : pc'[u] = pc[u]
    BY <1>3, GotoTask DEF WaitSentCall, Labels
  <2>3. \A u \in Tasks \ {t} : local'[u] = local[u]
    BY <2>1 DEF TypeOK, TaskType, Locals
  <2>4. Others(t)
    BY <2>1, <2>2, <2>3 DEF Others, syncVars
  <2>5. QED
    BY <1>1, <2>1, <2>2, <2>3, <2>4, OutsideStep
    DEF Outside, syncVars, dmxVars, driverVars, hwVars, txVars
<1>4. CASE WaitSentTake(t)
  <2>1. /\ pc[t] = "ws_take" /\ UNCHANGED <<caller, local>>
        /\ UNCHANGED <<task_waiting, notified, status, progress, head, size, timer, inverted, tx_intr, rts>>
    BY <1>4 DEF WaitSentTake, dmxVars, driverVars, hwVars, txVars
  <2>2. pc'[t] = "ws_check" /\ \A u \in Tasks \ {t} : pc'[u] = pc[u]
    BY <1>4, GotoTask DEF WaitSentTake, Labels
  <2>3. QED
    BY <1>1, <2>1, <2>2, OutsideStep DEF Others, Outside
<1>5. CASE WaitSentNoTake(t) \/ WaitSentLateTake(t)
  <2>1. /\ pc[t] = "ws_take" /\ WaitSentReturn(t, FALSE)
        /\ UNCHANGED <<task_waiting, notified, status, progress, head, size, timer, inverted, tx_intr, rts>>
    BY <1>5 DEF WaitSentNoTake, WaitSentLateTake, syncVars, dmxVars, driverVars, hwVars, txVars
  <2>2. /\ \/ pc'[t] = "idle"
           \/ pc'[t] \in {"s_header", "r_sent"} /\ ~local'[t].sent
        /\ caller'[t] = "receive" => "receive" \in Calls
        /\ Others(t)
    BY <1>1, <2>1, WaitSentReturnTask DEF Others
  <2>3. QED
    BY <1>1, <2>1, <2>2, OutsideStep DEF Outside
<1>6. ASSUME NEW result \in BOOLEAN, WaitSentReturn(t, result), result => status # "sending",
             pc[t] \in {"ws_check", "ws_clear"}, ~Notified(t),
             task_waiting' \in {task_waiting, NoTask}, task_waiting' # t,
             UNCHANGED <<notified, status, progress, head, size, timer, inverted, tx_intr, rts>>
      PROVE  BusInv'
  <2>1. /\ \/ pc'[t] = "idle"
           \/ pc'[t] \in {"s_header", "r_sent"} /\ local'[t].sent = result
        /\ caller'[t] = "receive" => "receive" \in Calls
        /\ Others(t)
    BY <1>1, <1>6, WaitSentReturnTask DEF Others
  <2>2. LineInv'
    BY <1>6 DEF BusInv, LineInv
  <2>3. AlarmInv'
    BY <1>6, <2>1 DEF BusInv, AlarmInv, Others, Notified
  <2>4. TaskInv(t)'
    BY <1>1, <1>6, <2>1 DEF TaskInv, Knowing, Blocked, Notified
  <2>5. QED
    BY <1>6, <2>1, <2>2, <2>3, <2>4, InsideStep DEF Labels, Outside
<1>7. CASE WaitSentCheck(t)
  <2>1. /\ pc[t] = "ws_check" /\ ~Notified(t) /\ task_waiting # t
        /\ UNCHANGED <<notified, status, progress, head, size, timer, inverted, tx_intr, rts>>
    BY <1>7 DEF WaitSentCheck, dmxVars, driverVars, hwVars, txVars, BusInv, TaskInv, Blocked
  <2>2. CASE Sending /\ local[t].wait
    <3>1. task_waiting' = t /\ UNCHANGED <<caller, local>> /\ Goto(t, "ws_wait")
      BY <1>7, <2>2 DEF WaitSentCheck
    <3>2. pc'[t] = "ws_wait" /\ \A u \in Tasks \ {t} : pc'[u] = pc[u]
      BY <3>1, GotoTask DEF Labels
    <3>3. Others(t)
      BY <2>1, <3>1, <3>2 DEF Others
    <3>4. LineInv'
      BY <2>1 DEF BusInv, LineInv
    <3>5. AlarmInv'
      BY <2>1, <3>3 DEF BusInv, AlarmInv, Others, Notified
    <3>6. TaskInv(t)'
      BY <1>1, <2>1, <3>1, <3>2 DEF TaskInv, Knowing, Blocked, Notified
    <3>7. QED
      BY <2>1, <3>1, <3>3, <3>4, <3>5, <3>6, InsideStep DEF Labels, Outside
  <2>3. CASE ~(Sending /\ local[t].wait)
    <3>1. (~Sending) \in BOOLEAN
      BY DEF Sending
    <3>2. PICK result \in BOOLEAN : WaitSentReturn(t, result) /\ (result => ~Sending)
      BY <1>7, <2>3, <3>1 DEF WaitSentCheck
    <3>3. UNCHANGED task_waiting
      BY <1>7, <2>3 DEF WaitSentCheck
    <3>4. QED
      BY <1>6, <2>1, <3>2, <3>3 DEF Sending
  <2>4. QED
    BY <2>2, <2>3
<1>8. CASE WaitSentWake(t)
  <2>1. /\ pc[t] = "ws_wait" /\ Notified(t) /\ status # "sending" /\ task_waiting = t
        /\ local' = [local EXCEPT ![t].sent = TRUE]
        /\ UNCHANGED <<task_waiting, status, progress, head, size, timer, inverted, tx_intr, rts, caller>>
    BY <1>8 DEF WaitSentWake, dmxVars, driverVars, hwVars, txVars, BusInv, TaskInv, Knowing, Blocked
  <2>2. pc'[t] = "ws_clear" /\ \A u \in Tasks \ {t} : pc'[u] = pc[u]
    BY <1>8, GotoTask DEF WaitSentWake, Labels
  <2>3. \A u \in Tasks \ {t} : local'[u] = local[u]
    BY <2>1 DEF TypeOK, TaskType, Locals
  <2>4. notified'[t] = "no" /\ Others(t)
    BY <1>8, <2>1, <2>2, <2>3, ConsumeTask DEF WaitSentWake, Others
  <2>5. LineInv'
    BY <2>1 DEF BusInv, LineInv
  <2>6. AlarmInv'
    <3>1. ~(Silent /\ timer)
      BY <2>1, AlarmOf DEF Labels, Outside
    <3>2. QED
      BY <2>1, <3>1 DEF BusInv, AlarmInv
  <2>7. TaskInv(t)'
    BY <1>1, <2>1, <2>2, <2>3, <2>4 DEF TaskInv, Knowing, Blocked, Notified
  <2>8. QED
    BY <2>1, <2>4, <2>5, <2>6, <2>7, InsideStep DEF Labels, Outside
<1>9. CASE WaitSentClear(t)
  <2>1. /\ pc[t] = "ws_clear" /\ ~Notified(t) /\ status # "sending" /\ task_waiting' = NoTask
        /\ WaitSentReturn(t, local[t].sent) /\ local[t].sent \in BOOLEAN /\ NoTask # t
        /\ UNCHANGED <<notified, status, progress, head, size, timer, inverted, tx_intr, rts>>
    BY <1>9, DriverAssumption DEF WaitSentClear, dmxVars, driverVars, hwVars, txVars, BusInv, TaskInv,
       Knowing, TypeOK, TaskType, Locals
  <2>2. QED
    BY <1>6, <2>1
<1>10. QED
  BY <1>3, <1>4, <1>5, <1>7, <1>8, <1>9 DEF WaitSentNext

\* A task that holds the mutex and goes on to a label, without touching the bus.
LEMMA InsideGoto ==
  ASSUME MutexInv, BusInv, NEW t \in Tasks, pc[t] \in Labels \ Outside, pc[t] # "s_wait",
         NEW label \in Labels, Goto(t, label), Others(t),
         task_waiting' \in {t, NoTask, task_waiting},
         UNCHANGED <<notified, status, progress, head, size, timer, inverted, tx_intr, rts>>,
         TaskInv(t)'
  PROVE  BusInv'
<1>1. LineInv'
  BY DEF BusInv, LineInv
<1>2. AlarmInv'
  <2>1. Silent /\ timer => status = "sending"
    BY AlarmOf
  <2>2. QED
    BY <2>1 DEF BusInv, AlarmInv
<1>3. QED
  BY <1>1, <1>2, InsideStep

\* A task that knows that no packet is sent, and returns.
LEMMA InsideReturn ==
  ASSUME MutexInv, BusInv, NEW t \in Tasks, pc[t] \in Labels \ Outside, Return(t),
         notified' = notified \/ Consume(t), ~Notified(t), pc[t] # "s_wait",
         task_waiting' = NoTask \/ (task_waiting' = task_waiting /\ pc[t] \notin Blocked),
         LineInv', AlarmInv'
  PROVE  BusInv'
<1> USE DEF MutexInv
<1>1. /\ pc'[t] = "idle" /\ caller'[t] = "none" /\ local'[t] = NoLocals
      /\ \A u \in Tasks \ {t} : pc'[u] = pc[u] /\ caller'[u] = caller[u] /\ local'[u] = local[u]
  BY ReturnTask
<1>2. Others(t) /\ ~Notified(t)'
  BY <1>1, ConsumeTask DEF Others, Notified
<1>3. TaskInv(t)'
  <2>1. task_waiting' # t
    BY DriverAssumption DEF BusInv, TaskInv
  <2>2. PacketMax \in Nat
    BY DriverAssumption
  <2>3. QED
    BY <1>1, <1>2, <2>1, <2>2 DEF TaskInv, Knowing, Blocked, NoLocals
<1>4. QED
  BY <1>2, <1>3, InsideStep

\* dmx_send_num() starts a packet only when none is sent, with the bus turned.
LEMMA SendBus ==
  ASSUME Timely, MutexInv, BusInv, NEW t \in Tasks, SendNext(t)
  PROVE  BusInv'
<1> USE DEF MutexInv
<1>1. TaskInv(t) /\ LineInv /\ AlarmInv /\ PacketMax \in Nat \ {0} /\ local[t] \in Locals
  BY DriverAssumption DEF BusInv, TypeOK, TaskType
<1>2. pc[t] \in {"s_header", "s_alarm", "s_clear", "s_turn", "s_go"} =>
        pc[t] \in Labels \ Outside /\ pc[t] # "s_wait" /\ ~Notified(t)
  BY <1>1 DEF TaskInv, Labels, Outside
<1>3. ASSUME NEW n \in Sizes, SendCall(t, n) PROVE BusInv'
  <2>1. /\ pc[t] = "idle" /\ caller' = [caller EXCEPT ![t] = "send"]
        /\ UNCHANGED <<task_waiting, notified, dmxVars, hwVars>>
    BY <1>3 DEF SendCall
  <2>2. pc'[t] = "ws_take" /\ \A u \in Tasks \ {t} : pc'[u] = pc[u]
    BY <1>3, GotoTask DEF SendCall, Labels
  <2>3. local'[t].num = n /\ \A u \in Tasks \ {t} : local'[u] = local[u]
    <3>1. PICK wait \in BOOLEAN : local' = [local EXCEPT ![t] = [local[t] EXCEPT !.wait = wait, !.num = n]]
      BY <1>1, <1>3, Zenon DEF SendCall, TypeOK, TaskType
    <3> DEFINE r == [local[t] EXCEPT !.wait = wait, !.num = n]
    <3>2. r.num = n
      BY <1>1 DEF Locals
    <3> HIDE DEF r
    <3>3. QED
      BY <3>1, <3>2 DEF TypeOK, TaskType, r
  <2>4. caller'[t] = "send" /\ Others(t)
    BY <2>1, <2>2, <2>3 DEF Others, TypeOK, TaskType
  <2>5. QED
    BY <2>1, <2>2, <2>3, <2>4, OutsideStep DEF Outside, dmxVars, driverVars, hwVars, txVars
<1>4. CASE SendHeader(t)
  <2>1. /\ pc[t] = "s_header"
        /\ UNCHANGED <<task_waiting, notified, status, progress, head, size, timer, inverted, tx_intr, rts>>
    BY <1>4 DEF SendHeader, driverVars, hwVars, txVars
  <2>2. CASE local[t].sent
    <3>1. Goto(t, "s_alarm") /\ UNCHANGED caller /\ local' = [local EXCEPT ![t].kind = data]
      BY <1>4, <2>2 DEF SendHeader
    <3>2. pc'[t] = "s_alarm" /\ \A u \in Tasks \ {t} : pc'[u] = pc[u]
      BY <3>1, GotoTask DEF Labels
    <3>3. local'[t].num = local[t].num /\ \A u \in Tasks \ {t} : local'[u] = local[u]
      BY <3>1 DEF TypeOK, TaskType, Locals
    <3>4. Others(t)
      BY <2>1, <3>1, <3>2, <3>3 DEF Others
    <3>5. TaskInv(t)'
      BY <1>1, <1>2, <2>1, <2>2, <3>1, <3>2, <3>3 DEF TaskInv, Knowing, Blocked, Notified
    <3>6. QED
      BY <1>2, <2>1, <3>1, <3>4, <3>5, InsideGoto DEF Labels
  <2>3. CASE ~local[t].sent
    <3>1. Return(t)
      BY <1>4, <2>3 DEF SendHeader
    <3>2. LineInv' /\ AlarmInv'
      <4>1. LineInv'
        BY <1>1, <2>1 DEF LineInv
      <4>2. Silent /\ timer => status = "sending"
        BY <1>2, <2>1, AlarmOf
      <4>3. QED
        BY <1>1, <2>1, <4>1, <4>2 DEF AlarmInv
    <3>3. QED
      BY <1>2, <2>1, <3>1, <3>2, InsideReturn DEF Blocked
  <2>4. QED
    BY <2>2, <2>3
<1>5. ASSUME NEW elapsed \in Elapsed, SendAlarm(t, elapsed) PROVE BusInv'
  <2>1. /\ pc[t] = "s_alarm" /\ status # "sending"
        /\ UNCHANGED <<notified, status, progress, head, size, inverted, tx_intr, rts>>
    BY <1>1, <1>5 DEF SendAlarm, dmxVars, driverVars, txVars, TaskInv, Knowing
  <2>2. CASE timer' = TRUE /\ task_waiting' = t /\ Goto(t, "s_wait") /\ UNCHANGED <<caller, local>>
    <3>1. pc'[t] = "s_wait" /\ \A u \in Tasks \ {t} : pc'[u] = pc[u]
      BY <2>2, GotoTask DEF Labels
    <3>2. Others(t) /\ ~Notified(t)'
      BY <1>2, <2>1, <2>2, <3>1 DEF Others, Notified
    <3>3. LineInv' /\ AlarmInv'
      BY <1>1, <2>1, <2>2, <3>1, <3>2 DEF LineInv, AlarmInv
    <3>4. TaskInv(t)'
      BY <1>1, <1>2, <2>1, <2>2, <3>1, <3>2 DEF TaskInv, Knowing, Blocked
    <3>5. QED
      BY <1>2, <2>1, <2>2, <3>2, <3>3, <3>4, InsideStep
  <2>3. CASE Return(t) /\ UNCHANGED <<timer, task_waiting>>
    <3>1. LineInv'
      BY <1>1, <2>1, <2>3 DEF LineInv
    <3>2. AlarmInv'
      <4>1. ~(Silent /\ timer)
        BY <1>2, <2>1, AlarmOf
      <4>2. QED
        BY <2>3, <4>1 DEF AlarmInv
    <3>3. QED
      BY <1>2, <2>1, <2>3, <3>1, <3>2, InsideReturn DEF Blocked
  <2>4. CASE Goto(t, "s_turn") /\ UNCHANGED <<caller, local, timer, task_waiting>>
    <3>1. pc'[t] = "s_turn" /\ \A u \in Tasks \ {t} : pc'[u] = pc[u]
      BY <2>4, GotoTask DEF Labels
    <3>2. Others(t)
      BY <2>1, <2>4, <3>1 DEF Others
    <3>3. TaskInv(t)'
      BY <1>1, <1>2, <2>1, <2>4, <3>1 DEF TaskInv, Knowing, Blocked, Notified
    <3>4. QED
      BY <1>2, <2>1, <2>4, <3>2, <3>3, InsideGoto DEF Labels
  <2>5. QED
    BY <1>5, <2>2, <2>3, <2>4 DEF SendAlarm
<1>6. CASE SendWake(t)
  <2>1. /\ pc[t] = "s_wait" /\ Notified(t) /\ status # "sending"
        /\ UNCHANGED <<task_waiting, status, progress, head, size, timer, inverted, tx_intr, rts, caller, local>>
    BY <1>1, <1>6 DEF SendWake, Timely, dmxVars, driverVars, hwVars, txVars, TaskInv, Knowing
  <2>2. pc'[t] = "s_clear" /\ \A u \in Tasks \ {t} : pc'[u] = pc[u]
    BY <1>6, GotoTask DEF SendWake, Labels
  <2>3. notified'[t] = "no" /\ Others(t)
    BY <1>6, <2>1, <2>2, ConsumeTask DEF SendWake, Others
  <2>4. LineInv'
    BY <1>1, <2>1 DEF LineInv
  <2>5. AlarmInv'
    <3>1. ~(Silent /\ timer)
      BY <2>1, AlarmOf DEF Labels, Outside
    <3>2. QED
      BY <2>1, <3>1 DEF AlarmInv
  <2>6. TaskInv(t)'
    BY <1>1, <2>1, <2>2, <2>3 DEF TaskInv, Knowing, Blocked, Notified
  <2>7. QED
    BY <2>1, <2>3, <2>4, <2>5, <2>6, InsideStep DEF Labels, Outside
<1>7. CASE SendClear(t)
  <2>1. /\ pc[t] = "s_clear" /\ status # "sending" /\ task_waiting' = NoTask /\ NoTask # t
        /\ UNCHANGED <<notified, status, progress, head, size, timer, inverted, tx_intr, rts, caller, local>>
    BY <1>1, <1>7, DriverAssumption
    DEF SendClear, dmxVars, driverVars, hwVars, txVars, TaskInv, Knowing
  <2>2. pc'[t] = "s_turn" /\ \A u \in Tasks \ {t} : pc'[u] = pc[u]
    BY <1>7, GotoTask DEF SendClear, Labels
  <2>3. Others(t)
    BY <2>1, <2>2 DEF Others
  <2>4. TaskInv(t)'
    BY <1>1, <1>2, <2>1, <2>2 DEF TaskInv, Knowing, Blocked, Notified
  <2>5. QED
    BY <1>2, <1>7, <2>1, <2>3, <2>4, InsideGoto DEF SendClear, Labels
<1>8. CASE SendTurn(t)
  <2>1. /\ pc[t] = "s_turn" /\ status # "sending" /\ rts' = 0
        /\ UNCHANGED <<task_waiting, notified, status, progress, head, timer, inverted, tx_intr, caller, local>>
    BY <1>1, <1>8 DEF SendTurn, TurnToWrite, syncVars, txVars, TaskInv, Knowing
  <2>2. pc'[t] = "s_go" /\ \A u \in Tasks \ {t} : pc'[u] = pc[u]
    BY <1>8, GotoTask DEF SendTurn, Labels
  <2>3. Others(t)
    BY <2>1, <2>2 DEF Others
  <2>4. size' \in 1..PacketMax
    BY <1>1, <1>8, SendSizeFits DEF SendTurn, Locals
  <2>5. LineInv'
    BY <1>1, <2>1, <2>4 DEF LineInv
  <2>6. AlarmInv'
    <3>1. ~(Silent /\ timer)
      BY <1>2, <2>1, AlarmOf
    <3>2. QED
      BY <2>1, <3>1 DEF AlarmInv
  <2>7. TaskInv(t)'
    BY <1>1, <1>2, <2>1, <2>2, <2>4 DEF TaskInv, Knowing, Blocked, Notified
  <2>8. QED
    BY <1>2, <2>1, <2>3, <2>5, <2>6, <2>7, InsideStep
<1>9. CASE SendGo(t)
  <2>1. /\ pc[t] = "s_go" /\ status # "sending" /\ rts = 0 /\ status' = "sending" /\ Return(t)
        /\ UNCHANGED <<task_waiting, notified, size, rts>> /\ tx_intr = {} /\ ~inverted
        /\ size \in 1..PacketMax
    BY <1>1, <1>9 DEF SendGo, TaskInv, Knowing, LineInv
  <2>2. ~(Silent /\ timer)
    BY <1>2, <2>1, AlarmOf
  <2>3. LineInv'
    BY <1>1, <1>9, <2>1 DEF SendGo, LineInv
  <2>4. AlarmInv'
    BY <1>9, <2>1, <2>2 DEF SendGo, AlarmInv
  <2>5. QED
    BY <1>2, <2>1, <2>3, <2>4, InsideReturn DEF Blocked
<1>10. QED
  BY <1>3, <1>4, <1>5, <1>6, <1>7, <1>8, <1>9 DEF SendNext

\* dmx_receive_num() turns the bus and takes the packet only when none is sent.
LEMMA ReceiveBus ==
  ASSUME Timely, MutexInv, BusInv, NEW t \in Tasks, ReceiveNext(t)
  PROVE  BusInv'
<1> USE DEF MutexInv
<1>1. TaskInv(t) /\ LineInv /\ AlarmInv /\ PacketMax \in Nat \ {0} /\ local[t] \in Locals
  BY DriverAssumption DEF BusInv, TypeOK, TaskType
<1> DEFINE Looking == {"r_sent", "r_turn", "r_size", "r_look", "r_arm", "r_clear", "r_parse"}
<1>2. pc[t] \in Looking => pc[t] \in Labels \ Outside /\ pc[t] # "s_wait" /\ ~Notified(t)
  BY <1>1 DEF TaskInv, Labels, Outside
<1>3. pc[t] \in Labels \ Outside /\ pc[t] # "s_wait" => (Silent /\ timer => status = "sending")
  BY AlarmOf
<1>4. pc[t] \in Looking \cup {"r_timer", "r_wait"} => ~Silent
  BY <1>1 DEF Control, ControlOf, TaskInv, Silent
<1>5. ASSUME NEW want \in Sizes, NEW wait \in BOOLEAN, ReceiveCall(t, want, wait)
      PROVE  BusInv'
  <2>1. /\ pc[t] = "idle" /\ caller' = [caller EXCEPT ![t] = "receive"] /\ "receive" \in Calls
        /\ UNCHANGED <<task_waiting, notified, dmxVars, hwVars>>
    BY <1>5 DEF ReceiveCall
  <2>2. pc'[t] = "ws_take" /\ \A u \in Tasks \ {t} : pc'[u] = pc[u]
    BY <1>5, GotoTask DEF ReceiveCall, Labels
  <2>3. local'[t].num = want /\ \A u \in Tasks \ {t} : local'[u] = local[u]
    <3>1. local' = [local EXCEPT ![t] = [local[t] EXCEPT !.wait = wait, !.num = want]]
      BY <1>1, <1>5, Zenon DEF ReceiveCall, TypeOK, TaskType
    <3> DEFINE r == [local[t] EXCEPT !.wait = wait, !.num = want]
    <3>2. r.num = want
      BY <1>1 DEF Locals
    <3> HIDE DEF r
    <3>3. QED
      BY <3>1, <3>2 DEF TypeOK, TaskType, r
  <2>4. Others(t)
    BY <2>1, <2>2, <2>3 DEF Others, TypeOK, TaskType
  <2>5. QED
    BY <2>1, <2>2, <2>3, <2>4, OutsideStep DEF Outside, dmxVars, driverVars, hwVars, txVars
<1>6. CASE ReceiveLateTake(t)
  <2>1. /\ pc[t] = "idle" /\ UNCHANGED <<caller, local, pc>>
        /\ UNCHANGED <<task_waiting, notified, status, progress, head, size, timer, inverted, tx_intr, rts>>
    BY <1>6 DEF ReceiveLateTake, dmxVars, driverVars, hwVars, txVars, taskVars
  <2>2. QED
    BY <1>1, <2>1, OutsideStep DEF Others, Outside, TaskInv
<1>7. ASSUME pc[t] \in Looking, Return(t), ~Silent,
             UNCHANGED <<status, size, inverted, tx_intr, rts, timer, head>>,
             progress' = progress \/ (progress' = "stale" /\ ~inverted),
             notified' = notified \/ Consume(t),
             task_waiting' = NoTask \/ (task_waiting' = task_waiting /\ pc[t] \notin Blocked)
      PROVE  BusInv'
  <2>1. LineInv' /\ AlarmInv'
    BY <1>1, <1>7 DEF LineInv, AlarmInv
  <2>2. QED
    BY <1>2, <1>7, <2>1, InsideReturn
<1>8. CASE ReceiveSent(t)
  <2>1. /\ pc[t] = "r_sent"
        /\ UNCHANGED <<task_waiting, notified, status, progress, head, size, timer, inverted, tx_intr, rts>>
    BY <1>8 DEF ReceiveSent, dmxVars, driverVars, hwVars, txVars
  <2>2. CASE local[t].sent /\ Goto(t, "r_turn") /\ UNCHANGED <<caller, local>>
    <3>1. pc'[t] = "r_turn" /\ \A u \in Tasks \ {t} : pc'[u] = pc[u]
      BY <2>2, GotoTask DEF Labels
    <3>2. Others(t)
      BY <2>1, <2>2, <3>1 DEF Others
    <3>3. TaskInv(t)'
      BY <1>1, <1>2, <2>1, <2>2, <3>1 DEF TaskInv, Knowing, Blocked, Notified
    <3>4. QED
      BY <1>2, <2>1, <2>2, <3>2, <3>3, InsideGoto DEF Labels
  <2>3. CASE Return(t)
    BY <1>4, <1>7, <2>1, <2>3 DEF Blocked
  <2>4. QED
    BY <1>8, <2>2, <2>3 DEF ReceiveSent
<1>9. CASE ReceiveTurn(t)
  <2>1. /\ pc[t] = "r_turn" /\ status # "sending" /\ ~inverted
        /\ UNCHANGED <<task_waiting, status, size, timer, inverted, tx_intr, caller, local>>
        /\ notified' = notified \/ Consume(t)
        /\ \/ rts' = 1 /\ progress' = "stale"
           \/ UNCHANGED <<rts, progress, head>>
    BY <1>1, <1>9 DEF ReceiveTurn, txVars, TaskInv, Knowing, LineInv
  <2>2. pc'[t] = "r_size" /\ \A u \in Tasks \ {t} : pc'[u] = pc[u]
    BY <1>9, GotoTask DEF ReceiveTurn, Labels
  <2>3. Others(t) /\ ~Notified(t)'
    BY <1>2, <2>1, <2>2, ConsumeTask DEF Others, Notified
  <2>4. LineInv' /\ AlarmInv'
    BY <1>1, <1>4, <2>1 DEF LineInv, AlarmInv
  <2>5. TaskInv(t)'
    BY <1>1, <1>2, <2>1, <2>2, <2>3 DEF TaskInv, Knowing, Blocked
  <2>6. QED
    BY <1>2, <2>1, <2>3, <2>4, <2>5, InsideStep
<1>10. CASE ReceiveSize(t)
  <2>1. /\ pc[t] = "r_size" /\ status # "sending" /\ ~inverted /\ size' = local[t].num
        /\ progress' \in {progress, "complete"}
        /\ UNCHANGED <<task_waiting, notified, status, head, timer, inverted, tx_intr, rts, caller, local>>
    BY <1>1, <1>10 DEF ReceiveSize, syncVars, hwVars, txVars, TaskInv, Knowing, LineInv
  <2>2. pc'[t] = "r_look" /\ \A u \in Tasks \ {t} : pc'[u] = pc[u]
    BY <1>10, GotoTask DEF ReceiveSize, Labels
  <2>3. Others(t)
    BY <2>1, <2>2 DEF Others
  <2>4. LineInv' /\ AlarmInv'
    BY <1>1, <1>2, <1>4, <2>1 DEF LineInv, AlarmInv
  <2>5. TaskInv(t)'
    BY <1>1, <1>2, <2>1, <2>2 DEF TaskInv, Knowing, Blocked, Notified
  <2>6. QED
    BY <1>2, <2>1, <2>3, <2>4, <2>5, InsideStep
<1>11. CASE ReceiveLook(t)
  <2>1. /\ pc[t] = "r_look" /\ status # "sending"
        /\ UNCHANGED <<task_waiting, notified, status, progress, head, size, timer, inverted, tx_intr, rts>>
    BY <1>1, <1>11 DEF ReceiveLook, dmxVars, driverVars, hwVars, txVars, TaskInv, Knowing
  <2>2. CASE progress = "complete"
    <3>1. Goto(t, "r_parse") /\ UNCHANGED caller
          /\ local' = [local EXCEPT ![t].num = head, ![t].err = "ok"]
      BY <1>11, <2>2 DEF ReceiveLook
    <3>2. pc'[t] = "r_parse" /\ \A u \in Tasks \ {t} : pc'[u] = pc[u]
      BY <3>1, GotoTask DEF Labels
    <3>3. \A u \in Tasks \ {t} : local'[u] = local[u]
      BY <3>1 DEF TypeOK, TaskType
    <3>4. Others(t)
      BY <2>1, <3>1, <3>2, <3>3 DEF Others
    <3>5. TaskInv(t)'
      BY <1>1, <1>2, <2>1, <3>1, <3>2 DEF TaskInv, Knowing, Blocked, Notified
    <3>6. QED
      BY <1>2, <2>1, <3>1, <3>4, <3>5, InsideGoto DEF Labels
  <2>3. CASE progress # "complete" /\ local[t].wait
    <3>1. Goto(t, "r_arm") /\ UNCHANGED <<caller, local>>
      BY <1>11, <2>3 DEF ReceiveLook
    <3>2. pc'[t] = "r_arm" /\ \A u \in Tasks \ {t} : pc'[u] = pc[u]
      BY <3>1, GotoTask DEF Labels
    <3>3. Others(t)
      BY <2>1, <3>1, <3>2 DEF Others
    <3>4. TaskInv(t)'
      BY <1>1, <1>2, <2>1, <3>1, <3>2 DEF TaskInv, Knowing, Blocked, Notified
    <3>5. QED
      BY <1>2, <2>1, <3>1, <3>3, <3>4, InsideGoto DEF Labels
  <2>4. CASE progress # "complete" /\ ~local[t].wait
    <3>1. Return(t)
      BY <1>11, <2>4 DEF ReceiveLook
    <3>2. QED
      BY <1>4, <1>7, <2>1, <3>1 DEF Blocked
  <2>5. QED
    BY <2>2, <2>3, <2>4
<1>12. CASE ReceiveArm(t)
  <2>1. /\ pc[t] = "r_arm" /\ status # "sending" /\ task_waiting' = t
        /\ UNCHANGED <<notified, status, progress, head, size, timer, inverted, tx_intr, rts, caller, local>>
    BY <1>1, <1>12 DEF ReceiveArm, dmxVars, driverVars, hwVars, txVars, TaskInv, Knowing
  <2>2. PICK label \in {"r_timer", "r_wait"} : Goto(t, label)
    BY <1>12 DEF ReceiveArm
  <2>3. pc'[t] = label /\ \A u \in Tasks \ {t} : pc'[u] = pc[u]
    BY <2>2, GotoTask DEF Labels
  <2>4. Others(t)
    BY <2>1, <2>3 DEF Others
  <2>5. TaskInv(t)'
    BY <1>1, <1>2, <2>1, <2>2, <2>3 DEF TaskInv, Knowing, Blocked, Notified
  <2>6. QED
    BY <1>2, <2>1, <2>2, <2>4, <2>5, InsideGoto DEF Labels
<1>13. ASSUME NEW elapsed \in Elapsed, ReceiveTimer(t, elapsed) PROVE BusInv'
  <2>1. elapsed # "late" /\ ~Silent
    BY <1>4, <1>13 DEF Timely, ReceiveTimer
  <2>2. /\ pc[t] = "r_timer" /\ status # "sending" /\ timer' = TRUE
        /\ UNCHANGED <<task_waiting, notified, status, progress, head, size, inverted, tx_intr, rts, caller, local>>
    BY <1>1, <1>13, <2>1 DEF ReceiveTimer, dmxVars, driverVars, txVars, TaskInv, Knowing
  <2>3. pc'[t] = "r_wait" /\ \A u \in Tasks \ {t} : pc'[u] = pc[u]
    BY <1>13, <2>1, GotoTask DEF ReceiveTimer, Labels
  <2>4. Others(t)
    BY <2>2, <2>3 DEF Others
  <2>5. LineInv' /\ AlarmInv'
    BY <1>1, <2>1, <2>2 DEF LineInv, AlarmInv
  <2>6. TaskInv(t)'
    BY <1>1, <1>2, <2>2, <2>3 DEF TaskInv, Knowing, Blocked, Notified
  <2>7. QED
    BY <2>2, <2>4, <2>5, <2>6, InsideStep DEF Labels, Outside
<1>14. CASE ReceiveWake(t)
  <2>1. /\ pc[t] = "r_wait" /\ status # "sending"
        /\ local' = [local EXCEPT ![t].err = notified[t]]
        /\ UNCHANGED <<task_waiting, status, progress, head, size, timer, inverted, tx_intr, rts, caller>>
    BY <1>1, <1>14 DEF ReceiveWake, dmxVars, driverVars, hwVars, txVars, TaskInv, Knowing
  <2>2. pc'[t] = "r_clear" /\ \A u \in Tasks \ {t} : pc'[u] = pc[u]
    BY <1>14, GotoTask DEF ReceiveWake, Labels
  <2>3. local'[t].num = local[t].num /\ \A u \in Tasks \ {t} : local'[u] = local[u]
    BY <2>1 DEF TypeOK, TaskType, Locals
  <2>4. notified'[t] = "no" /\ Others(t)
    BY <1>14, <2>1, <2>2, <2>3, ConsumeTask DEF ReceiveWake, Others
  <2>5. LineInv' /\ AlarmInv'
    BY <1>1, <1>4, <2>1 DEF LineInv, AlarmInv
  <2>6. TaskInv(t)'
    BY <1>1, <1>2, <2>1, <2>2, <2>3, <2>4 DEF TaskInv, Knowing, Blocked, Notified
  <2>7. QED
    BY <2>1, <2>4, <2>5, <2>6, InsideStep DEF Labels, Outside
<1>15. CASE ReceiveClear(t)
  <2>1. /\ pc[t] = "r_clear" /\ status # "sending" /\ task_waiting' = NoTask /\ NoTask # t
        /\ UNCHANGED <<status, progress, head, size, timer, inverted, tx_intr, rts>>
    BY <1>1, <1>15, DriverAssumption
    DEF ReceiveClear, dmxVars, driverVars, hwVars, txVars, TaskInv, Knowing
  <2>2. CASE local[t].err = "no"
    <3>1. Consume(t) /\ Return(t)
      BY <1>15, <2>2 DEF ReceiveClear
    <3>2. QED
      BY <1>4, <1>7, <2>1, <3>1
  <2>3. CASE local[t].err # "no"
    <3>1. Goto(t, "r_parse") /\ UNCHANGED <<notified, caller>> /\ local' = [local EXCEPT ![t].num = head]
      BY <1>15, <2>3 DEF ReceiveClear
    <3>2. pc'[t] = "r_parse" /\ \A u \in Tasks \ {t} : pc'[u] = pc[u]
      BY <3>1, GotoTask DEF Labels
    <3>3. \A u \in Tasks \ {t} : local'[u] = local[u]
      BY <3>1 DEF TypeOK, TaskType
    <3>4. Others(t)
      BY <3>1, <3>2, <3>3 DEF Others
    <3>5. TaskInv(t)'
      BY <1>1, <1>2, <2>1, <3>1, <3>2 DEF TaskInv, Knowing, Blocked, Notified
    <3>6. QED
      BY <1>2, <2>1, <3>1, <3>4, <3>5, InsideGoto DEF Labels
  <2>4. QED
    BY <2>2, <2>3
<1>16. CASE ReceiveParse(t)
  <2>1. /\ pc[t] = "r_parse" /\ status # "sending" /\ ~inverted /\ Return(t) /\ progress' = "stale"
        /\ UNCHANGED <<task_waiting, notified, status, head, size, timer, inverted, tx_intr, rts>>
    BY <1>1, <1>16 DEF ReceiveParse, hwVars, txVars, TaskInv, Knowing, LineInv
  <2>2. QED
    BY <1>4, <1>7, <2>1 DEF Blocked
<1>17. QED
  BY <1>5, <1>6, <1>8, <1>9, <1>10, <1>11, <1>12, <1>13, <1>14, <1>15, <1>16 DEF ReceiveNext

-----------------------------------------------------------------------------
(* The interrupts *)

\* A notification reaches a task that is still blocked.
LEMMA NotifyBus ==
  ASSUME MutexInv, BusInv, NEW value \in {"ok", "err"}, Notify(value),
         UNCHANGED <<task_waiting, pc, caller, local>>,
         task_waiting # NoTask => pc[task_waiting] \in {"ws_wait", "s_wait", "r_timer", "r_wait"},
         status' # "sending",
         \A t \in Tasks : pc[t] = "s_go" => rts' = 0 /\ size' = size
  PROVE  \A t \in Tasks : TaskInv(t)'
<1>1. task_waiting \in Tasks \cup {NoTask} /\ notified \in [Tasks -> {"no", "ok", "err"}]
  BY DEF MutexInv, TypeOK, SyncType
<1>2. ASSUME NEW t \in Tasks PROVE TaskInv(t)'
  <2>1. Notified(t)' => Notified(t) \/ task_waiting = t
    BY <1>1 DEF Notify, Notified
  <2>2. TaskInv(t) /\ t # NoTask
    BY DriverAssumption DEF BusInv
  <2>3. QED
    BY <2>1, <2>2 DEF TaskInv, Knowing
<1>3. QED
  BY <1>2

\* The interrupts and the UART keep to the bus and find the waiting task blocked.
LEMMA InterruptBus ==
  ASSUME Timely, MutexInv, BusInv, TypeOK', TimerIsr \/ ShiftOut \/ TxData \/ TxDone \/ RxIsr
  PROVE  BusInv'
<1> USE DEF MutexInv
<1>1. /\ LineInv /\ AlarmInv /\ PacketMax \in Nat \ {0} /\ (\A t \in Tasks : TaskInv(t))
      /\ task_waiting \in Tasks \cup {NoTask} /\ (~Silent => Prompt)
  BY DriverAssumption DEF BusInv, TypeOK, SyncType, Timely
<1>2. task_waiting # NoTask => task_waiting \in Tasks /\ pc[task_waiting] \in Blocked
  BY <1>1 DEF TaskInv
<1>3. ~Silent /\ MayInterrupt /\ task_waiting # NoTask =>
        pc[task_waiting] \in {"ws_wait", "s_wait", "r_timer", "r_wait"}
  BY <1>1, <1>2 DEF MayInterrupt, Woken, Blocked
<1>4. ASSUME UNCHANGED <<task_waiting, notified, pc, caller, local, status, rts, size>>
      PROVE  \A t \in Tasks : TaskInv(t)'
  BY <1>1, <1>4 DEF TaskInv, Knowing, Notified
<1>5. CASE TimerAlarm
  <2>1. /\ timer /\ status # "sending" /\ Notify("ok") /\ timer' = FALSE /\ MayInterrupt
        /\ UNCHANGED <<task_waiting, pc, caller, local, status, progress, head, size, rts, inverted, tx_intr>>
    BY <1>5 DEF TimerAlarm, dmxVars, driverVars, txVars, taskVars
  <2>2. task_waiting # NoTask => pc[task_waiting] \in {"ws_wait", "s_wait", "r_timer", "r_wait"}
    <3>1. CASE Silent
      <4>1. PICK t \in Tasks : pc[t] = "s_wait"
        BY <1>1, <2>1, <3>1 DEF AlarmInv
      <4>2. task_waiting = t
        BY <1>1, <4>1 DEF TaskInv, Blocked
      <4>3. QED
        BY <4>1, <4>2
    <3>2. QED
      BY <1>3, <2>1, <3>1
  <2>3. \A t \in Tasks : TaskInv(t)'
    BY <1>1, <2>1, <2>2, NotifyBus DEF TaskInv
  <2>4. LineInv' /\ AlarmInv'
    BY <1>1, <2>1 DEF LineInv, AlarmInv
  <2>5. QED
    BY <2>3, <2>4 DEF BusInv
<1>6. CASE TimerBreakEnd
  <2>1. LineInv' /\ AlarmInv'
    BY <1>1, <1>6 DEF TimerBreakEnd, syncVars, taskVars, LineInv, AlarmInv, Notified
  <2>2. QED
    BY <1>4, <1>6, <2>1 DEF TimerBreakEnd, syncVars, taskVars, BusInv
<1>7. CASE TimerMabEnd
  <2>1. LineInv' /\ AlarmInv'
    BY <1>1, <1>7 DEF TimerMabEnd, syncVars, taskVars, LineInv, AlarmInv, Notified
  <2>2. QED
    BY <1>4, <1>7, <2>1 DEF TimerMabEnd, syncVars, taskVars, BusInv
<1>8. CASE ShiftOut
  <2>1. LineInv' /\ AlarmInv'
    BY <1>1, <1>8 DEF ShiftOut, syncVars, dmxVars, driverVars, taskVars, LineInv, AlarmInv, Notified
  <2>2. QED
    BY <1>4, <1>8, <2>1 DEF ShiftOut, syncVars, dmxVars, driverVars, taskVars, BusInv
<1>9. CASE TxData
  <2>1. /\ "data" \in tx_intr /\ tx_intr' \subseteq tx_intr
        /\ UNCHANGED <<task_waiting, notified, pc, caller, local, status, progress, size, rts, timer, inverted>>
    BY <1>9 DEF TxData, TxDataPending, TxIntrAfter, syncVars, taskVars
  <2>2. LineInv'
    BY <1>1, <2>1 DEF LineInv
  <2>3. AlarmInv'
    BY <1>1, <2>1 DEF AlarmInv, Notified
  <2>4. QED
    BY <1>4, <2>1, <2>2, <2>3 DEF BusInv
<1>10. CASE TxDone
  <2>1. /\ "done" \in tx_intr /\ tx_intr' = {} /\ status' = "idle" /\ Notify("ok") /\ status = "sending"
        /\ rts' \in {rts, 1}
        /\ UNCHANGED <<task_waiting, pc, caller, local, timer, inverted, size>>
    BY <1>1, <1>10 DEF TxDone, taskVars, LineInv
  <2>2. \A t \in Tasks : ~Knowing(t)
    BY <1>1, <2>1 DEF TaskInv
  <2>3. task_waiting # NoTask => pc[task_waiting] = "ws_wait"
    BY <1>2, <2>2 DEF Knowing, Blocked
  <2>4. \A t \in Tasks : pc[t] # "s_go"
    BY <2>2 DEF Knowing
  <2>5. \A t \in Tasks : TaskInv(t)'
    BY <2>1, <2>3, <2>4, NotifyBus
  <2>6. LineInv'
    <3>1. progress' \in {"complete", "stale"} \/ (progress' = "in_data" /\ head' = 0)
      BY <1>10 DEF TxDone
    <3>2. QED
      BY <1>1, <2>1, <3>1 DEF LineInv
  <2>7. AlarmInv'
    BY <1>1, <2>1 DEF AlarmInv
  <2>8. QED
    BY <2>5, <2>6, <2>7 DEF BusInv
<1>11. ASSUME NEW n \in 1..FifoLen, NEW k \in RxKinds, RxBreak(n) \/ RxError(n) \/ RxData(n, k)
       PROVE  BusInv'
  <2>1. ~Silent
    BY <1>11 DEF Silent
  <2>2. /\ rts = 1 /\ status # "sending" /\ ~inverted /\ tx_intr = {} /\ MayInterrupt
        /\ UNCHANGED <<task_waiting, pc, caller, local, rts, inverted, tx_intr>>
    BY <1>1, <1>11 DEF RxBreak, RxError, RxData, LineInv, hwVars, txVars, taskVars
  <2>3. \/ UNCHANGED <<notified, status>>
        \/ (Notify("ok") \/ Notify("err") \/ notified' = notified) /\ status' # "sending"
    BY <1>11 DEF RxBreak, RxError, RxData, Complete
  <2>4. \A t \in Tasks : TaskInv(t)'
    <3>1. task_waiting # NoTask => pc[task_waiting] \in {"ws_wait", "s_wait", "r_timer", "r_wait"}
      BY <1>3, <2>1, <2>2
    <3>2. \A t \in Tasks : pc[t] # "s_go"
      BY <1>1, <2>2 DEF TaskInv
    <3>3. CASE Notify("ok") /\ status' # "sending"
      BY <2>2, <3>1, <3>2, <3>3, NotifyBus
    <3>4. CASE Notify("err") /\ status' # "sending"
      BY <2>2, <3>1, <3>2, <3>4, NotifyBus
    <3>5. CASE notified' = notified /\ status' # "sending"
      BY <1>1, <2>2, <3>2, <3>5 DEF TaskInv, Knowing, Notified
    <3>6. QED
      BY <2>2, <2>3, <3>3, <3>4, <3>5
  <2>5. LineInv'
    <3>1. status' # "sending"
      BY <1>1, <1>11, <2>2 DEF RxBreak, RxError, RxData, Complete
    <3>2. QED
      BY <1>1, <2>2, <3>1 DEF LineInv
  <2>6. AlarmInv'
    BY <2>1 DEF AlarmInv
  <2>7. QED
    BY <2>4, <2>5, <2>6 DEF BusInv
<1>12. QED
  BY <1>5, <1>6, <1>7, <1>8, <1>9, <1>10, <1>11 DEF TimerIsr, RxIsr

-----------------------------------------------------------------------------
(* The invariant, and what it says *)

\* At first nobody waits and the bus is read.
LEMMA BusInit == Init => BusInv
<1> SUFFICES ASSUME Init PROVE BusInv
  OBVIOUS
<1>1. PacketMax \in Nat \ {0} /\ NoTask \notin Tasks
  BY DriverAssumption
<1>2. LineInv
  BY <1>1 DEF Init, LineInv
<1>3. AlarmInv
  BY DEF Init, AlarmInv
<1>4. ASSUME NEW t \in Tasks PROVE TaskInv(t)
  <2>1. pc[t] = "idle" /\ caller[t] = "none" /\ notified[t] = "no" /\ local[t].num = 0
        /\ task_waiting # t
    BY <1>1 DEF Init, NoLocals
  <2>2. QED
    BY <1>1, <2>1 DEF TaskInv, Knowing, Notified, Blocked
<1>5. QED
  BY <1>2, <1>3, <1>4 DEF BusInv

\* No step breaks the invariant of the bus.
LEMMA BusStep ==
  ASSUME Timely, MutexInv, BusInv, TypeOK', [Next]_vars
  PROVE  BusInv'
<1>1. ASSUME NEW t \in Tasks, TaskNext(t) PROVE BusInv'
  BY <1>1, WriteBus, WaitSentBus, SendBus, ReceiveBus DEF TaskNext, Timely
<1>2. CASE UNCHANGED vars
  BY <1>2 DEF vars, syncVars, dmxVars, driverVars, hwVars, txVars, taskVars, BusInv, LineInv,
     AlarmInv, TaskInv, Knowing, Notified
<1>3. QED
  BY <1>1, <1>2, InterruptBus DEF Next

\* The invariant of the bus holds of the driver.
LEMMA BusInvariant ==
  ASSUME Timely
  PROVE  Spec => [](MutexInv /\ BusInv)
<1>1. MutexInv /\ BusInv /\ TypeOK' /\ [Next]_vars => (MutexInv /\ BusInv)'
  BY MutexStep, BusStep
<1>2. QED
  BY MutexInit, BusInit, TypeCorrect, <1>1, PTL DEF Spec

\* The transceiver drives the bus for as long as a packet is sent (io.c:387,
\* uart.c:303), and its break ends.
THEOREM BusIsDriven ==
  ASSUME Timely
  PROVE  Spec => []BusDriven
<1>1. BusInv => BusDriven
  BY DEF BusInv, LineInv, BusDriven
<1>2. QED
  BY BusInvariant, <1>1, PTL

\* No notification is left over that would end a later wait at once (uart.c:314,
\* timer.c:48).
THEOREM NotificationsAreFresh ==
  ASSUME Timely
  PROVE  Spec => []NoStaleNotification
<1>1. BusInv => NoStaleNotification
  BY DEF BusInv, TaskInv, NoStaleNotification
<1>2. QED
  BY BusInvariant, <1>1, PTL

\* dmx_wait_sent() is true only once the packet is sent (io.c:470-511).
THEOREM WaitSentTells ==
  ASSUME Timely
  PROVE  Spec => []WaitSentIsDone
<1>1. BusInv => WaitSentIsDone
  BY DEF BusInv, TaskInv, Knowing, WaitSentIsDone
<1>2. QED
  BY BusInvariant, <1>1, PTL

\* What is sent stays within the buffer, whatever size a receiver asked for or
\* a break left in the field (io.c:165, 395, uart.c:87).
THEOREM SizeStaysInBuffer ==
  ASSUME Timely
  PROVE  Spec => []SizeFits
<1>1. BusInv => SizeFits
  BY DEF BusInv, LineInv, SizeFits
<1>2. QED
  BY BusInvariant, <1>1, PTL

-----------------------------------------------------------------------------
(* Writes while a packet is sent *)

\* Who is about to write over an RDM packet being sent has been overtaken.
MayWrite ==
  \A t \in Tasks : pc[t] \in {"w_rts", "w_copy"} /\ status = "sending" /\ IsRdm(data)
    => t \in overtaken

\* What is received does not reach the buffer while a packet is sent.
LEMMA RxKeepsData ==
  ASSUME BusInv, TimerIsr \/ ShiftOut \/ TxData \/ TxDone \/ RxIsr
  PROVE  /\ UNCHANGED <<pc, overtaken>>
         /\ data' = data \/ (status # "sending" /\ status' # "sending")
         /\ status' = "sending" => status = "sending"
BY DEF TimerIsr, TimerAlarm, TimerBreakEnd, TimerMabEnd, ShiftOut, TxData, TxDone, RxIsr, RxBreak,
       RxData, RxError, Complete, dmxVars, driverVars, roleVars, taskVars, BusInv, LineInv

\* Who writes the buffer, who starts a packet, and what other steps leave alone.
LEMMA TaskKeepsData ==
  ASSUME TypeOK, NEW t \in Tasks, TaskNext(t)
  PROVE  \/ WriteCopy(t) /\ pc'[t] = "idle"
         \/ SendGo(t) /\ pc'[t] = "idle"
         \/ /\ UNCHANGED <<data, status, overtaken>>
            /\ pc'[t] \in {"w_rts", "w_copy"} =>
                 pc[t] = "w_rts" \/ ~(status = "sending" /\ IsRdm(data))
<1>1. CASE WriteNext(t)
  <2>1. ASSUME NEW kind \in Kinds, WriteCall(t, kind)
        PROVE  UNCHANGED <<data, status, overtaken>>
               /\ (pc'[t] = "w_check" \/ (pc'[t] = "w_rts" /\ ~Sending))
    BY <2>1, GotoTask DEF WriteCall, Labels, dmxVars, driverVars, roleVars
  <2>2. CASE WriteCheck(t)
    BY <2>2, ReturnTask, GotoTask DEF WriteCheck, Labels, dmxVars, driverVars, roleVars
  <2>3. CASE WriteRts(t)
    BY <2>3, GotoTask DEF WriteRts, Labels, dmxVars, driverVars, roleVars
  <2>4. CASE WriteCopy(t)
    BY <2>4, ReturnTask DEF WriteCopy
  <2>5. QED
    BY <1>1, <2>1, <2>2, <2>3, <2>4 DEF WriteNext, Sending
<1>2. CASE WaitSentNext(t)
  <2>1. UNCHANGED <<data, status, overtaken>>
    BY <1>2 DEF WaitSentNext, WaitSentCall, WaitSentTake, WaitSentNoTake, WaitSentLateTake,
       WaitSentCheck, WaitSentWake, WaitSentClear, dmxVars, driverVars, roleVars
  <2>2. \/ \E label \in {"ws_take", "ws_check", "ws_wait", "ws_clear"} : Goto(t, label)
        \/ \E result \in BOOLEAN : WaitSentReturn(t, result)
    <3>1. CASE WaitSentCheck(t)
      <4>1. (~Sending) \in BOOLEAN
        BY DEF Sending
      <4>2. QED
        BY <3>1, <4>1 DEF WaitSentCheck
    <3>2. CASE WaitSentClear(t)
      <4>1. local[t].sent \in BOOLEAN
        BY DEF TypeOK, TaskType, Locals
      <4>2. QED
        BY <3>2, <4>1 DEF WaitSentClear
    <3>3. QED
      BY <1>2, <3>1, <3>2 DEF WaitSentNext, WaitSentCall, WaitSentTake, WaitSentNoTake,
         WaitSentLateTake, WaitSentWake
  <2>3. pc'[t] \notin {"w_rts", "w_copy"}
    BY <2>2, GotoTask, WaitSentReturnTask DEF Labels
  <2>4. QED
    BY <2>1, <2>3
<1>3. CASE SendGo(t)
  BY <1>3, ReturnTask DEF SendGo
<1>4. CASE SendNext(t) /\ ~SendGo(t)
  <2>1. UNCHANGED <<data, status, overtaken>>
    BY <1>4 DEF SendNext, SendCall, SendHeader, SendAlarm, SendWake, SendClear, SendTurn, dmxVars,
       driverVars, roleVars
  <2>2. \/ \E label \in {"ws_take", "s_alarm", "s_wait", "s_clear", "s_turn", "s_go"} : Goto(t, label)
        \/ Return(t)
    BY <1>4 DEF SendNext, SendCall, SendHeader, SendAlarm, SendWake, SendClear, SendTurn
  <2>3. pc'[t] \notin {"w_rts", "w_copy"}
    BY <2>2, GotoTask, ReturnTask DEF Labels
  <2>4. QED
    BY <2>1, <2>3
<1>5. CASE ReceiveNext(t)
  <2>1. UNCHANGED <<data, status, overtaken>>
    BY <1>5 DEF ReceiveNext, ReceiveCall, ReceiveLateTake, ReceiveSent, ReceiveTurn, ReceiveSize,
       ReceiveLook, ReceiveArm, ReceiveTimer, ReceiveWake, ReceiveClear, ReceiveParse, dmxVars,
       driverVars, roleVars
  <2>2. \/ \E label \in {"ws_take", "r_turn", "r_size", "r_look", "r_arm", "r_timer", "r_wait",
                         "r_clear", "r_parse"} : Goto(t, label)
        \/ Return(t) \/ (UNCHANGED pc /\ pc[t] = "idle")
    BY <1>5 DEF ReceiveNext, ReceiveCall, ReceiveLateTake, ReceiveSent, ReceiveTurn, ReceiveSize,
       ReceiveLook, ReceiveArm, ReceiveTimer, ReceiveWake, ReceiveClear, ReceiveParse, taskVars
  <2>3. pc'[t] \notin {"w_rts", "w_copy"}
    BY <2>2, GotoTask, ReturnTask DEF Labels
  <2>4. QED
    BY <2>1, <2>3
<1>6. QED
  BY <1>1, <1>2, <1>3, <1>4, <1>5 DEF TaskNext

\* Whoever writes over an RDM packet being sent looked before that packet was
\* begun (io.c:82, 93), with any number of tasks; what is received never does.
THEOREM RdmIsNotOverwritten ==
  ASSUME Timely
  PROVE  Spec => RdmNotOverwritten
<1> DEFINE Kept == status = "sending" /\ IsRdm(data) =>
                     /\ \A t \in Tasks : pc[t] = "w_copy" /\ pc'[t] = "idle" => t \in overtaken
                     /\ data' # data => \E t \in Tasks : pc[t] = "w_copy" /\ pc'[t] = "idle"
<1>1. Init => MayWrite
  BY DEF Init, MayWrite
<1>2. ASSUME MutexInv, BusInv, MayWrite, [Next]_vars PROVE MayWrite' /\ Kept
  <2>1. ASSUME NEW t \in Tasks, TaskNext(t) PROVE MayWrite' /\ Kept
    <3>1. \A u \in Tasks \ {t} : pc'[u] = pc[u]
      BY <1>2, <2>1, TaskRegisters DEF MutexInv, RegistersItself
    <3>2. CASE WriteCopy(t) /\ pc'[t] = "idle"
      <4>1. pc[t] = "w_copy" /\ status' = status /\ data' = local[t].kind
            /\ overtaken' = (IF Sending THEN Overtaken(local[t].kind) ELSE overtaken) \ {t}
        BY <3>2 DEF WriteCopy, driverVars
      <4>2. MayWrite'
        BY <3>1, <3>2, <4>1 DEF MayWrite, Sending, Overtaken, IsRdm
      <4>3. QED
        BY <1>2, <4>1, <4>2, <3>2 DEF MayWrite
    <3>3. CASE SendGo(t) /\ pc'[t] = "idle"
      <4>1. data' = data /\ overtaken' = Overtaken(data)
        BY <3>3 DEF SendGo
      <4>2. MayWrite'
        BY <3>1, <3>3, <4>1 DEF MayWrite, Overtaken, IsRdm
      <4>3. QED
        BY <1>2, <4>1, <4>2 DEF MayWrite
    <3>4. CASE /\ UNCHANGED <<data, status, overtaken>>
               /\ pc'[t] \in {"w_rts", "w_copy"} =>
                    pc[t] = "w_rts" \/ ~(status = "sending" /\ IsRdm(data))
      BY <1>2, <3>1, <3>4 DEF MayWrite, IsRdm
    <3>5. QED
      BY <1>2, <2>1, <3>2, <3>3, <3>4, TaskKeepsData DEF MutexInv
  <2>2. CASE TimerIsr \/ ShiftOut \/ TxData \/ TxDone \/ RxIsr
    BY <1>2, <2>2, RxKeepsData DEF MayWrite, IsRdm
  <2>3. CASE UNCHANGED vars
    BY <1>2, <2>3 DEF vars, dmxVars, driverVars, roleVars, taskVars, MayWrite, IsRdm
  <2>4. QED
    BY <1>2, <2>1, <2>2, <2>3 DEF Next
<1>3. Spec => []MayWrite
  <2>1. MutexInv /\ BusInv /\ MayWrite /\ [Next]_vars => MayWrite'
    BY <1>2
  <2>2. QED
    BY <1>1, <2>1, BusInvariant, PTL DEF Spec
<1>4. MutexInv /\ BusInv /\ MayWrite /\ [Next]_vars => [Kept]_vars
  BY <1>2
<1>5. QED
  BY <1>3, <1>4, BusInvariant, PTL DEF Spec, RdmNotOverwritten

-----------------------------------------------------------------------------
(* Frames *)

\* Where the UART is served in time and, if packets are received, no discovery
\* response is sent, and the slots of a packet are remembered.
Framing ==
  /\ Timely /\ ~LateIsr /\ WireMax >= PacketMax
  /\ Silent \/ "dub_response" \notin Kinds \cup RxKinds

\* The sequence holds n consecutive slots, starting with the given one.
Consecutive(q, first, n) == Len(q) = n /\ \A i \in 1..n : q[i] = first + i - 1

\* The slots on the bus and in the FIFO are those of one packet up to head.
InOrder ==
  /\ Len(wire) + Len(fifo) = head
  /\ \A i \in 1..Len(wire) : wire[i] = i - 1
  /\ Consecutive(fifo, Len(wire), Len(fifo))

\* A packet being sent: the transmit interrupts say how far it is.
Frame ==
  /\ size \in 1..PacketMax /\ head \in 0..size
  /\ tx_intr \in {{}, {"done"}, {"data", "done"}}
  /\ tx_intr = {} => head = 0
  /\ tx_intr # {} => head > 0 /\ ~timer
  /\ tx_intr = {"done"} => head = size
  /\ tx_done => fifo = <<>> /\ tx_intr = {"done"}
  /\ InOrder

\* Discovery responses are only sent where nothing is received.
NoResponse ==
  Silent \/ (/\ data # "dub_response" /\ rxkind # "dub_response"
             /\ \A t \in Tasks : local[t].kind # "dub_response")

FrameInv ==
  /\ status = "sending" => Frame
  /\ status # "sending" => fifo = <<>> /\ ~tx_done /\ tx_intr = {}
  /\ NoResponse

\* n slots put into the FIFO follow those that are in it (uart.c:275).
LEMMA SlotsFollow ==
  ASSUME NEW q \in Seq(Int), NEW w \in Nat, NEW l \in Nat, NEW n \in Nat,
         Consecutive(q, w, l)
  PROVE  Consecutive(q \o Slots(w + l, n), w, l + n)
<1> DEFINE s == Slots(w + l, n)
<1>1. s \in Seq(Int) /\ Len(s) = n /\ \A i \in 1..n : s[i] = w + l + i - 1
  BY DEF Slots
<1> HIDE DEF s
<1>2. Len(q) = l /\ \A i \in 1..l : q[i] = w + i - 1
  BY DEF Consecutive
<1>3. /\ Len(q \o s) = l + n
      /\ \A i \in 1..l + n : (q \o s)[i] = IF i <= l THEN q[i] ELSE s[i - l]
  BY <1>1, <1>2, ConcatProperties
<1>4. \A i \in 1..l : (q \o s)[i] = w + i - 1
  BY <1>2, <1>3
<1>5. ASSUME NEW i \in l + 1..l + n PROVE (q \o s)[i] = w + i - 1
  <2>1. i - l \in 1..n /\ i \in 1..l + n /\ ~(i <= l) /\ i \in Int
    BY <1>5
  <2>2. (q \o s)[i] = s[i - l]
    BY <1>3, <2>1
  <2>3. s[i - l] = w + l + (i - l) - 1
    BY <1>1, <2>1
  <2>4. w + l + (i - l) - 1 = w + i - 1
    BY <2>1
  <2>5. QED
    BY <2>2, <2>3, <2>4
<1>6. 1..l + n = (1..l) \cup (l + 1..l + n)
  OBVIOUS
<1>7. QED
  BY <1>3, <1>4, <1>5, <1>6 DEF s, Consecutive

\* Where the line and what is being sent are left alone, so is the frame.
LEMMA FrameLeft ==
  ASSUME FrameInv, NoResponse', UNCHANGED <<status, txVars>>,
         status = "sending" => UNCHANGED <<head, size, timer>>
  PROVE  FrameInv'
<1>1. (status = "sending" => Frame)'
  BY DEF FrameInv, Frame, InOrder, txVars
<1>2. QED
  BY <1>1 DEF FrameInv, txVars

\* While a packet is sent, a task changes nothing of it.
LEMMA TaskLine ==
  ASSUME MutexInv, BusInv, NEW t \in Tasks, TaskNext(t), ~SendGo(t)
  PROVE  /\ UNCHANGED <<status, txVars>>
         /\ status = "sending" => UNCHANGED <<head, size, timer>>
         /\ size' = size \/ pc[t] \in {"s_turn", "r_size"}
<1>1. Knowing(t) => status # "sending"
  BY DEF BusInv, TaskInv
<1>2. CASE WriteNext(t)
  BY <1>2 DEF WriteNext, WriteCall, WriteCheck, WriteRts, WriteCopy, dmxVars, driverVars, hwVars
<1>3. CASE WaitSentNext(t)
  BY <1>3 DEF WaitSentNext, WaitSentCall, WaitSentTake, WaitSentNoTake, WaitSentLateTake,
       WaitSentCheck, WaitSentWake, WaitSentClear, dmxVars, driverVars, hwVars
<1>4. CASE SendNext(t)
  BY <1>1, <1>4 DEF SendNext, SendCall, SendHeader, SendAlarm, SendWake, SendClear, SendTurn,
     dmxVars, driverVars, hwVars, Knowing
<1>5. CASE ReceiveNext(t)
  BY <1>1, <1>5 DEF ReceiveNext, ReceiveCall, ReceiveLateTake, ReceiveSent, ReceiveTurn, ReceiveSize,
     ReceiveLook, ReceiveArm, ReceiveTimer, ReceiveWake, ReceiveClear, ReceiveParse,
     dmxVars, driverVars, hwVars, Knowing
<1>6. QED
  BY <1>2, <1>3, <1>4, <1>5 DEF TaskNext

\* A task that changes one of its locals keeps its kind of packet.
LEMMA KindKept ==
  ASSUME TypeOK, NEW t \in Tasks, NEW x,
         \/ local' = local
         \/ local' = [local EXCEPT ![t].wait = x]
         \/ local' = [local EXCEPT ![t].sent = x]
         \/ local' = [local EXCEPT ![t].num = x]
         \/ local' = [local EXCEPT ![t].err = x]
  PROVE  \A u \in Tasks : local'[u].kind = local[u].kind
BY DEF TypeOK, TaskType, Locals

\* Nor does it where it changes two of them.
LEMMA KindKeptTwice ==
  ASSUME TypeOK, NEW t \in Tasks, NEW x, NEW n,
         \/ local' = [local EXCEPT ![t].wait = x, ![t].num = n]
         \/ local' = [local EXCEPT ![t].num = n, ![t].err = x]
  PROVE  \A u \in Tasks : local'[u].kind = local[u].kind
<1> DEFINE r == [local[t] EXCEPT !.wait = x, !.num = n]
           s == [local[t] EXCEPT !.num = n, !.err = x]
<1>1. r.kind = local[t].kind /\ s.kind = local[t].kind
  BY DEF TypeOK, TaskType, Locals
<1>2. local' = [local EXCEPT ![t] = r] \/ local' = [local EXCEPT ![t] = s]
  BY Zenon DEF TypeOK, TaskType
<1> HIDE DEF r, s
<1>3. QED
  BY <1>1, <1>2 DEF TypeOK, TaskType

\* A task that is not given a discovery response writes none.
LEMMA NoResponseStep ==
  ASSUME Framing, TypeOK, NoResponse, NEW t \in Tasks, TaskNext(t)
  PROVE  NoResponse'
<1>1. CASE Silent
  BY <1>1 DEF NoResponse
<1>2. CASE ~Silent
  <2> DEFINE None == \A u \in Tasks : local[u].kind # "dub_response"
  <2>1. /\ "dub_response" \notin Kinds \cup RxKinds /\ data # "dub_response"
        /\ rxkind # "dub_response" /\ None
    BY <1>2 DEF Framing, NoResponse
  <2>2. Return(t) => None'
    BY <2>1, ReturnTask DEF NoLocals
  <2>3. ASSUME NEW result, WaitSentReturn(t, result) PROVE None'
    BY <2>1, <2>2, <2>3, KindKept DEF WaitSentReturn
  <2>4. (\A u \in Tasks : local'[u].kind = local[u].kind) => None'
    BY <2>1
  <2>5. UNCHANGED rxkind /\ data' \in {data, local[t].kind} /\ None'
    <3>1. CASE WriteNext(t)
      <4>1. ASSUME NEW kind \in Kinds, WriteCall(t, kind) PROVE None'
        <5>1. local' = [local EXCEPT ![t].kind = kind]
          BY <4>1 DEF WriteCall
        <5>2. QED
          BY <2>1, <5>1 DEF TypeOK, TaskType, Locals
      <4>2. WriteCheck(t) \/ WriteRts(t) \/ WriteCopy(t) => None'
        BY <2>2, <2>4, KindKept DEF WriteCheck, WriteRts, WriteCopy
      <4> HIDE DEF None
      <4>3. QED
        BY <3>1, <4>1, <4>2 DEF WriteNext, WriteCall, WriteCheck, WriteRts, WriteCopy, dmxVars, hwVars
    <3>2. CASE WaitSentNext(t)
      <4>1. None'
        <5> HIDE DEF None
        <5>1. QED
          BY <2>3, <2>4, <3>2, KindKept DEF WaitSentNext, WaitSentCall, WaitSentTake, WaitSentNoTake,
             WaitSentLateTake, WaitSentCheck, WaitSentWake, WaitSentClear
      <4>2. QED
        BY <3>2, <4>1 DEF WaitSentNext, WaitSentCall, WaitSentTake, WaitSentNoTake, WaitSentLateTake,
           WaitSentCheck, WaitSentWake, WaitSentClear, dmxVars, hwVars
    <3>3. CASE SendNext(t)
      <4>1. ASSUME NEW n \in Sizes, SendCall(t, n) PROVE None'
        BY <2>4, <4>1, KindKeptTwice DEF SendCall
      <4>2. ASSUME SendHeader(t) PROVE None'
        <5>1. CASE local[t].sent
          <6>1. local' = [local EXCEPT ![t].kind = data]
            BY <4>2, <5>1 DEF SendHeader
          <6>2. QED
            BY <2>1, <6>1 DEF TypeOK, TaskType, Locals
        <5>2. CASE ~local[t].sent
          BY <2>2, <4>2, <5>2 DEF SendHeader
        <5>3. QED
          BY <5>1, <5>2
      <4>3. ASSUME NEW elapsed \in Elapsed, SendAlarm(t, elapsed) PROVE None'
        BY <2>2, <2>4, <4>3, KindKept DEF SendAlarm
      <4>4. SendWake(t) \/ SendClear(t) \/ SendTurn(t) \/ SendGo(t) => None'
        BY <2>2, <2>4, KindKept DEF SendWake, SendClear, SendTurn, SendGo
      <4>5. None'
        BY <3>3, <4>1, <4>2, <4>3, <4>4 DEF SendNext
      <4>6. UNCHANGED <<rxkind, data>>
        BY <3>3 DEF SendNext, SendCall, SendHeader, SendAlarm, SendWake, SendClear, SendTurn, SendGo,
           dmxVars, hwVars
      <4>7. QED
        BY <4>5, <4>6
    <3>4. CASE ReceiveNext(t)
      <4>1. ASSUME NEW want \in Sizes, NEW wait \in BOOLEAN, ReceiveCall(t, want, wait)
            PROVE  None'
        BY <2>4, <4>1, KindKeptTwice DEF ReceiveCall
      <4>2. ASSUME ReceiveLook(t) PROVE None'
        <5>1. \/ local' = [local EXCEPT ![t].num = head, ![t].err = "ok"]
              \/ local' = local \/ Return(t)
          BY <4>2 DEF ReceiveLook
        <5>2. QED
          BY <2>2, <2>4, <5>1, KindKept, KindKeptTwice
      <4>3. ASSUME NEW elapsed \in Elapsed, ReceiveTimer(t, elapsed) PROVE None'
        BY <2>2, <2>4, <4>3, KindKept DEF ReceiveTimer
      <4>4. ASSUME ReceiveWake(t) \/ ReceiveClear(t) \/ ReceiveParse(t) PROVE None'
        BY <2>2, <2>4, <4>4, KindKept DEF ReceiveWake, ReceiveClear, ReceiveParse
      <4>5. ASSUME \/ ReceiveLateTake(t) \/ ReceiveSent(t) \/ ReceiveTurn(t)
                 \/ ReceiveSize(t) \/ ReceiveArm(t)
          PROVE  None'
        BY <2>2, <2>4, <4>5, KindKept DEF ReceiveLateTake, ReceiveSent, ReceiveTurn, ReceiveSize,
           ReceiveArm, taskVars
      <4>6. None'
        <5> HIDE DEF None
        <5>1. QED
          BY <3>4, <4>1, <4>2, <4>3, <4>4, <4>5 DEF ReceiveNext
      <4>7. UNCHANGED <<rxkind, data>>
        BY <3>4 DEF ReceiveNext, ReceiveCall, ReceiveLateTake, ReceiveSent, ReceiveTurn, ReceiveSize,
           ReceiveLook, ReceiveArm, ReceiveTimer, ReceiveWake, ReceiveClear, ReceiveParse, dmxVars, hwVars
      <4>8. QED
        BY <4>6, <4>7
    <3>5. QED
      BY <3>1, <3>2, <3>3, <3>4 DEF TaskNext
  <2>6. QED
    BY <2>1, <2>5 DEF NoResponse
<1>3. QED
  BY <1>1, <1>2

\* The first slots, put into an empty FIFO.
LEMMA FirstSlots ==
  ASSUME fifo \in Seq(Int), Len(fifo) = 0, NEW n \in Nat
  PROVE  Consecutive(fifo \o Slots(0, n), 0, n)
<1>1. Consecutive(fifo, 0, 0) /\ 0 \in Nat
  BY DEF Consecutive
<1>2. Consecutive(fifo \o Slots(0 + 0, n), 0, 0 + n)
  BY <1>1, SlotsFollow
<1>3. QED
  BY <1>2

\* A packet starts with an empty FIFO (io.c:413-441).
LEMMA SendGoFrame ==
  ASSUME Framing, MutexInv, BusInv, FrameInv, NEW t \in Tasks, SendGo(t)
  PROVE  Frame' /\ status' = "sending"
<1> USE DEF MutexInv
<1>1. /\ pc[t] = "s_go" /\ status # "sending" /\ status' = "sending" /\ size \in 1..PacketMax /\ size' = size
      /\ fifo = <<>> /\ ~tx_done /\ tx_intr = {} /\ wire' = <<>> /\ tx_done' = tx_done
  BY DriverAssumption DEF SendGo, BusInv, TaskInv, LineInv, Knowing, FrameInv
<1>2. CASE local[t].kind = "dub_response"
  <2> DEFINE n == Smaller(size, FifoLen - Len(fifo))
  <2>1. fifo' = fifo \o Slots(0, n) /\ head' = n /\ tx_intr' = {"data", "done"} /\ timer' = timer
    BY <1>1, <1>2 DEF SendGo
  <2>2. ~timer
    <3>1. Silent
      BY <1>2 DEF FrameInv, NoResponse
    <3>2. QED
      BY <1>1, <3>1, AlarmOf DEF Labels, Outside
  <2>3. n \in 1..size /\ n \in Nat
    BY <1>1, DriverAssumption DEF Smaller
  <2> HIDE DEF n
  <2>4. Consecutive(fifo', 0, n)
    <3>1. fifo \in Seq(Int) /\ Len(fifo) = 0
      BY <1>1
    <3>2. QED
      BY <2>1, <2>3, <3>1, FirstSlots
  <2>5. InOrder'
    BY <1>1, <2>1, <2>3, <2>4 DEF InOrder, Consecutive
  <2>6. QED
    BY <1>1, <2>1, <2>2, <2>3, <2>5 DEF Frame
<1>3. CASE local[t].kind # "dub_response"
  <2>1. fifo' = <<>> /\ head' = 0 /\ tx_intr' = {}
    BY <1>1, <1>3 DEF SendGo
  <2>2. InOrder'
    BY <1>1, <2>1 DEF InOrder, Consecutive
  <2>3. QED
    BY <1>1, <2>1, <2>2 DEF Frame
<1>4. QED
  BY <1>1, <1>2, <1>3

\* The first slots go into the FIFO at the end of the mark after break.
LEMMA MabEndFrame ==
  ASSUME MutexInv, BusInv, FrameInv, TimerMabEnd
  PROVE  Frame' /\ status' = "sending"
<1> USE DEF MutexInv
<1> DEFINE n == Smaller(size, FifoLen - Len(fifo))
<1>1. /\ status = "sending" /\ Frame /\ tx_intr = {} /\ head = 0 /\ ~tx_done
      /\ Len(wire) \in Nat /\ Len(fifo) \in Nat
  BY LenProperties DEF TimerMabEnd, FrameInv, Frame, TypeOK, HwType
<1>2. Len(wire) = 0 /\ Len(fifo) = 0 /\ size \in 1..PacketMax
  BY <1>1 DEF Frame, InOrder
<1>3. n \in 1..size /\ n \in Nat
  BY <1>2, DriverAssumption DEF Smaller
<1>4. /\ fifo' = fifo \o Slots(0, n) /\ head' = n /\ ~timer' /\ tx_intr' = {"data", "done"}
      /\ UNCHANGED <<status, size, tx_done, wire>>
  BY DEF TimerMabEnd
<1> HIDE DEF n
<1>5. Consecutive(fifo', 0, n)
  BY <1>2, <1>3, <1>4, FirstSlots DEF TypeOK, HwType
<1>6. InOrder'
  BY <1>2, <1>3, <1>4, <1>5 DEF InOrder, Consecutive
<1>7. QED
  BY <1>1, <1>2, <1>3, <1>4, <1>6 DEF Frame

\* A slot that leaves the FIFO is the next of the packet.
LEMMA ShiftFrame ==
  ASSUME Framing, MutexInv, FrameInv, ShiftOut
  PROVE  /\ Frame' /\ status' = "sending" /\ UNCHANGED <<status, size, tx_intr, inverted>>
         /\ wire' = Append(wire, Len(wire)) /\ Len(wire) < size /\ tx_intr # {}
<1> USE DEF MutexInv
<1>1. /\ fifo # <<>> /\ fifo \in Seq(Int) /\ wire \in Seq(Int)
      /\ Len(fifo) > 1 \/ ~TxDataPending
      /\ UNCHANGED <<status, head, size, timer, tx_intr, inverted>>
  BY DEF ShiftOut, Framing, TypeOK, HwType, dmxVars, driverVars
<1>2. status = "sending" /\ Frame
  BY <1>1 DEF FrameInv
<1>3. /\ Len(fifo) \in Nat \ {0} /\ Len(wire) \in Nat /\ fifo[1] = Len(wire) /\ Head(fifo) = fifo[1]
      /\ Len(wire) < size /\ size \in 1..PacketMax /\ tx_intr # {}
  <2>1. Len(fifo) \in Nat \ {0} /\ Len(wire) \in Nat
    BY <1>1, LenProperties, EmptySeq
  <2>2. fifo[1] = Len(wire) + 1 - 1
    BY <1>2, <2>1 DEF Frame, InOrder, Consecutive
  <2>3. Len(wire) < size /\ size \in 1..PacketMax /\ tx_intr # {}
    BY <1>2, <2>1 DEF Frame, InOrder
  <2>4. Head(fifo) = fifo[1]
    BY <1>1
  <2>5. QED
    BY <2>1, <2>2, <2>3, <2>4
<1>4. wire' = Append(wire, Len(wire)) /\ fifo' = Tail(fifo)
  <2>1. Len(wire) < WireMax
    BY <1>3, DriverAssumption DEF Framing
  <2>2. QED
    BY <1>3, <2>1 DEF ShiftOut
<1>5. /\ Len(wire') = Len(wire) + 1
      /\ \A i \in 1..Len(wire') : wire'[i] = i - 1
  BY <1>1, <1>2, <1>3, <1>4 DEF Frame, InOrder
<1>6. /\ Len(fifo') = Len(fifo) - 1
      /\ \A i \in 1..Len(fifo') : fifo'[i] = Len(wire') + i - 1
  <2>1. Len(Tail(fifo)) = Len(fifo) - 1 /\ \A i \in 1..Len(Tail(fifo)) : Tail(fifo)[i] = fifo[i + 1]
    BY <1>1, HeadTailProperties
  <2>2. \A i \in 1..Len(fifo) - 1 : i + 1 \in 1..Len(fifo) /\ fifo[i + 1] = Len(wire) + (i + 1) - 1
    BY <1>2, <1>3 DEF Frame, InOrder, Consecutive
  <2>3. QED
    BY <1>3, <1>4, <1>5, <2>1, <2>2
<1>7. InOrder'
  BY <1>1, <1>2, <1>3, <1>5, <1>6 DEF Frame, InOrder, Consecutive
<1>8. tx_done' => fifo' = <<>> /\ tx_intr' = {"done"}
  <2>1. ~tx_done
    BY <1>1, <1>2 DEF Frame
  <2>2. tx_done' => Len(fifo) = 1
    BY <2>1 DEF ShiftOut, LastSlot
  <2>3. Len(fifo) = 1 => "data" \notin tx_intr
    BY <1>1, DriverAssumption DEF TxDataPending
  <2>4. Len(fifo) = 1 => fifo' = <<>>
    <3>1. fifo' \in Seq(Int)
      BY <1>1, <1>4, HeadTailProperties
    <3>2. QED
      BY <1>6, <3>1, EmptySeq
  <2>5. QED
    BY <1>1, <1>2, <1>3, <2>2, <2>3, <2>4 DEF Frame
<1>9. Frame'
  BY <1>1, <1>2, <1>7, <1>8 DEF Frame
<1>10. QED
  BY <1>1, <1>2, <1>3, <1>4, <1>9

\* The FIFO is filled with the slots that follow (uart.c:270-284).
LEMMA TxDataFrame ==
  ASSUME MutexInv, FrameInv, TxData
  PROVE  /\ Frame' /\ status' = "sending" /\ UNCHANGED <<status, size, inverted, wire>>
         /\ tx_intr # {} /\ tx_intr' # {}
<1> USE DEF MutexInv
<1> DEFINE n == Smaller(size - head, FifoLen - Len(fifo))
<1>1. /\ "data" \in tx_intr /\ Len(fifo) < FifoLen /\ fifo' = fifo \o Slots(head, n) /\ head' = head + n
      /\ tx_intr' = IF head + n = size THEN tx_intr \ {"data"} ELSE tx_intr
      /\ UNCHANGED <<status, size, timer, tx_done, inverted, wire>>
  BY DEF TxData, TxDataPending, TxIntrAfter
<1>2. status = "sending" /\ Frame /\ tx_intr = {"data", "done"}
  BY <1>1 DEF FrameInv, Frame
<1>3. /\ Len(fifo) \in Nat /\ Len(wire) \in Nat /\ fifo \in Seq(Int) /\ ~tx_done
      /\ size \in 1..PacketMax /\ head \in 1..size /\ PacketMax \in Nat /\ FifoLen \in Nat
  BY <1>2, LenProperties, DriverAssumption DEF TypeOK, HwType, Frame
<1>4. n \in Nat /\ head + n \in head..size
  BY <1>1, <1>3 DEF Smaller
<1> HIDE DEF n
<1>5. Consecutive(fifo', Len(wire), Len(fifo) + n)
  <2>1. Len(wire) + Len(fifo) = head /\ Consecutive(fifo, Len(wire), Len(fifo))
    BY <1>2 DEF Frame, InOrder
  <2>2. Consecutive(fifo \o Slots(Len(wire) + Len(fifo), n), Len(wire), Len(fifo) + n)
    BY <1>3, <1>4, <2>1, SlotsFollow
  <2>3. QED
    BY <1>1, <2>1, <2>2
<1>6. InOrder'
  <2>1. wire' = wire /\ head' = head + n /\ Len(wire) + Len(fifo) = head
        /\ \A i \in 1..Len(wire) : wire[i] = i - 1
    BY <1>1, <1>2 DEF Frame, InOrder
  <2>2. head \in Int /\ n \in Int /\ Len(fifo) \in Int /\ Len(wire) \in Int
    BY <1>3, <1>4
  <2>3. QED
    BY <1>5, <2>1, <2>2 DEF InOrder, Consecutive
<1>7. tx_intr' \in {{"done"}, {"data", "done"}} /\ (tx_intr' = {"done"} => head' = size)
  BY <1>1, <1>2
<1>8. Frame'
  <2>1. /\ size' = size /\ size \in 1..PacketMax /\ head' \in 1..size /\ tx_done' = FALSE /\ ~timer'
    <3>1. head' \in head..size /\ head \in 1..size /\ size \in Int
      BY <1>1, <1>3, <1>4
    <3>2. head' \in 1..size
      BY <3>1
    <3>3. QED
      BY <1>1, <1>2, <1>3, <3>2 DEF Frame, MutexInv, TypeOK, HwType
  <2>2. QED
    BY <1>6, <1>7, <2>1 DEF Frame
<1>9. QED
  BY <1>1, <1>2, <1>7, <1>8

\* When the UART has sent its last slot, the packet is sent (uart.c:286-316).
LEMMA TxDoneFrame ==
  ASSUME MutexInv, FrameInv, TxDone
  PROVE  /\ status = "sending" /\ status' # "sending" /\ tx_intr # {}
         /\ fifo = <<>> /\ UNCHANGED <<fifo, wire, size, inverted>> /\ tx_intr' = {} /\ ~tx_done'
         /\ wire = Slots(0, size) /\ Len(wire) = size
<1>1. status = "sending" /\ Frame /\ fifo = <<>> /\ tx_intr = {"done"} /\ head = size
  BY DEF TxDone, FrameInv, Frame
<1>2. wire \in Seq(Int) /\ size \in 1..PacketMax /\ PacketMax \in Nat
  BY <1>1, DriverAssumption DEF Frame, MutexInv, TypeOK, HwType
<1>3. Len(wire) = size /\ \A i \in 1..size : wire[i] = i - 1
  <2>1. Len(fifo) = 0 /\ Len(wire) \in Nat
    BY <1>1, <1>2, LenProperties
  <2>2. QED
    BY <1>1, <1>2, <2>1 DEF Frame, InOrder
<1>4. Slots(0, size) \in Seq(Int) /\ Len(Slots(0, size)) = size /\ \A i \in 1..size : Slots(0, size)[i] = i - 1
  BY <1>2 DEF Slots
<1>5. wire = Slots(0, size)
  BY <1>2, <1>3, <1>4, SeqEqual
<1>6. QED
  BY <1>1, <1>3, <1>5 DEF TxDone

\* What is received leaves the transmitter alone; other devices own the bus.
LEMMA RxFrame ==
  ASSUME Framing, BusInv, FrameInv, RxIsr
  PROVE  /\ status # "sending" /\ status' # "sending" /\ UNCHANGED <<txVars, pc, local>>
         /\ rts = 1 /\ NoResponse'
<1>1. PICK n \in 1..FifoLen, k \in RxKinds : RxBreak(n) \/ RxError(n) \/ RxData(n, k)
  BY DEF RxIsr
<1>2. /\ rts = 1 /\ UNCHANGED <<txVars, pc, local>> /\ status # "sending"
  BY <1>1 DEF RxBreak, RxError, RxData, hwVars, taskVars, BusInv, LineInv
<1>3. status' # "sending"
  BY <1>1, <1>2 DEF RxBreak, RxError, RxData, Complete
<1>4. NoResponse'
  <2>1. CASE Silent
    BY <2>1 DEF NoResponse
  <2>2. CASE "dub_response" \notin Kinds \cup RxKinds
    <3>1. rxkind' \in {rxkind, k, "dmx"} /\ data' \in {data, rxkind, k, "dmx"}
      BY <1>1 DEF RxBreak, RxError, RxData, DataAfter, hwVars
    <3>2. k # "dub_response"
      BY <2>2
    <3>3. QED
      BY <1>2, <3>1, <3>2 DEF FrameInv, NoResponse
  <2>3. QED
    BY <2>1, <2>2 DEF Framing
<1>5. QED
  BY <1>2, <1>3, <1>4

\* No step breaks the invariant of the frame.
LEMMA FrameStep ==
  ASSUME Framing, MutexInv, BusInv, FrameInv, [Next]_vars
  PROVE  FrameInv'
<1>1. ASSUME NEW t \in Tasks, TaskNext(t) PROVE FrameInv'
  <2>1. NoResponse'
    BY <1>1, NoResponseStep DEF FrameInv, MutexInv
  <2>2. CASE SendGo(t)
    <3>1. Frame' /\ status' = "sending"
      BY <1>1, <2>2, SendGoFrame
    <3>2. QED
      BY <2>1, <3>1 DEF FrameInv
  <2>3. CASE ~SendGo(t)
    BY <1>1, <2>1, <2>3, TaskLine, FrameLeft
  <2>4. QED
    BY <2>2, <2>3
<1>2. CASE TimerAlarm
  BY <1>2, FrameLeft DEF TimerAlarm, dmxVars, driverVars, taskVars, FrameInv, NoResponse
<1>3. CASE TimerBreakEnd
  <2>1. /\ UNCHANGED <<status, head, size, timer, data, rxkind, pc, local, wire, fifo, tx_intr, tx_done>>
        /\ status = "sending"
    BY <1>3 DEF TimerBreakEnd, taskVars
  <2>2. QED
    BY <2>1 DEF FrameInv, Frame, InOrder, NoResponse
<1>4. ASSUME Frame' /\ status' = "sending", UNCHANGED <<size, data, rxkind, pc, local>> PROVE FrameInv'
  BY <1>4 DEF FrameInv, NoResponse
<1>5. CASE TimerMabEnd
  BY <1>4, <1>5, MabEndFrame DEF TimerMabEnd, taskVars
<1>6. CASE ShiftOut
  BY <1>4, <1>6, ShiftFrame DEF ShiftOut, dmxVars, driverVars, taskVars
<1>7. CASE TxData
  BY <1>4, <1>7, TxDataFrame DEF TxData, taskVars
<1>8. CASE TxDone
  <2>1. UNCHANGED <<size, data, rxkind, pc, local>>
    BY <1>8 DEF TxDone, taskVars
  <2>2. QED
    BY <1>8, <2>1, TxDoneFrame DEF FrameInv, NoResponse
<1>9. CASE RxIsr
  BY <1>9, RxFrame DEF FrameInv, txVars
<1>10. CASE UNCHANGED vars
  BY <1>10 DEF vars, dmxVars, driverVars, hwVars, txVars, taskVars, FrameInv, Frame, InOrder, NoResponse
<1>11. QED
  BY <1>1, <1>2, <1>3, <1>5, <1>6, <1>7, <1>8, <1>9, <1>10 DEF Next, TimerIsr

\* The invariant of the frame holds of the driver.
LEMMA FrameInvariant ==
  ASSUME Framing
  PROVE  Spec => [](MutexInv /\ BusInv /\ FrameInv)
<1>1. Init => FrameInv
  BY DEF Init, FrameInv, NoResponse, NoLocals
<1>2. MutexInv /\ BusInv /\ FrameInv /\ [Next]_vars => FrameInv'
  BY FrameStep
<1>3. Spec => [](MutexInv /\ BusInv)
  BY BusInvariant DEF Framing
<1>4. QED
  BY <1>1, <1>2, <1>3, PTL DEF Spec

\* A packet is reported as sent once all its slots are on the bus, each once and
\* in order (uart.c:286-316).
THEOREM PacketsAreSentEntirely ==
  ASSUME Framing
  PROVE  Spec => SentEntirely
<1>1. MutexInv /\ BusInv /\ FrameInv /\ [Next]_vars
        => [status = "sending" /\ status' # "sending" => wire = Slots(0, size) /\ fifo = <<>>]_vars
  <2>1. SUFFICES ASSUME MutexInv, BusInv, FrameInv, Next, status = "sending", status' # "sending"
                 PROVE  wire = Slots(0, size) /\ fifo = <<>>
    BY DEF vars, dmxVars, driverVars
  <2>2. ASSUME NEW t \in Tasks, TaskNext(t) PROVE FALSE
    BY <2>1, <2>2, TaskLine DEF SendGo
  <2>3. CASE TimerIsr
    BY <2>1, <2>3 DEF TimerIsr, TimerAlarm, TimerBreakEnd, TimerMabEnd, dmxVars, driverVars
  <2>4. CASE ShiftOut \/ TxData
    BY <2>1, <2>4 DEF ShiftOut, TxData, dmxVars, driverVars
  <2>5. CASE TxDone
    BY <2>1, <2>5, TxDoneFrame
  <2>6. CASE RxIsr
    BY <2>1, <2>6, RxFrame
  <2>7. QED
    BY <2>1, <2>2, <2>3, <2>4, <2>5, <2>6 DEF Next
<1>2. QED
  BY <1>1, FrameInvariant, PTL DEF Spec, SentEntirely

\* What the driver and the UART do to the bus is what DmxLine says: each step
\* is one of the abstract line, or leaves it alone.
THEOREM BusIsLine ==
  ASSUME Framing
  PROVE  Spec => SendsPackets
<1>1. Init => Line!LineInit
  BY DEF Init, Line!LineInit
<1> DEFINE Kept == UNCHANGED <<status, size, wire, inverted, tx_intr>>
<1>2. /\ Kept => UNCHANGED Line!lineVars
      /\ status # "sending" /\ status' # "sending" => UNCHANGED Line!lineVars
  BY DEF Line!lineVars
<1>3. ASSUME MutexInv, BusInv, FrameInv, [Next]_vars
      PROVE  [Line!LineNext]_Line!lineVars
  <2>1. /\ inverted => status = "sending" /\ tx_intr = {} /\ progress = "in_break"
        /\ status = "sending" /\ timer => tx_intr = {}
        /\ inverted \in BOOLEAN
    BY <1>3 DEF BusInv, LineInv, FrameInv, Frame, MutexInv, TypeOK, HwType
  <2>2. ASSUME NEW t \in Tasks, TaskNext(t) PROVE [Line!LineNext]_Line!lineVars
    <3>1. CASE SendGo(t)
      <4>1. /\ status # "sending" /\ status' = "sending" /\ ~inverted /\ wire' = <<>>
            /\ size' \in 1..PacketMax
            /\ \/ inverted' = TRUE
               \/ inverted' = inverted /\ tx_intr' = {"data", "done"}
        BY <1>3, <2>1, <3>1, SendGoFrame DEF SendGo, Frame, BusInv, TaskInv, Knowing
      <4>2. \E n \in 1..PacketMax, first \in {"break", "data"} : Line!Start(n, first)
        <5>1. CASE inverted' = TRUE
          <6>1. Line!Start(size', "break")
            BY <4>1, <5>1 DEF Line!Start
          <6>2. QED
            BY <4>1, <6>1
        <5>2. CASE inverted' = inverted /\ tx_intr' = {"data", "done"}
          <6>1. Line!Start(size', "data")
            BY <4>1, <5>2 DEF Line!Start
          <6>2. QED
            BY <4>1, <6>1
        <5>3. QED
          BY <4>1, <5>1, <5>2
      <4>3. QED
        BY <4>2 DEF Line!LineNext
    <3>2. CASE ~SendGo(t)
      <4>1. UNCHANGED <<status, txVars>> /\ (status = "sending" => size' = size)
        BY <1>3, <2>2, <3>2, TaskLine
      <4>2. UNCHANGED Line!lineVars
        BY <1>2, <4>1 DEF txVars
      <4>3. QED
        BY <4>2
    <3>3. QED
      BY <3>1, <3>2
  <2>3. CASE TimerAlarm \/ UNCHANGED vars
    <3>1. Kept
      BY <2>3 DEF TimerAlarm, vars, dmxVars, driverVars, hwVars, txVars
    <3>2. QED
      BY <1>2, <3>1
  <2>4. CASE TimerBreakEnd
    <3>1. /\ status = "sending" /\ tx_intr = {} /\ inverted' = FALSE
          /\ UNCHANGED <<status, size, wire, tx_intr>>
      BY <2>1, <2>4 DEF TimerBreakEnd
    <3>2. CASE inverted
      <4>1. Line!EndBreak
        BY <3>1, <3>2 DEF Line!EndBreak
      <4>2. QED
        BY <4>1 DEF Line!LineNext
    <3>3. CASE ~inverted
      BY <1>2, <2>1, <3>1, <3>3
    <3>4. QED
      BY <3>2, <3>3
  <2>5. CASE TimerMabEnd
    <3>1. Line!EndMab
      BY <2>1, <2>5 DEF TimerMabEnd, Line!EndMab
    <3>2. QED
      BY <3>1 DEF Line!LineNext
  <2>6. CASE ShiftOut
    <3>1. Line!Slot
      BY <1>3, <2>1, <2>6, ShiftFrame DEF Line!Slot
    <3>2. QED
      BY <3>1 DEF Line!LineNext
  <2>7. CASE TxData
    <3>1. /\ status = "sending" /\ ~inverted /\ tx_intr # {} /\ tx_intr' # {}
          /\ UNCHANGED <<status, size, wire, inverted>>
      BY <1>3, <2>1, <2>7, TxDataFrame
    <3>2. UNCHANGED Line!lineVars
      BY <3>1 DEF Line!lineVars
    <3>3. QED
      BY <3>2
  <2>8. CASE TxDone
    <3>1. Line!Finish
      BY <1>3, <2>1, <2>8, TxDoneFrame DEF Line!Finish
    <3>2. QED
      BY <3>1 DEF Line!LineNext
  <2>9. CASE RxIsr
    BY <1>2, <1>3, <2>9, RxFrame
  <2>10. QED
    BY <1>3, <2>2, <2>3, <2>4, <2>5, <2>6, <2>7, <2>8, <2>9 DEF Next, TimerIsr
<1>4. MutexInv /\ BusInv /\ FrameInv /\ [Next]_vars => [Line!LineNext]_Line!lineVars
  BY <1>3
<1>5. QED
  BY <1>1, <1>4, FrameInvariant, PTL DEF Spec, SendsPackets, Line!Spec

\* While a packet is sent, the slots on the bus and in the FIFO are those of the
\* packet up to head, each once and in order, whatever interleaves.
THEOREM FramesAreIntact ==
  ASSUME Framing
  PROVE  Spec => []FrameIntact
<1>1. ASSUME MutexInv, FrameInv, status = "sending"
      PROVE  wire \o fifo = Slots(0, head) /\ head <= size
  <2> DEFINE w == Len(wire)
             n == Len(fifo)
  <2>1. /\ wire \in Seq(Int) /\ fifo \in Seq(Int) /\ w \in Nat /\ n \in Nat /\ head = w + n
        /\ \A i \in 1..w : wire[i] = i - 1
        /\ \A i \in 1..n : fifo[i] = w + i - 1
        /\ size \in 1..PacketMax /\ head \in 0..size
    BY <1>1, LenProperties DEF MutexInv, TypeOK, HwType, FrameInv, Frame, InOrder, Consecutive
  <2>2. Slots(w, n) \in Seq(Int) /\ Len(Slots(w, n)) = n /\ \A i \in 1..n : Slots(w, n)[i] = w + i - 1
    BY <2>1 DEF Slots
  <2>3. fifo = Slots(w, n)
    BY <2>1, <2>2, SeqEqual
  <2>4. Consecutive(wire, 0, w) /\ 0 \in Nat
    BY <2>1 DEF Consecutive
  <2>5. Consecutive(wire \o Slots(0 + w, n), 0, w + n)
    BY <2>1, <2>4, SlotsFollow
  <2>6. wire \o fifo \in Seq(Int)
    BY <2>1, ConcatProperties
  <2>7. Slots(0, head) \in Seq(Int) /\ Len(Slots(0, head)) = head
        /\ \A i \in 1..head : Slots(0, head)[i] = 0 + i - 1
    BY <2>1 DEF Slots
  <2>8. Consecutive(wire \o fifo, 0, head)
    BY <2>1, <2>3, <2>5
  <2>9. wire \o fifo = Slots(0, head)
    BY <2>6, <2>7, <2>8, SeqEqual DEF Consecutive
  <2>10. QED
    BY <2>1, <2>9, DriverAssumption
<1>2. MutexInv /\ FrameInv => FrameIntact
  BY <1>1 DEF FrameIntact
<1>3. QED
  BY <1>2, FrameInvariant, PTL
=============================================================================
