----------------------------- MODULE DmxDriver -----------------------------
(***************************************************************************)
(* The DMX driver of esp_dmx: the calls dmx_write, dmx_send_num,           *)
(* dmx_receive_num and dmx_wait_sent (dmx/io.c) made by concurrent tasks,  *)
(* against the UART interrupt (dmx/hal/uart.c), the timer interrupt        *)
(* (dmx/hal/timer.c) and the DMX bus.                                      *)
(*                                                                         *)
(* A task takes one step per critical section or unprotected access to the *)
(* shared driver; an interrupt handler iteration is one step, since both   *)
(* handlers run on the core of the tasks and do not nest.  The contents of *)
(* the packet buffer are abstracted to the kind of packet that             *)
(* rdm_read_header() recognises there, and durations to the order in which *)
(* alarms, ticks and slots happen.                                         *)
(***************************************************************************)
EXTENDS Integers, Sequences

CONSTANTS
  Tasks,       \* the FreeRTOS tasks that call the driver
  NoTask,      \* the NULL task handle
  Calls,       \* which driver functions the tasks call
  Kinds,       \* which kinds of packet the tasks write
  RxKinds,     \* which kinds of packet arrive on the bus
  PacketMax,   \* DMX_PACKET_SIZE_MAX, in slots
  Sizes,       \* the sizes that callers ask to receive or send, in slots
  RdmLen,      \* message_len + 2 of an RDM packet, in slots
  ReplyLen,    \* length of a DISC_UNIQUE_BRANCH response, in slots
  FifoLen,     \* slots that a FIFO of the UART holds
  HeadMax,     \* bound: slots received without a break
  WireMax,     \* bound: slots of a packet remembered once they are on the bus
  DepthMax,    \* bound: takes of the driver mutex when one more is leaked
  Elapsed,     \* time since the last packet: "early", "due" or "late"
  Timeouts,    \* a wait for a mutex or a notification may run out of ticks
  SlowTakes,   \* the ticks may run out between taking a mutex and checking
  Prompt,      \* a woken task runs before the next interrupt
  LateIsr      \* the transmit FIFO may drain before its interrupt is served

PacketKinds == {"dmx", "request", "broadcast", "dub", "response", "dub_response"}
Requests    == {"request", "broadcast", "dub"}
Labels      == {"idle", "w_check", "w_rts", "w_copy",
                "ws_take", "ws_check", "ws_wait", "ws_clear",
                "s_header", "s_alarm", "s_wait", "s_clear", "s_turn", "s_go",
                "r_sent", "r_turn", "r_size", "r_look", "r_arm", "r_timer",
                "r_wait", "r_clear", "r_parse"}

ASSUME DriverAssumption ==
  /\ NoTask \notin Tasks
  /\ Calls \subseteq {"write", "send", "receive", "wait_sent"}
  /\ Kinds \subseteq PacketKinds
  /\ RxKinds \subseteq PacketKinds
  /\ Sizes \subseteq Nat
  /\ PacketMax \in Nat \ {0} /\ FifoLen \in Nat \ {0, 1} /\ HeadMax \in Nat
  /\ RdmLen \in 1..PacketMax /\ ReplyLen \in 1..PacketMax
  /\ HeadMax >= PacketMax
  /\ DepthMax \in Nat /\ WireMax \in Nat
  /\ Elapsed \subseteq {"early", "due", "late"}
  /\ Timeouts \in BOOLEAN /\ SlowTakes \in BOOLEAN
  /\ Prompt \in BOOLEAN /\ LateIsr \in BOOLEAN

VARIABLES
  mux,            \* recursive mutex: its owner and how often it is taken
  task_waiting,   \* task the interrupts notify, or NoTask
  notified,       \* pending notification of each task, "no" if there is none
  status, progress, head, size,            \* driver->dmx
  data,           \* kind of packet that driver->dmx.data holds
  is_controller,
  last_controller_pid,                     \* "none" (0), "dub" or "other"
  last_request_was_broadcast,
  timer,          \* is the hardware timer running
  rts,            \* 0: the transceiver drives the bus; 1: it listens
  inverted,       \* transmit line inverted: the DMX break
  fifo,           \* indices of the slots in the transmit FIFO
  tx_intr,        \* enabled transmit interrupts
  tx_done,        \* raw TX_DONE flag of the UART
  wire,           \* slots of the current packet put on the bus (history)
  overtaken,      \* writers past their check when RDM was sent (history)
  rxkind,         \* kind of packet arriving on the bus
  pc, caller, local                        \* control and locals of each task

driverVars == <<status, progress, head, size>>
roleVars   == <<is_controller, last_controller_pid, last_request_was_broadcast,
                overtaken>>
txVars     == <<fifo, tx_intr, tx_done, wire, inverted>>
taskVars   == <<pc, caller, local>>
syncVars   == <<mux, task_waiting, notified>>
dmxVars    == <<driverVars, data, roleVars>>
hwVars     == <<timer, rts, txVars, rxkind>>
vars == <<syncVars, dmxVars, hwVars, taskVars>>

-----------------------------------------------------------------------------
(* Helpers *)

IsRdm(kind) == kind # "dmx"

\* Slots from the start code to the checksum; a DMX packet has at least one.
PacketLen(kind) == CASE kind = "dmx" -> 1
                     [] kind = "dub_response" -> ReplyLen
                     [] OTHER -> RdmLen

\* Mutant: the kind of packet is recorded for its parameter ID.
PidOfMutant(kind) == kind

PidOf(kind) == CASE kind = "dub" -> "dub"
                 [] kind \in {"request", "broadcast"} -> "other"
                 [] OTHER -> "none"

Smaller(a, b) == IF a < b THEN a ELSE b

\* The indices of n consecutive slots, starting with the given one.
Slots(first, n) == [i \in 1..n |-> first + i - 1]

NoLocals == [wait |-> FALSE, sent |-> FALSE, kind |-> "dmx", num |-> 0, err |-> "no"]

Goto(t, label) == pc' = [pc EXCEPT ![t] = label]
Return(t) == /\ Goto(t, "idle")
             /\ caller' = [caller EXCEPT ![t] = "none"]
             /\ local' = [local EXCEPT ![t] = NoLocals]

\* Mutant: a packet whose slots reach the FIFO counts as sent.
SendingMutant == status = "sending" /\ head = 0

\* A critical section that reads status.
Sending == status = "sending"

\* Mutant: the level of RTS is swapped.
TurnToWriteMutant == rts' = 1

\* The bus is turned from reading to writing.
TurnToWrite == rts' = 0

\* xSemaphoreTakeRecursive() and xSemaphoreGiveRecursive()
Take(t) == /\ mux.owner \in {NoTask, t}
           /\ mux' = [owner |-> t, depth |-> mux.depth + 1]
\* Mutant: one give undoes every take, as for a mutex that is not recursive.
GiveMutant(t) == mux' = [owner |-> NoTask, depth |-> mux.depth - 1]

Give(t) == mux' = [owner |-> IF mux.depth = 1 THEN NoTask ELSE mux.owner,
                   depth |-> mux.depth - 1]

\* Mutant: only the end of a transmission wakes the waiting task.
NotifyMutant(value) ==
  notified' = IF task_waiting = NoTask \/ status # "sending" THEN notified
              ELSE [notified EXCEPT ![task_waiting] = value]

\* xTaskNotifyFromISR() on the waiting task, if there is one
Notify(value) ==
  notified' = IF task_waiting = NoTask THEN notified
              ELSE [notified EXCEPT ![task_waiting] = value]

\* xTaskNotifyWait(): take the pending notification
Notified(t) == notified[t] # "no"
Consume(t)  == notified' = [notified EXCEPT ![t] = "no"]

\* A scheduler that runs the woken task at once keeps interrupts from seeing
\* it between its wake-up and the step that resets task_waiting.
Woken == \E t \in Tasks : \/ pc[t] \in {"ws_clear", "s_clear", "r_clear"}
                          \/ pc[t] \in {"ws_wait", "s_wait", "r_wait"} /\ Notified(t)
MayInterrupt == Prompt => ~Woken

-----------------------------------------------------------------------------
(* dmx_write(): no mutex is taken *)

\* Once a packet of this kind is being sent, the writers that were told
\* earlier that they may write have been overtaken if it is RDM.
Overtaken(kind) ==
  IF IsRdm(kind) THEN overtaken \cup {t \in Tasks : pc[t] \in {"w_rts", "w_copy"}}
  ELSE overtaken

WriteCall(t, kind) ==
  /\ pc[t] = "idle" /\ "write" \in Calls
  /\ Goto(t, IF Sending THEN "w_check" ELSE "w_rts")
  /\ local' = [local EXCEPT ![t].kind = kind]
  /\ UNCHANGED <<syncVars, dmxVars, hwVars, caller>>

\* Mutant: the packet that is sent is not looked at.
WriteCheckMutant(t) ==
  /\ pc[t] = "w_check"
  /\ Goto(t, "w_rts")
  /\ UNCHANGED <<syncVars, dmxVars, hwVars, caller, local>>

\* The driver was seen sending: refuse to write over an RDM packet.
WriteCheck(t) ==
  /\ pc[t] = "w_check"
  /\ IF IsRdm(data) THEN Return(t)
     ELSE Goto(t, "w_rts") /\ UNCHANGED <<caller, local>>
  /\ UNCHANGED <<syncVars, dmxVars, hwVars>>

WriteRts(t) ==
  /\ pc[t] = "w_rts"
  /\ TurnToWrite
  /\ Goto(t, "w_copy")
  /\ UNCHANGED <<syncVars, dmxVars, timer, txVars, rxkind, caller, local>>

WriteCopy(t) ==
  /\ pc[t] = "w_copy"
  /\ data' = local[t].kind
  /\ overtaken' = (IF Sending THEN Overtaken(local[t].kind) ELSE overtaken) \ {t}
  /\ Return(t)
  /\ UNCHANGED <<syncVars, driverVars, is_controller, last_controller_pid,
                 last_request_was_broadcast, hwVars>>

-----------------------------------------------------------------------------
(* dmx_wait_sent(), called by the application or by send and receive *)

WaitSentCall(t, wait) ==
  /\ pc[t] = "idle" /\ "wait_sent" \in Calls
  /\ Goto(t, "ws_take")
  /\ local' = [local EXCEPT ![t].wait = wait]
  /\ UNCHANGED <<syncVars, dmxVars, hwVars, caller>>

\* Where dmx_wait_sent() returns to.
WaitSentReturn(t, result) ==
  IF caller[t] = "none" THEN Return(t)
  ELSE /\ Goto(t, IF caller[t] = "send" THEN "s_header" ELSE "r_sent")
       /\ local' = [local EXCEPT ![t].sent = result]
       /\ UNCHANGED caller

WaitSentTake(t) ==
  /\ pc[t] = "ws_take"
  /\ Take(t)
  /\ Goto(t, "ws_check")
  /\ UNCHANGED <<task_waiting, notified, dmxVars, hwVars, caller, local>>

\* The mutex was not free in time.
WaitSentNoTake(t) ==
  /\ pc[t] = "ws_take"
  /\ mux.owner \notin {NoTask, t}
  /\ ~local[t].wait \/ Timeouts
  /\ WaitSentReturn(t, FALSE)
  /\ UNCHANGED <<syncVars, dmxVars, hwVars>>

\* The mutex was taken, but by then the ticks had run out: the code returns
\* without giving it back.
WaitSentLateTake(t) ==
  /\ pc[t] = "ws_take" /\ local[t].wait
  /\ SlowTakes /\ mux.depth < DepthMax
  /\ Take(t)
  /\ WaitSentReturn(t, FALSE)
  /\ UNCHANGED <<task_waiting, notified, dmxVars, hwVars>>

WaitSentCheck(t) ==
  /\ pc[t] = "ws_check"
  /\ IF Sending /\ local[t].wait
     THEN /\ task_waiting' = t
          /\ Goto(t, "ws_wait")
          /\ UNCHANGED <<mux, caller, local>>
     ELSE /\ WaitSentReturn(t, ~Sending)
          /\ Give(t)
          /\ UNCHANGED task_waiting
  /\ UNCHANGED <<notified, dmxVars, hwVars>>

\* xTaskNotifyWait() returns, notified or out of ticks.
WaitSentWake(t) ==
  /\ pc[t] = "ws_wait"
  /\ \/ Notified(t) /\ local' = [local EXCEPT ![t].sent = TRUE]
     \/ ~Notified(t) /\ Timeouts /\ local' = [local EXCEPT ![t].sent = FALSE]
  /\ Consume(t)
  /\ Goto(t, "ws_clear")
  /\ UNCHANGED <<mux, task_waiting, dmxVars, hwVars, caller>>

WaitSentClear(t) ==
  /\ pc[t] = "ws_clear"
  /\ task_waiting' = NoTask
  /\ Give(t)
  /\ WaitSentReturn(t, local[t].sent)
  /\ UNCHANGED <<notified, dmxVars, hwVars>>

-----------------------------------------------------------------------------
(* dmx_send_num() *)

\* Without the mutex the call returns 0 at once and changes nothing.
SendCall(t, n) ==
  /\ pc[t] = "idle" /\ "send" \in Calls
  /\ Take(t)
  /\ Goto(t, "ws_take")
  /\ caller' = [caller EXCEPT ![t] = "send"]
  /\ local' = [local EXCEPT ![t].wait = TRUE, ![t].num = n]
  /\ UNCHANGED <<task_waiting, notified, dmxVars, hwVars>>

SendHeader(t) ==
  /\ pc[t] = "s_header"
  /\ IF local[t].sent
     THEN /\ local' = [local EXCEPT ![t].kind = data]
          /\ is_controller' = (~IsRdm(data) \/ data \in Requests)
          /\ Goto(t, "s_alarm")
          /\ UNCHANGED <<mux, caller>>
     ELSE Give(t) /\ Return(t) /\ UNCHANGED is_controller
  /\ UNCHANGED <<task_waiting, notified, driverVars, data, last_controller_pid,
                 last_request_was_broadcast, overtaken, hwVars>>

\* Too early to send: arm the timer.  Too late for a response: give up.
SendAlarm(t, elapsed) ==
  /\ pc[t] = "s_alarm"
  /\ \/ /\ elapsed = "early"
        /\ timer' = TRUE
        /\ task_waiting' = t
        /\ Goto(t, "s_wait")
        /\ UNCHANGED <<mux, caller, local>>
     \/ /\ elapsed = "late" /\ ~is_controller
        /\ Give(t) /\ Return(t)
        /\ UNCHANGED <<timer, task_waiting>>
     \/ /\ elapsed = "due" \/ (elapsed = "late" /\ is_controller)
        /\ Goto(t, "s_turn")
        /\ UNCHANGED <<mux, caller, local, timer, task_waiting>>
  /\ UNCHANGED <<notified, dmxVars, rts, txVars, rxkind>>

\* The code declares it unreachable that no notification comes in 20 ms; the
\* build drops the test and goes on.
SendWake(t) ==
  /\ pc[t] = "s_wait"
  /\ Notified(t) \/ (Timeouts /\ ~timer)
  /\ Consume(t)
  /\ Goto(t, "s_clear")
  /\ UNCHANGED <<mux, task_waiting, dmxVars, hwVars, caller, local>>

\* Mutant: the driver keeps the handle of the task that slept.
SendClearMutant(t) ==
  /\ pc[t] = "s_clear"
  /\ Goto(t, "s_turn")
  /\ UNCHANGED <<syncVars, dmxVars, hwVars, caller, local>>

SendClear(t) ==
  /\ pc[t] = "s_clear"
  /\ task_waiting' = NoTask
  /\ Goto(t, "s_turn")
  /\ UNCHANGED <<mux, notified, dmxVars, hwVars, caller, local>>

\* Mutant: only the missing size of a DMX packet is replaced.
SendSizeMutant(kind, n) == IF IsRdm(kind) THEN PacketLen(kind)
                           ELSE IF n = 0 THEN PacketMax ELSE n

\* An RDM packet has its own length; a DMX packet no more than the buffer.
SendSize(kind, n) == IF IsRdm(kind) THEN PacketLen(kind)
                     ELSE IF n \in 1..PacketMax THEN n ELSE PacketMax

\* Turn the bus around, set the size and record what is sent.
SendTurn(t) ==
  LET kind == local[t].kind IN
  /\ pc[t] = "s_turn"
  /\ TurnToWrite
  /\ size' = SendSize(kind, local[t].num)
  /\ IF is_controller
     THEN /\ last_controller_pid' = PidOf(kind)
          /\ last_request_was_broadcast' = (kind \in {"broadcast", "dub"})
     ELSE UNCHANGED <<last_controller_pid, last_request_was_broadcast>>
  /\ Goto(t, "s_go")
  /\ UNCHANGED <<syncVars, status, progress, head, data, is_controller, overtaken,
                 timer, txVars, rxkind, caller, local>>

\* A discovery response is written at once, any other packet starts with the
\* break that the timer ends.
SendGo(t) ==
  LET n == Smaller(size, FifoLen - Len(fifo)) IN
  /\ pc[t] = "s_go"
  /\ status' = "sending"
  /\ IF local[t].kind = "dub_response"
     THEN /\ fifo' = fifo \o Slots(0, n)
          /\ head' = n
          /\ tx_intr' = {"data", "done"}
          /\ UNCHANGED <<progress, timer, inverted>>
     ELSE /\ head' = 0
          /\ progress' = "in_break"
          /\ timer' = TRUE
          /\ inverted' = TRUE
          /\ UNCHANGED <<fifo, tx_intr>>
  /\ wire' = <<>>
  /\ overtaken' = Overtaken(data)
  /\ Give(t) /\ Return(t)
  /\ UNCHANGED <<task_waiting, notified, size, data, is_controller,
                 last_controller_pid, last_request_was_broadcast, rts, tx_done,
                 rxkind>>

-----------------------------------------------------------------------------
(* dmx_receive_num() *)

\* Without the mutex the call waits or returns 0 and changes nothing.
ReceiveCall(t, want, wait) ==
  /\ pc[t] = "idle" /\ "receive" \in Calls
  /\ Take(t)
  /\ Goto(t, "ws_take")
  /\ caller' = [caller EXCEPT ![t] = "receive"]
  /\ local' = [local EXCEPT ![t].wait = wait, ![t].num = want]
  /\ UNCHANGED <<task_waiting, notified, dmxVars, hwVars>>

\* As in WaitSentLateTake, the mutex is kept.
ReceiveLateTake(t) ==
  /\ pc[t] = "idle" /\ "receive" \in Calls
  /\ SlowTakes /\ mux.depth < DepthMax
  /\ Take(t)
  /\ UNCHANGED <<task_waiting, notified, dmxVars, hwVars, taskVars>>

ReceiveSent(t) ==
  /\ pc[t] = "r_sent"
  /\ \/ /\ local[t].sent
        /\ Goto(t, "r_turn")
        /\ UNCHANGED <<mux, caller, local>>
     \/ /\ ~local[t].sent \/ (local[t].wait /\ Timeouts)
        /\ Give(t) /\ Return(t)
  /\ UNCHANGED <<task_waiting, notified, dmxVars, hwVars>>

\* Let the bus be read; what was received before it was turned is stale.
ReceiveTurn(t) ==
  /\ pc[t] = "r_turn"
  /\ IF rts = 0
     THEN Consume(t) /\ progress' = "stale" /\ head' = -1 /\ rts' = 1
     ELSE UNCHANGED <<notified, progress, head, rts>>
  /\ Goto(t, "r_size")
  /\ UNCHANGED <<mux, task_waiting, status, size, data, roleVars, timer,
                 txVars, rxkind, caller, local>>

\* The size asked for is taken as it is.  The comparison with head is one of
\* unsigned integers: a negative head is more than any size.
ReceiveSize(t) ==
  LET want == local[t].num IN
  /\ pc[t] = "r_size"
  /\ size' = want
  /\ progress' = IF want # size /\ progress # "stale" /\ (head < 0 \/ head >= want)
                 THEN "complete" ELSE progress
  /\ Goto(t, "r_look")
  /\ UNCHANGED <<syncVars, status, head, data, roleVars, hwVars, caller,
                 local>>

\* Is a packet there already?
ReceiveLook(t) ==
  /\ pc[t] = "r_look"
  /\ IF progress = "complete"
     THEN /\ local' = [local EXCEPT ![t].num = head, ![t].err = "ok"]
          /\ Goto(t, "r_parse")
          /\ UNCHANGED <<mux, caller>>
     ELSE IF local[t].wait
     THEN Goto(t, "r_arm") /\ UNCHANGED <<mux, caller, local>>
     ELSE Give(t) /\ Return(t)
  /\ UNCHANGED <<task_waiting, notified, dmxVars, hwVars>>

ReceiveArm(t) ==
  /\ pc[t] = "r_arm"
  /\ task_waiting' = t
  /\ Goto(t, IF is_controller THEN "r_timer" ELSE "r_wait")
  /\ UNCHANGED <<mux, notified, dmxVars, hwVars, caller, local>>

\* A controller waits for a response: too late, or until the alarm.
ReceiveTimer(t, elapsed) ==
  /\ pc[t] = "r_timer"
  /\ IF elapsed = "late"
     THEN Give(t) /\ Return(t) /\ UNCHANGED timer
     ELSE timer' = TRUE /\ Goto(t, "r_wait") /\ UNCHANGED <<mux, caller,
                                                            local>>
  /\ UNCHANGED <<task_waiting, notified, dmxVars, rts, txVars, rxkind>>

ReceiveWake(t) ==
  /\ pc[t] = "r_wait"
  /\ Notified(t) \/ Timeouts
  /\ local' = [local EXCEPT ![t].err = notified[t]]
  /\ Consume(t)
  /\ Goto(t, "r_clear")
  /\ UNCHANGED <<mux, task_waiting, dmxVars, hwVars, caller>>

\* The size of the packet is read after the wake-up.  Out of ticks, a
\* notification that came late is dropped (and staged parameters committed).
ReceiveClear(t) ==
  /\ pc[t] = "r_clear"
  /\ task_waiting' = NoTask
  /\ IF local[t].err = "no"
     THEN Consume(t) /\ Give(t) /\ Return(t)
     ELSE /\ local' = [local EXCEPT ![t].num = head]
          /\ Goto(t, "r_parse")
          /\ UNCHANGED <<mux, notified, caller>>
  /\ UNCHANGED <<dmxVars, hwVars>>

\* Hand out the packet, once.
ReceiveParse(t) ==
  /\ pc[t] = "r_parse"
  /\ progress' = "stale"
  /\ Give(t) /\ Return(t)
  /\ UNCHANGED <<task_waiting, notified, status, head, size, data, roleVars,
                 hwVars>>

-----------------------------------------------------------------------------
(* dmx_timer_isr() *)

TimerAlarm ==
  /\ timer /\ MayInterrupt
  /\ status # "sending"
  /\ Notify("ok")
  /\ timer' = FALSE
  /\ UNCHANGED <<mux, task_waiting, dmxVars, rts, txVars, rxkind, taskVars>>

TimerBreakEnd ==
  /\ timer /\ MayInterrupt
  /\ status = "sending" /\ progress = "in_break"
  /\ inverted' = FALSE
  /\ progress' = "in_mab"
  /\ UNCHANGED <<syncVars, status, head, size, data, roleVars, timer, rts,
                 fifo, tx_intr, tx_done, wire, rxkind, taskVars>>

TimerMabEnd ==
  LET n == Smaller(size, FifoLen - Len(fifo)) IN
  /\ timer /\ MayInterrupt
  /\ status = "sending" /\ progress # "in_break"
  /\ fifo' = fifo \o Slots(0, n)
  /\ head' = n
  /\ timer' = FALSE
  /\ tx_intr' = {"data", "done"}
  /\ UNCHANGED <<syncVars, status, progress, size, data, roleVars, rts,
                 tx_done, wire, inverted, rxkind, taskVars>>

-----------------------------------------------------------------------------
(* The UART and the transmit half of dmx_uart_isr() *)

TxDataPending == "data" \in tx_intr /\ Len(fifo) < FifoLen

\* Mutant: the end of the packet is taken from a FIFO that runs low.
LastSlotMutant == Len(fifo) <= FifoLen

\* The UART raises TX_DONE with the last slot of the FIFO.
LastSlot == Len(fifo) = 1

\* The UART puts a slot on the bus.
ShiftOut ==
  /\ fifo # <<>>
  /\ Len(fifo) > 1 \/ ~TxDataPending \/ LateIsr
  /\ wire' = IF Len(wire) < WireMax THEN Append(wire, Head(fifo)) ELSE wire
  /\ fifo' = Tail(fifo)
  /\ tx_done' = (tx_done \/ LastSlot)
  /\ UNCHANGED <<syncVars, dmxVars, timer, rts, tx_intr, inverted, rxkind,
                 taskVars>>

\* Mutant: off by one at the last slot.
TxIntrAfterMutant(h) == IF h > size THEN tx_intr \ {"data"} ELSE tx_intr

\* With the last slot written, the FIFO may drain.
TxIntrAfter(h) == IF h = size THEN tx_intr \ {"data"} ELSE tx_intr

TxData ==
  LET n == Smaller(size - head, FifoLen - Len(fifo)) IN
  /\ TxDataPending /\ MayInterrupt
  /\ fifo' = fifo \o Slots(head, n)
  /\ head' = head + n
  /\ tx_intr' = TxIntrAfter(head + n)
  /\ UNCHANGED <<syncVars, status, progress, size, data, roleVars, timer, rts,
                 tx_done, wire, inverted, rxkind, taskVars>>

ResponseExpected ==
  /\ is_controller /\ last_controller_pid # "none"
  /\ last_request_was_broadcast => last_controller_pid = "dub"

TxDone ==
  /\ "done" \in tx_intr /\ tx_done /\ ~TxDataPending /\ MayInterrupt
  /\ tx_intr' = {} /\ tx_done' = FALSE
  /\ status' = "idle"
  /\ Notify("ok")
  /\ rts' = IF ResponseExpected THEN 1 ELSE rts
  /\ progress' = IF ~ResponseExpected THEN "complete"
                 ELSE IF last_controller_pid = "dub" THEN "in_data" ELSE "stale"
  /\ head' = IF ~ResponseExpected THEN head
             ELSE IF last_controller_pid = "dub" THEN 0 ELSE -1
  /\ UNCHANGED <<mux, task_waiting, size, data, roleVars, timer, fifo, wire,
                 inverted, rxkind, taskVars>>

-----------------------------------------------------------------------------
(* The receive half of dmx_uart_isr(); other devices own the bus *)

InBuffer == head \in 0..PacketMax - 1

\* The head after n more slots: past the end of the buffer they only count.
HeadAfter(n) == IF InBuffer THEN Smaller(head + n, PacketMax)
                ELSE IF head > 0 THEN head + n ELSE head

\* What the buffer holds once it has h slots of a packet of this kind.
DataAfter(h, kind) == IF ~InBuffer THEN data
                      ELSE IF h >= PacketLen(kind) THEN kind ELSE "dmx"

\* A break, which the UART also delivers as a slot.
RxBreak(n) ==
  LET h == HeadAfter(n) IN
  /\ rts = 1 /\ MayInterrupt
  /\ IF progress = "in_data" /\ h > 0
     THEN size' = h - 1 /\ Notify("err")
     ELSE UNCHANGED <<size, notified>>
  /\ status' = "receiving"
  /\ progress' = "in_break"
  /\ head' = 0
  /\ data' = DataAfter(h - 1, IF head = 0 THEN "dmx" ELSE rxkind)
  /\ UNCHANGED <<mux, task_waiting, roleVars, hwVars, taskVars>>

\* A read that ends the wait for the packet.
Complete(value) ==
  /\ timer' = FALSE
  /\ progress' = "complete"
  /\ status' = "idle"
  /\ Notify(value)

\* A DMX packet is whole when the expected slots are there.
Whole(h, kind) == h >= IF IsRdm(kind) THEN PacketLen(kind) ELSE size

\* n slots of a packet whose kind is that of its first slots.
RxData(n, k) ==
  LET h == HeadAfter(n)
      kind == IF head = 0 THEN k ELSE rxkind
      receiving == progress \in {"in_break", "in_mab", "in_data"}
      complete == Whole(h, kind)
  IN
  /\ rts = 1 /\ MayInterrupt /\ head + n <= HeadMax
  /\ head' = h
  /\ rxkind' = kind
  /\ data' = DataAfter(h, kind)
  /\ last_controller_pid' =
       IF receiving /\ (~IsRdm(kind) \/ (complete /\ kind \in Requests))
       THEN PidOf(kind) ELSE last_controller_pid
  /\ IF receiving /\ complete THEN Complete("ok")
     ELSE /\ progress' = IF receiving THEN "in_data" ELSE progress
          /\ UNCHANGED <<timer, status, notified>>
  /\ UNCHANGED <<mux, task_waiting, size, is_controller,
                 last_request_was_broadcast, overtaken, rts, txVars, taskVars>>

\* A framing error or an overflow ends the packet.
RxError(n) ==
  LET h == HeadAfter(n) IN
  /\ rts = 1 /\ MayInterrupt /\ head + n <= HeadMax
  /\ head' = h
  /\ rxkind' = "dmx"
  /\ data' = DataAfter(h, "dmx")
  /\ IF progress \in {"in_break", "in_mab", "in_data"} THEN Complete("err")
     ELSE UNCHANGED <<timer, progress, status, notified>>
  /\ UNCHANGED <<mux, task_waiting, size, roleVars, rts, txVars, taskVars>>

-----------------------------------------------------------------------------
Init ==
  /\ mux = [owner |-> NoTask, depth |-> 0]
  /\ task_waiting = NoTask
  /\ notified = [t \in Tasks |-> "no"]
  /\ status = "idle" /\ progress = "stale" /\ head = -1 /\ size = PacketMax
  /\ data = "dmx"
  /\ is_controller = FALSE
  /\ last_controller_pid = "none" /\ last_request_was_broadcast = FALSE
  /\ overtaken = {}
  /\ timer = FALSE
  /\ rts = 1
  /\ inverted = FALSE /\ fifo = <<>> /\ tx_intr = {} /\ tx_done = FALSE
  /\ wire = <<>>
  /\ rxkind = "dmx"
  /\ pc = [t \in Tasks |-> "idle"]
  /\ caller = [t \in Tasks |-> "none"]
  /\ local = [t \in Tasks |-> NoLocals]

WriteNext(t) == \/ \E kind \in Kinds : WriteCall(t, kind)
                \/ WriteCheck(t) \/ WriteRts(t) \/ WriteCopy(t)

WaitSentNext(t) == \/ \E wait \in BOOLEAN : WaitSentCall(t, wait)
                   \/ WaitSentTake(t) \/ WaitSentNoTake(t) \/ WaitSentLateTake(t)
                   \/ WaitSentCheck(t) \/ WaitSentWake(t) \/ WaitSentClear(t)

SendNext(t) == \/ \E n \in Sizes : SendCall(t, n)
               \/ SendHeader(t) \/ \E elapsed \in Elapsed : SendAlarm(t, elapsed)
               \/ SendWake(t) \/ SendClear(t) \/ SendTurn(t) \/ SendGo(t)

ReceiveNext(t) == \/ \E want \in Sizes, wait \in BOOLEAN : ReceiveCall(t, want, wait)
                  \/ ReceiveLateTake(t) \/ ReceiveSent(t) \/ ReceiveTurn(t)
                  \/ ReceiveSize(t) \/ ReceiveLook(t) \/ ReceiveArm(t)
                  \/ \E elapsed \in Elapsed : ReceiveTimer(t, elapsed)
                  \/ ReceiveWake(t) \/ ReceiveClear(t) \/ ReceiveParse(t)

TimerIsr == TimerAlarm \/ TimerBreakEnd \/ TimerMabEnd
RxIsr    == \E n \in 1..FifoLen, k \in RxKinds : RxBreak(n) \/ RxError(n) \/ RxData(n, k)

TaskNext(t) == WriteNext(t) \/ WaitSentNext(t) \/ SendNext(t) \/ ReceiveNext(t)
Next == \/ \E t \in Tasks : TaskNext(t)
        \/ TimerIsr \/ ShiftOut \/ TxData \/ TxDone \/ RxIsr

Spec == Init /\ [][Next]_vars

\* Interrupts are served, the UART shifts, and a task inside a call is
\* scheduled; the semaphore hands itself to waiting tasks in turn.
Fairness ==
  /\ WF_vars(TimerIsr) /\ WF_vars(ShiftOut) /\ WF_vars(TxData) /\ WF_vars(TxDone)
  /\ \A t \in Tasks : /\ WF_vars(pc[t] # "idle" /\ TaskNext(t))
                       /\ SF_vars(WaitSentTake(t))

FairSpec == Spec /\ Fairness

-----------------------------------------------------------------------------
(* Properties *)

\* Type invariant, by part: each field of the driver, of the hardware and each
\* local of a task keeps to its range.
SyncType ==
  /\ mux \in [owner : Tasks \cup {NoTask}, depth : Int]
  /\ task_waiting \in Tasks \cup {NoTask}
  /\ notified \in [Tasks -> {"no", "ok", "err"}]
DmxType ==
  /\ status \in {"idle", "sending", "receiving"}
  /\ progress \in {"stale", "in_break", "in_mab", "in_data", "complete"}
  /\ head \in Int /\ size \in Int
  /\ data \in PacketKinds
  /\ is_controller \in BOOLEAN
  /\ last_controller_pid \in {"none", "dub", "other"}
  /\ last_request_was_broadcast \in BOOLEAN
  /\ overtaken \subseteq Tasks
HwType ==
  /\ timer \in BOOLEAN /\ rts \in {0, 1} /\ inverted \in BOOLEAN
  /\ fifo \in Seq(Int) /\ wire \in Seq(Int)
  /\ tx_intr \subseteq {"data", "done"} /\ tx_done \in BOOLEAN
  /\ rxkind \in PacketKinds
Locals == [wait : BOOLEAN, sent : BOOLEAN, kind : PacketKinds, num : Int,
           err : {"no", "ok", "err"}]
TaskType ==
  /\ pc \in [Tasks -> Labels]
  /\ caller \in [Tasks -> {"none", "send", "receive"}]
  /\ local \in [Tasks -> Locals]

\* Driver, hardware and tasks keep to their types, with and without
\* interrupts between their steps.
TypeOK == SyncType /\ DmxType /\ HwType /\ TaskType

\* How often a task has taken the mutex in the calls it is inside of.
Held(t) == (IF caller[t] = "none" THEN 0 ELSE 1)
           + (IF pc[t] \in {"ws_check", "ws_wait", "ws_clear"} THEN 1 ELSE 0)

\* A task between the take and the give of dmx_send_num, dmx_receive_num or
\* dmx_wait_sent owns the mutex as often as these calls nest (io.c).
MutexHeld ==
  \A t \in Tasks : Held(t) > 0 => mux.owner = t /\ mux.depth >= Held(t)

\* Every take is given back: the mutex is held exactly as often as the calls
\* in progress have taken it, and free when there are none (io.c:508, "Give
\* the mutex back and return").
MutexBalanced ==
  IF mux.owner = NoTask
  THEN mux.depth = 0 /\ \A t \in Tasks : Held(t) = 0
  ELSE mux.depth = Held(mux.owner) /\ mux.depth > 0

\* While a packet is sent, the slots on the bus and in the transmit FIFO are
\* the slots of one packet from the start code up to head, each once and in
\* order, whatever the interrupts of timer and UART and the tasks interleave.
FrameIntact ==
  status = "sending" => wire \o fifo = Slots(0, head) /\ head <= size

\* A packet reported as sent is on the bus to its last slot (uart.c:288).
SentEntirely == [][status = "sending" /\ status' # "sending"
                   => wire = Slots(0, size) /\ fifo = <<>>]_vars

\* The transceiver drives the bus for as long as a packet is sent, and the
\* line is only inverted while the timer runs that will end the break.
BusDriven == /\ status = "sending" => rts = 0
             /\ inverted => status = "sending" /\ timer

\* "The hardware timer should always notify the task" (io.c:374): nobody
\* waits for the alarm of dmx_send_num with no alarm and no notification.
AlarmNotifies == \A t \in Tasks : pc[t] = "s_wait" => timer \/ Notified(t)

\* Where a task waits for a notification, or has just had one.
Blocked == {"ws_wait", "ws_clear", "s_wait", "s_clear", "r_timer", "r_wait", "r_clear"}

\* The task that waits is the one that the interrupts notify (service.h:123):
\* a wait that ends was registered to its end, whatever other tasks did in the
\* meantime, and takes its registration with it.  The one way out that leaves
\* it behind is that of a controller too late for a response (io.c:226).
RegistrationEnds ==
  [][\A t \in Tasks : pc[t] \in Blocked /\ pc'[t] \notin Blocked
       => /\ task_waiting = t
          /\ task_waiting' = t => pc[t] = "r_timer" /\ pc'[t] = "idle"]_vars

\* No notification stays pending for a task that does not wait for it, where
\* it would end that task's next wait at once.
NoStaleNotification ==
  \A t \in Tasks : Notified(t) => pc[t] \in {"ws_wait", "s_wait", "r_timer", "r_wait"}

\* A task that dmx_wait_sent tells that the packet is sent finds the driver
\* done sending (driver.h:351).
WaitSentIsDone ==
  \A t \in Tasks : pc[t] = "ws_clear" /\ local[t].sent => status # "sending"

\* What is sent has a slot at least and stays within the packet buffer,
\* whatever size receivers asked for (io.c:165) or a break left (uart.c:87) in
\* the field that senders and receivers share.
SizeFits == status = "sending" => size \in 1..PacketMax

\* "Do not allow asynchronous writes while sending RDM" (io.c:82): what writes
\* over an RDM packet being sent is a task that looked before the packet was
\* begun, never one that looked later.
RdmNotOverwritten ==
  [][status = "sending" /\ IsRdm(data) =>
       /\ \A t \in Tasks : pc[t] = "w_copy" /\ pc'[t] = "idle" => t \in overtaken
       /\ data' # data => \E t \in Tasks : pc[t] = "w_copy" /\ pc'[t] = "idle"]_vars

\* The same comment taken at its word, without the exception.
NoWriteWhileSendingRdm == [][status = "sending" /\ IsRdm(data) => data' = data]_vars

\* A task does not block in dmx_receive_num for a packet that is complete
\* already (driver.h:271).
NoMissedPacket ==
  \A t \in Tasks : pc[t] = "r_wait" /\ ~Notified(t) /\ task_waiting = t
                   => progress # "complete"

\* The abstract line of DmxLine, as the driver and the UART implement it.
Line == INSTANCE DmxLine WITH
  phase <- IF status # "sending" THEN "idle"
           ELSE IF inverted THEN "break"
           ELSE IF tx_intr = {} THEN "mab" ELSE "data",
  len   <- IF status = "sending" THEN size ELSE 0,
  slots <- IF status = "sending" THEN wire ELSE <<>>

\* What tasks and interrupts do to the bus is to send whole packets, framed
\* and in order: the driver implements DmxLine.
SendsPackets == Line!Spec

\* Every packet that is started is eventually sent, and its break ends.
SendingEnds == status = "sending" ~> status # "sending"

\* Every call returns.
CallsReturn == \A t \in Tasks : pc[t] # "idle" ~> pc[t] = "idle"
=============================================================================
