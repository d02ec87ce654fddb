---------------------------- MODULE RdmExchange ----------------------------
(***************************************************************************)
(* RDM requests and their answers: tasks of a controller that call         *)
(* rdm_send_request() (rdm/controller/utils.c), and a responder that calls *)
(* dmx_receive() and rdm_send_response() (rdm/responder.c), over a bus     *)
(* that loses, truncates and garbles packets.  Each device has one buffer, *)
(* which its interrupt handler writes as well.                             *)
(*                                                                         *)
(* The buffer of the controller has three parts: the start code and the    *)
(* sub-start code, which all RDM packets share; the rest of what a request *)
(* covers; and what lies beyond.                                           *)
(***************************************************************************)
EXTENDS Integers, Sequences

CONSTANTS
  Tasks, NoTask,
  Uid,          \* the responder's
  Controller,   \* the controller's
  Everyone,     \* RDM_UID_BROADCAST_ALL
  Requests,     \* what the tasks ask, see Request
  Frame,        \* slots of a DMX packet
  Garbage,      \* slots of no packet
  Quiet,        \* nothing on the bus
  PortType,     \* the response type that the number of the port stands for
  TnCount,      \* transaction numbers: 256
  Preempted,    \* the responder may lose the processor while it answers
  CallMax,      \* bounds: requests of each task,
  FaultMax      \* and faults of the bus and delays

ASSUME ExchangeAssumption ==
  /\ NoTask \notin Tasks
  /\ Uid # Controller /\ Uid # Everyone /\ Controller # Everyone
  /\ \A r \in Requests : r.dest # Controller
  /\ PortType \in {"ACK_TIMER", "NACK", "ACK_OVERFLOW"}   \* ports 0, 1 and 2
  /\ TnCount \in Nat \ {0, 1} /\ CallMax \in Nat /\ FaultMax \in Nat

VARIABLES
  mux,       \* owner of the controller's driver
  buf,       \* its buffer: [start, rest, beyond]
  tn,        \* rdm.tn
  loc,       \* each task's locals
  line,      \* the packet on the bus
  rbuf,      \* the responder's buffer
  fresh,     \* progress: it holds a packet that was not looked at
  rat,       \* "receive", "answer" or "send"
  rheader,   \* header of the request that it answers
  late,      \* too much time has passed since the last packet
  held,      \* the responder's task keeps its mutex
  param,     \* values of the responder's parameters
  faults

controller == <<mux, buf, tn, loc>>
responder == <<rbuf, fresh, rat, rheader, late, held, param>>
vars == <<controller, line, responder, faults>>

-----------------------------------------------------------------------------
(* rdm/controller/device_control.c, dmx_setup.c, product_info.c *)

Request(dest, cc, pid, pdl, value) ==
  [dest |-> dest, cc |-> cc, pid |-> pid, pdl |-> pdl, value |-> value]

SendGetIdentifyDevice(dest) == Request(dest, "GET", "IDENTIFY_DEVICE", 0, 0)
SendSetIdentifyDevice(dest, on) == Request(dest, "SET", "IDENTIFY_DEVICE", 1, on)
SendGetDmxStartAddress(dest) == Request(dest, "GET", "DMX_START_ADDRESS", 0, 0)
SendSetDmxStartAddress(dest, n) == Request(dest, "SET", "DMX_START_ADDRESS", 2, n)
SendGetDeviceInfo(dest) == Request(dest, "GET", "DEVICE_INFO", 0, 0)
SendGetSoftwareVersionLabel(dest) == Request(dest, "GET", "SOFTWARE_VERSION_LABEL", 0, 0)

\* Lengths of the answers' parameter data.
Pdl == [IDENTIFY_DEVICE |-> 1, DMX_START_ADDRESS |-> 2, DEVICE_INFO |-> 19]

-----------------------------------------------------------------------------
(* Packets; rdm_write_ack(), rdm_write_nack_reason() *)

\* A request has the number of the port where an answer has its type.
Packet(src, r, number) ==
  [src |-> src, dest |-> r.dest, cc |-> r.cc, pid |-> r.pid, tn |-> number,
   type |-> PortType, pdl |-> r.pdl, value |-> r.value]

Response(h, type, pdl, value) ==
  [src |-> Uid, dest |-> h.src, cc |-> "RESPONSE", pid |-> h.pid, tn |-> h.tn,
   type |-> type, pdl |-> pdl, value |-> value]

AnswerTo(h) ==
  IF h.pid \notin DOMAIN param THEN Response(h, "NACK", 2, 0)
  ELSE IF h.cc = "GET" THEN Response(h, "ACK", Pdl[h.pid], param[h.pid])
  ELSE Response(h, "ACK", 0, 0)

Packets ==
  [src : {Uid, Controller}, dest : {Uid, Controller} \cup {r.dest : r \in Requests},
   cc : {"GET", "SET", "RESPONSE"}, pid : {r.pid : r \in Requests}, tn : 0..TnCount - 1,
   type : {"ACK", "ACK_TIMER", "NACK", "ACK_OVERFLOW"}, pdl : Nat, value : Nat]

ASSUME PacketAssumption ==
  /\ \A r \in Requests :
       /\ r = Request(r.dest, r.cc, r.pid, r.pdl, r.value)
       /\ r.cc \in {"GET", "SET"} /\ r.pdl \in Nat /\ r.value \in Nat
  /\ \A x \in {Frame, Garbage, Quiet} : x \notin Packets

IsPacket(x) == x \notin {Frame, Garbage, Quiet}
IsRequest(x) == IsPacket(x) /\ x.cc # "RESPONSE"

\* rdm_write(): the request takes the place of the slots that it covers.
Write(b, packet) == [b EXCEPT !.start = "rdm", !.rest = packet]

\* dmx_write() of the old data, which has the length of the request.
Restore(b, old) == [b EXCEPT !.start = old.start, !.rest = old.rest]

\* The interrupt handler stores what arrives: all slots, the two first, or some.
Stored(b, packet, part) ==
  IF ~IsPacket(packet) THEN [b EXCEPT !.start = "dmx", !.rest = packet]
  ELSE IF part = "start" THEN [b EXCEPT !.start = "rdm"]
  ELSE IF part = "some" THEN [b EXCEPT !.start = "rdm", !.rest = Garbage]
  ELSE [start |-> "rdm", rest |-> packet,
        beyond |-> IF packet.pdl > b.rest.pdl THEN "rdm" ELSE b.beyond]

\* rdm_read_header() succeeds.
HasHeader(b) == b.start = "rdm" /\ IsPacket(b.rest)

-----------------------------------------------------------------------------
(* rdm_send_request() *)

NoResult == [ret |-> 0, type |-> "NONE", got |-> Quiet]
Idle == [at |-> "idle", req |-> Quiet, tn |-> 0, old |-> Quiet, result |-> NoResult, calls |-> 0]

Goto(t, at) == loc' = [loc EXCEPT ![t].at = at]
At(t, at) == loc[t].at = at
Fault == faults < FaultMax /\ faults' = faults + 1

\* The request's answer is not waited for.
IsUnanswered(r) == r.dest = Everyone

Call(t) ==
  /\ At(t, "idle") /\ loc[t].calls < CallMax
  /\ \E r \in Requests : loc' = [loc EXCEPT ![t].at = "take", ![t].req = r, ![t].calls = @ + 1]
  /\ UNCHANGED <<mux, buf, tn, line, responder, faults>>

\* Mutant: a mutex that another task has is no obstacle.
TakeMuxMutant(t) ==
  /\ At(t, "take")
  /\ mux' = t
  /\ Goto(t, "wait_sent")
  /\ UNCHANGED <<buf, tn, line, responder, faults>>

\* The mutex is waited for as long as it takes.
TakeMux(t) ==
  /\ At(t, "take") /\ mux = NoTask
  /\ mux' = t
  /\ Goto(t, "wait_sent")
  /\ UNCHANGED <<buf, tn, line, responder, faults>>

\* A DMX packet is sent for more than 23 ms: the ack is left as it was.
GiveUp(t) ==
  /\ At(t, "wait_sent") /\ Fault
  /\ mux' = NoTask
  /\ loc' = [loc EXCEPT ![t].at = "back", ![t].result.ret = 0]
  /\ UNCHANGED <<buf, tn, line, responder>>

\* The old data are read, the request is written and sent.
Send(t) ==
  /\ At(t, "wait_sent") /\ line = Quiet
  /\ LET packet == Packet(Controller, loc[t].req, tn)
     IN /\ buf' = Write(buf, packet)
        /\ line' = packet
  /\ loc' = [loc EXCEPT ![t].at = "sent", ![t].tn = tn, ![t].old = buf]
  /\ tn' = (tn + 1) % TnCount
  /\ UNCHANGED <<mux, responder, faults>>

\* What every way out after that has in common.
Leave(t, b, result) ==
  /\ buf' = Restore(b, loc[t].old)
  /\ mux' = NoTask
  /\ loc' = [loc EXCEPT ![t].at = "back", ![t].old = Quiet, ![t].result = result]
  /\ UNCHANGED tn

\* dmx_send() fails if the driver was disabled.
SendFails(t) ==
  /\ At(t, "wait_sent") /\ Fault
  /\ mux' = NoTask
  /\ loc' = [loc EXCEPT ![t].at = "back", ![t].result = NoResult]
  /\ UNCHANGED <<buf, tn, line, responder>>

NotAwaited(t) ==
  /\ At(t, "listen") /\ IsUnanswered(loc[t].req)
  /\ Leave(t, buf, NoResult)
  /\ UNCHANGED <<line, responder, faults>>

\* The responder has a request that it may still answer in time.
Pending == (fresh \/ rat # "receive") /\ ~late

\* The alarm of dmx_receive() rings: the size is 0.
Alarm(t) ==
  /\ At(t, "listen") /\ ~IsUnanswered(loc[t].req)
  /\ line = Quiet /\ ~Pending
  /\ Leave(t, buf, NoResult)
  /\ UNCHANGED <<line, responder, faults>>

\* A packet arrives, or some of it until the alarm between slots rings.
Arrive(t) ==
  /\ At(t, "listen") /\ line # Quiet /\ ~IsUnanswered(loc[t].req)
  /\ \/ /\ buf' = Stored(buf, line, "all")
        /\ UNCHANGED faults
     \/ /\ Fault
        /\ \E part \in {"start", "some"} : buf' = Stored(buf, line, part)
  /\ line' = Quiet
  /\ Goto(t, "read")
  /\ UNCHANGED <<mux, tn, responder>>

\* Mutant: with a bad checksum the old data are not written back.
FinishMutant(t) ==
  /\ At(t, "read")
  /\ IF ~HasHeader(buf)
     THEN /\ mux' = NoTask
          /\ loc' = [loc EXCEPT ![t].at = "back", ![t].result = [NoResult EXCEPT !.type = "INVALID"]]
          /\ UNCHANGED <<buf, tn>>
     ELSE Leave(t, buf, [ret |-> IF buf.rest.type # "ACK" THEN 0
                                 ELSE IF buf.rest.pdl = 0 THEN 1 ELSE buf.rest.pdl,
                         type |-> buf.rest.type, got |-> buf.rest])
  /\ UNCHANGED <<line, responder, faults>>

\* Neither the transaction number, the source nor the PID are compared.
Finish(t) ==
  /\ At(t, "read")
  /\ IF ~HasHeader(buf) THEN Leave(t, buf, [NoResult EXCEPT !.type = "INVALID"])
     ELSE Leave(t, buf, [ret |-> IF buf.rest.type # "ACK" THEN 0
                                 ELSE IF buf.rest.pdl = 0 THEN 1 ELSE buf.rest.pdl,
                         type |-> buf.rest.type, got |-> buf.rest])
  /\ UNCHANGED <<line, responder, faults>>

\* The caller asks again if it may hope for an answer.
Back(t) ==
  /\ At(t, "back")
  /\ IF \/ loc[t].result.ret > 0 \/ loc[t].req.dest # Uid
        \/ loc[t].result.type = "NACK" /\ loc[t].req.pid \notin DOMAIN param
     THEN loc' = [loc EXCEPT ![t] = [Idle EXCEPT !.calls = loc[t].calls]]
     ELSE Goto(t, "take")
  /\ UNCHANGED <<mux, buf, tn, line, responder, faults>>

-----------------------------------------------------------------------------
(* The request on the bus *)

Unheard == UNCHANGED <<rbuf, fresh, late>>

\* The responder's handler stores it over whatever the buffer holds, also over
\* the answer that is written there; between these, the two get mixed up.
Heard ==
  \/ /\ rat # "answer" \/ Preempted
     /\ rbuf' = line /\ fresh' = TRUE /\ late' = FALSE
     /\ UNCHANGED faults
  \/ /\ rat = "answer"
     /\ rbuf' = Garbage /\ fresh' = FALSE
     /\ UNCHANGED <<late, faults>>
  \/ /\ Fault
     /\ rbuf' = Garbage /\ fresh' = FALSE
     /\ UNCHANGED late
  \/ Fault /\ Unheard

Sent(t) ==
  /\ At(t, "sent")
  /\ Heard
  /\ line' = Quiet
  /\ Goto(t, "listen")
  /\ UNCHANGED <<mux, buf, tn, rat, rheader, held, param>>

-----------------------------------------------------------------------------
(* dmx_receive() and rdm_send_response() *)

IsForMe(x) == IsPacket(x) /\ x.dest \in {Uid, Everyone}

\* Mutant: the mutex is not recursive.
ReceiveMutant ==
  /\ rat = "receive" /\ fresh /\ ~held
  /\ fresh' = FALSE
  /\ IF IsForMe(rbuf) THEN rat' = "answer" /\ rheader' = rbuf
     ELSE UNCHANGED <<rat, rheader>>
  /\ UNCHANGED <<controller, line, rbuf, late, held, param, faults>>

\* The mutex is taken, and given back if the packet is not for this device.
Receive ==
  /\ rat = "receive" /\ fresh
  /\ fresh' = FALSE
  /\ IF IsForMe(rbuf) THEN rat' = "answer" /\ rheader' = rbuf
     ELSE UNCHANGED <<rat, rheader>>
  /\ UNCHANGED <<controller, line, rbuf, late, held, param, faults>>

\* The handler of the parameter, which writes the answer, if only to a broadcast.
Answer ==
  /\ rat = "answer"
  /\ rbuf' = AnswerTo(rheader)
  /\ param' = IF rheader.cc = "SET" /\ rheader.pid \in DOMAIN param
              THEN [param EXCEPT ![rheader.pid] = rheader.value] ELSE param
  /\ IF rheader.dest = Everyone THEN rat' = "receive" /\ held' = TRUE
     ELSE rat' = "send" /\ UNCHANGED held
  /\ rheader' = Quiet
  /\ UNCHANGED <<controller, line, fresh, late, faults>>

\* Mutant: an answer is sent whenever it is ready.
RespondMutant ==
  /\ rat = "send" /\ line = Quiet
  /\ line' = rbuf /\ fresh' = FALSE
  /\ rat' = "receive" /\ held' = TRUE
  /\ UNCHANGED <<controller, rbuf, rheader, late, param, faults>>

\* dmx_send() looks at the buffer again: a request that came meanwhile is sent
\* as if it were this device's; an answer is sent if it is not too late.  After
\* a transmission dmx_receive() returns at once, with nothing.
Respond ==
  /\ rat = "send"
  /\ IF ~IsRequest(rbuf) /\ IsPacket(rbuf) /\ late THEN UNCHANGED <<line, fresh>>
     ELSE line = Quiet /\ line' = rbuf /\ fresh' = FALSE
  /\ rat' = "receive" /\ held' = TRUE
  /\ UNCHANGED <<controller, rbuf, rheader, late, param, faults>>

\* The task of the responder, or the program that calls it, is slow.
Delay ==
  /\ Pending /\ Fault
  /\ rat = "answer" => Preempted
  /\ late' = TRUE
  /\ UNCHANGED <<controller, line, rbuf, fresh, rat, rheader, held, param>>

\* Nobody listens: the controller's transceiver was turned around.
Vanish ==
  /\ line # Quiet
  /\ \A t \in Tasks : loc[t].at \notin {"sent", "listen"}
  /\ line' = Quiet
  /\ UNCHANGED <<controller, responder, faults>>

-----------------------------------------------------------------------------
Init ==
  /\ mux = NoTask /\ tn = 0 /\ line = Quiet
  /\ buf = [start |-> "dmx", rest |-> Frame, beyond |-> "dmx"]
  /\ loc = [t \in Tasks |-> Idle]
  /\ rbuf = Frame /\ fresh = FALSE /\ rat = "receive" /\ rheader = Quiet
  /\ late = FALSE /\ held = FALSE /\ faults = 0
  /\ param = [p \in DOMAIN Pdl |-> 0]

Ask(t) ==
  \/ Call(t) \/ TakeMux(t) \/ GiveUp(t) \/ Send(t) \/ SendFails(t) \/ Sent(t)
  \/ NotAwaited(t) \/ Alarm(t) \/ Arrive(t) \/ Finish(t) \/ Back(t)

Responder == Receive \/ Answer \/ Respond

Next == (\E t \in Tasks : Ask(t)) \/ Responder \/ Delay \/ Vanish

Spec == Init /\ [][Next]_vars

\* Tasks run when they can; one that waits for the mutex gets it in the end.
FairSpec ==
  /\ Spec /\ WF_vars(Responder) /\ WF_vars(Vanish)
  /\ \A t \in Tasks : WF_vars(Ask(t)) /\ SF_vars(TakeMux(t))

-----------------------------------------------------------------------------
(* Properties *)

\* One task is inside, and the buffer belongs to it; the rest is in its range.
TypeOK ==
  /\ mux \in Tasks \cup {NoTask}
  /\ \A t \in Tasks : mux = t <=> loc[t].at \in {"wait_sent", "sent", "listen", "read"}
  /\ tn \in 0..TnCount - 1 /\ faults \in 0..FaultMax
  /\ rat \in {"receive", "answer", "send"}
  /\ buf.start \in {"dmx", "rdm"} /\ buf.beyond \in {"dmx", "rdm"}

\* A call that succeeds has the answer to its own request, although nothing in
\* the answer is compared with it (utils.c:113-161): answers that are too late
\* are not sent (io.c:379-385), and a call waits for as long as one may come.
AnswersMatch ==
  \A t \in Tasks :
    At(t, "back") /\ loc[t].result.ret > 0 =>
      LET got == loc[t].result.got
      IN got.src = loc[t].req.dest /\ got.pid = loc[t].req.pid /\ got.tn = loc[t].tn

\* Whatever way a call ends, its request and the answer in its place are gone
\* from the buffer that the next DMX packet is sent from (utils.c:62-165).
RequestRemoved == mux = NoTask => buf.start = "dmx" /\ buf.rest = Frame

\* "Write the old data from before the request back into the DMX driver"
\* (utils.c:164): the buffer is what it was before the call.
DataRestored == mux = NoTask => buf.start = "dmx" /\ buf.rest = Frame /\ buf.beyond = "dmx"

\* A caller that asks again gets through: every way out gives the mutex back,
\* and the responder goes on although it keeps its own (responder.c:18, 144).
CallsSucceed == \A t \in Tasks : ~At(t, "idle") ~> At(t, "idle")
=============================================================================
