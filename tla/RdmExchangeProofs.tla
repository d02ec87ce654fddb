------------------------- MODULE RdmExchangeProofs -------------------------
(***************************************************************************)
(* Theorems about RDM requests for any number of tasks and of faults: who  *)
(* is inside, what a call leaves in the buffer, and that a call which      *)
(* succeeds has the answer to its own request.                             *)
(***************************************************************************)
EXTENDS RdmExchange, TLAPS

Inside == {"wait_sent", "sent", "listen", "read"}

Slots == Packets \cup {Frame, Garbage, Quiet}

Buffers == [start : {"dmx", "rdm"}, rest : Slots, beyond : {"dmx", "rdm"}]

ResultTypes == {"NONE", "INVALID", "ACK", "ACK_TIMER", "NACK", "ACK_OVERFLOW"}
Results == [ret : Nat, type : ResultTypes, got : Slots]

Locals ==
  [at : {"idle", "take", "back"} \cup Inside, req : Requests \cup {Quiet},
   tn : 0..TnCount - 1, old : Buffers \cup {Quiet},
   result : Results, calls : Nat]

\* A call that is not over has a request; who has the driver is inside.
CallInv ==
  /\ loc \in [Tasks -> Locals]
  /\ mux \in Tasks \cup {NoTask}
  /\ \A t \in Tasks : mux = t <=> loc[t].at \in Inside
  /\ \A t \in Tasks : loc[t].at # "idle" => loc[t].req \in Requests

BusTypes ==
  /\ buf \in Buffers /\ line \in Slots
  /\ tn \in 0..TnCount - 1 /\ faults \in 0..FaultMax

AnswerTypes ==
  /\ rbuf \in Slots /\ fresh \in BOOLEAN /\ rat \in {"receive", "answer", "send"}
  /\ rheader \in Slots /\ late \in BOOLEAN
  /\ param \in [DOMAIN Pdl -> Nat]
  /\ rat = "answer" => rheader \in Packets /\ rheader.dest \in {Uid, Everyone}

Types == CallInv /\ BusTypes /\ AnswerTypes

Clean(b) == b.start = "dmx" /\ b.rest = Frame

\* Until the request is written the buffer is clean, and from then on the copy
\* of it is that the caller will write back.
Borrowed ==
  /\ mux = NoTask => Clean(buf)
  /\ \A t \in Tasks :
       /\ At(t, "wait_sent") => Clean(buf)
       /\ loc[t].at \in {"sent", "listen", "read"} => loc[t].old \in Buffers /\ Clean(loc[t].old)

-----------------------------------------------------------------------------
(* Whose answer it is *)

Asked(t) == Packet(Controller, loc[t].req, loc[t].tn)
Belongs(x, t) == x.pid = loc[t].req.pid /\ x.tn = loc[t].tn /\ loc[t].req.dest = Uid
Answers(x, t) == x.src = Uid /\ Belongs(x, t)
IsAck(x) == IsPacket(x) /\ x.type = "ACK"

\* The task that asked still listens.
Waiting(x) == line = Quiet /\ \E t \in Tasks : At(t, "listen") /\ Belongs(x, t)

\* Nothing that a listener may take for an answer is that of another request.
AskInv(t) ==
  /\ At(t, "sent") => line = Asked(t)
  /\ loc[t].at \in {"sent", "listen"} => buf.rest = Asked(t)
  /\ At(t, "listen") /\ line # Quiet =>
       rat = "receive" /\ ~fresh /\ (IsAck(line) => Answers(line, t))
  /\ At(t, "read") /\ HasHeader(buf) /\ buf.rest.type = "ACK" => Answers(buf.rest, t)

IsOwn(x) == x \in Packets /\ x.cc # "RESPONSE" /\ x.type = PortType
IsAnswer(x) == x \in Packets /\ x.cc = "RESPONSE" /\ x.src = Uid

\* What the responder may still answer in time is waited for.
RespondInv ==
  /\ fresh => rat # "answer" /\ IsOwn(rbuf)
  /\ rat = "receive" /\ fresh /\ ~late /\ rbuf.dest = Uid => Waiting(rbuf)
  /\ rat = "answer" => IsOwn(rheader) /\ (~late /\ rheader.dest = Uid => Waiting(rheader))
  /\ rat = "send" => \/ IsOwn(rbuf) \/ rbuf \in {Frame, Garbage, Quiet}
                     \/ IsAnswer(rbuf) /\ (~late => Waiting(rbuf))

MatchInv == (\A t \in Tasks : AskInv(t)) /\ RespondInv /\ AnswersMatch

-----------------------------------------------------------------------------
(* One task's step *)

\* The locals of a task may change in any way that agrees with the mutex.
LEMMA TaskMoves ==
  ASSUME CallInv, NEW t \in Tasks, NEW l \in Locals, loc' = [loc EXCEPT ![t] = l],
         l.at # "idle" => l.req \in Requests,
         \/ mux' = mux /\ (l.at \in Inside <=> loc[t].at \in Inside)
         \/ mux = NoTask /\ mux' = t /\ l.at \in Inside
         \/ mux = t /\ mux' = NoTask /\ l.at \notin Inside
  PROVE  /\ CallInv' /\ loc'[t] = l
         /\ \A u \in Tasks : u # t => loc'[u] = loc[u]
<1>1. /\ loc' \in [Tasks -> Locals] /\ loc'[t] = l
      /\ \A u \in Tasks : u # t => loc'[u] = loc[u]
  BY DEF CallInv
<1>2. mux' \in Tasks \cup {NoTask}
  BY DEF CallInv
<1>3. ASSUME NEW u \in Tasks PROVE mux' = u <=> loc'[u].at \in Inside
  BY <1>1, <1>3, ExchangeAssumption DEF CallInv
<1>4. \A u \in Tasks : loc'[u].at # "idle" => loc'[u].req \in Requests
  BY <1>1 DEF CallInv
<1>5. QED
  BY <1>1, <1>2, <1>3, <1>4 DEF CallInv

\* The locals of a task, part by part.
LEMMA LocalsOf ==
  ASSUME CallInv, NEW t \in Tasks
  PROVE  /\ loc[t] \in Locals
         /\ loc[t] = [at |-> loc[t].at, req |-> loc[t].req, tn |-> loc[t].tn,
                      old |-> loc[t].old, result |-> loc[t].result, calls |-> loc[t].calls]
         /\ loc[t].at \in {"idle", "take", "back"} \cup Inside
         /\ loc[t].req \in Requests \cup {Quiet} /\ loc[t].tn \in 0..TnCount - 1
         /\ loc[t].old \in Buffers \cup {Quiet}
         /\ loc[t].result \in Results
         /\ loc[t].calls \in Nat
<1>1. loc[t] \in Locals
  BY DEF CallInv
<1>2. QED
  BY <1>1 DEF Locals

LEMMA GotoMoves ==
  ASSUME CallInv, NEW t \in Tasks, NEW at \in {"take", "back"} \cup Inside, Goto(t, at),
         loc[t].at # "idle",
         \/ mux' = mux /\ (at \in Inside <=> loc[t].at \in Inside)
         \/ mux = NoTask /\ mux' = t /\ at \in Inside
  PROVE  /\ CallInv' /\ loc'[t] = [loc[t] EXCEPT !.at = at]
         /\ \A u \in Tasks : u # t => loc'[u] = loc[u]
<1> DEFINE l == [loc[t] EXCEPT !.at = at]
<1>1. loc' = [loc EXCEPT ![t] = l]
  BY DEF Goto
<1>2. l \in Locals /\ l.at = at /\ l.req = loc[t].req
  BY LocalsOf DEF Locals
<1>3. l.at # "idle" => l.req \in Requests
  BY <1>2 DEF CallInv
<1> HIDE DEF l
<1>4. CallInv' /\ loc'[t] = l /\ \A u \in Tasks : u # t => loc'[u] = loc[u]
  BY <1>1, <1>2, <1>3, TaskMoves
<1>5. QED
  BY <1>4 DEF l

LEMMA CallMoves ==
  ASSUME CallInv, NEW t \in Tasks, Call(t)
  PROVE  /\ CallInv' /\ loc'[t].at = "take"
         /\ \A u \in Tasks : u # t => loc'[u] = loc[u]
<1>1. PICK r \in Requests :
        loc' = [loc EXCEPT ![t].at = "take", ![t].req = r, ![t].calls = @ + 1]
  BY DEF Call
<1> DEFINE l == [loc[t] EXCEPT !.at = "take", !.req = r, !.calls = @ + 1]
<1>2. l \in Locals /\ l.at = "take" /\ l.req \in Requests
  <2>1. loc[t].calls \in Nat
    BY LocalsOf
  <2>2. loc[t].calls + 1 \in Nat
    BY <2>1
  <2>3. QED
    BY <2>2, LocalsOf DEF Locals
<1>3. loc' = [loc EXCEPT ![t] = l]
  BY <1>1 DEF CallInv
<1> HIDE DEF l
<1>4. mux' = mux /\ (l.at \in Inside <=> loc[t].at \in Inside)
  BY <1>2 DEF Call, At, Inside
<1>5. QED
  BY <1>2, <1>3, <1>4, TaskMoves

LEMMA SendMoves ==
  ASSUME CallInv, tn \in 0..TnCount - 1, buf \in Buffers, NEW t \in Tasks, Send(t)
  PROVE  /\ CallInv' /\ loc'[t].at = "sent" /\ loc'[t].req = loc[t].req
         /\ loc'[t].tn = tn /\ loc'[t].old = buf
         /\ \A u \in Tasks : u # t => loc'[u] = loc[u]
<1> DEFINE l == [loc[t] EXCEPT !.at = "sent", !.tn = tn, !.old = buf]
<1>1. l \in Locals /\ l.at = "sent" /\ l.req = loc[t].req /\ l.tn = tn /\ l.old = buf
  BY LocalsOf DEF Locals, Inside
<1>2. loc' = [loc EXCEPT ![t] = l]
  <2>1. loc' = [loc EXCEPT ![t].at = "sent", ![t].tn = tn, ![t].old = buf]
    BY DEF Send
  <2>2. QED
    BY <2>1 DEF CallInv
<1> HIDE DEF l
<1>3. mux' = mux /\ (l.at \in Inside <=> loc[t].at \in Inside)
  BY <1>1 DEF Send, At, Inside
<1>4. l.req \in Requests
  BY <1>1 DEF Send, At, CallInv
<1>5. QED
  BY <1>1, <1>2, <1>3, <1>4, TaskMoves

LEMMA LeaveMoves ==
  ASSUME CallInv, NEW t \in Tasks, NEW b, NEW result, Leave(t, b, result),
         result \in Results,
         loc[t].at \in Inside
  PROVE  /\ CallInv' /\ loc'[t].at = "back" /\ loc'[t].req = loc[t].req
         /\ loc'[t].tn = loc[t].tn /\ loc'[t].result = result
         /\ \A u \in Tasks : u # t => loc'[u] = loc[u]
<1> DEFINE l == [loc[t] EXCEPT !.at = "back", !.old = Quiet, !.result = result]
<1>1. /\ l \in Locals /\ l.at = "back" /\ l.req = loc[t].req /\ l.tn = loc[t].tn
      /\ l.result = result
  BY LocalsOf DEF Locals
<1>2. loc' = [loc EXCEPT ![t] = l]
  <2>1. loc' = [loc EXCEPT ![t].at = "back", ![t].old = Quiet, ![t].result = result]
    BY DEF Leave
  <2>2. QED
    BY <2>1 DEF CallInv
<1> HIDE DEF l
<1>3. mux = t /\ mux' = NoTask /\ l.at \notin Inside
  BY <1>1 DEF Leave, CallInv, Inside
<1>4. l.req \in Requests
  BY <1>1 DEF CallInv, Inside
<1>5. QED
  BY <1>1, <1>2, <1>3, <1>4, TaskMoves

\* The ways out before anything was sent
LEMMA QuitMoves ==
  ASSUME CallInv, NEW t \in Tasks, GiveUp(t) \/ SendFails(t)
  PROVE  /\ CallInv' /\ loc'[t].at = "back" /\ loc'[t].result.ret = 0
         /\ \A u \in Tasks : u # t => loc'[u] = loc[u]
<1> DEFINE quit(r) == [loc[t] EXCEPT !.at = "back", !.result = r]
<1>1. PICK r \in Results :
        r.ret = 0 /\ loc' = [loc EXCEPT ![t] = quit(r)]
  <2>1. CASE GiveUp(t)
    <3> DEFINE r == [loc[t].result EXCEPT !.ret = 0]
    <3>1. r \in Results /\ r.ret = 0
      BY LocalsOf DEF Results
    <3>2. loc' = [loc EXCEPT ![t].at = "back", ![t].result.ret = 0]
      BY <2>1 DEF GiveUp
    <3>3. loc' = [loc EXCEPT ![t] = quit(r)]
      BY <3>2 DEF CallInv
    <3>4. QED
      BY <3>1, <3>3
  <2>2. CASE SendFails(t)
    <3>1. NoResult \in Results /\ NoResult.ret = 0
      BY DEF NoResult, Slots, Results, ResultTypes
    <3>2. loc' = [loc EXCEPT ![t].at = "back", ![t].result = NoResult]
      BY <2>2 DEF SendFails
    <3>3. loc' = [loc EXCEPT ![t] = quit(NoResult)]
      BY <3>2 DEF CallInv
    <3>4. QED
      BY <3>1, <3>3
  <2>3. QED
    BY <2>1, <2>2
<1> DEFINE l == quit(r)
<1>2. l \in Locals /\ l.at = "back" /\ l.req = loc[t].req /\ l.result.ret = 0
  BY <1>1, LocalsOf DEF Locals
<1> HIDE DEF l
<1>3. mux = t /\ mux' = NoTask /\ l.at \notin Inside /\ l.req \in Requests
  BY <1>2 DEF GiveUp, SendFails, At, CallInv, Inside
<1>4. loc' = [loc EXCEPT ![t] = l]
  BY <1>1 DEF l
<1>5. QED
  BY <1>2, <1>3, <1>4, TaskMoves

LEMMA BackMoves ==
  ASSUME CallInv, NEW t \in Tasks, Back(t)
  PROVE  /\ CallInv' /\ loc'[t].at \in {"idle", "take"}
         /\ \A u \in Tasks : u # t => loc'[u] = loc[u]
<1>1. CASE Goto(t, "take")
  <2>1. loc[t].at = "back" /\ mux' = mux
    BY DEF Back, At
  <2>2. CallInv' /\ loc'[t] = [loc[t] EXCEPT !.at = "take"] /\ \A u \in Tasks : u # t => loc'[u] = loc[u]
    BY <1>1, <2>1, GotoMoves DEF Inside
  <2>3. QED
    BY <2>2, LocalsOf
<1>2. CASE loc' = [loc EXCEPT ![t] = [Idle EXCEPT !.calls = loc[t].calls]]
  <2> DEFINE l == [Idle EXCEPT !.calls = loc[t].calls]
  <2>1. 0 \in 0..TnCount - 1
    BY ExchangeAssumption
  <2>2. l \in Locals /\ l.at = "idle"
    BY <2>1, LocalsOf DEF Idle, NoResult, Locals, Results, ResultTypes, Slots
  <2> HIDE DEF l
  <2>3. mux' = mux /\ (l.at \in Inside <=> loc[t].at \in Inside)
    BY <2>2 DEF Back, At, Inside
  <2>4. loc' = [loc EXCEPT ![t] = l]
    BY <1>2 DEF l
  <2>5. QED
    BY <2>2, <2>3, <2>4, TaskMoves
<1>3. QED
  BY <1>1, <1>2 DEF Back

-----------------------------------------------------------------------------
(* Packets and buffers *)

LEMMA PacketIs ==
  /\ \A x \in Packets : IsPacket(x)
  /\ \A x \in Slots : IsPacket(x) => x \in Packets
<1>1. \A x \in Packets : x # Frame /\ x # Garbage /\ x # Quiet
  BY PacketAssumption
<1>2. QED
  BY <1>1 DEF IsPacket, Slots

\* A request is a packet that no listener takes for an answer.
LEMMA RequestIsOwn ==
  ASSUME NEW r \in Requests, NEW n \in 0..TnCount - 1
  PROVE  LET p == Packet(Controller, r, n) IN
         /\ IsOwn(p) /\ p \in Slots
         /\ p.src = Controller /\ p.dest = r.dest /\ p.pid = r.pid /\ p.tn = n
<1> DEFINE p == Packet(Controller, r, n)
<1>1. r.cc \in {"GET", "SET"} /\ r.pdl \in Nat /\ r.value \in Nat
  BY PacketAssumption
<1>2. PortType \in {"ACK_TIMER", "NACK", "ACK_OVERFLOW"}
  BY ExchangeAssumption
<1>3. p = [src |-> Controller, dest |-> r.dest, cc |-> r.cc, pid |-> r.pid, tn |-> n,
           type |-> PortType, pdl |-> r.pdl, value |-> r.value]
  BY DEF Packet
<1>4. p \in Packets
  BY <1>1, <1>2, <1>3 DEF Packets
<1>5. p.cc # "RESPONSE" /\ p.type = PortType
  BY <1>1, <1>3
<1>6. p.src = Controller /\ p.dest = r.dest /\ p.pid = r.pid /\ p.tn = n
  BY <1>3
<1> HIDE DEF p
<1>7. IsOwn(p) /\ p \in Slots
  BY <1>4, <1>5 DEF IsOwn, Slots
<1>8. QED
  BY <1>6, <1>7 DEF p

\* The handler's answer bears the PID and the transaction number of the request.
LEMMA AnswerIsAnswer ==
  ASSUME NEW h \in Packets, param \in [DOMAIN Pdl -> Nat]
  PROVE  /\ IsAnswer(AnswerTo(h)) /\ AnswerTo(h) \in Slots
         /\ AnswerTo(h).pid = h.pid /\ AnswerTo(h).tn = h.tn
<1>1. h.src \in {Uid, Controller} /\ h.pid \in {r.pid : r \in Requests} /\ h.tn \in 0..TnCount - 1
  BY DEF Packets
<1>2. ASSUME NEW type \in {"ACK", "NACK"}, NEW pdl \in Nat, NEW value \in Nat
      PROVE  LET a == Response(h, type, pdl, value) IN
             a \in Packets /\ a.cc = "RESPONSE" /\ a.src = Uid /\ a.pid = h.pid /\ a.tn = h.tn
  <2> DEFINE a == Response(h, type, pdl, value)
  <2>1. a = [src |-> Uid, dest |-> h.src, cc |-> "RESPONSE", pid |-> h.pid, tn |-> h.tn,
             type |-> type, pdl |-> pdl, value |-> value]
    BY DEF Response
  <2>2. a \in Packets
    BY <1>1, <1>2, <2>1 DEF Packets
  <2>3. a.cc = "RESPONSE" /\ a.src = Uid /\ a.pid = h.pid /\ a.tn = h.tn
    BY <2>1
  <2>4. QED
    BY <2>2, <2>3
<1>3. \A p \in DOMAIN param : param[p] \in Nat /\ Pdl[p] \in Nat
  BY DEF Pdl
<1> DEFINE Good(a) == a \in Packets /\ a.cc = "RESPONSE" /\ a.src = Uid /\ a.pid = h.pid /\ a.tn = h.tn
<1>4. Good(AnswerTo(h))
  <2>1. CASE h.pid \notin DOMAIN param
    BY <1>2, <2>1 DEF AnswerTo
  <2>2. CASE h.pid \in DOMAIN param /\ h.cc = "GET"
    <3>1. Pdl[h.pid] \in Nat /\ param[h.pid] \in Nat
      BY <1>3, <2>2
    <3>2. AnswerTo(h) = Response(h, "ACK", Pdl[h.pid], param[h.pid])
      BY <2>2 DEF AnswerTo
    <3>3. QED
      BY <1>2, <3>1, <3>2
  <2>3. CASE h.pid \in DOMAIN param /\ h.cc # "GET"
    BY <1>2, <2>3 DEF AnswerTo
  <2>4. QED
    BY <2>1, <2>2, <2>3
<1>5. QED
  BY <1>4 DEF IsAnswer, Slots

\* What writing, restoring and storing make of a buffer.
LEMMA BuffersKept ==
  ASSUME NEW b \in Buffers, NEW x \in Slots
  PROVE  /\ Write(b, x) \in Buffers /\ Write(b, x).rest = x
         /\ \A old \in Buffers : /\ Restore(b, old) \in Buffers
                                 /\ Clean(old) => Clean(Restore(b, old))
         /\ \A part \in {"all", "start", "some"} : Stored(b, x, part) \in Buffers
<1>1. Write(b, x) \in Buffers /\ Write(b, x).rest = x
  BY DEF Write, Buffers
<1>2. ASSUME NEW old \in Buffers
      PROVE  Restore(b, old) \in Buffers /\ (Clean(old) => Clean(Restore(b, old)))
  BY <1>2 DEF Restore, Buffers, Clean
<1>3. Garbage \in Slots
  BY DEF Slots
<1>4. ASSUME NEW part \in {"all", "start", "some"} PROVE Stored(b, x, part) \in Buffers
  BY <1>3, <1>4 DEF Stored, Buffers
<1>5. QED
  BY <1>1, <1>2, <1>4

-----------------------------------------------------------------------------
(* Types, and the buffer that is given back clean *)

SafeInv == Types /\ Borrowed

LEMMA BorrowedMoves ==
  ASSUME CallInv, CallInv', Borrowed, NEW t \in Tasks,
         \A u \in Tasks : u # t => loc'[u] = loc[u],
         buf' = buf \/ mux = t,
         mux' = NoTask => Clean(buf'),
         loc'[t].at = "wait_sent" => Clean(buf'),
         loc'[t].at \in {"sent", "listen", "read"} => loc'[t].old \in Buffers /\ Clean(loc'[t].old)
  PROVE  Borrowed'
<1>1. ASSUME NEW u \in Tasks, u # t, loc[u].at \in Inside PROVE buf' = buf
  BY <1>1, ExchangeAssumption DEF CallInv
<1>2. QED
  BY <1>1 DEF Borrowed, Clean, At, Inside

LEMMA FaultsCounted ==
  ASSUME faults \in 0..FaultMax, faults' = faults \/ Fault
  PROVE  faults' \in 0..FaultMax
<1>1. FaultMax \in Nat
  BY ExchangeAssumption
<1>2. QED
  BY <1>1 DEF Fault

LEMMA InitSafe == Init => SafeInv
<1> SUFFICES ASSUME Init PROVE SafeInv
  OBVIOUS
<1>1. 0 \in 0..TnCount - 1 /\ 0 \in 0..FaultMax
  BY ExchangeAssumption
<1>2. Idle \in Locals /\ Idle.at = "idle"
  BY <1>1 DEF Idle, NoResult, Locals, Results, ResultTypes, Slots
<1>3. loc = [t \in Tasks |-> Idle]
  BY DEF Init
<1>4. CallInv
  BY <1>2, <1>3, ExchangeAssumption DEF Init, CallInv, Inside
<1>5. BusTypes
  BY <1>1 DEF Init, BusTypes, Buffers, Slots
<1>6. AnswerTypes
  BY DEF Init, AnswerTypes, Slots
<1>7. Borrowed
  BY <1>2, <1>3 DEF Init, Borrowed, Clean, At
<1>8. QED
  BY <1>4, <1>5, <1>6, <1>7 DEF SafeInv, Types

\* The steps of a task that leave the buffer and the bus alone
LEMMA QuietSafe ==
  ASSUME SafeInv, NEW t \in Tasks,
         Call(t) \/ TakeMux(t) \/ GiveUp(t) \/ SendFails(t) \/ Back(t)
  PROVE  SafeInv'
<1>1. UNCHANGED <<buf, tn, line, rbuf, fresh, rat, rheader, late, held, param>>
  BY DEF Call, TakeMux, GiveUp, SendFails, Back, responder
<1>2. faults' \in 0..FaultMax
  <2>1. faults' = faults \/ Fault
    BY DEF Call, TakeMux, GiveUp, SendFails, Back
  <2>2. QED
    BY <2>1, FaultsCounted DEF SafeInv, Types, BusTypes
<1>3. BusTypes' /\ AnswerTypes'
  BY <1>1, <1>2 DEF SafeInv, Types, BusTypes, AnswerTypes
<1>4. CallInv /\ Borrowed
  BY DEF SafeInv, Types
<1>5. CASE Call(t) \/ Back(t)
  <2>1. /\ CallInv' /\ loc'[t].at \in {"idle", "take"} /\ mux' = mux
        /\ \A u \in Tasks : u # t => loc'[u] = loc[u]
    BY <1>4, <1>5, CallMoves, BackMoves DEF Call, Back
  <2>2. Borrowed'
    BY <1>1, <1>4, <2>1, BorrowedMoves DEF Borrowed, Clean
  <2>3. QED
    BY <1>3, <2>1, <2>2 DEF SafeInv, Types
<1>6. CASE GiveUp(t) \/ SendFails(t)
  <2>1. /\ CallInv' /\ loc'[t].at = "back"
        /\ \A u \in Tasks : u # t => loc'[u] = loc[u]
    BY <1>4, <1>6, QuitMoves
  <2>2. Clean(buf)
    BY <1>4, <1>6 DEF Borrowed, GiveUp, SendFails
  <2>3. Borrowed'
    BY <1>1, <1>4, <2>1, <2>2, BorrowedMoves DEF Clean
  <2>4. QED
    BY <1>3, <2>1, <2>3 DEF SafeInv, Types
<1>7. CASE TakeMux(t)
  <2>1. /\ loc[t].at = "take" /\ mux = NoTask /\ mux' = t /\ Goto(t, "wait_sent")
    BY <1>7 DEF TakeMux, At
  <2>2. /\ CallInv' /\ loc'[t] = [loc[t] EXCEPT !.at = "wait_sent"]
        /\ \A u \in Tasks : u # t => loc'[u] = loc[u]
    BY <1>4, <2>1, GotoMoves DEF Inside
  <2>3. loc'[t].at = "wait_sent"
    BY <1>4, <2>2, LocalsOf
  <2>4. Borrowed'
    BY <1>1, <1>4, <2>1, <2>2, <2>3, BorrowedMoves DEF Borrowed, Clean
  <2>5. QED
    BY <1>3, <2>2, <2>4 DEF SafeInv, Types
<1>8. QED
  BY <1>5, <1>6, <1>7

\* The request takes the place of the old data, which the task keeps.
LEMMA SendSafe ==
  ASSUME SafeInv, NEW t \in Tasks, Send(t)
  PROVE  SafeInv'
<1>1. CallInv /\ Borrowed /\ buf \in Buffers /\ tn \in 0..TnCount - 1
  BY DEF SafeInv, Types, BusTypes
<1>2. loc[t].at = "wait_sent" /\ Clean(buf) /\ mux = t /\ loc[t].req \in Requests
  BY <1>1 DEF Send, At, Borrowed, CallInv, Inside
<1> DEFINE p == Packet(Controller, loc[t].req, tn)
<1>3. p \in Slots
  BY <1>1, <1>2, RequestIsOwn
<1>4. /\ buf' = Write(buf, p) /\ line' = p /\ tn' = (tn + 1) % TnCount /\ mux' = mux
      /\ UNCHANGED <<faults, rbuf, fresh, rat, rheader, late, param>>
  BY DEF Send, responder
<1> HIDE DEF p
<1>5. tn' \in 0..TnCount - 1
  BY <1>1, <1>4, ExchangeAssumption
<1>6. BusTypes' /\ AnswerTypes'
  BY <1>1, <1>3, <1>4, <1>5, BuffersKept DEF SafeInv, Types, BusTypes, AnswerTypes
<1>7. /\ CallInv' /\ loc'[t].at = "sent" /\ loc'[t].old = buf
      /\ \A u \in Tasks : u # t => loc'[u] = loc[u]
  BY <1>1, SendMoves
<1>8. mux' # NoTask
  BY <1>2, <1>4, ExchangeAssumption
<1>9. Borrowed'
  BY <1>1, <1>2, <1>7, <1>8, BorrowedMoves
<1>10. QED
  BY <1>6, <1>7, <1>9 DEF SafeInv, Types

\* Every way out restores what the task kept.
LEMMA LeaveSafe ==
  ASSUME SafeInv, NEW t \in Tasks, NEW result \in Results, Leave(t, buf, result),
         loc[t].at \in {"listen", "read"},
         UNCHANGED <<line, responder, faults>>
  PROVE  SafeInv'
<1>1. CallInv /\ Borrowed /\ buf \in Buffers
  BY DEF SafeInv, Types, BusTypes
<1>2. loc[t].old \in Buffers /\ Clean(loc[t].old) /\ mux = t
  BY <1>1 DEF Borrowed, CallInv, Inside
<1>3. buf' = Restore(buf, loc[t].old) /\ tn' = tn
  BY DEF Leave
<1>4. line \in Slots
  BY DEF SafeInv, Types, BusTypes
<1>5. buf' \in Buffers /\ Clean(buf')
  BY <1>1, <1>2, <1>3, <1>4, BuffersKept
<1>6. BusTypes' /\ AnswerTypes'
  BY <1>3, <1>5 DEF SafeInv, Types, BusTypes, AnswerTypes, responder
<1>7. /\ CallInv' /\ loc'[t].at = "back"
      /\ \A u \in Tasks : u # t => loc'[u] = loc[u]
  BY <1>1, LeaveMoves DEF Inside
<1>8. Borrowed'
  BY <1>1, <1>2, <1>5, <1>7, BorrowedMoves
<1>9. QED
  BY <1>6, <1>7, <1>8 DEF SafeInv, Types

\* The result of a call that read something
Read ==
  IF ~HasHeader(buf) THEN [NoResult EXCEPT !.type = "INVALID"]
  ELSE [ret |-> IF buf.rest.type # "ACK" THEN 0 ELSE IF buf.rest.pdl = 0 THEN 1 ELSE buf.rest.pdl,
        type |-> buf.rest.type, got |-> buf.rest]

LEMMA ReadResult ==
  ASSUME buf \in Buffers
  PROVE  /\ Read \in Results
         /\ Read.ret > 0 => /\ HasHeader(buf) /\ buf.rest.type = "ACK"
                            /\ Read.got = buf.rest
<1>1. CASE ~HasHeader(buf)
  <2>1. Read = [ret |-> 0, type |-> "INVALID", got |-> Quiet]
    BY <1>1 DEF Read, NoResult
  <2>2. QED
    BY <2>1 DEF Results, ResultTypes, Slots
<1>2. CASE HasHeader(buf)
  <2> DEFINE ret == IF buf.rest.type # "ACK" THEN 0 ELSE IF buf.rest.pdl = 0 THEN 1 ELSE buf.rest.pdl
  <2>1. Read = [ret |-> ret, type |-> buf.rest.type, got |-> buf.rest]
    BY <1>2 DEF Read
  <2>2. buf.rest \in Packets /\ buf.rest \in Slots
    BY <1>2, PacketIs DEF HasHeader, Buffers
  <2>3. buf.rest.pdl \in Nat /\ buf.rest.type \in {"ACK", "ACK_TIMER", "NACK", "ACK_OVERFLOW"}
    BY <2>2 DEF Packets
  <2>4. ret \in Nat /\ (ret > 0 => buf.rest.type = "ACK")
    BY <2>3
  <2> HIDE DEF ret
  <2>5. QED
    BY <1>2, <2>1, <2>2, <2>3, <2>4 DEF Results, ResultTypes
<1>3. QED
  BY <1>1, <1>2

LEMMA EndSafe ==
  ASSUME SafeInv, NEW t \in Tasks, NotAwaited(t) \/ Alarm(t) \/ Finish(t)
  PROVE  SafeInv'
<1>1. NoResult \in Results
  BY DEF NoResult, Results, ResultTypes, Slots
<1>2. Read \in Results
  BY ReadResult DEF SafeInv, Types, BusTypes
<1>3. PICK result \in Results : Leave(t, buf, result)
  <2>1. CASE NotAwaited(t) \/ Alarm(t)
    BY <1>1, <2>1 DEF NotAwaited, Alarm
  <2>2. CASE Finish(t)
    BY <1>2, <2>2 DEF Finish, Read
  <2>3. QED
    BY <2>1, <2>2
<1>4. loc[t].at \in {"listen", "read"} /\ UNCHANGED <<line, responder, faults>>
  BY DEF NotAwaited, Alarm, Finish, At
<1>5. QED
  BY <1>3, <1>4, LeaveSafe

\* What arrives is stored over the request.
LEMMA ArriveSafe ==
  ASSUME SafeInv, NEW t \in Tasks, Arrive(t)
  PROVE  SafeInv'
<1>1. CallInv /\ Borrowed /\ buf \in Buffers /\ line \in Slots
  BY DEF SafeInv, Types, BusTypes
<1>2. loc[t].at = "listen" /\ mux = t /\ mux' = mux /\ Goto(t, "read")
  BY <1>1 DEF Arrive, At, CallInv, Inside
<1>3. PICK part \in {"all", "start", "some"} : buf' = Stored(buf, line, part)
  BY DEF Arrive
<1>4. faults' \in 0..FaultMax
  <2>1. faults' = faults \/ Fault
    BY DEF Arrive
  <2>2. QED
    BY <2>1, FaultsCounted DEF SafeInv, Types, BusTypes
<1>5. buf' \in Buffers
  BY <1>1, <1>3, BuffersKept
<1>6. line' = Quiet /\ tn' = tn /\ UNCHANGED <<rbuf, fresh, rat, rheader, late, param>>
  BY DEF Arrive, responder
<1>7. BusTypes' /\ AnswerTypes'
  BY <1>4, <1>5, <1>6 DEF SafeInv, Types, BusTypes, AnswerTypes, Slots
<1>8. /\ CallInv' /\ loc'[t] = [loc[t] EXCEPT !.at = "read"]
      /\ \A u \in Tasks : u # t => loc'[u] = loc[u]
  BY <1>1, <1>2, GotoMoves DEF Inside
<1>9. loc'[t].at = "read" /\ loc'[t].old = loc[t].old
  BY <1>1, <1>8, LocalsOf
<1>10. mux' # NoTask
  BY <1>2, ExchangeAssumption
<1>11. Borrowed'
  BY <1>1, <1>2, <1>8, <1>9, <1>10, BorrowedMoves DEF Borrowed
<1>12. QED
  BY <1>7, <1>8, <1>11 DEF SafeInv, Types

\* What the responder may have heard of a request
LEMMA HeardKinds ==
  ASSUME Heard
  PROVE  /\ \/ rbuf' = line /\ fresh' = TRUE /\ late' = FALSE /\ (rat # "answer" \/ Preempted)
            \/ rbuf' = Garbage /\ fresh' = FALSE /\ late' = late
            \/ rbuf' = rbuf /\ fresh' = fresh /\ late' = late
         /\ faults' = faults \/ Fault
  BY DEF Heard, Unheard

LEMMA SentSafe ==
  ASSUME SafeInv, NEW t \in Tasks, Sent(t)
  PROVE  SafeInv'
<1>1. CallInv /\ Borrowed
  BY DEF SafeInv, Types
<1>2. /\ loc[t].at = "sent" /\ mux' = mux /\ Goto(t, "listen") /\ Heard
      /\ UNCHANGED <<buf, tn, rat, rheader, param>> /\ line' = Quiet
  BY DEF Sent, At
<1>3. faults' \in 0..FaultMax
  BY <1>2, HeardKinds, FaultsCounted DEF SafeInv, Types, BusTypes
<1>4. rbuf' \in Slots /\ fresh' \in BOOLEAN /\ late' \in BOOLEAN
  BY <1>2, HeardKinds DEF SafeInv, Types, BusTypes, AnswerTypes, Slots
<1>5. BusTypes' /\ AnswerTypes'
  BY <1>2, <1>3, <1>4 DEF SafeInv, Types, BusTypes, AnswerTypes, Slots
<1>6. /\ CallInv' /\ loc'[t] = [loc[t] EXCEPT !.at = "listen"]
      /\ \A u \in Tasks : u # t => loc'[u] = loc[u]
  BY <1>1, <1>2, GotoMoves DEF Inside
<1>7. loc'[t].at = "listen" /\ loc'[t].old = loc[t].old
  BY <1>1, <1>6, LocalsOf
<1>8. mux' # NoTask
  BY <1>1, <1>2, ExchangeAssumption DEF CallInv, Inside
<1>9. Borrowed'
  BY <1>1, <1>2, <1>6, <1>7, <1>8, BorrowedMoves DEF Borrowed
<1>10. QED
  BY <1>5, <1>6, <1>9 DEF SafeInv, Types

\* The responder, the scheduler and the bus
LEMMA FarSafe ==
  ASSUME SafeInv, Responder \/ Delay \/ Vanish \/ UNCHANGED vars
  PROVE  SafeInv'
<1>1. UNCHANGED <<mux, buf, tn, loc>>
  BY DEF Responder, Receive, Answer, Respond, Delay, Vanish, vars, controller
<1>2. faults' \in 0..FaultMax
  <2>1. faults' = faults \/ Fault
    BY DEF Responder, Receive, Answer, Respond, Delay, Vanish, vars
  <2>2. QED
    BY <2>1, FaultsCounted DEF SafeInv, Types, BusTypes
<1>3. line' \in {line, rbuf, Quiet}
  BY DEF Responder, Receive, Answer, Respond, Delay, Vanish, vars
<1>4. BusTypes'
  BY <1>1, <1>2, <1>3 DEF SafeInv, Types, BusTypes, AnswerTypes, Slots
<1>5. AnswerTypes'
  <2>1. CASE Receive
    BY <2>1, PacketIs DEF Receive, IsForMe, SafeInv, Types, AnswerTypes
  <2>2. CASE Answer
    <3>1. rheader \in Packets /\ AnswerTo(rheader) \in Slots
      BY <2>2, AnswerIsAnswer DEF Answer, SafeInv, Types, AnswerTypes
    <3>2. /\ rbuf' = AnswerTo(rheader) /\ rheader' = Quiet /\ UNCHANGED <<fresh, late>>
          /\ rat' \in {"receive", "send"}
      BY <2>2 DEF Answer
    <3>3. param' \in [DOMAIN Pdl -> Nat]
      <4>1. rheader.value \in Nat
        BY <3>1 DEF Packets
      <4>2. param' = param \/ param' = [param EXCEPT ![rheader.pid] = rheader.value]
        BY <2>2 DEF Answer
      <4>3. QED
        BY <4>1, <4>2 DEF SafeInv, Types, AnswerTypes
    <3>4. QED
      BY <3>1, <3>2, <3>3 DEF SafeInv, Types, AnswerTypes, Slots
  <2>3. CASE Respond
    BY <2>3 DEF Respond, SafeInv, Types, AnswerTypes
  <2>4. CASE Delay \/ Vanish \/ UNCHANGED vars
    BY <2>4 DEF Delay, Vanish, vars, responder, SafeInv, Types, AnswerTypes
  <2>5. QED
    BY <2>1, <2>2, <2>3, <2>4 DEF Responder
<1>6. CallInv' /\ Borrowed'
  BY <1>1 DEF SafeInv, Types, CallInv, Borrowed, Clean, At
<1>7. QED
  BY <1>4, <1>5, <1>6 DEF SafeInv, Types

LEMMA StepSafe == SafeInv /\ [Next]_vars => SafeInv'
<1> SUFFICES ASSUME SafeInv, [Next]_vars PROVE SafeInv'
  OBVIOUS
<1>1. CASE \E t \in Tasks : Ask(t)
  BY <1>1, QuietSafe, SendSafe, EndSafe, ArriveSafe, SentSafe DEF Ask
<1>2. CASE Responder \/ Delay \/ Vanish \/ UNCHANGED vars
  BY <1>2, FarSafe
<1>3. QED
  BY <1>1, <1>2 DEF Next

\* One task at a time is inside, whatever the others do, and the values keep
\* to their ranges.
THEOREM TypeCorrect == Spec => []TypeOK
<1>1. SafeInv => TypeOK
  BY DEF SafeInv, Types, CallInv, BusTypes, AnswerTypes, Buffers, TypeOK, Inside
<1>2. QED
  BY InitSafe, StepSafe, <1>1, PTL DEF Spec

\* Whatever way the calls of any number of tasks end, no request and no answer
\* is left in the buffer that the next DMX packet is sent from.
THEOREM RequestIsRemoved == Spec => []RequestRemoved
<1>1. SafeInv => RequestRemoved
  BY DEF SafeInv, Borrowed, Clean, RequestRemoved
<1>2. QED
  BY InitSafe, StepSafe, <1>1, PTL DEF Spec

-----------------------------------------------------------------------------
(* A call that succeeds has the answer to its own request. *)

LEMMA OneInside ==
  ASSUME CallInv, NEW t \in Tasks, loc[t].at \in Inside
  PROVE  mux = t /\ \A u \in Tasks : u # t => loc[u].at \notin Inside
  BY DEF CallInv

LEMMA NoneWaits ==
  ASSUME CallInv, NEW t \in Tasks, loc[t].at \in Inside,
         loc[t].at # "listen" \/ line # Quiet \/ loc[t].req.dest # Uid
  PROVE  \A x : ~Waiting(x)
  BY OneInside DEF Waiting, At, Belongs, Inside

\* What may still be answered stays so for as long as its listener listens.
LEMMA RespondKept ==
  ASSUME RespondInv, UNCHANGED <<rbuf, fresh, rat, rheader, late>>,
         \A x : Waiting(x) => Waiting(x)'
  PROVE  RespondInv'
  BY DEF RespondInv

LEMMA QuietMatch ==
  ASSUME MatchInv, NEW t \in Tasks,
         UNCHANGED <<buf, line, rbuf, fresh, rat, rheader, late>>,
         \A u \in Tasks : u # t => loc'[u] = loc[u],
         loc[t].at \notin {"sent", "listen", "read"},
         loc'[t].at \notin {"sent", "listen", "read"},
         loc'[t].at = "back" => loc'[t].result.ret = 0
  PROVE  MatchInv'
<1>1. \A x : Waiting(x) => Waiting(x)'
  BY DEF Waiting, At, Belongs
<1>2. RespondInv'
  BY <1>1, RespondKept DEF MatchInv
<1>3. AskInv(t)'
  BY DEF AskInv, At
<1>4. ASSUME NEW u \in Tasks, u # t PROVE AskInv(u)'
  BY <1>4 DEF MatchInv, AskInv, At, Asked, Answers, Belongs, HasHeader
<1>5. AnswersMatch'
  BY DEF MatchInv, AnswersMatch, At
<1>6. QED
  BY <1>2, <1>3, <1>4, <1>5 DEF MatchInv

\* A step of the task that has the driver, by what it means for that task
LEMMA InsideMatch ==
  ASSUME SafeInv, MatchInv, NEW t \in Tasks, loc[t].at \in Inside,
         \A u \in Tasks : u # t => loc'[u] = loc[u],
         AskInv(t)', RespondInv',
         loc'[t].at = "back" /\ loc'[t].result.ret > 0 =>
           /\ loc'[t].result.got.src = loc'[t].req.dest
           /\ loc'[t].result.got.pid = loc'[t].req.pid
           /\ loc'[t].result.got.tn = loc'[t].tn
  PROVE  MatchInv'
<1>1. \A u \in Tasks : u # t => loc[u].at \notin Inside
  BY OneInside DEF SafeInv, Types
<1>2. ASSUME NEW u \in Tasks, u # t PROVE AskInv(u)'
  BY <1>1, <1>2 DEF AskInv, At, Inside
<1>3. AnswersMatch'
  BY DEF MatchInv, AnswersMatch, At
<1>4. QED
  BY <1>2, <1>3 DEF MatchInv

LEMMA OutsideMatch ==
  ASSUME SafeInv, MatchInv, NEW t \in Tasks,
         Call(t) \/ TakeMux(t) \/ GiveUp(t) \/ SendFails(t) \/ Back(t)
  PROVE  MatchInv'
<1>1. UNCHANGED <<buf, line, rbuf, fresh, rat, rheader, late>>
  BY DEF Call, TakeMux, GiveUp, SendFails, Back, responder
<1>2. CallInv
  BY DEF SafeInv, Types
<1>3. loc[t].at \notin {"sent", "listen", "read"}
  BY DEF Call, TakeMux, GiveUp, SendFails, Back, At
<1>4. CASE Call(t) \/ Back(t)
  <2>1. /\ loc'[t].at \in {"idle", "take"}
        /\ \A u \in Tasks : u # t => loc'[u] = loc[u]
    BY <1>2, <1>4, CallMoves, BackMoves
  <2>2. QED
    BY <1>1, <1>3, <2>1, QuietMatch
<1>5. CASE GiveUp(t) \/ SendFails(t)
  <2>1. /\ loc'[t].at = "back" /\ loc'[t].result.ret = 0
        /\ \A u \in Tasks : u # t => loc'[u] = loc[u]
    BY <1>2, <1>5, QuitMoves
  <2>2. QED
    BY <1>1, <1>3, <2>1, QuietMatch
<1>6. CASE TakeMux(t)
  <2>1. /\ loc[t].at = "take" /\ mux = NoTask /\ mux' = t /\ Goto(t, "wait_sent")
    BY <1>6 DEF TakeMux, At
  <2>2. /\ loc'[t] = [loc[t] EXCEPT !.at = "wait_sent"]
        /\ \A u \in Tasks : u # t => loc'[u] = loc[u]
    BY <1>2, <2>1, GotoMoves DEF Inside
  <2>3. loc'[t].at = "wait_sent"
    BY <1>2, <2>2, LocalsOf
  <2>4. QED
    BY <1>1, <1>3, <2>2, <2>3, QuietMatch
<1>7. QED
  BY <1>4, <1>5, <1>6

LEMMA SendMatch ==
  ASSUME SafeInv, MatchInv, NEW t \in Tasks, Send(t)
  PROVE  MatchInv'
<1>1. CallInv /\ buf \in Buffers /\ tn \in 0..TnCount - 1
  BY DEF SafeInv, Types, BusTypes
<1>2. loc[t].at = "wait_sent" /\ loc[t].at \in Inside /\ loc[t].req \in Requests
  BY <1>1 DEF Send, At, CallInv, Inside
<1> DEFINE p == Packet(Controller, loc[t].req, tn)
<1>3. p \in Slots
  BY <1>1, <1>2, RequestIsOwn
<1>4. /\ buf' = Write(buf, p) /\ line' = p
      /\ UNCHANGED <<rbuf, fresh, rat, rheader, late>>
  BY DEF Send, responder
<1>5. /\ loc'[t].at = "sent" /\ loc'[t].req = loc[t].req /\ loc'[t].tn = tn
      /\ \A u \in Tasks : u # t => loc'[u] = loc[u]
  BY <1>1, SendMoves
<1>6. Asked(t)' = p
  BY <1>5 DEF Asked, Packet
<1> HIDE DEF p
<1>7. buf'.rest = p
  BY <1>1, <1>3, <1>4, BuffersKept
<1>8. AskInv(t)'
  BY <1>4, <1>5, <1>6, <1>7 DEF AskInv, At
<1>9. \A x : ~Waiting(x)
  BY <1>1, <1>2, NoneWaits
<1>10. RespondInv'
  BY <1>4, <1>9, RespondKept DEF MatchInv
<1>11. QED
  BY <1>2, <1>5, <1>8, <1>10, InsideMatch

\* The request that the responder hears is that of the task that now listens.
LEMMA SentMatch ==
  ASSUME ~Preempted, SafeInv, MatchInv, NEW t \in Tasks, Sent(t)
  PROVE  MatchInv'
<1>1. CallInv
  BY DEF SafeInv, Types
<1>2. /\ loc[t].at = "sent" /\ loc[t].at \in Inside /\ Goto(t, "listen") /\ Heard /\ mux' = mux
      /\ UNCHANGED <<buf, rat, rheader>> /\ line' = Quiet
  BY DEF Sent, At, Inside
<1>3. /\ loc'[t] = [loc[t] EXCEPT !.at = "listen"]
      /\ \A u \in Tasks : u # t => loc'[u] = loc[u]
  BY <1>1, <1>2, GotoMoves DEF Inside
<1>4. loc'[t].at = "listen" /\ loc'[t].req = loc[t].req /\ loc'[t].tn = loc[t].tn
  BY <1>1, <1>3, LocalsOf
<1>5. line = Asked(t) /\ buf.rest = Asked(t)
  BY <1>2 DEF MatchInv, AskInv, At
<1>6. Asked(t)' = Asked(t)
  BY <1>4 DEF Asked, Packet
<1>7. AskInv(t)'
  BY <1>2, <1>4, <1>5, <1>6 DEF AskInv, At
<1>8. loc[t].req \in Requests /\ loc[t].tn \in 0..TnCount - 1
  BY <1>1, <1>2, LocalsOf DEF CallInv
<1>9. /\ IsOwn(line) /\ line.dest = loc[t].req.dest /\ line.pid = loc[t].req.pid
      /\ line.tn = loc[t].tn
  BY <1>5, <1>8, RequestIsOwn DEF Asked
<1>10. \A x : ~Waiting(x)
  BY <1>1, <1>2, NoneWaits
<1>11. RespondInv'
  <2>1. CASE rbuf' = line /\ fresh' = TRUE /\ late' = FALSE /\ (rat # "answer" \/ Preempted)
    <3>1. rbuf'.dest = Uid => Waiting(rbuf)'
      BY <1>2, <1>4, <1>9, <2>1 DEF Waiting, At, Belongs
    <3>2. IsOwn(rbuf)' /\ rat' # "answer"
      BY <1>2, <1>9, <2>1 DEF IsOwn
    <3>3. QED
      BY <3>1, <3>2 DEF RespondInv
  <2>2. CASE rbuf' = Garbage /\ fresh' = FALSE /\ late' = late
    BY <1>2, <1>10, <2>2 DEF MatchInv, RespondInv, IsOwn
  <2>3. CASE rbuf' = rbuf /\ fresh' = fresh /\ late' = late
    BY <1>2, <1>10, <2>3, RespondKept DEF MatchInv
  <2>4. QED
    BY <1>2, <2>1, <2>2, <2>3, HeardKinds
<1>12. QED
  BY <1>2, <1>3, <1>4, <1>7, <1>11, InsideMatch

\* Nobody gives up who may still get an answer.
LEMMA EndMatch ==
  ASSUME SafeInv, MatchInv, NEW t \in Tasks, NotAwaited(t) \/ Alarm(t) \/ Finish(t)
  PROVE  MatchInv'
<1>1. CallInv /\ buf \in Buffers
  BY DEF SafeInv, Types, BusTypes
<1>2. /\ loc[t].at \in {"listen", "read"} /\ loc[t].at \in Inside
      /\ UNCHANGED <<line, rbuf, fresh, rat, rheader, late>>
  BY DEF NotAwaited, Alarm, Finish, At, Inside, responder
<1>3. PICK result \in {NoResult, Read} :
        Leave(t, buf, result) /\ (result = NoResult \/ loc[t].at = "read")
  BY DEF NotAwaited, Alarm, Finish, Read, At
<1>4. NoResult.ret = 0 /\ NoResult \in Results /\ Read \in Results
  BY <1>1, ReadResult DEF NoResult, Results, ResultTypes, Slots
<1>5. /\ loc'[t].at = "back" /\ loc'[t].req = loc[t].req
      /\ loc'[t].tn = loc[t].tn /\ loc'[t].result = result
      /\ \A u \in Tasks : u # t => loc'[u] = loc[u]
  BY <1>1, <1>2, <1>3, <1>4, LeaveMoves
<1>6. AskInv(t)'
  BY <1>5 DEF AskInv, At
<1>7. RespondInv'
  <2>1. CASE NotAwaited(t)
    <3>1. loc[t].req.dest # Uid
      BY <2>1, ExchangeAssumption DEF NotAwaited, IsUnanswered
    <3>2. \A x : ~Waiting(x)
      BY <1>1, <1>2, <3>1, NoneWaits
    <3>3. QED
      BY <1>2, <3>2, RespondKept DEF MatchInv
  <2>2. CASE Alarm(t)
    <3>1. (~fresh /\ rat = "receive") \/ late
      BY <2>2 DEF Alarm, Pending
    <3>2. QED
      BY <1>2, <3>1 DEF MatchInv, RespondInv, IsOwn, IsAnswer
  <2>3. CASE Finish(t)
    <3>1. \A x : ~Waiting(x)
      BY <1>1, <1>2, <2>3, NoneWaits DEF Finish, At
    <3>2. QED
      BY <1>2, <3>1, RespondKept DEF MatchInv
  <2>4. QED
    BY <2>1, <2>2, <2>3
<1>8. result.ret > 0 => /\ result.got.src = loc[t].req.dest /\ result.got.pid = loc[t].req.pid
                        /\ result.got.tn = loc[t].tn
  <2> SUFFICES ASSUME result.ret > 0
               PROVE  /\ result.got.src = loc[t].req.dest /\ result.got.pid = loc[t].req.pid
                      /\ result.got.tn = loc[t].tn
    OBVIOUS
  <2>1. result = Read /\ loc[t].at = "read"
    BY <1>3, <1>4
  <2>2. HasHeader(buf) /\ buf.rest.type = "ACK" /\ Read.got = buf.rest
    BY <1>1, <2>1, ReadResult
  <2>3. Answers(buf.rest, t)
    BY <2>1, <2>2 DEF MatchInv, AskInv, At
  <2>4. QED
    BY <2>1, <2>2, <2>3 DEF Answers, Belongs
<1>9. QED
  BY <1>2, <1>5, <1>6, <1>7, <1>8, InsideMatch

\* What is left of the request in the buffer is not taken for an answer.
LEMMA ArriveMatch ==
  ASSUME SafeInv, MatchInv, NEW t \in Tasks, Arrive(t)
  PROVE  MatchInv'
<1>1. CallInv /\ buf \in Buffers /\ line \in Slots
  BY DEF SafeInv, Types, BusTypes
<1>2. /\ loc[t].at = "listen" /\ loc[t].at \in Inside /\ mux' = mux /\ Goto(t, "read")
      /\ line # Quiet /\ UNCHANGED <<rbuf, fresh, rat, rheader, late>>
  BY DEF Arrive, At, Inside, responder
<1>3. PICK part \in {"all", "start", "some"} : buf' = Stored(buf, line, part)
  BY DEF Arrive
<1>4. /\ loc'[t] = [loc[t] EXCEPT !.at = "read"]
      /\ \A u \in Tasks : u # t => loc'[u] = loc[u]
  BY <1>1, <1>2, GotoMoves DEF Inside
<1>5. loc'[t].at = "read" /\ loc'[t].req = loc[t].req /\ loc'[t].tn = loc[t].tn
  BY <1>1, <1>4, LocalsOf
<1>6. /\ buf.rest = Asked(t) /\ (IsAck(line) => Answers(line, t))
  BY <1>2 DEF MatchInv, AskInv, At
<1>7. \A x : Answers(x, t) => Answers(x, t)'
  BY <1>5 DEF Answers, Belongs
<1>8. HasHeader(buf') /\ buf'.rest.type = "ACK" => Answers(buf'.rest, t)
  <2>1. CASE ~IsPacket(line)
    <3>1. buf'.start = "dmx"
      BY <1>1, <1>3, <2>1 DEF Stored, Buffers
    <3>2. QED
      BY <3>1 DEF HasHeader
  <2>2. CASE IsPacket(line) /\ part = "start"
    <3>1. buf'.rest = Asked(t)
      BY <1>1, <1>3, <1>6, <2>2 DEF Stored, Buffers
    <3>2. loc[t].req \in Requests /\ loc[t].tn \in 0..TnCount - 1
      BY <1>1, <1>2, LocalsOf DEF CallInv
    <3>3. Asked(t).type = PortType
      BY <3>2, RequestIsOwn DEF Asked, IsOwn
    <3>4. PortType # "ACK"
      BY ExchangeAssumption
    <3>5. QED
      BY <3>1, <3>3, <3>4
  <2>3. CASE IsPacket(line) /\ part = "some"
    <3>1. buf'.rest = Garbage
      BY <1>1, <1>3, <2>3 DEF Stored, Buffers
    <3>2. QED
      BY <3>1 DEF HasHeader, IsPacket
  <2>4. CASE IsPacket(line) /\ part = "all"
    <3>1. buf'.rest = line
      BY <1>3, <2>4 DEF Stored
    <3>2. QED
      BY <1>6, <2>4, <3>1 DEF IsAck
  <2>5. QED
    BY <2>1, <2>2, <2>3, <2>4
<1>9. AskInv(t)'
  BY <1>5, <1>7, <1>8 DEF AskInv, At, HasHeader
<1>10. \A x : ~Waiting(x)
  BY <1>1, <1>2, NoneWaits
<1>11. RespondInv'
  BY <1>2, <1>10, RespondKept DEF MatchInv
<1>12. QED
  BY <1>2, <1>4, <1>5, <1>9, <1>11, InsideMatch

\* While the responder works, what a listener hears is what it sends.
LEMMA FarMatch ==
  ASSUME SafeInv, MatchInv, UNCHANGED <<buf, loc>>,
         \A t \in Tasks : AskInv(t)', RespondInv'
  PROVE  MatchInv'
  BY DEF MatchInv, AnswersMatch, At

LEMMA ReceiveMatch ==
  ASSUME SafeInv, MatchInv, Receive
  PROVE  MatchInv'
<1>1. /\ rat = "receive" /\ fresh /\ fresh' = FALSE
      /\ UNCHANGED <<buf, loc, line, rbuf, late>>
      /\ \/ IsForMe(rbuf) /\ rat' = "answer" /\ rheader' = rbuf
         \/ rat' = "receive" /\ rheader' = rheader
  BY DEF Receive, controller
<1>2. \A x : Waiting(x) => Waiting(x)'
  BY <1>1 DEF Waiting, At, Belongs
<1>3. IsOwn(rbuf) /\ (~late /\ rbuf.dest = Uid => Waiting(rbuf))
  BY <1>1 DEF MatchInv, RespondInv
<1>4. RespondInv'
  <2>1. CASE rat' = "answer" /\ rheader' = rbuf
    BY <1>1, <1>2, <1>3, <2>1 DEF RespondInv
  <2>2. CASE rat' = "receive"
    BY <1>1, <2>2 DEF RespondInv
  <2>3. QED
    BY <1>1, <2>1, <2>2
<1>5. ASSUME NEW t \in Tasks PROVE AskInv(t)'
  <2>1. AskInv(t)
    BY DEF MatchInv
  <2>2. QED
    BY <1>1, <2>1 DEF AskInv, At, Asked, Answers, Belongs, HasHeader
<1>6. QED
  BY <1>1, <1>4, <1>5, FarMatch

LEMMA AnswerMatch ==
  ASSUME SafeInv, MatchInv, Answer
  PROVE  MatchInv'
<1>1. /\ rat = "answer" /\ rbuf' = AnswerTo(rheader)
      /\ UNCHANGED <<buf, loc, line, fresh, late>>
      /\ rat' = (IF rheader.dest = Everyone THEN "receive" ELSE "send")
  BY DEF Answer, controller
<1>2. /\ rheader \in Packets /\ rheader.dest \in {Uid, Everyone}
      /\ param \in [DOMAIN Pdl -> Nat]
  BY <1>1 DEF SafeInv, Types, AnswerTypes
<1>3. ~fresh /\ (~late /\ rheader.dest = Uid => Waiting(rheader))
  BY <1>1 DEF MatchInv, RespondInv
<1>4. IsAnswer(rbuf') /\ rbuf'.pid = rheader.pid /\ rbuf'.tn = rheader.tn
  BY <1>1, <1>2, AnswerIsAnswer
<1>5. Waiting(rheader) => Waiting(rbuf)'
  BY <1>1, <1>4 DEF Waiting, At, Belongs
<1>6. rat' = "send" => rheader.dest = Uid
  BY <1>1, <1>2
<1>7. RespondInv'
  <2>1. fresh' = fresh /\ rat' \in {"receive", "send"} /\ late' = late
    BY <1>1
  <2>2. IsAnswer(rbuf)'
    BY <1>4 DEF IsAnswer
  <2>3. QED
    BY <1>3, <1>5, <1>6, <2>1, <2>2 DEF RespondInv
<1>8. ASSUME NEW t \in Tasks PROVE AskInv(t)'
  <2>1. AskInv(t)
    BY DEF MatchInv
  <2>2. QED
    BY <1>1, <2>1 DEF AskInv, At, Asked, Answers, Belongs, HasHeader
<1>9. QED
  BY <1>1, <1>7, <1>8, FarMatch

LEMMA RespondMatch ==
  ASSUME SafeInv, MatchInv, Respond
  PROVE  MatchInv'
<1>1. /\ rat = "send" /\ rat' = "receive" /\ UNCHANGED <<buf, loc, rbuf, rheader, late>>
      /\ \/ ~IsRequest(rbuf) /\ IsPacket(rbuf) /\ late /\ UNCHANGED <<line, fresh>>
         \/ /\ ~(~IsRequest(rbuf) /\ IsPacket(rbuf) /\ late)
            /\ line = Quiet /\ line' = rbuf /\ fresh' = FALSE
  BY DEF Respond, controller
<1>2. /\ fresh => IsOwn(rbuf)
      /\ \/ IsOwn(rbuf) \/ rbuf \in {Frame, Garbage, Quiet}
         \/ IsAnswer(rbuf) /\ (~late => Waiting(rbuf))
  BY <1>1 DEF MatchInv, RespondInv
<1>3. CASE ~IsRequest(rbuf) /\ IsPacket(rbuf) /\ late /\ UNCHANGED <<line, fresh>>
  <2>1. ~fresh
    BY <1>2, <1>3 DEF IsOwn, IsRequest
  <2>2. RespondInv'
    BY <1>1, <1>3, <2>1 DEF RespondInv
  <2>3. ASSUME NEW t \in Tasks PROVE AskInv(t)'
    <3>1. AskInv(t)
      BY DEF MatchInv
    <3>2. QED
      BY <1>1, <1>3, <2>1, <3>1 DEF AskInv, At, Asked, Answers, Belongs, HasHeader
  <2>4. QED
    BY <1>1, <2>2, <2>3, FarMatch
<1>4. CASE /\ ~(~IsRequest(rbuf) /\ IsPacket(rbuf) /\ late)
           /\ line = Quiet /\ line' = rbuf /\ fresh' = FALSE
  <2>1. RespondInv'
    BY <1>1, <1>4 DEF RespondInv
  <2>2. ASSUME NEW t \in Tasks PROVE AskInv(t)'
    <3>1. AskInv(t)
      BY DEF MatchInv
    <3>2. ~At(t, "sent")
      <4> SUFFICES ASSUME At(t, "sent") PROVE FALSE
        OBVIOUS
      <4>1. line = Asked(t) /\ loc[t].at = "sent"
        BY <3>1 DEF AskInv, At
      <4>2. loc[t].req \in Requests /\ loc[t].tn \in 0..TnCount - 1
        BY <4>1, LocalsOf DEF SafeInv, Types, CallInv
      <4>3. line \in Packets
        BY <4>1, <4>2, RequestIsOwn DEF Asked, IsOwn
      <4>4. QED
        BY <1>4, <4>3, PacketIs DEF IsPacket
    <3>3. At(t, "listen") /\ IsAck(rbuf) => Answers(rbuf, t)
      <4> SUFFICES ASSUME At(t, "listen"), IsAck(rbuf) PROVE Answers(rbuf, t)
        OBVIOUS
      <4>1. ~IsOwn(rbuf)
        BY ExchangeAssumption DEF IsAck, IsOwn
      <4>2. rbuf \notin {Frame, Garbage, Quiet}
        BY DEF IsAck, IsPacket
      <4>3. IsAnswer(rbuf) /\ (~late => Waiting(rbuf))
        BY <1>2, <4>1, <4>2
      <4>4. ~late
        BY <1>4, <4>3 DEF IsAnswer, IsRequest, IsAck
      <4>5. PICK u \in Tasks : At(u, "listen") /\ Belongs(rbuf, u)
        BY <4>3, <4>4 DEF Waiting
      <4>6. u = t
        BY <4>5, OneInside DEF At, Inside, SafeInv, Types
      <4>7. QED
        BY <4>3, <4>5, <4>6 DEF Answers, IsAnswer
    <3>4. QED
      BY <1>1, <1>4, <3>1, <3>2, <3>3 DEF AskInv, At, Asked, Answers, Belongs, HasHeader, IsAck, IsPacket
  <2>3. QED
    BY <1>1, <2>1, <2>2, FarMatch
<1>5. QED
  BY <1>1, <1>3, <1>4

LEMMA ElseMatch ==
  ASSUME SafeInv, MatchInv, Delay \/ Vanish \/ UNCHANGED vars
  PROVE  MatchInv'
<1>1. UNCHANGED <<buf, loc, rbuf, fresh, rat, rheader>>
  BY DEF Delay, Vanish, vars, controller, responder
<1>2. CASE Delay
  <2>1. late' = TRUE /\ line' = line
    BY <1>2 DEF Delay
  <2>2. RespondInv'
    BY <1>1, <2>1 DEF MatchInv, RespondInv, IsOwn, IsAnswer
  <2>3. ASSUME NEW t \in Tasks PROVE AskInv(t)'
    <3>1. AskInv(t)
      BY DEF MatchInv
    <3>2. QED
      BY <1>1, <2>1, <3>1 DEF AskInv, At, Asked, Answers, Belongs, HasHeader
  <2>4. QED
    BY <1>1, <2>2, <2>3, FarMatch
<1>3. CASE Vanish
  <2>1. /\ line' = Quiet /\ late' = late
        /\ \A t \in Tasks : loc[t].at \notin {"sent", "listen"}
    BY <1>3 DEF Vanish, responder
  <2>2. \A x : ~Waiting(x)
    BY <2>1 DEF Waiting, At
  <2>3. RespondInv'
    BY <1>1, <2>1, <2>2, RespondKept DEF MatchInv
  <2>4. ASSUME NEW t \in Tasks PROVE AskInv(t)'
    <3>1. AskInv(t)
      BY DEF MatchInv
    <3>2. QED
      BY <1>1, <2>1, <3>1 DEF AskInv, At, Answers, Belongs, HasHeader
  <2>5. QED
    BY <1>1, <2>3, <2>4, FarMatch
<1>4. CASE UNCHANGED vars
  <2>1. late' = late /\ line' = line
    BY <1>4 DEF vars, responder
  <2>2. \A x : Waiting(x) => Waiting(x)'
    BY <1>1, <2>1 DEF Waiting, At, Belongs
  <2>3. RespondInv'
    BY <1>1, <2>1, <2>2, RespondKept DEF MatchInv
  <2>4. ASSUME NEW t \in Tasks PROVE AskInv(t)'
    <3>1. AskInv(t)
      BY DEF MatchInv
    <3>2. QED
      BY <1>1, <2>1, <3>1 DEF AskInv, At, Asked, Answers, Belongs, HasHeader
  <2>5. QED
    BY <1>1, <2>3, <2>4, FarMatch
<1>5. QED
  BY <1>2, <1>3, <1>4

\* Unless the responder loses the processor while it answers, a call that
\* succeeds has the answer to its own request, for any number of tasks that
\* ask, any requests, and however often the bus and the responder fail.
THEOREM AnswersAreOwn ==
  ASSUME ~Preempted
  PROVE  Spec => []AnswersMatch
<1>1. Init => MatchInv
  <2> SUFFICES ASSUME Init PROVE MatchInv
    OBVIOUS
  <2>1. \A t \in Tasks : loc[t].at = "idle"
    BY DEF Init, Idle
  <2>2. ~fresh /\ rat = "receive"
    BY DEF Init
  <2>3. QED
    BY <2>1, <2>2 DEF MatchInv, AskInv, RespondInv, AnswersMatch, At
<1>2. SafeInv /\ MatchInv /\ [Next]_vars => MatchInv'
  <2> SUFFICES ASSUME SafeInv, MatchInv, [Next]_vars PROVE MatchInv'
    OBVIOUS
  <2>1. CASE \E t \in Tasks : Ask(t)
    BY <2>1, OutsideMatch, SendMatch, SentMatch, EndMatch, ArriveMatch DEF Ask
  <2>2. CASE Responder
    BY <2>2, ReceiveMatch, AnswerMatch, RespondMatch DEF Responder
  <2>3. CASE Delay \/ Vanish \/ UNCHANGED vars
    BY <2>3, ElseMatch
  <2>4. QED
    BY <2>1, <2>2, <2>3 DEF Next
<1>3. MatchInv => AnswersMatch
  BY DEF MatchInv
<1>4. QED
  BY InitSafe, StepSafe, <1>1, <1>2, <1>3, PTL DEF Spec
=============================================================================
