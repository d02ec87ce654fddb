------------------------- MODULE DmxLifeCycleProofs -------------------------
(***************************************************************************)
(* Theorems about the life cycle of a DMX port, for any tasks, any number  *)
(* of calls and packets of any length: types, the driver that is enabled   *)
(* again after an access to flash, packets that are whole, and pairs of    *)
(* the sniffer that belong to one packet.                                  *)
(***************************************************************************)
EXTENDS DmxLifeCycle, TLAPS, SequenceTheorems

Cell == Nat \X Nat

Labels == {"idle", "look", "check_disable", "disable", "access", "flash",
           "check_enable", "enable", "init", "send"}

Locals == [at : Labels, saw : BOOLEAN, done : {"idle", "access"}, then : {"idle", "init"}]

Times == Nat \X {"none", "idle", "low", "break", "gap", "start", "bits"}

Types ==
  /\ installed \in BOOLEAN /\ enabled \in BOOLEAN /\ rx \in BOOLEAN /\ rts \in BOOLEAN
  /\ unread \in BOOLEAN /\ edge \in BOOLEAN
  /\ status \in {"IDLE", "RECEIVING", "SENDING"}
  /\ progress \in {"STALE", "IN_BREAK", "IN_MAB", "IN_DATA", "COMPLETE"}
  /\ size \in Nat /\ head \in Int /\ head >= -1
  /\ data \in Seq(Cell) /\ head <= Len(data)
  /\ fifo \in Seq(Cell) /\ Len(fifo) <= FifoSize
  /\ raised \subseteq {"break", "data", "overflow"}
  /\ sniffer \in [on : BOOLEAN, index : {0, 1}, meta : [0..1 -> [brk : Nat, mab : Nat]],
                  neg : Times, pos : Times]
  /\ loc \in [Tasks -> Locals]
  /\ calls \in 0..MaxCalls
  /\ {asked, crossed, overlap, torn, disturbed} \subseteq BOOLEAN

\* Where the line is, and how many slots it has had.
OnLine ==
  /\ wire \in [at : {"idle", "low", "break", "gap", "start", "bits"},
               packet : 0..MaxPackets, slot : 0..Slots]
  /\ wire.at # "idle" => wire.packet > 0
  /\ wire.at \in {"low", "break"} => wire.slot = 0
  /\ wire.at = "gap" => wire.slot < Slots
  /\ wire.at \in {"start", "bits"} => wire.slot > 0
  /\ wire.at = "idle" => wire.slot \in {0, Slots}

\* What a task knows by where it is.
Knows(t) ==
  /\ At(t, "idle") => loc[t] = Resting
  /\ loc[t].at \in {"look", "access", "flash"} \/ loc[t].saw => loc[t].done = "access"
  /\ At(t, "init") => loc[t].then = "init"
  /\ loc[t].at \in {"disable", "enable"} => installed
  /\ At(t, "send") => installed /\ Powered
  /\ loc[t].then = "init" => installed

Control ==
  /\ \A t \in Tasks : Knows(t)
  /\ \A t, u \in Tasks : loc[t].then = "init" /\ loc[u].then = "init" => t = u

\* The receiver interrupts only once it has been initialised.
Quiet ==
  /\ rx => installed
  /\ sniffer.on => installed
  /\ ~Powered => ~rx /\ ~sniffer.on /\ head = -1

LifeInv == Types /\ OnLine /\ Control /\ Quiet

-----------------------------------------------------------------------------
\* A task that saw a disabled driver does not find it enabled, unless another
\* task enabled it meanwhile.
NeedsNoDisable(t) ==
  loc[t].done = "access" /\ ~loc[t].saw =>
    /\ loc[t].at # "disable"
    /\ loc[t].at = "check_disable" => ~(installed /\ enabled)

EnabledInv == ~crossed => NeverLeftDisabled /\ \A t \in Tasks : NeedsNoDisable(t)

-----------------------------------------------------------------------------
Active == progress \in {"IN_BREAK", "IN_MAB", "IN_DATA"}

\* The slots of the packet on the line that have ended.
Ended == IF wire.at \in {"start", "bits"} THEN wire.slot - 1 ELSE wire.slot

\* Flash is accessed with the receiver's interrupts off.
FlashQuiet ==
  /\ rx => enabled
  /\ \A t \in Tasks : loc[t].at \in {"access", "flash"} => ~rx

\* The handler has read every slot but the one that has just ended.
Handled ==
  rx => /\ raised = {} => fifo = <<>>
        /\ raised # {} =>
             /\ rts /\ fifo = << <<wire.packet, wire.slot>> >>
             /\ \/ raised = {"break"} /\ wire.at = "break"
                \/ raised = {"data"} /\ wire.at \in {"gap", "idle"} /\ wire.slot > 0

\* What is stored of a packet that is being received.
Received ==
  /\ size = Slots
  /\ rx /\ rts /\ Active /\ head >= 0 =>
       /\ wire.at # "low" /\ wire.packet > 0
       /\ wire.at = "break" => raised = {}
       /\ wire.at = "idle" => raised # {}
       /\ head + Len(fifo) = Ended
       /\ \A i \in 1..head : data[i] = <<wire.packet, i>>

Receiving == FlashQuiet /\ Handled /\ Received

WholeInv == WholePackets /\ (~overlap => Receiving)
-----------------------------------------------------------------------------
Pair == sniffer.meta[sniffer.index]

\* No handler is held up while the line goes on.
Prompt ==
  /\ ~Frozen
  /\ rx /\ raised # {} =>
       /\ rts
       /\ IF "break" \in raised THEN wire.at = "break"
          ELSE wire.at \in {"gap", "idle"} /\ wire.slot > 0

\* The start of a break was timed when its end comes.
BreakTimed ==
  /\ wire.at = "low" => edge \/ sniffer.neg = <<wire.packet, "low">>
  /\ wire.at = "break" => ~edge /\ sniffer.neg = <<wire.packet, "low">>

\* The progress is "in break" during a break of the line, or while this port
\* sends; then only the edge of the mark after break is to come.
InBreak ==
  progress = "IN_BREAK" =>
    \/ status = "SENDING" /\ wire.at = "idle" /\ ~edge
    \/ /\ status # "SENDING" /\ rts
       /\ \/ wire.at = "break"
          \/ wire.at = "gap" /\ wire.slot = 0 /\ edge /\ sniffer.neg = <<wire.packet, "low">>

\* The progress is "in mark after break" from that edge to the next.
InMab ==
  progress = "IN_MAB" =>
    /\ status # "SENDING" /\ rts
    /\ Pair.brk = wire.packet /\ sniffer.pos = <<wire.packet, "gap">>
    /\ \/ wire.at = "gap" /\ wire.slot = 0 /\ ~edge
       \/ wire.at = "start" /\ wire.slot = 1 /\ edge

Together == progress # "IN_MAB" => Pair.brk = Pair.mab

Sniffed == Prompt /\ BreakTimed /\ InBreak /\ InMab /\ Together

SniffInv == sniffer.on /\ ~disturbed => Sniffed

-----------------------------------------------------------------------------
(* Helpers of the model *)

\* What the handler stores: the slots that are there, then those of the FIFO.
LEMMA StoredIs ==
  ASSUME Types
  PROVE  /\ Stored \in Seq(Cell) /\ HeadAfter \in Int /\ HeadAfter >= -1
         /\ HeadAfter <= Len(Stored) /\ Len(fifo) \in Nat
         /\ head >= 0 => /\ Len(Stored) = head + Len(fifo) /\ HeadAfter = head + Len(fifo)
                         /\ \A i \in 1..head : Stored[i] = data[i]
                         /\ \A i \in 1..Len(fifo) : Stored[head + i] = fifo[i]
<1> USE DEF Types
<1>1. Len(data) \in Nat /\ Len(fifo) \in Nat
  BY LenProperties
<1>2. CASE head < 0
  BY <1>1, <1>2 DEF Stored, HeadAfter
<1>3. CASE head >= 0
  <2>1. \A i \in 1..head : data[i] \in Cell
    BY <1>1, <1>3, ElementOfSeq
  <2>2. /\ SubSeq(data, 1, head) \in Seq(Cell)
        /\ Len(SubSeq(data, 1, head)) = IF 1 <= head THEN head - 1 + 1 ELSE 0
        /\ \A i \in 1..head - 1 + 1 : SubSeq(data, 1, head)[i] = data[1 + i - 1]
    BY <2>1, SubSeqProperties
  <2>3. Len(SubSeq(data, 1, head)) = head
    BY <1>3, <2>2
  <2>4. \A i \in 1..head : SubSeq(data, 1, head)[i] = data[i]
    <3>1. \A i \in 1..head : i \in 1..head - 1 + 1 /\ 1 + i - 1 = i
      OBVIOUS
    <3>2. QED
      BY <2>2, <3>1
  <2> DEFINE front == SubSeq(data, 1, head)
             s == front \o fifo
  <2>5. Stored = s /\ HeadAfter = head + Len(fifo)
    BY <1>3 DEF Stored, HeadAfter
  <2> HIDE DEF front
  <2>6. /\ s \in Seq(Cell) /\ Len(s) = head + Len(fifo)
        /\ \A i \in 1..head + Len(fifo) : s[i] = IF i <= head THEN front[i] ELSE fifo[i - head]
    <3>1. front \in Seq(Cell) /\ Len(front) = head /\ fifo \in Seq(Cell)
      BY <2>2, <2>3 DEF front
    <3>2. /\ s \in Seq(Cell) /\ Len(s) = Len(front) + Len(fifo)
          /\ \A i \in 1..Len(front) + Len(fifo) :
                s[i] = IF i <= Len(front) THEN front[i] ELSE fifo[i - Len(front)]
      BY <3>1, ConcatProperties
    <3>3. QED
      BY <3>1, <3>2, Zenon
  <2> HIDE DEF s
  <2>7. \A i \in 1..head : s[i] = data[i]
    BY <1>1, <1>3, <2>4, <2>6 DEF front
  <2>8. \A i \in 1..Len(fifo) : s[head + i] = fifo[i]
    <3>1. SUFFICES ASSUME NEW i \in 1..Len(fifo) PROVE s[head + i] = fifo[i]
      OBVIOUS
    <3>2. head + i \in 1..head + Len(fifo) /\ ~(head + i <= head) /\ head + i - head = i
      BY <1>1, <1>3
    <3>3. QED
      BY <2>6, <3>2
  <2>9. QED
    BY <1>1, <1>3, <2>5, <2>6, <2>7, <2>8
<1>4. QED
  BY <1>2, <1>3

\* The FIFO takes a slot, unless it is full.
LEMMA ArrivalFits ==
  ASSUME Types, NEW slot \in Cell, NEW kind \in {"break", "data"}, Arrives(slot, kind)
  PROVE  /\ fifo' \in Seq(Cell) /\ Len(fifo') <= FifoSize
         /\ raised' \subseteq {"break", "data", "overflow"}
<1>1. CASE UNCHANGED uart
  BY <1>1 DEF uart, Types
<1>2. CASE Len(fifo) < FifoSize /\ fifo' = Append(fifo, slot) /\ raised' = raised \cup {kind} \cup {}
  <2>1. fifo' \in Seq(Cell) /\ Len(fifo') = Len(fifo) + 1
    BY <1>2, AppendProperties DEF Types
  <2>2. Len(fifo') <= FifoSize
    BY <1>2, <2>1, LifeCycleAssumption, LenProperties DEF Types
  <2>3. QED
    BY <1>2, <2>1, <2>2 DEF Types
<1>3. CASE fifo' = fifo /\ raised' = raised \cup {kind} \cup {"overflow"}
  BY <1>3 DEF Types
<1>4. QED
  BY <1>1, <1>2, <1>3 DEF Arrives

\* A task that goes on keeps what it saw; one that returns forgets it.
LEMMA GotoIs ==
  ASSUME loc \in [Tasks -> Locals], NEW t \in Tasks, NEW at \in Labels, Goto(t, at)
  PROVE  /\ loc' \in [Tasks -> Locals]
         /\ \A u \in Tasks \ {t} : loc'[u] = loc[u]
         /\ loc'[t].at = at
         /\ at = "idle" => loc'[t] = Resting
         /\ at # "idle" => /\ loc'[t].saw = loc[t].saw
                           /\ loc'[t].done = loc[t].done /\ loc'[t].then = loc[t].then
<1>1. CASE at = "idle"
  <2>1. loc' = [loc EXCEPT ![t] = Resting]
    BY <1>1 DEF Goto
  <2>2. Resting \in Locals /\ Resting.at = "idle"
    BY DEF Resting, Locals, Labels
  <2>3. QED
    BY <1>1, <2>1, <2>2
<1>2. CASE at # "idle"
  <2>1. loc' = [loc EXCEPT ![t] = [loc[t] EXCEPT !.at = at]]
    BY <1>2 DEF Goto
  <2>2. loc[t] \in Locals
    OBVIOUS
  <2>3. /\ [loc[t] EXCEPT !.at = at] \in Locals
        /\ [loc[t] EXCEPT !.at = at].at = at
        /\ [loc[t] EXCEPT !.at = at].saw = loc[t].saw
        /\ [loc[t] EXCEPT !.at = at].done = loc[t].done
        /\ [loc[t] EXCEPT !.at = at].then = loc[t].then
    BY <2>2 DEF Locals
  <2>4. QED
    BY <1>2, <2>1, <2>3
<1>3. QED
  BY <1>1, <1>2

-----------------------------------------------------------------------------
(* Types, the line, the tasks *)

LEMMA InitLife == Init => LifeInv
<1> SUFFICES ASSUME Init PROVE LifeInv
  OBVIOUS
<1> USE DEF Init
<1>1. <<>> \in Seq(Cell) /\ Len(<<>>) = 0
  BY EmptySeq
<1>2. Resting \in Locals /\ Resting.at = "idle" /\ Resting.saw = FALSE /\ Resting.then = "idle"
  BY DEF Resting, Locals, Labels
<1>3. \A t \in Tasks : loc[t] = Resting
  OBVIOUS
<1>4. sniffer \in [on : BOOLEAN, index : {0, 1}, meta : [0..1 -> [brk : Nat, mab : Nat]],
                   neg : Times, pos : Times] /\ ~sniffer.on
  BY DEF Unsniffed, NoPair, Nothing, Times
<1>5. Types
  <2>1. loc \in [Tasks -> Locals]
    BY <1>2
  <2>2. /\ rx \in BOOLEAN /\ enabled \in BOOLEAN
        /\ {asked, crossed, overlap, torn, disturbed} \subseteq BOOLEAN
    OBVIOUS
  <2>3. data \in Seq(Cell) /\ fifo \in Seq(Cell) /\ Len(data) = 0 /\ Len(fifo) = 0
    BY <1>1
  <2>4. /\ size \in Nat /\ head \in Int /\ head >= -1 /\ head <= Len(data)
        /\ Len(fifo) <= FifoSize /\ calls \in 0..MaxCalls
    BY <2>3, LifeCycleAssumption
  <2>5. QED
    BY <1>4, <2>1, <2>2, <2>3, <2>4 DEF Types
<1>6. OnLine
  BY LifeCycleAssumption DEF OnLine
<1>7. Control
  BY <1>2, <1>3 DEF Control, Knows, At
<1>8. Powered
  BY <1>2, <1>3 DEF Powered
<1>9. Quiet
  BY <1>4, <1>8 DEF Quiet
<1>10. QED
  BY <1>5, <1>6, <1>7, <1>9 DEF LifeInv

\* The line moves without the driver.
LEMMA LineLife ==
  ASSUME LifeInv, Line
  PROVE  LifeInv'
<1> USE DEF LifeInv
<1>1. UNCHANGED <<installed, enabled, rx, dmx, sniffer, loc, calls, history>>
  BY DEF Line, BreakStarts, BreakSeen, BreakEnds, SlotStarts, SlotRises, SlotEnds, Moves
<1>2. Control' /\ Quiet'
  BY <1>1 DEF Control, Knows, Quiet, At, Powered, dmx
<1>3. wire.packet \in Nat /\ wire.slot \in Nat
  BY LifeCycleAssumption DEF OnLine
<1>4. <<wire.packet, 0>> \in Cell /\ <<wire.packet, wire.slot>> \in Cell
  BY <1>3 DEF Cell
<1>5. /\ fifo' \in Seq(Cell) /\ Len(fifo') <= FifoSize
      /\ raised' \subseteq {"break", "data", "overflow"}
  <2>1. CASE UNCHANGED uart
    BY <2>1 DEF uart, Types
  <2>2. QED
    BY <2>1, <1>4, ArrivalFits DEF Line, BreakStarts, BreakSeen, BreakEnds, SlotStarts, SlotRises, SlotEnds
<1>6. edge' \in BOOLEAN
  BY DEF Types, Line, BreakStarts, BreakSeen, BreakEnds, SlotStarts, SlotRises, SlotEnds
<1>7. Types'
  BY <1>1, <1>5, <1>6 DEF Types, dmx, history
<1>8. OnLine'
  <2>1. CASE BreakStarts
    BY <2>1, LifeCycleAssumption DEF BreakStarts, Moves, OnLine
  <2>2. CASE BreakSeen
    BY <2>2, LifeCycleAssumption DEF BreakSeen, Moves, OnLine
  <2>3. CASE BreakEnds
    BY <2>3, LifeCycleAssumption DEF BreakEnds, Moves, OnLine
  <2>4. CASE SlotStarts
    <3>1. /\ wire.packet \in 0..MaxPackets /\ wire.packet > 0
          /\ wire.slot \in 0..Slots /\ wire.slot < Slots
      BY <2>4 DEF SlotStarts, Moves, OnLine
    <3>2. wire' = [at |-> "start", packet |-> wire.packet, slot |-> wire.slot + 1]
      BY <2>4 DEF SlotStarts, Moves, OnLine
    <3>3. QED
      BY <3>1, <3>2, LifeCycleAssumption DEF OnLine
  <2>5. CASE SlotRises
    BY <2>5, LifeCycleAssumption DEF SlotRises, Moves, OnLine
  <2>6. CASE SlotEnds
    BY <2>6, LifeCycleAssumption DEF SlotEnds, Moves, OnLine
  <2>7. QED
    BY <2>1, <2>2, <2>3, <2>4, <2>5, <2>6 DEF Line
<1>9. QED
  BY <1>2, <1>7, <1>8

\* The receiver's handler stores what arrived.
LEMMA UartLife ==
  ASSUME LifeInv, UartIsr
  PROVE  LifeInv'
<1> USE DEF LifeInv
<1>1. /\ UNCHANGED <<installed, enabled, rx, rts, wire, edge, sniffer, loc, calls,
                     asked, crossed, overlap, disturbed>>
      /\ data' = Stored /\ fifo' = <<>> /\ raised' = {} /\ rx
  BY DEF UartIsr
<1>2. <<>> \in Seq(Cell) /\ Len(<<>>) = 0
  BY EmptySeq
<1>3. /\ Stored \in Seq(Cell) /\ HeadAfter \in Int /\ HeadAfter >= -1
      /\ HeadAfter <= Len(Stored) /\ Len(Stored) \in Nat
  BY StoredIs, LenProperties
<1>4. /\ head' \in Int /\ head' >= -1 /\ head' <= Len(Stored) /\ size' \in Nat
      /\ status' \in {"IDLE", "RECEIVING", "SENDING"} /\ unread' \in BOOLEAN
      /\ progress' \in {"STALE", "IN_BREAK", "IN_MAB", "IN_DATA", "COMPLETE"}
      /\ torn' \in BOOLEAN
  <2>1. CASE RxBreak
    <3>1. size' \in Nat
      BY <2>1, <1>3 DEF RxBreak, Types
    <3>2. unread' \in BOOLEAN
      BY <2>1 DEF RxBreak, Types
    <3>3. QED
      BY <2>1, <1>3, <3>1, <3>2 DEF RxBreak, Types
  <2>2. CASE RxData
    <3>1. head' = HeadAfter /\ size' = size
          /\ status' \in {"IDLE", status}
          /\ progress' \in {"COMPLETE", "IN_DATA", progress}
          /\ unread' \in BOOLEAN /\ torn' \in BOOLEAN
      BY <2>2 DEF RxData, Types
    <3>2. QED
      BY <3>1, <1>3 DEF Types
  <2>3. QED
    BY <2>1, <2>2 DEF UartIsr
<1>5. Types'
  BY <1>1, <1>2, <1>3, <1>4, LifeCycleAssumption DEF Types
<1>6. OnLine' /\ Control'
  BY <1>1 DEF OnLine, Control, Knows, At, Powered
<1>7. Quiet'
  BY <1>1 DEF Quiet, Powered
<1>8. QED
  BY <1>5, <1>6, <1>7

\* The handler of an edge moves the progress and notes the time.
LEMMA GpioLife ==
  ASSUME LifeInv, GpioIsr
  PROVE  LifeInv'
<1> USE DEF LifeInv
<1>1. /\ UNCHANGED <<installed, enabled, rx, rts, status, head, size, data, unread, wire, uart,
                     loc, calls, asked, crossed, overlap, torn>>
      /\ edge' = FALSE /\ sniffer.on
  BY DEF GpioIsr
<1>2. Edge \in Times /\ wire.packet \in Nat
  BY LifeCycleAssumption DEF Edge, Times, OnLine
<1> DEFINE S == [on : BOOLEAN, index : {0, 1}, meta : [0..1 -> [brk : Nat, mab : Nat]],
                 neg : Times, pos : Times]
<1>3. sniffer' \in S /\ sniffer'.on
  <2>1. sniffer \in S /\ sniffer.on
    BY <1>1 DEF Types
  <2>2. sniffer.index \in {0, 1} /\ 1 - sniffer.index \in {0, 1}
    BY <2>1
  <2> DEFINE M == [0..1 -> [brk : Nat, mab : Nat]]
  <2>3. ASSUME NEW i \in {0, 1}, NEW p \in Nat
        PROVE  /\ [sniffer.meta EXCEPT ![i].brk = p] \in M
               /\ [sniffer.meta EXCEPT ![i].mab = p] \in M
    <3>1. i \in 0..1 /\ sniffer.meta \in M
      BY <2>1
    <3>2. sniffer.meta[i] \in [brk : Nat, mab : Nat]
      BY <3>1
    <3>3. /\ [sniffer.meta[i] EXCEPT !.brk = p] \in [brk : Nat, mab : Nat]
          /\ [sniffer.meta[i] EXCEPT !.mab = p] \in [brk : Nat, mab : Nat]
      BY <3>2
    <3>4. QED
      BY <3>1, <3>3
  <2> DEFINE timedBreak == IF sniffer.neg = <<wire.packet, "low">> /\ wire.at = "gap" THEN wire.packet ELSE 0
             timedMark == IF sniffer.pos = <<wire.packet, "gap">> /\ wire.slot = 1 THEN wire.packet ELSE 0
  <2>4. timedBreak \in Nat /\ timedMark \in Nat
    BY <1>2
  <2>5. /\ sniffer.meta \in M
        /\ [sniffer.meta EXCEPT ![1 - sniffer.index].brk = timedBreak] \in M
        /\ [sniffer.meta EXCEPT ![sniffer.index].mab = timedMark] \in M
    BY <2>1, <2>2, <2>3, <2>4
  <2>6. /\ sniffer'.on = sniffer.on
        /\ sniffer'.index \in {0, 1} /\ sniffer'.meta \in M
        /\ sniffer'.neg \in Times /\ sniffer'.pos \in Times
        /\ sniffer' \in [on : {sniffer'.on}, index : {sniffer'.index}, meta : {sniffer'.meta},
                         neg : {sniffer'.neg}, pos : {sniffer'.pos}]
    <3>1. CASE PositiveEdge /\ BreakOver
      <4>1. sniffer' = [sniffer EXCEPT !.index = 1 - sniffer.index, !.pos = Edge,
                          !.meta[1 - sniffer.index].brk = timedBreak]
        BY <3>1 DEF PositiveEdge
      <4>2. sniffer' = [sniffer EXCEPT !.index = 1 - sniffer.index, !.pos = Edge,
                          !.meta = [sniffer.meta EXCEPT ![1 - sniffer.index].brk = timedBreak]]
        BY <4>1, <2>1
      <4>3. QED
        BY <4>2, <2>1, <2>2, <2>5, <1>2
    <3>2. CASE NegativeEdge /\ progress = "IN_MAB"
      <4>1. sniffer' = [sniffer EXCEPT !.neg = Edge, !.meta[sniffer.index].mab = timedMark]
        BY <3>2 DEF NegativeEdge
      <4>2. sniffer' = [sniffer EXCEPT !.neg = Edge,
                          !.meta = [sniffer.meta EXCEPT ![sniffer.index].mab = timedMark]]
        BY <4>1, <2>1
      <4>3. QED
        BY <4>2, <2>1, <2>2, <2>5, <1>2
    <3>3. CASE sniffer' = [sniffer EXCEPT !.pos = Edge] \/ sniffer' = [sniffer EXCEPT !.neg = Edge]
      BY <3>3, <2>1, <1>2
    <3>4. QED
      BY <3>1, <3>2, <3>3 DEF GpioIsr, PositiveEdge, NegativeEdge
  <2>7. QED
    BY <2>1, <2>6
<1>4. progress' \in {progress, "IN_MAB", "IN_DATA"} /\ disturbed' \in BOOLEAN
  BY DEF GpioIsr, PositiveEdge, NegativeEdge, Types
<1>5. Types'
  BY <1>1, <1>3, <1>4 DEF Types, uart
<1>6. OnLine' /\ Control'
  BY <1>1 DEF OnLine, Control, Knows, At, Powered
<1>7. Quiet'
  BY <1>1, <1>3 DEF Quiet, Powered
<1>8. QED
  BY <1>5, <1>6, <1>7

\* The sniffer is switched, a packet marked as read, the bus turned around,
\* and sending ends, all of it on a port that is installed.
LEMMA PortLife ==
  ASSUME LifeInv, SnifferEnable \/ SnifferDisable \/ MarkRead \/ TurnToRead \/ SendingEnds
  PROVE  LifeInv'
<1> USE DEF LifeInv
<1>1. /\ UNCHANGED <<installed, enabled, rx, wire, uart, loc, calls, asked, crossed, overlap, torn>>
      /\ Ready
  BY DEF SnifferEnable, SnifferDisable, MarkRead, TurnToRead, SendingEnds, history
<1>2. OnLine' /\ Control'
  BY <1>1 DEF OnLine, Control, Knows, At, Powered
<1>3. Powered /\ Powered' /\ installed
  BY <1>1 DEF Ready, Powered
<1>4. Nothing \in Times
  BY DEF Nothing, Times
<1>5. Quiet'
  BY <1>1, <1>3 DEF Quiet
<1>6. Types'
  <2>1. CASE SnifferEnable
    BY <1>1, <1>4, <2>1 DEF SnifferEnable, Types, dmx, uart
  <2>2. CASE SnifferDisable
    BY <1>1, <2>2 DEF SnifferDisable, Types, dmx, uart, history
  <2>3. CASE MarkRead
    BY <1>1, <2>3 DEF MarkRead, Types, uart
  <2>4. CASE TurnToRead \/ SendingEnds
    <3>1. Len(data) \in Nat
      BY LenProperties DEF Types
    <3>2. (head' = head \/ head' = -1) /\ UNCHANGED data /\ (rts' = rts \/ rts' = TRUE)
      BY <2>4 DEF TurnToRead, SendingEnds
    <3>3. head \in Int /\ head >= -1 /\ head <= Len(data) /\ rts \in BOOLEAN
      BY DEF Types
    <3>4. head' \in Int /\ head' >= -1 /\ head' <= Len(data') /\ rts' \in BOOLEAN
      <4>1. rts' \in BOOLEAN
        BY <3>2, <3>3
      <4>2. head' \in Int /\ head' >= -1 /\ head' <= Len(data)
        BY <3>1, <3>2, <3>3
      <4>3. QED
        BY <3>2, <4>1, <4>2, Zenon
    <3>5. QED
      BY <1>1, <2>4, <3>4 DEF TurnToRead, SendingEnds, Types, uart, history
  <2>5. QED
    BY <2>1, <2>2, <2>3, <2>4
<1>7. QED
  BY <1>2, <1>5, <1>6

-----------------------------------------------------------------------------
(* Tasks *)

\* A step of one task leaves what the others know.
LEMMA OthersKnow ==
  ASSUME Control, loc \in [Tasks -> Locals], NEW t \in Tasks,
         \A u \in Tasks \ {t} : loc'[u] = loc[u],
         installed' = installed,
         loc'[t].then = "init" => loc[t].then = "init",
         loc'[t].at = "send" => Powered
  PROVE  /\ Powered => Powered'
         /\ Knows(t)' => Control'
<1>1. ASSUME Powered PROVE Powered'
  BY <1>1 DEF Powered
<1>2. ASSUME NEW u \in Tasks \ {t} PROVE Knows(u)'
  <2>1. Knows(u) /\ loc'[u] = loc[u]
    BY DEF Control
  <2>2. QED
    BY <2>1, <1>1 DEF Knows, At
<1>3. ASSUME Knows(t)' PROVE Control'
  <2>1. \A u \in Tasks : Knows(u)'
    BY <1>2, <1>3
  <2>2. \A u \in Tasks : loc'[u].then = "init" => loc[u].then = "init"
    OBVIOUS
  <2>3. QED
    BY <2>1, <2>2 DEF Control
<1>4. QED
  BY <1>1, <1>3

\* A step that moves a task and nothing else but what has happened.
LEMMA MoveLife ==
  ASSUME LifeInv, NEW t \in Tasks,
         CheckDisable(t) \/ CheckEnable(t) \/ FlashBegins(t) \/ FlashEnds(t) \/ AccessEnds(t)
  PROVE  LifeInv'
<1> USE DEF LifeInv
<1>1. /\ UNCHANGED <<installed, enabled, rx, dmx, wire, uart, edge, sniffer, calls,
                     asked, crossed, overlap, torn>>
      /\ disturbed' \in BOOLEAN
  BY DEF CheckDisable, CheckEnable, FlashBegins, FlashEnds, AccessEnds, history, Types
<1>2. loc \in [Tasks -> Locals] /\ loc[t] \in Locals
  BY DEF Types
<1>3. Knows(t)
  BY DEF Control
<1>4. PICK at \in Labels :
        /\ Goto(t, at) /\ loc[t].at # "idle"
        /\ at \in {"look", "access", "flash"} => loc[t].done = "access"
        /\ at = "init" => loc[t].then = "init"
        /\ at \in {"disable", "enable"} => installed
        /\ at # "send"
  <2>1. loc[t].done \in {"idle", "access"} /\ loc[t].then \in {"idle", "init"}
    BY <1>2 DEF Locals
  <2>2. loc[t].at \in {"access", "flash"} => loc[t].done = "access"
    BY <1>3 DEF Knows
  <2>3. CASE CheckDisable(t)
    BY <2>1, <2>3 DEF CheckDisable, Runs, At, Labels
  <2>4. CASE CheckEnable(t)
    BY <2>1, <2>4 DEF CheckEnable, Runs, At, Labels
  <2>5. CASE FlashBegins(t) \/ FlashEnds(t)
    BY <2>2, <2>5 DEF FlashBegins, FlashEnds, Runs, At, Labels
  <2>6. CASE AccessEnds(t)
    BY <2>1, <2>6 DEF AccessEnds, Runs, At, Labels
  <2>7. QED
    BY <2>3, <2>4, <2>5, <2>6
<1>5. /\ loc' \in [Tasks -> Locals]
      /\ \A u \in Tasks \ {t} : loc'[u] = loc[u]
      /\ loc'[t].at = at
      /\ at = "idle" => loc'[t] = Resting
      /\ at # "idle" => /\ loc'[t].saw = loc[t].saw
                        /\ loc'[t].done = loc[t].done /\ loc'[t].then = loc[t].then
  BY <1>2, <1>4, GotoIs
<1>6. loc'[t].then = "init" => loc[t].then = "init"
  BY <1>5 DEF Resting
<1>7. Knows(t)'
  BY <1>1, <1>3, <1>4, <1>5 DEF Knows, At, Resting
<1>8. Control' /\ (Powered => Powered')
  BY <1>1, <1>2, <1>4, <1>5, <1>6, <1>7, OthersKnow
<1>9. Types'
  BY <1>1, <1>5 DEF Types, dmx, uart
<1>10. OnLine' /\ Quiet'
  BY <1>1, <1>8 DEF OnLine, Quiet, dmx
<1>11. QED
  BY <1>8, <1>9, <1>10

\* The look at a driver, before an access to flash.
LEMMA LookLife ==
  ASSUME LifeInv, NEW t \in Tasks, Look(t)
  PROVE  LifeInv'
<1> USE DEF LifeInv
<1>1. UNCHANGED <<installed, enabled, rx, dmx, wire, uart, edge, sniffer, calls, history>>
  BY DEF Look
<1>2. loc \in [Tasks -> Locals] /\ loc[t] \in Locals /\ Knows(t) /\ loc[t].at = "look"
  BY DEF Types, Control, Look, Runs, At
<1>3. /\ loc' \in [Tasks -> Locals]
      /\ \A u \in Tasks \ {t} : loc'[u] = loc[u]
      /\ loc'[t].at = "check_disable" /\ loc'[t].saw = (installed /\ enabled)
      /\ loc'[t].done = loc[t].done /\ loc'[t].then = loc[t].then
  <2>1. (installed /\ enabled) \in BOOLEAN
    BY DEF Types
  <2>2. loc' = [loc EXCEPT ![t] = [loc[t] EXCEPT !.at = "check_disable", !.saw = installed /\ enabled]]
    BY <1>2 DEF Look
  <2>3. QED
    BY <1>2, <2>1, <2>2 DEF Locals, Labels
<1>4. Knows(t)'
  BY <1>1, <1>2, <1>3 DEF Knows, At
<1>5. Control' /\ (Powered => Powered')
  BY <1>1, <1>2, <1>3, <1>4, OthersKnow
<1>6. Types'
  BY <1>1, <1>3 DEF Types, dmx, uart, history
<1>7. OnLine' /\ Quiet'
  BY <1>1, <1>5 DEF OnLine, Quiet, dmx
<1>8. QED
  BY <1>5, <1>6, <1>7

\* The driver is disabled or enabled, or a packet is begun.
LEMMA SwitchLife ==
  ASSUME LifeInv, NEW t \in Tasks, Disable(t) \/ Enable(t) \/ StartSending(t)
  PROVE  LifeInv'
<1> USE DEF LifeInv
<1>1. UNCHANGED <<installed, wire, size, data, sniffer, calls, torn, unread, edge>>
  BY DEF Disable, Enable, StartSending, dmx, history
<1>2. loc \in [Tasks -> Locals] /\ loc[t] \in Locals /\ Knows(t)
  BY DEF Types, Control
<1>3. installed /\ (Powered \/ ~StartSending(t))
  BY <1>2 DEF Knows, Disable, Enable, StartSending, Runs, At
<1>4. PICK at \in {"idle", "access", "init"} :
        /\ Goto(t, at) /\ loc[t].at # "idle"
        /\ at = "access" => loc[t].done = "access"
        /\ at = "init" => loc[t].then = "init"
  <2>1. loc[t].done \in {"idle", "access"} /\ loc[t].then \in {"idle", "init"}
    BY <1>2 DEF Locals
  <2>2. QED
    BY <2>1 DEF Disable, Enable, StartSending, Runs, At
<1>5. /\ loc' \in [Tasks -> Locals]
      /\ \A u \in Tasks \ {t} : loc'[u] = loc[u]
      /\ loc'[t].at = at
      /\ at = "idle" => loc'[t] = Resting
      /\ at # "idle" => /\ loc'[t].saw = loc[t].saw
                        /\ loc'[t].done = loc[t].done /\ loc'[t].then = loc[t].then
  <2>1. at \in Labels
    BY DEF Labels
  <2>2. QED
    BY <1>2, <1>4, <2>1, GotoIs
<1>6. loc'[t].then = "init" => loc[t].then = "init"
  BY <1>5 DEF Resting
<1>7. Knows(t)'
  BY <1>1, <1>2, <1>4, <1>5 DEF Knows, At, Resting
<1>8. Control' /\ (Powered => Powered')
  BY <1>1, <1>2, <1>4, <1>5, <1>6, <1>7, OthersKnow
<1>9. Len(data) \in Nat /\ <<>> \in Seq(Cell) /\ Len(<<>>) = 0
  BY LenProperties, EmptySeq DEF Types
<1>10. Types' /\ Quiet'
  <2>1. CASE Disable(t)
    <3>1. /\ UNCHANGED <<dmx, fifo, crossed>> /\ disturbed' = TRUE
          /\ enabled' \in BOOLEAN /\ raised' \subseteq raised
          /\ overlap' \in BOOLEAN /\ asked' \in BOOLEAN
          /\ rx' = rx \/ rx' = FALSE
      BY <2>1 DEF Disable, Types
    <3>2. Types'
      BY <1>1, <1>5, <3>1 DEF Types, dmx
    <3>3. QED
      BY <1>1, <1>8, <3>1, <3>2 DEF Quiet, dmx
  <2>2. CASE Enable(t)
    <3>1. /\ UNCHANGED <<rts, status, progress>> /\ disturbed' = TRUE
          /\ enabled' = TRUE /\ head' = -1 /\ fifo' = <<>> /\ raised' = {}
          /\ asked' = FALSE /\ overlap' \in BOOLEAN /\ crossed' \in BOOLEAN
          /\ rx' = Powered
      BY <2>2 DEF Enable, HeadEnabled
    <3>2. Powered \in BOOLEAN
      BY DEF Powered
    <3>3. Types'
      <4>1. rx' \in BOOLEAN
        BY <3>1, <3>2, Zenon
      <4>2. head' \in Int /\ head' >= -1 /\ head' <= Len(data') /\ Len(fifo') <= FifoSize
        BY <1>1, <1>9, <3>1, LifeCycleAssumption
      <4>3. fifo' \in Seq(Cell)
        BY <1>9, <3>1
      <4>4. {asked, crossed, overlap, torn, disturbed}' \subseteq BOOLEAN
        BY <1>1, <3>1 DEF Types
      <4>5. UNCHANGED <<rts, status, progress>> /\ enabled' \in BOOLEAN /\ raised' = {}
        BY <3>1
      <4>6. QED
        BY <1>1, <1>5, <4>1, <4>2, <4>3, <4>4, <4>5 DEF Types
    <3>4. QED
      BY <1>1, <1>3, <1>8, <3>1, <3>3 DEF Quiet
  <2>3. CASE StartSending(t)
    <3>1. /\ UNCHANGED <<enabled, rx, fifo, raised, asked, crossed, overlap, disturbed>>
          /\ rts' = FALSE /\ status' = "SENDING" /\ progress' = "IN_BREAK" /\ head' = 0
      BY <2>3 DEF StartSending, uart, history
    <3>2. Types'
      <4>1. head' \in Int /\ head' >= -1 /\ head' <= Len(data')
        BY <1>1, <1>9, <3>1
      <4>2. QED
        BY <1>1, <1>5, <3>1, <4>1 DEF Types
    <3>3. QED
      BY <1>1, <1>3, <1>8, <2>3, <3>1, <3>2 DEF Quiet
  <2>4. QED
    BY <2>1, <2>2, <2>3
<1>11. OnLine'
  BY <1>1 DEF OnLine
<1>12. QED
  BY <1>8, <1>10, <1>11

\* The end of an installation: the receiver interrupts.
LEMMA InstallEndsLife ==
  ASSUME LifeInv, NEW t \in Tasks, InstallEnds(t)
  PROVE  LifeInv'
<1> USE DEF LifeInv
<1>1. /\ UNCHANGED <<installed, enabled, status, progress, head, size, data, unread, wire, edge,
                     sniffer, calls, asked, crossed, torn, disturbed>>
      /\ rx' = TRUE /\ rts' = TRUE /\ fifo' = <<>> /\ raised' = {} /\ overlap' \in BOOLEAN
  BY DEF InstallEnds
<1>2. loc \in [Tasks -> Locals] /\ loc[t] \in Locals /\ Knows(t) /\ loc[t].at = "init"
  BY DEF Types, Control, InstallEnds, Runs, At
<1>3. installed /\ loc[t].then = "init"
  BY <1>2 DEF Knows, At
<1>4. /\ loc' \in [Tasks -> Locals]
      /\ \A u \in Tasks \ {t} : loc'[u] = loc[u]
      /\ loc'[t] = Resting /\ Resting.at = "idle" /\ Resting.then = "idle" /\ Resting.saw = FALSE
  <2>1. "idle" \in Labels
    BY DEF Labels
  <2>2. QED
    BY <1>2, <2>1, GotoIs DEF InstallEnds, Resting
<1>5. Knows(t)'
  BY <1>1, <1>4 DEF Knows, At
<1>6. Control'
  BY <1>1, <1>2, <1>4, <1>5, OthersKnow
<1>7. Powered'
  <2>1. \A u \in Tasks \ {t} : loc[u].then # "init"
    BY <1>3 DEF Control
  <2>2. QED
    BY <1>4, <2>1 DEF Powered
<1>8. Types'
  <2>1. fifo' \in Seq(Cell) /\ Len(fifo') <= FifoSize
    BY <1>1, EmptySeq, LifeCycleAssumption
  <2>2. {asked, crossed, overlap, torn, disturbed}' \subseteq BOOLEAN
    BY <1>1 DEF Types
  <2>3. QED
    BY <1>1, <1>4, <2>1, <2>2 DEF Types
<1>9. OnLine' /\ Quiet'
  BY <1>1, <1>3, <1>7 DEF OnLine, Quiet
<1>10. QED
  BY <1>6, <1>8, <1>9

\* A call of the application that goes through labels of its own.
LEMMA BeginLife ==
  ASSUME LifeInv, NEW t \in Tasks, Runs(t, "idle"), calls < MaxCalls, calls' = calls + 1,
         \/ Begin(t, "look", "access")
         \/ Ready /\ Begin(t, "check_disable", "idle")
         \/ Ready /\ Begin(t, "check_enable", "idle")
         \/ Ready /\ enabled /\ Begin(t, "send", "idle")
  PROVE  LifeInv'
<1> USE DEF LifeInv
<1>1. UNCHANGED <<installed, enabled, rx, dmx, wire, uart, edge, sniffer, history>>
  BY DEF Begin
<1>2. loc \in [Tasks -> Locals] /\ loc[t] \in Locals
  BY DEF Types
<1>3. PICK at \in {"look", "check_disable", "check_enable", "send"}, done \in {"idle", "access"} :
        /\ loc' = [loc EXCEPT ![t] = [Resting EXCEPT !.at = at, !.done = done]]
        /\ at = "look" => done = "access"
        /\ at = "send" => installed /\ Powered
  BY DEF Begin, Ready
<1>4. /\ loc' \in [Tasks -> Locals]
      /\ \A u \in Tasks \ {t} : loc'[u] = loc[u]
      /\ loc'[t].at = at /\ loc'[t].done = done /\ loc'[t].saw = FALSE /\ loc'[t].then = "idle"
  <2> DEFINE r == [Resting EXCEPT !.at = at, !.done = done]
  <2>1. r \in Locals /\ r.at = at /\ r.done = done /\ r.saw = FALSE /\ r.then = "idle"
    BY DEF Resting, Locals, Labels
  <2>2. loc' = [loc EXCEPT ![t] = r]
    BY <1>3
  <2> HIDE DEF r
  <2>3. QED
    BY <1>2, <2>1, <2>2
<1>5. Powered => Powered'
  BY <1>4 DEF Powered
<1>6. Knows(t)'
  BY <1>1, <1>3, <1>4, <1>5 DEF Knows, At
<1>7. Control'
  BY <1>1, <1>2, <1>3, <1>4, <1>6, OthersKnow
<1>8. Types'
  <2>1. calls' \in 0..MaxCalls
    BY LifeCycleAssumption DEF Types
  <2>2. QED
    BY <1>1, <1>4, <2>1 DEF Types, dmx, uart, history
<1>9. OnLine' /\ Quiet'
  BY <1>1, <1>5 DEF OnLine, Quiet, dmx
<1>10. QED
  BY <1>7, <1>8, <1>9

\* The driver is there before its peripherals are.
LEMMA InstallBeginsLife ==
  ASSUME LifeInv, NEW t \in Tasks, Runs(t, "idle"), calls < MaxCalls, calls' = calls + 1,
         InstallBegins(t)
  PROVE  LifeInv'
<1> USE DEF LifeInv
<1>1. /\ ~installed /\ installed' = TRUE /\ enabled' = TRUE /\ rx' = FALSE /\ asked' = FALSE
      /\ status' = "IDLE" /\ progress' = "STALE" /\ head' = -1 /\ size' = Slots
      /\ data' = <<>> /\ unread' = FALSE /\ sniffer' = Unsniffed
      /\ overlap' \in BOOLEAN /\ crossed' \in BOOLEAN /\ disturbed' = TRUE
      /\ loc' = [loc EXCEPT ![t] = [at |-> "look", saw |-> FALSE, done |-> "access", then |-> "init"]]
      /\ UNCHANGED <<rts, wire, fifo, raised, edge, torn>>
  BY DEF InstallBegins, uart
<1>2. /\ loc' \in [Tasks -> Locals]
      /\ \A u \in Tasks \ {t} : loc'[u] = loc[u]
      /\ loc'[t] = [at |-> "look", saw |-> FALSE, done |-> "access", then |-> "init"]
  BY <1>1 DEF Types, Locals, Labels
<1>3. \A u \in Tasks \ {t} : Knows(u) /\ loc[u].then # "init" /\ ~At(u, "send")
  BY <1>1 DEF Control, Knows
<1>4. Control'
  <2>1. \A u \in Tasks \ {t} : Knows(u)'
    BY <1>1, <1>2, <1>3 DEF Knows, At
  <2>2. Knows(t)'
    BY <1>1, <1>2 DEF Knows, At
  <2>3. QED
    BY <1>2, <1>3, <2>1, <2>2 DEF Control
<1>5. sniffer' \in [on : BOOLEAN, index : {0, 1}, meta : [0..1 -> [brk : Nat, mab : Nat]],
                   neg : Times, pos : Times] /\ ~sniffer'.on
  BY <1>1 DEF Unsniffed, NoPair, Nothing, Times
<1>6. Types'
  <2>1. data' \in Seq(Cell) /\ Len(data') = 0
    BY <1>1, EmptySeq
  <2>2. {asked, crossed, overlap, torn, disturbed}' \subseteq BOOLEAN
    BY <1>1 DEF Types
  <2>3. calls' \in 0..MaxCalls /\ size' \in Nat
    BY <1>1, LifeCycleAssumption DEF Types
  <2>4. head' \in Int /\ head' >= -1 /\ head' <= Len(data')
    BY <1>1, <2>1
  <2>5. /\ installed' \in BOOLEAN /\ enabled' \in BOOLEAN /\ rx' \in BOOLEAN /\ rts' \in BOOLEAN
        /\ unread' \in BOOLEAN /\ edge' \in BOOLEAN
        /\ status' = "IDLE" /\ progress' = "STALE"
        /\ UNCHANGED <<fifo, raised>>
    BY <1>1 DEF Types
  <2>6. QED
    BY <1>2, <1>5, <2>1, <2>2, <2>3, <2>4, <2>5 DEF Types
<1>7. OnLine' /\ Quiet'
  BY <1>1, <1>5 DEF OnLine, Quiet
<1>8. QED
  BY <1>4, <1>6, <1>7

\* A deleted driver has no receiver and no sniffer.
LEMMA DeleteLife ==
  ASSUME LifeInv, NEW t \in Tasks, Runs(t, "idle"), calls < MaxCalls, calls' = calls + 1,
         Delete(t)
  PROVE  LifeInv'
<1> USE DEF LifeInv
<1>1. /\ installed' = FALSE /\ enabled' = FALSE /\ rx' = FALSE
      /\ sniffer' = Unsniffed /\ unread' = FALSE
      /\ status' = "IDLE" /\ asked' = FALSE
      /\ fifo' = <<>> /\ raised' = {}
      /\ UNCHANGED <<rts, progress, head, size, data, wire, edge, loc,
                     crossed, overlap, torn, disturbed>>
      /\ Powered
  BY DEF Delete, Ready
<1>2. \A u \in Tasks : Knows(u) /\ loc[u].at \notin {"send", "disable", "enable"} /\ loc[u].then # "init"
  BY <1>1 DEF Control, Delete, Runs, At, Powered
<1>3. Control'
  <2>1. \A u \in Tasks : Knows(u)'
    BY <1>1, <1>2 DEF Knows, At
  <2>2. QED
    BY <1>1, <1>2, <2>1 DEF Control
<1>4. sniffer' \in [on : BOOLEAN, index : {0, 1}, meta : [0..1 -> [brk : Nat, mab : Nat]],
                   neg : Times, pos : Times] /\ ~sniffer'.on
  BY <1>1 DEF Unsniffed, NoPair, Nothing, Times
<1>5. Types'
  <2>1. fifo' \in Seq(Cell) /\ Len(fifo') <= FifoSize
    BY <1>1, EmptySeq, LifeCycleAssumption
  <2>2. {asked, crossed, overlap, torn, disturbed}' \subseteq BOOLEAN
    BY <1>1 DEF Types
  <2>3. calls' \in 0..MaxCalls
    BY LifeCycleAssumption DEF Types
  <2>4. /\ installed' \in BOOLEAN /\ enabled' \in BOOLEAN /\ rx' \in BOOLEAN /\ unread' \in BOOLEAN
        /\ status' = "IDLE" /\ raised' = {}
        /\ UNCHANGED <<rts, progress, head, size, data, edge, loc>>
    BY <1>1
  <2>5. QED
    BY <1>4, <2>1, <2>2, <2>3, <2>4 DEF Types
<1>6. Powered'
  BY <1>1 DEF Powered
<1>7. OnLine' /\ Quiet'
  BY <1>1, <1>4, <1>6 DEF OnLine, Quiet
<1>8. QED
  BY <1>3, <1>5, <1>7

\* Types, the line and what the tasks know, in every step.
LEMMA LifeStep ==
  ASSUME LifeInv, [Next]_vars
  PROVE  LifeInv'
<1>1. CASE UNCHANGED vars
  BY <1>1 DEF vars, dmx, uart, history, LifeInv, Types, OnLine, Control, Knows, Quiet, At, Powered
<1>2. ASSUME NEW t \in Tasks, TaskNext(t) PROVE LifeInv'
  <2>1. CASE Call(t)
    BY <2>1, BeginLife, InstallBeginsLife, DeleteLife DEF Call
  <2>2. CASE Nvs(t)
    BY <2>2, LookLife, MoveLife DEF Nvs
  <2>3. CASE Switch(t)
    BY <2>3, SwitchLife, MoveLife DEF Switch
  <2>4. QED
    BY <1>2, <2>1, <2>2, <2>3, InstallEndsLife, SwitchLife DEF TaskNext
<1>3. QED
  BY <1>1, <1>2, LineLife, UartLife, GpioLife, PortLife DEF Next

\* The invariant of the life cycle.
LEMMA LifeInvariant == Spec => []LifeInv
<1>1. LifeInv /\ [Next]_vars => LifeInv'
  BY LifeStep
<1>2. QED
  BY <1>1, InitLife, PTL DEF Spec

\* The receiver interrupts only for a driver that is installed
\* (dmx_driver_install(), dmx_driver_delete()), whatever tasks access flash.
THEOREM TypeCorrect == Spec => []TypeOK
<1>1. LifeInv => TypeOK
  <2> SUFFICES ASSUME LifeInv PROVE TypeOK
    OBVIOUS
  <2>1. sniffer.on \in BOOLEAN
    BY DEF LifeInv, Types
  <2>2. QED
    BY <2>1 DEF LifeInv, Types, Quiet, TypeOK
<1>2. QED
  BY <1>1, LifeInvariant, PTL

-----------------------------------------------------------------------------
(* A driver that was enabled is enabled again *)

\* A step of one task that leaves the driver's state alone.
LEMMA OthersEnable ==
  ASSUME EnabledInv, NEW t \in Tasks, ~crossed,
         \A u \in Tasks \ {t} : loc'[u] = loc[u],
         NeedsNoDisable(t)',
         UNCHANGED <<installed, enabled, asked>>,
         WillEnable(t) /\ installed /\ ~enabled => WillEnable(t)'
  PROVE  EnabledInv'
<1>1. NeverLeftDisabled /\ \A u \in Tasks : NeedsNoDisable(u)
  BY DEF EnabledInv
<1>2. \A u \in Tasks : NeedsNoDisable(u)'
  <2>1. ASSUME NEW u \in Tasks \ {t} PROVE NeedsNoDisable(u)'
    BY <1>1 DEF NeedsNoDisable
  <2>2. QED
    BY <2>1
<1>3. NeverLeftDisabled'
  <2>1. SUFFICES ASSUME installed, ~enabled, ~asked PROVE \E u \in Tasks : WillEnable(u)'
    BY DEF NeverLeftDisabled
  <2>2. PICK w \in Tasks : WillEnable(w)
    BY <1>1, <2>1 DEF NeverLeftDisabled
  <2>3. CASE w = t
    BY <2>1, <2>2, <2>3
  <2>4. CASE w # t
    BY <2>2, <2>4 DEF WillEnable
  <2>5. QED
    BY <2>3, <2>4
<1>4. QED
  BY <1>2, <1>3 DEF EnabledInv

\* On its way through an access to flash a task that saw the driver enabled
\* does not turn off before it has enabled it.
LEMMA MoveEnabled ==
  ASSUME LifeInv, EnabledInv, NEW t \in Tasks, ~crossed,
         CheckDisable(t) \/ CheckEnable(t) \/ FlashBegins(t) \/ FlashEnds(t) \/ AccessEnds(t)
  PROVE  EnabledInv'
<1>1. UNCHANGED <<installed, enabled, asked, crossed>>
  BY DEF CheckDisable, CheckEnable, FlashBegins, FlashEnds, AccessEnds, history
<1>2. loc \in [Tasks -> Locals] /\ loc[t] \in Locals /\ Knows(t)
  BY DEF LifeInv, Types, Control
<1>3. PICK at \in Labels :
        /\ Goto(t, at) /\ at # "check_disable"
        /\ at = "disable" => At(t, "check_disable") /\ installed /\ enabled
        /\ WillEnable(t) /\ installed /\ ~enabled => at \in {"access", "flash", "check_enable", "enable"}
  <2>1. loc[t].done \in {"idle", "access"} /\ loc[t].then \in {"idle", "init"}
    BY <1>2 DEF Locals
  <2>2. CASE CheckDisable(t)
    BY <2>1, <2>2 DEF CheckDisable, Runs, At, Labels, WillEnable
  <2>3. CASE CheckEnable(t)
    BY <2>1, <2>3 DEF CheckEnable, Runs, At, Labels, WillEnable
  <2>4. CASE FlashBegins(t) \/ FlashEnds(t)
    BY <2>4 DEF FlashBegins, FlashEnds, Runs, At, Labels, WillEnable
  <2>5. CASE AccessEnds(t)
    BY <2>1, <2>5 DEF AccessEnds, Runs, At, Labels, WillEnable
  <2>6. QED
    BY <2>2, <2>3, <2>4, <2>5
<1>4. /\ loc' \in [Tasks -> Locals]
      /\ \A u \in Tasks \ {t} : loc'[u] = loc[u]
      /\ loc'[t].at = at
      /\ at = "idle" => loc'[t] = Resting
      /\ at # "idle" => /\ loc'[t].saw = loc[t].saw
                        /\ loc'[t].done = loc[t].done /\ loc'[t].then = loc[t].then
  BY <1>2, <1>3, GotoIs
<1>5. NeedsNoDisable(t)
  BY DEF EnabledInv
<1>6. NeedsNoDisable(t)'
  BY <1>3, <1>4, <1>5 DEF NeedsNoDisable, At, Resting
<1>7. WillEnable(t) /\ installed /\ ~enabled => WillEnable(t)'
  BY <1>3, <1>4 DEF WillEnable
<1>8. QED
  BY <1>1, <1>4, <1>6, <1>7, OthersEnable

\* What disables a driver has seen it enabled, or is the application.
LEMMA DisableEnabled ==
  ASSUME LifeInv, EnabledInv, NEW t \in Tasks, ~crossed, Disable(t)
  PROVE  EnabledInv'
<1>1. loc \in [Tasks -> Locals] /\ loc[t] \in Locals /\ Knows(t) /\ loc[t].at = "disable"
  BY DEF LifeInv, Types, Control, Disable, Runs, At
<1>2. loc[t].done \in {"idle", "access"} /\ loc[t].done \in Labels
  BY <1>1 DEF Locals, Labels
<1>3. /\ \A u \in Tasks \ {t} : loc'[u] = loc[u]
      /\ loc'[t].at = loc[t].done
      /\ loc[t].done = "idle" => loc'[t] = Resting
      /\ loc[t].done # "idle" => loc'[t].saw = loc[t].saw
  BY <1>1, <1>2, GotoIs DEF Disable
<1>4. NeedsNoDisable(t) /\ NeedsNoDisable(t)' /\ UNCHANGED <<installed, crossed>>
  BY <1>2, <1>3 DEF EnabledInv, NeedsNoDisable, Disable
<1>5. WillEnable(t) => WillEnable(t)'
  BY <1>1, <1>2, <1>3 DEF WillEnable, Knows
<1>6. CASE UNCHANGED <<enabled, asked>>
  BY <1>3, <1>4, <1>5, <1>6, OthersEnable
<1>7. CASE enabled' = FALSE /\ asked' = (asked \/ loc[t].done = "idle")
  <2>1. \A u \in Tasks : NeedsNoDisable(u)'
    <3>1. ASSUME NEW u \in Tasks \ {t} PROVE NeedsNoDisable(u)'
      BY <1>3, <1>4, <1>7 DEF EnabledInv, NeedsNoDisable
    <3>2. QED
      BY <1>4, <3>1
  <2>2. asked' \/ WillEnable(t)'
    <3>1. CASE loc[t].done = "idle"
      BY <1>7, <3>1
    <3>2. CASE loc[t].done = "access"
      <4>1. loc[t].saw
        BY <1>1, <1>4, <3>2 DEF NeedsNoDisable
      <4>2. QED
        BY <1>3, <3>2, <4>1 DEF WillEnable
    <3>3. QED
      BY <1>2, <3>1, <3>2
  <2>3. QED
    BY <2>1, <2>2 DEF EnabledInv, NeverLeftDisabled
<1>8. QED
  BY <1>6, <1>7 DEF Disable

\* The other steps of a task.
LEMMA TaskEnabled ==
  ASSUME LifeInv, EnabledInv, NEW t \in Tasks, TaskNext(t), ~crossed'
  PROVE  EnabledInv'
<1>1. ~crossed
  BY DEF TaskNext, Call, Begin, InstallBegins, Delete, Nvs, Look, FlashBegins, FlashEnds, AccessEnds,
         Switch, CheckDisable, Disable, CheckEnable, Enable, InstallEnds, StartSending, history
<1>2. loc \in [Tasks -> Locals] /\ loc[t] \in Locals /\ Knows(t)
  BY DEF LifeInv, Types, Control
<1>3. NeedsNoDisable(t)
  BY <1>1 DEF EnabledInv
<1>4. CASE CheckDisable(t) \/ CheckEnable(t) \/ FlashBegins(t) \/ FlashEnds(t) \/ AccessEnds(t)
  BY <1>1, <1>4, MoveEnabled
<1>5. CASE Disable(t)
  BY <1>1, <1>5, DisableEnabled
<1>6. CASE Look(t)
  <2>1. loc' = [loc EXCEPT ![t] = [loc[t] EXCEPT !.at = "check_disable", !.saw = installed /\ enabled]]
        /\ loc[t].at = "look"
    BY <1>2, <1>6 DEF Look, Runs, At
  <2>2. /\ \A u \in Tasks \ {t} : loc'[u] = loc[u]
        /\ loc'[t].at = "check_disable" /\ loc'[t].saw = (installed /\ enabled)
    BY <1>2, <2>1 DEF Locals
  <2>3. UNCHANGED <<installed, enabled, asked, crossed>>
    BY <1>6 DEF Look, history
  <2>4. NeedsNoDisable(t)' /\ ~WillEnable(t)
    BY <2>1, <2>2, <2>3 DEF NeedsNoDisable, WillEnable
  <2>5. QED
    BY <1>1, <2>2, <2>3, <2>4, OthersEnable
<1>7. CASE InstallEnds(t) \/ StartSending(t)
  <2>1. UNCHANGED <<installed, enabled, asked, crossed>> /\ Goto(t, "idle")
        /\ loc[t].at \in {"init", "send"}
    BY <1>7 DEF InstallEnds, StartSending, Runs, At, history
  <2>2. (\A u \in Tasks \ {t} : loc'[u] = loc[u]) /\ loc'[t].at = "idle"
    BY <1>2, <2>1, GotoIs DEF Labels
  <2>3. NeedsNoDisable(t)' /\ ~WillEnable(t)
    BY <2>1, <2>2 DEF NeedsNoDisable, WillEnable
  <2>4. QED
    BY <1>1, <2>1, <2>2, <2>3, OthersEnable
<1>8. CASE Enable(t)
  <2>1. /\ enabled' = TRUE /\ Goto(t, loc[t].then) /\ UNCHANGED installed
        /\ \A u \in Tasks \ {t} : loc[u].saw \/ loc[u].at \notin {"check_disable", "disable"}
    BY <1>8 DEF Enable
  <2>2. loc[t].then \in {"idle", "init"} /\ loc[t].then \in Labels
    BY <1>2 DEF Locals, Labels
  <2>3. (\A u \in Tasks \ {t} : loc'[u] = loc[u]) /\ loc'[t].at = loc[t].then
    BY <1>2, <2>1, <2>2, GotoIs
  <2>4. \A u \in Tasks : NeedsNoDisable(u)'
    BY <2>1, <2>2, <2>3 DEF NeedsNoDisable
  <2>5. QED
    BY <2>1, <2>4 DEF EnabledInv, NeverLeftDisabled
<1>9. CASE Call(t)
  <2>1. loc[t].at = "idle"
    BY <1>9 DEF Call, Runs, At
  <2>2. CASE InstallBegins(t)
    <3>1. /\ enabled' = TRUE
          /\ loc' = [loc EXCEPT ![t] = [at |-> "look", saw |-> FALSE, done |-> "access", then |-> "init"]]
          /\ \A u \in Tasks \ {t} : loc[u].saw \/ loc[u].at \notin {"check_disable", "disable"}
      BY <2>2 DEF InstallBegins
    <3>2. (\A u \in Tasks \ {t} : loc'[u] = loc[u]) /\ loc'[t].at = "look"
      BY <1>2, <3>1
    <3>3. \A u \in Tasks : NeedsNoDisable(u)'
      BY <3>1, <3>2 DEF NeedsNoDisable
    <3>4. QED
      BY <3>1, <3>3 DEF EnabledInv, NeverLeftDisabled
  <2>3. CASE Delete(t)
    <3>1. installed' = FALSE /\ UNCHANGED <<loc, crossed>>
      BY <2>3 DEF Delete
    <3>2. \A u \in Tasks : NeedsNoDisable(u)'
      BY <1>1, <3>1 DEF EnabledInv, NeedsNoDisable
    <3>3. QED
      BY <3>1, <3>2 DEF EnabledInv, NeverLeftDisabled
  <2>4. CASE \E at \in {"look", "check_disable", "check_enable", "send"} : \E done \in {"idle", "access"} :
               Begin(t, at, done) /\ (at = "look" \/ done = "idle")
    <3>1. PICK at \in {"look", "check_disable", "check_enable", "send"}, done \in {"idle", "access"} :
            Begin(t, at, done) /\ (at = "look" \/ done = "idle")
      BY <2>4
    <3> DEFINE r == [Resting EXCEPT !.at = at, !.done = done]
    <3>2. r.at = at /\ r.done = done
      BY DEF Resting
    <3>3. loc' = [loc EXCEPT ![t] = r] /\ UNCHANGED <<installed, enabled, asked, crossed>>
      BY <3>1 DEF Begin, history
    <3> HIDE DEF r
    <3>4. (\A u \in Tasks \ {t} : loc'[u] = loc[u]) /\ loc'[t].at = at /\ loc'[t].done = done
      BY <1>2, <3>2, <3>3
    <3>5. NeedsNoDisable(t)' /\ ~WillEnable(t)
      BY <2>1, <3>1, <3>4 DEF NeedsNoDisable, WillEnable
    <3>6. QED
      BY <1>1, <3>3, <3>4, <3>5, OthersEnable
  <2>5. QED
    BY <1>9, <2>2, <2>3, <2>4 DEF Call
<1>10. QED
  BY <1>4, <1>5, <1>6, <1>7, <1>8, <1>9 DEF TaskNext, Nvs, Switch

\* "Track which drivers are currently enabled and disable those which are"
\* (nvs.c:48): a driver that was enabled is enabled again, unless another task
\* enabled or installed it between the look and the disabling.
THEOREM DriverEnabledAgain == Spec => []EnabledAgain
<1>1. Init => EnabledInv
  <2> SUFFICES ASSUME Init PROVE EnabledInv
    OBVIOUS
  <2>1. \A t \in Tasks : loc[t].at = "idle"
    BY DEF Init, Resting
  <2>2. QED
    BY <2>1 DEF Init, EnabledInv, NeverLeftDisabled, NeedsNoDisable
<1>2. LifeInv /\ EnabledInv /\ [Next]_vars => EnabledInv'
  <2> SUFFICES ASSUME LifeInv, EnabledInv, [Next]_vars, ~crossed' PROVE EnabledInv'
    BY DEF EnabledInv
  <2>1. CASE \E t \in Tasks : TaskNext(t)
    BY <2>1, TaskEnabled
  <2>2. CASE UNCHANGED <<installed, enabled, asked, crossed, loc>>
    BY <2>2 DEF EnabledInv, NeverLeftDisabled, WillEnable, NeedsNoDisable
  <2>3. Line \/ UartIsr \/ GpioIsr \/ SnifferEnable \/ SnifferDisable \/ MarkRead \/ TurnToRead
          \/ SendingEnds => UNCHANGED <<installed, enabled, asked, crossed, loc>>
    BY DEF Line, BreakStarts, BreakSeen, BreakEnds, SlotStarts, SlotRises, SlotEnds, Moves,
           UartIsr, GpioIsr, SnifferEnable, SnifferDisable, MarkRead, TurnToRead, SendingEnds, history
  <2>4. UNCHANGED vars => UNCHANGED <<installed, enabled, asked, crossed, loc>>
    BY DEF vars, history
  <2>5. QED
    BY <2>1, <2>2, <2>3, <2>4 DEF Next
<1>3. EnabledInv => EnabledAgain
  BY DEF EnabledInv, EnabledAgain
<1>4. QED
  BY <1>1, <1>2, <1>3, LifeInvariant, PTL DEF Spec

-----------------------------------------------------------------------------
(* Packets are whole *)

\* The line waits for the handler, which has read all but what ends now.
LEMMA LineReceiving ==
  ASSUME LifeInv, Receiving, Line
  PROVE  Receiving'
<1> USE DEF LifeInv, Receiving
<1>1. UNCHANGED <<enabled, rx, rts, progress, head, size, data, loc>>
  BY DEF Line, BreakStarts, BreakSeen, BreakEnds, SlotStarts, SlotRises, SlotEnds, Moves, dmx
<1>2. FlashQuiet'
  BY <1>1 DEF FlashQuiet
<1>3. CASE ~rx
  BY <1>1, <1>2, <1>3 DEF Handled, Received
<1>4. CASE rx
  <2>1. ~Frozen
    BY <1>4 DEF Frozen, At, FlashQuiet
  <2>2. raised = {} /\ fifo = <<>> /\ Len(fifo) = 0
    BY <1>4, <2>1, EmptySeq DEF Handled, Line, BreakStarts, BreakSeen, BreakEnds, SlotStarts,
         SlotRises, SlotEnds, Moves, Pending
  <2>3. ASSUME NEW slot \in Cell, NEW kind \in {"break", "data"}, Arrives(slot, kind), rts
        PROVE  fifo' = <<slot>> /\ Len(fifo') = 1 /\ raised' = {kind}
    <3>1. Len(fifo) < FifoSize
      BY <2>2, LifeCycleAssumption
    <3>2. fifo' = Append(<<>>, slot) /\ raised' = {kind}
      BY <2>2, <2>3, <3>1 DEF Arrives
    <3>3. QED
      BY <3>2
  <2>4. wire.packet \in Nat /\ wire.slot \in Nat /\ head \in Int /\ Slots \in Nat
        /\ <<wire.packet, 0>> \in Cell /\ <<wire.packet, wire.slot>> \in Cell
    BY LifeCycleAssumption DEF OnLine, Types, Cell
  <2>5. CASE BreakStarts
    BY <1>1, <1>2, <2>2, <2>5 DEF BreakStarts, Moves, uart, Handled, Received, Active
  <2>6. CASE BreakSeen
    <3>1. wire.at = "low" /\ wire.slot = 0 /\ wire'.at = "break" /\ wire'.packet = wire.packet /\ wire'.slot = 0
      BY <2>6 DEF BreakSeen, Moves, OnLine
    <3>2. Handled'
      <4>1. CASE rts
        BY <1>1, <2>3, <2>4, <2>6, <3>1, <4>1 DEF BreakSeen, Handled
      <4>2. CASE ~rts
        BY <1>1, <2>2, <2>6, <4>2 DEF BreakSeen, Arrives, uart, Handled
      <4>3. QED
        BY <4>1, <4>2
    <3>3. Received'
      BY <1>1, <1>4, <3>1 DEF Received, Active
    <3>4. QED
      BY <1>2, <3>2, <3>3
  <2>7. CASE BreakEnds \/ SlotStarts \/ SlotRises
    <3>1. /\ wire.at \in {"break", "gap", "start"} /\ wire'.at \in {"gap", "start", "bits"}
          /\ wire'.packet = wire.packet /\ Ended' = Ended
      <4>1. CASE BreakEnds
        <5>1. wire' = [wire EXCEPT !.at = "gap"] /\ wire.at = "break"
          BY <4>1 DEF BreakEnds, Moves
        <5>2. QED
          BY <5>1 DEF OnLine, Ended
      <4>2. CASE SlotStarts
        <5>1. wire' = [wire EXCEPT !.at = "start", !.slot = wire.slot + 1] /\ wire.at = "gap"
          BY <4>2 DEF SlotStarts, Moves, OnLine
        <5>2. /\ wire'.at = "start" /\ wire'.packet = wire.packet /\ wire'.slot = wire.slot + 1
          BY <5>1 DEF OnLine
        <5>3. QED
          BY <2>4, <5>1, <5>2 DEF Ended
      <4>3. CASE SlotRises
        <5>1. wire' = [wire EXCEPT !.at = "bits"] /\ wire.at = "start"
          BY <4>3 DEF SlotRises, Moves
        <5>2. QED
          BY <5>1 DEF OnLine, Ended
      <4>4. QED
        BY <2>7, <4>1, <4>2, <4>3
    <3>2. UNCHANGED uart
      BY <2>7 DEF BreakEnds, SlotStarts, SlotRises
    <3>3. Handled'
      BY <1>1, <2>2, <3>2 DEF Handled, uart
    <3>4. Received'
      BY <1>1, <1>4, <2>2, <3>1, <3>2 DEF Received, Active, uart
    <3>5. QED
      BY <1>2, <3>3, <3>4
  <2>8. CASE SlotEnds
    <3>1. /\ wire.at = "bits" /\ wire'.at \in {"idle", "gap"}
          /\ wire'.packet = wire.packet /\ wire'.slot = wire.slot /\ wire.slot > 0
      BY <2>8 DEF SlotEnds, Moves, OnLine
    <3>2. CASE rts
      <4>1. /\ fifo' = << <<wire.packet, wire.slot>> >> /\ Len(fifo') = 1 /\ raised' = {"data"}
        BY <2>3, <2>4, <2>8, <3>2 DEF SlotEnds
      <4>2. Handled'
        BY <1>1, <3>1, <3>2, <4>1 DEF Handled
      <4>3. Ended = wire.slot - 1 /\ Ended' = wire.slot
        BY <3>1 DEF Ended
      <4>4. Received'
        BY <1>1, <1>4, <2>2, <2>4, <3>1, <4>1, <4>3 DEF Received, Active
      <4>5. QED
        BY <1>2, <4>2, <4>4
    <3>3. CASE ~rts
      BY <1>1, <1>2, <2>2, <2>8, <3>3 DEF SlotEnds, Arrives, uart, Handled, Received
    <3>4. QED
      BY <3>2, <3>3
  <2>9. QED
    BY <2>5, <2>6, <2>7, <2>8 DEF Line
<1>5. QED
  BY <1>3, <1>4

\* The handler stores the slot that has ended; the last one completes the
\* packet, which is the one on the line.
LEMMA UartReceiving ==
  ASSUME LifeInv, Receiving, UartIsr
  PROVE  Receiving' /\ (torn' => torn)
<1> USE DEF LifeInv, Receiving
<1>1. /\ UNCHANGED <<enabled, rx, rts, wire, loc>>
      /\ data' = Stored /\ fifo' = <<>> /\ raised' = {} /\ Len(fifo') = 0 /\ rx /\ raised # {}
  BY EmptySeq DEF UartIsr
<1>2. FlashQuiet' /\ Handled'
  BY <1>1 DEF FlashQuiet, Handled
<1>3. rts /\ fifo = << <<wire.packet, wire.slot>> >> /\ Len(fifo) = 1
      /\ fifo[1] = <<wire.packet, wire.slot>>
  BY <1>1 DEF Handled
<1>4. wire.packet \in Nat /\ wire.slot \in Nat /\ head \in Int /\ Slots \in Nat \ {0} /\ size = Slots
  BY LifeCycleAssumption DEF OnLine, Types, Received
<1>5. CASE raised = {"break"} /\ wire.at = "break"
  <2>1. RxBreak
    BY <1>5 DEF UartIsr, RxData
  <2>2. ~Active \/ head < 0
    BY <1>1, <1>3, <1>4, <1>5 DEF Received
  <2>3. size' = Slots /\ head' = 0 /\ UNCHANGED torn
    BY <1>4, <2>1, <2>2 DEF RxBreak, Active, HeadAfter
  <2>4. wire.slot = 0 /\ wire.packet > 0
    BY <1>4, <1>5 DEF OnLine
  <2>5. head' + Len(fifo') = Ended'
    BY <1>1, <1>5, <2>3, <2>4 DEF Ended
  <2>6. Received'
    BY <1>1, <1>5, <2>3, <2>4, <2>5 DEF Received
  <2>7. QED
    BY <1>2, <2>3, <2>6
<1>6. CASE raised = {"data"} /\ wire.at \in {"gap", "idle"} /\ wire.slot > 0
  <2>1. RxData
    BY <1>6 DEF UartIsr, RxBreak
  <2>2. /\ size' = Slots /\ head' = HeadAfter
        /\ progress' = IF Active /\ HeadAfter >= Slots THEN "COMPLETE"
                       ELSE IF Active THEN "IN_DATA" ELSE progress
        /\ torn' => torn \/ (Active /\ HeadAfter >= Slots /\ ~Whole(SubSeq(Stored, 1, HeadAfter)))
    BY <1>4, <1>6, <2>1 DEF RxData, Active
  <2>3. CASE ~Active
    BY <1>2, <2>2, <2>3 DEF Received, Active
  <2>4. CASE head < 0
    <3>1. HeadAfter = head
      BY <2>4 DEF HeadAfter
    <3>2. QED
      BY <1>2, <1>4, <2>2, <2>4, <3>1 DEF Received
  <2>5. CASE Active /\ head >= 0
    <3>1. /\ Stored \in Seq(Cell) /\ HeadAfter = head + 1 /\ Len(Stored) = head + 1
          /\ \A i \in 1..head : Stored[i] = data[i]
          /\ Stored[head + 1] = fifo[1]
      BY <1>3, <1>4, <2>5, StoredIs
    <3>2. /\ wire.packet > 0 /\ head + 1 = wire.slot
          /\ \A i \in 1..head : data[i] = <<wire.packet, i>>
      BY <1>1, <1>3, <1>6, <2>5 DEF Received, Ended
    <3>3. \A i \in 1..head + 1 : Stored[i] = <<wire.packet, i>>
      BY <1>3, <1>4, <3>1, <3>2
    <3>4. CASE wire.at = "gap"
      <4>1. ~(HeadAfter >= Slots)
        BY <1>4, <3>1, <3>2, <3>4 DEF OnLine
      <4>2. Ended' = wire.slot
        BY <1>1, <3>4 DEF Ended
      <4>3. head' + Len(fifo') = wire.slot
        BY <1>1, <1>4, <2>2, <3>1, <3>2
      <4>4. Received'
        BY <1>1, <2>2, <3>1, <3>2, <3>3, <3>4, <4>2, <4>3 DEF Received
      <4>5. QED
        BY <1>2, <2>2, <4>1, <4>4
    <3>5. CASE wire.at = "idle"
      <4>1. wire.slot = Slots
        BY <1>4, <1>6, <3>5 DEF OnLine
      <4>2. HeadAfter = Slots /\ progress' = "COMPLETE"
        BY <1>4, <2>2, <2>5, <3>1, <3>2, <4>1
      <4>3. SubSeq(Stored, 1, Slots) = [i \in 1..Slots |-> <<wire.packet, i>>]
        <5>1. \A i \in 1..Slots : Stored[i] \in Cell
          BY <1>4, <3>1, <4>2, ElementOfSeq
        <5>2. /\ SubSeq(Stored, 1, Slots) \in Seq(Cell)
              /\ Len(SubSeq(Stored, 1, Slots)) = IF 1 <= Slots THEN Slots - 1 + 1 ELSE 0
              /\ \A i \in 1..Slots - 1 + 1 : SubSeq(Stored, 1, Slots)[i] = Stored[1 + i - 1]
          BY <1>4, <5>1, SubSeqProperties
        <5>3. Len(SubSeq(Stored, 1, Slots)) = Slots
          BY <1>4, <5>2
        <5>4. SubSeq(Stored, 1, Slots) \in [1..Slots -> Cell]
          BY <5>2, <5>3, LenProperties
        <5>5. \A i \in 1..Slots : SubSeq(Stored, 1, Slots)[i] = <<wire.packet, i>>
          <6>1. \A i \in 1..Slots : i \in 1..Slots - 1 + 1 /\ 1 + i - 1 = i
            BY <1>4
          <6>2. QED
            BY <5>2, <6>1, <3>1, <3>3, <4>2
        <5> DEFINE front == SubSeq(Stored, 1, Slots)
        <5> HIDE DEF front
        <5>6. front = [i \in 1..Slots |-> <<wire.packet, i>>]
          BY <5>4, <5>5 DEF front
        <5>7. QED
          BY <5>6 DEF front
      <4>4. Whole(SubSeq(Stored, 1, HeadAfter))
        <5>1. wire.packet \in 1..MaxPackets
          BY <3>2, LifeCycleAssumption DEF OnLine
        <5>2. QED
          BY <4>2, <4>3, <5>1 DEF Whole
      <4>5. Received'
        BY <2>2, <4>2 DEF Received, Active
      <4>6. QED
        BY <1>2, <2>2, <4>4, <4>5
    <3>6. QED
      BY <1>6, <3>4, <3>5
  <2>6. QED
    BY <1>4, <2>3, <2>4, <2>5
<1>7. QED
  BY <1>1, <1>5, <1>6 DEF Handled

\* The other handler, and calls that leave flash alone.
LEMMA PortReceiving ==
  ASSUME LifeInv, Receiving,
         GpioIsr \/ SnifferEnable \/ SnifferDisable \/ MarkRead \/ TurnToRead \/ SendingEnds
  PROVE  Receiving' /\ (torn' => torn)
<1> USE DEF LifeInv, Receiving
<1>1. UNCHANGED <<enabled, rx, size, data, wire, fifo, raised, loc, torn>>
  BY DEF GpioIsr, SnifferEnable, SnifferDisable, MarkRead, TurnToRead, SendingEnds, dmx, uart, history
<1>2. (rts => rts') /\ (Active' => Active /\ UNCHANGED <<head, rts>>)
  BY DEF GpioIsr, PositiveEdge, NegativeEdge, BreakOver, SnifferEnable, SnifferDisable, MarkRead,
         TurnToRead, SendingEnds, dmx, Active
<1>3. FlashQuiet' /\ Handled'
  BY <1>1, <1>2 DEF FlashQuiet, Handled
<1>4. Received'
  BY <1>1, <1>2 DEF Received, Ended
<1>5. QED
  BY <1>1, <1>3, <1>4

\* Tasks that reach the flash have found or made the driver disabled, and a
\* receiver that is turned on starts with nothing.
LEMMA TaskReceiving ==
  ASSUME LifeInv, LifeInv', Receiving, NEW t \in Tasks, TaskNext(t), ~overlap'
  PROVE  Receiving' /\ (torn' => torn)
<1> USE DEF LifeInv, Receiving
<1>1. loc \in [Tasks -> Locals] /\ loc[t] \in Locals /\ Knows(t)
  BY DEF Types, Control
<1>2. loc[t].done \in {"idle", "access"} /\ loc[t].then \in {"idle", "init"}
      /\ loc[t].done \in Labels /\ loc[t].then \in Labels
  BY <1>1 DEF Locals, Labels
<1>3. ASSUME UNCHANGED <<enabled, rx, dmx, wire, uart, torn>>,
             \A u \in Tasks \ {t} : loc'[u] = loc[u],
             loc'[t].at \in {"access", "flash"} => ~rx
      PROVE  Receiving' /\ (torn' => torn)
  <2>1. FlashQuiet' /\ Handled'
    BY <1>3 DEF FlashQuiet, Handled, dmx, uart
  <2>2. Received'
    BY <1>3 DEF Received, Active, Ended, dmx, uart
  <2>3. QED
    BY <1>3, <2>1, <2>2
<1>4. ASSUME rx' = FALSE, size' = Slots, UNCHANGED torn
      PROVE  Receiving' /\ (torn' => torn)
  BY <1>4 DEF FlashQuiet, Handled, Received
<1>5. ASSUME UNCHANGED <<size, torn>>, enabled', head' = -1, fifo' = <<>>, raised' = {},
             \A u \in Tasks \ {t} : loc'[u] = loc[u] /\ loc[u].at \notin {"access", "flash"},
             loc'[t].at \in {"idle", "init"}
      PROVE  Receiving' /\ (torn' => torn)
  <2>1. FlashQuiet' /\ Handled'
    BY <1>5 DEF FlashQuiet, Handled
  <2>2. QED
    BY <1>5, <2>1 DEF Received
<1>6. CASE CheckDisable(t)
  <2>1. Goto(t, IF installed /\ enabled THEN "disable" ELSE loc[t].done)
    BY <1>6 DEF CheckDisable
  <2>2. (IF installed /\ enabled THEN "disable" ELSE loc[t].done) \in Labels
    BY <1>2 DEF Labels
  <2>3. /\ \A u \in Tasks \ {t} : loc'[u] = loc[u]
        /\ loc'[t].at = IF installed /\ enabled THEN "disable" ELSE loc[t].done
    BY <1>1, <2>1, <2>2, GotoIs
  <2>4. loc'[t].at \in {"access", "flash"} => ~rx
    BY <2>3 DEF FlashQuiet, Quiet
  <2>5. QED
    BY <1>3, <1>6, <2>3, <2>4 DEF CheckDisable, history
<1>7. CASE CheckEnable(t) \/ FlashBegins(t) \/ FlashEnds(t) \/ AccessEnds(t)
  <2>1. PICK at \in Labels : Goto(t, at) /\ (at \in {"access", "flash"} => loc[t].at \in {"access", "flash"})
    BY <1>2, <1>7 DEF CheckEnable, FlashBegins, FlashEnds, AccessEnds, Runs, At, Labels
  <2>2. (\A u \in Tasks \ {t} : loc'[u] = loc[u]) /\ loc'[t].at = at
    BY <1>1, <2>1, GotoIs
  <2>3. loc'[t].at \in {"access", "flash"} => ~rx
    BY <2>1, <2>2 DEF FlashQuiet
  <2>4. UNCHANGED <<enabled, rx, dmx, wire, uart, torn>>
    BY <1>7 DEF CheckEnable, FlashBegins, FlashEnds, AccessEnds, history
  <2>5. QED
    BY <1>3, <2>2, <2>3, <2>4
<1>8. CASE Look(t)
  <2>1. loc' = [loc EXCEPT ![t] = [loc[t] EXCEPT !.at = "check_disable", !.saw = installed /\ enabled]]
    BY <1>1, <1>8 DEF Look
  <2>2. (\A u \in Tasks \ {t} : loc'[u] = loc[u]) /\ loc'[t].at = "check_disable"
    BY <1>1, <2>1 DEF Locals
  <2>3. QED
    BY <1>3, <1>8, <2>2 DEF Look, history
<1>9. CASE Disable(t)
  BY <1>4, <1>9 DEF Disable, dmx, Received
<1>10. CASE Enable(t)
  <2>1. /\ UNCHANGED <<size, torn>> /\ enabled' = TRUE /\ head' = -1 /\ fifo' = <<>> /\ raised' = {}
        /\ ~Frozen /\ ~OthersAccess(t) /\ Goto(t, loc[t].then)
    BY <1>10 DEF Enable, HeadEnabled, Runs
  <2>2. (\A u \in Tasks \ {t} : loc'[u] = loc[u]) /\ loc'[t].at = loc[t].then
    BY <1>1, <1>2, <2>1, GotoIs
  <2>3. \A u \in Tasks \ {t} : loc[u].at \notin {"access", "flash"}
    BY <2>1 DEF Frozen, At, OthersAccess, Accesses
  <2>4. QED
    BY <1>2, <1>5, <2>1, <2>2, <2>3
<1>11. CASE InstallEnds(t)
  <2>1. /\ UNCHANGED <<size, torn, head>> /\ fifo' = <<>> /\ raised' = {}
        /\ ~Frozen /\ enabled' = enabled /\ enabled /\ ~OthersAccess(t) /\ Goto(t, "idle")
        /\ loc[t].at = "init"
    BY <1>11 DEF InstallEnds, Runs, At
  <2>2. (\A u \in Tasks \ {t} : loc'[u] = loc[u]) /\ loc'[t].at = "idle"
    BY <1>1, <2>1, GotoIs DEF Labels
  <2>3. \A u \in Tasks \ {t} : loc[u].at \notin {"access", "flash"}
    BY <2>1 DEF Frozen, At, OthersAccess, Accesses
  <2>4. head = -1
    BY <1>1, <2>1 DEF Knows, At, Powered, Quiet
  <2>5. QED
    BY <1>5, <2>1, <2>2, <2>3, <2>4
<1>12. CASE StartSending(t)
  <2>1. /\ UNCHANGED <<enabled, rx, size, data, wire, uart, torn>> /\ rts' = FALSE
        /\ ~(rx /\ raised # {}) /\ Goto(t, "idle")
    BY <1>12 DEF StartSending, Pending, history
  <2>2. (\A u \in Tasks \ {t} : loc'[u] = loc[u]) /\ loc'[t].at = "idle"
    BY <1>1, <2>1, GotoIs DEF Labels
  <2>3. QED
    BY <2>1, <2>2 DEF FlashQuiet, Handled, Received, uart
<1>13. CASE Call(t)
  <2>1. CASE InstallBegins(t) \/ Delete(t)
    BY <1>4, <2>1 DEF InstallBegins, Delete, Received
  <2>2. CASE \E at \in {"look", "check_disable", "check_enable", "send"} : \E done \in {"idle", "access"} :
               Begin(t, at, done)
    <3>1. PICK at \in {"look", "check_disable", "check_enable", "send"}, done \in {"idle", "access"} :
            Begin(t, at, done)
      BY <2>2
    <3> DEFINE r == [Resting EXCEPT !.at = at, !.done = done]
    <3>2. r.at = at
      BY DEF Resting
    <3>3. loc' = [loc EXCEPT ![t] = r] /\ UNCHANGED <<enabled, rx, dmx, wire, uart, torn>>
      BY <3>1 DEF Begin, history
    <3> HIDE DEF r
    <3>4. (\A u \in Tasks \ {t} : loc'[u] = loc[u]) /\ loc'[t].at \notin {"access", "flash"}
      BY <1>1, <3>2, <3>3
    <3>5. QED
      BY <1>3, <3>3, <3>4
  <2>3. QED
    BY <1>13, <2>1, <2>2 DEF Call
<1>14. QED
  BY <1>6, <1>7, <1>8, <1>9, <1>10, <1>11, <1>12, <1>13 DEF TaskNext, Nvs, Switch

\* What has happened is not forgotten.
LEMMA OverlapStays ==
  ASSUME [Next]_vars
  PROVE  overlap => overlap'
<1>1. CASE Line \/ UartIsr \/ GpioIsr \/ SnifferEnable \/ SnifferDisable \/ MarkRead
             \/ TurnToRead \/ SendingEnds \/ UNCHANGED vars
  BY <1>1 DEF Line, BreakStarts, BreakSeen, BreakEnds, SlotStarts, SlotRises, SlotEnds, Moves,
     UartIsr, GpioIsr, SnifferEnable, SnifferDisable, MarkRead, TurnToRead, SendingEnds, history, vars
<1>2. ASSUME NEW t \in Tasks, TaskNext(t) PROVE overlap => overlap'
  BY <1>2 DEF TaskNext, Call, Begin, InstallBegins, Delete, Nvs, Look, FlashBegins, FlashEnds,
     AccessEnds, Switch, CheckDisable, Disable, CheckEnable, Enable, InstallEnds, StartSending, history
<1>3. QED
  BY <1>1, <1>2 DEF Next

\* A packet that a task is told of without an error is one packet of the line
\* (dmx_uart_isr()), unless flash was accessed under an enabled receiver.
THEOREM PacketsAreWhole == Spec => []WholePackets
<1>1. Init => WholeInv
  <2> SUFFICES ASSUME Init PROVE WholeInv
    OBVIOUS
  <2>1. \A t \in Tasks : loc[t].at = "idle"
    BY DEF Init, Resting
  <2>2. QED
    BY <2>1 DEF Init, WholeInv, WholePackets, Receiving, FlashQuiet, Handled, Received
<1>2. LifeInv /\ LifeInv' /\ WholeInv /\ [Next]_vars => WholeInv'
  <2> SUFFICES ASSUME LifeInv, LifeInv', WholeInv, [Next]_vars PROVE WholeInv'
    OBVIOUS
  <2>1. overlap => overlap'
    BY OverlapStays
  <2>2. ASSUME ~overlap' PROVE Receiving' /\ (torn' => torn)
    <3>1. Receiving
      BY <2>1, <2>2 DEF WholeInv
    <3>2. CASE Line
      <4>1. UNCHANGED torn
        BY <3>2 DEF Line, BreakStarts, BreakSeen, BreakEnds, SlotStarts, SlotRises, SlotEnds, Moves, history
      <4>2. QED
        BY <3>1, <3>2, <4>1, LineReceiving
    <3>3. CASE UNCHANGED vars
      BY <3>1, <3>3 DEF vars, dmx, uart, history, Receiving, FlashQuiet, Handled, Received, Active, Ended
    <3>4. QED
      BY <2>2, <3>1, <3>2, <3>3, UartReceiving, PortReceiving, TaskReceiving DEF Next
  <2>3. QED
    BY <2>1, <2>2 DEF WholeInv, WholePackets
<1>3. WholeInv => WholePackets
  BY DEF WholeInv
<1>4. QED
  BY <1>1, <1>2, <1>3, LifeInvariant, PTL DEF Spec

-----------------------------------------------------------------------------
(* The sniffer *)

\* The line waits for the handlers, so that no edge is told too late.
LEMMA LineSniffed ==
  ASSUME LifeInv, Sniffed, sniffer.on, Line
  PROVE  Sniffed'
<1> USE DEF Sniffed
<1>1. /\ ~edge /\ (rx => raised = {}) /\ ~Frozen'
      /\ UNCHANGED <<rx, rts, status, progress, sniffer>>
  BY DEF Line, BreakStarts, BreakSeen, BreakEnds, SlotStarts, SlotRises, SlotEnds, Moves, Pending,
         Prompt, dmx, Frozen, At
<1>2. progress # "IN_BREAK" \/ (status = "SENDING" /\ wire.at = "idle") \/ wire.at = "break"
  BY <1>1 DEF InBreak
<1>3. progress # "IN_MAB" \/ (wire.at = "gap" /\ wire.slot = 0)
  BY <1>1 DEF InMab
<1>4. Together'
  BY <1>1 DEF Together, Pair
<1>5. wire.packet \in Nat /\ wire.slot \in Nat
  BY LifeCycleAssumption DEF LifeInv, OnLine
<1>6. CASE BreakStarts
  <2>1. wire.at = "idle" /\ wire'.at = "low" /\ edge' /\ UNCHANGED uart /\ status # "SENDING"
    BY <1>6 DEF BreakStarts, Moves
  <2>2. progress # "IN_BREAK" /\ progress # "IN_MAB"
    BY <1>2, <1>3, <2>1
  <2>3. QED
    BY <1>1, <1>4, <2>1, <2>2 DEF Prompt, BreakTimed, InBreak, InMab, uart
<1>7. CASE BreakSeen
  <2>1. /\ wire.at = "low" /\ wire'.at = "break" /\ wire'.packet = wire.packet /\ edge' = edge
        /\ Arrives(<<wire.packet, 0>>, "break")
    BY <1>7 DEF BreakSeen, Moves, LifeInv, OnLine
  <2>2. progress # "IN_BREAK" /\ progress # "IN_MAB"
    BY <1>2, <1>3, <2>1
  <2>3. Prompt'
    <3>1. rts \/ UNCHANGED uart
      BY <2>1 DEF Arrives
    <3>2. rts => "break" \in raised'
      BY <2>1 DEF Arrives
    <3>3. QED
      BY <1>1, <2>1, <3>1, <3>2 DEF Prompt, uart
  <2>4. BreakTimed'
    BY <1>1, <2>1 DEF BreakTimed
  <2>5. QED
    BY <1>1, <1>4, <2>2, <2>3, <2>4 DEF InBreak, InMab
<1>8. CASE BreakEnds
  <2>1. /\ wire.at = "break" /\ wire.slot = 0 /\ edge' /\ UNCHANGED uart
        /\ wire'.at = "gap" /\ wire'.packet = wire.packet /\ wire'.slot = 0
    BY <1>8 DEF BreakEnds, Moves, LifeInv, OnLine
  <2>2. Prompt' /\ BreakTimed'
    BY <1>1, <2>1 DEF Prompt, BreakTimed, uart
  <2>3. InBreak'
    BY <1>1, <2>1 DEF InBreak, BreakTimed
  <2>4. InMab'
    BY <1>1, <1>3, <2>1 DEF InMab
  <2>5. QED
    BY <1>4, <2>2, <2>3, <2>4
<1>9. CASE SlotStarts
  <2>1. /\ wire.at = "gap" /\ wire' = [wire EXCEPT !.at = "start", !.slot = wire.slot + 1]
        /\ edge' /\ UNCHANGED uart
    BY <1>9 DEF SlotStarts, Moves, LifeInv, OnLine
  <2>2. wire'.at = "start" /\ wire'.packet = wire.packet /\ wire'.slot = wire.slot + 1
    BY <2>1 DEF LifeInv, OnLine
  <2>3. Prompt' /\ BreakTimed'
    BY <1>1, <2>1, <2>2 DEF Prompt, BreakTimed, uart
  <2>4. InBreak'
    BY <1>1, <1>2, <2>1 DEF InBreak
  <2>5. InMab'
    BY <1>1, <1>3, <2>1, <2>2 DEF InMab, Pair
  <2>6. QED
    BY <1>4, <2>3, <2>4, <2>5
<1>10. CASE SlotRises
  <2>1. wire.at = "start" /\ wire'.at = "bits" /\ UNCHANGED uart
    BY <1>10 DEF SlotRises, Moves, LifeInv, OnLine
  <2>2. progress # "IN_BREAK" /\ progress # "IN_MAB"
    BY <1>2, <1>3, <2>1
  <2>3. QED
    BY <1>1, <1>4, <2>1, <2>2 DEF Prompt, BreakTimed, InBreak, InMab, uart
<1>11. CASE SlotEnds
  <2>1. /\ wire.at = "bits" /\ wire.slot > 0 /\ wire'.at \in {"gap", "idle"} /\ wire'.slot = wire.slot
        /\ Arrives(<<wire.packet, wire.slot>>, "data")
    BY <1>11 DEF SlotEnds, Moves, LifeInv, OnLine
  <2>2. progress # "IN_BREAK" /\ progress # "IN_MAB"
    BY <1>2, <1>3, <2>1
  <2>3. (rts \/ UNCHANGED uart) /\ (rx => "break" \notin raised')
    BY <1>1, <2>1 DEF Arrives, uart
  <2>4. Prompt'
    BY <1>1, <2>1, <2>3 DEF Prompt, uart
  <2>5. QED
    BY <1>1, <1>4, <2>1, <2>2, <2>4 DEF BreakTimed, InBreak, InMab
<1>12. QED
  BY <1>6, <1>7, <1>8, <1>9, <1>10, <1>11 DEF Line

\* The break is seen before it ends, and slots come after the mark.
LEMMA UartSniffed ==
  ASSUME LifeInv, Sniffed, UartIsr
  PROVE  Sniffed'
<1> USE DEF Sniffed
<1>1. UNCHANGED <<rx, rts, wire, edge, sniffer, loc>> /\ raised' = {} /\ rx /\ raised # {}
  BY DEF UartIsr
<1>2. /\ rts
      /\ IF "break" \in raised THEN wire.at = "break" ELSE wire.at \in {"gap", "idle"} /\ wire.slot > 0
  BY <1>1 DEF Prompt
<1>3. progress # "IN_MAB"
  BY <1>2 DEF InMab
<1>4. Prompt' /\ BreakTimed' /\ progress' # "IN_MAB"
  BY <1>1, <1>3 DEF UartIsr, RxBreak, RxData, Prompt, BreakTimed, Frozen, At
<1>5. InMab' /\ Together'
  BY <1>1, <1>3, <1>4 DEF InMab, Together, Pair
<1>6. InBreak'
  <2>1. CASE RxBreak
    BY <1>1, <1>2, <2>1 DEF RxBreak, InBreak
  <2>2. CASE RxData
    BY <2>2 DEF RxData, InBreak
  <2>3. QED
    BY <2>1, <2>2 DEF UartIsr
<1>7. QED
  BY <1>4, <1>5, <1>6

\* An edge begins or ends a pair of the packet on the line.  A disturbance
\* ends with a pair that was timed from its start to its end.
LEMMA GpioSniffed ==
  ASSUME LifeInv, SniffInv, GpioIsr, ~disturbed'
  PROVE  Sniffed'
<1> USE DEF Sniffed
<1>1. /\ UNCHANGED <<rx, rts, status, wire, raised, loc>> /\ edge' = FALSE
      /\ sniffer.on /\ edge /\ ~Frozen
  BY DEF GpioIsr, uart
<1>2. /\ sniffer \in [on : BOOLEAN, index : {0, 1}, meta : [0..1 -> [brk : Nat, mab : Nat]],
                      neg : Times, pos : Times]
      /\ wire.packet \in Nat
  BY LifeCycleAssumption DEF LifeInv, Types, OnLine
<1>3. CASE PositiveEdge
  <2>1. wire.at \in {"idle", "gap", "bits"} /\ ~disturbed
    BY <1>3 DEF PositiveEdge, Level
  <2>2. Sniffed
    BY <1>1, <2>1 DEF SniffInv
  <2>3. Prompt' /\ BreakTimed'
    BY <1>1, <2>1, <2>2 DEF Prompt, BreakTimed, Frozen, At
  <2>4. CASE BreakOver
    <3> DEFINE other == 1 - sniffer.index
               pair == [sniffer.meta[other] EXCEPT !.brk = wire.packet]
    <3>1. /\ status # "SENDING" /\ rts /\ wire.at = "gap" /\ wire.slot = 0
          /\ sniffer.neg = <<wire.packet, "low">>
      BY <1>1, <2>1, <2>2, <2>4 DEF BreakOver, InBreak
    <3>2. other \in 0..1 /\ sniffer.meta[other] \in [brk : Nat, mab : Nat]
      BY <1>2
    <3>3. /\ sniffer' = [sniffer EXCEPT !.index = other, !.pos = <<wire.packet, "gap">>,
                           !.meta = [sniffer.meta EXCEPT ![other] = pair]]
          /\ progress' = "IN_MAB"
      BY <1>2, <1>3, <2>4, <3>1, <3>2 DEF PositiveEdge, Edge
    <3>4. pair.brk = wire.packet
      BY <3>2
    <3> HIDE DEF pair, other
    <3>5. sniffer'.index = other /\ sniffer'.pos = <<wire.packet, "gap">> /\ sniffer'.meta[other] = pair
      BY <1>2, <3>2, <3>3
    <3>6. Pair'.brk = wire.packet
      BY <3>4, <3>5 DEF Pair
    <3>7. InMab'
      BY <1>1, <3>1, <3>5, <3>6 DEF InMab
    <3>8. QED
      BY <2>3, <3>3, <3>7 DEF InBreak, Together
  <2>5. CASE ~BreakOver
    <3>1. sniffer' = [sniffer EXCEPT !.pos = Edge] /\ progress' = progress
      BY <1>3, <2>5 DEF PositiveEdge
    <3>2. Pair' = Pair
      BY <1>2, <3>1 DEF Pair
    <3>3. progress # "IN_BREAK"
      BY <1>1, <2>1, <2>2, <2>5 DEF BreakOver, InBreak, Nothing
    <3>4. progress # "IN_MAB"
      BY <1>1, <2>1, <2>2 DEF InMab
    <3>5. QED
      BY <2>2, <2>3, <3>1, <3>2, <3>3, <3>4 DEF InBreak, InMab, Together
  <2>6. QED
    BY <2>4, <2>5
<1>4. CASE NegativeEdge
  <2>1. wire.at \in {"low", "break", "start"}
    BY <1>4 DEF NegativeEdge, Level, LifeInv, OnLine
  <2>2. CASE progress = "IN_MAB"
    <3> DEFINE timed == sniffer.pos = <<wire.packet, "gap">> /\ wire.slot = 1
               pair == [sniffer.meta[sniffer.index] EXCEPT !.mab = IF timed THEN wire.packet ELSE 0]
    <3>1. /\ sniffer' = [sniffer EXCEPT !.neg = Edge,
                           !.meta = [sniffer.meta EXCEPT ![sniffer.index] = pair]]
          /\ progress' = "IN_DATA"
          /\ disturbed' = (disturbed /\ (~timed \/ sniffer.meta[sniffer.index].brk # wire.packet
                                         \/ (rx /\ raised # {})))
      BY <1>2, <1>4, <2>2 DEF NegativeEdge
    <3>2. /\ timed /\ Pair.brk = wire.packet /\ (rx => raised = {})
          /\ wire.at = "start"
      <4>1. CASE disturbed
        <5>1. timed /\ Pair.brk = wire.packet /\ ~(rx /\ raised # {})
          BY <3>1, <4>1 DEF Pair
        <5>2. QED
          BY <2>1, <5>1 DEF LifeInv, OnLine
      <4>2. CASE ~disturbed
        <5>1. Sniffed
          BY <1>1, <4>2 DEF SniffInv
        <5>2. timed /\ Pair.brk = wire.packet /\ wire.at = "start"
          BY <1>1, <2>2, <5>1 DEF InMab
        <5>3. QED
          BY <5>1, <5>2 DEF Prompt
      <4>3. QED
        BY <4>1, <4>2
    <3>3. pair.brk = Pair.brk /\ pair.mab = wire.packet
      BY <1>2, <3>2 DEF Pair
    <3> HIDE DEF pair
    <3>4. Pair' = pair
      BY <1>2, <3>1 DEF Pair
    <3>5. Prompt' /\ BreakTimed'
      BY <1>1, <3>2 DEF Prompt, BreakTimed, Frozen, At
    <3>6. QED
      BY <3>1, <3>2, <3>3, <3>4, <3>5 DEF InBreak, InMab, Together
  <2>3. CASE progress # "IN_MAB"
    <3>1. sniffer' = [sniffer EXCEPT !.neg = Edge] /\ progress' = progress /\ ~disturbed
      BY <1>4, <2>3 DEF NegativeEdge
    <3>2. Sniffed
      BY <1>1, <3>1 DEF SniffInv
    <3>3. Pair' = Pair /\ sniffer'.neg = <<wire.packet, wire.at>>
      BY <1>2, <3>1 DEF Pair, Edge
    <3>4. wire.at # "break" /\ progress # "IN_BREAK"
      BY <1>1, <2>1, <3>2 DEF BreakTimed, InBreak
    <3>5. Prompt' /\ BreakTimed'
      BY <1>1, <3>2, <3>3, <3>4 DEF Prompt, BreakTimed, Frozen, At
    <3>6. QED
      BY <2>3, <3>1, <3>2, <3>3, <3>4, <3>5 DEF InBreak, InMab, Together
  <2>4. QED
    BY <2>2, <2>3
<1>5. QED
  BY <1>3, <1>4 DEF GpioIsr

\* A call that takes the progress from a pair that is being timed, disturbs it.
LEMMA PortSniffed ==
  ASSUME LifeInv, Sniffed, ~disturbed', sniffer'.on,
         SnifferEnable \/ SnifferDisable \/ MarkRead \/ TurnToRead \/ SendingEnds
  PROVE  Sniffed'
<1> USE DEF Sniffed
<1>1. CASE SnifferEnable \/ SnifferDisable
  BY <1>1 DEF SnifferEnable, SnifferDisable, LifeInv, Types
<1>2. CASE MarkRead \/ TurnToRead \/ SendingEnds
  <2>1. /\ UNCHANGED <<rx, wire, edge, sniffer, loc, raised>>
        /\ progress # "IN_MAB" /\ progress' \in {"STALE", "COMPLETE"} /\ (rts => rts')
    BY <1>2 DEF MarkRead, TurnToRead, SendingEnds, dmx, uart, InMab
  <2>2. Prompt' /\ BreakTimed'
    BY <2>1 DEF Prompt, BreakTimed, Frozen, At
  <2>3. QED
    BY <2>1, <2>2 DEF InBreak, InMab, Together, Pair
<1>3. QED
  BY <1>1, <1>2

\* A task that disables, enables or accesses flash disturbs the packet; one
\* that sends waits for the end of the line's.
LEMMA TaskSniffed ==
  ASSUME LifeInv, Sniffed, sniffer.on, ~disturbed', sniffer'.on, NEW t \in Tasks, TaskNext(t)
  PROVE  Sniffed'
<1> USE DEF Sniffed
<1>1. loc \in [Tasks -> Locals] /\ loc[t] \in Locals /\ Knows(t)
  BY DEF LifeInv, Types, Control
<1>2. loc[t].done \in Labels \ {"flash"} /\ loc[t].then \in Labels \ {"flash"} /\ ~Frozen
  BY <1>1 DEF Locals, Labels, Prompt
<1>3. ASSUME UNCHANGED <<rx, dmx, wire, uart, edge, sniffer>>,
             \A u \in Tasks \ {t} : loc'[u] = loc[u], loc'[t].at # "flash"
      PROVE  Sniffed'
  BY <1>2, <1>3 DEF Prompt, BreakTimed, InBreak, InMab, Together, Pair, Frozen, At, dmx, uart
<1>4. CASE Disable(t) \/ Enable(t) \/ FlashBegins(t) \/ FlashEnds(t)
  BY <1>2, <1>4 DEF Disable, Enable, FlashBegins, FlashEnds, Frozen
<1>5. CASE CheckDisable(t) \/ CheckEnable(t) \/ AccessEnds(t)
  <2>1. PICK at \in Labels \ {"flash"} : Goto(t, at)
    BY <1>2, <1>5 DEF CheckDisable, CheckEnable, AccessEnds, Labels
  <2>2. (\A u \in Tasks \ {t} : loc'[u] = loc[u]) /\ loc'[t].at = at
    BY <1>1, <2>1, GotoIs
  <2>3. QED
    BY <1>3, <1>5, <2>2 DEF CheckDisable, CheckEnable, AccessEnds
<1>6. CASE Look(t)
  <2>1. loc' = [loc EXCEPT ![t] = [loc[t] EXCEPT !.at = "check_disable", !.saw = installed /\ enabled]]
    BY <1>1, <1>6 DEF Look
  <2>2. (\A u \in Tasks \ {t} : loc'[u] = loc[u]) /\ loc'[t].at = "check_disable"
    BY <1>1, <2>1 DEF Locals
  <2>3. QED
    BY <1>3, <1>6, <2>2 DEF Look
<1>7. CASE InstallEnds(t)
  <2>1. ~Powered
    BY <1>1, <1>7 DEF InstallEnds, Runs, At, Knows, Powered
  <2>2. QED
    BY <2>1 DEF LifeInv, Quiet
<1>8. CASE StartSending(t)
  <2>1. /\ Goto(t, "idle") /\ wire.at = "idle" /\ ~edge /\ (rx => raised = {})
        /\ status' = "SENDING" /\ progress' = "IN_BREAK"
        /\ UNCHANGED <<rx, wire, uart, edge, sniffer>>
    BY <1>8 DEF StartSending, Pending
  <2>2. (\A u \in Tasks \ {t} : loc'[u] = loc[u]) /\ loc'[t].at = "idle"
    BY <1>1, <2>1, GotoIs DEF Labels
  <2>3. Prompt' /\ BreakTimed'
    BY <1>2, <2>1, <2>2 DEF Prompt, BreakTimed, Frozen, At, uart
  <2>4. progress # "IN_MAB"
    BY <2>1 DEF InMab
  <2>5. QED
    BY <2>1, <2>3, <2>4 DEF InBreak, InMab, Together, Pair
<1>9. CASE Call(t)
  <2>1. CASE InstallBegins(t) \/ Delete(t)
    BY <2>1 DEF InstallBegins, Delete, Unsniffed
  <2>2. CASE \E at \in {"look", "check_disable", "check_enable", "send"} : \E done \in {"idle", "access"} :
               Begin(t, at, done)
    <3>1. PICK at \in {"look", "check_disable", "check_enable", "send"}, done \in {"idle", "access"} :
            Begin(t, at, done)
      BY <2>2
    <3> DEFINE r == [Resting EXCEPT !.at = at, !.done = done]
    <3>2. r.at = at
      BY DEF Resting
    <3>3. loc' = [loc EXCEPT ![t] = r] /\ UNCHANGED <<rx, dmx, wire, uart, edge, sniffer>>
      BY <3>1 DEF Begin
    <3> HIDE DEF r
    <3>4. (\A u \in Tasks \ {t} : loc'[u] = loc[u]) /\ loc'[t].at # "flash"
      BY <1>1, <3>2, <3>3
    <3>5. QED
      BY <1>3, <3>3, <3>4
  <2>3. QED
    BY <1>9, <2>1, <2>2 DEF Call
<1>10. QED
  BY <1>4, <1>5, <1>6, <1>7, <1>8, <1>9 DEF TaskNext, Nvs, Switch

\* Only an edge ends a disturbance, and a sniffer is enabled disturbed.
LEMMA DisturbanceStays ==
  ASSUME LifeInv, [Next]_vars, ~GpioIsr, ~disturbed', sniffer'.on
  PROVE  ~disturbed /\ sniffer.on
<1>1. CASE Line \/ UartIsr \/ SnifferEnable \/ SnifferDisable \/ MarkRead
             \/ TurnToRead \/ SendingEnds \/ UNCHANGED vars
  BY <1>1 DEF Line, BreakStarts, BreakSeen, BreakEnds, SlotStarts, SlotRises, SlotEnds, Moves,
     UartIsr, SnifferEnable, SnifferDisable, MarkRead, TurnToRead, SendingEnds, history, vars,
     LifeInv, Types
<1>2. ASSUME NEW t \in Tasks, TaskNext(t) PROVE ~disturbed /\ sniffer.on
  BY <1>2 DEF TaskNext, Call, Begin, InstallBegins, Delete, Nvs, Look, FlashBegins, FlashEnds,
     AccessEnds, Switch, CheckDisable, Disable, CheckEnable, Enable, InstallEnds, StartSending,
     history, Unsniffed
<1>3. QED
  BY <1>1, <1>2 DEF Next

\* The sniffer reports the break and the mark of one packet (dmx_gpio_isr(),
\* dmx_sniffer_get_data()), unless the packet was disturbed.
THEOREM PairsOfOnePacket == Spec => []SniffedTogether
<1>1. Init => SniffInv
  BY DEF Init, SniffInv, Unsniffed
<1>2. LifeInv /\ SniffInv /\ [Next]_vars => SniffInv'
  <2> SUFFICES ASSUME LifeInv, SniffInv, [Next]_vars, sniffer'.on, ~disturbed' PROVE Sniffed'
    BY DEF SniffInv
  <2>1. CASE GpioIsr
    BY <2>1, GpioSniffed
  <2>2. CASE ~GpioIsr
    <3>1. ~disturbed /\ sniffer.on
      BY <2>2, DisturbanceStays
    <3>2. Sniffed
      BY <3>1 DEF SniffInv
    <3>3. CASE UNCHANGED vars
      BY <3>2, <3>3 DEF vars, dmx, uart, Sniffed, Prompt, BreakTimed, InBreak, InMab, Together, Pair,
         Frozen, At
    <3>4. QED
      BY <2>2, <3>1, <3>2, <3>3, LineSniffed, UartSniffed, PortSniffed, TaskSniffed DEF Next
  <2>3. QED
    BY <2>1, <2>2
<1>3. SniffInv => SniffedTogether
  BY DEF SniffInv, Sniffed, Together, Pair, SniffedTogether
<1>4. QED
  BY <1>1, <1>2, <1>3, LifeInvariant, PTL DEF Spec
=============================================================================
