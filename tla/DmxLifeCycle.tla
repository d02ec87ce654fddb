---------------------------- MODULE DmxLifeCycle ----------------------------
(***************************************************************************)
(* A DMX port that is disabled, enabled, deleted and installed again       *)
(* (dmx/driver.c) while a packet comes in: each access to flash turns the  *)
(* interrupts off and disables the driver around it (dmx/hal/nvs.c), and   *)
(* the sniffer (dmx/sniffer.c, dmx/hal/gpio.c) times the edges of the      *)
(* line.  Each critical section is one step.  Between two steps of the     *)
(* line the handlers have run, unless flash is accessed.  The name space   *)
(* of the parameters is there: nvs_open() (nvs.c:45, 110) makes it in      *)
(* flash for the first write of a device, with the driver still enabled.   *)
(***************************************************************************)
EXTENDS Integers, Sequences

CONSTANTS
  Tasks,       \* those that access storage, or manage the driver
  Slots,       \* of a packet
  FifoSize,    \* of the receiver
  SlowTasks,   \* a packet may begin before the last one is marked as read
  MaxPackets,  \* bounds: packets on the line
  MaxCalls     \* and calls of the tasks

ASSUME LifeCycleAssumption ==
  /\ Slots \in Nat \ {0} /\ FifoSize \in Nat \ {0}
  /\ SlowTasks \in BOOLEAN /\ MaxPackets \in Nat /\ MaxCalls \in Nat

VARIABLES
  installed, enabled,   \* dmx_driver[], is_enabled
  rx,          \* the interrupts of the receiver are enabled
  rts,         \* the transceiver listens
  status, progress, head, size,
  data,        \* the slots that are stored
  unread,      \* a task was told of a packet and did not mark it as read yet
  wire,        \* the line: [at, packet, slot]
  fifo,        \* slots that arrived
  raised,      \* interrupts of the receiver
  edge,        \* the line changed, and the sniffer was not told
  sniffer,     \* [on, index, meta, neg, pos]
  loc,         \* the tasks: [at, saw, done, then]
  calls,
  asked,       \* the application wants the driver disabled
  crossed, overlap, torn, disturbed   \* what has happened, see the properties

dmx == <<rts, status, progress, head, size, data, unread>>
uart == <<fifo, raised>>
history == <<asked, crossed, overlap, torn, disturbed>>
vars == <<installed, enabled, rx, dmx, wire, uart, edge, sniffer, loc, calls, history>>

At(t, at) == loc[t].at = at
Resting == [at |-> "idle", saw |-> FALSE, done |-> "idle", then |-> "idle"]

Goto(t, at) == loc' = [loc EXCEPT ![t] = IF at = "idle" THEN Resting ELSE [@ EXCEPT !.at = at]]

\* While flash is accessed no other code runs on either core.
Frozen == \E t \in Tasks : At(t, "flash")
Runs(t, at) == At(t, at) /\ ~Frozen

\* The UART has no clock until dmx_uart_init(), and nobody uses the port before
\* dmx_driver_install() has returned.
Powered == \A t \in Tasks : loc[t].then # "init"
Ready == installed /\ Powered /\ ~Frozen

NoPair == [brk |-> 0, mab |-> 0]
Nothing == <<0, "none">>

-----------------------------------------------------------------------------
(* The line: break, mark after break and slots, each of which falls and rises *)

Level == IF wire.at \in {"idle", "gap", "bits"} THEN 1 ELSE 0

Pending == (rx /\ raised # {}) \/ (sniffer.on /\ edge)

\* What the handlers have to do is done in time.
Moves(at) ==
  /\ wire.at = at /\ (Frozen \/ ~Pending)
  /\ UNCHANGED <<installed, enabled, rx, dmx, sniffer, loc, calls, history>>

\* A slot arrives, the one of a break as well.
Arrives(slot, interrupt) ==
  IF ~rts THEN UNCHANGED uart
  ELSE /\ fifo' = IF Len(fifo) < FifoSize THEN Append(fifo, slot) ELSE fifo
       /\ raised' = raised \cup {interrupt}
                    \cup (IF Len(fifo) < FifoSize THEN {} ELSE {"overflow"})

\* Nobody starts a packet while this port sends.
BreakStarts ==
  /\ status # "SENDING" /\ (unread => SlowTasks)
  /\ wire.packet < MaxPackets
  /\ Moves("idle")
  /\ wire' = [at |-> "low", packet |-> wire.packet + 1, slot |-> 0]
  /\ edge' = TRUE /\ UNCHANGED uart

BreakSeen ==
  /\ Moves("low")
  /\ Arrives(<<wire.packet, 0>>, "break")
  /\ wire' = [wire EXCEPT !.at = "break"] /\ UNCHANGED edge

BreakEnds ==
  /\ Moves("break")
  /\ wire' = [wire EXCEPT !.at = "gap"]
  /\ edge' = TRUE /\ UNCHANGED uart

SlotStarts ==
  /\ Moves("gap")
  /\ wire' = [wire EXCEPT !.at = "start", !.slot = @ + 1]
  /\ edge' = TRUE /\ UNCHANGED uart

SlotRises ==
  /\ Moves("start")
  /\ wire' = [wire EXCEPT !.at = "bits"]
  /\ edge' = TRUE /\ UNCHANGED uart

SlotEnds ==
  /\ Moves("bits")
  /\ Arrives(<<wire.packet, wire.slot>>, "data")
  /\ wire' = [wire EXCEPT !.at = IF wire.slot = Slots THEN "idle" ELSE "gap"]
  /\ UNCHANGED edge

Line == BreakStarts \/ BreakSeen \/ BreakEnds \/ SlotStarts \/ SlotRises \/ SlotEnds

-----------------------------------------------------------------------------
(* dmx_uart_isr(), the receiving half *)

\* What is in the FIFO is stored, or thrown away before a break was seen.
Stored == IF head < 0 THEN data ELSE SubSeq(data, 1, head) \o fifo
HeadAfter == IF head < 0 THEN head ELSE head + Len(fifo)

Whole(slots) == \E p \in 1..MaxPackets : slots = [i \in 1..Slots |-> <<p, i>>]

RxBreak ==
  /\ "break" \in raised
  /\ size' = IF progress = "IN_DATA" /\ HeadAfter > 0 THEN HeadAfter - 1 ELSE size
  /\ unread' \in {unread, unread \/ (progress = "IN_DATA" /\ HeadAfter > 0)}
  /\ status' = "RECEIVING" /\ progress' = "IN_BREAK" /\ head' = 0
  /\ UNCHANGED torn

\* A packet is complete with its last slot, or with an error.  Whether a task
\* waits for it is left open.
RxData ==
  /\ "break" \notin raised
  /\ head' = HeadAfter
  /\ LET inData == progress \in {"IN_BREAK", "IN_MAB", "IN_DATA"}
         failed == "overflow" \in raised
         complete == inData /\ (failed \/ HeadAfter >= size)
     IN /\ progress' = IF complete THEN "COMPLETE" ELSE IF inData THEN "IN_DATA" ELSE progress
        /\ status' = IF complete THEN "IDLE" ELSE status
        /\ unread' \in {unread, complete \/ unread}
        /\ torn' = (torn \/ (complete /\ ~failed /\ ~Whole(SubSeq(Stored, 1, HeadAfter))))
  /\ UNCHANGED size

UartIsr ==
  /\ rx /\ raised # {} /\ ~Frozen
  /\ RxBreak \/ RxData
  /\ data' = Stored
  /\ fifo' = <<>> /\ raised' = {}
  /\ UNCHANGED <<installed, enabled, rx, rts, wire, edge, sniffer, loc, calls,
                 asked, crossed, overlap, disturbed>>

-----------------------------------------------------------------------------
(* dmx_gpio_isr() *)

\* What an edge tells now: the packet and the part of it that ends.
Edge == <<wire.packet, wire.at>>

\* Mutant: a positive edge is taken for the end of a break whatever the
\* progress of the packet.
BreakOverMutant == sniffer.neg # Nothing

BreakOver == progress = "IN_BREAK" /\ sniffer.neg # Nothing

\* The break of packet p was timed from its start to its end.
PositiveEdge ==
  /\ Level = 1
  /\ IF BreakOver
     THEN LET other == 1 - sniffer.index
              timed == sniffer.neg = <<wire.packet, "low">> /\ wire.at = "gap"
          IN /\ sniffer' = [sniffer EXCEPT !.index = other, !.pos = Edge,
                              !.meta[other].brk = IF timed THEN wire.packet ELSE 0]
             /\ progress' = "IN_MAB"
     ELSE sniffer' = [sniffer EXCEPT !.pos = Edge] /\ UNCHANGED progress
  /\ UNCHANGED disturbed

\* A pair that is timed while the receiver's handler is not held up is whole.
NegativeEdge ==
  /\ Level = 0
  /\ IF progress = "IN_MAB"
     THEN LET timed == sniffer.pos = <<wire.packet, "gap">> /\ wire.slot = 1
          IN /\ sniffer' = [sniffer EXCEPT !.neg = Edge,
                              !.meta[sniffer.index].mab = IF timed THEN wire.packet ELSE 0]
             /\ progress' = "IN_DATA"
             /\ disturbed' = (disturbed /\ (~timed \/ sniffer.meta[sniffer.index].brk # wire.packet
                                           \/ (rx /\ raised # {})))
     ELSE sniffer' = [sniffer EXCEPT !.neg = Edge] /\ UNCHANGED <<progress, disturbed>>

GpioIsr ==
  /\ sniffer.on /\ edge /\ ~Frozen
  /\ PositiveEdge \/ NegativeEdge
  /\ edge' = FALSE
  /\ UNCHANGED <<installed, enabled, rx, rts, status, head, size, data, unread, wire, uart,
                 loc, calls, asked, crossed, overlap, torn>>

-----------------------------------------------------------------------------
(* dmx_sniffer_enable(), dmx_sniffer_disable() *)

Unsniffed == [on |-> FALSE, index |-> 0, meta |-> [i \in 0..1 |-> NoPair],
              neg |-> Nothing, pos |-> Nothing]

SnifferEnable ==
  /\ Ready /\ ~sniffer.on
  /\ sniffer' = [sniffer EXCEPT !.on = TRUE, !.neg = Nothing]
  /\ edge' = FALSE /\ disturbed' = TRUE
  /\ UNCHANGED <<installed, enabled, rx, dmx, wire, uart, loc, calls,
                 asked, crossed, overlap, torn>>

SnifferDisable ==
  /\ Ready /\ sniffer.on
  /\ sniffer' = [sniffer EXCEPT !.on = FALSE]
  /\ UNCHANGED <<installed, enabled, rx, dmx, wire, uart, edge, loc, calls, history>>

-----------------------------------------------------------------------------
(* dmx_receive_num() and dmx_send_num(), as far as they matter here *)

\* The packet is marked as read, whatever the progress is by now.
MarkRead ==
  /\ unread /\ Ready
  /\ progress' = "STALE" /\ unread' = FALSE
  /\ disturbed' = (disturbed \/ progress \in {"IN_BREAK", "IN_MAB"})
  /\ UNCHANGED <<installed, enabled, rx, rts, status, head, size, data, wire, uart, edge,
                 sniffer, loc, calls, asked, crossed, overlap, torn>>

\* A receiving task turns the bus around.
TurnToRead ==
  /\ Ready /\ ~rts /\ status # "SENDING"
  /\ rts' = TRUE /\ progress' = "STALE" /\ head' = -1
  /\ UNCHANGED <<installed, enabled, rx, status, size, data, unread, wire, uart, edge,
                 sniffer, loc, calls, history>>

\* The line is idle.  The driver may have been disabled since it was looked at.
StartSending(t) ==
  /\ Runs(t, "send") /\ wire.at = "idle" /\ ~Pending
  /\ rts' = FALSE /\ status' = "SENDING" /\ progress' = "IN_BREAK" /\ head' = 0
  /\ Goto(t, "idle")
  /\ UNCHANGED <<installed, enabled, rx, size, data, unread, wire, uart, edge, sniffer, calls,
                 history>>

SendingEnds ==
  /\ Ready /\ status = "SENDING"
  /\ status' = "IDLE" /\ progress' = "COMPLETE"
  /\ UNCHANGED <<installed, enabled, rx, rts, head, size, data, unread, wire, uart, edge,
                 sniffer, loc, calls, history>>

-----------------------------------------------------------------------------
(* dmx_driver_disable() and dmx_driver_enable(): a check, and a critical section *)

\* Tasks that believe that the driver is disabled while they access flash.
Accesses(t) == loc[t].at \in {"access", "check_enable"}
OthersAccess(t) == \E u \in Tasks \ {t} : Accesses(u)

CheckDisable(t) ==
  /\ Runs(t, "check_disable")
  /\ Goto(t, IF installed /\ enabled THEN "disable" ELSE loc[t].done)
  /\ UNCHANGED <<installed, enabled, rx, dmx, wire, uart, edge, sniffer, calls, history>>

\* A driver that sends is not disabled, and nobody looks at the result.
Disable(t) ==
  /\ Runs(t, "disable")
  /\ IF status = "SENDING"
     THEN overlap' = TRUE /\ UNCHANGED <<enabled, rx, raised, asked>>
     ELSE /\ enabled' = FALSE /\ rx' = FALSE /\ raised' = {}
          /\ asked' = (asked \/ loc[t].done = "idle")
          /\ UNCHANGED overlap
  /\ disturbed' = TRUE
  /\ Goto(t, loc[t].done)
  /\ UNCHANGED <<installed, dmx, wire, fifo, edge, sniffer, calls, crossed, torn>>

CheckEnable(t) ==
  /\ Runs(t, "check_enable")
  /\ Goto(t, IF installed /\ ~enabled THEN "enable" ELSE loc[t].then)
  /\ UNCHANGED <<installed, enabled, rx, dmx, wire, uart, edge, sniffer, calls, history>>

\* Mutant: a packet that is on the line is taken up again.
HeadEnabledMutant == head

\* Nothing is stored before a break is seen.
HeadEnabled == -1

\* Status and progress stay as they were.
Enable(t) ==
  /\ Runs(t, "enable")
  /\ enabled' = TRUE /\ rx' = Powered
  /\ head' = HeadEnabled
  /\ fifo' = <<>> /\ raised' = {}
  /\ asked' = FALSE
  /\ crossed' = (crossed \/ \E u \in Tasks \ {t} : ~loc[u].saw /\ loc[u].at \in {"check_disable", "disable"})
  /\ overlap' = (overlap \/ OthersAccess(t))
  /\ disturbed' = TRUE
  /\ Goto(t, loc[t].then)
  /\ UNCHANGED <<installed, rts, status, progress, size, data, unread, wire, edge, sniffer,
                 calls, torn>>

-----------------------------------------------------------------------------
(* dmx_nvs_get() and dmx_nvs_set() *)

\* Mutant: whether the driver is enabled is looked at once it is disabled.
LookMutant(t) ==
  /\ Runs(t, "look")
  /\ loc' = [loc EXCEPT ![t].at = "check_disable", ![t].saw = FALSE]
  /\ UNCHANGED <<installed, enabled, rx, dmx, wire, uart, edge, sniffer, calls, history>>

Look(t) ==
  /\ Runs(t, "look")
  /\ loc' = [loc EXCEPT ![t].at = "check_disable", ![t].saw = installed /\ enabled]
  /\ UNCHANGED <<installed, enabled, rx, dmx, wire, uart, edge, sniffer, calls, history>>

\* One of the accesses to flash that a read or a write consists of.
FlashBegins(t) ==
  /\ Runs(t, "access")
  /\ Goto(t, "flash") /\ disturbed' = TRUE
  /\ UNCHANGED <<installed, enabled, rx, dmx, wire, uart, edge, sniffer, calls,
                 asked, crossed, overlap, torn>>

FlashEnds(t) ==
  /\ At(t, "flash")
  /\ Goto(t, "access")
  /\ UNCHANGED <<installed, enabled, rx, dmx, wire, uart, edge, sniffer, calls, history>>

AccessEnds(t) ==
  /\ Runs(t, "access")
  /\ Goto(t, IF loc[t].saw THEN "check_enable" ELSE loc[t].then)
  /\ UNCHANGED <<installed, enabled, rx, dmx, wire, uart, edge, sniffer, calls, history>>

-----------------------------------------------------------------------------
(* dmx_driver_install() and dmx_driver_delete() *)

\* The driver is there before its peripherals are, and reads parameters.
InstallBegins(t) ==
  /\ ~installed
  /\ installed' = TRUE /\ enabled' = TRUE /\ rx' = FALSE /\ asked' = FALSE
  /\ status' = "IDLE" /\ progress' = "STALE" /\ head' = -1 /\ size' = Slots
  /\ data' = <<>> /\ unread' = FALSE
  /\ sniffer' = Unsniffed
  /\ overlap' = (overlap \/ OthersAccess(t))
  /\ crossed' = (crossed \/ \E u \in Tasks \ {t} : ~loc[u].saw /\ loc[u].at \in {"check_disable", "disable"})
  /\ disturbed' = TRUE
  /\ loc' = [loc EXCEPT ![t] = [at |-> "look", saw |-> FALSE, done |-> "access", then |-> "init"]]
  /\ UNCHANGED <<rts, wire, uart, edge, torn>>

\* dmx_uart_init() and what follows: the receiver interrupts, even if another
\* task has disabled the driver meanwhile and others take it for disabled.
InstallEnds(t) ==
  /\ Runs(t, "init")
  /\ rx' = TRUE /\ rts' = TRUE
  /\ fifo' = <<>> /\ raised' = {}
  /\ overlap' = (overlap \/ ~enabled \/ OthersAccess(t))
  /\ Goto(t, "idle")
  /\ UNCHANGED <<installed, enabled, status, progress, head, size, data, unread, wire, edge,
                 sniffer, calls, asked, crossed, torn, disturbed>>

\* The mutex must be free.  The sniffer is disabled, the receiver turned off.
\* No other task is between a check and what it checked for: it would use a
\* driver that is gone.
Delete(t) ==
  /\ Ready
  /\ \A u \in Tasks \ {t} :
        loc[u].at \notin {"send", "disable", "enable"}
  /\ installed' = FALSE /\ enabled' = FALSE /\ rx' = FALSE
  /\ sniffer' = Unsniffed /\ unread' = FALSE
  /\ status' = "IDLE" /\ asked' = FALSE
  /\ fifo' = <<>> /\ raised' = {}
  /\ UNCHANGED <<rts, progress, head, size, data, wire, edge, loc,
                 crossed, overlap, torn, disturbed>>

-----------------------------------------------------------------------------
(* What a task calls *)

Begin(t, at, done) ==
  /\ loc' = [loc EXCEPT ![t] = [Resting EXCEPT !.at = at, !.done = done]]
  /\ UNCHANGED <<installed, enabled, rx, dmx, wire, uart, edge, sniffer, history>>

Call(t) ==
  /\ Runs(t, "idle") /\ calls < MaxCalls
  /\ calls' = calls + 1
  /\ \/ Begin(t, "look", "access")                             \* a parameter of any port
     \/ Ready /\ Begin(t, "check_disable", "idle")
     \/ Ready /\ Begin(t, "check_enable", "idle")
     \/ Ready /\ enabled /\ Begin(t, "send", "idle")
     \/ InstallBegins(t)
     \/ Delete(t)

Init ==
  /\ installed \in BOOLEAN /\ enabled = installed /\ rx = installed /\ rts = TRUE
  /\ status = "IDLE" /\ progress = "STALE" /\ head = -1 /\ size = Slots
  /\ data = <<>> /\ unread = FALSE
  /\ wire = [at |-> "idle", packet |-> 0, slot |-> 0]
  /\ fifo = <<>> /\ raised = {} /\ edge = FALSE
  /\ sniffer = Unsniffed
  /\ loc = [t \in Tasks |-> Resting] /\ calls = 0
  /\ asked = FALSE /\ crossed = FALSE /\ overlap = FALSE
  /\ torn = FALSE /\ disturbed = FALSE

Nvs(t) == Look(t) \/ FlashBegins(t) \/ FlashEnds(t) \/ AccessEnds(t)

Switch(t) == CheckDisable(t) \/ Disable(t) \/ CheckEnable(t) \/ Enable(t)

TaskNext(t) == Call(t) \/ Nvs(t) \/ Switch(t) \/ InstallEnds(t) \/ StartSending(t)

Next ==
  \/ Line \/ UartIsr \/ GpioIsr
  \/ SnifferEnable \/ SnifferDisable
  \/ MarkRead \/ TurnToRead \/ SendingEnds
  \/ \E t \in Tasks : TaskNext(t)

Spec == Init /\ [][Next]_vars

-----------------------------------------------------------------------------
(* Properties *)

\* The receiver interrupts only for a driver that is installed, and stores
\* within the packets that it expects.
TypeOK ==
  /\ {installed, enabled, rx, rts, unread, edge, sniffer.on} \subseteq BOOLEAN
  /\ rx => installed
  /\ sniffer.on => installed
  /\ status \in {"IDLE", "RECEIVING", "SENDING"}
  /\ progress \in {"STALE", "IN_BREAK", "IN_MAB", "IN_DATA", "COMPLETE"}
  /\ head >= -1 /\ Len(fifo) <= FifoSize
  /\ calls \in 0..MaxCalls

\* A packet that a task is told of without an error consists of the slots of
\* one packet of the line, in their order: "the DMX driver should be disabled
\* before disabling the cache" (driver.h:275), and an enabled one waits for a
\* break (driver.c:339).  The only exceptions are accesses to flash that find
\* the driver enabled: it was sending when it was to be disabled
\* (driver.c:319), or another task enabled or installed it meanwhile.  The one
\* write that makes the name space is not among the accesses of the model.
WholePackets == torn => overlap

WillEnable(t) == loc[t].saw /\ loc[t].at \in {"disable", "access", "flash", "check_enable", "enable"}

\* "Track which drivers are currently enabled and disable those which are"
\* (nvs.c:48): a disabled driver was disabled by the application, or a task
\* is about to enable it.
NeverLeftDisabled == installed /\ ~enabled => asked \/ \E t \in Tasks : WillEnable(t)

\* The only exception: a driver that was disabled or not there when it was
\* looked at, and is enabled or installed by another task before all installed
\* drivers are disabled.
EnabledAgain == crossed \/ NeverLeftDisabled

\* The break and the mark after break that dmx_sniffer_get_data() returns are
\* those of one packet, except within a mark after break (sniffer.c:49), or
\* since the packet was disturbed: by a driver that was disabled, or by a task
\* that marked it as read (io.c:266) while it had just begun.
SniffedTogether ==
  sniffer.on /\ progress # "IN_MAB" /\ ~disturbed =>
    LET m == sniffer.meta[sniffer.index] IN m.brk = m.mab
=============================================================================
