--------------------------- MODULE BedroomLights ---------------------------
(***************************************************************************)
(* The super loop of app_main() (main/main.c) that makes the lights follow *)
(* the wall switch: dmx_loop (main/dmx.c), switch_loop (main/switch.c) and *)
(* app_loop (main/app.c), above the DMX driver that DmxDriver details.     *)
(*                                                                         *)
(* A frame is "on" or "off": the footprints of app.c or zeros.  The slots  *)
(* they use fit the UART FIFO, so the line takes them from the driver's    *)
(* buffer at once when the break is over.                                  *)
(***************************************************************************)
EXTENDS Naturals

CONSTANTS
  TickCount,   \* a power of 2: number of values of TickType_t
  SendPeriod,  \* DMX_SEND_PERIOD, in ticks
  ReadPeriod,  \* SWITCH_READ_PERIOD, in ticks
  WaitTicks,   \* ticks that dmx_send_num() waits for the last packet
  DelayMax     \* bound: ticks between two passes of the loop

Levels == {"on", "off"}

ASSUME LightsAssumption ==
  /\ TickCount \in Nat \ {0}
  /\ SendPeriod \in Nat /\ ReadPeriod \in Nat
  /\ WaitTicks \in Nat /\ DelayMax \in Nat \ {0}

VARIABLES
  tick,                             \* xTaskGetTickCount()
  next_dmx_send, next_switch_read,  \* when the parts of the loop are due
  at,                               \* the part of the loop that runs next
  pin,                              \* level of the switch's input
  switch_state, prev_switch_state,
  dmx_frame,                        \* the frame the application prepares
  data,                             \* the driver's copy of it
  line, outgoing,                   \* the bus, and the frame in the FIFO
  shown                             \* the last frame the lights received

loopVars  == <<tick, next_dmx_send, next_switch_read, at>>
stateVars == <<pin, switch_state, prev_switch_state>>
frameVars == <<dmx_frame, data>>
lineVars  == <<line, outgoing, shown>>
vars == <<loopVars, stateVars, frameVars, lineVars>>

\* TickType_t is unsigned and wraps.
Later(t, n) == (t + n) % TickCount

\* Mutant: a part of the loop is due when its time has not come.
DueMutant(next) == tick < next

\* The test of dmx_loop() and switch_loop(): now > *next_update
Due(next) == tick > next

-----------------------------------------------------------------------------
(* dmx_loop() *)

DmxSkip ==
  /\ at = "dmx" /\ ~Due(next_dmx_send)
  /\ at' = "switch"
  /\ UNCHANGED <<tick, next_dmx_send, next_switch_read, stateVars, frameVars,
                 lineVars>>

\* The next time is reckoned from the tick before dmx_send_num() blocks.
DmxDue ==
  /\ at = "dmx" /\ Due(next_dmx_send)
  /\ next_dmx_send' = Later(tick, SendPeriod)
  /\ at' = "send"
  /\ UNCHANGED <<tick, next_switch_read, stateVars, frameVars, lineVars>>

\* dmx_send_num() starts a packet once the bus is idle ...
DmxSend(n) ==
  /\ at = "send" /\ line = "idle"
  /\ line' = "break"
  /\ tick' = Later(tick, n)
  /\ at' = "switch"
  /\ UNCHANGED <<next_dmx_send, next_switch_read, stateVars, frameVars,
                 outgoing, shown>>

\* ... or gives up when the last packet takes too long.
DmxTimeout ==
  /\ at = "send" /\ line # "idle"
  /\ tick' = Later(tick, WaitTicks)
  /\ at' = "switch"
  /\ UNCHANGED <<next_dmx_send, next_switch_read, stateVars, frameVars,
                 lineVars>>

-----------------------------------------------------------------------------
(* switch_loop() and app_loop() *)

SwitchLoop ==
  /\ at = "switch"
  /\ IF Due(next_switch_read)
     THEN /\ switch_state' = pin
          /\ next_switch_read' = Later(tick, ReadPeriod)
     ELSE UNCHANGED <<switch_state, next_switch_read>>
  /\ at' = "app"
  /\ UNCHANGED <<tick, next_dmx_send, pin, prev_switch_state, frameVars,
                 lineVars>>

\* Mutant: the frame is prepared but never handed to the driver.
ShowMutant(level) == dmx_frame' = level /\ UNCHANGED data

\* turn_lights_on() and turn_lights_off(): prepare the frame, and write it to
\* the driver, which accepts it in the middle of a DMX packet as well.
Show(level) == dmx_frame' = level /\ data' = level

AppLoop ==
  /\ at = "app"
  /\ IF switch_state # prev_switch_state THEN Show(switch_state)
     ELSE UNCHANGED frameVars
  /\ at' = "delay"
  /\ UNCHANGED <<tick, next_dmx_send, next_switch_read, stateVars, lineVars>>

\* vTaskDelay(1), and the ticks the other parts of the loop take
Delay(n) ==
  /\ at = "delay"
  /\ tick' = Later(tick, n)
  /\ at' = "dmx"
  /\ UNCHANGED <<next_dmx_send, next_switch_read, stateVars, frameVars,
                 lineVars>>

-----------------------------------------------------------------------------
(* The switch and the bus *)

Flip ==
  /\ pin' \in Levels \ {pin}
  /\ UNCHANGED <<loopVars, switch_state, prev_switch_state, frameVars, lineVars>>

FillFifo ==
  /\ line = "break" /\ line' = "data"
  /\ outgoing' = data
  /\ UNCHANGED <<loopVars, stateVars, frameVars, shown>>

Sent ==
  /\ line = "data" /\ line' = "idle"
  /\ shown' = outgoing
  /\ UNCHANGED <<loopVars, stateVars, frameVars, outgoing>>

-----------------------------------------------------------------------------
\* After switch_init() and app_init(): the frame is written, nothing is sent.
Init ==
  /\ tick \in 0..TickCount - 1
  /\ next_dmx_send = 0 /\ next_switch_read = 0
  /\ at = "dmx"
  /\ pin \in Levels
  /\ switch_state = pin /\ prev_switch_state = pin
  /\ dmx_frame = pin /\ data = pin
  /\ line = "idle" /\ outgoing = "off" /\ shown = "off"

Loop == \/ DmxSkip \/ DmxDue \/ DmxTimeout \/ SwitchLoop \/ AppLoop
        \/ \E n \in 0..WaitTicks : DmxSend(n)
        \/ \E n \in 1..DelayMax : Delay(n)
Bus  == FillFifo \/ Sent
Next == Loop \/ Bus \/ Flip

\* The only task of the application and the driver's interrupts go on.
Fairness == WF_vars(Loop) /\ WF_vars(Bus)

Spec == Init /\ [][Next]_vars
FairSpec == Spec /\ Fairness

-----------------------------------------------------------------------------
(* Properties *)

\* Ticks wrap in their type, and every part keeps to its states.
TypeOK ==
  /\ tick \in 0..TickCount - 1
  /\ next_dmx_send \in 0..TickCount - 1 /\ next_switch_read \in 0..TickCount - 1
  /\ at \in {"dmx", "send", "switch", "app", "delay"}
  /\ pin \in Levels /\ switch_state \in Levels /\ prev_switch_state \in Levels
  /\ dmx_frame \in Levels /\ data \in Levels
  /\ line \in {"idle", "break", "data"}
  /\ outgoing \in Levels /\ shown \in Levels

\* A due time among the last ticks before the counter wraps: the loop may step
\* over the ticks that are later, and there is none after the very last.
Stuck == \E next \in {next_dmx_send, next_switch_read} :
           next >= TickCount - DelayMax - WaitTicks

\* The lights are refreshed for ever, across any number of wraps of the tick
\* counter, unless a due time falls on the last ticks (dmx.c:29).
KeepsSending == []<>(line = "break") \/ <>Stuck

\* A switch left at the other level than at power-up is followed: after the
\* reads, writes and packets that are in flight, the lights show its level.
ChangeShown ==
  \A level \in Levels :
    <>[](pin = level /\ prev_switch_state # level)
      => <>[](shown = level) \/ <>Stuck

\* The same, back at the level of power-up (app.c:54, 58: either change of the
\* switch turns the lights).
ChangeBackShown ==
  \A level \in Levels :
    <>[](pin = level /\ prev_switch_state = level)
      => <>[](shown = level) \/ <>Stuck

\* switch_state is "Last known state of the switch" (switch.h:23): it comes to
\* follow a switch that is left alone.
SwitchKnown ==
  \A level \in Levels : <>[](pin = level) => <>[](switch_state = level)
=============================================================================
