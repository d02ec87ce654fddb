------------------------------ MODULE DmxLine ------------------------------
(***************************************************************************)
(* What a DMX transmitter does to the bus: one packet after the other, a   *)
(* break, a mark after break, and the slots from the start code on; an RDM *)
(* discovery response has no break.                                        *)
(***************************************************************************)
EXTENDS Naturals, Sequences

CONSTANT PacketMax   \* slots of the longest packet

VARIABLES
  phase,   \* "idle", "break", "mab" or "data"
  len,     \* slots of the packet being sent
  slots    \* indices of its slots that are on the bus

lineVars == <<phase, len, slots>>

LineInit == phase = "idle" /\ len = 0 /\ slots = <<>>

\* A packet starts with its break, a discovery response with its first slot.
Start(n, first) ==
  /\ phase = "idle" /\ first \in {"break", "data"}
  /\ phase' = first /\ len' = n /\ slots' = <<>>

EndBreak == phase = "break" /\ phase' = "mab" /\ UNCHANGED <<len, slots>>

EndMab == phase = "mab" /\ phase' = "data" /\ UNCHANGED <<len, slots>>

Slot ==
  /\ phase = "data" /\ Len(slots) < len
  /\ slots' = Append(slots, Len(slots))
  /\ UNCHANGED <<phase, len>>

\* All slots are on the bus.
Finish ==
  /\ phase = "data" /\ Len(slots) = len
  /\ phase' = "idle" /\ len' = 0 /\ slots' = <<>>

LineNext ==
  \/ \E n \in 1..PacketMax, first \in {"break", "data"} : Start(n, first)
  \/ EndBreak \/ EndMab \/ Slot \/ Finish

Spec == LineInit /\ [][LineNext]_lineVars
=============================================================================
