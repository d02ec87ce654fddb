----------------------------- MODULE LifxClient -----------------------------
(***************************************************************************)
(* main/lifx.c over components/esp_lifx and main/udp.c: the state machine  *)
(* that asks the LIFX bulbs for their service once the Wi-Fi station is    *)
(* connected, and polls the socket for answers.  The client was created    *)
(* (lifx_init got a socket).  Ticks are kept as ages: differences of an    *)
(* unsigned tick counter do not depend on where it wraps.                  *)
(***************************************************************************)
EXTENDS WifiStation

CONSTANTS
  ResendPeriod,   \* LIFX_RESEND_PERIOD, in ticks
  WaitTime,       \* WAIT_TIME, in ticks
  PassMax,        \* bound: ticks from one pass of the loop to the next
  InboxMax        \* bound: packets that wait in the socket

\* A packet that esp_lifx decodes, one that it ignores, and a receive error.
Packets == {"state_service", "ignored", "error"}

ASSUME ClientAssumption ==
  /\ ResendPeriod \in Nat /\ WaitTime \in Nat
  /\ PassMax \in Nat \ {0} /\ InboxMax \in Nat

VARIABLES
  state,        \* udp_state_t
  since_send,   \* now - last_send, up to AgeMax
  since_wait,   \* now - wait_start, up to AgeMax
  inbox,        \* packets that wait in the socket
  quiet,        \* ticks since a request was sent, up to AgeMax (history)
  answered      \* was the last request answered? (history)

lifxVars == <<state, since_send, since_wait, inbox, quiet, answered>>
vars == <<wifiVars, lifxVars>>

AgeMax == ResendPeriod + WaitTime + PassMax
Older(age, n) == IF age + n < AgeMax THEN age + n ELSE AgeMax

\* A pass of lifx_loop(), n ticks before the next one.
Pass(n, sends, waits) ==
  /\ since_send' = Older(IF sends THEN 0 ELSE since_send, n)
  /\ since_wait' = Older(IF waits THEN 0 ELSE since_wait, n)

WaitWifi(n) ==
  /\ state = "WAIT_WIFI"
  /\ state' = IF wifi_connection = "WIFI_CONNECTED" THEN "TX" ELSE state
  /\ Pass(n, FALSE, FALSE)
  /\ quiet' = Older(quiet, n)
  /\ UNCHANGED <<inbox, answered>>

\* Mutant: the time of the request is not kept.
TxMutant(n) ==
  /\ state = "TX" /\ state' = "RX"
  /\ Pass(n, FALSE, FALSE)
  /\ quiet' = Older(0, n) /\ answered' = FALSE
  /\ UNCHANGED inbox

\* The request is sent, or lost with an error: the client goes on all the same.
Tx(n) ==
  /\ state = "TX" /\ state' = "RX"
  /\ Pass(n, TRUE, FALSE)
  /\ quiet' = Older(0, n) /\ answered' = FALSE
  /\ UNCHANGED inbox

Overdue == since_send > ResendPeriod

IsAnswer(packet) == packet = "state_service"

\* No answer in time, or the next packet of the socket, if there is one.
Rx(n) ==
  /\ state = "RX"
  /\ IF Overdue THEN state' = "TX" /\ UNCHANGED <<inbox, answered>>
     ELSE IF inbox = <<>> THEN UNCHANGED <<state, inbox, answered>>
     ELSE /\ inbox' = Tail(inbox)
          /\ state' = IF IsAnswer(Head(inbox)) THEN "DELAY_START" ELSE "RX"
          /\ answered' = (answered \/ Head(inbox) = "state_service")
  /\ Pass(n, FALSE, FALSE)
  /\ quiet' = Older(quiet, n)

DelayStart(n) ==
  /\ state = "DELAY_START" /\ state' = "DELAY"
  /\ Pass(n, FALSE, TRUE)
  /\ quiet' = Older(quiet, n)
  /\ UNCHANGED <<inbox, answered>>

\* Mutant: the pause never ends.
PauseOverMutant == FALSE

PauseOver == since_wait > WaitTime

Delay(n) ==
  /\ state = "DELAY"
  /\ state' = IF PauseOver THEN "TX" ELSE state
  /\ Pass(n, FALSE, FALSE)
  /\ quiet' = Older(quiet, n)
  /\ UNCHANGED <<inbox, answered>>

LifxLoop == /\ \E n \in 1..PassMax :
                 WaitWifi(n) \/ Tx(n) \/ Rx(n) \/ DelayStart(n) \/ Delay(n)
            /\ UNCHANGED wifiVars

\* Packets arrive whenever they like: in answer to an earlier request, twice,
\* or not at all.
Arrive ==
  /\ Len(inbox) < InboxMax
  /\ \E packet \in Packets : inbox' = Append(inbox, packet)
  /\ UNCHANGED <<wifiVars, state, since_send, since_wait, quiet, answered>>

Init ==
  /\ WifiInit
  /\ state = "WAIT_WIFI"
  /\ since_send = AgeMax /\ since_wait = AgeMax
  /\ inbox = <<>>
  /\ quiet = AgeMax /\ answered = FALSE

Next == LifxLoop \/ Arrive \/ (WifiNext /\ UNCHANGED lifxVars)

Spec == Init /\ [][Next]_vars /\ WifiFairness /\ WF_vars(LifxLoop)

-----------------------------------------------------------------------------
(* Properties *)

\* The state machine, its clocks and the socket keep to their types, and so does
\* the station below, with its count of retries.
TypeOK ==
  /\ WifiTypeOK
  /\ state \in {"WAIT_WIFI", "TX", "RX", "DELAY_START", "DELAY"}
  /\ since_send \in 0..AgeMax /\ since_wait \in 0..AgeMax /\ quiet \in 0..AgeMax
  /\ inbox \in Seq(Packets)
  /\ answered \in BOOLEAN

\* The bulbs are not flooded: a request follows the last one only after the
\* resend period, and after the longer pause when that one was answered,
\* whatever arrives in between (lifx.c:67-68).
RequestsSpaced ==
  state = "TX" => quiet > IF answered THEN WaitTime ELSE ResendPeriod

\* With a connection that stays, the client asks again and again, whether
\* answers come, get lost, or are of the wrong kind, unless wifi_loop stopped
\* looking before the client was told of any connection.
KeepsAsking ==
  <>[](station = "up") =>
    []<>(state = "TX") \/ <>[](next_update = "last" /\ state = "WAIT_WIFI")
=============================================================================
