---------------------------- MODULE WifiStation ----------------------------
(***************************************************************************)
(* main/wifi.c: the event handler, called by the event task for the events *)
(* of the Wi-Fi station in their order, against wifi_loop, which the super *)
(* loop calls to learn of the handler's event bits when its time has come: *)
(* the handler may have run any number of times since the last look.       *)
(***************************************************************************)
EXTENDS Naturals, Sequences

CONSTANTS
  MaximumRetry,   \* CONFIG_ESP_MAXIMUM_RETRY
  EventMax        \* bound: events that wait for the event task

ASSUME StationAssumption ==
  MaximumRetry \in Nat /\ EventMax \in Nat \ {0}

VARIABLES
  station,          \* "down", "connecting" or "up"
  events,           \* events posted and not handled yet
  s_retry_num,
  bits,             \* the event group: "connected", "fail"
  wifi_connection,  \* "WIFI_DISCONNECTED" or "WIFI_CONNECTED"
  next_update,      \* *next_update: "ahead", "due", or "last" (see Clock)
  seen              \* the bits that wifi_loop last found (history)

pollVars == <<wifi_connection, next_update, seen>>
wifiVars == <<station, events, s_retry_num, bits, pollVars>>

-----------------------------------------------------------------------------
(* The station, as the handler meets it *)

Post(event) == Len(events) < EventMax /\ events' = Append(events, event)

\* esp_wifi_connect(): a station that is down tries to connect.
Connect == station' = IF station = "down" THEN "connecting" ELSE station

StationUp ==
  /\ station = "connecting" /\ station' = "up"
  /\ Post("got_ip")
  /\ UNCHANGED <<s_retry_num, bits, pollVars>>

\* An attempt fails, or the connection is lost.
StationDown ==
  /\ station \in {"connecting", "up"} /\ station' = "down"
  /\ Post("disconnected")
  /\ UNCHANGED <<s_retry_num, bits, pollVars>>

-----------------------------------------------------------------------------
(* event_handler() *)

NextEvent(event) ==
  /\ events # <<>> /\ Head(events) = event
  /\ events' = Tail(events)

OnStart ==
  /\ NextEvent("start")
  /\ Connect
  /\ UNCHANGED <<s_retry_num, bits, pollVars>>

RetryLeft == s_retry_num < MaximumRetry

OnDisconnected ==
  /\ NextEvent("disconnected")
  /\ IF RetryLeft
     THEN Connect /\ s_retry_num' = s_retry_num + 1 /\ UNCHANGED bits
     ELSE bits' = bits \cup {"fail"} /\ UNCHANGED <<station, s_retry_num>>
  /\ UNCHANGED pollVars

OnGotIp ==
  /\ NextEvent("got_ip")
  /\ s_retry_num' = 0
  /\ bits' = bits \cup {"connected"}
  /\ UNCHANGED <<station, pollVars>>

-----------------------------------------------------------------------------
(* wifi_loop() *)

\* Mutants: a failure, or a connection, is not reported.
StateOfMutant == IF "connected" \in bits THEN "WIFI_CONNECTED" ELSE wifi_connection
StateOfMutant2 == IF "fail" \in bits THEN "WIFI_DISCONNECTED" ELSE wifi_connection

\* What the bits say of the connection: a connection comes before a failure.
StateOf == IF "connected" \in bits THEN "WIFI_CONNECTED"
           ELSE IF "fail" \in bits THEN "WIFI_DISCONNECTED"
           ELSE wifi_connection

\* The tick counter passes the due time.  It wraps: when the due time is one of
\* its "last" ticks, now > *next_update holds for a few ticks of each round, which
\* the loop may miss every time, or for none.
Clock ==
  /\ next_update # "due" /\ next_update' = "due"
  /\ UNCHANGED <<station, events, s_retry_num, bits, wifi_connection, seen>>

\* The bits, if there are any, are read and cleared at once.
WifiLoop ==
  /\ next_update = "due"
  /\ next_update' \in {"ahead", "last"}
  /\ wifi_connection' = StateOf
  /\ bits' = {}
  /\ seen' = IF bits = {} THEN seen ELSE bits
  /\ UNCHANGED <<station, events, s_retry_num>>

-----------------------------------------------------------------------------
\* wifi_init() starts the station.
WifiInit ==
  /\ station = "down" /\ events = <<"start">>
  /\ s_retry_num = 0
  /\ bits = {}
  /\ wifi_connection = "WIFI_DISCONNECTED"
  /\ next_update = "ahead" /\ seen = {}

Handler == OnStart \/ OnDisconnected \/ OnGotIp
WifiNext == StationUp \/ StationDown \/ Handler \/ Clock \/ WifiLoop

\* Both tasks and the clock go on, and an attempt to connect ends.
WifiFairness ==
  /\ WF_wifiVars(Handler) /\ WF_wifiVars(WifiLoop)
  /\ WF_wifiVars(next_update = "ahead" /\ Clock)
  /\ WF_wifiVars(station = "connecting" /\ (StationUp \/ StationDown))

WifiSpec == WifiInit /\ [][WifiNext]_wifiVars /\ WifiFairness

-----------------------------------------------------------------------------
(* Properties *)

\* The station, its events and the count of retries keep to their types.
WifiTypeOK ==
  /\ station \in {"down", "connecting", "up"}
  /\ events \in Seq({"start", "disconnected", "got_ip"})
  /\ s_retry_num \in 0..MaximumRetry
  /\ bits \subseteq {"connected", "fail"} /\ seen \subseteq {"connected", "fail"}
  /\ wifi_connection \in {"WIFI_DISCONNECTED", "WIFI_CONNECTED"}
  /\ next_update \in {"ahead", "due", "last"}

\* wifi_loop never finds its time come again (wifi.c:95).
Frozen == <>[](next_update = "last")

\* A connection that stays is reported, unless wifi_loop has stopped looking.
UpKnown ==
  <>[](station = "up") => Frozen \/ <>[](wifi_connection = "WIFI_CONNECTED")

\* A station that stays down was given up after the retries, and is reported,
\* unless wifi_loop has stopped looking or its last look found both bits, which it
\* reports as a connection whichever came last (wifi.c:101: "hence we can test
\* which event actually happened").
DownKnown ==
  <>[](station = "down") =>
     /\ <>[](s_retry_num = MaximumRetry)
     /\ \/ Frozen
        \/ <>[](wifi_connection = "WIFI_DISCONNECTED" \/ seen = {"connected", "fail"})
=============================================================================
