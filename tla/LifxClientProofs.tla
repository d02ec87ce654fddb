--------------------------- MODULE LifxClientProofs ---------------------------
(***************************************************************************)
(* Theorems about the LIFX client above the Wi-Fi station, for any periods *)
(* and any delays between two passes of the loop.                          *)
(***************************************************************************)
EXTENDS LifxClient, SequenceTheorems, TLAPS

-----------------------------------------------------------------------------
(* Types *)

\* An age grows up to AgeMax, and keeps what it was longer than.
LEMMA Ageing ==
  ASSUME NEW age \in 0..AgeMax, NEW n \in 1..PassMax
  PROVE  /\ AgeMax \in Nat /\ AgeMax > ResendPeriod /\ AgeMax > WaitTime
         /\ Older(age, n) \in 0..AgeMax /\ Older(age, n) >= age
         /\ \A other \in 0..AgeMax : other <= age => Older(other, n) <= Older(age, n)
BY ClientAssumption DEF AgeMax, Older

\* The station keeps to its types.
LEMMA WifiTypeStep ==
  ASSUME WifiTypeOK, WifiNext
  PROVE  WifiTypeOK'
<1> DEFINE Event == {"start", "disconnected", "got_ip"}
<1>1. MaximumRetry \in Nat
  BY StationAssumption
<1>2. ASSUME NEW e \in Event, Post(e) PROVE events' \in Seq(Event)
  BY <1>2 DEF Post, WifiTypeOK
<1>3. ASSUME NEW e, NextEvent(e) PROVE events' \in Seq(Event)
  BY <1>3, HeadTailProperties DEF NextEvent, WifiTypeOK
<1>4. CASE StationUp
  BY <1>2, <1>4 DEF StationUp, pollVars, WifiTypeOK
<1>5. CASE StationDown
  BY <1>2, <1>5 DEF StationDown, pollVars, WifiTypeOK
<1>6. CASE OnStart
  BY <1>3, <1>6 DEF OnStart, Connect, pollVars, WifiTypeOK
<1>7. CASE OnDisconnected
  <2>1. station' \in {"down", "connecting", "up"} /\ UNCHANGED pollVars
        /\ bits' \subseteq {"connected", "fail"}
    BY <1>7 DEF OnDisconnected, Connect, WifiTypeOK
  <2>2. events' \in Seq(Event)
    BY <1>3, <1>7 DEF OnDisconnected
  <2>3. s_retry_num' \in 0..MaximumRetry
    BY <1>1, <1>7 DEF OnDisconnected, RetryLeft, WifiTypeOK
  <2>4. QED
    BY <2>1, <2>2, <2>3 DEF pollVars, WifiTypeOK
<1>8. CASE OnGotIp
  BY <1>1, <1>3, <1>8 DEF OnGotIp, pollVars, WifiTypeOK
<1>9. CASE WifiLoop
  BY <1>9 DEF WifiLoop, StateOf, WifiTypeOK
<1>10. CASE Clock
  BY <1>10 DEF Clock, WifiTypeOK
<1>11. QED
  BY <1>4, <1>5, <1>6, <1>7, <1>8, <1>9, <1>10 DEF WifiNext, Handler

\* The client's state, ages and socket, and the station's, keep to their types
\* (lifx.c:58-113, wifi.c:26-48, 97-121).
THEOREM TypeCorrect == Spec => []TypeOK
<1>1. Init => TypeOK
  <2>1. AgeMax \in 0..AgeMax /\ MaximumRetry \in Nat
    BY ClientAssumption, StationAssumption DEF AgeMax
  <2>2. Init => WifiTypeOK
    BY <2>1 DEF Init, WifiInit, WifiTypeOK
  <2>3. Init => inbox \in Seq(Packets)
    BY EmptySeq DEF Init
  <2>4. Init => /\ since_send \in 0..AgeMax /\ since_wait \in 0..AgeMax /\ quiet \in 0..AgeMax
                /\ state = "WAIT_WIFI" /\ answered = FALSE
    BY <2>1 DEF Init
  <2>5. QED
    BY <2>2, <2>3, <2>4 DEF TypeOK
<1>2. TypeOK /\ [Next]_vars => TypeOK'
  <2> SUFFICES ASSUME TypeOK, [Next]_vars PROVE TypeOK'
    OBVIOUS
  <2>1. CASE LifxLoop
    <3>1. PICK n \in 1..PassMax : WaitWifi(n) \/ Tx(n) \/ Rx(n) \/ DelayStart(n) \/ Delay(n)
      BY <2>1 DEF LifxLoop
    <3>2. /\ Older(since_send, n) \in 0..AgeMax /\ Older(since_wait, n) \in 0..AgeMax
          /\ Older(quiet, n) \in 0..AgeMax /\ Older(0, n) \in 0..AgeMax /\ 0 \in 0..AgeMax
      <4>1. AgeMax \in Nat /\ 0 \in 0..AgeMax
        BY ClientAssumption DEF AgeMax
      <4>2. QED
        BY <4>1, Ageing DEF TypeOK
    <3>3. since_send' \in 0..AgeMax /\ since_wait' \in 0..AgeMax /\ quiet' \in 0..AgeMax
      BY <3>1, <3>2 DEF WaitWifi, Tx, Rx, DelayStart, Delay, Pass
    <3>4. inbox' \in Seq(Packets)
      BY <3>1, HeadTailProperties DEF WaitWifi, Tx, Rx, DelayStart, Delay, TypeOK
    <3>5. state' \in {"WAIT_WIFI", "TX", "RX", "DELAY_START", "DELAY"}
      BY <3>1 DEF WaitWifi, Tx, Rx, DelayStart, Delay, TypeOK
    <3>6. answered' \in BOOLEAN
      BY <3>1 DEF WaitWifi, Tx, Rx, DelayStart, Delay, TypeOK
    <3>7. WifiTypeOK'
      BY <2>1 DEF LifxLoop, wifiVars, pollVars, WifiTypeOK, TypeOK
    <3>8. QED
      BY <3>3, <3>4, <3>5, <3>6, <3>7 DEF TypeOK
  <2>2. CASE Arrive
    BY <2>2 DEF Arrive, TypeOK, wifiVars, pollVars, WifiTypeOK
  <2>3. CASE WifiNext /\ UNCHANGED lifxVars
    BY <2>3, WifiTypeStep DEF TypeOK, lifxVars
  <2>4. CASE UNCHANGED vars
    BY <2>4 DEF vars, lifxVars, wifiVars, pollVars, TypeOK, WifiTypeOK
  <2>5. QED
    BY <2>1, <2>2, <2>3, <2>4 DEF Next
<1>3. QED
  BY <1>1, <1>2, PTL DEF Spec

-----------------------------------------------------------------------------
(* The time between two requests *)

\* The age of the request is the silence of the client; a pause is not longer
\* than that silence; and each state knows whether the request was answered.
SpacingInv ==
  /\ quiet = since_send
  /\ state = "WAIT_WIFI" => ~answered /\ quiet = AgeMax
  /\ state = "RX" => ~answered
  /\ state = "DELAY_START" => answered
  /\ state = "DELAY" => answered /\ since_wait <= quiet
  /\ RequestsSpaced

\* No pass of the loop breaks it.
LEMMA PassSpacing ==
  ASSUME TypeOK, SpacingInv, NEW n \in 1..PassMax,
         WaitWifi(n) \/ Tx(n) \/ Rx(n) \/ DelayStart(n) \/ Delay(n)
  PROVE  SpacingInv'
<1>1. /\ AgeMax \in Nat /\ AgeMax > ResendPeriod /\ AgeMax > WaitTime
      /\ ResendPeriod \in Nat /\ WaitTime \in Nat
      /\ quiet \in 0..AgeMax /\ since_wait \in 0..AgeMax /\ answered \in BOOLEAN
      /\ quiet = since_send
      /\ Older(quiet, n) \in 0..AgeMax /\ Older(quiet, n) >= quiet
      /\ 0 <= quiet => Older(0, n) <= Older(quiet, n)
      /\ since_wait <= quiet => Older(since_wait, n) <= Older(quiet, n)
      /\ Older(since_wait, n) \in 0..AgeMax
  <2>1. /\ quiet \in 0..AgeMax /\ since_wait \in 0..AgeMax /\ 0 \in 0..AgeMax
        /\ answered \in BOOLEAN /\ quiet = since_send
    BY ClientAssumption DEF TypeOK, SpacingInv, AgeMax
  <2>2. ResendPeriod \in Nat /\ WaitTime \in Nat
    BY ClientAssumption
  <2>3. QED
    BY <2>1, <2>2, Ageing
<1>2. CASE WaitWifi(n)
  <2>1. /\ ~answered /\ quiet = AgeMax /\ state' \in {"WAIT_WIFI", "TX"}
        /\ quiet' = Older(quiet, n) /\ since_send' = quiet' /\ answered' = answered
    BY <1>1, <1>2 DEF WaitWifi, Pass, SpacingInv
  <2>2. quiet' = AgeMax
    BY <1>1, <2>1
  <2>3. QED
    BY <1>1, <2>1, <2>2 DEF SpacingInv, RequestsSpaced
<1>3. CASE Tx(n)
  BY <1>3 DEF Tx, Pass, SpacingInv, RequestsSpaced
<1>4. CASE Rx(n)
  <2>1. /\ ~answered /\ quiet' = Older(quiet, n) /\ since_send' = quiet'
    BY <1>1, <1>4 DEF Rx, Pass, SpacingInv
  <2>2. CASE Overdue
    <3>1. state' = "TX" /\ answered' = answered /\ quiet > ResendPeriod
      BY <1>1, <1>4, <2>2 DEF Rx, Overdue
    <3>2. quiet' > ResendPeriod
      BY <1>1, <2>1, <3>1
    <3>3. QED
      BY <2>1, <3>1, <3>2 DEF SpacingInv, RequestsSpaced
  <2>3. CASE ~Overdue
    <3>1. \/ state' = "RX" /\ ~answered'
          \/ state' = "DELAY_START" /\ answered'
      BY <1>1, <1>4, <2>1, <2>3 DEF Rx, IsAnswer
    <3>2. QED
      BY <2>1, <3>1 DEF SpacingInv, RequestsSpaced
  <2>4. QED
    BY <2>2, <2>3
<1>5. CASE DelayStart(n)
  <2>1. /\ state' = "DELAY" /\ answered' /\ quiet' = Older(quiet, n) /\ since_send' = quiet'
        /\ since_wait' = Older(0, n)
    BY <1>1, <1>5 DEF DelayStart, Pass, SpacingInv
  <2>2. since_wait' <= quiet'
    BY <1>1, <2>1
  <2>3. QED
    BY <2>1, <2>2 DEF SpacingInv, RequestsSpaced
<1>6. CASE Delay(n)
  <2>1. /\ state' \in {"DELAY", "TX"} /\ (state' = "TX" => since_wait > WaitTime)
        /\ answered /\ answered' = answered
        /\ since_wait <= quiet /\ quiet' = Older(quiet, n) /\ since_send' = quiet'
        /\ since_wait' = Older(since_wait, n)
    BY <1>1, <1>6 DEF Delay, Pass, PauseOver, SpacingInv
  <2>2. since_wait' <= quiet' /\ (state' = "TX" => quiet' > WaitTime)
    BY <1>1, <2>1
  <2>3. QED
    BY <2>1, <2>2 DEF SpacingInv, RequestsSpaced
<1>7. QED
  BY <1>2, <1>3, <1>4, <1>5, <1>6

\* The bulbs are not flooded, whatever arrives and however the connection comes
\* and goes (lifx.c:67-68, 83-109).
THEOREM BulbsNotFlooded == Spec => []RequestsSpaced
<1>1. Init => SpacingInv
  <2>1. AgeMax > ResendPeriod
    BY ClientAssumption DEF AgeMax
  <2>2. QED
    BY <2>1 DEF Init, SpacingInv, RequestsSpaced
<1>2. TypeOK /\ SpacingInv /\ [Next]_vars => SpacingInv'
  <2> SUFFICES ASSUME TypeOK, SpacingInv, [Next]_vars PROVE SpacingInv'
    OBVIOUS
  <2>1. CASE LifxLoop
    BY <2>1, PassSpacing DEF LifxLoop
  <2>2. CASE Arrive \/ UNCHANGED lifxVars
    BY <2>2 DEF Arrive, lifxVars, SpacingInv, RequestsSpaced, AgeMax
  <2>3. QED
    BY <2>1, <2>2 DEF Next, vars
<1>3. SpacingInv => RequestsSpaced
  BY DEF SpacingInv
<1>4. QED
  BY <1>1, <1>2, <1>3, TypeCorrect, PTL DEF Spec
=============================================================================
