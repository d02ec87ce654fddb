------------------------- MODULE RdmDiscoveryProofs -------------------------
(***************************************************************************)
(* Theorems about RDM discovery for UIDs of any width and any devices on   *)
(* the bus: types, the size of the stack, the order of the search, that it *)
(* finds every device, and that it gives the mutex back.                   *)
(***************************************************************************)
EXTENDS RdmDiscovery, TLAPS, SequenceTheorems

\* Every report rests on the answer to its own mute.
Own == "repeated" \notin misled

\* The branches that are left lie above each other, the lowest on top, and
\* above everything that was reported by its own answer.
Order ==
  /\ \A i \in 1..Len(stack) : stack[i].lower <= stack[i].upper
  /\ \A i, j \in 1..Len(stack) : i < j => stack[j].upper < stack[i].lower
  /\ Own => \A i, j \in 1..Len(found) : i < j => found[i] < found[j]
  /\ Own => \A i \in 1..Len(found), j \in 1..Len(stack) : found[i] < stack[j].lower

\* What is known of the current branch, by the step that works on it.
Current ==
  /\ at \in {"search", "mute", "callback"} =>
       /\ \A j \in 1..Len(stack) : branch.upper < stack[j].lower
       /\ Own => \A i \in 1..Len(found) : found[i] < branch.lower
  /\ at = "callback" /\ Own => ack.src = branch.lower
  /\ at = "search" => branch.lower < branch.upper
  /\ at \in {"mute", "callback"} => branch.lower = branch.upper
  /\ at \in {"search", "mute"} => attempts < 3

Inv == TypeOK /\ Order /\ Current

-----------------------------------------------------------------------------
(* Helpers of the model *)

\* The two halves of a branch are branches, side by side.
LEMMA HalvesMeet ==
  ASSUME NEW b \in Branches, b.lower < b.upper
  PROVE  /\ LowerHalf(b) \in Branches /\ UpperHalf(b) \in Branches
         /\ LowerHalf(b).lower = b.lower /\ LowerHalf(b).upper = Mid(b)
         /\ UpperHalf(b).lower = Mid(b) + 1 /\ UpperHalf(b).upper = b.upper
         /\ b.lower <= Mid(b) /\ Mid(b) < b.upper
         /\ Mid(b) \in Int
<1>1. b.lower \in Int /\ b.upper \in Int /\ 0 <= b.lower /\ b.upper <= Top /\ Top \in Int
  BY DiscoveryAssumption DEF Branches, Uids
<1>2. \A l, u \in Int : l < u => /\ (l + u) \div 2 \in Int
                                 /\ l <= (l + u) \div 2 /\ (l + u) \div 2 < u
  OBVIOUS
<1>3. b.lower <= Mid(b) /\ Mid(b) < b.upper /\ Mid(b) \in Int
  BY <1>1, <1>2 DEF Mid
<1>4. Mid(b) \in Uids /\ Mid(b) + 1 \in Uids /\ b.lower \in Uids /\ b.upper \in Uids
  BY <1>1, <1>3 DEF Uids
<1>5. QED
  BY <1>3, <1>4 DEF LowerHalf, UpperHalf, Branches

\* What an acknowledgment consists of.
LEMMA AckParts ==
  /\ None \in Acks /\ None.type = "NONE"
  /\ Invalid \in Acks /\ Invalid.type = "INVALID"
  /\ \A uid \in Uids : /\ Answer(uid) \in Acks
                       /\ Answer(uid).type = "ACK" /\ Answer(uid).src = uid
  /\ \A a \in Acks : a.src \in Uids
<1>1. 0 \in Uids
  BY DiscoveryAssumption DEF Uids
<1>2. /\ None \in Acks /\ Invalid \in Acks
      /\ \A uid \in Uids : Answer(uid) \in Acks
  BY DEF Acks
<1>3. None.type = "NONE" /\ None.src = 0 /\ Invalid.type = "INVALID" /\ Invalid.src = 0
  BY DEF None, Invalid
<1>4. \A uid : Answer(uid).type = "ACK" /\ Answer(uid).src = uid
  BY DEF Answer
<1>5. \A a \in Acks : a = None \/ a = Invalid \/ \E uid \in Uids : a = Answer(uid)
  BY DEF Acks
<1>6. \A a \in Acks : a.src \in Uids
  BY <1>1, <1>3, <1>4, <1>5
<1>7. QED
  BY <1>2, <1>3, <1>4, <1>6

\* What a search that was sent leaves as acknowledgment.
LEMMA SearchAck ==
  ASSUME Inv, NEW heard \in SUBSET Responders, Search(heard)
  PROVE  ack' \in Acks /\ (heard = {} <=> ack'.type = "NONE")
<1>1. heard \subseteq Uids
  BY DiscoveryAssumption DEF Inv, TypeOK, Responders
<1>2. ack' \in Heard(heard)
  BY DEF Search
<1>3. CASE heard = {}
  BY <1>2, <1>3, AckParts DEF Heard
<1>4. CASE heard # {}
  <2>1. ack' = Invalid \/ \E d \in heard : ack' = Answer(d)
    BY <1>2, <1>4 DEF Heard
  <2>2. QED
    BY <1>1, <1>4, <2>1, AckParts
<1>5. QED
  BY <1>3, <1>4

\* What a mute that was sent leaves as acknowledgment.
LEMMA MuteAck ==
  ASSUME Inv, NEW heard \in SUBSET Targets(branch.lower), NEW answered \in BOOLEAN,
         Mute(heard, answered)
  PROVE  /\ ack' \in Acks
         /\ answered => ack'.type = "ACK" /\ ack'.src = branch.lower
         /\ ~answered => ack'.type # "ACK"
<1>1. branch.lower \in Uids
  BY DEF Inv, TypeOK, Branches
<1>2. IF answered THEN ack' = Answer(branch.lower) ELSE ack' = Invalid \/ ack' = None
  BY DEF Mute
<1>3. QED
  BY <1>1, <1>2, AckParts

\* Taking the top branch leaves the others in their places.
LEMMA PopLeaves ==
  ASSUME NEW s \in Seq(Branches), s # <<>>
  PROVE  /\ SubSeq(s, 1, Len(s) - 1) \in Seq(Branches)
         /\ Len(SubSeq(s, 1, Len(s) - 1)) = Len(s) - 1
         /\ \A i \in 1..Len(s) - 1 : SubSeq(s, 1, Len(s) - 1)[i] = s[i]
         /\ s[Len(s)] \in Branches
         /\ Len(s) \in Nat /\ Len(s) > 0
<1>1. Len(s) \in Nat /\ Len(s) > 0
  BY EmptySeq
<1>2. \A i \in 1..Len(s) : s[i] \in Branches
  BY ElementOfSeq
<1>3. \A i \in 1..Len(s) - 1 : s[i] \in Branches
  BY <1>1, <1>2
<1>4. /\ SubSeq(s, 1, Len(s) - 1) \in Seq(Branches)
      /\ Len(SubSeq(s, 1, Len(s) - 1)) = IF 1 <= Len(s) - 1 THEN Len(s) - 1 - 1 + 1 ELSE 0
      /\ \A i \in 1..Len(s) - 1 - 1 + 1 : SubSeq(s, 1, Len(s) - 1)[i] = s[1 + i - 1]
  BY <1>1, <1>3, SubSeqProperties
<1>5. \A i \in 1..Len(s) - 1 : i \in 1..Len(s) - 1 - 1 + 1 /\ 1 + i - 1 = i
  BY <1>1
<1>6. Len(SubSeq(s, 1, Len(s) - 1)) = Len(s) - 1
  <2>1. \A n \in Nat : n > 0 => (IF 1 <= n - 1 THEN n - 1 - 1 + 1 ELSE 0) = n - 1
    OBVIOUS
  <2>2. QED
    BY <1>1, <1>4, <2>1, Zenon
<1>7. \A i \in 1..Len(s) - 1 : SubSeq(s, 1, Len(s) - 1)[i] = s[i]
  BY <1>4, <1>5
<1>8. s[Len(s)] \in Branches
  BY <1>1, <1>2
<1>9. QED
  BY <1>1, <1>4, <1>6, <1>7, <1>8

\* The halves lie on top of what was there.
LEMMA PushAdds ==
  ASSUME stack \in Seq(Branches), NEW b \in Branches, b.lower < b.upper
  PROVE  LET s == PushHalves(b) n == Len(stack) IN
         /\ s \in Seq(Branches) /\ n \in Nat
         /\ Len(s) = n + 2
         /\ \A i \in 1..n : s[i] = stack[i]
         /\ s[n + 1] = UpperHalf(b) /\ s[n + 2] = LowerHalf(b)
<1> DEFINE s1 == Append(stack, UpperHalf(b))
           s2 == Append(s1, LowerHalf(b))
<1>1. Len(stack) \in Nat
  BY LenProperties
<1>2. /\ s1 \in Seq(Branches)
      /\ Len(s1) = Len(stack) + 1
      /\ \A i \in 1..Len(stack) : s1[i] = stack[i]
      /\ s1[Len(stack) + 1] = UpperHalf(b)
  BY HalvesMeet, AppendProperties
<1>3. /\ s2 \in Seq(Branches)
      /\ Len(s2) = Len(s1) + 1
      /\ \A i \in 1..Len(s1) : s2[i] = s1[i]
      /\ s2[Len(s1) + 1] = LowerHalf(b)
  <2> HIDE DEF s1
  <2>1. QED
    BY <1>2, HalvesMeet, AppendProperties
<1>4. s2 = PushHalves(b)
  BY DEF PushHalves
<1> HIDE DEF s1, s2
<1>5. QED
  BY <1>1, <1>2, <1>3, <1>4

-----------------------------------------------------------------------------
(* Types, order and the current branch *)

\* Nothing is searched or found yet.
LEMMA InitInv == Init => Inv
<1> SUFFICES ASSUME Init PROVE Inv
  OBVIOUS
<1>1. 0 \in Uids /\ Top \in Uids
  BY DiscoveryAssumption DEF Uids
<1>2. branch \in Branches /\ stack \in Seq(Branches) /\ found \in Seq(Uids)
  BY <1>1 DEF Init, Branches
<1>3. ack \in Acks
  BY AckParts DEF Init
<1>4. TypeOK
  <2>1. /\ at = "idle" /\ attempts = 0 /\ mux = "nobody"
        /\ present = {} /\ muted = {} /\ deaf = {} /\ misled = {}
    BY DEF Init
  <2>2. busy \in BOOLEAN
    BY DEF Init
  <2>3. QED
    BY <1>2, <1>3, <2>1, <2>2 DEF TypeOK
<1>5. Len(stack) = 0 /\ Len(found) = 0
  BY DEF Init
<1>6. Order
  BY <1>5 DEF Order
<1>7. QED
  BY <1>4, <1>6 DEF Init, Inv, Current

\* A new discovery starts with the whole range of UIDs.
LEMMA StartInv ==
  ASSUME Inv, NEW devices \in SUBSET Devices, Start(devices)
  PROVE  Inv'
<1> USE DEF Start
<1>1. [lower |-> 0, upper |-> Top] \in Branches /\ Top >= 0
  BY DiscoveryAssumption DEF Uids, Branches
<1>2. /\ stack' \in Seq(Branches) /\ found' \in Seq(Uids)
      /\ Len(stack') = 1 /\ Len(found') = 0
      /\ stack'[1] = [lower |-> 0, upper |-> Top]
  BY <1>1
<1>3. TypeOK'
  BY <1>2 DEF Inv, TypeOK
<1>4. Order'
  BY <1>1, <1>2 DEF Order
<1>5. QED
  BY <1>3, <1>4 DEF Inv, Current

\* The top branch becomes the current one.
LEMMA PopInv ==
  ASSUME Inv, Pop
  PROVE  Inv'
<1> USE DEF Pop
<1>1. stack \in Seq(Branches) /\ stack # <<>>
  BY DEF Inv, TypeOK
<1>2. /\ stack' \in Seq(Branches) /\ Len(stack') = Len(stack) - 1
      /\ \A i \in 1..Len(stack') : i \in 1..Len(stack) /\ stack'[i] = stack[i]
      /\ branch' = stack[Len(stack)] /\ branch' \in Branches
      /\ Len(stack) \in 1..Len(stack)
  BY <1>1, PopLeaves
<1>3. TypeOK'
  BY <1>2 DEF Inv, TypeOK, busVars, history
<1>4. Order'
  BY <1>2 DEF Inv, Order, Own, history
<1>5. branch'.lower <= branch'.upper /\ branch'.lower \in Int /\ branch'.upper \in Int
  BY <1>2, DiscoveryAssumption DEF Inv, Order, Branches, Uids
<1>6. \A j \in 1..Len(stack') : branch'.upper < stack'[j].lower
  <2> SUFFICES ASSUME NEW j \in 1..Len(stack') PROVE branch'.upper < stack'[j].lower
    OBVIOUS
  <2>1. j \in 1..Len(stack) /\ j < Len(stack)
    BY <1>1, <1>2, PopLeaves
  <2>2. QED
    BY <1>2, <2>1 DEF Inv, Order
<1>7. Own' => \A i \in 1..Len(found') : found'[i] < branch'.lower
  BY <1>2 DEF Inv, Order, Own, history
<1>8. Current'
  BY <1>5, <1>6, <1>7 DEF Current
<1>9. QED
  BY <1>3, <1>4, <1>8 DEF Inv

\* An answer puts the halves of the branch in its place.
LEMMA SplitInv ==
  ASSUME Inv, at = "search", SplitOrRetry, ack' \in Acks, busy' \in BOOLEAN,
         misled' \subseteq {"repeated", "given_up"}, Own' <=> Own,
         UNCHANGED <<branch, found, mux, busVars, deaf>>
  PROVE  Inv'
<1> USE DEF SplitOrRetry
<1>1. /\ stack \in Seq(Branches) /\ branch \in Branches /\ branch.lower < branch.upper
      /\ \A j \in 1..Len(stack) : branch.upper < stack[j].lower
      /\ Own => \A i \in 1..Len(found) : found[i] < branch.lower
  BY DEF Inv, TypeOK, Current
<1>2. CASE ack'.type # "NONE"
  <2> DEFINE n == Len(stack)
  <2>1. /\ stack' \in Seq(Branches) /\ n \in Nat /\ Len(stack') = n + 2
        /\ \A i \in 1..n : stack'[i] = stack[i]
        /\ stack'[n + 1] = UpperHalf(branch) /\ stack'[n + 2] = LowerHalf(branch)
    BY <1>1, <1>2, PushAdds
  <2>2. /\ UpperHalf(branch) \in Branches /\ LowerHalf(branch) \in Branches
        /\ LowerHalf(branch).lower = branch.lower /\ LowerHalf(branch).upper = Mid(branch)
        /\ UpperHalf(branch).lower = Mid(branch) + 1 /\ UpperHalf(branch).upper = branch.upper
        /\ branch.lower <= Mid(branch) /\ Mid(branch) < branch.upper
        /\ Mid(branch) \in Int
    BY <1>1, HalvesMeet
  <2>3. TypeOK'
    BY <1>2, <2>1 DEF Inv, TypeOK, busVars
  <2>4. /\ branch.lower \in Int /\ branch.upper \in Int
        /\ \A i \in 1..n : stack[i].lower \in Int /\ stack[i].upper \in Int
        /\ \A i \in 1..Len(found) : found[i] \in Int
        /\ Len(found) \in Nat
    <3>1. Uids \subseteq Int
      BY DEF Uids
    <3>2. \A i \in 1..n : stack[i] \in Branches
      BY <1>1, ElementOfSeq
    <3>3. \A i \in 1..Len(found) : found[i] \in Uids
      BY ElementOfSeq DEF Inv, TypeOK
    <3>4. Len(found) \in Nat
      BY LenProperties DEF Inv, TypeOK
    <3>5. \A b \in Branches : b.lower \in Int /\ b.upper \in Int
      BY <3>1 DEF Branches
    <3>6. QED
      BY <1>1, <3>1, <3>2, <3>3, <3>4, <3>5
  <2> HIDE DEF n
  <2>5. \A i \in 1..Len(stack') : i \in 1..n \/ i = n + 1 \/ i = n + 2
    BY <2>1
  <2>6. \A i \in 1..Len(stack') : stack'[i].lower <= stack'[i].upper
    <3> SUFFICES ASSUME NEW i \in 1..Len(stack')
                 PROVE  stack'[i].lower <= stack'[i].upper
      OBVIOUS
    <3>1. CASE i \in 1..n
      BY <2>1, <3>1 DEF Inv, Order, n
    <3>2. CASE i \in {n + 1, n + 2}
      BY <1>1, <2>1, <2>2, <2>4, <3>2
    <3>3. QED
      BY <2>5, <3>1, <3>2
  <2>7. \A i, j \in 1..Len(stack') : i < j => stack'[j].upper < stack'[i].lower
    <3> SUFFICES ASSUME NEW i \in 1..Len(stack'), NEW j \in 1..Len(stack'), i < j
                 PROVE  stack'[j].upper < stack'[i].lower
      OBVIOUS
    <3>1. CASE j \in 1..n
      <4>1. i \in 1..n
        BY <2>1, <3>1
      <4>2. QED
        BY <2>1, <3>1, <4>1 DEF Inv, Order, n
    <3>2. CASE i \in 1..n /\ j \in {n + 1, n + 2}
      BY <1>1, <2>1, <2>2, <2>4, <3>2 DEF n
    <3>3. CASE i = n + 1 /\ j = n + 2
      BY <2>1, <2>2, <3>3
    <3>4. QED
      BY <2>1, <2>5, <3>1, <3>2, <3>3
  <2>8. Own => \A i \in 1..Len(found'), j \in 1..Len(stack') : found'[i] < stack'[j].lower
    <3> SUFFICES ASSUME Own, NEW i \in 1..Len(found), NEW j \in 1..Len(stack')
                 PROVE  found[i] < stack'[j].lower
      BY <1>2
    <3>1. found[i] < branch.lower /\ found[i] \in Int
      BY <1>1, <2>4
    <3>2. CASE j \in 1..n
      BY <2>1, <3>2 DEF Inv, Order, n
    <3>3. CASE j \in {n + 1, n + 2}
      BY <2>1, <2>2, <2>4, <3>1, <3>3
    <3>4. QED
      BY <2>5, <3>2, <3>3
  <2>9. Order'
    BY <1>2, <2>6, <2>7, <2>8 DEF Inv, Order
  <2>10. Current'
    BY <1>2 DEF Current
  <2>11. QED
    BY <2>3, <2>9, <2>10 DEF Inv
<1>3. CASE ack'.type = "NONE"
  <2>1. UNCHANGED <<stack, found, branch>> /\ at' \in {"search", "pop"}
    BY <1>3
  <2>2. attempts < 3 /\ attempts' = attempts + 1 /\ (at' = "search" => attempts' < 3)
    BY <1>3 DEF Inv, Current, Again, Counted
  <2>3. TypeOK'
    BY <1>3, <2>1, <2>2 DEF Inv, TypeOK, busVars
  <2>4. Order' /\ Current'
    BY <1>1, <2>1, <2>2 DEF Inv, Order, Current
  <2>5. QED
    BY <2>3, <2>4 DEF Inv
<1>4. QED
  BY <1>2, <1>3

LEMMA SearchInv ==
  ASSUME Inv, SearchNotSent \/ \E heard \in SUBSET Responders : Search(heard)
  PROVE  Inv'
<1>1. CASE SearchNotSent
  <2>1. Own' <=> Own
    BY <1>1 DEF SearchNotSent, GivenUp, Own
  <2>2. ack' \in Acks /\ busy' \in BOOLEAN /\ misled' \subseteq {"repeated", "given_up"}
    BY <1>1 DEF SearchNotSent, NotSent, GivenUp, Inv, TypeOK
  <2>3. QED
    BY <1>1, <2>1, <2>2, SplitInv DEF SearchNotSent
<1>2. CASE \E heard \in SUBSET Responders : Search(heard)
  <2>1. PICK heard \in SUBSET Responders : Search(heard)
    BY <1>2
  <2>2. ack' \in Acks
    BY <2>1, SearchAck
  <2>3. busy' \in BOOLEAN /\ misled' \subseteq {"repeated", "given_up"} /\ (Own' <=> Own)
    BY <2>1 DEF Search, Sent, history, Own, Inv, TypeOK
  <2>4. QED
    BY <2>1, <2>2, <2>3, SplitInv DEF Search, history
<1>3. QED
  BY <1>1, <1>2

\* A mute, sent or not, changes neither branches nor reports.
LEMMA ReportInv ==
  ASSUME Inv, at = "mute", ReportOrRetry, ack' \in Acks, busy' \in BOOLEAN,
         misled' \subseteq {"repeated", "given_up"}, Own' => Own,
         Own' /\ ack'.type = "ACK" => ack'.src = branch.lower,
         UNCHANGED <<stack, branch, found, present, deaf>>,
         muted' \subseteq present
  PROVE  Inv'
<1> USE DEF ReportOrRetry
<1>1. at' \in {"mute", "callback", "pop"} /\ (at' = "callback" => ack'.type = "ACK")
  OBVIOUS
<1>2. /\ attempts < 3 /\ attempts \in 0..3 /\ attempts' \in {attempts, attempts + 1}
      /\ at' = "mute" => attempts' < 3
  BY DEF Inv, TypeOK, Current, Again, Counted
<1>3. mux' \in {"nobody", "discovery", "other"}
  BY DEF Give, Inv, TypeOK
<1>4. TypeOK'
  BY <1>1, <1>2, <1>3 DEF Inv, TypeOK
<1>5. Order'
  BY DEF Inv, Order
<1>6. Current'
  BY <1>1, <1>2 DEF Inv, Current
<1>7. QED
  BY <1>4, <1>5, <1>6 DEF Inv

LEMMA MuteInv ==
  ASSUME Inv,
         \/ MuteNotSent
         \/ \E heard \in SUBSET Targets(branch.lower), answered \in BOOLEAN :
               Mute(heard, answered)
  PROVE  Inv'
<1>1. CASE MuteNotSent
  <2>1. /\ ack' = ack /\ ack \in Acks /\ busy' \in BOOLEAN
        /\ misled' \subseteq {"repeated", "given_up"}
    BY <1>1 DEF MuteNotSent, NotSent, GivenUp, Inv, TypeOK
  <2>2. (Own' => Own) /\ (ack.type = "ACK" => ~Own')
    BY <1>1 DEF MuteNotSent, Own
  <2>3. muted' \subseteq present
    BY <1>1 DEF MuteNotSent, busVars, Inv, TypeOK
  <2>4. QED
    BY <1>1, <2>1, <2>2, <2>3, ReportInv DEF MuteNotSent, busVars
<1>2. CASE \E heard \in SUBSET Targets(branch.lower), answered \in BOOLEAN :
             Mute(heard, answered)
  <2>1. PICK heard \in SUBSET Targets(branch.lower), answered \in BOOLEAN :
               Mute(heard, answered)
    BY <1>2
  <2>2. ack' \in Acks /\ (ack'.type = "ACK" => ack'.src = branch.lower)
    BY <2>1, MuteAck
  <2>3. busy' \in BOOLEAN /\ misled' \subseteq {"repeated", "given_up"} /\ (Own' <=> Own)
    BY <2>1 DEF Mute, Sent, history, Own, Inv, TypeOK
  <2>4. muted' \subseteq present
    BY <2>1 DEF Mute, Targets, Inv, TypeOK
  <2>5. QED
    BY <2>1, <2>2, <2>3, <2>4, ReportInv DEF Mute, history
<1>3. QED
  BY <1>1, <1>2

\* A device is reported that lies above those reported before.
LEMMA CallbackInv ==
  ASSUME Inv, Callback
  PROVE  Inv'
<1> USE DEF Callback
<1> DEFINE n == Len(found)
<1>1. found \in Seq(Uids) /\ branch \in Branches /\ ack.src \in Uids
  BY AckParts DEF Inv, TypeOK
<1>2. /\ found' \in Seq(Uids) /\ Len(found') = n + 1 /\ n \in Nat
      /\ \A i \in 1..n : found'[i] = found[i]
      /\ found'[n + 1] = ack.src
  BY <1>1, AppendProperties, LenProperties
<1>3. /\ Own => ack.src = branch.lower /\ \A i \in 1..n : found[i] < branch.lower
      /\ \A j \in 1..Len(stack) : branch.upper < stack[j].lower
      /\ branch.lower = branch.upper
  BY DEF Inv, Current
<1>4. TypeOK'
  BY <1>2 DEF Inv, TypeOK, busVars, history
<1>5. \A i \in 1..Len(found') : i \in 1..n \/ i = n + 1
  BY <1>2
<1> HIDE DEF n
<1>6. Own => \A i, j \in 1..Len(found') : i < j => found'[i] < found'[j]
  <2> SUFFICES ASSUME Own, NEW i \in 1..Len(found'), NEW j \in 1..Len(found'), i < j
               PROVE  found'[i] < found'[j]
    OBVIOUS
  <2>1. i \in 1..n
    BY <1>2, <1>5
  <2>2. CASE j \in 1..n
    BY <1>2, <2>1, <2>2 DEF Inv, Order, n
  <2>3. CASE j = n + 1
    BY <1>2, <1>3, <2>1, <2>3
  <2>4. QED
    BY <1>5, <2>2, <2>3
<1>7. Own => \A i \in 1..Len(found'), j \in 1..Len(stack') : found'[i] < stack'[j].lower
  <2> SUFFICES ASSUME Own, NEW i \in 1..Len(found'), NEW j \in 1..Len(stack)
               PROVE  found'[i] < stack[j].lower
    OBVIOUS
  <2>1. CASE i \in 1..n
    BY <1>2, <2>1 DEF Inv, Order, n
  <2>2. CASE i = n + 1
    BY <1>2, <1>3, <2>2
  <2>3. QED
    BY <1>5, <2>1, <2>2
<1>8. Order'
  BY <1>6, <1>7 DEF Inv, Order, Own, history
<1>9. QED
  BY <1>4, <1>8 DEF Inv, Current

\* The other steps leave branches and reports alone.
LEMMA QuietInv ==
  ASSUME Inv,
         \/ \E heard \in SUBSET muted : UnMute(heard)
         \/ Finish \/ OtherTake \/ OtherGive \/ UNCHANGED vars
  PROVE  Inv'
<1>1. UNCHANGED <<stack, found, branch, attempts>>
  BY DEF UnMute, Finish, OtherTake, OtherGive, vars
<1>2. at' = at \/ at' \in {"pop", "idle"}
  BY DEF UnMute, Finish, OtherTake, OtherGive, vars
<1>3. mux' \in {"nobody", "discovery", "other"}
  BY DEF UnMute, Finish, OtherTake, OtherGive, vars, Give, Inv, TypeOK
<1>4. present' = present /\ muted' \subseteq muted /\ (deaf' = deaf \/ deaf' \subseteq muted)
  BY DEF UnMute, Finish, OtherTake, OtherGive, vars, busVars, history
<1>5. ack' = ack /\ misled' = misled /\ busy' \in BOOLEAN
  BY DEF UnMute, Finish, OtherTake, OtherGive, vars, history, Sent, NotSent, Inv, TypeOK
<1>6. TypeOK'
  BY <1>1, <1>2, <1>3, <1>4, <1>5 DEF Inv, TypeOK
<1>7. Order'
  BY <1>1, <1>5 DEF Inv, Order, Own
<1>8. Current'
  BY <1>1, <1>2, <1>5 DEF Inv, Current, Own
<1>9. QED
  BY <1>6, <1>7, <1>8 DEF Inv

\* Every step keeps the invariant.
LEMMA StepInv == Inv /\ [Next]_vars => Inv'
<1> SUFFICES ASSUME Inv, [Next]_vars PROVE Inv'
  OBVIOUS
<1>1. CASE \E devices \in SUBSET Devices : Start(devices)
  BY <1>1, StartInv
<1>2. CASE Pop
  BY <1>2, PopInv
<1>3. CASE SearchNotSent \/ \E heard \in SUBSET Responders : Search(heard)
  BY <1>3, SearchInv
<1>4. CASE \/ MuteNotSent
           \/ \E heard \in SUBSET Targets(branch.lower), answered \in BOOLEAN :
                 Mute(heard, answered)
  BY <1>4, MuteInv
<1>5. CASE Callback
  BY <1>5, CallbackInv
<1>6. CASE \/ \E heard \in SUBSET muted : UnMute(heard)
           \/ Finish \/ OtherTake \/ OtherGive \/ UNCHANGED vars
  BY <1>6, QuietInv
<1>7. QED
  BY <1>1, <1>2, <1>3, <1>4, <1>5, <1>6 DEF Next, Controller

\* The state of discovery keeps to its types, for UIDs of any width and any
\* devices on the bus.
THEOREM TypeCorrect == Spec => []TypeOK
<1>1. Inv => TypeOK
  BY DEF Inv
<1>2. QED
  BY InitInv, StepInv, <1>1, PTL DEF Spec

\* Devices are reported in ascending order, none of them twice, whatever is lost
\* or not sent and whichever devices there are, unless the acknowledgment of one
\* mute was taken for another (utils.c:35, discovery.c:98-104).
THEOREM SearchAscends == Spec => []Ascending
<1>1. Inv => Ascending
  <2> SUFFICES ASSUME Inv PROVE Ascending
    OBVIOUS
  <2>1. DOMAIN found = 1..Len(found) /\ DOMAIN stack = 1..Len(stack)
    BY LenProperties DEF Inv, TypeOK
  <2>2. QED
    BY <2>1 DEF Inv, Order, Own, Ascending
<1>2. QED
  BY InitInv, StepInv, <1>1, PTL DEF Spec

-----------------------------------------------------------------------------
(* The size of the stack *)

\* Span[i] bounds the UIDs of the i-th branch of the stack: all of them at the
\* bottom, half of them one up, one at the top.
Halving(Span) ==
  /\ Span \in [1..StackMax -> Nat]
  /\ Top < Span[1] /\ Span[StackMax] <= 1
  /\ \A i \in 1..StackMax - 1 : Span[i] <= 2 * Span[i + 1]

Size(b) == b.upper - b.lower + 1

\* No branch has more UIDs than its place in the stack; the place of the
\* branch that is searched is the one it was taken from.
Fits(Span) ==
  /\ Len(stack) <= StackMax
  /\ \A i \in 1..Len(stack) : Size(stack[i]) <= Span[i]
  /\ at = "search" => Len(stack) < StackMax /\ Size(branch) <= Span[Len(stack) + 1]

\* The halves of a branch fit into its place and the next one.
LEMMA HalvesFit ==
  ASSUME NEW b \in Branches, b.lower < b.upper,
         NEW m \in Nat, NEW n \in Nat, Size(b) <= m, m <= 2 * n
  PROVE  Size(UpperHalf(b)) <= m /\ Size(LowerHalf(b)) <= n /\ m > 1
<1>1. b.lower \in Int /\ b.upper \in Int
  BY DEF Branches, Uids
<1>2. \A l, u \in Int : u - l + 1 <= m =>
         (l + u) \div 2 \in Int /\ (l + u) \div 2 - l + 1 <= n
  OBVIOUS
<1>3. Size(LowerHalf(b)) <= n
  BY <1>1, <1>2 DEF Size, LowerHalf, Mid
<1>4. Size(UpperHalf(b)) = b.upper - (Mid(b) + 1) + 1
      /\ Mid(b) >= b.lower /\ Mid(b) \in Int
  BY HalvesMeet DEF Size
<1>5. Size(UpperHalf(b)) <= m /\ m > 1
  BY <1>1, <1>4 DEF Size
<1>6. QED
  BY <1>3, <1>5

\* A step keeps every branch in a place it fits into.
LEMMA StepFits ==
  ASSUME NEW Span, Halving(Span), Inv, Inv', Fits(Span), [Next]_vars
  PROVE  Fits(Span)'
<1> USE DEF Fits
<1>0. StackMax \in Nat /\ StackMax > 0 /\ Top \in Nat
  BY DiscoveryAssumption
<1>1. stack \in Seq(Branches) /\ Len(stack) \in Nat /\ branch \in Branches
  BY LenProperties DEF Inv, TypeOK
<1>2. CASE \E devices \in SUBSET Devices : Start(devices)
  <2>1. /\ Len(stack') = 1 /\ stack'[1] = [lower |-> 0, upper |-> Top]
        /\ at' = "un_mute"
    BY <1>2 DEF Start
  <2>2. Size(stack'[1]) <= Span[1]
    BY <1>0, <2>1 DEF Size, Halving
  <2>3. QED
    BY <1>0, <2>1, <2>2
<1>3. CASE Pop
  <2>1. /\ Len(stack') = Len(stack) - 1 /\ Len(stack) > 0
        /\ \A i \in 1..Len(stack') : i \in 1..Len(stack) /\ stack'[i] = stack[i]
        /\ branch' = stack[Len(stack)] /\ Len(stack') + 1 = Len(stack)
        /\ Len(stack) \in 1..Len(stack)
    BY <1>1, <1>3, PopLeaves DEF Pop
  <2>2. QED
    BY <1>0, <1>1, <2>1
<1>4. CASE SearchNotSent \/ \E heard \in SUBSET Responders : Search(heard)
  <2>1. SplitOrRetry /\ branch' = branch
    BY <1>4 DEF Search, SearchNotSent
  <2>2. at = "search" /\ branch.lower < branch.upper
    BY <1>4 DEF Search, SearchNotSent, Inv, Current
  <2>3. CASE ack'.type = "NONE"
    BY <2>1, <2>2, <2>3 DEF SplitOrRetry
  <2>4. CASE ack'.type # "NONE"
    <3> DEFINE n == Len(stack)
    <3>1. /\ Len(stack') = n + 2 /\ n \in Nat
          /\ \A i \in 1..n : stack'[i] = stack[i]
          /\ stack'[n + 1] = UpperHalf(branch) /\ stack'[n + 2] = LowerHalf(branch)
          /\ at' = "pop"
      BY <1>1, <2>1, <2>2, <2>4, PushAdds DEF SplitOrRetry
    <3>2. n + 1 \in 1..StackMax /\ Size(branch) <= Span[n + 1] /\ Span[n + 1] \in Nat
      BY <1>0, <1>1, <2>2 DEF Halving
    <3>3. n + 1 # StackMax
      <4>1. Size(branch) > 1
        BY <2>2, <1>1 DEF Size, Branches, Uids
      <4>2. Size(branch) \in Int
        BY <1>1 DEF Size, Branches, Uids
      <4>3. Span[n + 1] > 1
        BY <3>2, <4>1, <4>2
      <4>4. QED
        BY <4>3, <3>2 DEF Halving
    <3>4. n + 2 <= StackMax /\ n + 1 \in 1..StackMax - 1 /\ n + 2 \in 1..StackMax
      BY <1>0, <3>1, <3>2, <3>3
    <3>5. Span[n + 1] <= 2 * Span[n + 2] /\ Span[n + 2] \in Nat
      BY <3>1, <3>4 DEF Halving
    <3>6. Size(UpperHalf(branch)) <= Span[n + 1] /\ Size(LowerHalf(branch)) <= Span[n + 2]
      BY <1>1, <2>2, <3>2, <3>5, HalvesFit
    <3> HIDE DEF n
    <3>7. \A i \in 1..Len(stack') : i \in 1..n \/ i = n + 1 \/ i = n + 2
      BY <3>1
    <3>8. \A i \in 1..Len(stack') : Size(stack'[i]) <= Span[i]
      BY <3>1, <3>6, <3>7 DEF n
    <3>9. QED
      BY <3>1, <3>4, <3>8
  <2>5. QED
    BY <2>3, <2>4
<1>5. CASE \/ \E heard \in SUBSET muted : UnMute(heard)
           \/ \E heard \in SUBSET Targets(branch.lower), answered \in BOOLEAN :
                 Mute(heard, answered)
           \/ MuteNotSent \/ Callback \/ Finish
  <2>1. stack' = stack /\ at' # "search"
    BY <1>5 DEF UnMute, Mute, MuteNotSent, ReportOrRetry, Callback, Finish
  <2>2. QED
    BY <2>1
<1>6. CASE OtherTake \/ OtherGive \/ UNCHANGED vars
  <2>1. stack' = stack /\ at' = at /\ branch' = branch
    BY <1>6 DEF OtherTake, OtherGive, vars
  <2>2. QED
    BY <2>1
<1>7. QED
  BY <1>2, <1>3, <1>4, <1>5, <1>6 DEF Next, Controller

\* If the UIDs can be halved StackMax - 1 times until one is left, the stack
\* of branches never outgrows StackMax: for the 2^48 - 1 UIDs of RDM and the
\* 49 branches of discovery.c:68, take 2^(49 - i) as the i-th span.
THEOREM StackIsLargeEnough ==
  ASSUME NEW CONSTANT Span, Halving(Span)
  PROVE  Spec => []StackFits
<1>1. Init => Fits(Span)
  BY DiscoveryAssumption DEF Init, Fits
<1>2. Inv /\ Inv' /\ Fits(Span) /\ [Next]_vars => Fits(Span)'
  BY StepFits
<1>3. Fits(Span) => StackFits
  BY DEF Fits, StackFits
<1>4. QED
  BY InitInv, StepInv, <1>1, <1>2, <1>3, PTL DEF Spec
-----------------------------------------------------------------------------
(* Every device is found. *)

Reported(d) == \E i \in 1..Len(found) : found[i] = d

Within(b, d) == b.lower <= d /\ d <= b.upper

\* A device that is still to be searched for.
Pending(d) == \/ \E j \in 1..Len(stack) : Within(stack[j], d)
              \/ at \in {"search", "mute", "callback"} /\ Within(branch, d)

\* Every device that heard the un-mute is reported or lies in a branch that is
\* left, and none but those reported, and the one that is being reported, are
\* muted.
Complete ==
  /\ at = "un_mute" => \A d \in present : Pending(d)
  /\ at # "un_mute" => \A d \in present \ deaf : Reported(d) \/ (at # "idle" /\ Pending(d))
  /\ at # "un_mute" =>
       \A d \in muted \ deaf : Reported(d) \/ (at \in {"mute", "callback"} /\ branch.lower = d)

\* The UID that addresses all devices of a manufacturer lies above them.
LEMMA MakerBelow ==
  ASSUME NEW u \in Uids, NEW d \in Devices, IsBroadcast(u), Maker(d) = Maker(u)
  PROVE  d < u
<1>1. \A n, m, k \in Int :
        k > 0 /\ n \div k = m \div k /\ m % k = k - 1 /\ n % k # k - 1 => n < m
  BY SMTT(30)
<1>2. d \in Int /\ u \in Int /\ PerMaker \in Int /\ PerMaker > 0
  BY DiscoveryAssumption DEF Uids
<1>3. ~IsBroadcast(d)
  BY DiscoveryAssumption
<1>4. QED
  BY <1>1, <1>2, <1>3 DEF IsBroadcast, Maker

\* Nothing has been announced before the first discovery.
LEMMA InitComplete == Init => Complete
  BY DEF Init, Complete

\* A new discovery has everything before it.
LEMMA StartComplete ==
  ASSUME Inv, NEW devices \in SUBSET Devices, Start(devices)
  PROVE  Complete'
<1>1. /\ at' = "un_mute" /\ present' = devices
      /\ Len(stack') = 1 /\ stack'[1] = [lower |-> 0, upper |-> Top]
  BY DEF Start
<1>2. \A d \in devices : 0 <= d /\ d <= Top
  <2>1. \A d \in Uids : 0 <= d /\ d <= Top
    BY DEF Uids
  <2>2. QED
    BY <2>1, DiscoveryAssumption
<1>3. \A d \in present' : Within(stack'[1], d)
  BY <1>1, <1>2 DEF Within
<1>4. \A d \in present' : Pending(d)'
  BY <1>1, <1>3 DEF Pending
<1>5. QED
  BY <1>1, <1>4 DEF Complete

\* Whoever is still muted did not hear the un-mute.
LEMMA UnMuteComplete ==
  ASSUME Inv, Complete, NEW heard \in SUBSET muted, UnMute(heard)
  PROVE  Complete'
<1>1. /\ at = "un_mute" /\ at' = "pop" /\ UNCHANGED <<stack, present>>
      /\ muted' = deaf'
  BY DEF UnMute
<1>2. \A d \in present : Pending(d) /\ (Pending(d) => Pending(d)')
  BY <1>1 DEF Complete, Pending
<1>3. QED
  BY <1>1, <1>2 DEF Complete

\* What lay in the top branch lies in the current one.
LEMMA PopComplete ==
  ASSUME Inv, Complete, Pop
  PROVE  Complete'
<1>1. /\ at = "pop" /\ at' \in {"search", "mute"} /\ branch' = stack[Len(stack)]
      /\ UNCHANGED <<found, present, muted, deaf>>
      /\ stack' = SubSeq(stack, 1, Len(stack) - 1)
      /\ stack \in Seq(Branches) /\ stack # <<>>
  BY DEF Pop, busVars, history, Inv, TypeOK
<1>2. /\ Len(stack') = Len(stack) - 1 /\ Len(stack) \in Nat
      /\ \A i \in 1..Len(stack') : stack'[i] = stack[i]
  BY <1>1, PopLeaves
<1>3. ASSUME NEW d, Pending(d) PROVE Pending(d)'
  <2>1. PICK j \in 1..Len(stack) : Within(stack[j], d)
    BY <1>1, <1>3 DEF Pending
  <2>2. CASE j = Len(stack)
    BY <1>1, <2>1, <2>2 DEF Pending, Within
  <2>3. CASE j # Len(stack)
    <3>1. j \in 1..Len(stack') /\ Within(stack'[j], d)
      BY <1>2, <2>1, <2>3
    <3>2. QED
      BY <3>1 DEF Pending, Within
  <2>4. QED
    BY <2>2, <2>3
<1>4. \A d \in present \ deaf : Reported(d) \/ Pending(d)
  BY <1>1 DEF Complete
<1>5. \A d \in muted \ deaf : Reported(d)
  BY <1>1 DEF Complete
<1>6. \A d : Reported(d) => Reported(d)'
  BY <1>1 DEF Reported
<1>7. QED
  BY <1>1, <1>3, <1>4, <1>5, <1>6 DEF Complete

\* A branch is given up only if no device in it would have answered.
LEMMA SplitComplete ==
  ASSUME LossMax <= 2, Inv, Complete, at = "search", SplitOrRetry,
         UNCHANGED <<branch, found, present, muted, deaf>>,
         ack'.type = "NONE" => Responders = {} \/ attempts < LossMax
  PROVE  Complete'
<1>1. /\ at' \in {"search", "pop"}
      /\ stack \in Seq(Branches) /\ branch \in Branches /\ branch.lower < branch.upper
  BY DEF SplitOrRetry, Inv, TypeOK, Current
<1>2. \A d \in present \ deaf : Reported(d) \/ Pending(d)
  BY <1>1 DEF Complete
<1>3. \A d \in muted \ deaf : Reported(d)
  BY <1>1 DEF Complete
<1>4. \A d : Reported(d) => Reported(d)'
  BY <1>1 DEF Reported
<1>5. ASSUME NEW d \in present \ deaf, ~Reported(d), Pending(d) PROVE Pending(d)'
  <2>1. CASE ack'.type # "NONE"
    <3> DEFINE n == Len(stack)
    <3>1. /\ n \in Nat /\ Len(stack') = n + 2
          /\ \A i \in 1..n : stack'[i] = stack[i]
          /\ stack'[n + 1] = UpperHalf(branch) /\ stack'[n + 2] = LowerHalf(branch)
      BY <1>1, <2>1, PushAdds DEF SplitOrRetry
    <3>2. n + 1 \in 1..Len(stack') /\ n + 2 \in 1..Len(stack') /\ 1..n \subseteq 1..Len(stack')
      BY <3>1
    <3>3. CASE \E j \in 1..Len(stack) : Within(stack[j], d)
      BY <3>1, <3>2, <3>3 DEF Pending, Within
    <3>4. CASE Within(branch, d)
      <4>1. /\ LowerHalf(branch).lower = branch.lower /\ LowerHalf(branch).upper = Mid(branch)
            /\ UpperHalf(branch).lower = Mid(branch) + 1 /\ UpperHalf(branch).upper = branch.upper
            /\ Mid(branch) \in Int
        BY <1>1, HalvesMeet
      <4>2. d \in Int
        BY DiscoveryAssumption DEF Inv, TypeOK, Uids
      <4>3. Within(LowerHalf(branch), d) \/ Within(UpperHalf(branch), d)
        BY <3>4, <4>1, <4>2 DEF Within
      <4>4. Within(stack'[n + 2], d) \/ Within(stack'[n + 1], d)
        BY <3>1, <4>3
      <4>5. QED
        BY <3>2, <4>4 DEF Pending, Within
    <3>5. QED
      BY <1>5, <3>3, <3>4 DEF Pending
  <2>2. CASE ack'.type = "NONE"
    <3>1. /\ stack' = stack /\ at' = IF attempts + 1 < 3 THEN "search" ELSE "pop"
          /\ Responders = {} \/ attempts < LossMax
          /\ attempts \in 0..3
      BY <2>2 DEF SplitOrRetry, Again, Counted, Inv, TypeOK
    <3>2. CASE at' = "search"
      BY <1>1, <1>5, <3>1, <3>2 DEF Pending
    <3>3. CASE at' = "pop"
      <4>1. ~(attempts < LossMax)
        BY <3>1, <3>3, DiscoveryAssumption
      <4>2. Responders = {}
        BY <2>2, <3>1, <4>1
      <4>3. d \notin muted
        BY <1>3, <1>5
      <4>4. ~Within(branch, d)
        BY <1>5, <4>2, <4>3 DEF Responders, Within
      <4>5. \E j \in 1..Len(stack) : Within(stack[j], d)
        BY <1>5, <4>4 DEF Pending
      <4>6. QED
        BY <3>1, <4>5 DEF Pending
    <3>4. QED
      BY <1>1, <3>2, <3>3
  <2>3. QED
    BY <2>1, <2>2
<1>6. QED
  BY <1>1, <1>2, <1>3, <1>4, <1>5 DEF Complete

LEMMA SearchComplete ==
  ASSUME LossMax <= 2, Inv, Complete, misled' = {},
         SearchNotSent \/ \E heard \in SUBSET Responders : Search(heard)
  PROVE  Complete'
<1>1. CASE SearchNotSent
  <2>1. /\ at = "search" /\ SplitOrRetry /\ UNCHANGED <<branch, found, present, muted, deaf>>
        /\ ack' = ack
    BY <1>1 DEF SearchNotSent, NotSent, busVars
  <2>2. ack.type = "NONE" => attempts < LossMax
    BY <1>1 DEF SearchNotSent, GivenUp
  <2>3. QED
    BY <2>1, <2>2, SplitComplete
<1>2. CASE \E heard \in SUBSET Responders : Search(heard)
  <2>1. PICK heard \in SUBSET Responders : Search(heard)
    BY <1>2
  <2>2. /\ at = "search" /\ SplitOrRetry /\ UNCHANGED <<branch, found, present, muted, deaf>>
        /\ heard = Responders \/ attempts < LossMax
    BY <2>1 DEF Search, busVars, history
  <2>3. ack'.type = "NONE" => heard = {}
    BY <2>1, SearchAck
  <2>4. QED
    BY <2>2, <2>3, SplitComplete
<1>3. QED
  BY <1>1, <1>2

\* Below the UID that is muted every device is reported already: a mute that
\* is broadcast to a manufacturer hits no other.
LEMMA MuteComplete ==
  ASSUME LossMax <= 2, Inv, Complete,
         NEW heard \in SUBSET Targets(branch.lower), NEW answered \in BOOLEAN,
         Mute(heard, answered)
  PROVE  Complete'
<1> DEFINE uid == branch.lower
<1>1. /\ at = "mute" /\ at' \in {"mute", "callback", "pop"}
      /\ UNCHANGED <<stack, branch, found, present, deaf>>
      /\ muted' = muted \cup heard
      /\ uid \in Uids /\ branch.upper = uid
      /\ present \subseteq Devices
  BY DEF Mute, ReportOrRetry, history, Inv, TypeOK, Current, Branches
<1>2. \A d : Reported(d) => Reported(d)'
  BY <1>1 DEF Reported
<1>3. /\ \A d \in present \ deaf : Reported(d) \/ Pending(d)
      /\ \A d \in muted \ deaf : Reported(d) \/ uid = d
  BY <1>1 DEF Complete
<1>4. \A d \in Int : Within(branch, d) => d = uid
  BY <1>1, DiscoveryAssumption DEF Within, Uids
<1>5. at' = "pop" => uid \notin present
  <2> SUFFICES ASSUME at' = "pop", uid \in present PROVE FALSE
    OBVIOUS
  <2>1. ~answered /\ ~(attempts + 1 < 3) /\ attempts \in 0..3
    BY MuteAck DEF Mute, ReportOrRetry, Again, Counted, Inv, TypeOK
  <2>2. ~(attempts < LossMax)
    BY <2>1, DiscoveryAssumption
  <2>3. heard = Targets(uid) /\ ~(uid \in heard /\ ~answered)
    BY <2>2 DEF Mute
  <2>4. ~IsBroadcast(uid)
    BY <1>1, DiscoveryAssumption
  <2>5. QED
    BY <2>1, <2>3, <2>4 DEF Targets
<1>6. ASSUME NEW d \in heard \ deaf, d # uid PROVE Reported(d)
  <2>1. IsBroadcast(uid) /\ d \in present /\ Maker(d) = Maker(uid)
    BY <1>6 DEF Targets
  <2>2. d < uid
    BY <1>1, <2>1, MakerBelow
  <2>3. d \in Int /\ uid \in Int
    BY <1>1, <2>1, DiscoveryAssumption DEF Uids
  <2>4. ~Within(branch, d)
    BY <1>4, <1>6, <2>3
  <2>5. ASSUME NEW j \in 1..Len(stack) PROVE ~Within(stack[j], d)
    <3>1. branch.upper < stack[j].lower
      BY <1>1, <2>5 DEF Inv, Current
    <3>2. stack[j].lower \in Int
      <4>1. stack[j] \in Branches
        BY <2>5, ElementOfSeq DEF Inv, TypeOK
      <4>2. QED
        BY <4>1 DEF Branches, Uids
    <3>3. QED
      BY <1>1, <2>2, <2>3, <3>1, <3>2 DEF Within
  <2>6. QED
    BY <1>3, <1>6, <2>1, <2>4, <2>5 DEF Pending
<1>7. ASSUME NEW d \in present \ deaf, ~Reported(d) PROVE Pending(d)'
  <2>1. Pending(d) /\ d \in Int
    BY <1>1, <1>3, <1>7, DiscoveryAssumption DEF Uids
  <2>2. CASE at' \in {"mute", "callback"}
    BY <1>1, <2>1, <2>2 DEF Pending
  <2>3. CASE at' = "pop"
    <3>1. ~Within(branch, d)
      BY <1>4, <1>5, <1>7, <2>1, <2>3
    <3>2. QED
      BY <1>1, <2>1, <3>1 DEF Pending
  <2>4. QED
    BY <1>1, <2>2, <2>3
<1>8. ASSUME NEW d \in (muted \cup heard) \ deaf, ~Reported(d)
      PROVE  at' \in {"mute", "callback"} /\ branch.lower = d
  <2>1. d = uid
    BY <1>3, <1>6, <1>8
  <2>2. d \in present
    BY <1>8 DEF Targets, Inv, TypeOK
  <2>3. QED
    BY <1>1, <1>5, <2>1, <2>2
<1>9. QED
  BY <1>1, <1>2, <1>7, <1>8 DEF Complete

\* A mute that was not sent, and is not held against the device, counts as lost.
LEMMA MuteNotSentComplete ==
  ASSUME LossMax <= 2, Inv, Complete, misled' = {}, MuteNotSent
  PROVE  Complete'
<1>1. /\ at = "mute" /\ ReportOrRetry /\ ack' = ack /\ attempts \in 0..3
      /\ UNCHANGED <<stack, branch, found, present, muted, deaf>>
  BY DEF MuteNotSent, NotSent, busVars, Inv, TypeOK
<1>2. ack.type # "ACK" /\ attempts < LossMax
  BY DEF MuteNotSent, GivenUp
<1>3. at' = "mute"
  BY <1>1, <1>2, DiscoveryAssumption DEF ReportOrRetry, Again, Counted
<1>4. \A d : (Reported(d)' <=> Reported(d)) /\ (Pending(d)' <=> Pending(d))
  BY <1>1, <1>3 DEF Reported, Pending
<1>5. QED
  BY <1>1, <1>3, <1>4 DEF Complete

\* The current UID is the one that is reported.
LEMMA CallbackComplete ==
  ASSUME Inv, Complete, misled = {}, Callback
  PROVE  Complete'
<1>1. /\ at = "callback" /\ at' = "pop" /\ found' = Append(found, branch.lower)
      /\ UNCHANGED <<stack, branch, present, muted, deaf>>
      /\ found \in Seq(Uids) /\ branch.lower \in Uids /\ branch.upper = branch.lower
  BY DEF Callback, busVars, history, Own, Inv, TypeOK, Current, Branches
<1>2. /\ Len(found') = Len(found) + 1 /\ Len(found) \in Nat
      /\ \A i \in 1..Len(found) : found'[i] = found[i]
      /\ found'[Len(found) + 1] = branch.lower
  BY <1>1, AppendProperties, LenProperties
<1>3. /\ 1..Len(found) \subseteq 1..Len(found')
      /\ Len(found) + 1 \in 1..Len(found')
  BY <1>2
<1>4. Reported(branch.lower)'
  BY <1>1, <1>2, <1>3 DEF Reported
<1>5. \A d : Reported(d) => Reported(d)'
  BY <1>2, <1>3 DEF Reported
<1>6. ASSUME NEW d \in present \ deaf, d # branch.lower PROVE Reported(d)' \/ Pending(d)'
  <2>1. ~Within(branch, d)
    BY <1>1, <1>6, DiscoveryAssumption DEF Within, Inv, TypeOK, Uids
  <2>2. Reported(d) \/ \E j \in 1..Len(stack) : Within(stack[j], d)
    BY <1>1, <1>6, <2>1 DEF Complete, Pending
  <2>3. QED
    BY <1>1, <1>5, <2>2 DEF Pending
<1>7. \A d \in muted \ deaf : Reported(d)'
  BY <1>1, <1>4, <1>5 DEF Complete
<1>8. \A d : d = branch.lower => (Reported(d)' <=> Reported(branch.lower)')
  BY <1>1 DEF Reported
<1>9. QED
  BY <1>1, <1>4, <1>6, <1>7, <1>8 DEF Complete

\* The discovery ends when no branch is left.
LEMMA QuietComplete ==
  ASSUME Inv, Complete, Finish \/ OtherTake \/ OtherGive \/ UNCHANGED vars
  PROVE  Complete'
<1>1. UNCHANGED <<stack, branch, found, present, muted, deaf>>
  BY DEF Finish, OtherTake, OtherGive, vars, busVars, history
<1>2. \A d : Reported(d)' <=> Reported(d)
  BY <1>1 DEF Reported
<1>3. CASE Finish
  <2>1. at = "pop" /\ at' = "idle" /\ Len(stack) = 0
    BY <1>3 DEF Finish
  <2>2. \A d : ~Pending(d)
    BY <2>1 DEF Pending
  <2>3. QED
    BY <1>1, <1>2, <2>1, <2>2 DEF Complete
<1>4. CASE at' = at
  <2>1. \A d : Pending(d)' <=> Pending(d)
    BY <1>1, <1>4 DEF Pending
  <2>2. QED
    BY <1>1, <1>2, <1>4, <2>1 DEF Complete
<1>5. QED
  BY <1>3, <1>4 DEF OtherTake, OtherGive, vars

\* If the parts of a request are lost or not sent at most twice, every device
\* that heard the un-mute is reported when the discovery ends, for any UIDs and
\* devices, colliding or not, and although the search meets UIDs that address all
\* the devices of a manufacturer, unless an acknowledgment that was not its own
\* told the discovery of a device (utils.c:35, discovery.c:98-104).
THEOREM EveryDeviceIsFound ==
  ASSUME LossMax <= 2
  PROVE  Spec => []AllFound
<1> DEFINE Faithful == misled = {} => Complete
<1>1. Inv /\ Faithful /\ [Next]_vars => Faithful'
  <2> SUFFICES ASSUME Inv, misled = {} => Complete, [Next]_vars, misled' = {}
               PROVE  Complete'
    OBVIOUS
  <2>1. CASE \E devices \in SUBSET Devices : Start(devices)
    BY <2>1, StartComplete
  <2>2. CASE ~ \E devices \in SUBSET Devices : Start(devices)
    <3>1. misled = {} /\ Complete
      BY <2>2 DEF Next, Controller, Pop, SearchNotSent, MuteNotSent, Callback, Finish,
                  UnMute, Search, Mute, OtherTake, OtherGive, vars, history
    <3>2. CASE Pop
      BY <3>1, <3>2, PopComplete
    <3>3. CASE SearchNotSent \/ \E heard \in SUBSET Responders : Search(heard)
      BY <3>1, <3>3, SearchComplete
    <3>4. CASE \E heard \in SUBSET Targets(branch.lower), answered \in BOOLEAN :
                 Mute(heard, answered)
      BY <3>1, <3>4, MuteComplete
    <3>5. CASE MuteNotSent
      BY <3>1, <3>5, MuteNotSentComplete
    <3>6. CASE Callback
      BY <3>1, <3>6, CallbackComplete
    <3>7. CASE \E heard \in SUBSET muted : UnMute(heard)
      BY <3>1, <3>7, UnMuteComplete
    <3>8. CASE Finish \/ OtherTake \/ OtherGive \/ UNCHANGED vars
      BY <3>1, <3>8, QuietComplete
    <3>9. QED
      BY <2>2, <3>2, <3>3, <3>4, <3>5, <3>6, <3>7, <3>8 DEF Next, Controller
  <2>3. QED
    BY <2>1, <2>2
<1>2. Inv /\ Faithful => AllFound
  <2> SUFFICES ASSUME Inv, misled = {} => Complete PROVE AllFound
    OBVIOUS
  <2>1. DOMAIN found = 1..Len(found)
    BY LenProperties DEF Inv, TypeOK
  <2>2. QED
    BY <2>1 DEF Complete, AllFound, Idle, Reported
<1>3. Init => Faithful
  BY InitComplete
<1> HIDE DEF Faithful
<1>4. QED
  BY InitInv, StepInv, <1>1, <1>2, <1>3, PTL DEF Spec

\* Whoever has the mutex at the start, and whatever the give around the
\* callback finds to give, the discovery does not keep it.
THEOREM MutexIsReturned == Spec => []MutexReturned
<1>1. Init => MutexReturned
  BY DEF Init, MutexReturned
<1>2. MutexReturned /\ [Next]_vars => MutexReturned'
  <2> SUFFICES ASSUME MutexReturned, [Next]_vars, at' = "idle" PROVE mux' # "discovery"
    BY DEF MutexReturned, Idle
  <2>1. CASE Finish
    BY <2>1 DEF Finish, Give
  <2>2. CASE OtherTake \/ OtherGive
    BY <2>2 DEF OtherTake, OtherGive
  <2>3. CASE UNCHANGED vars
    BY <2>3 DEF vars, MutexReturned, Idle
  <2>4. CASE \/ \E devices \in SUBSET Devices : Start(devices)
             \/ Pop \/ Callback \/ \E heard \in SUBSET muted : UnMute(heard)
    BY <2>4 DEF Start, Pop, Callback, UnMute
  <2>5. CASE SearchNotSent \/ \E heard \in SUBSET Responders : Search(heard)
    BY <2>5 DEF Search, SearchNotSent, SplitOrRetry
  <2>6. CASE \/ MuteNotSent
             \/ \E heard \in SUBSET Targets(branch.lower), answered \in BOOLEAN :
                   Mute(heard, answered)
    BY <2>6 DEF Mute, MuteNotSent, ReportOrRetry
  <2>7. QED
    BY <2>1, <2>2, <2>3, <2>4, <2>5, <2>6 DEF Next, Controller
<1>3. QED
  BY <1>1, <1>2, PTL DEF Spec
=============================================================================
