--------------------------- MODULE RdmQueueProofs ---------------------------
(***************************************************************************)
(* Theorems about the RDM message queue, for a ring of any size and any    *)
(* parameter IDs: a pop finds a PID, and the ring is a queue.              *)
(***************************************************************************)
EXTENDS RdmQueue, TLAPS, SequenceTheorems

\* PIDs wait from tail up to head, or up to the ring's end when head has
\* wrapped: head does not go on from cell 0 before tail has wrapped as well.
OneSide == head < tail => head = 0

\* What the cells between tail and head hold.
HoldsPids == \A i \in Cells : tail <= i /\ (i < head \/ head < tail) => data[i] \in Pids

\* Nothing but the responder takes a PID out of the ring.
StaysFilled == at \in {"check", "take"} => Size > 0

QueueInv == TypeOK /\ OneSide /\ HoldsPids /\ StaysFilled /\ PopSucceeds

-----------------------------------------------------------------------------
(* The ring *)

\* The remainder of a number that is smaller than the divisor.
LEMMA SmallRemainder ==
  ASSUME NEW n \in Nat \ {0}
  PROVE  n % n = 0 /\ \A k \in 0..n - 1 : k % n = k
  OBVIOUS

\* Where PIDs wait: in Size cells from tail on, without a wrap.
LEMMA Occupied ==
  ASSUME TypeOK, OneSide
  PROVE  /\ Size \in Nat /\ Size < MaxSize + 1 /\ (Size = 0 <=> head = tail)
         /\ \A i \in 1..Size : /\ tail + i - 1 \in Cells
                               /\ (tail + i - 1) % MaxSize = tail + i - 1
                               /\ tail + i - 1 < head \/ head < tail
<1>1. head \in 0..MaxSize - 1 /\ tail \in 0..MaxSize - 1 /\ MaxSize \in Nat \ {0}
  BY QueueAssumption DEF TypeOK, Cells
<1>2. Size \in Nat /\ Size < MaxSize + 1 /\ (Size = 0 <=> head = tail)
  BY <1>1 DEF Size
<1>3. ASSUME NEW i \in 1..Size
      PROVE  tail + i - 1 \in 0..MaxSize - 1 /\ (tail + i - 1 < head \/ head < tail)
  BY <1>1 DEF Size, OneSide
<1>4. QED
  BY <1>1, <1>2, <1>3, SmallRemainder DEF Cells

\* A push that ends finds head at or above tail, and takes one more cell.
LEMMA PushMoves ==
  ASSUME TypeOK, OneSide, ~Endless, ~Full, head' = After(head), tail' = tail
  PROVE  /\ tail <= head /\ Size = head - tail
         /\ head' \in Cells /\ Size' = Size + 1 /\ Size < MaxSize - 1
         /\ head' < tail => head' = 0
         /\ head' > head \/ head' < tail
<1>1. head \in 0..MaxSize - 1 /\ tail \in 0..MaxSize - 1 /\ MaxSize \in Nat \ {0}
  BY QueueAssumption DEF TypeOK, Cells
<1>2. tail <= head
  BY <1>1 DEF OneSide, Endless
<1>3. CASE head + 1 = MaxSize
  <2>1. tail # 0
    BY <1>1, <1>3, SmallRemainder DEF Full
  <2>2. QED
    BY <1>1, <1>2, <1>3, <2>1 DEF After, Size, Cells
<1>4. CASE head + 1 # MaxSize
  BY <1>1, <1>2, <1>4 DEF After, Size, Cells
<1>5. QED
  BY <1>3, <1>4

\* A pop leaves one PID less, and tail where it was or at the ring's start.
LEMMA TakeMoves ==
  ASSUME TypeOK, OneSide, Size > 0, tail' = After(tail), head' = head
  PROVE  /\ tail' \in Cells /\ Size' = Size - 1
         /\ head < tail' => head = 0
         /\ Size' > 0 => tail' = tail + 1
         /\ tail < head \/ head < tail
<1>1. head \in 0..MaxSize - 1 /\ tail \in 0..MaxSize - 1 /\ MaxSize \in Nat \ {0}
  BY QueueAssumption DEF TypeOK, Cells
<1>2. QED
  BY <1>1 DEF OneSide, After, Size, Cells

-----------------------------------------------------------------------------
(* The invariant *)

LEMMA InitInv == Init => QueueInv
<1> SUFFICES ASSUME Init PROVE QueueInv
  OBVIOUS
<1> USE DEF Init
<1>1. TypeOK
  <2>1. 0 \in Cells
    BY QueueAssumption DEF Cells
  <2>2. QED
    BY <2>1 DEF TypeOK
<1>2. OneSide /\ HoldsPids /\ StaysFilled /\ PopSucceeds
  BY QueueAssumption DEF OneSide, HoldsPids, StaysFilled, PopSucceeds, Cells
<1>3. QED
  BY <1>1, <1>2 DEF QueueInv

\* What is pushed waits behind what waited.
LEMMA PushInv ==
  ASSUME QueueInv, NEW new \in Pids, Push(new)
  PROVE  QueueInv'
<1> USE DEF QueueInv
<1>1. CASE UNCHANGED ring
  BY <1>1 DEF Push, ring, TypeOK, OneSide, HoldsPids, StaysFilled, PopSucceeds, Size
<1>2. CASE ~Endless /\ ~Full /\ data' = [data EXCEPT ![head] = new] /\ head' = After(head)
           /\ UNCHANGED <<tail, previous, stuck>>
  <2>1. /\ tail <= head /\ Size' = Size + 1 /\ Size \in Nat
        /\ head' \in Cells /\ (head' < tail => head' = 0)
    BY <1>2, PushMoves, Occupied
  <2>2. TypeOK'
    BY <1>2, <2>1 DEF TypeOK, Push
  <2>3. HoldsPids'
    <3>1. head \in 0..MaxSize - 1 /\ tail \in 0..MaxSize - 1 /\ MaxSize \in Nat \ {0}
          /\ data \in [0..MaxSize - 1 -> Pids \cup {NoPid}]
      BY QueueAssumption DEF TypeOK, Cells
    <3>2. SUFFICES ASSUME NEW i \in 0..MaxSize - 1, tail <= i, i < head' \/ head' < tail
                   PROVE  data'[i] \in Pids
      BY <1>2 DEF HoldsPids, Cells
    <3>3. i <= head
      BY <1>2, <2>1, <3>1, <3>2 DEF After
    <3>4. CASE i = head
      BY <1>2, <3>1, <3>4
    <3>5. CASE i < head
      BY <1>2, <3>1, <3>2, <3>5 DEF HoldsPids, Cells
    <3>6. QED
      BY <3>1, <3>3, <3>4, <3>5
  <2>4. OneSide'
    BY <1>2, <2>1 DEF OneSide
  <2>5. StaysFilled' /\ PopSucceeds'
    BY <2>1 DEF StaysFilled, PopSucceeds, Push
  <2>6. QED
    BY <2>2, <2>3, <2>4, <2>5
<1>3. QED
  BY <1>1, <1>2 DEF Push

\* The responder looks, checks, takes and answers.
LEMMA ResponderInv ==
  ASSUME QueueInv, Refuse \/ Look \/ Responder
  PROVE  QueueInv'
<1> USE DEF QueueInv
<1>1. CASE Refuse \/ Look \/ Check \/ Answer
  <2>1. UNCHANGED ring
    BY <1>1 DEF Refuse, Look, Check, Answer
  <2>2. TypeOK'
    BY <1>1 DEF Refuse, Look, Check, Answer, ring, TypeOK
  <2>3. OneSide' /\ HoldsPids' /\ Size' = Size
    BY <2>1 DEF ring, OneSide, HoldsPids, Size
  <2>4. StaysFilled' /\ PopSucceeds'
    BY <1>1, <2>3 DEF Refuse, Look, Check, Answer, StaysFilled, PopSucceeds
  <2>5. QED
    BY <2>2, <2>3, <2>4
<1>2. CASE Take
  <2>1. Size > 0 /\ tail' = After(tail) /\ head' = head /\ data' = data
    BY <1>2 DEF Take, StaysFilled
  <2>2. /\ tail' \in Cells /\ (head < tail' => head = 0)
        /\ tail < head \/ head < tail
        /\ Size' = Size - 1 /\ (Size' > 0 => tail' = tail + 1)
    BY <2>1, TakeMoves
  <2>3. head \in 0..MaxSize - 1 /\ tail \in 0..MaxSize - 1 /\ MaxSize \in Nat \ {0}
    BY QueueAssumption DEF TypeOK, Cells
  <2>4. data[tail] \in Pids
    BY <2>2, <2>3 DEF HoldsPids, Cells
  <2>5. TypeOK' /\ PopSucceeds' /\ StaysFilled'
    BY <1>2, <2>2, <2>4, QueueAssumption DEF Take, TypeOK, PopSucceeds, StaysFilled
  <2>6. OneSide'
    BY <2>1, <2>2 DEF OneSide
  <2>7. HoldsPids'
    <3>1. SUFFICES ASSUME NEW i \in 0..MaxSize - 1, tail' <= i, i < head \/ head < tail'
                   PROVE  data[i] \in Pids
      BY <2>1 DEF HoldsPids, Cells
    <3>2. tail' = tail + 1
      BY <2>1, <2>3, <3>1 DEF After, OneSide, Size
    <3>3. QED
      BY <2>2, <2>3, <3>1, <3>2 DEF HoldsPids, Cells
  <2>8. QED
    BY <2>5, <2>6, <2>7
<1>3. QED
  BY <1>1, <1>2 DEF Responder

\* The parts of the invariant hold together.
LEMMA Invariant == Spec => []QueueInv
<1>1. QueueInv /\ [Next]_vars => QueueInv'
  <2> SUFFICES ASSUME QueueInv, [Next]_vars PROVE QueueInv'
    OBVIOUS
  <2>1. CASE UNCHANGED vars
    BY <2>1 DEF vars, ring, QueueInv, TypeOK, OneSide, HoldsPids, StaysFilled, PopSucceeds, Size
  <2>2. QED
    BY <2>1, PushInv, ResponderInv DEF Next
<1>2. QED
  BY <1>1, InitInv, PTL DEF Spec

\* Head and tail stay inside the ring (rdm_queue_push(), rdm_queue_pop()).
THEOREM TypeCorrect == Spec => []TypeOK
<1>1. QueueInv => TypeOK
  BY DEF QueueInv
<1>2. QED
  BY <1>1, Invariant, PTL

\* The pop that follows a look at the size finds a PID: the assertion of
\* queue_status.c:55 holds.
THEOREM PopFindsPid == Spec => []PopSucceeds
<1>1. QueueInv => PopSucceeds
  BY DEF QueueInv
<1>2. QED
  BY <1>1, Invariant, PTL

-----------------------------------------------------------------------------
(* The ring is a queue *)

\* The PIDs that wait are a sequence, read from tail on.
LEMMA WaitingIs ==
  ASSUME QueueInv
  PROVE  /\ Waiting \in Seq(Pids)
         /\ Len(Waiting) = Size /\ Size \in Nat
         /\ \A i \in 1..Size : Waiting[i] = data[tail + i - 1]
<1>1. /\ Size \in Nat
      /\ \A i \in 1..Size : /\ tail + i - 1 \in Cells
                            /\ (tail + i - 1) % MaxSize = tail + i - 1
                            /\ tail + i - 1 < head \/ head < tail
  BY Occupied DEF QueueInv
<1>2. \A i \in 1..Size : tail <= tail + i - 1
  BY <1>1, QueueAssumption DEF QueueInv, TypeOK, Cells
<1>3. \A i \in 1..Size : data[tail + i - 1] \in Pids
  BY <1>1, <1>2 DEF QueueInv, HoldsPids
<1>4. Waiting \in [1..Size -> Pids] /\ \A i \in 1..Size : Waiting[i] = data[tail + i - 1]
  BY <1>1, <1>3 DEF Waiting
<1>5. Waiting \in Seq(Pids)
  BY <1>1, <1>4, SeqDef
<1>6. Len(Waiting) = Size
  BY <1>1, <1>4, <1>5, LenProperties
<1>7. QED
  BY <1>1, <1>4, <1>5, <1>6

\* A push is a step of the queue, or changes nothing that it shows.
LEMMA PushQueues ==
  ASSUME QueueInv, QueueInv', NEW new \in Pids, Push(new)
  PROVE  Messages!Queue(new) \/ UNCHANGED Messages!queueVars
<1>1. CASE UNCHANGED ring
  BY <1>1 DEF ring, Messages!queueVars, Waiting, Size
<1>2. CASE ~Endless /\ ~Full /\ data' = [data EXCEPT ![head] = new] /\ head' = After(head)
           /\ UNCHANGED <<tail, previous, stuck>>
  <2>1. head \in 0..MaxSize - 1 /\ tail \in 0..MaxSize - 1 /\ MaxSize \in Nat \ {0}
        /\ data \in [0..MaxSize - 1 -> Pids \cup {NoPid}]
    BY QueueAssumption DEF QueueInv, TypeOK, Cells
  <2>2. tail <= head /\ Size = head - tail /\ Size' = Size + 1 /\ Size < MaxSize - 1
    BY <1>2, PushMoves DEF QueueInv
  <2>3. /\ Waiting \in Seq(Pids) /\ Len(Waiting) = Size /\ Size \in Nat
        /\ \A i \in 1..Size : Waiting[i] = data[tail + i - 1]
    BY WaitingIs
  <2>4. /\ Waiting' \in Seq(Pids) /\ Len(Waiting') = Size'
        /\ \A i \in 1..Size' : Waiting'[i] = data'[tail + i - 1]
    <3>1. (/\ Waiting \in Seq(Pids) /\ Len(Waiting) = Size /\ Size \in Nat
           /\ \A i \in 1..Size : Waiting[i] = data[tail + i - 1])'
      BY WaitingIs, PTL
    <3>2. QED
      BY <1>2, <3>1
  <2>5. \A i \in 1..Size : data'[tail + i - 1] = data[tail + i - 1]
    BY <1>2, <2>1, <2>2
  <2>6. data'[tail + Size] = new
    BY <1>2, <2>1, <2>2
  <2>7. \A i \in 1..Size : Waiting[i] # new
    <3>1. \A i \in 1..Size : tail + i - 1 \in Searched
      BY <2>1, <2>2 DEF Searched, Cells
    <3>2. QED
      BY <2>3, <3>1 DEF Push
  <2>8. Waiting' = Append(Waiting, new)
    <3>1. /\ Append(Waiting, new) \in Seq(Pids)
          /\ Len(Append(Waiting, new)) = Size + 1
          /\ \A i \in 1..Size : Append(Waiting, new)[i] = Waiting[i]
          /\ Append(Waiting, new)[Size + 1] = new
      BY <2>3, AppendProperties
    <3>2. \A i \in 1..Size + 1 : Waiting'[i] = Append(Waiting, new)[i]
      BY <2>1, <2>2, <2>3, <2>4, <2>5, <2>6, <3>1
    <3>3. QED
      BY <2>2, <2>4, <3>1, <3>2, SeqEqual
  <2>9. DOMAIN Waiting = 1..Size
    BY <2>3, LenProperties
  <2>10. QED
    BY <1>2, <2>2, <2>3, <2>7, <2>8, <2>9 DEF Messages!Queue
<1>3. QED
  BY <1>1, <1>2 DEF Push

\* A pop takes the oldest PID, and remembers it.
LEMMA TakeUnqueues ==
  ASSUME QueueInv, QueueInv', Take
  PROVE  Messages!Unqueue
<1>1. head \in 0..MaxSize - 1 /\ tail \in 0..MaxSize - 1 /\ MaxSize \in Nat \ {0}
  BY QueueAssumption DEF QueueInv, TypeOK, Cells
<1>2. Size > 0 /\ tail' = After(tail) /\ head' = head /\ data' = data
  BY DEF Take, QueueInv, StaysFilled
<1>3. Size' = Size - 1 /\ (Size' > 0 => tail' = tail + 1)
  BY <1>2, TakeMoves DEF QueueInv
<1>4. /\ Waiting \in Seq(Pids) /\ Len(Waiting) = Size /\ Size \in Nat
      /\ \A i \in 1..Size : Waiting[i] = data[tail + i - 1]
  BY WaitingIs
<1>5. /\ Waiting' \in Seq(Pids) /\ Len(Waiting') = Size' /\ Size' \in Nat
      /\ \A i \in 1..Size' : Waiting'[i] = data[tail' + i - 1]
  <2>1. (/\ Waiting \in Seq(Pids) /\ Len(Waiting) = Size /\ Size \in Nat
         /\ \A i \in 1..Size : Waiting[i] = data[tail + i - 1])'
    BY WaitingIs, PTL
  <2>2. QED
    BY <1>2, <2>1
<1>6. Waiting # <<>>
  BY <1>2, <1>4, EmptySeq
<1>7. Head(Waiting) = data[tail]
  BY <1>1, <1>2, <1>4, <1>6
<1>8. Waiting' = Tail(Waiting)
  <2>1. /\ Tail(Waiting) \in Seq(Pids) /\ Len(Tail(Waiting)) = Size - 1
        /\ \A i \in 1..Size - 1 : Tail(Waiting)[i] = Waiting[i + 1]
    BY <1>4, <1>6, HeadTailProperties
  <2>2. \A i \in 1..Size - 1 : Waiting'[i] = Tail(Waiting)[i]
    <3>1. SUFFICES ASSUME NEW i \in 1..Size - 1 PROVE Waiting'[i] = Waiting[i + 1]
      BY <2>1
    <3>2. tail' + i - 1 = tail + (i + 1) - 1 /\ i \in 1..Size' /\ i + 1 \in 1..Size
      BY <1>1, <1>3, <1>4
    <3>3. QED
      BY <1>4, <1>5, <3>2
  <2>3. QED
    BY <1>3, <1>5, <2>1, <2>2, SeqEqual
<1>9. QED
  BY <1>6, <1>7, <1>8 DEF Messages!Unqueue, Take

\* The ring implements MessageQueue: PIDs leave in the order in which they
\* came, each once, whatever stale PIDs the free cells hold.
THEOREM RingIsQueue == Spec => Implements
<1>1. Init => Messages!QueueInit
  <2> SUFFICES ASSUME Init PROVE Messages!QueueInit
    OBVIOUS
  <2>1. Waiting \in Seq(Pids) /\ Len(Waiting) = Size
    BY InitInv, WaitingIs
  <2>2. Size = 0
    BY DEF Init, Size
  <2>3. Waiting = <<>>
    BY <2>1, <2>2, EmptySeq
  <2>4. QED
    BY <2>3 DEF Messages!QueueInit, Init
<1>2. QueueInv /\ QueueInv' /\ [Next]_vars
        => [Messages!QueueNext]_(Messages!queueVars)
  <2> SUFFICES ASSUME QueueInv, QueueInv', [Next]_vars
               PROVE  Messages!QueueNext \/ UNCHANGED Messages!queueVars
    OBVIOUS
  <2>1. CASE \/ UNCHANGED vars
             \/ Refuse \/ Look \/ Check \/ Answer
    <3>1. UNCHANGED ring
      BY <2>1 DEF vars, Refuse, Look, Check, Answer
    <3>2. QED
      BY <3>1 DEF ring, Messages!queueVars, Waiting, Size
  <2>2. QED
    BY <2>1, PushQueues, TakeUnqueues DEF Next, Responder, Messages!QueueNext
<1>3. QED
  BY <1>1, <1>2, Invariant, PTL DEF Spec, Implements, Messages!Spec
=============================================================================
