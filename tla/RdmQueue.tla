------------------------------ MODULE RdmQueue ------------------------------
(***************************************************************************)
(* The RDM message queue (rdm/responder/queue_status.c): a ring of         *)
(* parameter IDs that tasks push when they change a parameter, and that    *)
(* the responder pops to answer GET QUEUED_MESSAGE.  Each critical section *)
(* is one step.  There is one responder: it holds the driver mutex.  What  *)
(* reading the type of status through a null format does to the device is  *)
(* part of RdmResponder.                                                   *)
(***************************************************************************)
EXTENDS Integers

CONSTANTS
  Pids,      \* parameter IDs that are pushed
  NoPid,     \* 0: not a parameter ID
  MaxSize    \* queue_size_max: cells of the ring

ASSUME QueueAssumption == NoPid \notin Pids /\ MaxSize \in Nat \ {0}

Cells == 0..MaxSize - 1

VARIABLES
  head, tail, previous, data,   \* rdm_queue_t
  at,      \* what the responder does next
  pid,     \* the PID that it popped
  stuck    \* a push never ends, with interrupts disabled

ring == <<head, tail, previous, data>>
vars == <<ring, at, pid, stuck>>

After(i) == IF i + 1 = MaxSize THEN 0 ELSE i + 1

Size == IF head < tail THEN head - tail + MaxSize ELSE head - tail

Full == (head + 1) % MaxSize = tail

\* Mutant: the search misses the oldest PID.
SearchedMutant == {i \in Cells : tail < i /\ i < head}

\* The cells in which a push looks for its PID.  The index is compared with
\* head before it is wrapped, so the search never ends at head = 0.
Searched ==
  {i \in Cells : \/ tail <= i /\ i < head
                 \/ head < tail /\ (tail <= i \/ i < head \/ head = 0)}

Endless == head = 0 /\ tail > 0

-----------------------------------------------------------------------------
(* rdm_queue_push(); a PID that is found, or has no room, changes nothing. *)

Push(new) ==
  /\ ~stuck
  /\ \A i \in Searched : data[i] # new
  /\ \/ /\ Endless
        /\ stuck' = TRUE
        /\ UNCHANGED ring
     \/ /\ ~Endless /\ ~Full
        /\ data' = [data EXCEPT ![head] = new]
        /\ head' = After(head)
        /\ UNCHANGED <<tail, previous, stuck>>
  /\ UNCHANGED <<at, pid>>

(* rdm_rhd_get_queued_message() and rdm_queue_pop() *)

\* Mutant: the size is not looked at.
LookMutant ==
  /\ at = "idle" /\ ~stuck
  /\ at' = "check"
  /\ UNCHANGED <<ring, pid, stuck>>

\* A poll without a type of status, or with one out of range.
Refuse ==
  /\ at = "idle" /\ ~stuck
  /\ at' = "nack"
  /\ UNCHANGED <<ring, pid, stuck>>

\* With nothing in the queue the answer is a status message.
Look ==
  /\ at = "idle" /\ ~stuck /\ Size > 0
  /\ at' = "check"
  /\ UNCHANGED <<ring, pid, stuck>>

Check ==
  /\ at = "check" /\ ~stuck
  /\ IF Size > 0 THEN at' = "take" /\ UNCHANGED pid
     ELSE at' = "answer" /\ pid' = NoPid
  /\ UNCHANGED <<ring, stuck>>

\* Mutant: the PID stays in the queue.
TakeMutant ==
  /\ at = "take" /\ ~stuck
  /\ pid' = data[tail] /\ previous' = data[tail]
  /\ at' = "answer"
  /\ UNCHANGED <<head, tail, data, stuck>>

Take ==
  /\ at = "take" /\ ~stuck
  /\ pid' = data[tail] /\ previous' = data[tail]
  /\ tail' = After(tail)
  /\ at' = "answer"
  /\ UNCHANGED <<head, data, stuck>>

\* The handler of the PID writes the answer, or the poll was refused.
Answer ==
  /\ at \in {"answer", "nack"}
  /\ at' = "idle"
  /\ UNCHANGED <<ring, pid, stuck>>

-----------------------------------------------------------------------------
Init ==
  /\ head = 0 /\ tail = 0
  /\ previous = NoPid /\ data = [i \in Cells |-> NoPid]
  /\ at = "idle" /\ pid = NoPid /\ stuck = FALSE

Responder == Check \/ Take \/ Answer

Next == Refuse \/ Look \/ Responder \/ \E new \in Pids : Push(new)

Spec == Init /\ [][Next]_vars

\* A request that is being answered is answered.
FairSpec == Spec /\ WF_vars(Responder)

-----------------------------------------------------------------------------
(* Properties *)

\* Head and tail stay inside the ring, which holds PIDs.
TypeOK ==
  /\ head \in Cells /\ tail \in Cells
  /\ previous \in Pids \cup {NoPid} /\ pid \in Pids \cup {NoPid}
  /\ data \in [Cells -> Pids \cup {NoPid}]
  /\ at \in {"idle", "check", "take", "answer", "nack"}
  /\ stuck \in BOOLEAN

\* The queue does not run empty between the look at its size and the pop, so
\* that the answer has a parameter (the assertion of queue_status.c:55).
PopSucceeds == at = "answer" => pid # NoPid

Waiting == [i \in 1..Size |-> data[(tail + i - 1) % MaxSize]]

Messages == INSTANCE MessageQueue WITH waiting <- Waiting, Capacity <- MaxSize - 1

\* The ring is a queue of distinct PIDs, whatever stale PIDs its free cells
\* hold; it has room for one PID less than cells.  PIDs never wait on both
\* sides of the ring's end: at head 0 a push finds its PID or never ends.
Implements == Messages!Spec

\* The controller polls again and again while something waits, and its polls
\* are not refused.
Polls == []<>(Size > 0 /\ ~stuck) => []<><<Look>>_vars

\* A PID that waits is popped, whatever is pushed before and behind it, unless
\* a push never ends; other polls may be refused in between.
Delivered ==
  Polls => \A p \in Pids :
    (\E i \in 1..Size : Waiting[i] = p) ~> (stuck \/ \A i \in 1..Size : Waiting[i] # p)

\* "Iterate the queue to ensure that the PID isn't already queued"
\* (queue_status.c:118): the iteration ends.
PushEnds == ~stuck
=============================================================================
