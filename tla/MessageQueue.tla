---------------------------- MODULE MessageQueue ----------------------------
(***************************************************************************)
(* What the RDM message queue promises: parameter IDs leave it in the      *)
(* order in which they came, one that waits already is not taken again,    *)
(* and the one that left last is remembered.                               *)
(***************************************************************************)
EXTENDS Naturals, Sequences

CONSTANTS
  Pids,
  NoPid,
  Capacity   \* PIDs the queue has room for

VARIABLES
  waiting,   \* PIDs that wait, the oldest first
  previous   \* the PID that left last

queueVars == <<waiting, previous>>

QueueInit == waiting = <<>> /\ previous = NoPid

Queue(pid) ==
  /\ Len(waiting) < Capacity
  /\ \A i \in DOMAIN waiting : waiting[i] # pid
  /\ waiting' = Append(waiting, pid)
  /\ UNCHANGED previous

Unqueue ==
  /\ waiting # <<>>
  /\ previous' = Head(waiting)
  /\ waiting' = Tail(waiting)

QueueNext == Unqueue \/ \E pid \in Pids : Queue(pid)

Spec == QueueInit /\ [][QueueNext]_queueVars
=============================================================================
