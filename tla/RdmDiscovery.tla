---------------------------- MODULE RdmDiscovery ----------------------------
(***************************************************************************)
(* RDM discovery: rdm_discover_with_callback() of the controller           *)
(* (rdm/controller/discovery.c) against the discovery handler of the       *)
(* responders (rdm/responder/discovery.c), on a bus that loses requests    *)
(* and answers.  A UID is a number: its manufacturer ID above its device   *)
(* ID.  A request and its answer, for which rdm_send_request() holds the   *)
(* driver mutex, are one step; answers that collide reach the controller   *)
(* as an invalid answer, as the answer of one of them, or as none.  A      *)
(* request is not sent at all while a packet that another task began is    *)
(* still on the bus when the wait for it ends (rdm/controller/utils.c:35): *)
(* the acknowledgment then is the one of the request before.               *)
(* An answer comes within the request or not at all: RdmExchange has the   *)
(* late ones.                                                              *)
(***************************************************************************)
EXTENDS Integers, Sequences

CONSTANTS
  Devices,    \* UIDs of the devices that may be on the bus
  Top,        \* RDM_UID_MAX
  PerMaker,   \* device IDs of one manufacturer
  StackMax,   \* branches the stack has room for
  LossMax     \* bound: times that parts of one request may be lost

Uids == 0..Top
Branches == [lower : Uids, upper : Uids]

\* rdm_ack_t; its source is looked at only in a valid answer.
Answer(uid) == [type |-> "ACK", src |-> uid]
Invalid == [type |-> "INVALID", src |-> 0]
None == [type |-> "NONE", src |-> 0]
Acks == {Invalid, None} \cup {Answer(uid) : uid \in Uids}

\* The last device ID of a manufacturer addresses all its devices.
Maker(uid) == uid \div PerMaker
IsBroadcast(uid) == uid % PerMaker = PerMaker - 1

ASSUME DiscoveryAssumption ==
  /\ Top \in Nat /\ StackMax \in Nat \ {0} /\ LossMax \in Nat
  /\ PerMaker \in Nat \ {0, 1}
  /\ Devices \subseteq Uids
  /\ \A d \in Devices : ~IsBroadcast(d)

VARIABLES
  at,        \* what the controller does next
  stack,     \* branches that are still to be searched
  branch,    \* the branch that is searched
  attempts,
  found,     \* devices reported to the callback
  ack,       \* acknowledgment of the last request that was sent
  mux,       \* who holds the driver mutex: "nobody", "discovery" or "other"
  present,   \* devices on the bus
  muted,     \* devices that are muted
  busy,      \* a packet of another task may be on the bus
  deaf,      \* devices that stayed muted at the start (history)
  misled     \* "repeated", "given_up": what came of unsent requests (history)

busVars == <<present, muted>>
history == <<deaf, misled>>
vars == <<at, stack, branch, attempts, found, ack, mux, busVars, busy, history>>

Give(m) == IF m = "discovery" THEN "nobody" ELSE m

\* A request waits for a mutex that another task holds.
MayRequest == mux # "other"

\* Mutant: attempts are not counted.
CountedMutant == attempts

Counted == attempts + 1

\* Mutant: one attempt less.
AgainMutant == Counted < 2

\* Mutant: one attempt more.
AgainMutant2 == Counted <= 3

\* One more attempt at a request that was not answered.
Again == Counted < 3

Idle == at = "idle"

\* rdm_send_request() waits 23 ms for the packet that is on the bus, which may
\* outlast several such waits: a break takes up to a second.
Sent == MayRequest /\ busy' = FALSE
NotSent == MayRequest /\ busy /\ UNCHANGED <<busy, ack>>

-----------------------------------------------------------------------------
(* rdm_discover_with_callback() *)

\* The mutex is taken if it is free, and the acknowledgment is not initialized.
\* Devices have come, and gone, since the last discovery; one that comes is not
\* muted.
Start(devices) ==
  /\ Idle
  /\ stack' = <<[lower |-> 0, upper |-> Top]>>
  /\ found' = <<>>
  /\ ack' \in Acks
  /\ mux' = IF mux = "nobody" THEN "discovery" ELSE mux
  /\ misled' = {}
  /\ present' = devices /\ muted' = muted \cap devices
  /\ at' = "un_mute"
  /\ UNCHANGED <<branch, attempts, busy, deaf>>

\* One broadcast, which not every device may hear, or none if it is not sent.
UnMute(heard) ==
  /\ at = "un_mute"
  /\ (Sent /\ UNCHANGED ack) \/ (NotSent /\ heard = {})
  /\ muted' = muted \ heard
  /\ deaf' = muted \ heard
  /\ at' = "pop"
  /\ UNCHANGED <<stack, branch, attempts, found, mux, present, misled>>

\* A branch of one UID is a device to mute, any other is searched.
Pop ==
  /\ at = "pop" /\ stack # <<>>
  /\ branch' = stack[Len(stack)]
  /\ stack' = SubSeq(stack, 1, Len(stack) - 1)
  /\ attempts' = 0
  /\ at' = IF branch'.lower = branch'.upper THEN "mute" ELSE "search"
  /\ UNCHANGED <<found, ack, mux, busVars, busy, history>>

\* The devices that answer a search of the branch (rdm_rhd_discovery)
Responders == {d \in present \ muted : branch.lower <= d /\ d <= branch.upper}

\* Mutant: a single UID is split off.
MidMutant(b) == b.upper - 1

Mid(b) == (b.lower + b.upper) \div 2

LowerHalf(b) == [lower |-> b.lower, upper |-> Mid(b)]
UpperHalf(b) == [lower |-> Mid(b) + 1, upper |-> b.upper]

\* Mutant: the upper half is searched first.
PushHalvesMutant(b) == Append(Append(stack, LowerHalf(b)), UpperHalf(b))

\* The lower half comes to lie on top.
PushHalves(b) == Append(Append(stack, UpperHalf(b)), LowerHalf(b))

\* An answer, valid or not, splits the branch; after three attempts without an
\* answer it is given up.
SplitOrRetry ==
  \/ /\ ack'.type # "NONE"
     /\ stack' = PushHalves(branch)
     /\ at' = "pop"
     /\ UNCHANGED attempts
  \/ /\ ack'.type = "NONE"
     /\ attempts' = Counted
     /\ at' = IF Again THEN "search" ELSE "pop"
     /\ UNCHANGED stack

\* Another attempt than those that may be lost comes to nothing.
GivenUp == IF attempts < LossMax THEN {} ELSE {"given_up"}

\* The answers of several devices collide.
Heard(devices) == IF devices = {} THEN {None} ELSE {Invalid} \cup {Answer(d) : d \in devices}

Search(heard) ==
  /\ at = "search" /\ Sent
  /\ heard = Responders \/ attempts < LossMax
  /\ ack' \in Heard(heard)
  /\ SplitOrRetry
  /\ UNCHANGED <<branch, found, mux, busVars, history>>

SearchNotSent ==
  /\ at = "search" /\ NotSent
  /\ SplitOrRetry
  /\ misled' = misled \cup IF ack.type = "NONE" THEN GivenUp ELSE {}
  /\ UNCHANGED <<branch, found, mux, busVars, deaf>>

\* The devices that a request to this UID addresses (rdm_uid_is_target)
Targets(uid) == IF IsBroadcast(uid) THEN {d \in present : Maker(d) = Maker(uid)}
                ELSE present \cap {uid}

\* An acknowledged mute is reported; after three attempts without one the
\* branch is given up.
ReportOrRetry ==
  \/ /\ ack'.type = "ACK"
     /\ mux' = Give(mux) /\ at' = "callback"
     /\ UNCHANGED attempts
  \/ /\ ack'.type # "ACK"
     /\ attempts' = Counted
     /\ at' = IF Again THEN "mute" ELSE "pop"
     /\ UNCHANGED mux

\* A device answers a request to its own UID only.
Mute(heard, answered) ==
  LET uid == branch.lower IN
  /\ at = "mute" /\ Sent
  /\ heard = Targets(uid) \/ attempts < LossMax
  /\ answered => uid \in heard
  /\ uid \in heard /\ ~answered => attempts < LossMax
  /\ ack' \in IF answered THEN {Answer(uid)}
              ELSE IF uid \in heard THEN {Invalid, None} ELSE {None}
  /\ muted' = muted \cup heard
  /\ ReportOrRetry
  /\ UNCHANGED <<stack, branch, found, present, history>>

\* The acknowledgment of another request is taken for the device's.
MuteNotSent ==
  /\ at = "mute" /\ NotSent
  /\ ReportOrRetry
  /\ misled' = misled \cup IF ack.type = "ACK" THEN {"repeated"} ELSE GivenUp
  /\ UNCHANGED <<stack, branch, found, busVars, deaf>>

\* The callback is told the source of the acknowledgment.  When it has returned
\* the mutex is taken again.
Callback ==
  /\ at = "callback" /\ mux = "nobody"
  /\ mux' = "discovery"
  /\ found' = Append(found, ack.src)
  /\ at' = "pop"
  /\ UNCHANGED <<stack, branch, attempts, ack, busVars, busy, history>>

\* Mutant: the mutex is kept.
FinishMutant ==
  /\ at = "pop" /\ stack = <<>>
  /\ at' = "idle"
  /\ UNCHANGED <<stack, branch, attempts, found, ack, mux, busVars, busy, history>>

Finish ==
  /\ at = "pop" /\ stack = <<>>
  /\ mux' = Give(mux)
  /\ at' = "idle"
  /\ UNCHANGED <<stack, branch, attempts, found, ack, busVars, busy, history>>

-----------------------------------------------------------------------------
(* Another task uses the driver. *)

OtherTake ==
  /\ mux = "nobody" /\ mux' = "other"
  /\ UNCHANGED <<at, stack, branch, attempts, found, ack, busVars, busy, history>>

\* dmx_send() gives the mutex back when its packet has begun.
OtherGive ==
  /\ mux = "other" /\ mux' = "nobody"
  /\ busy' \in {busy, TRUE}
  /\ UNCHANGED <<at, stack, branch, attempts, found, ack, busVars, history>>

-----------------------------------------------------------------------------
Init ==
  /\ at = "idle"
  /\ stack = <<>> /\ found = <<>>
  /\ branch = [lower |-> 0, upper |-> Top]
  /\ attempts = 0 /\ ack = None
  /\ mux = "nobody" /\ busy = FALSE
  /\ present = {} /\ muted = {} /\ deaf = {} /\ misled = {}

Controller ==
  \/ Pop \/ SearchNotSent \/ MuteNotSent \/ Callback \/ Finish
  \/ \E heard \in SUBSET muted : UnMute(heard)
  \/ \E heard \in SUBSET Responders : Search(heard)
  \/ \E heard \in SUBSET Targets(branch.lower), answered \in BOOLEAN : Mute(heard, answered)

Next == \/ \E devices \in SUBSET Devices : Start(devices)
        \/ Controller \/ OtherTake \/ OtherGive

Spec == Init /\ [][Next]_vars

\* The discovery goes on whenever other tasks let it have the mutex, which
\* they do not keep.
Fairness == SF_vars(Controller) /\ WF_vars(OtherGive)
FairSpec == Spec /\ Fairness

-----------------------------------------------------------------------------
(* Properties *)

\* Branches, devices and the mutex keep to their types.
TypeOK ==
  /\ at \in {"idle", "un_mute", "pop", "search", "mute", "callback"}
  /\ stack \in Seq(Branches) /\ branch \in Branches
  /\ attempts \in 0..3
  /\ found \in Seq(Uids)
  /\ mux \in {"nobody", "discovery", "other"}
  /\ present \subseteq Devices /\ muted \subseteq present
  /\ deaf \subseteq Devices
  /\ ack \in Acks /\ busy \in BOOLEAN /\ misled \subseteq {"repeated", "given_up"}

\* The stack of branches never outgrows its memory: "The max binary tree depth
\* is 49" (discovery.c:63).
StackFits == Len(stack) <= StackMax

\* Devices are reported in the order of their UIDs, so that none is reported
\* twice, and what is still to be searched lies above what was reported, unless
\* the acknowledgment of one mute was taken for the next, which was not sent.
Ascending ==
  "repeated" \notin misled =>
     /\ \A i, j \in DOMAIN found : i < j => found[i] < found[j]
     /\ \A i \in DOMAIN found, j \in DOMAIN stack : found[i] < stack[j].lower

\* Every device that heard the un-mute is reported, whatever answers are lost
\* in at most two of three attempts, whoever collides, and although the search
\* comes upon UIDs that address all devices of a manufacturer (discovery.c:97),
\* unless a request that was not sent was taken for answered, or was one lost
\* attempt too many.
AllFound ==
  Idle /\ misled = {} => \A d \in present \ deaf : \E i \in DOMAIN found : found[i] = d

\* A device is reported once: what the code does not keep when other tasks send
\* during a discovery (utils.c:35, discovery.c:98-104).
ReportedOnce == \A i, j \in DOMAIN found : found[i] = found[j] => i = j

\* The mutex is given back in the end even if it was not free at the start,
\* when the give around the callback finds nothing to give (discovery.c:83).
MutexReturned == Idle => mux # "discovery"

\* A discovery ends, with or without devices.
DiscoveryEnds == ~Idle ~> Idle
=============================================================================
