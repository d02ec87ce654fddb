---------------------------- MODULE RdmResponder ----------------------------
(***************************************************************************)
(* An RDM responder (rdm/responder.c and the handlers of rdm/responder):   *)
(* a task that receives, answers what is addressed to it, and commits one  *)
(* parameter to non-volatile storage when nothing was received in time; a  *)
(* task of the application that sets parameters; power that may be cut     *)
(* between any two steps, also to start another firmware.  Each critical   *)
(* section is one step.  A controller polls the messages and keeps what it *)
(* has learnt.                                                             *)
(***************************************************************************)
EXTENDS ParameterTable, FiniteSets

CONSTANTS
  Firmwares,     \* sequences of footprints, one for each personality
  Requests,      \* packets that are received
  Settings,      \* pairs of a parameter and a value the application sets
  NoData,        \* what a request without parameter data carries
  WriteFails,    \* what may become of a write to storage, a set of BOOLEAN
  MaxChanges,    \* bounds: requests and settings that change something,
  MaxRestarts    \* and restarts

NonVolatile ==
  {"DMX_START_ADDRESS", "DMX_PERSONALITY", "IDENTIFY_DEVICE", "DEVICE_LABEL",
   "RESET_DEVICE", "DEVICE_HOURS", "LAMP_HOURS"}

\* rdm_set_language() sets the label of the device.
ParamOf(setter) == IF setter = "LANGUAGE" THEN "DEVICE_LABEL" ELSE setter

\* Every firmware registers personalities, and has room for its parameters;
\* the application sets non-volatile ones; personalities have numbers.
ASSUME ResponderAssumption ==
  /\ \A f \in Firmwares :
       /\ f \in Seq(Nat) /\ f # <<>>
       /\ \A p \in NonVolatile \cup {"DISC_MUTE", "DMX_PERSONALITY_DESCRIPTION"} :
            Exists(Installed(<<>>, f), p)
  /\ \A s \in Settings :
       /\ ParamOf(s[1]) \in NonVolatile
       /\ s[1] = "DMX_PERSONALITY" => s[2] \in Nat
  /\ \A r \in Requests :
       r.pid = "DMX_PERSONALITY" /\ r.cc = "SET" => r.data \in Nat \cup {NoData}
  /\ QueueSize \in Nat \ {0, 1} /\ MaxRestarts \in Nat /\ MaxChanges \in Nat
  /\ NoData \notin Nat

VARIABLES
  device,     \* [table, memory]
  staged,     \* parameter_count.staged
  nvs,        \* what is stored, a function of some parameters
  waiting, previous,   \* the message queue, as MessageQueue promises it
  bus,        \* the responder task: [at, req, kind, pid, value]
  app,        \* the application task: [at, pid, value]
  bootLoader, \* rdm.boot_loader
  changes, restarts,
  seen,       \* what the controller has learnt of the parameters
  missed,     \* parameters of answers that it did not get, or without room
  unsaved,    \* parameters that were set and not stored since
  lost        \* of these, the ones whose write failed

queue == <<waiting, previous>>
memory == <<device, staged, unsaved, lost>>
learnt == <<seen, missed>>
vars == <<memory, nvs, queue, bus, app, bootLoader, changes, restarts, learnt>>

Messages == INSTANCE MessageQueue
  WITH Pids <- NonVolatile, NoPid <- "none", Capacity <- QueueSize - 1

NoRequest == [pid |-> "none", cc |-> "GET", sub |-> "root", data |-> NoData, to |-> "all"]
Listening == [at |-> "receive", req |-> NoRequest, kind |-> "none", pid |-> "none", value |-> 0]
Resting == [at |-> "idle", pid |-> "none", value |-> 0]

-----------------------------------------------------------------------------
(* What several steps do. *)

\* dmx_parameter_set()
Change(pid, value) ==
  /\ device' = Set(device, staged, pid, value)
  /\ staged' = IF Stages(device, staged, pid) THEN staged + 1 ELSE staged
  /\ unsaved' = unsaved \cup ({pid} \cap NonVolatile)
  /\ lost' = lost \ {pid}

Waits(pid) == \E i \in DOMAIN waiting : waiting[i] = pid
NoRoom == Len(waiting) = QueueSize - 1

\* Mutant: the PID that left the queue last is taken for one that waits.
PushMutant(pid) ==
  IF pid = previous \/ Waits(pid) \/ NoRoom THEN UNCHANGED queue ELSE Messages!Queue(pid)

\* rdm_queue_push(): a PID that waits, or has no room, is dropped.
Push(pid) == IF Waits(pid) \/ NoRoom THEN UNCHANGED queue ELSE Messages!Queue(pid)

\* rdm_write_ack() and rdm_write_nack_reason(): the answer waits to be sent.
Reply(kind, pid, value) ==
  bus' = [bus EXCEPT !.at = "send", !.kind = kind, !.pid = pid, !.value = value]
Ack(pid, value) == Reply("ack", pid, value)
Nack(reason) == Reply("nack", bus.req.pid, reason)
Goto(at, value) == bus' = [bus EXCEPT !.at = at, !.value = value]

Others == <<nvs, app, bootLoader, changes, restarts, learnt>>

-----------------------------------------------------------------------------
(* rdm_send_response(): which handler a request gets *)

Definition == Definitions[bus.req.pid]

\* There are no sub-devices, so a request to one finds no definition.
Known == bus.req.sub = "root" /\ Exists(device, bus.req.pid)

ClassFits ==
  CASE Definition.cc = "DISC" -> bus.req.cc = "DISC"
    [] Definition.cc = "GET_SET" -> bus.req.cc # "DISC"
    [] OTHER -> Definition.cc = bus.req.cc

Handles(cc, handler) ==
  /\ bus.at = "respond"
  /\ Known /\ ClassFits
  /\ bus.req.cc = cc
  /\ handler = IF cc = "SET" THEN Definition.set ELSE Definition.get

Counted == changes < MaxChanges /\ changes' = changes + 1

Broadcast == bus.req.to = "all"

Receive(req) ==
  /\ bus.at = "receive" /\ req.sub # "all"
  /\ bus' = [Listening EXCEPT !.at = "respond", !.req = req]
  /\ IF req.cc = "GET" THEN UNCHANGED changes ELSE Counted
  /\ UNCHANGED <<memory, queue, nvs, app, bootLoader, restarts, learnt>>

\* An unknown parameter, or a class it does not have.
Refuse ==
  /\ bus.at = "respond"
  /\ \/ /\ ~Known
        /\ Nack("UNKNOWN_PID")
     \/ /\ Known /\ ~ClassFits
        /\ IF Definition.cc = "DISC" THEN Reply("silence", bus.req.pid, 0)
           ELSE Nack("UNSUPPORTED_COMMAND_CLASS")
  /\ UNCHANGED <<memory, queue, Others>>

-----------------------------------------------------------------------------
(* GET handlers *)

Simple ==
  /\ Handles("GET", "simple") \/ Handles("GET", "language")
  /\ Ack(bus.req.pid, Value(device, bus.req.pid))
  /\ UNCHANGED <<memory, queue, Others>>

GetDeviceInfo ==
  /\ Handles("GET", "device_info")
  /\ Ack("DEVICE_INFO", DeviceInfo(device))
  /\ UNCHANGED <<memory, queue, Others>>

GetSupportedParameters ==
  /\ Handles("GET", "supported")
  /\ \E beyond \in {"none", "garbage"} :
       Ack("SUPPORTED_PARAMETERS", SupportedParameters(device, beyond))
  /\ UNCHANGED <<memory, queue, Others>>

\* Only parameters of a manufacturer are described, and there are none.
GetParameterDescription ==
  /\ Handles("GET", "description")
  /\ Nack(IF bus.req.data = NoData THEN "FORMAT_ERROR" ELSE "DATA_OUT_OF_RANGE")
  /\ UNCHANGED <<memory, queue, Others>>

GetPersonalityDescription ==
  /\ Handles("GET", "personality_description")
  /\ IF bus.req.data = NoData THEN Nack("FORMAT_ERROR")
     ELSE IF HasPersonality(device, bus.req.data)
     THEN Ack(bus.req.pid, Footprint(device, bus.req.data))
     ELSE Nack("DATA_OUT_OF_RANGE")
  /\ UNCHANGED <<memory, queue, Others>>

\* Types of status, from RDM_STATUS_GET_LAST_MESSAGE to RDM_STATUS_ERROR
StatusTypes == 1..4

\* The type of status is checked for its range and not looked at again.
QueuedMessage ==
  /\ Handles("GET", "queued_message")
  /\ IF bus.req.data = NoData THEN Nack("FORMAT_ERROR") /\ UNCHANGED queue
     ELSE IF bus.req.data \notin StatusTypes
     THEN Nack("DATA_OUT_OF_RANGE") /\ UNCHANGED queue
     ELSE IF waiting = <<>> THEN Ack("STATUS_MESSAGE", 0) /\ UNCHANGED queue
     ELSE /\ Messages!Unqueue
          /\ bus' = [bus EXCEPT !.at = "popped", !.pid = Head(waiting)]
  /\ UNCHANGED <<memory, Others>>

AnswerPopped ==
  /\ bus.at = "popped"
  /\ Ack(bus.pid, Value(device, bus.pid))
  /\ UNCHANGED <<memory, queue, Others>>

-----------------------------------------------------------------------------
(* SET and DISC handlers *)

\* A request without data is acknowledged, too.
SetSimple ==
  /\ Handles("SET", "simple")
  /\ IF bus.req.data = NoData THEN UNCHANGED memory
     ELSE Change(bus.req.pid, bus.req.data)
  /\ Ack(bus.req.pid, bus.req.data)
  /\ UNCHANGED <<queue, Others>>

SetLanguage ==
  /\ Handles("SET", "language")
  /\ IF bus.req.data = NoData
     THEN Nack("FORMAT_ERROR") /\ UNCHANGED memory
     ELSE Change("LANGUAGE", bus.req.data) /\ Ack("LANGUAGE", bus.req.data)
  /\ UNCHANGED <<queue, Others>>

\* The personality is copied, and set in another critical section.
CopyPersonality ==
  /\ Handles("SET", "personality")
  /\ IF bus.req.data = NoData THEN Nack("FORMAT_ERROR")
     ELSE IF HasPersonality(device, bus.req.data)
     THEN Goto("personality", Value(device, "DMX_PERSONALITY"))
     ELSE Nack("DATA_OUT_OF_RANGE")
  /\ UNCHANGED <<memory, queue, Others>>

SetPersonality ==
  /\ bus.at = "personality"
  /\ Change("DMX_PERSONALITY", <<bus.req.data, bus.value[2]>>)
  /\ Ack("DMX_PERSONALITY", <<bus.req.data, bus.value[2]>>)
  /\ UNCHANGED <<queue, Others>>

SetResetDevice ==
  /\ Handles("SET", "reset")
  /\ CASE bus.req.data = NoData -> Nack("FORMAT_ERROR") /\ UNCHANGED memory
       [] bus.req.data \in {1, 255} ->
            Change("RESET_DEVICE", bus.req.data) /\ Goto("unmute", bus.req.data)
       [] OTHER -> Nack("DATA_OUT_OF_RANGE") /\ UNCHANGED memory
  /\ UNCHANGED <<queue, Others>>

ResetUnmutes ==
  /\ bus.at = "unmute"
  /\ Change("DISC_MUTE", 0)
  /\ Ack("RESET_DEVICE", bus.req.data)
  /\ UNCHANGED <<queue, Others>>

\* A branch is "around" the device's UID, or not.  No answer is right only
\* for a broadcast; else the boot loader is wanted.
Discovery ==
  /\ Handles("DISC", "discovery")
  /\ CASE bus.req.pid # "DISC_UNIQUE_BRANCH" ->
            /\ Change(bus.req.pid, IF bus.req.pid = "DISC_MUTE" THEN 1 ELSE 0)
            /\ Ack(bus.req.pid, bootLoader)
            /\ UNCHANGED bootLoader
       [] Value(device, "DISC_MUTE") = 0 /\ bus.req.data = "around" ->
            Ack(bus.req.pid, 0) /\ UNCHANGED <<memory, bootLoader>>
       [] Broadcast ->
            Reply("silence", bus.req.pid, 0) /\ UNCHANGED <<memory, bootLoader>>
       [] OTHER ->
            Nack("HARDWARE_FAULT") /\ bootLoader' = TRUE /\ UNCHANGED memory
  /\ UNCHANGED <<queue, nvs, app, changes, restarts, learnt>>

\* Broadcasts are not answered; an answer that is too late is not sent.  The
\* mutex is not given back.
Send ==
  /\ bus.at = "send"
  /\ \E sent \in BOOLEAN :
       LET answers == bus.kind # "silence" /\ (~Broadcast \/ bus.pid = "DISC_UNIQUE_BRANCH")
           tells == bus.kind = "ack" /\ bus.pid \in NonVolatile /\ bus.value # NoData
           fresh == bus.value = Value(device, bus.pid)
       IN /\ sent => answers
          /\ bootLoader' = (bootLoader \/ (answers /\ ~sent))
          /\ seen' = IF tells /\ sent THEN [seen EXCEPT ![bus.pid] = bus.value] ELSE seen
          /\ missed' = CASE tells /\ sent /\ fresh -> missed \ {bus.pid}
                         [] tells /\ ~sent -> missed \cup {bus.pid}
                         [] OTHER -> missed
  /\ bus' = Listening
  /\ UNCHANGED <<memory, queue, nvs, app, changes, restarts>>

-----------------------------------------------------------------------------
(* dmx_parameter_commit(), when dmx_receive_num() found nothing in time *)

\* With nothing staged there is nothing to do.
TimedOut ==
  /\ bus.at = "receive"
  /\ staged > 0
  /\ bus' = [bus EXCEPT !.at = "commit"]
  /\ UNCHANGED <<memory, queue, Others>>

\* Mutant: the counter is not touched.
CommitMutant ==
  /\ bus.at = "commit"
  /\ IF StagedAt(device) = {} THEN bus' = Listening /\ UNCHANGED device
     ELSE /\ device' = Unstage(device, FirstStaged(device))
          /\ bus' = [bus EXCEPT !.at = "write", !.pid = device.table[FirstStaged(device)].pid]
  /\ UNCHANGED <<staged, unsaved, lost, queue, Others>>

\* Mutant: the counter is reset, although more may be staged.
CommitMutant2 ==
  /\ bus.at = "commit"
  /\ IF StagedAt(device) = {} THEN bus' = Listening /\ UNCHANGED <<device, staged>>
     ELSE /\ device' = Unstage(device, FirstStaged(device))
          /\ staged' = 0
          /\ bus' = [bus EXCEPT !.at = "write", !.pid = device.table[FirstStaged(device)].pid]
  /\ UNCHANGED <<unsaved, lost, queue, Others>>

Commit ==
  /\ bus.at = "commit"
  /\ IF StagedAt(device) = {} THEN bus' = Listening /\ UNCHANGED <<device, staged>>
     ELSE /\ device' = Unstage(device, FirstStaged(device))
          /\ staged' = staged - 1
          /\ bus' = [bus EXCEPT !.at = "write", !.pid = device.table[FirstStaged(device)].pid]
  /\ UNCHANGED <<unsaved, lost, queue, Others>>

\* dmx_nvs_set() reads the value only now; what it returns is not looked at.
Write ==
  /\ bus.at = "write"
  /\ \E failed \in WriteFails :
       /\ nvs' = IF failed THEN nvs ELSE With(nvs, bus.pid, Value(device, bus.pid))
       /\ unsaved' = IF failed THEN unsaved ELSE unsaved \ {bus.pid}
       /\ lost' = IF failed /\ bus.pid \in unsaved THEN lost \cup {bus.pid}
                  ELSE lost \ {bus.pid}
  /\ bus' = Listening
  /\ UNCHANGED <<device, staged, queue, app, bootLoader, changes, restarts, learnt>>

-----------------------------------------------------------------------------
(* The application's task: rdm_set_...() *)

AppSet(setter, value) ==
  /\ app.at = "idle" /\ Counted /\ setter # "DMX_PERSONALITY"
  /\ Change(ParamOf(setter), value)
  /\ app' = [at |-> "push", pid |-> ParamOf(setter), value |-> 0]
  /\ UNCHANGED <<nvs, queue, bus, bootLoader, restarts, learnt>>

AppCopyPersonality(n) ==
  /\ app.at = "idle" /\ Counted
  /\ HasPersonality(device, n)
  /\ app' = [at |-> "personality", pid |-> "DMX_PERSONALITY",
             value |-> <<n, PersonalityCount(device)>>]
  /\ UNCHANGED <<memory, nvs, queue, bus, bootLoader, restarts, learnt>>

AppSetPersonality ==
  /\ app.at = "personality"
  /\ Change(app.pid, app.value)
  /\ app' = [app EXCEPT !.at = "push", !.value = 0]
  /\ UNCHANGED <<nvs, queue, bus, bootLoader, changes, restarts, learnt>>

AppPush ==
  /\ app.at = "push"
  /\ Push(app.pid)
  /\ missed' = IF NoRoom /\ ~Waits(app.pid) THEN missed \cup {app.pid} ELSE missed
  /\ app' = Resting
  /\ UNCHANGED <<memory, nvs, bus, bootLoader, changes, restarts, seen>>

-----------------------------------------------------------------------------
(* dmx_driver_install() *)

\* The controller reads all parameters of a device that it has found.
Start(firmware) ==
  /\ device' = Installed(nvs, firmware)
  /\ staged' = 0 /\ unsaved' = {} /\ lost' = {}
  /\ waiting' = <<>> /\ previous' = "none"
  /\ bus' = Listening /\ app' = Resting
  /\ bootLoader' = FALSE
  /\ seen' = [p \in NonVolatile |-> device'.memory[p]] /\ missed' = {}

\* Power fails at any moment.
Restart ==
  /\ restarts < MaxRestarts
  /\ \E f \in Firmwares : Start(f)
  /\ restarts' = restarts + 1
  /\ UNCHANGED <<nvs, changes>>

\* A request to all sub-devices ends in an assertion (service.c:88), and the
\* device restarts.
Abort(req) ==
  /\ bus.at = "receive" /\ req.sub = "all"
  /\ Restart

\* The type of status is read through a null format (queue_status.c:37, 91;
\* rdm/driver.c:24), which restarts a device that has no memory at address 0.
ReadNull ==
  /\ Handles("GET", "queued_message") /\ bus.req.data # NoData
  /\ Restart

Init ==
  /\ nvs = <<>>
  /\ \E f \in Firmwares : device = Installed(<<>>, f)
  /\ staged = 0 /\ unsaved = {} /\ lost = {}
  /\ waiting = <<>> /\ previous = "none"
  /\ bus = Listening /\ app = Resting
  /\ bootLoader = FALSE
  /\ seen = [p \in NonVolatile |-> device.memory[p]] /\ missed = {}
  /\ changes = 0 /\ restarts = 0

Get ==
  \/ Simple \/ GetDeviceInfo \/ GetSupportedParameters \/ GetParameterDescription
  \/ GetPersonalityDescription \/ QueuedMessage \/ AnswerPopped

SetOrDiscover ==
  \/ SetSimple \/ SetLanguage \/ CopyPersonality \/ SetPersonality
  \/ SetResetDevice \/ ResetUnmutes \/ Discovery

Respond == Refuse \/ Get \/ SetOrDiscover \/ Send

Committing == Commit \/ Write

AppNext ==
  \/ \E s \in Settings : AppSet(s[1], s[2])
  \/ \E s \in Settings : s[1] = "DMX_PERSONALITY" /\ AppCopyPersonality(s[2])
  \/ AppSetPersonality \/ AppPush

Next ==
  \/ \E req \in Requests : Receive(req) \/ Abort(req)
  \/ Respond \/ TimedOut \/ Committing \/ AppNext \/ ReadNull \/ Restart

Spec == Init /\ [][Next]_vars

\* The responder's task runs when it can.
FairSpec == Spec /\ WF_vars(Respond \/ Committing)

-----------------------------------------------------------------------------
(* Properties *)

\* The task's steps, the queue and the tables keep to their ranges.
TypeOK ==
  /\ bus.at \in {"receive", "respond", "popped", "personality", "unmute", "send",
                 "commit", "write"}
  /\ app.at \in {"idle", "personality", "push"}
  /\ \A i \in DOMAIN waiting : waiting[i] \in NonVolatile
  /\ DOMAIN nvs \subseteq NonVolatile
  /\ staged \in 0..Len(device.table)
  /\ unsaved \subseteq NonVolatile /\ lost \subseteq unsaved
  /\ bus.pid \in NonVolatile => Exists(device, bus.pid)
  /\ bootLoader \in BOOLEAN /\ restarts \in 0..MaxRestarts
  /\ changes \in 0..MaxChanges

\* The counter by which a commit knows whether to look at the table is the
\* number of parameters that are staged (parameter.c:157, 172, 188), whoever
\* sets parameters between the steps of a commit.
StagedCounts == staged = Cardinality(StagedAt(device))

IsStaged(p) == device.table[Entry(device, p)].type = "STAGED"
IsWritten(p) == bus.at = "write" /\ bus.pid = p

\* A parameter whose value is not stored is staged or is being written, unless
\* the write failed: one set while it is written is staged again
\* (parameter.c:154-160, 187-199).
NothingForgotten == \A p \in unsaved : IsStaged(p) \/ IsWritten(p) \/ p \in lost

Kept == {"DMX_START_ADDRESS", "DMX_PERSONALITY", "DEVICE_HOURS", "LAMP_HOURS"}

Sets(p) ==
  LET asked == {s[2] : s \in {t \in Settings : ParamOf(t[1]) = p}}
               \cup {r.data : r \in {t \in Requests : t.pid = p /\ t.cc = "SET" /\ t.data # NoData}}
  IN IF p = "DMX_PERSONALITY"
     THEN UNION {{<<n, Len(f)>> : n \in 1..Len(f)} : f \in Firmwares}
     ELSE asked

IsUsable(p, v, f) == p \in Kept /\ (p = "DMX_PERSONALITY" => v[2] = Len(f))

StartsFrom(p, f) ==
  CASE p = "DMX_PERSONALITY" -> <<1, Len(f)>>
    [] p = "DMX_START_ADDRESS" -> 1
    [] p = "DEVICE_LABEL" -> ""
    [] OTHER -> 0

\* What a request without data carries is no value of a parameter.
ASSUME NoDataAssumption ==
  \A p \in NonVolatile : /\ NoData \notin Sets(p)
                         /\ \A f \in Firmwares : StartsFrom(p, f) # NoData

Store == INSTANCE ParameterStore
  WITH Params <- NonVolatile, Values <- Sets, Usable <- IsUsable, Default <- StartsFrom,
       value <- [p \in NonVolatile |-> device.memory[p]], stored <- nvs

\* The table, the staging and the installation are a store of parameters: what
\* is stored is what was set last, and a restart at any step finds it.
StoresParameters == Store!Spec

\* The controller knows the value of a parameter, or will be told: the PID
\* waits in the queue or is about to be pushed, unless an answer about it was
\* lost or is on its way (dmx_setup.c:300-304, queue_status.c:46-66).
ControllerLearns ==
  \A p \in NonVolatile :
    \/ seen[p] = device.memory[p]
    \/ Waits(p) \/ p \in missed
    \/ app.at = "push" /\ app.pid = p
    \/ bus.at \in {"popped", "send", "unmute"} /\ p \in {bus.pid, bus.req.pid}

\* Whatever firmware a restart finds, the current personality is one it has
\* (dmx_setup.c:112-119).
PersonalityInRange == CurrentPersonality(device) \in 1..PersonalityCount(device)
                      /\ PersonalityCount(device) = Len(Value(device, "DMX_PERSONALITY_DESCRIPTION"))

\* The bus is quiet for as long as a receive waits, again and again while
\* something is staged: nothing in the code sees to it (io.c:253).
FallsQuiet == []<>(staged > 0) => []<><<TimedOut>>_vars

\* Once nothing is set any more, every value that was set is stored in the end,
\* or its write failed, if the bus falls quiet.  Each timeout commits one
\* parameter, the first that is staged: while parameters before it are set again
\* and again, it waits (parameter.c:180-196).
SavedInTheEnd == FallsQuiet => <>[](unsaved \subseteq lost)
=============================================================================
