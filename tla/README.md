# BedroomLights: TLA+ models, checks and proofs

The repository is the firmware of an ESP32 that reads a wall switch, drives LED bars
over DMX512 through the vendored library `esp_dmx` 4.1.0, and polls LIFX bulbs over
Wi-Fi. `esp_dmx` is most of the program: a driver with two interrupt handlers, and
RDM (remote device management) as controller and as responder on top of it. This
directory holds the models (`*.tla`), their TLC configurations (`*.cfg`), the TLAPS
proofs (`*Proofs.tla`) and an index of all of it (`PROJECT.json`: components, runs,
properties, the source lines every definition stands for, hazards, findings and
theorems). Below, `E/` is `src/components/esp_dmx-4.1.0/src/`.

    tlc -workers 2 -config DmxDriver_send.cfg MCDmxDriver.tla
    tlapm DmxDriverProofs.tla

## Inventory

| Component | State it keeps | Operations | Hard behaviour | Correct when |
|---|---|---|---|---|
| DMX driver (`E/dmx/io.c`, `hal/uart.c`, `hal/timer.c`) | `dmx_driver_t`: mutex, waiting task, status, progress, head, size, buffer, roles; UART, timer, RTS | `dmx_write`, `dmx_send_num`, `dmx_receive_num`, `dmx_wait_sent`, two ISRs | tasks and ISRs interleave between critical sections; one notification per event; timeouts; a FIFO smaller than a packet | frames leave whole, mutex balanced, no lost or left-over notification, calls return |
| Driver life cycle (`E/dmx/driver.c`) | installed, enabled, timing | install, delete, enable, disable, setters | registration order, disabling in a packet, several tasks at once | no packet is made of parts of two; a driver that was enabled is enabled again |
| Switch to lights (`src/main/app.c`, `switch.c`, `dmx.c`, `main.c`) | due times, switch levels, frame | passes of the super loop | tick wrap, waits that time out | the lights come to show the switch |
| Wi-Fi station (`src/main/wifi.c`) | retries, event bits, last known state | event handler, `wifi_loop` | bits lose the order of events | a lasting state is reported |
| LIFX client (`src/main/lifx.c`, `udp.c`, `esp_lifx.c`) | state machine, clocks, socket | `lifx_loop`, event callback | late, lost, duplicate answers | requests are spaced and never end |
| RDM discovery (`E/rdm/controller/discovery.c`, `E/rdm/responder/discovery.c`) | stack of branches, mute flags | discover, mute, un-mute | collisions, losses, the mutex around the callback | every device is found once |
| RDM message queue (`E/rdm/responder/queue_status.c`) | ring of PIDs | push, pop, size, GET QUEUED_MESSAGE | search over a ring that wraps, size then pop | a queue of distinct PIDs |
| Parameters and NVS (`E/dmx/parameter.c`, `device.c`, `service.c`, `hal/nvs.c`) | table of parameters, storage types, flash | add, set, commit, rotate | restarts, failed writes, values set while they are written, the driver disabled around flash | what was set is stored in the end, and found after a restart |
| RDM controller (`E/rdm/controller/utils.c` and requests) | the request in flight | `rdm_send_request` | early returns, lost and late answers, a buffer shared with DMX | an answer belongs to its request; the request is gone afterwards; calls get through |
| RDM responder (`E/rdm/responder.c`, `responder/utils.c`, handlers) | the request in the buffer, callbacks | `rdm_send_response`, handlers | the mutex on its ways out, the application setting what a request sets | the controller learns of every change; values stay in range |
| RDM packets (`E/rdm/driver.c`) | none | parse and format | lengths, checksums, format strings | what is written is read back |
| Sniffer (`E/dmx/sniffer.c`, `hal/gpio.c`) | double buffer of metadata | edge ISR, get | buffer read while written, two handlers set progress | metadata of one packet |
| Sensors (`E/rdm/responder/sensor_parameter.c`) | values, lowest, highest, recorded | set, record | numbering, first value | lowest <= present <= highest |

They interact like this. `app_main` calls the loops of the switch, the lights, Wi-Fi
and LIFX in turn (shared state in `state_t`). The lights write and send through the
driver, whose calls and ISRs share `dmx_driver_t` under a spinlock and a recursive
mutex, and wake each other by task notification. The RDM controller and responder
call the driver's calls while they hold its mutex. The responder's handlers read
parameters and pop the queue that application tasks push to. The parameters are
committed to NVS. The Wi-Fi event task shares an event group with `wifi_loop`.

## Modules

| Module | Models |
|---|---|
| `DmxDriver` | the driver's calls, both ISRs, the UART transmitter and the bus |
| `DmxLine` | abstract: what a transmitter does to the bus, packet after packet |
| `DmxDriverProofs` | types and mutex of `DmxDriver` |
| `DmxBusProofs` | `DmxDriver`'s bus, waiting tasks and frames, and that it implements `DmxLine` |
| `BedroomLights` | `app_main`'s loop from switch to lights, over an abstract bus |
| `WifiStation` | `wifi.c`: event handler, event group, `wifi_loop` |
| `LifxClient` | `lifx.c`, composed with `WifiStation` |
| `LifxClientProofs` | types and spacing of the requests |
| `RdmDiscovery` | the controller's search against the responders' handlers |
| `RdmDiscoveryProofs` | types, order of the search, depth of its stack, that it finds every device, mutex |
| `RdmQueue` | the ring and the handler that pops it |
| `RdmQueueProofs` | that a pop succeeds, and that the ring implements `MessageQueue` |
| `MessageQueue` | abstract: the queue that the ring implements |
| `ParameterTable` | the table of parameters: adding, staging, loading, the registration of each parameter and the order of `dmx_driver_install` |
| `RdmResponder` | the responder task, requests of every kind, commits, the application's setters and restarts; composes `ParameterTable` |
| `ParameterStore` | abstract: what a device promises of its non-volatile parameters |
| `RdmResponderProofs` | the table and `dmx_driver_install`, staging, the queue of changes, and that the responder implements `ParameterStore` |
| `RdmExchange` | controller and responder, request and answer over a faulty bus |
| `RdmExchangeProofs` | who is inside, what a call leaves in the buffer, whose answer it returns |
| `DmxLifeCycle` | install, delete, enable, disable, access to flash and the sniffer, while packets come in |
| `DmxLifeCycleProofs` | a driver that is enabled again, whole packets, pairs of the sniffer |
| `MC*` | instances for TLC |

### DmxDriver

The variables are the fields of `dmx_driver_t` that control depends on, the hardware
(`timer`, `rts`, `inverted`, `fifo`, `tx_intr`, `tx_done`) and a program counter,
caller and locals for each task. Each label is a point where a task is outside a
critical section and another task or an interrupt may run; the action of a label is
everything up to the next such point. `dmx_wait_sent` has its own labels and
remembers its caller, since `dmx_send_num` and `dmx_receive_num` call it. `TimerIsr`
and `RxIsr`, `TxData`, `TxDone` are one pass of the handlers' loops. `wire`
remembers the slots of the packet that are on the bus.

Abstractions:

- Interrupt handlers run on the core of the tasks and do not nest:
  `dmx_driver_install` registers both on the core it is called on. A handler pass is
  one step; a task may be interrupted between any two of its steps.
- Nothing is received while the transceiver drives the bus (RTS is 0).
- The buffer is the kind of packet that `rdm_read_header` finds in it. The kinds
  differ in the branches that `io.c` and `uart.c` take: DMX, a request to one
  device, a broadcast, a discovery request, a response, a discovery response.
- Durations are not measured. `Elapsed` says whether the time since the last packet
  is still too short to send, due, or beyond the response time. An armed alarm may
  fire at any moment.
- Merged steps: reading header and role in `dmx_send_num`; turning the bus, setting
  the size and recording the request (`SendTurn`: nothing else touches them while
  the mutex is held and no packet is sent); clearing the waiting task and giving the
  mutex back.
- `LateIsr` FALSE: the FIFO's interrupt comes before the FIFO is empty. The
  library's README (862-883) has the handlers in IRAM for this. With TRUE, TX_DONE
  can be raised before the last slot is written and `SentEntirely` fails.
- `SlowTakes` FALSE: ticks do not run out between a successful take of the mutex and
  the reading of the clock after it.
- `Prompt`: a woken task runs before the next interrupt. It holds for a task of high
  priority; the send run does not assume it.
- `Sizes` are what callers ask to send or receive. `dmx_send_num` raises and cuts
  them to the buffer, `dmx_receive_num` takes them as they are (`io.c:165`): 0 and
  sizes beyond the buffer are among them.
- `overtaken` is a history variable: the tasks that are between check and copy of
  `dmx_write` while an RDM packet is begun.

### The other models

`BedroomLights`: an action per part of the loop; the ticks pass in `Delay`
(`vTaskDelay`) and in the wait of `dmx_send_num`, and wrap at `TickCount`. The tick
is 10 ms, so the 23 ms wait of `dmx_send_num` is 2 ticks: a packet may outlast it.
The slots that the footprints use fit the FIFO, so a frame is taken from the buffer
at one moment, when the break is over; a write during the break shows up.

`WifiStation`: the event task and `wifi_loop` each take one step; setting the bits
and assigning them is one step, since only the loop reads them. `wifi_loop` looks
when the clock has passed `next_update` and arms it again; any number of events may
be handled before. `next_update` is "last" when it lies on one of the last ticks
before the counter wraps: `now > next_update` then holds for a few ticks of a round,
which the loop may miss every time, or for none (`wifi.c:95`). `seen` is a history
variable, the bits of the last look that found any. `LifxClient` keeps ages since the
last send and the last wait rather than ticks, and assumes that the client was
created.

`RdmDiscovery`: a request with its answer is one step, since `rdm_send_request`
holds the mutex. Which devices hear it and whether an answer arrives is free, up to
`LossMax` losses per request. UIDs are numbers with the manufacturer on top. Devices
come and go between discoveries; the un-mute is sent once, so a device that misses
it stays muted (`deaf`) and is rightly left out of `AllFound`. The mutex is free
around each callback, and may be another task's at the start; a packet that is begun
then (`busy`) may still be on the bus when the wait of a request ends, and the
request is not sent (`E/rdm/controller/utils.c:35-38`). Then `ack` is that of the
request before, or uninitialised at the start, and the discovery goes on with it.
`misled` remembers what came of that: a mute taken for acknowledged ("repeated"), or
one attempt too many that came to nothing ("given_up"). Left out: the mute record
handed to the callback (`E/rdm/controller/discovery.c:39` passes the address of a
local pointer, so it is never filled) and answers that come during the next request,
which are in `RdmExchange`.

`RdmQueue`: a critical section is a step. A push whose PID is found or that finds no
room changes nothing and is a stuttering step. A poll without a type of status, or
with one out of range, is refused before the queue is looked at (`Refuse`); reading
the type is taken to succeed here, see `ReadNull` below. The refinement reads the abstract
queue off the ring between tail and head. Known and not stated as a property: a push
that meets its PID in a stale cell while head is 0 reports success though it is not
queued; the ring holds one PID less than `max_count` (`queue_status.h:27-28`);
GET_LAST_MESSAGE does not look at `previous`; a second popper would break the look
before the take; and since a push at head 0 with PIDs waiting finds its PID or never
ends, the ring never holds PIDs on both sides of its end.

`RdmResponder`: the device is a table of parameters as `dmx_parameter_add` builds
it: registration, `Stages`, `Loaded`, `FirstStaged` are functions of a table in
`ParameterTable`, and `Installed` folds the registrations of `dmx_driver_install` in
their order. The state is the table (`device`), NVS, the counter `staged`, the
message queue (a sequence: that the ring is one is shown by `queue`), the
boot-loader flag, the two tasks `bus` and `app`, and what the controller has `seen`
or `missed`. Each access to the driver's spinlock is a step, so copying a
personality and setting it are two. A request picks one of `Refuse`, a handler, or a
broadcast, by the conditions of `rdm_send_response` in their order. A restart may
happen between any two steps and finds one of `Firmwares`. Values are numbers or
labels; what is only read (labels, counters of hours that nothing increments) keeps
one value. Answers are abstracted to the parameter they tell of. `Abort` is the
assertion of `service.c:88`: it stops the device, and the request to all sub-devices
meets it before `responder.c:60` is reached. A poll for queued messages that has data
reads its type of status through a format that is NULL (`queue_status.c:37, 91`;
`E/rdm/driver.c:24`), which is undefined: the device restarts (`ReadNull`), as an
ESP32 does on a read of address 0, or goes on with a type of status in its range or
out of it (`QueuedMessage`). One without data is refused.

`ParameterStore` promises that a value stays until it is set again, that what is
stored was current when it was stored, and that a restart starts from what is stored
if that firmware can use it. The refinement maps `value` to the memory of the table
and `stored` to NVS.

`RdmExchange`: a task of the controller goes through `rdm_send_request` label by
label; sending, waiting and reading are the critical sections of the calls below.
The buffer is three parts (start codes, the rest of the request, and beyond), since
a request, its answer and the DMX packet they overwrite differ in their lengths. The
bus loses, garbles or cuts off a packet (`FaultMax` faults); the responder may be
late. `PortType`: a request has the number of the port where an answer has its
response type (`rdm_header_t`), so a request that is still in the buffer is read as
an answer of that type. `Preempted` FALSE: a responder that has begun to answer is
not overtaken by the next request.

`DmxLifeCycle`: a packet is a break, a mark after break and slots, with an edge at
each change; the UART receiver, its interrupts and the edge interrupt are separate,
and `rx` says whether the receiver's are enabled. Each of `dmx_driver_disable` and
`dmx_driver_enable` is a check and a critical section. `dmx_nvs_get` and
`dmx_nvs_set` are `Look`, the two, accesses to flash (`Frozen`: no other code and no
handler runs meanwhile, the line goes on), and the two again; `dmx_driver_install`
reads parameters this way before it initialises the UART (`Powered`). Slots are
pairs of packet and number, so a torn packet shows. `overlap` remembers an access to
flash with interrupts on: the driver was sending when it was to be disabled, another
task enabled it, or installed it, or an install turned on the receiver of a driver
that an access had disabled. `crossed` remembers that a driver which an access saw
disabled, or not there, was enabled or installed before that access came to disable
it, and `disturbed` that the
sniffer missed an edge, or timed one while its handler was held up. Assumptions:
handlers run before the line moves on, unless flash is accessed; the name space of
the parameters exists (`nvs_open` makes it in flash for the first write of a device,
before the driver is looked at, `nvs.c:110`: the model with that access as well has
more states than a run can visit); nobody sends while this port does; a port is not
deleted while another task is in a call that uses it; and a packet does not begin
before the last one is marked as read (`SlowTasks` FALSE).

## Runs

| Run | Instance | Shows |
|---|---|---|
| `send` | 2 tasks; write, send, wait; DMX, request, discovery response; FIFO of 2, packets of 1 to 3 slots, sizes of 0 to 4 asked for | refinement of `DmxLine`, mutex balanced, no wait ends early, every packet ends, every call returns, RDM overwritten only by a task that was overtaken |
| `receive` | 2 tasks, all calls, a discovery request written, DMX and a request received, sizes of 0, 2 and 4 for a buffer of 3, errors, breaks at any moment | bus direction; what is sent fits the buffer |
| `timeouts` | 2 tasks, every wait may time out, late calls to receive, late ISRs, one leaked take | mutual exclusion survives; every wait that ends was registered to its end, and takes the registration with it but at `io.c:226` |
| `lights` | 16 ticks, periods 3 and 5, waits of 0 or 1, delays of 1 or 2 | refreshed for ever; the switch is followed away from its level at power-up |
| `lifx` | 5 retries, 2 events, 2 packets in the socket | spacing, progress, the station's lasting state |
| `discovery` | 7 UIDs, 3 possible devices, any subset, 2 losses, requests that are not sent | all found once, in order, within the stack, unless an acknowledgment was another request's; it ends |
| `queue` | 4 cells, 5 PIDs, polls that are refused | implements `MessageQueue`; delivery |
| `queue_hang` | 3 cells, 3 PIDs | **violation** `PushEnds`: the search never meets head 0 (`queue_status.c:119`) |
| `responder` | 16 requests of every kind, 3 settings, 2 firmwares, 1 restart, failing writes | implements `ParameterStore`; nothing staged is forgotten; the controller learns of changes; the personality is one the firmware has; all is stored in the end if the bus falls quiet |
| `exchange` | 2 tasks, requests of several kinds, 2 faults or delays | answers match requests, requests leave the buffer, every call returns |
| `lifecycle` | 2 tasks, 2 calls, 2 packets of 2 slots, FIFO of 3, sniffer on and off | packets are whole; an enabled driver is enabled again; the sniffer's pair is of one packet |
| `nvs_disabled` | 2 tasks, 2 calls, 1 packet | **violation** `NeverLeftDisabled`: an access that saw no driver disables one that another task is installing (`nvs.c:51-53`) |

Bounds. A FIFO of two slots under packets of three makes the FIFO run full, be
refilled in part and run empty; longer packets repeat the refill. Two tasks are what
a race for the mutex and for the notification takes. `HeadMax` bounds slots received
without a break one beyond a packet, where the code stops storing them. An interrupt
reads up to `FifoLen` slots. `WireMax` bounds the history. `DepthMax` bounds leaked
takes of the mutex. Sixteen ticks make both due times meet every residue at the
wrap, since 3 and 5 have no factor in common with 16. Seven UIDs are a tree of depth
3 with uneven halves; 2, 4 and 5 include neighbours in one branch, a device next to
its manufacturer's broadcast address, and two manufacturers (with 6 as well the run
takes longer than five minutes; the theorems are about any UIDs). Four cells let
head and tail wrap with PIDs left behind; five PIDs are more than fit. A queue of
one message (`QueueSize` 2) is full at once. Two changes and one restart let a
parameter be set again while it is written, and power fail between staging, commit
and write; the second firmware has fewer personalities than the first, so that what
is stored does not fit it. Three transaction numbers and two faults let an answer
come during the request after its own. Two calls at a time are what the race for the
driver takes; with the driver not installed at the start, or installed, they cover
install against access. Two packets show a mixture of two.

Fairness. Interrupts that stay raised are served and the UART shifts out what it
holds (weak fairness). A task in a call is scheduled, and FreeRTOS hands a mutex to
waiting tasks by priority and then in turn: strong fairness for the take in
`dmx_wait_sent`, assuming equal priorities. The super loop, the Wi-Fi event task and
an attempt to connect go on. A discovery gets the mutex if other tasks keep giving
it back. The responder's task goes on. In `RdmExchange` the tasks go on, a packet on
the bus arrives or vanishes, and a task that waits for the mutex gets it. What no
scheduler sees to is a condition of the property instead: `Delivered` holds if the
controller polls again and again while something waits (`Polls`), and
`SavedInTheEnd` if receives time out again and again while something is staged
(`FallsQuiet`): on a bus that is never quiet nothing is committed (`io.c:253`).
`UpKnown`, `DownKnown` and `KeepsAsking` name the poll that is never due again
(`Frozen`) as an exception, and `DownKnown` a look that found both bits.

Run without deadlock check: `receive` (a task that waits for a packet without limit
waits for ever once another task's `dmx_write` has turned the bus), and those whose
calls come to an end.

### Deviations shown by a configuration that is not a listed run

Each of these files makes TLC report the property violated.

| File, module | Property | Why |
|---|---|---|
| `DmxDriver_overwrite.cfg`, `MCDmxDriver` | `NoWriteWhileSendingRdm` | check and copy of `dmx_write` are two critical sections (`io.c:93`), though `io.c:82` says "Do not allow asynchronous writes while sending RDM": a task that looked before the packet was begun writes over it, the exception in `RdmNotOverwritten` |
| `DmxDriver_missed.cfg`, `MCDmxDriver` | `NoMissedPacket` | look and registration of `dmx_receive_num` are two critical sections (`io.c:199`): the call blocks though the packet is there |
| `RdmDiscovery_unsent.cfg`, `MCRdmDiscovery` | `ReportedOnce` | after a request that was not sent the acknowledgment is that of the request before (`E/rdm/controller/utils.c:35`): if another task sends during the callback, the mute after it is not sent, and the device that was just reported is reported again in place of the next |
| `BedroomLights_back.cfg`, `MCBedroomLights` | `ChangeBackShown` | `prev_switch_state` is never updated (`src/main/app.c:54`), so a change back to the level at power-up is not shown |
| `BedroomLights_wrap.cfg`, `MCBedroomLights` | `SwitchKnown` | a due time on the last tick is never passed (`src/main/switch.c:22`) |
| `RdmExchange_restore.cfg`, `MCRdmExchange` | `DataRestored` | only as many slots as the request had are written back (`E/rdm/controller/utils.c:165`); what a longer answer stored beyond them is sent with the next DMX packet |

### Deviations shown by a constant

- `Timeouts` TRUE: `WaitSentIsDone`. A wait that timed out leaves a notification
  behind, and the next `dmx_wait_sent` returns true in the middle of a packet
  (`E/dmx/io.c:497`; `E/dmx/include/driver.h:351`).
- `Timeouts` TRUE: `AlarmNotifies`. After that, `dmx_send_num` arms the alarm during
  the break and the timer ISR spends it on the mark after break (`io.c:373`).
- `Elapsed` with `"late"` in the run `receive`: `BusDriven`. The early return for an
  overdue response leaves the task registered (`io.c:226`, the exception that
  `RegistrationEnds` names); a later interrupt notifies it, the notification ends its
  next `dmx_wait_sent` in the middle of another task's packet, and
  `dmx_receive_num` turns the bus around.
- `SlowTakes` TRUE: `MutexBalanced`. The early returns at `io.c:129` and `io.c:480`
  keep the mutex.
- `Preempted` TRUE: `AnswersMatch`. A responder that is overtaken by the next
  request answers the one before, and nothing in the answer is compared.
- `RxKinds` not empty and `"dub_response"` in `Kinds`: `FrameIntact`, and with it
  `SentEntirely`. A task that waits for its alarm in `dmx_send_num` is woken by a
  break on the bus (`hal/uart.c:87`) and sends, but the alarm stays armed
  (`io.c:373`) and nothing stops it, since a discovery response has no break
  (`io.c:429-440`): the timer's handler writes the response into the FIFO again.
- `SlowTasks` TRUE breaks no property, since `SniffedTogether` makes the exception
  for it: a task that marks a packet as read (`io.c:266`) when the next break has
  begun makes the handler drop that packet and the sniffer miss its pair.

`AlarmNotifies` of `DmxDriver` (without `Timeouts`) holds in the runs above as well.
So do `NoStaleNotification` and `FrameIntact`, which are proved.

### Deviations read in the source

Found while modelling, in code whose effect is undefined or which the models name in
a comment only.

- NVS. A commit follows a timeout of `dmx_receive` only (`io.c:246-255`): a busy bus
  never commits, though the library's README (750) says that values are copied to
  storage when they are set; and one parameter at a time, the first of the table
  first. A value whose write fails is lost (`parameter.c:187-199`).
- Responder. `minimum` and `maximum` of a definition are not enforced on SET; a SET
  without data is acknowledged; `rdm_set_language` writes DEVICE_LABEL and checks
  its length the wrong way round; a full message queue drops PIDs; GET_LAST_MESSAGE
  does not repeat the last message; DEVICE_LABEL and LANGUAGE are stored but not
  loaded; a request to all sub-devices stops at an assertion (`service.c:88`) before
  it would be refused (`responder.c:60`); the table is read one past its end when it
  is full (`parameter.c:56`); `rdm_send_response` gives its mutex back on one way
  out only (`responder.c:18`).
- Controller. `rdm_read_pd` is called only if there is nowhere to put the data
  (`controller/utils.c:133`); an answer that is cut off leaves the request in the
  buffer, which is read as the answer.
- Message queue. A GET of QUEUED_MESSAGE that has the type of status it needs reads
  it through a NULL format (`queue_status.c:37, 91`; `E/rdm/driver.c:24`), and one
  without is refused, so no message can be fetched in a defined way, though the
  library's README (950) lists the parameter.
- `dmx_receive_num` stores the size it is given without a check (`io.c:165`), where
  the next sender finds it; `dmx_send_num` checks again before it uses it.
- Life cycle. The result of `dmx_driver_disable` is ignored, and it refuses while
  the driver sends, so flash is accessed with interrupts on (`overlap`). An access
  that found the driver enabled undoes a `dmx_driver_disable` of the application. A
  task that uses a port while another deletes it uses freed memory (`driver.c:298`);
  `dmx_uart_deinit` and `dmx_timer_deinit` never free the UART's interrupt, so after
  a second install the old handler still has the freed driver; `dmx_driver_install`
  gives back a mutex it did not take, and publishes the driver before its fields are
  set (`driver.c:117`). Since it is published enabled and with its receiver off, an
  access of another task may disable it before `dmx_uart_init` turns the receiver's
  interrupts on: they are on during that access, and a packet is torn (the proof of
  `WholePackets` failed at this step). `dmx_sniffer_enable` on a port not installed
  dereferences null (`sniffer.c:16`). Its metadata is uninitialised until the first
  packet.

## Proofs

Every safety invariant and action property that a passing run checks, and the three
refinements, is also a theorem, for every value of the constants that satisfies the
assumptions of its module and the hypotheses below. Each rests on an inductive
invariant; the modules have one lemma per action, or per kind of effect where many
actions have the same one. A theorem has a hypothesis where the property fails, or
was not proved, without it; the constants known to break one are in "Deviations
shown by a constant".

### The driver (`DmxDriverProofs`, `DmxBusProofs`; `DriverAssumption`)

- `TypeCorrect`: `TypeOK` is inductive as it stands.
- `MutexIsHeld`: `Spec => []MutexHeld`. The invariant `MutexInv` adds `Control`
  (which label goes with which caller) and `Counted` (a mutex with no owner has
  depth 0). A step of a task has an `Effect`: it keeps, takes or gives the mutex and
  its own `Held` count alike, or leaks a take, and leaves the counts of other tasks
  alone. A take needs a mutex that is free or its own, so no other task is inside.
- `MutexIsBalanced`: with `~SlowTakes`, along the same effects with equality.
- `WaitsAreRegistered`: `Spec => RegistrationEnds`, for any constants, also where
  ticks run out, the mutex is leaked and calls begin too late: a task between
  registering and the end of its wait is the waiting one.
- `BusIsDriven`, `WaitSentTells`, `NotificationsAreFresh` and
  `SizeStaysInBuffer`, under `Timely`: no wait runs out of ticks, and either nothing
  is received (`Silent`) or a woken task runs before the next interrupt and no call to
  receive begins too late for its response. The invariant is `BusInv`: a task is the waiting
  one exactly at the labels between registering and clearing, it has a notification
  only while it waits, and from certain labels on it knows that no packet is sent
  (`Knowing`); while one is sent RTS is 0; with nothing received, an armed alarm is
  that of a break or of a task waiting for it. That last part is what fails once a
  break can wake the task.
- `RdmIsNotOverwritten`, under `Timely`, for any number of tasks: whoever writes over
  an RDM packet looked before it was begun.
- `PacketsAreSentEntirely`, `BusIsLine` (the refinement of `DmxLine`) and
  `FramesAreIntact`, under `Framing`: `Timely`, no late interrupt, a history long
  enough for a packet, and no discovery response where anything is received. The
  invariant `FrameInv` says that the slots on the wire and then those in the FIFO are
  consecutive from 0 up to `head`, and what each set of transmit interrupts tells of
  `head`, FIFO and timer. The refinement then goes action by action: turning the bus
  takes the packet, the alarm begins the slots, `TX_DONE` ends it; all else stutters.

`SizeStaysInBuffer` holds for any sizes that callers ask for, also 0 and beyond the
buffer: the sender cuts what it finds.

The runs `send` and `receive` satisfy the hypotheses of the theorems about the
properties they check.

### Discovery (`RdmDiscoveryProofs`; `DiscoveryAssumption`)

- `TypeCorrect`, and `MutexIsReturned`.
- `SearchAscends`, where no acknowledgment of one mute was taken for another that was
  not sent: the invariant `Order` says that the branches on the stack are
  disjoint and descend towards the top, that the branch in hand lies below all of
  them, and that what was found lies below that.
- `StackIsLargeEnough`: `Spec => []StackFits`, for a function `Span` with
  `Halving(Span)`: `Span[1]` is the width of the whole UID space, each entry at most
  halves the one before, and the last is 1. The invariant `Fits` says that the
  branch in cell `i` of the stack is no wider than `Span[i]`, so the branch that
  would be split in the last cell is a single UID. For UIDs of 48 bits, `Span[i]` is
  `2^(49 - i)`: the 49 branches of `stack[49]` (`discovery.c:66`) are enough, as the
  comment at `discovery.c:63` says.
- `EveryDeviceIsFound`: with `LossMax <= 2`, `Spec => []AllFound`, which excepts a
  discovery that was `misled` by requests that were not sent. A request is tried
  three times; with three losses a branch with a device in it passes for empty. The
  invariant `Complete`: every device that heard the un-mute is reported or lies in a
  branch that is left, and the muted ones are those reported and the one in hand. A
  single UID is muted without a look, so the search may mute the broadcast UID of a
  manufacturer, and with it all his devices; `MakerBelow` shows that they lie below
  it, so they were reported before.

### Queue (`RdmQueueProofs`; `QueueAssumption`)

- `PopFindsPid` and `RingIsQueue`, for a ring of any size. The invariant `QueueInv`:
  a head below the tail is 0 (`OneSide`), the cells between tail and head hold PIDs,
  and a handler that saw a message still has one. The refinement needs what the
  abstract queue is after a push (`Append`) and a pop (`Tail`) with and without wrap.

### Responder and parameters (`RdmResponderProofs`; `ResponderAssumption`,
`NoDataAssumption`)

- `TypeCorrect`, `StagingIsCounted`, `NothingIsForgotten`, `PersonalityIsKnown`. The
  invariant `SafeInv`: the device is a table in which every parameter the handlers
  use has one entry with its own cell (`WellFormed`), the values are possible ones,
  the firmware's personalities bound the personality; the counter is the number of
  staged entries; NVS holds possible values; what a task copied before it lost the
  spinlock still holds. For a restart, `InstalledBuilt` goes through the
  19 registrations of `dmx_driver_install` one after another: each leaves the
  entries before it alone and starts its parameter from NVS or its default.
- `ResponderIsStore`: `Spec => StoresParameters`. Each step sets one parameter, stores
  one, restarts, or is a stutter of the store (staging, answers, a failed write).
- `ControllerIsTold`: `Spec => []ControllerLearns`. The invariant `LearnInv` adds
  that whatever the controller does not know is announced in the queue or told by
  the answer in hand, and that an answer in hand is of the present value or followed
  by a message. It needs both parts: the application may set a parameter between the
  handler's copy and the answer. A poll that is refused takes nothing out of the queue
  (`PollCases`).

`ResponderAssumption` says that every firmware has at least one personality and
registers the parameters that handlers look up, as `dmx_driver_install` does in this
repository; `NoDataAssumption` that the model's mark for "no data" is not a value.

### Exchange (`RdmExchangeProofs`; `ExchangeAssumption`, `PacketAssumption`)

- `TypeCorrect`, `RequestIsRemoved`. The invariant `SafeInv`: the owner of the mutex
  is the one task inside; with no owner, or before the request is written, the buffer
  has no request in it, and from then on the copy that will be written back has none
  (`Borrowed`).
- `AnswersAreOwn`: with `~Preempted`, `Spec => []AnswersMatch` for any number of
  faults. The invariant `MatchInv`: while a task listens, whatever the responder may
  still send in time belongs to that task's request (`RespondInv`), an ACK on the
  line as well (`AskInv`); everything else that can be in the buffer, its own request
  included, is not an ACK. A request's port number, one more than the
  port, is what an answer has as its response type; `ExchangeAssumption` keeps it
  at 1 to 3, the ESP32's three UARTs, none of which is ACK (0).

`PacketAssumption` says that requests have the fields of a request and that the
marks for a DMX frame, a garbled packet and a silent line are no packets.

### Client and life cycle (`LifxClientProofs`, `DmxLifeCycleProofs`)

- `BulbsNotFlooded`: the invariant `SpacingInv` says that the time since the last
  request is that since the last send, that a pause is not longer than it, and which
  states have had an answer.
- `DriverEnabledAgain`: the invariant `EnabledInv` adds that a task which saw the
  driver disabled does not come to disable it.
- `PacketsAreWhole`: without an `overlap`, flash is accessed with the interrupts off,
  the handler has read every slot but the last, and what is stored is the beginning
  of the packet on the line (`WholeInv`). Where the driver is enabled in the middle of
  a packet, nothing is stored until a break.
- `PairsOfOnePacket`: the invariant `SniffInv` follows break, mark after break and
  first slot through both handlers, and says which time each of them took last.

All three rest on `LifeInv`: types, the order of the line, what the labels of a task
say of it, and that a receiver that was never initialised does not interrupt.

### Only model-checked

Liveness under fairness, which is out of the prover's reach: `CallsReturn`,
`SendingEnds`, `KeepsSending`, `ChangeShown`, `KeepsAsking`, `UpKnown`, `DownKnown`,
`DiscoveryEnds`, `Delivered`, `SavedInTheEnd`, `CallsSucceed`. `BedroomLights` has no
other property; the types of `WifiStation` are proved as part of `LifxClient`'s. None
of the modules has a RECURSIVE operator: the registrations of `ParameterTable` are
folds, unrolled in the proof by one lemma per registration.

## Plan

1. Safety of `BedroomLights` that does not hang on fairness (a frame on the bus is
   one that was written since the last one), as an invariant of its runs and a
   theorem.
2. What the wake-up of `dmx_receive_num` promises of the slots it returns.
3. Sensors, the format strings of RDM parameters and the clamping setters, as
   operators checked against what the documents say.


## Not modelled

LIFX packet contents and logging; getters of constant data; the examples of the
library; pin assignment and the setters of baud rate, break and mark after break,
which clamp a value and store it; format strings of parameter data; sensors, a
sequential table nothing else reads; sub-devices, since no code can add one; the
failure paths of `dmx_driver_install` (no memory, no free timer); the part of
discovery that is compiled out (`discovery.c:120-150`). FreeRTOS, ESP-IDF and the
peripherals are external: semaphores, notifications, event groups, the transmitter
and interrupt lines behave as the code relies on them to.
