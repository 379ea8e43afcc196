# A TLA+ model of libusb_dev_cpp

libusb_dev_cpp is a USB device stack for a microcontroller (STM32H7, FreeRTOS). This
directory holds TLA+ models of its concurrent core, TLC instances of them, and TLAPS
proofs. Paths are relative to the repository; *otghs* and *otghs2* are the two drivers
`src/driver/stm32/stm32_h7xx_otghs.cpp` and `..._otghs2.cpp`.

## 1. The system

Three kinds of execution share the device: the **interrupt** (`poll()`, one pass per
interrupt), the **core thread** (`USB_core::wait_event_loop`), and the **application
tasks** that send and receive. There is one CPU core, so an interrupt preempts a task
between any two statements and is never preempted by one.

| Component | State | Operations | Talks to |
|---|---|---|---|
| Endpoint buffer manager `util/EP_buffer_mgr_freertos.hpp` | per endpoint: free pool, active buffer, queue | `*_allocate`, `release`, `set/get_buffer`, `*_enqueue`, `*_dequeue` | called by tasks, interrupt and core thread |
| OTG driver, IN endpoints | DIEPCTL, the endpoint's FIFO, XFRC | `wait_tx_buffer`, `enqueue_tx_buffer`, `ep_write`, `handle_iepintx` | manager, host |
| OTG driver, OUT endpoints | DOEPCTL, the receive FIFO shared by all, RXFLVL mask | `wait_rx_buffer`, `release_rx_buffer`, RXFLVL part of `poll()` | manager, host |
| OTG driver, endpoint 0 | `m_last_setup_packet`, both halves of endpoint 0 | `poll()`, `handle_oepintx`, `ep_write`, `ep_config` | manager, core (events), host |
| OTG driver, FIFO RAM | DIEPTXF registers | `enable`, `config_ep_tx_fifo`, `ep_unconfig` | core thread and interrupt |
| USB_core | event queue, `m_control_state`, setup packet, rx/tx control buffers, address, configuration | `handle_event`, `poll_event_loop`, `handle_ep0_setup/rx/tx`, `handle_reset`, `process_request` | driver, class, application callbacks |
| Standard requests `USB_core::handle_std_*` | `m_configuration`, `m_address`; the driver's endpoint activation, STALL and data toggle | one branch per request, `set_configuration` with its fallback to 0 | descriptor tables, driver, application callback |
| CDC class, DFU class | none: what the host sends is acknowledged and not kept | class requests, line coding, notifications | core |
| Descriptor tables `util/Descriptor_table.hpp`, `String_desc_table` | maps of descriptors | `set_*`, `get_*` | the application (no lock), GET_DESCRIPTOR |
| Descriptor and packet formats `descriptor/*`, `core/control_request.*`, `class/cdc/*` | none | `serialize`, `deserialize` | core, application |

What is hard in it:

* enqueue/release functions of the driver test and change the manager while the
  interrupt does the same (otghs2 masks the interrupt for that, otghs does not);
* a bus reset changes the hardware under buffers, events and a state machine that are
  not told about it;
* endpoint 0's packets reach the core thread as queued events, later than the hardware
  state they describe, and a new SETUP can overtake them;
* pools, queues and the event queue are finite, and several errors are only logged;
* FIFO RAM is laid out from registers the reset interrupt rewrites;
* SET_CONFIGURATION is a callback of many steps, which can fail half-way and which a bus
  reset can interrupt, while the host draws its own conclusions from the answer;
* the core keeps the configuration and the driver the halts and toggles, and the host
  keeps a copy of all of it.

What makes each component correct: no buffer is ever lost, duplicated or in two hands;
what is accepted is delivered once, in order; reception resumes after an underrun; each
control request is executed once, with its own data, and answered in full; host and
device agree on the address, the configuration, the halts and the data toggles; answers
are true; FIFOs do not share RAM; a format is read as it is written.

## 2. Modules

| Module | Models | State and actions |
|---|---|---|
| `EpBufferMgr` | the buffer manager class | `pool`, `active`, `queue`; one operator per method; `Conserved` |
| `FifoChannel` | *abstract*: a lossless FIFO per endpoint | `Send`, `Deliver` |
| `TxPath` | IN endpoints, tasks, interrupt, host | each statement of `enqueue_tx_buffer` that touches shared state is an action, `HandleIepint` is one |
| `RxPath` | OUT endpoints, likewise | each statement of `release_rx_buffer`; `PollRx` for one FIFO entry with data, `PollEmpty` for one without |
| `Ep0Driver` | endpoint 0 in both drivers, the event queue | `Poll` (`ServeAll` in otghs2, `ServeFirst` in otghs), `PollReset`, `PollSuspend`, `EpWrite`, `EpConfig`; `Push` for `handle_event`; the hardware's side of host transactions |
| `UsbCore` | event loop and control state machine | `HandleEvent` (all but `process_request`), `HandleIgnored`, `Respond` |
| `ControlTransfer` | *abstract*: what a control transfer promises | `Start`, `Execute`, `Complete`, `Drop` |
| `ControlPipe` | host + `Ep0Driver` + `UsbCore`, composed | host transactions, bus reset, suspend, abandonment |
| `ControlPipeInv` | no code: the hypothesis `OrdinaryUse` and the inductive invariant `PipeInv` of `ControlPipe` | `Coming`, `InFlight`, the phases `Announced` ... `Over`, `Beside` for the events the core ignores |
| `Descriptors` | descriptor tables, the walk of a GET_DESCRIPTOR over a configuration | `SetDescriptor`; `Key`, `ConfigLength`, `Descriptor` |
| `Device` | `process_request`, `set_configuration` and the application's callback, `m_tx_buffer`, endpoint activation, halt and toggle, the application's writes, a host with its own view | one action per group of requests, `ConfigureEndpoint` per step of the callback, `Write`, `BusReset`, `HostPacket` |
| `Codecs` | setup packets, descriptors, line coding, notifications as bytes | no state: `Serialize*`, `Deserialize*` |
| `TxFifoRam` | FIFO RAM layout | `ReadPreceding`, `WriteFifo`, `Refuse`, `BusReset` |
| `MC*` | TLC instances | values of the constants; `MCOrdinary`: those that meet `OrdinaryUse` |
| `EpBufferMgrProofs`, `TxPathProofs`, `TxFifoProofs`, `RxPathProofs`, `ControlPipeProofs`, `TxFifoRamProofs`, `DeviceProofs`, `CodecsProofs` | TLAPS proofs | |

`TxPath` and `RxPath` extend `EpBufferMgr` and implement `FifoChannel`; `UsbCore` extends
`Ep0Driver`, which extends `EpBufferMgr`; `ControlPipe` extends `UsbCore` and implements
`ControlTransfer` under the mapping `Phase` (by what the device has done for the host's
current transfer). `Device` extends `Descriptors` and stands on `ControlTransfer`: its
control transfers take exactly the steps of that abstract specification (`Transfer`, an
INSTANCE), which `ControlPipe` was shown to implement, so what a request does can be
modelled without the packets that carry it. `TxFifoProofs` extends `TxPathProofs`.

Granularity. The interrupt handler is one action: nothing runs while it does. A task's
call is one action per access to shared state. In the core thread an event is one action,
or two when it reaches `process_request`, because the interrupt can write
`m_last_setup_packet` and the endpoint in between. The event queue has two kinds of
entries: those the core acts on (`evq`) and those it only logs, CTRL_DATA_PHASE_DONE,
EARLY_SUSPEND and SUSPEND, which nothing distinguishes and which the model keeps as their
places among the others (`ignored`); they take room all the same. In `Device` the callback takes one step
per endpoint, because the reset interrupt unconfigures endpoints between them. `Otghs2`
selects the driver: the two differ in the interrupt mask, the RXFLVL mask and how much one
interrupt serves; otghs2 enables the OTEPSPR interrupt, otghs finds it when it serves
another one of the same endpoint.

Abstraction of data. A message is a task and a number; a control packet is a sequence of
units `<<transfer, place>>`, two to a full packet, so a lost, repeated, reordered or
foreign piece is visible. A request is a record: direction, wLength, length of the reply,
response (`INVALID` if its bmRequestType is none, which ends in no answer at all), the
address it sets, and whether `m_tx_buffer` is reset before it is filled. `Device` refines that record to type, recipient, bRequest,
wValue (two bytes), wIndex and wLength; there a descriptor is a name, of which one knows
after how many units each of its nodes ends, and a reply is the sequence of its units, sent
from `m_tx_buffer`: `tx` keeps what a reply that was cut or abandoned leaves there, as the
code does.
`Codecs` goes the other way, down to the bytes, and has no state.
Registers are reduced to the bits the code tests or the hardware acts on. Code outside
the repository (the host, the OTG core) is modelled from what the driver relies on:
actions `HostIn`, `HostOut`, `RaiseOther` and the host's half of `Ep0Driver` and
`ControlPipe`, marked external in `PROJECT.json`.

Behaviours the source does not settle are left open: `StaysArmed` (the driver never programs
DOEPTSIZ of data endpoints, so a packet may or may not end the transfer), the initial
`m_control_state`, which no constructor sets, and whether OTEPSPR comes when there was no
data stage (`StatusToken`). `m_setup_packet` and `m_last_setup_packet` start as zeros, as
in a static object (`NoSetup`).

## 3. Runs

| Run | Shows | Bounds |
|---|---|---|
| `tx_single_task` | otghs2, a task sending on two endpoints: a queued buffer always has an active one in front, an active one is loaded, an endpoint without one is disabled, and the host reads a lossless FIFO | 2 endpoints, 2 buffers, numbers mod 4 |
| `tx_task_per_ep` | otghs (no mask), two tasks, packets longer than the FIFO, reset, reconfiguration: buffers conserved and queues never refuse nevertheless | 1 reset, 1 `ep_config` |
| `rx_single_task` | otghs2, a task reading two endpoints: no null dereference, a NAK whenever there is no buffer, RXFLVL masked only in underrun, reception resumes, a lossless FIFO of the packets with data, with empty ones at any point | 2 buffers, FIFO of 2 packets, numbers mod 4 |
| `rx_task_per_ep` | two tasks whose masks end each other, endpoints that stay armed, empty packets, reset, reconfiguration: buffers conserved, even where `poll()` would crash | 1 reset, 2 `ep_config` |
| `rx_unmasked` | violation of `NoNullDeref` in otghs: the interrupt inside `release_rx_buffer` | 1 endpoint |
| `ctl_ordinary` | otghs2, a host that ends its transfers: reads (cut, padded, with an empty packet), writes, SET_ADDRESS, refusals, requests that are none. Data is the transfer's own, replies are whole, nothing is left over, and the pipe implements `ControlTransfer`; the instance meets `OrdinaryUse` and its states `PipeInv` | 3 buffers, replies and payloads of up to 4 units, event queue of 7 |
| `ctl_reset` | otghs, up to two further bus resets and a suspend anywhere: events fit, each request is decoded as sent and executed once, no transfer ends well that was not executed (`TransfersInOrder`), addresses agree, `PipeInv` holds | event queue of 10 |
| `ctl_abandoned` | otghs, a host that abandons anything any time, tiny queues: lost events, underruns and null dereferences occur, and buffers are still conserved and within bounds (`m_setup_packet` may then never have been written) | 2 buffers, event queue of 2 |
| `ctl_exact_length` | violation of `ExecutedOnce`: a reply of exactly wLength, in full packets | as `ctl_ordinary` |
| `device` | a host that configures, halts, clears, queries and exchanges data: both ends agree on the configuration, active endpoints and toggles, and on halts the application did not write away; answers are true; a SET_CONFIGURATION that fits takes effect | both directions of 1 endpoint number; 4 configurations (one is empty, one fails half-way) and an unknown one; 16 requests; 1 reset; `m_tx_buffer` of 3 units |
| `fifo_any` | FIFOs laid out by one SET_CONFIGURATION never overlap, whatever the sizes and with resets between read and write | 4 endpoints, 4 sizes |
| `fifo_bulk` | violation of `FifosFit`: with 512-byte endpoints the sixth is accepted beyond the RAM | 8 endpoints |

Why these bounds are enough. Two buffers are the least with which one is active and one
waits; two endpoints are the least that share the FIFO, the mask and the interrupt. A
message number in flight can be confused with another only if more are in flight than
numbers exist: at most 2 buffers per endpoint plus what the FIFO holds, 4 numbers. Control
data of up to two packets meets each branch of `handle_ep0_tx` (more, short, full and then
an empty packet) and of the RXDATA state. Two transfer numbers tell the current transfer
from the last. The FIFO RAM constants are otghs2's; the sizes are one that is padded to
64, one that is no multiple of a word, the longest, and one that is refused. In `device`
one endpoint number with two directions is the least for which unconfiguring one direction
takes the other with it; the configurations are one that uses both, one that uses one, one
that fails at an endpoint that was active before, and 0; wLength ends
inside the second node of the configuration descriptor or beyond it, and a descriptor that
was cut leaves a unit in `m_tx_buffer`, which has room for just that descriptor.

The control pipe runs take the drivers in turn; each of `ctl_ordinary`, `ctl_reset` and
`ctl_abandoned` holds for the other driver as well (change `Otghs2` in its configuration).
`ctl_ordinary` and `ctl_reset` are instances of `MCOrdinary`, whose `ASSUME` makes TLC check
that the hypothesis of section 4 can be met.

Resets, reconfigurations and, in `ctl_abandoned`, queue lengths are bounded to keep the
state space finite; the theorems of section 4 drop these bounds. `CHECK_DEADLOCK FALSE` is
set where the modelled system may stop: a crash in `poll()`, an endpoint blocked by an
oversized packet or a reset, a lost event.

### Fairness

* A task inside a driver call is scheduled again: weak fairness (FreeRTOS schedules every
  ready task of the application's priority; the driver functions contain no other wait).
* The interrupt: strong fairness in `TxPath` and `RxPath`. The pending bit stays set while
  the interrupt is masked, and tasks mask and unmask it again and again, so it is enabled
  repeatedly, not continuously; `handle_iepintx` serves the lowest endpoint first, which
  is why this is an assumption on the load, not a fact, for the higher ones.
* The host: weak fairness of the IN token (`HostIn`) and, in `ControlPipe`, of the next
  transaction of a transfer it has begun. Starting a transfer, sending OUT data and
  resetting are never assumed.
* In `RxPath` the application fetches what is queued and gives it back; a single task
  serves several endpoints in turn, hence strong fairness of `WaitRxBuffer`.

* In `Device` the core's thread and the end of a transfer the host has begun
  (`HostCompletes \/ HostGivesUp`) are weakly fair: nothing else blocks either of them.

The host of `Device` is a correct one: it waits the recovery time after a reset
(`Recovered`), addresses endpoints of the configuration it has set and clears halts it knows
of (`Sensible`). The application's callback, which is not in the repository, is modelled as
the driver API asks for: unconfigure what the new configuration does not have, then configure
what it has.

### What is known not to hold

Three disagreements between the code and what its comments say are runs and listed as
findings. The same models show the following when the named constants change; each is one
edit of a configuration away and is not a run (those of `ctl_ordinary` with module
`MCControlPipe`, since they give up `OrdinaryUse`):

| Change | Property violated | Why |
|---|---|---|
| `tx_single_task` with `Otghs2 = FALSE` | `QueuedBehindActive` | the completion comes between the test and the enqueue, and nothing sends the queued buffer |
| `tx_task_per_ep` with `Otghs2 = TRUE`, no reset | `QueuedBehindActive` | `Scoped_ISR_Mask` does not nest: one task's destructor unmasks for both |
| `tx_single_task` with one reset and one `ep_config` | `ActiveIsLoaded` | a bus reset empties the FIFO but keeps the active buffer; the endpoint stays silent |
| two tasks with `UsesEp <- OneForAll` | `TxConserved`, `RxConserved` | both see no active buffer; hence the assumption `SingleWriter`/`SingleReader` |
| `rx_single_task` with `StaysArmed = {FALSE, TRUE}` | `NoNullDeref` | `poll()` reads RXFLVL in GINTSTS although the underrun masked it in GINTMSK |
| `rx_single_task` with one reset and one `ep_config` | `NullMeansNak` | `ep_config` arms an endpoint that has no buffer |
| `ctl_ordinary` with `Setups <- TooLong` | `DataIsOwn` | a refused write leaves its packets in the queue |
| `ctl_ordinary` with `Setups <- Configuration` | `DataIsOwn` | GET_CONFIGURATION does not reset `m_tx_buffer` |
| `ctl_ordinary` with `Setups <- Long`, `MaxResets = 2` | `DataIsOwn` | `handle_reset` keeps `m_control_state` and the pending reply |
| `ctl_ordinary` with `Setups <- Long`, `HostAborts = TRUE` | `ExecutedOnce` | events of the abandoned transfer are applied to the new one |

Other weaknesses the models are explicit about:

* an empty OUT packet is popped and dropped, and `poll()` arms the endpoint again only
  after a packet with data: if the packet ended the endpoint's transfer, the endpoint
  receives nothing any more (an invariant that every endpoint is armed, has a packet in the
  FIFO or has no buffer is violated in `rx_single_task`). So `RxIsFifo` is about the order
  and completeness of what carries data, not about an endpoint's staying alive;
* `ep_write` on a data IN endpoint clears STALL: `HaltAgreed` names the endpoints written
  to since the host halted them (`written`). The host hears of it by GET_STATUS;
* GET_CONFIGURATION does not reset `m_tx_buffer`. After a reply that wLength cut it answers
  the next byte of that reply, and nothing if the buffer is full; `AnswersAreTrue` says of
  it only what holds when the buffer has been used up;
* the descriptor tables' `map::insert` keeps an entry that exists, so `set_config_descriptor`
  is silent about not replacing it, although README.md:22 of the repository says that
  descriptors can be changed on the fly; `AnswersAreTrue` speaks of the one in the table;
* if the callback refuses 0 as well, `m_configuration` keeps its value while any endpoints
  may be active (`torn`): `ConfigurationAgreed` and `ActiveIsConfigured` exclude it;
* CLEAR_FEATURE of an endpoint that is not halted may or may not reset its toggle
  (`ep_unstall` reads a type nobody has stored), so without `Sensible` `ToggleAgreed` fails;
* after a bus reset GET_CONFIGURATION answers with the configuration before it, until the
  next SET_CONFIGURATION: `AnswersAreTrue` speaks of a host that has set one;
* a configuration longer than `m_tx_buffer` is acknowledged and cut, and each LANGID a host
  asks for adds a string table;
* SET_LINE_CODING is acknowledged and forgotten;
* the byte formats: a line coding's rate is read with its bytes reversed (9600 as
  2149908480), CONNECTION_SPEED_CHANGE refuses its own data and reads beyond what it
  accepts, string zero writes more than it announces, and a notification can be reported as
  written without its data (all four are theorems of `CodecsProofs`).

## 4. Proofs

| Theorem | States, for every value of the constants |
|---|---|
| `TxTypeCorrect` | types; a task in `enqueue_tx_buffer` always has a buffer |
| `TxBuffersConserved`, `TxEnqueueSucceeds` | *one writer per endpoint:* every transmit buffer in exactly one place, the queue never refuses |
| `NullIsNotLoaded` | *one writer per endpoint:* without an active buffer an endpoint is disabled and NAKs |
| `ActiveWasLoaded` | *one writer per endpoint, no faults:* an active buffer is in the FIFO, completed or about to be written |
| `NothingStranded` | *one task, otghs2:* no buffer is queued where nothing will complete |
| `TxImplementsFifo` | *one task, otghs2, no faults:* `TxSpec` implements the safety part of `FifoChannel` |
| `RxTypeCorrect` | types; a task that reads or releases always has a buffer |
| `RxBuffersConserved`, `RxEnqueueSucceeds` | *one reader per endpoint:* as for transmission |
| `MaskOnlyInUnderrun` | *no hypothesis:* RXFLVL is masked only in an underrun or while a task is about to unmask it |
| `PollNeverDereferencesNull`, `NullIsNak` | *one task, otghs2, no faults:* `poll()` finds a buffer for each packet; without one the endpoint NAKs and has nothing in the FIFO |
| `RxImplementsFifo` | *one task, otghs2, no faults:* what packets with data carry in `RxSpec` implements the safety part of `FifoChannel`, with empty packets anywhere between |
| `Ep0BuffersConserved` | endpoint 0's buffers are conserved, whatever the host does |
| `PipeInvariant` | *ordinary use:* the inductive invariant of the control pipe, from which the next rows follow |
| `TypesCorrect`, `EventsFitQueue`, `NoNullBuffer` | *ordinary use:* types and bounds; no event the core acts on is lost; `poll()` has a buffer for every packet of endpoint 0 |
| `DecodesCurrent`, `ExecutesOnce`, `AgreeOnAddress` | *ordinary use, resets at any point:* the request decoded is the current one, it runs once, and host and device agree on the address |
| `DataBelongs`, `ReplyComplete`, `LeavesNothing` | *ordinary use, no reset after enumeration:* data belongs to its transfer, replies are whole, nothing is left over |
| `ImplementsControlTransfer` | *ordinary use, resets at any point:* `ControlPipe` implements the safety part of `ControlTransfer` |
| `DeviceTypeCorrect` | types; the host never believes what the device could not be; nothing is sent or written beyond `m_tx_buffer` |
| `OnlyConfiguredActive`, `HostKnowsConfiguration` | outside the callback only the configuration's endpoints are active, and the host knows which, unless the callback refused 0 |
| `HostKnowsHalts`, `TogglesAgree` | host and device agree on the next data PID, and on the halts that no write has ended |
| `AnswersTrue` | GET_STATUS answers these halts, GET_DESCRIPTOR the configuration in the table, whole or cut to wLength, and GET_CONFIGURATION what the host has set, if nothing is left over in `m_tx_buffer` |
| `FifoTypeCorrect`, `FifosNeverOverlap` | FIFOs laid out together are aligned and disjoint, for any endpoints, sizes and resets |
| `HeaderRoundTrip`, `RequestTypeRoundTrip`, `GetDescriptorRoundTrip`, `DescriptorRoundTrip` | packets and descriptors are read as they were written; a bmRequestType is accepted exactly if it can have been written |
| `StringLengthTrue`, `LanguagesLengthFalse` | a string announces what it writes, string zero never does |
| `LineCodingReversed`, `Rate9600`, `NotificationData`, `NotificationComplete` | exactly how far the CDC formats are read as written |

Where no hypothesis is named, and for *one writer* and *one reader*, they hold for both
drivers, any number of endpoints, buffers, tasks, resets and reconfigurations; buffer
conservation in particular needs no interrupt mask at all. The hypotheses are definitions:
`SingleWriter`, `SingleReader` (no endpoint is used by two tasks), `OneTask`, `Otghs2` and
`NoFaults` (no reset or reconfiguration, no packet longer than its FIFO; for reception, a
packet ends its endpoint's transfer). Section 3 shows what happens without them. Other assumptions
are the named `ASSUME`s of the modules (`EpsAssumption`, `BuffersAssumption`, `TxAssumption`,
`RxAssumption`, `Ep0Assumption`, `PipeAssumption`, `FifoAssumption`, `DescriptorAssumption`,
`DeviceAssumption`, `RequestsAssumption`), which TLC evaluates in the runs.

The argument. *Conservation* alone is not inductive: `LoadActive` overwrites the active
buffer, so one must know there is none. `TxInv` therefore adds
that a task works on an endpoint of its own (`OwnEndpoint`), that an enabled endpoint or a
pending completion has an active buffer behind it, never both at once (`LoadedIsActive`),
and that what `enqueue_tx_buffer` saw still holds when it acts on it (`CheckStillHolds`);
`RxInv` adds that a task between its test and `set_buffer` faces an endpoint without an
active buffer, and, from the assumption that tasks share no endpoint, that no other task
does. `EpBufferMgrProofs` proves once, for each operation of the manager, that it keeps
the three places (pool, active, queue) and the outside hands a partition of the buffers;
every action is then a use of one of these lemmas. That queues never refuse follows by
counting: injective sequences of buffers are no longer than the pool.

*The IN endpoints as a FIFO.* `SerialInv` says what the mask is for: while the task is
inside `enqueue_tx_buffer` the interrupt is off (`Masked`), so an active buffer it saw is
still there when it queues (`PushBehind`) and a packet is written directly only past an
empty queue (`WriteAlone`). What is in flight on an endpoint is the message in its FIFO, if
it is enabled, then what the queued buffers carry (`Flight`, `Carried`, with lemmas on how
sequences of buffers become sequences of messages); every action then leaves it alone
(`Stays`), appends one message (`Accepts`) or takes the first (`Delivers`), which are the
steps of `FifoChannel`.

*The OUT endpoints.* An armed endpoint has no packet in the FIFO, and no endpoint has two
(`ArmedIsEmpty`), so a packet is there only for an endpoint armed with a buffer; between
arming and releasing, the task that took the buffer away puts it back before the mask is
lifted (`ReleasedIsThere`, `Masked`). `MaskInv` ties the RXFLVL mask to an underrun and needs
none of this. `OnePending`, that no endpoint has two packets in the FIFO, is also what makes
the shared FIFO a FIFO of each endpoint: an endpoint's packets there (`PacketsOf`) are none
or one, so a packet sent comes last, pushing and popping leaves the others' alone
(`PushedForOne`, `PoppedForOne`), and `poll()` moves the packet from the FIFO to the end of
its queue, where it was already (`PollRxArrives`).

*The control pipe.* `OrdinaryUse` is the hypothesis: the host ends a transfer before it
starts the next (`HostAborts` is false), a full packet fits endpoint 0's FIFO, and each
request is `Serviceable`: a reply fits `m_tx_buffer`, which is reset for it, and is not
exactly as long as asked for in full packets; a payload fits `m_rx_buffer`, all receive
buffers but one and the event queue, and then only the first reset comes; only SET_ADDRESS,
which has no data, changes the address. The event queue has room for three entries, two for
each reset and one for each suspend interrupt, `3 + 2 * MaxResets + MaxSuspends <=
EventDepth`: with the code's 32, up to 14 resets, or 9 and as many suspend interrupts. The bound counts what can be
queued if the thread never runs; it is sufficient, not the least (in `ctl_reset` 9 does). Section 3 shows what happens without
patience, with an exact length, a payload that is too long, a buffer that is not reset, or a
second reset. Packet size, buffer sizes, queue lengths, the number of buffers, requests and
transfer numbers are arbitrary otherwise, and both drivers are covered.

What makes the invariant possible is that `poll()` only moves events along, from an entry of
the receive FIFO to an interrupt flag to the event queue. `Coming` is all of them in their
order, and `poll()` leaves it alone (`PollKeepsComing`); so it leaves alone every statement
about `Coming`, whichever driver runs and however many of its steps have happened. OUT data
has the same form: what is in queued buffers and then in the receive FIFO (`InFlight`,
`Flying`) is the rest of what the host has sent (`SentOut`). `PipeInv` then says in which
phase a transfer is (`Protocol`):

* `Announced(n)`: behind `n` last events of the transfer before (`Residue`) comes the
  SETUP's, and behind it one event for each packet in flight;
* `Receiving`, `Responding`: what the core has of the payload, and with the rest in flight
  it makes the whole;
* `Executed`: the request ran, and the state machine, the IN FIFO and the event under way
  are those of a refusal, a written packet, one the host has taken, or the end of the data;
* `Over(n)`: between transfers.

A bus reset cuts each of them short (`Overtaken`): the core goes on with a transfer the host
has forgotten, but the reset's own event is behind and no SETUP comes before it was handled
(`Recovered`). `Room` counts the queue: what is coming, the events the core ignores that may stand
among it, and two events for each reset and one for each suspend still to come, fit.
`Beside` bounds those ignored: a suspend leaves one, and a transfer at most one
CTRL_DATA_PHASE_DONE, pending or queued, before its status stage has ended. `Addressed` follows the address from execution to the status stage, and
`InData`, until a second reset, ties what the host has read and what is in the FIFO to the
reply. Every action is one lemma; the hard ones are the end of the status stage, where the
host is done and the core is two events behind, and the reset.

For the refinement, `Phase` reads the host's stage and how often the request ran. The status
stage cannot end before `Executed` (`StatusInWhen`, `StatusOutWhen`), and an answer that
comes after a reset is a stutter, because the host is no longer in the transfer.

*The device.* `DeviceInv` says what the core's thread is working on in each state
(`Scheduled`), what the callback has achieved so far and that a reset can only take
endpoints away (`InCallback`, `OutsideCallback`), what an answer on its way implies
(`Answered`, `InFlight`), and that host and device agree once no reset has interfered
(`Agreed`): a completed SET_CONFIGURATION whose host was not reset configured exactly the
endpoints asked for, with fresh toggles and no halt. `AnswersTrue` follows at the step that
answers: what the buffer holds then is what the request put there, behind what was left. The walk over a configuration's nodes ends at the first
node that meets a condition; that there is a first is the least number principle
(`LeastNumber`, from the library's well-foundedness of the naturals), and since the ends of
the nodes ascend the walk gives at least what was asked for, or everything (`WholeOrCut`).

*FIFO RAM.* `FifoInv` adds to
disjointness that the FIFOs laid out ascend in the RAM behind endpoint 0's, that an
endpoint the callback has passed but a reset has taken away holds its reset value, and
that a pending write starts behind every FIFO laid out so far. A reset between the reading
and the writing breaks none of it: it empties the set of FIFOs laid out.

Only model-checked is liveness under fairness, out of the provers' reach: `ReceptionResumes`,
`ConfigurationReached`, and the fairness parts of `TransfersServed`, `TxIsFifo` and `RxIsFifo`.

## 5. Not modelled

* `SOF`: otghs2 takes it from the status before it looks, otghs pushes an event only if
  GINTMSK has it, which `enable()` leaves out and nothing sets. Resume raises no event. The
  user's reset and enumeration callbacks change no modelled state.
* A device without a SET_CONFIGURATION callback or without a class.
* Register sequences of `initialize`, `enable`, `connect`, `disconnect`: straight-line code,
  of which the models take the result as their initial state.
* The interface and endpoint descriptor tables and `m_other_desc`, which no request reads.
* Formats that repeat what `Codecs` shows: device, interface and functional descriptors, and
  the setters of single bits. DFU has only enumerations and layouts.
* Two tasks that change the descriptor tables and answer GET_DESCRIPTOR at once: a data race
  on `std::map`, of which any outcome is possible.
* Out-of-range endpoint numbers, which no caller in the library passes, and logging.

## 6. Plan

Done: buffer manager, TX and RX paths, control pipe, FIFO RAM, device and its requests,
descriptor tables, formats; the theorems of section 4, those of the control pipe included.

What remains, and why it comes last:

1. `TxPath` and `RxPath` under one interrupt, in `poll()`'s order. They share the interrupt
   and the mask only, and each already lets the interrupt run for other causes.
