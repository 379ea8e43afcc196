----------------------------- MODULE ControlPipe -----------------------------
(***************************************************************************)
(* The default control pipe, end to end: a host that enumerates the device *)
(* and runs control transfers, the hardware and driver of endpoint 0 and   *)
(* the USB_core thread, interleaved transaction by transaction.            *)
(*                                                                         *)
(* The host follows the USB 2.0 protocol: SETUP, data packets until wLength*)
(* or a short one, then an empty packet the other way.  A patient host     *)
(* sends no SETUP before the last transfer ended and gives a transfer up   *)
(* only when the device has gone quiet; HostAborts lets it do so any time. *)
(***************************************************************************)
EXTENDS UsbCore, SequencesExt

CONSTANTS
    Ids,        \* transfer numbers, wrapping
    HostAborts, \* may the host abandon a transfer at any time?
    MaxResets,  \* bound: bus resets; the first starts enumeration
    MaxSuspends \* bound: suspend interrupts

ASSUME PipeAssumption ==
    /\ Ids \subseteq Nat /\ 0 \in Ids
    /\ HostAborts \in BOOLEAN /\ MaxResets \in Nat /\ MaxSuspends \in Nat
    /\ TxMax \in Nat /\ RxMax \in Nat
    /\ NoSetup \notin Setups
    /\ \A s \in Setups : /\ s.id \in Ids /\ s.dir \in {"in", "out"} /\ s.resp \in {"ACK", "NAK", "FAIL", "INVALID"}
                         /\ s.len \in Nat /\ s.reply \in Nat

VARIABLES
    stage,    \* the host's: "detached", "reset", "idle", "data", "status"
    request,  \* the setup packet of the host's last transfer
    moved,    \* data units of it the host has received, or sent
    assigned, \* the address the host uses
    asked,    \* the host has sent an IN token in this status stage
    resets,   \* counters for the bounds
    suspends,
    ran       \* [Ids -> 0 .. 2]: executions of each transfer (2: several)

hostVars == <<stage, request, moved, assigned, asked, resets, suspends, ran>>
devVars  == <<mgrVars, drvVars, coreVars>>
vars     == <<pool, active, queue, packet, rxq, lastSetup, outArmed, in, stall, flags, otepspr,
              evq, ignored, lost, crashed, control, setup, tx, rx, address, registered, thread,
              stage, request, moved, assigned, asked, resets, suspends, ran>>

Data(s) == IF s.dir = "in" THEN SubSeq(Reply(s), 1, Lesser(s.reply, s.len)) ELSE Payload(s)

ControlTypeOK ==
    /\ MgrTypeOK
    /\ \A b \in Buffers : Len(packet[b]) <= EP0SIZE
    /\ lastSetup \in Setups \cup {NoSetup} /\ setup \in Setups \cup {NoSetup}
    /\ outArmed \in BOOLEAN /\ stall \in BOOLEAN /\ lost \in BOOLEAN /\ crashed \in BOOLEAN
    /\ in.ena \in BOOLEAN /\ in.nak \in BOOLEAN /\ in.size \in 0 .. EP0SIZE
    /\ Len(in.fifo) <= TxFifoRoom
    /\ flags \subseteq Flags /\ otepspr \in BOOLEAN
    /\ evq \in Seq(Events) /\ ignored \in Seq(Nat) /\ Len(evq) + Len(ignored) <= EventDepth
    /\ control \in ControlStates /\ thread \in {"loop", "respond"}
    /\ tx.rem \in Nat /\ tx.pos + tx.rem <= Len(tx.buf) /\ Len(tx.buf) <= TxMax
    /\ rx.rem \in Nat /\ Len(rx.buf) + rx.rem <= RxMax
    /\ stage \in {"detached", "reset", "idle", "data", "status"}
    /\ request \in Setups /\ ran \in [Ids -> 0 .. 2]

Init ==
    /\ DrvInit /\ CoreInit
    /\ stage = "detached" /\ request \in {s \in Setups : s.id = 0}
    /\ moved = <<>> /\ assigned = 0 /\ asked = FALSE
    /\ resets = 0 /\ suspends = 0
    /\ ran = [i \in Ids |-> 0]

-----------------------------------------------------------------------------
(* The device. *)

DeviceIsr    == (Poll \/ PollStatusFirst) /\ UNCHANGED <<coreVars, hostVars>>
DeviceEvent  == (HandleEvent \/ HandleIgnored) /\ UNCHANGED hostVars
DeviceAnswer ==
    /\ Respond
    /\ ran' = [ran EXCEPT ![setup.id] = Lesser(@ + 1, 2)]
    /\ UNCHANGED <<stage, request, moved, assigned, asked, resets, suspends>>

\* Nothing the device could still do without the host.
Quiet == /\ flags = {} /\ rxq = <<>> /\ ~(Otghs2 /\ otepspr)
         /\ evq = <<>> /\ ignored = <<>> /\ thread = "loop"

-----------------------------------------------------------------------------
(* The host. *)

Enumerated == stage \in {"idle", "data", "status"}
InTransfer == stage \in {"data", "status"}

BusReset ==
    /\ resets < MaxResets
    /\ PollReset
    /\ stage' = "reset" /\ assigned' = 0 /\ resets' = resets + 1
    /\ UNCHANGED <<coreVars, request, moved, asked, suspends, ran>>

EnumDone ==
    /\ stage = "reset"
    /\ PollEnumDone
    /\ stage' = "idle"
    /\ UNCHANGED <<mgrVars, packet, rxq, lastSetup, outArmed, in, stall, flags, otepspr, crashed,
                   coreVars, request, moved, assigned, asked, resets, suspends, ran>>

\* The bus has been idle for 3 ms; a suspended bus goes on where it was.
Suspend ==
    /\ suspends < MaxSuspends
    /\ PollSuspend
    /\ suspends' = suspends + 1
    /\ UNCHANGED <<coreVars, stage, request, moved, assigned, asked, resets, ran>>

\* The 10 ms the host waits after a reset are enough for the thread.
Recovered == \A i \in DOMAIN evq : evq[i] \notin {"RESET", "ENUM_DONE"}

\* A SETUP for another address than the device's gets no answer.
HostSetup(s) ==
    /\ ~crashed
    /\ stage = "idle" \/ (HostAborts /\ Enumerated)
    /\ Recovered /\ assigned = address
    /\ s.id = IF request.id + 1 \in Ids THEN request.id + 1 ELSE 0
    /\ AcceptSetup(s)
    /\ stage' = IF s.len > 0 THEN "data" ELSE "status"
    /\ request' = s /\ moved' = <<>> /\ asked' = FALSE
    /\ ran' = [ran EXCEPT ![s.id] = 0]
    /\ UNCHANGED <<mgrVars, packet, lastSetup, flags, otepspr, evq, ignored, lost, crashed, coreVars,
                   assigned, resets, suspends>>

\* Data stage, device to host: it ends with wLength units or a short packet.
HostIn ==
    /\ stage = "data" /\ request.dir = "in"
    /\ CanSendIn /\ SendIn
    /\ moved' = moved \o InPacket
    /\ stage' = IF Len(moved \o InPacket) >= request.len \/ in.size < EP0SIZE
                THEN "status" ELSE "data"
    /\ UNCHANGED <<mgrVars, packet, rxq, lastSetup, outArmed, stall, otepspr, evq, ignored, lost,
                   crashed, coreVars, request, assigned, asked, resets, suspends, ran>>

\* Data stage, host to device: full packets and then the rest.
HostOut ==
    /\ stage = "data" /\ request.dir = "out"
    /\ CanAcceptOut
    /\ LET n == Lesser(EP0SIZE, request.len - Len(moved))
           units == SubSeq(Payload(request), Len(moved) + 1, Len(moved) + n)
       IN  /\ AcceptOut(request, units)
           /\ moved' = moved \o units
           /\ stage' = IF Len(moved) + n = request.len THEN "status" ELSE "data"
    /\ UNCHANGED <<mgrVars, packet, lastSetup, in, stall, flags, otepspr, evq, ignored, lost,
                   crashed, coreVars, request, assigned, asked, resets, suspends, ran>>

Ended == /\ stage' = "idle"
         /\ assigned' = IF request.addr = NoAddr THEN assigned ELSE request.addr
         /\ UNCHANGED <<coreVars, request, moved, asked, resets, suspends, ran>>

StatusIsOut == request.dir = "in" /\ request.len > 0

\* The host turns to the status stage of a transfer that sends no data to it.
HostAsks ==
    /\ stage = "status" /\ ~StatusIsOut /\ ~asked
    /\ StatusToken /\ asked' = TRUE
    /\ UNCHANGED <<mgrVars, packet, rxq, lastSetup, outArmed, in, stall, flags, evq, ignored, lost,
                   crashed, coreVars, stage, request, moved, assigned, resets, suspends, ran>>

HostStatusOut ==
    /\ stage = "status" /\ StatusIsOut
    /\ CanAcceptOut /\ AcceptOut(request, <<>>)
    /\ Ended
    /\ UNCHANGED <<mgrVars, packet, lastSetup, in, stall, flags, otepspr, evq, ignored, lost, crashed>>

HostStatusIn ==
    /\ stage = "status" /\ ~StatusIsOut /\ asked
    /\ CanSendIn /\ in.size = 0 /\ SendIn
    /\ Ended
    /\ UNCHANGED <<mgrVars, packet, rxq, lastSetup, outArmed, stall, otepspr, evq, ignored, lost,
                   crashed>>

\* The next transaction gets no answer (a NAK, or a packet that is too long).
ExpectsIn == IF stage = "data" THEN request.dir = "in" ELSE ~StatusIsOut
NoAnswer  == IF ExpectsIn THEN ~CanSendIn \/ (stage = "status" /\ in.size # 0)
                          ELSE ~CanAcceptOut

\* The transfer fails: the device answers STALL, or nothing for so long that the
\* host times out.
HostGivesUp ==
    /\ InTransfer
    /\ stall \/ (Quiet /\ NoAnswer)
    /\ stage' = "idle"
    /\ UNCHANGED <<devVars, request, moved, assigned, asked, resets, suspends, ran>>

Transaction == HostIn \/ HostOut \/ HostAsks \/ HostStatusOut \/ HostStatusIn

Next ==
    \/ DeviceIsr \/ DeviceEvent \/ DeviceAnswer
    \/ BusReset \/ EnumDone \/ Suspend
    \/ \E s \in Setups : HostSetup(s)
    \/ Transaction \/ HostGivesUp

\* The interrupt and the core's thread run, and the host goes on with a transfer
\* it has started.  It need not start another.
Fairness ==
    /\ WF_vars(DeviceIsr) /\ WF_vars(DeviceEvent) /\ WF_vars(DeviceAnswer)
    /\ WF_vars(Transaction)

Spec     == Init /\ [][Next]_vars
FairSpec == Spec /\ Fairness

-----------------------------------------------------------------------------
(* Properties. *)

\* The thread executes the request the interrupt announced: the setup packet it
\* decoded is the one of the host's current transfer.
DecodedIsCurrent == thread = "respond" => setup = request

\* process_request runs at most once for each SETUP of the host: requests are not all
\* idempotent, and the second run sees the buffers of the first.
ExecutedOnce == \A i \in Ids : ran[i] <= 1

\* Each direction's data belongs to the transfer it arrives in: what the host
\* has received is a prefix of the reply to its request, and what the device
\* executes with is the whole payload the host sent with it.
DataIsOwn ==
    /\ InTransfer /\ request.dir = "in" => IsPrefix(moved, Data(request))
    /\ thread = "respond" /\ setup.dir = "out" /\ setup.len > 0 => rx.buf = Payload(setup)

\* A data stage the host takes for complete carried all of the reply (cut to wLength):
\* neither a short packet nor the empty one comes early.
ReplyIsWhole ==
    stage = "status" /\ request.dir = "in" /\ request.len > 0 => moved = Data(request)

\* The event queue is deep enough: no event that poll() pushes finds it full.  The
\* interrupt only logs a refused event, and the transfer it belonged to would hang.
EventsFit == ~lost

\* Every endpoint 0 buffer is free, active or queued, and in one of these only: poll()
\* and handle_ep0_rx leak and duplicate none, whatever transfer is abandoned.
Ep0Conserved == Conserved(0, {})

\* A packet accepted on endpoint 0 finds an active buffer when poll() pops it; the
\* handler does not test what get_buffer() returns.
Ep0NoNullDeref == ~crashed

\* The device serves a request completely: it is one of those it acknowledges.
Served == {s \in Setups : s.resp = "ACK" /\ (s.dir = "out" => s.len <= RxMax)}

\* Between transfers nothing is left of the last one: no packet is queued or in
\* the IN FIFO, there is a buffer to receive into, and after a request that was
\* served no reply is left over and the state machine waits for a SETUP.
QuietIsClean ==
    stage = "idle" /\ Quiet /\ registered =>
        /\ queue[0] = <<>> /\ in.fifo = <<>> /\ active[0] # NoBuf
        /\ setup \in Served => control = "IDLE" /\ tx.rem = 0

\* Host and device agree on the address whenever no transfer or reset is running.
AddressAgreed == stage = "idle" /\ Quiet => address = assigned

\* The phase of the host's transfer, by what the device has done for it.
Phase == IF ~InTransfer THEN "idle"
         ELSE CASE ran[request.id] = 0 -> "requested"
                [] ran[request.id] = 1 -> "executed"
                [] OTHER -> "executed again"
Transfer == INSTANCE ControlTransfer WITH phase <- Phase
\* The control pipe implements ControlTransfer: requests are executed once and then
\* completed, in order, and those the device serves are always completed.
TransfersServed == Transfer!Spec
\* The same without the promise to complete: no transfer ends well for the host that
\* process_request has not seen, and none is executed that the host is not in.
TransfersInOrder == Transfer!SafeSpec
=============================================================================
