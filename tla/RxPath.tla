------------------------------- MODULE RxPath --------------------------------
(***************************************************************************)
(* The OUT (host to device) half of the OTG drivers for endpoints other    *)
(* than 0: the USB core appends received packets to one FIFO shared by all *)
(* endpoints, poll() pops an entry per interrupt into the active buffer of *)
(* its endpoint and arms the endpoint again, or on underrun NAKs it and    *)
(* (otghs2 only) masks the RXFLVL interrupt; application tasks call        *)
(* wait_rx_buffer and release_rx_buffer.                                   *)
(*                                                                         *)
(* The statements of release_rx_buffer are separate steps, the interrupt   *)
(* handler is one.  Otghs2 selects the driver, as in TxPath.               *)
(***************************************************************************)
EXTENDS EpBufferMgr

CONSTANTS
    Tasks,       \* application tasks
    UsesEp,      \* UsesEp[t]: the endpoints task t reads
    SeqNos,      \* packets of an endpoint are numbered, wrapping in SeqNos
    Empty,       \* a packet without data
    SendsEmpty,  \* does the host send such packets?
    RxFifoDepth, \* packets the shared FIFO holds (RX_FIFO_SIZE: two of 512 bytes)
    StaysArmed,  \* may a packet leave its endpoint enabled?  subset of BOOLEAN
    OtherIrqs,   \* are there interrupts other than RXFLVL?
    Otghs2,      \* TRUE: otghs2, FALSE: otghs
    MaxResets, MaxConfigs  \* bounds, as in TxPath

ASSUME RxAssumption ==
    /\ Tasks # {} /\ UsesEp \in [Tasks -> SUBSET Eps]
    /\ SeqNos \subseteq Nat /\ 0 \in SeqNos /\ Empty \notin SeqNos
    /\ SendsEmpty \in BOOLEAN
    /\ RxFifoDepth \in Nat \ {0}
    /\ StaysArmed \subseteq BOOLEAN /\ StaysArmed # {}
    /\ OtherIrqs \in BOOLEAN /\ Otghs2 \in BOOLEAN

VARIABLES
    data,    \* [Eps -> [Buffers -> SeqNos]]: the packet a buffer holds
    pc, ep, buf, \* a task's place in read/release, its endpoint and its buf
    spare,   \* [Tasks -> Buffers or NoBuf]: act_buf of release_rx_buffer
    fifo,    \* Seq(Packets): the receive FIFO
    sent,    \* [Eps -> SeqNos]: number of the host's next packet with data
    act,     \* [Eps -> BOOLEAN]: USBAEP, the endpoint is configured
    armed,   \* [Eps -> BOOLEAN]: enabled and not NAKing
    masked,  \* RXFLVL is cleared in GINTMSK
    other,   \* a status bit other than RXFLVL is set in GINTSTS
    irqOn,   \* the OTG interrupt is enabled in the NVIC
    crashed, \* the handler dereferenced a null active buffer
    resets, configs

taskVars == <<pc, ep, buf, spare>>
coreVars == <<fifo, sent, act, armed, masked, other>>
vars == <<pool, active, queue, data, pc, ep, buf, spare, fifo, sent, act, armed,
          masked, other, irqOn, crashed, resets, configs>>

Packets == Eps \X (SeqNos \cup {Empty})

PcRx == {"idle", "reading", "free", "check", "alloc", "set", "arm", "unmask", "leave"}

\* A task has a buffer from wait_rx_buffer until it releases it.
BufferInHand == \A t \in Tasks : pc[t] \in {"reading", "free"} => buf[t] # NoBuf

\* Types, and no task works with a null pointer.
RxTypeOK ==
    /\ MgrTypeOK
    /\ data  \in [Eps -> [Buffers -> SeqNos]]
    /\ pc    \in [Tasks -> PcRx]
    /\ ep    \in [Tasks -> Eps]
    /\ buf   \in [Tasks -> Buffers \cup {NoBuf}]
    /\ spare \in [Tasks -> Buffers \cup {NoBuf}]
    /\ fifo  \in Seq(Packets)
    /\ sent  \in [Eps -> SeqNos]
    /\ act   \in [Eps -> BOOLEAN] /\ armed \in [Eps -> BOOLEAN]
    /\ masked \in BOOLEAN /\ other \in BOOLEAN
    /\ irqOn \in BOOLEAN /\ crashed \in BOOLEAN
    /\ resets \in Nat /\ configs \in Nat
    /\ BufferInHand

\* initialize() makes one buffer of every endpoint active; then enumeration
\* configured the endpoints, which arms them.
RxInit ==
    /\ pool   = [e \in Eps |-> Tail(FreeList)]
    /\ active = [e \in Eps |-> Head(FreeList)]
    /\ queue  = [e \in Eps |-> <<>>]
    /\ data   = [e \in Eps |-> [b \in Buffers |-> 0]]
    /\ pc     = [t \in Tasks |-> "idle"]
    /\ ep     \in [Tasks -> Eps]
    /\ \A t \in Tasks : UsesEp[t] # {} => ep[t] \in UsesEp[t]
    /\ buf    = [t \in Tasks |-> NoBuf]
    /\ spare  = [t \in Tasks |-> NoBuf]
    /\ fifo   = <<>>
    /\ sent   = [e \in Eps |-> 0]
    /\ act    = [e \in Eps |-> TRUE]
    /\ armed  = [e \in Eps |-> TRUE]
    /\ masked = FALSE /\ other = FALSE
    /\ irqOn  = TRUE /\ crashed = FALSE
    /\ resets = 0 /\ configs = 0

-----------------------------------------------------------------------------
(* The host and the USB core. *)

\* A packet for an armed endpoint goes to the FIFO.  The driver never programs
\* DOEPTSIZ of these endpoints, so whether one packet ends the transfer (and
\* disarms the endpoint) is left to StaysArmed.
HostSends(e, m) ==
    /\ act[e] /\ armed[e]
    /\ Len(fifo) < RxFifoDepth
    /\ fifo' = Append(fifo, <<e, m>>)
    /\ \E stays \in StaysArmed : armed' = [armed EXCEPT ![e] = stays]
    /\ UNCHANGED <<mgrVars, data, taskVars, act, masked, other, irqOn, crashed, resets, configs>>

HostOut(e) ==
    /\ HostSends(e, sent[e])
    /\ sent' = [sent EXCEPT ![e] = IF @ + 1 \in SeqNos THEN @ + 1 ELSE 0]

\* Its transfer was as long as several packets: an empty one ends it.
HostOutEmpty(e) == SendsEmpty /\ HostSends(e, Empty) /\ UNCHANGED sent

\* Any other interrupt source: an IN transfer, suspend, the control endpoint.
RaiseOther ==
    /\ OtherIrqs /\ ~other
    /\ other' = TRUE
    /\ UNCHANGED <<mgrVars, data, taskVars, fifo, sent, act, armed, masked, irqOn, crashed, resets, configs>>

-----------------------------------------------------------------------------
(* Interrupt handler: poll(). *)

\* otghs2 tests every status bit in turn, and RXFLVL in GINTSTS, not GINTMSK:
\* an interrupt for another cause also pops the FIFO.  otghs serves one cause
\* per interrupt, RXFLVL last.
PollPops == /\ irqOn /\ ~crashed /\ fifo # <<>>
            /\ IF other THEN Otghs2 ELSE ~masked

\* After a packet was taken the endpoint is armed again if it got a new buffer;
\* on underrun it stays NAKed, and otghs2 masks RXFLVL.
RearmAlways(e) ==  \* a plausible bug: it is armed without a buffer
    /\ armed' = [armed EXCEPT ![e] = TRUE]
    /\ UNCHANGED masked
Rearm(e) ==
    /\ armed' = [armed EXCEPT ![e] = CanAllocate(e)]
    /\ masked' = (masked \/ (Otghs2 /\ ~CanAllocate(e)))

PollRx(e) ==
    /\ PollPops
    /\ Head(fifo)[1] = e /\ Head(fifo)[2] # Empty
    /\ fifo' = Tail(fifo)
    /\ other' = FALSE
    /\ IF active[e] = NoBuf
       THEN /\ crashed' = TRUE
            /\ UNCHANGED <<mgrVars, data, armed, masked>>
       ELSE /\ data' = [data EXCEPT ![e][active[e]] = Head(fifo)[2]]
            /\ EnqueueBuffer(e, active[e])
            /\ AllocateBuffer(e)
            /\ SetBuffer(e, Allocated(e))
            /\ Rearm(e)
            /\ UNCHANGED crashed
    /\ UNCHANGED <<taskVars, sent, act, irqOn, resets, configs>>

\* BCNT is 0: the packet is gone, no buffer is queued for it, and an endpoint that
\* it disarmed is not armed again.
PollEmpty(e) ==
    /\ PollPops
    /\ Head(fifo) = <<e, Empty>>
    /\ fifo' = Tail(fifo)
    /\ other' = FALSE
    /\ UNCHANGED <<mgrVars, data, taskVars, sent, act, armed, masked, irqOn, crashed, resets, configs>>

PollOther ==
    /\ irqOn /\ ~crashed /\ other
    /\ ~Otghs2 \/ fifo = <<>>
    /\ other' = FALSE
    /\ UNCHANGED <<mgrVars, data, taskVars, fifo, sent, act, armed, masked, irqOn, crashed, resets, configs>>

\* USBRST: endpoints unconfigured, FIFO flushed.  Neither the buffer manager nor
\* the RXFLVL mask is touched.
BusReset ==
    /\ irqOn /\ ~crashed /\ resets < MaxResets
    /\ resets' = resets + 1
    /\ fifo'  = <<>>
    /\ act'   = [e \in Eps |-> FALSE]
    /\ armed' = [e \in Eps |-> FALSE]
    /\ UNCHANGED <<mgrVars, data, taskVars, sent, masked, other, irqOn, crashed, configs>>

\* ep_config for an OUT endpoint arms it (EPENA, CNAK), buffer or not.
EpConfig(e) ==
    /\ configs < MaxConfigs /\ ~crashed
    /\ configs' = configs + 1
    /\ act'   = [act EXCEPT ![e] = TRUE]
    /\ armed' = [armed EXCEPT ![e] = TRUE]
    /\ UNCHANGED <<mgrVars, data, taskVars, fifo, sent, masked, other, irqOn, crashed, resets>>

-----------------------------------------------------------------------------
(* Application tasks. *)

TakeRxBuffer(t, e) ==
    /\ pc[t] = "idle" /\ ~crashed
    /\ e \in UsesEp[t]
    /\ DequeueBuffer(e)
    /\ buf' = [buf EXCEPT ![t] = Dequeued(e)]
    /\ ep'  = [ep EXCEPT ![t] = e]
    /\ pc'  = [pc EXCEPT ![t] = "reading"]
    /\ UNCHANGED <<pool, active, data, spare, coreVars, irqOn, crashed, resets, configs>>

\* wait_rx_buffer blocks until a buffer is queued.
NoWaitRxBuffer(t, e) == TakeRxBuffer(t, e)  \* a plausible bug: it does not wait
WaitRxBuffer(t, e)   == CanDequeue(e) /\ TakeRxBuffer(t, e)

GoTo(t, from, to) == /\ pc[t] = from /\ ~crashed
                     /\ pc' = [pc EXCEPT ![t] = to]

EnterRelease(t) ==
    /\ GoTo(t, "reading", "free")
    /\ irqOn' = IF Otghs2 THEN FALSE ELSE irqOn
    /\ UNCHANGED <<mgrVars, data, ep, buf, spare, coreVars, crashed, resets, configs>>

FreeBuffer(t) ==
    /\ GoTo(t, "free", "check")
    /\ ReleaseBuffer(ep[t], buf[t])
    /\ UNCHANGED <<active, queue, data, ep, buf, spare, coreVars, irqOn, crashed, resets, configs>>

CheckNothing(t) ==  \* a plausible bug: the active buffer is always replaced
    /\ GoTo(t, "check", "alloc")
    /\ UNCHANGED <<mgrVars, data, ep, buf, spare, coreVars, irqOn, crashed, resets, configs>>
CheckActive(t) ==
    /\ GoTo(t, "check", IF active[ep[t]] = NoBuf THEN "alloc" ELSE "leave")
    /\ UNCHANGED <<mgrVars, data, ep, buf, spare, coreVars, irqOn, crashed, resets, configs>>

AllocateActive(t) ==
    /\ GoTo(t, "alloc", "set")
    /\ AllocateBuffer(ep[t])
    /\ spare' = [spare EXCEPT ![t] = Allocated(ep[t])]
    /\ UNCHANGED <<active, queue, data, ep, buf, coreVars, irqOn, crashed, resets, configs>>

SetNothing(t) ==  \* a plausible bug: set_buffer is not called
    /\ GoTo(t, "set", "arm")
    /\ UNCHANGED <<mgrVars, data, ep, buf, spare, coreVars, irqOn, crashed, resets, configs>>
SetActive(t) ==
    /\ GoTo(t, "set", "arm")
    /\ SetBuffer(ep[t], spare[t])
    /\ UNCHANGED <<pool, queue, data, ep, buf, spare, coreVars, irqOn, crashed, resets, configs>>

\* Clear the NAK and enable the endpoint, whatever poll_allocate_buffer returned.
ArmNothing(t) ==  \* a plausible bug: the endpoint is left NAKed
    /\ GoTo(t, "arm", IF Otghs2 THEN "unmask" ELSE "leave")
    /\ UNCHANGED <<mgrVars, data, ep, buf, spare, coreVars, irqOn, crashed, resets, configs>>
ArmEndpoint(t) ==
    /\ GoTo(t, "arm", IF Otghs2 THEN "unmask" ELSE "leave")
    /\ armed' = [armed EXCEPT ![ep[t]] = TRUE]
    /\ UNCHANGED <<mgrVars, data, ep, buf, spare, fifo, sent, act, masked, other, irqOn, crashed, resets, configs>>

UnmaskNothing(t) ==  \* a plausible bug: RXFLVL stays masked
    /\ GoTo(t, "unmask", "leave")
    /\ UNCHANGED <<mgrVars, data, ep, buf, spare, coreVars, irqOn, crashed, resets, configs>>
UnmaskRxflvl(t) ==
    /\ GoTo(t, "unmask", "leave")
    /\ masked' = FALSE
    /\ UNCHANGED <<mgrVars, data, ep, buf, spare, fifo, sent, act, armed, other, irqOn, crashed, resets, configs>>

LeaveRelease(t) ==
    /\ GoTo(t, "leave", "idle")
    /\ irqOn' = IF Otghs2 THEN TRUE ELSE irqOn
    /\ buf'   = [buf EXCEPT ![t] = NoBuf]
    /\ spare' = [spare EXCEPT ![t] = NoBuf]
    /\ UNCHANGED <<mgrVars, data, ep, coreVars, crashed, resets, configs>>

ReleaseRxBuffer(t) ==
    \/ EnterRelease(t) \/ FreeBuffer(t)  \/ CheckActive(t)  \/ AllocateActive(t)
    \/ SetActive(t)    \/ ArmEndpoint(t) \/ UnmaskRxflvl(t) \/ LeaveRelease(t)

RxNext ==
    \/ \E t \in Tasks : ReleaseRxBuffer(t) \/ \E e \in Eps : WaitRxBuffer(t, e)
    \/ \E e \in Eps : HostOut(e) \/ HostOutEmpty(e) \/ PollRx(e) \/ PollEmpty(e) \/ EpConfig(e)
    \/ RaiseOther \/ PollOther \/ BusReset

\* The handler runs whenever it can run again and again (see TxPath); the
\* application fetches what is queued on each of its endpoints and gives every
\* buffer back.  The host need not send.
RxFairness ==
    /\ \A t \in Tasks : WF_vars(ReleaseRxBuffer(t))
    /\ \A t \in Tasks, e \in Eps : SF_vars(WaitRxBuffer(t, e))
    /\ \A e \in Eps : SF_vars(PollRx(e) \/ PollEmpty(e))

RxSpec     == RxInit /\ [][RxNext]_vars
RxFairSpec == RxSpec /\ RxFairness

-----------------------------------------------------------------------------
(* Properties. *)

\* The buffers in nobody's container: read by the application, or allocated by
\* release_rx_buffer and not yet active.
HeldBy(e) ==
    {buf[t]   : t \in {u \in Tasks : pc[u] \in {"reading", "free"} /\ ep[u] = e}}
    \cup ({spare[t] : t \in {u \in Tasks : pc[u] = "set" /\ ep[u] = e}} \ {NoBuf})

\* No endpoint is read by two tasks.
SingleReader == \A t, u \in Tasks : t # u => UsesEp[t] \cap UsesEp[u] = {}

\* Every receive buffer is in exactly one place: free, active, queued for the
\* application, or held by a task.  release_rx_buffer and poll() move buffers
\* concurrently and neither loses or duplicates one.
RxConserved == \A e \in Eps : Conserved(e, HeldBy(e))

\* poll() never pops a packet for an endpoint without an active buffer: it
\* would dereference the null pointer get_buffer() returns.
NoNullDeref == ~crashed

\* The comment in release_rx_buffer: an endpoint with no loaded OUT buffer
\* has its NAK set, so no packet is accepted that nothing can receive.
NullMeansNak ==
    \A e \in Eps : active[e] = NoBuf =>
        ~armed[e] /\ \A i \in DOMAIN fifo : fifo[i][1] # e

\* A received packet always finds room in the application's queue; poll() only
\* logs a failure, and the buffer would be leaked with the packet.
RxEnqueueNeverFails ==
    \A i \in DOMAIN fifo : LET e == fifo[i][1]
                           IN active[e] # NoBuf => CanEnqueue(e, active[e])

\* RXFLVL, which stops reception on every endpoint, is masked only while some
\* endpoint has no buffer (or a task has just provided it).
MaskedMeansUnderrun ==
    masked => \/ \E e \in Eps : active[e] = NoBuf
              \/ \E t \in Tasks : pc[t] \in {"arm", "unmask"}

\* "will allow reception to continue in event of buffer underrun": an endpoint
\* without a buffer is armed again once the application has given one back.
ReceptionResumes ==
    \A e \in Eps : (active[e] = NoBuf) ~> (active[e] # NoBuf /\ armed[e])

\* The packets with data for endpoint e in a FIFO q, in the order of their places.
PacketsOf(e, q) ==
    LET places == {i \in DOMAIN q : q[i][1] = e /\ q[i][2] # Empty}
        place(n) == CHOOSE i \in places : Cardinality({j \in places : j <= i}) = n
    IN  [n \in 1 .. Cardinality(places) |-> q[place(n)][2]]

\* The data the host has sent and the application not yet read: the queue, then the FIFO.
Arrived(e) == [i \in DOMAIN queue[e] |-> data[e][queue[e][i]]] \o PacketsOf(e, fifo)
Channel == INSTANCE FifoChannel WITH chan <- [e \in Eps |-> Arrived(e)], Msgs <- SeqNos
\* What the application reads from an endpoint is the data the host sent, in order,
\* each packet that has any once, and all of them, although every endpoint shares one
\* FIFO and one interrupt mask.  A packet without data is acknowledged and forgotten.
RxIsFifo == Channel!Spec
=============================================================================
