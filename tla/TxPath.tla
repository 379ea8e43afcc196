------------------------------- MODULE TxPath --------------------------------
(***************************************************************************)
(* The IN (device to host) half of the OTG drivers: application tasks call *)
(* wait_tx_buffer and enqueue_tx_buffer, the interrupt handler             *)
(* (handle_iepintx) returns the sent buffer and loads the next one, the    *)
(* host empties the endpoint FIFO, and a bus reset or a SET_CONFIGURATION  *)
(* reprograms the endpoint.                                                *)
(*                                                                         *)
(* Every statement of enqueue_tx_buffer that touches shared state is a     *)
(* step of its own, so a task can be preempted between any two of them;    *)
(* the handler is one step, because no task runs on the (single) core      *)
(* while it does.  Otghs2 selects the driver: otghs2 brackets the call     *)
(* with Scoped_ISR_Mask, the older otghs does not.                         *)
(***************************************************************************)
EXTENDS EpBufferMgr

CONSTANTS
    Tasks,      \* application tasks
    UsesEp,     \* UsesEp[t]: the endpoints task t writes to
    SeqNos,     \* a message is <<task, sequence number>>; numbers wrap in SeqNos
    Oversized,  \* sequence numbers of messages longer than the endpoint's FIFO
    Otghs2,     \* TRUE: otghs2, FALSE: otghs
    MaxResets,  \* bound: bus resets
    MaxConfigs  \* bound: ep_config calls, each from one SET_CONFIGURATION

ASSUME TxAssumption ==
    /\ Tasks # {} /\ UsesEp \in [Tasks -> SUBSET Eps]
    /\ SeqNos \subseteq Nat /\ 0 \in SeqNos
    /\ Otghs2 \in BOOLEAN

VARIABLES
    data,   \* [Eps -> [Buffers -> Msgs]]: what a buffer holds
    pc,     \* [Tasks -> ...]: where a task is in wait/fill/enqueue
    ep,     \* [Tasks -> Eps]: the endpoint of the call in progress
    buf,    \* [Tasks -> Buffers or NoBuf]: the caller's buf pointer
    next,   \* [Tasks -> SeqNos]: number of the next message
    hw,     \* [Eps -> record]: DIEPCTL bits and the FIFO of the IN endpoint
    xfrc,   \* endpoints whose DIEPINT.XFRC is set
    irqOn,  \* the OTG interrupt is enabled in the NVIC
    resets, configs \* counters for the two bounds

taskVars == <<pc, ep, buf, next>>
txVars   == <<data, pc, ep, buf, next, hw, xfrc, irqOn, resets, configs>>
vars     == <<pool, active, queue, data, pc, ep, buf, next, hw, xfrc, irqOn, resets, configs>>

Msgs == Tasks \X SeqNos
\* DIEPCTL's USBAEP, EPENA and NAK, and the packet in the FIFO.
InEndpoint == [act: BOOLEAN, ena: BOOLEAN, nak: BOOLEAN, msg: Msgs]
PcTx == {"idle", "filled", "check", "load", "write", "push", "leave"}

\* A task between wait_tx_buffer and the end of enqueue_tx_buffer has a buffer.
BufferInHand == \A t \in Tasks : pc[t] \notin {"idle", "leave"} => buf[t] # NoBuf

\* Types, and no task works with a null pointer.
TxTypeOK ==
    /\ MgrTypeOK
    /\ data \in [Eps -> [Buffers -> Msgs]]
    /\ pc   \in [Tasks -> PcTx]
    /\ ep   \in [Tasks -> Eps]
    /\ buf  \in [Tasks -> Buffers \cup {NoBuf}]
    /\ next \in [Tasks -> SeqNos]
    /\ hw   \in [Eps -> InEndpoint]
    /\ xfrc \subseteq Eps
    /\ irqOn \in BOOLEAN
    /\ resets \in Nat /\ configs \in Nat
    /\ BufferInHand

(***************************************************************************)
(* Start after enumeration: the manager as its constructor leaves it and   *)
(* every IN endpoint configured (ep_config writes USBAEP and SNAK).        *)
(***************************************************************************)
AnyMsg == CHOOSE m \in Msgs : TRUE

TxInit ==
    /\ pool   = [e \in Eps |-> FreeList]
    /\ active = [e \in Eps |-> NoBuf]
    /\ queue  = [e \in Eps |-> <<>>]
    /\ data   = [e \in Eps |-> [b \in Buffers |-> AnyMsg]]
    /\ pc     = [t \in Tasks |-> "idle"]
    /\ ep     \in [Tasks -> Eps]
    /\ \A t \in Tasks : UsesEp[t] # {} => ep[t] \in UsesEp[t]
    /\ buf    = [t \in Tasks |-> NoBuf]
    /\ next   = [t \in Tasks |-> 0]
    /\ hw     = [e \in Eps |-> [act |-> TRUE, ena |-> FALSE, nak |-> TRUE, msg |-> AnyMsg]]
    /\ xfrc   = {}
    /\ irqOn  = TRUE
    /\ resets = 0 /\ configs = 0

(***************************************************************************)
(* ep_write on an IN endpoint other than 0: it fails, changing nothing, if *)
(* the FIFO has no room or the endpoint is still enabled; otherwise it     *)
(* copies the packet and sets EPENA and CNAK.  No caller looks at the      *)
(* result.                                                                 *)
(***************************************************************************)
EpWriteKeepsNak(e, m) == \* a plausible bug: CNAK is not set
    hw' = [hw EXCEPT ![e] = IF @.ena THEN @ ELSE [@ EXCEPT !.ena = TRUE, !.msg = m]]
EpWrite(e, m) ==
    hw' = [hw EXCEPT ![e] = IF m[2] \in Oversized \/ @.ena
                            THEN @
                            ELSE [@ EXCEPT !.ena = TRUE, !.nak = FALSE, !.msg = m]]

-----------------------------------------------------------------------------
(* Application tasks. *)

TakeTxBuffer(t, e) ==
    /\ pc[t] = "idle"
    /\ e \in UsesEp[t]
    /\ AllocateBuffer(e)
    /\ data' = [data EXCEPT ![e][Allocated(e)] = <<t, next[t]>>]
    /\ buf'  = [buf EXCEPT ![t] = Allocated(e)]
    /\ ep'   = [ep EXCEPT ![t] = e]
    /\ next' = [next EXCEPT ![t] = IF @ + 1 \in SeqNos THEN @ + 1 ELSE 0]
    /\ pc'   = [pc EXCEPT ![t] = "filled"]
    /\ UNCHANGED <<active, queue, hw, xfrc, irqOn, resets, configs>>

\* wait_tx_buffer blocks until the pool has a buffer; the task then fills it.
NoWaitTxBuffer(t, e) == TakeTxBuffer(t, e)  \* a plausible bug: it does not wait
WaitTxBuffer(t, e)   == CanAllocate(e) /\ TakeTxBuffer(t, e)

\* enqueue_tx_buffer, entry: Scoped_ISR_Mask disables the interrupt.
EnterUnmasked(t) ==  \* a plausible bug: the mask is missing
    /\ pc[t] = "filled"
    /\ pc' = [pc EXCEPT ![t] = "check"]
    /\ UNCHANGED <<mgrVars, data, ep, buf, next, hw, xfrc, irqOn, resets, configs>>
EnterEnqueue(t) ==
    /\ pc[t] = "filled"
    /\ irqOn' = IF Otghs2 THEN FALSE ELSE irqOn
    /\ pc' = [pc EXCEPT ![t] = "check"]
    /\ UNCHANGED <<mgrVars, data, ep, buf, next, hw, xfrc, resets, configs>>

CheckNothing(t) ==  \* a plausible bug: the active buffer is always replaced
    /\ pc[t] = "check"
    /\ pc' = [pc EXCEPT ![t] = "load"]
    /\ UNCHANGED <<mgrVars, data, ep, buf, next, hw, xfrc, irqOn, resets, configs>>
CheckActive(t) ==
    /\ pc[t] = "check"
    /\ pc' = [pc EXCEPT ![t] = IF active[ep[t]] = NoBuf THEN "load" ELSE "push"]
    /\ UNCHANGED <<mgrVars, data, ep, buf, next, hw, xfrc, irqOn, resets, configs>>

LoadNothing(t) ==  \* a plausible bug: set_buffer is not called
    /\ pc[t] = "load"
    /\ pc' = [pc EXCEPT ![t] = "write"]
    /\ UNCHANGED <<mgrVars, data, ep, buf, next, hw, xfrc, irqOn, resets, configs>>
LoadActive(t) ==
    /\ pc[t] = "load"
    /\ SetBuffer(ep[t], buf[t])
    /\ pc' = [pc EXCEPT ![t] = "write"]
    /\ UNCHANGED <<pool, queue, data, ep, buf, next, hw, xfrc, irqOn, resets, configs>>

WriteActive(t) ==
    /\ pc[t] = "write"
    /\ EpWrite(ep[t], data[ep[t]][buf[t]])
    /\ pc' = [pc EXCEPT ![t] = "leave"]
    /\ UNCHANGED <<mgrVars, data, ep, buf, next, xfrc, irqOn, resets, configs>>

PushQueue(t) ==
    /\ pc[t] = "push"
    /\ EnqueueBuffer(ep[t], buf[t])
    /\ pc' = [pc EXCEPT ![t] = "leave"]
    /\ UNCHANGED <<pool, active, data, ep, buf, next, hw, xfrc, irqOn, resets, configs>>

\* The destructor of Scoped_ISR_Mask enables the interrupt, whoever else masked it.
LeaveEnqueue(t) ==
    /\ pc[t] = "leave"
    /\ irqOn' = IF Otghs2 THEN TRUE ELSE irqOn
    /\ buf' = [buf EXCEPT ![t] = NoBuf]
    /\ pc'  = [pc EXCEPT ![t] = "idle"]
    /\ UNCHANGED <<mgrVars, data, ep, next, hw, xfrc, resets, configs>>

EnqueueTxBuffer(t) ==
    \/ EnterEnqueue(t) \/ CheckActive(t) \/ LoadActive(t)
    \/ WriteActive(t)  \/ PushQueue(t)   \/ LeaveEnqueue(t)

-----------------------------------------------------------------------------
(* Interrupt handler and core thread. *)

\* handle_iepintx serves one endpoint per interrupt, the lowest numbered.
HandleIepint(e) ==
    /\ irqOn
    /\ e \in xfrc /\ \A f \in xfrc : e <= f
    /\ xfrc' = xfrc \ {e}
    /\ ReleaseBuffer(e, active[e])
    /\ DequeueBuffer(e)
    /\ SetBuffer(e, Dequeued(e))
    /\ IF CanDequeue(e)
       THEN EpWrite(e, data[e][Dequeued(e)])
       ELSE hw' = [hw EXCEPT ![e].nak = TRUE]
    /\ UNCHANGED <<data, taskVars, irqOn, resets, configs>>

\* USBRST, handle_reset_done: every endpoint unconfigured (USBAEP cleared,
\* FIFO flushed, transfer disabled, DIEPINT cleared).  The buffer manager is
\* not told.
BusReset ==
    /\ irqOn
    /\ resets < MaxResets
    /\ resets' = resets + 1
    /\ hw' = [e \in Eps |-> [hw[e] EXCEPT !.act = FALSE, !.ena = FALSE]]
    /\ xfrc' = {}
    /\ UNCHANGED <<mgrVars, data, taskVars, irqOn, configs>>

\* ep_config for an IN endpoint, called while SET_CONFIGURATION is handled:
\* DIEPCTL is rewritten with USBAEP and SNAK; EPENA is cleared only by the core.
EpConfig(e) ==
    /\ configs < MaxConfigs
    /\ configs' = configs + 1
    /\ hw' = [hw EXCEPT ![e].act = TRUE, ![e].nak = TRUE]
    /\ UNCHANGED <<mgrVars, data, taskVars, xfrc, irqOn, resets>>

-----------------------------------------------------------------------------
(* The host and the USB core: an IN token on a loaded endpoint. *)
HostIn(e) ==
    /\ hw[e].act /\ hw[e].ena /\ ~hw[e].nak
    /\ hw' = [hw EXCEPT ![e].ena = FALSE]
    /\ xfrc' = xfrc \cup {e}
    /\ UNCHANGED <<mgrVars, data, taskVars, irqOn, resets, configs>>

TxNext ==
    \/ \E t \in Tasks : EnqueueTxBuffer(t) \/ \E e \in Eps : WaitTxBuffer(t, e)
    \/ \E e \in Eps : HandleIepint(e) \/ EpConfig(e) \/ HostIn(e)
    \/ BusReset

\* A task inside the driver is scheduled again and the host keeps polling every
\* endpoint.  An interrupt stays pending while tasks mask it and while lower
\* endpoints are served; one that could be taken again and again is taken, hence
\* strong fairness.  A task need not send.
TxFairness ==
    /\ \A t \in Tasks : WF_vars(EnqueueTxBuffer(t))
    /\ \A e \in Eps : SF_vars(HandleIepint(e)) /\ WF_vars(HostIn(e))

TxSpec     == TxInit /\ [][TxNext]_vars
TxFairSpec == TxSpec /\ TxFairness

-----------------------------------------------------------------------------
(* Properties. *)

\* A task owns buf[t] from wait_tx_buffer until it hands it over.
Owns(t) == pc[t] \in {"filled", "check", "load", "push"}
HeldBy(e) == {buf[t] : t \in {u \in Tasks : Owns(u) /\ ep[u] = e}}

\* No endpoint is written by two tasks.
SingleWriter == \A t, u \in Tasks : t # u => UsesEp[t] \cap UsesEp[u] = {}

\* Every transmit buffer is in exactly one place: free, queued, active, or
\* with the task filling it.  Nothing is leaked, duplicated or handed out while
\* in use, however enqueue_tx_buffer, handle_iepintx, resets and reconfigurations
\* interleave.
TxConserved == \A e \in Eps : Conserved(e, HeldBy(e))

\* enqueue_tx_buffer never meets a full queue, so its error return (and the
\* buffer that would then belong to nobody) cannot happen.
TxEnqueueNeverFails ==
    \A t \in Tasks : pc[t] = "push" => CanEnqueue(ep[t], buf[t])

\* A queued buffer waits behind an active one: only the completion of the
\* active buffer ever dequeues, so without it the queue is stuck.
QueuedBehindActive ==
    \A e \in Eps : queue[e] # <<>> => active[e] # NoBuf

\* An active buffer is in the endpoint's FIFO with the endpoint enabled, or
\* its completion is pending, unless its task is about to write it.  This is
\* what get_buffer() # nullptr means to enqueue_tx_buffer.
ActiveIsLoaded ==
    \A e \in Eps : active[e] # NoBuf =>
        \/ hw[e].act /\ hw[e].ena /\ ~hw[e].nak
        \/ e \in xfrc
        \/ \E t \in Tasks : pc[t] = "write" /\ ep[t] = e

\* The comment in enqueue_tx_buffer: when get_buffer() is nullptr the endpoint
\* has no loaded IN buffer, which means that NAK is set.
NullMeansNotLoaded ==
    \A e \in Eps : active[e] = NoBuf => ~hw[e].ena /\ hw[e].nak

\* What is accepted and not yet read by the host: the loaded packet, then the queue.
InFlight(e) ==
    (IF hw[e].ena THEN <<hw[e].msg>> ELSE <<>>)
        \o [i \in DOMAIN queue[e] |-> data[e][queue[e][i]]]
Channel == INSTANCE FifoChannel WITH chan <- [e \in Eps |-> InFlight(e)]
\* The lossless FIFO the application relies on: what the host reads from an
\* endpoint is what was enqueued, in order, each message once, and all of it.
TxIsFifo == Channel!Spec
=============================================================================
