---------------------------- MODULE TxFifoProofs -----------------------------
(***************************************************************************)
(* What an active buffer means on the IN endpoints, and that they carry    *)
(* messages without loss: proofs that build on the invariant TxInv of      *)
(* TxPathProofs.  Each result names the least it needs: one writer per     *)
(* endpoint, one masked task, or hardware without faults.                  *)
(***************************************************************************)
EXTENDS TxPathProofs

\* One application task, so that Scoped_ISR_Mask need not nest.
OneTask == \A t, u \in Tasks : t = u

\* No reset, no reconfiguration, no packet longer than its FIFO.
NoFaults == Oversized = {} /\ MaxResets = 0 /\ MaxConfigs = 0

LEMMA OneTaskIsSingleWriter == OneTask => SingleWriter
  BY DEF OneTask, SingleWriter

\* ep_write of a packet that fits, on an endpoint that is not enabled.
LEMMA EpWriteLoads ==
    ASSUME TxTypeOK, NEW e \in Eps, NEW m \in Msgs, EpWrite(e, m),
           ~hw[e].ena, m[2] \notin Oversized
    PROVE  /\ hw'[e].ena /\ ~hw'[e].nak /\ hw'[e].msg = m /\ hw'[e].act = hw[e].act
           /\ \A f \in Eps \ {e} : hw'[f] = hw[f]
<1>1. hw[e] \in InEndpoint /\ hw \in [Eps -> InEndpoint]
  BY DEF TxTypeOK
<1>2. hw' = [hw EXCEPT ![e] = [hw[e] EXCEPT !.ena = TRUE, !.nak = FALSE, !.msg = m]]
  BY DEF EpWrite
<1>3. hw'[e] = [hw[e] EXCEPT !.ena = TRUE, !.nak = FALSE, !.msg = m]
  BY <1>1, <1>2
<1>. QED BY <1>1, <1>2, <1>3 DEF InEndpoint

\* What the steps around ep_write do to the registers.
LEMMA HostInUnloads ==
    ASSUME TxTypeOK, NEW e \in Eps, HostIn(e)
    PROVE  /\ hw[e].act /\ hw[e].ena /\ ~hw[e].nak
           /\ ~hw'[e].ena /\ hw'[e].nak = hw[e].nak /\ hw'[e].act = hw[e].act
           /\ \A f \in Eps \ {e} : hw'[f] = hw[f]
           /\ xfrc' = xfrc \cup {e} /\ UNCHANGED <<pool, active, queue, data, taskVars, irqOn>>
<1>1. hw[e] \in InEndpoint /\ hw \in [Eps -> InEndpoint]
  BY DEF TxTypeOK
<1>2. hw' = [hw EXCEPT ![e] = [hw[e] EXCEPT !.ena = FALSE]]
  BY DEF HostIn
<1>3. hw'[e] = [hw[e] EXCEPT !.ena = FALSE]
  BY <1>1, <1>2
<1>. QED BY <1>1, <1>2, <1>3 DEF InEndpoint, HostIn, mgrVars, taskVars

LEMMA BusResetUnloads ==
    ASSUME TxTypeOK, BusReset
    PROVE  /\ \A f \in Eps : ~hw'[f].ena /\ hw'[f].nak = hw[f].nak
           /\ UNCHANGED <<pool, active, queue, data, taskVars, irqOn>> /\ irqOn
<1>1. \A f \in Eps : hw[f] \in InEndpoint
  BY DEF TxTypeOK
<1>2. \A f \in Eps : hw'[f] = [hw[f] EXCEPT !.act = FALSE, !.ena = FALSE]
  BY DEF BusReset
<1>. QED BY <1>1, <1>2 DEF BusReset, InEndpoint, mgrVars, taskVars

LEMMA EpConfigKeepsLoaded ==
    ASSUME TxTypeOK, NEW e \in Eps, EpConfig(e)
    PROVE  /\ hw'[e].ena = hw[e].ena /\ hw'[e].nak
           /\ \A f \in Eps \ {e} : hw'[f] = hw[f]
           /\ UNCHANGED <<pool, active, queue, data, taskVars, irqOn>>
<1>1. hw[e] \in InEndpoint /\ hw \in [Eps -> InEndpoint]
  BY DEF TxTypeOK
<1>2. hw' = [hw EXCEPT ![e] = [hw[e] EXCEPT !.act = TRUE, !.nak = TRUE]]
  BY DEF EpConfig
<1>3. hw'[e] = [hw[e] EXCEPT !.act = TRUE, !.nak = TRUE]
  BY <1>1, <1>2
<1>. QED BY <1>1, <1>2, <1>3 DEF InEndpoint, EpConfig, mgrVars, taskVars

\* handle_iepintx: the completed buffer goes back, the queue's first is written.
LEMMA IepintStep ==
    ASSUME TxInv, NEW e \in Eps, HandleIepint(e)
    PROVE  /\ irqOn /\ e \in xfrc /\ xfrc' = xfrc \ {e} /\ ~hw[e].ena
           /\ \A f \in Eps : active'[f] = IF f = e THEN Dequeued(e) ELSE active[f]
           /\ \A f \in Eps : queue'[f] =
                IF f = e /\ queue[e] # <<>> THEN Tail(queue[e]) ELSE queue[f]
           /\ \A f \in Eps \ {e} : hw'[f] = hw[f]
           /\ queue[e] # <<>> =>
                /\ Dequeued(e) = Head(queue[e]) /\ Dequeued(e) \in Buffers
                /\ Dequeued(e) # NoBuf
                /\ data[e][Dequeued(e)] \in Msgs /\ EpWrite(e, data[e][Dequeued(e)])
           /\ queue[e] = <<>> =>
                Dequeued(e) = NoBuf /\ ~hw'[e].ena /\ hw'[e].nak /\ hw'[e].act = hw[e].act
           /\ UNCHANGED <<data, pc, ep, buf, irqOn, resets, configs>>
<1>1. /\ irqOn /\ e \in xfrc /\ xfrc' = xfrc \ {e} /\ ~hw[e].ena
      /\ UNCHANGED <<data, pc, ep, buf, irqOn, resets, configs>>
  BY DEF HandleIepint, TxInv, LoadedIsActive, taskVars
<1>2. /\ \A f \in Eps : active'[f] = IF f = e THEN Dequeued(e) ELSE active[f]
      /\ \A f \in Eps : queue'[f] =
                IF f = e /\ queue[e] # <<>> THEN Tail(queue[e]) ELSE queue[f]
  BY DEF HandleIepint, SetBuffer, DequeueBuffer, CanDequeue, TxInv, TxTypeOK, MgrTypeOK
<1>3. \A f \in Eps \ {e} : hw'[f] = hw[f]
  BY DEF HandleIepint, EpWrite, TxInv, TxTypeOK
<1>4. ASSUME queue[e] # <<>>
      PROVE  /\ Dequeued(e) = Head(queue[e]) /\ Dequeued(e) \in Buffers
             /\ Dequeued(e) # NoBuf
             /\ data[e][Dequeued(e)] \in Msgs /\ EpWrite(e, data[e][Dequeued(e)])
  BY <1>4, TailContains, BuffersAssumption
     DEF HandleIepint, CanDequeue, Dequeued, TxInv, TxTypeOK, MgrTypeOK
<1>5. ASSUME queue[e] = <<>>
      PROVE  Dequeued(e) = NoBuf /\ ~hw'[e].ena /\ hw'[e].nak /\ hw'[e].act = hw[e].act
  <2>1. hw[e] \in InEndpoint /\ hw \in [Eps -> InEndpoint]
    BY DEF TxInv, TxTypeOK
  <2>2. hw' = [hw EXCEPT ![e] = [hw[e] EXCEPT !.nak = TRUE]] /\ Dequeued(e) = NoBuf
    BY <1>5 DEF HandleIepint, CanDequeue, Dequeued
  <2>3. hw'[e] = [hw[e] EXCEPT !.nak = TRUE]
    BY <2>1, <2>2
  <2>. QED BY <1>1, <2>1, <2>2, <2>3 DEF InEndpoint
<1>. QED BY <1>1, <1>2, <1>3, <1>4, <1>5

-----------------------------------------------------------------------------
(* The comment of enqueue_tx_buffer: nullptr means NAK. *)

LEMMA NullMeansNotLoadedStep ==
    ASSUME SingleWriter, TxInv, TxInv', NullMeansNotLoaded, [TxNext]_vars
    PROVE  NullMeansNotLoaded'
<1>0. \A e \in Eps : active'[e] = NoBuf => ~hw'[e].ena
  BY DEF TxInv, LoadedIsActive
<1>. SUFFICES ASSUME NEW e \in Eps, active'[e] = NoBuf PROVE hw'[e].nak
  BY <1>0 DEF NullMeansNotLoaded
<1>1. ASSUME NEW t \in Tasks, EnqueueTxBuffer(t) PROVE hw'[e].nak
  <2>1. CASE WriteActive(t)
    <3>1. active' = active /\ active[ep[t]] = buf[t] /\ buf[t] # NoBuf /\ ep[t] \in Eps
      BY <2>1 DEF WriteActive, mgrVars, TxInv, CheckStillHolds, TxTypeOK, BufferInHand
    <3>2. e # ep[t] /\ hw'[e] = hw[e]
      BY <2>1, <3>1 DEF WriteActive, EpWrite, TxInv, TxTypeOK
    <3>. QED BY <3>1, <3>2 DEF NullMeansNotLoaded
  <2>2. CASE LoadActive(t)
    <3>1. hw' = hw /\ active' = [active EXCEPT ![ep[t]] = buf[t]] /\ buf[t] # NoBuf
      BY <2>2 DEF LoadActive, SetBuffer, TxInv, TxTypeOK, BufferInHand
    <3>2. active[e] = NoBuf
      BY <3>1 DEF TxInv, TxTypeOK, MgrTypeOK
    <3>. QED BY <3>1, <3>2 DEF NullMeansNotLoaded
  <2>3. CASE EnterEnqueue(t) \/ CheckActive(t) \/ PushQueue(t) \/ LeaveEnqueue(t)
    BY <2>3 DEF EnterEnqueue, CheckActive, PushQueue, LeaveEnqueue, mgrVars, NullMeansNotLoaded
  <2>. QED BY <1>1, <2>1, <2>2, <2>3 DEF EnqueueTxBuffer
<1>2. ASSUME NEW f \in Eps, HandleIepint(f) PROVE hw'[e].nak
  BY <1>2, IepintStep DEF NullMeansNotLoaded
<1>3. ASSUME NEW f \in Eps, HostIn(f) PROVE hw'[e].nak
  BY <1>3, HostInUnloads DEF NullMeansNotLoaded, TxInv
<1>4. ASSUME NEW f \in Eps, EpConfig(f) PROVE hw'[e].nak
  BY <1>4, EpConfigKeepsLoaded DEF NullMeansNotLoaded, TxInv
<1>5. CASE BusReset
  BY <1>5, BusResetUnloads DEF NullMeansNotLoaded, TxInv
<1>6. ASSUME NEW t \in Tasks, NEW f \in Eps, WaitTxBuffer(t, f) PROVE hw'[e].nak
  BY <1>6 DEF WaitTxBuffer, TakeTxBuffer, NullMeansNotLoaded
<1>7. CASE UNCHANGED vars
  BY <1>7 DEF vars, NullMeansNotLoaded
<1>. QED BY <1>1, <1>2, <1>3, <1>4, <1>5, <1>6, <1>7 DEF TxNext

\* When get_buffer() is nullptr the endpoint is not enabled and NAKs, as the
\* comment in enqueue_tx_buffer has it: on both drivers, across resets,
\* reconfigurations and packets that do not fit, if no endpoint has two writers.
THEOREM NullIsNotLoaded == SingleWriter /\ TxSpec => []NullMeansNotLoaded
<1>. SUFFICES ASSUME SingleWriter PROVE TxSpec => []NullMeansNotLoaded
  OBVIOUS
<1>1. TxInit => NullMeansNotLoaded
  BY DEF TxInit, NullMeansNotLoaded
<1>2. TxInv /\ TxInv' /\ NullMeansNotLoaded /\ [TxNext]_vars => NullMeansNotLoaded'
  BY NullMeansNotLoadedStep
<1>. QED BY <1>1, <1>2, TxInvariant, PTL DEF TxSpec

-----------------------------------------------------------------------------
(* Without faults an active buffer is on its way to the host. *)

\* No endpoint is ever taken down, since nothing resets the bus.
Up == (\A e \in Eps : hw[e].act) /\ resets = 0 /\ configs = 0

LEMMA ActiveIsLoadedStep ==
    ASSUME SingleWriter, NoFaults, TxInv, Up, ActiveIsLoaded, [TxNext]_vars
    PROVE  Up' /\ ActiveIsLoaded'
<1>. USE DEF TxInv, TxTypeOK, MgrTypeOK
<1>0. ~BusReset /\ \A f \in Eps : ~EpConfig(f)
  BY DEF NoFaults, Up, BusReset, EpConfig
<1>a. ASSUME UNCHANGED <<active, hw, xfrc, resets, configs>>,
             \A t \in Tasks : (pc[t] = "write" => pc'[t] = "write" /\ ep'[t] = ep[t])
      PROVE  Up' /\ ActiveIsLoaded'
  BY <1>a DEF Up, ActiveIsLoaded
<1>1. ASSUME NEW t \in Tasks, EnqueueTxBuffer(t) PROVE Up' /\ ActiveIsLoaded'
  <2>1. CASE WriteActive(t)
    <3>1. /\ UNCHANGED <<active, xfrc, ep, resets, configs>>
          /\ pc' = [pc EXCEPT ![t] = "leave"]
          /\ buf[t] \in Buffers /\ ep[t] \in Eps /\ ~hw[ep[t]].ena
      BY <2>1 DEF WriteActive, mgrVars, CheckStillHolds, BufferInHand
    <3>2. /\ hw'[ep[t]].ena /\ ~hw'[ep[t]].nak /\ hw'[ep[t]].act
          /\ \A f \in Eps \ {ep[t]} : hw'[f] = hw[f]
      <4>1. /\ data[ep[t]][buf[t]] \in Msgs /\ EpWrite(ep[t], data[ep[t]][buf[t]])
            /\ data[ep[t]][buf[t]][2] \notin Oversized
        BY <2>1, <3>1 DEF WriteActive, NoFaults
      <4>2. hw[ep[t]].act
        BY <3>1 DEF Up
      <4>. QED BY <3>1, <4>1, <4>2, EpWriteLoads
    <3>. QED BY <3>1, <3>2 DEF Up, ActiveIsLoaded
  <2>2. CASE LoadActive(t)
    <3>1. /\ UNCHANGED <<hw, xfrc, ep, resets, configs>>
          /\ active' = [active EXCEPT ![ep[t]] = buf[t]]
          /\ pc' = [pc EXCEPT ![t] = "write"] /\ ep[t] \in Eps
          /\ pc[t] = "load"
      BY <2>2 DEF LoadActive, SetBuffer
    <3>. QED BY <3>1 DEF Up, ActiveIsLoaded
  <2>3. CASE EnterEnqueue(t) \/ CheckActive(t) \/ PushQueue(t) \/ LeaveEnqueue(t)
    BY <1>a, <2>3 DEF EnterEnqueue, CheckActive, PushQueue, LeaveEnqueue, mgrVars
  <2>. QED BY <1>1, <2>1, <2>2, <2>3 DEF EnqueueTxBuffer
<1>2. ASSUME NEW f \in Eps, HandleIepint(f) PROVE Up' /\ ActiveIsLoaded'
  <2>1. queue[f] # <<>> => /\ hw'[f].ena /\ ~hw'[f].nak /\ hw'[f].act = hw[f].act
    <3>. SUFFICES ASSUME queue[f] # <<>>
                  PROVE  hw'[f].ena /\ ~hw'[f].nak /\ hw'[f].act = hw[f].act
      OBVIOUS
    <3>1. /\ data[f][Dequeued(f)] \in Msgs /\ EpWrite(f, data[f][Dequeued(f)])
          /\ data[f][Dequeued(f)][2] \notin Oversized /\ ~hw[f].ena
      BY <1>2, IepintStep DEF NoFaults
    <3>. QED BY <3>1, EpWriteLoads
  <2>2. /\ UNCHANGED <<pc, ep, resets, configs>> /\ xfrc' = xfrc \ {f}
        /\ \A g \in Eps \ {f} : active'[g] = active[g] /\ hw'[g] = hw[g]
        /\ queue[f] = <<>> => active'[f] = NoBuf /\ hw'[f].act = hw[f].act
    BY <1>2, IepintStep
  <2>. QED BY <2>1, <2>2 DEF Up, ActiveIsLoaded
<1>3. ASSUME NEW f \in Eps, HostIn(f) PROVE Up' /\ ActiveIsLoaded'
  <2>1. resets' = resets /\ configs' = configs /\ pc' = pc /\ ep' = ep
    BY <1>3 DEF HostIn, taskVars
  <2>. QED BY <1>3, <2>1, HostInUnloads DEF Up, ActiveIsLoaded
<1>4. ASSUME NEW t \in Tasks, NEW f \in Eps, WaitTxBuffer(t, f) PROVE Up' /\ ActiveIsLoaded'
  BY <1>a, <1>4 DEF WaitTxBuffer, TakeTxBuffer
<1>5. CASE UNCHANGED vars
  BY <1>a, <1>5 DEF vars
<1>. QED BY <1>0, <1>1, <1>2, <1>3, <1>4, <1>5 DEF TxNext

\* An active buffer is in the enabled endpoint's FIFO or its completion is
\* pending, unless its task is about to write it: on both drivers, with any
\* number of tasks, if nothing resets the bus and every packet fits its FIFO.
THEOREM ActiveWasLoaded == SingleWriter /\ NoFaults /\ TxSpec => []ActiveIsLoaded
<1>. SUFFICES ASSUME SingleWriter, NoFaults PROVE TxSpec => []ActiveIsLoaded
  OBVIOUS
<1>1. TxInit => Up /\ ActiveIsLoaded
  BY DEF TxInit, Up, ActiveIsLoaded
<1>2. TxInv /\ (Up /\ ActiveIsLoaded) /\ [TxNext]_vars => (Up /\ ActiveIsLoaded)'
  BY ActiveIsLoadedStep
<1>. QED BY <1>1, <1>2, TxInvariant, PTL DEF TxSpec

-----------------------------------------------------------------------------
(* One masked task: nothing is queued behind nobody. *)

\* While the task is in enqueue_tx_buffer the interrupt is off, so what it saw
\* of the manager stays so.
Masked == \A t \in Tasks : pc[t] \in {"check", "load", "write", "push", "leave"} => ~irqOn
PushBehind == \A t \in Tasks : pc[t] = "push" => active[ep[t]] # NoBuf
WriteAlone == \A t \in Tasks : pc[t] = "write" => queue[ep[t]] = <<>>
SerialInv == Masked /\ PushBehind /\ WriteAlone /\ QueuedBehindActive

LEMMA EnqueueTxBufferSerial ==
    ASSUME OneTask, Otghs2, TxInv, SerialInv, NEW t \in Tasks, EnqueueTxBuffer(t)
    PROVE  SerialInv'
<1>. USE DEF TxInv, TxTypeOK, MgrTypeOK, SerialInv, Masked, PushBehind, WriteAlone,
             QueuedBehindActive
<1>0. \A u \in Tasks : u = t
  BY DEF OneTask
<1>1. CASE EnterEnqueue(t)
  BY <1>0, <1>1 DEF EnterEnqueue, mgrVars
<1>2. CASE CheckActive(t)
  BY <1>0, <1>2 DEF CheckActive, mgrVars
<1>3. CASE LoadActive(t)
  <2>1. /\ active[ep[t]] = NoBuf /\ ep[t] \in Eps /\ buf[t] # NoBuf
        /\ active' = [active EXCEPT ![ep[t]] = buf[t]] /\ pc' = [pc EXCEPT ![t] = "write"]
        /\ UNCHANGED <<queue, ep, irqOn>> /\ pc[t] = "load"
    BY <1>3 DEF LoadActive, SetBuffer, CheckStillHolds, BufferInHand
  <2>2. queue[ep[t]] = <<>>
    BY <2>1
  <2>. QED BY <1>0, <2>1, <2>2
<1>4. CASE WriteActive(t)
  BY <1>0, <1>4 DEF WriteActive, mgrVars
<1>5. CASE PushQueue(t)
  <2>1. /\ pc[t] = "push" /\ pc' = [pc EXCEPT ![t] = "leave"]
        /\ UNCHANGED <<active, ep, irqOn>> /\ ep[t] \in Eps
        /\ \A f \in Eps \ {ep[t]} : queue'[f] = queue[f]
    BY <1>5 DEF PushQueue, EnqueueBuffer
  <2>. QED BY <1>0, <2>1
<1>6. CASE LeaveEnqueue(t)
  BY <1>0, <1>6 DEF LeaveEnqueue, mgrVars
<1>. QED BY <1>1, <1>2, <1>3, <1>4, <1>5, <1>6 DEF EnqueueTxBuffer

LEMMA SerialStep ==
    ASSUME OneTask, Otghs2, TxInv, SerialInv, [TxNext]_vars
    PROVE  SerialInv'
<1>a. ASSUME UNCHANGED <<pc, ep, active, queue, irqOn>> PROVE SerialInv'
  BY <1>a DEF SerialInv, Masked, PushBehind, WriteAlone, QueuedBehindActive
<1>1. ASSUME NEW t \in Tasks, EnqueueTxBuffer(t) PROVE SerialInv'
  BY <1>1, EnqueueTxBufferSerial
<1>2. ASSUME NEW e \in Eps, HandleIepint(e) PROVE SerialInv'
  <2>1. \A t \in Tasks : pc[t] \notin {"check", "load", "write", "push", "leave"}
    BY <1>2, IepintStep DEF SerialInv, Masked
  <2>2. \A f \in Eps : queue'[f] # <<>> => active'[f] # NoBuf
    <3>. SUFFICES ASSUME NEW f \in Eps, queue'[f] # <<>> PROVE active'[f] # NoBuf
      OBVIOUS
    <3>1. CASE f = e
      BY <1>2, <3>1, IepintStep
    <3>2. CASE f # e
      BY <1>2, <3>2, IepintStep DEF SerialInv, QueuedBehindActive
    <3>. QED BY <3>1, <3>2
  <2>3. UNCHANGED <<pc, ep, irqOn>>
    BY <1>2, IepintStep
  <2>. QED BY <2>1, <2>2, <2>3
           DEF SerialInv, Masked, PushBehind, WriteAlone, QueuedBehindActive
<1>3. ASSUME NEW f \in Eps, HostIn(f) PROVE SerialInv'
  BY <1>a, <1>3 DEF HostIn, mgrVars, taskVars
<1>4. ASSUME NEW f \in Eps, EpConfig(f) PROVE SerialInv'
  BY <1>a, <1>4 DEF EpConfig, mgrVars, taskVars
<1>5. CASE BusReset
  BY <1>a, <1>5 DEF BusReset, mgrVars, taskVars
<1>6. ASSUME NEW t \in Tasks, NEW f \in Eps, WaitTxBuffer(t, f) PROVE SerialInv'
  <2>1. \A u \in Tasks : u = t
    BY DEF OneTask
  <2>2. UNCHANGED <<active, queue, irqOn>> /\ pc' = [pc EXCEPT ![t] = "filled"]
    BY <1>6 DEF WaitTxBuffer, TakeTxBuffer
  <2>. QED BY <2>1, <2>2 DEF SerialInv, Masked, PushBehind, WriteAlone, QueuedBehindActive,
                             TxInv, TxTypeOK
<1>7. CASE UNCHANGED vars
  BY <1>a, <1>7 DEF vars
<1>. QED BY <1>1, <1>2, <1>3, <1>4, <1>5, <1>6, <1>7 DEF TxNext

LEMMA SerialInvariant == OneTask /\ Otghs2 /\ TxSpec => [](TxInv /\ SerialInv)
<1>. SUFFICES ASSUME OneTask, Otghs2 PROVE TxSpec => [](TxInv /\ SerialInv)
  OBVIOUS
<1>1. TxInit => SerialInv
  BY DEF TxInit, SerialInv, Masked, PushBehind, WriteAlone, QueuedBehindActive
<1>2. TxInv /\ SerialInv /\ [TxNext]_vars => SerialInv'
  BY SerialStep
<1>3. SingleWriter
  BY OneTaskIsSingleWriter
<1>. QED BY <1>1, <1>2, <1>3, TxInvariant, PTL DEF TxSpec

\* In otghs2 a queued buffer always waits behind an active one, whose completion
\* will dequeue it: no buffer is stranded in the queue, with one application task
\* and any number of endpoints, resets and reconfigurations.
THEOREM NothingStranded == OneTask /\ Otghs2 /\ TxSpec => []QueuedBehindActive
<1>1. SerialInv => QueuedBehindActive
  BY DEF SerialInv
<1>. QED BY <1>1, SerialInvariant, PTL

-----------------------------------------------------------------------------
(***************************************************************************)
(* The safety part of TxIsFifo: what is accepted reaches the host once and *)
(* in order.                                                               *)
(***************************************************************************)
\* The messages in an endpoint with registers h, queue q and buffer contents d.
Flight(h, q, d) == IF h.ena THEN <<h.msg>> \o Carried(q, d) ELSE Carried(q, d)

LEMMA FlightIs ==
    ASSUME NEW h \in InEndpoint, NEW q \in Seq(Buffers), NEW d \in [Buffers -> Msgs]
    PROVE  (IF h.ena THEN <<h.msg>> ELSE <<>>) \o [i \in DOMAIN q |-> d[q[i]]] = Flight(h, q, d)
<1>1. [i \in DOMAIN q |-> d[q[i]]] = Carried(q, d) /\ Carried(q, d) \in Seq(Msgs)
  BY CarriedIsSeq DEF Carried
<1>2. <<>> \o Carried(q, d) = Carried(q, d)
  BY <1>1, ConcatEmptySeq
<1>. QED BY <1>1, <1>2 DEF Flight

LEMMA InFlightIs ==
    ASSUME TxTypeOK, TxTypeOK', NEW e \in Eps
    PROVE  /\ InFlight(e) = Flight(hw[e], queue[e], data[e])
           /\ InFlight(e)' = Flight(hw'[e], queue'[e], data'[e])
<1>1. /\ hw[e] \in InEndpoint /\ queue[e] \in Seq(Buffers) /\ data[e] \in [Buffers -> Msgs]
      /\ hw'[e] \in InEndpoint /\ queue'[e] \in Seq(Buffers) /\ data'[e] \in [Buffers -> Msgs]
  BY DEF TxTypeOK, MgrTypeOK
<1>2. InFlight(e) = Flight(hw[e], queue[e], data[e])
  BY <1>1, FlightIs DEF InFlight
<1>3. InFlight(e)' = Flight(hw'[e], queue'[e], data'[e])
  BY <1>1, FlightIs DEF InFlight
<1>. QED BY <1>2, <1>3

\* A step at one endpoint that leaves all messages where they are.
Stays(e) == InFlight(e)' = InFlight(e)
Accepts(e) == \E m \in Msgs : InFlight(e)' = Append(InFlight(e), m)
Delivers(e) == InFlight(e) # <<>> /\ InFlight(e)' = Tail(InFlight(e))

LEMMA EnqueueTxBufferFlight ==
    ASSUME OneTask, NoFaults, TxInv, TxInv', SerialInv, NEW t \in Tasks, EnqueueTxBuffer(t),
           NEW e \in Eps
    PROVE  Stays(e) \/ (e = ep[t] /\ Accepts(e))
<1>1. TxTypeOK /\ TxTypeOK'
  BY DEF TxInv
<1>2. /\ InFlight(e) = Flight(hw[e], queue[e], data[e])
      /\ InFlight(e)' = Flight(hw'[e], queue'[e], data'[e])
  BY <1>1, InFlightIs
<1>a. UNCHANGED <<hw, queue, data>> => Stays(e)
  BY <1>2 DEF Stays
<1>b. /\ ep[t] \in Eps /\ data[ep[t]] \in [Buffers -> Msgs] /\ queue[ep[t]] \in Seq(Buffers)
      /\ hw[ep[t]] \in InEndpoint
      /\ pc[t] \in {"push", "write"} => buf[t] \in Buffers
  BY DEF TxInv, TxTypeOK, MgrTypeOK, BufferInHand
<1>3. CASE WriteActive(t)
  <2>1. /\ UNCHANGED <<queue, data>> /\ queue[ep[t]] = <<>> /\ ~hw[ep[t]].ena /\ pc[t] = "write"
        /\ EpWrite(ep[t], data[ep[t]][buf[t]])
    BY <1>3 DEF WriteActive, mgrVars, SerialInv, WriteAlone, TxInv, CheckStillHolds
  <2>2. data[ep[t]][buf[t]] \in Msgs /\ data[ep[t]][buf[t]][2] \notin Oversized
    BY <1>b, <2>1 DEF NoFaults
  <2>3. /\ hw'[ep[t]].ena /\ hw'[ep[t]].msg = data[ep[t]][buf[t]]
        /\ \A f \in Eps \ {ep[t]} : hw'[f] = hw[f]
    BY <1>1, <1>b, <2>1, <2>2, EpWriteLoads
  <2>4. CASE e # ep[t]
    BY <1>2, <2>1, <2>3, <2>4 DEF Stays
  <2>5. CASE e = ep[t]
    <3>1. Carried(<<>>, data[e]) = <<>>
      BY <1>b, <2>5, CarriedEmpty
    <3>2. /\ InFlight(e) = <<>>
          /\ InFlight(e)' = <<data[e][buf[t]]>> \o <<>>
      <4>1. queue[e] = <<>> /\ queue'[e] = <<>> /\ data'[e] = data[e] /\ ~hw[e].ena
        BY <2>1, <2>5
      <4>2. hw'[e].ena /\ hw'[e].msg = data[e][buf[t]]
        BY <2>3, <2>5
      <4>. QED BY <1>2, <3>1, <4>1, <4>2 DEF Flight
    <3>3. <<data[e][buf[t]]>> \o <<>> = Append(<<>>, data[e][buf[t]])
      BY <2>2, <2>5
    <3>. QED BY <2>2, <2>5, <3>2, <3>3 DEF Accepts
  <2>. QED BY <2>4, <2>5
<1>4. CASE PushQueue(t)
  <2>1. /\ UNCHANGED <<hw, data>> /\ pc[t] = "push"
        /\ \A f \in Eps : queue'[f] = IF f = ep[t] THEN Append(queue[f], buf[t]) ELSE queue[f]
    BY <1>4, TxQueueHasRoom DEF PushQueue, EnqueueBuffer, TxInv, TxTypeOK, MgrTypeOK
  <2>2. CASE e # ep[t]
    BY <1>2, <2>1, <2>2 DEF Stays
  <2>3. CASE e = ep[t]
    <3>. DEFINE m == data[e][buf[t]]
                c == Carried(queue[e], data[e])
    <3>1. m \in Msgs /\ c \in Seq(Msgs) /\ Carried(queue'[e], data'[e]) = Append(c, m)
      <4>1. /\ buf[t] \in Buffers /\ queue[e] \in Seq(Buffers)
            /\ data[e] \in [Buffers -> Msgs] /\ data'[e] = data[e]
            /\ queue'[e] = Append(queue[e], buf[t])
        BY <1>b, <2>1, <2>3
      <4>2. m \in Msgs /\ c \in Seq(Msgs)
        BY <4>1, CarriedIsSeq
      <4>3. Carried(Append(queue[e], buf[t]), data[e]) = Append(c, m)
        BY <4>1, CarriedAppend
      <4>. QED BY <4>1, <4>2, <4>3
    <3>2. CASE hw[e].ena
      <4>1. /\ InFlight(e) = <<hw[e].msg>> \o c
            /\ InFlight(e)' = <<hw[e].msg>> \o Append(c, m)
        BY <1>2, <2>1, <3>1, <3>2 DEF Flight
      <4>2. <<hw[e].msg>> \in Seq(Msgs) /\ <<m>> \in Seq(Msgs)
        BY <1>b, <2>3, <3>1 DEF InEndpoint
      <4>. HIDE DEF m, c
      <4>3. <<hw[e].msg>> \o c \in Seq(Msgs)
        BY <3>1, <4>2, ConcatProperties
      <4>4. <<hw[e].msg>> \o Append(c, m) = Append(<<hw[e].msg>> \o c, m)
        BY <3>1, <4>2, <4>3, AppendIsConcat, ConcatAssociative
      <4>. QED BY <2>3, <3>1, <4>1, <4>4 DEF Accepts
    <3>3. CASE ~hw[e].ena
      <4>1. InFlight(e) = c /\ InFlight(e)' = Append(c, m)
        BY <1>2, <2>1, <3>1, <3>3 DEF Flight
      <4>. QED BY <2>3, <3>1, <4>1 DEF Accepts
    <3>. QED BY <3>2, <3>3
  <2>. QED BY <2>2, <2>3
<1>5. CASE EnterEnqueue(t) \/ CheckActive(t) \/ LoadActive(t) \/ LeaveEnqueue(t)
  BY <1>a, <1>5 DEF EnterEnqueue, CheckActive, LoadActive, LeaveEnqueue, mgrVars
<1>. QED BY <1>3, <1>4, <1>5 DEF EnqueueTxBuffer

LEMMA HandleIepintFlight ==
    ASSUME NoFaults, TxInv, TxInv', NEW f \in Eps, HandleIepint(f), NEW e \in Eps
    PROVE  Stays(e)
<1>1. TxTypeOK /\ TxTypeOK'
  BY DEF TxInv
<1>2. /\ InFlight(e) = Flight(hw[e], queue[e], data[e])
      /\ InFlight(e)' = Flight(hw'[e], queue'[e], data'[e])
  BY <1>1, InFlightIs
<1>3. /\ queue[e] \in Seq(Buffers) /\ data[e] \in [Buffers -> Msgs] /\ data' = data
  BY IepintStep DEF TxInv, TxTypeOK, MgrTypeOK
<1>4. CASE e # f
  <2>1. queue'[e] = queue[e] /\ hw'[e] = hw[e]
    BY <1>4, IepintStep
  <2>. QED BY <1>2, <1>3, <2>1 DEF Stays
<1>5. CASE e = f /\ queue[e] = <<>>
  <2>1. queue'[e] = queue[e] /\ ~hw[e].ena /\ ~hw'[e].ena
    BY <1>5, IepintStep
  <2>. QED BY <1>2, <1>3, <2>1 DEF Stays, Flight
<1>6. CASE e = f /\ queue[e] # <<>>
  <2>1. /\ queue'[e] = Tail(queue[e]) /\ ~hw[e].ena
        /\ data[e][Head(queue[e])] \in Msgs /\ EpWrite(e, data[e][Head(queue[e])])
    BY <1>6, IepintStep
  <2>2. hw'[e].ena /\ hw'[e].msg = data[e][Head(queue[e])]
    BY <1>1, <2>1, EpWriteLoads DEF NoFaults
  <2>3. Carried(queue[e], data[e])
          = <<data[e][Head(queue[e])]>> \o Carried(Tail(queue[e]), data[e])
    BY <1>3, <1>6, CarriedHeadTail
  <2>. QED BY <1>2, <1>3, <2>1, <2>2, <2>3 DEF Stays, Flight
<1>. QED BY <1>4, <1>5, <1>6

LEMMA HostInFlight ==
    ASSUME TxInv, TxInv', NEW f \in Eps, HostIn(f), NEW e \in Eps
    PROVE  IF e = f THEN Delivers(e) ELSE Stays(e)
<1>1. TxTypeOK /\ TxTypeOK'
  BY DEF TxInv
<1>2. /\ InFlight(e) = Flight(hw[e], queue[e], data[e])
      /\ InFlight(e)' = Flight(hw'[e], queue'[e], data'[e])
  BY <1>1, InFlightIs
<1>3. /\ queue' = queue /\ data' = data
      /\ queue[e] \in Seq(Buffers) /\ data[e] \in [Buffers -> Msgs] /\ hw[e].msg \in Msgs
  BY <1>1, HostInUnloads DEF TxTypeOK, MgrTypeOK, InEndpoint
<1>4. CASE e # f
  <2>1. hw'[e] = hw[e]
    BY <1>1, <1>4, HostInUnloads
  <2>. QED BY <1>2, <1>3, <1>4, <2>1 DEF Stays
<1>5. CASE e = f
  <2>1. hw[e].ena /\ ~hw'[e].ena
    BY <1>1, <1>5, HostInUnloads
  <2>2. Carried(queue[e], data[e]) \in Seq(Msgs)
    BY <1>3, CarriedIsSeq
  <2>3. /\ InFlight(e) = <<hw[e].msg>> \o Carried(queue[e], data[e])
        /\ InFlight(e)' = Carried(queue[e], data[e])
    BY <1>2, <1>3, <2>1 DEF Flight
  <2>. QED BY <1>3, <1>5, <2>2, <2>3, TailOfLoaded DEF Delivers
<1>. QED BY <1>4, <1>5

LEMMA WaitTxBufferFlight ==
    ASSUME TxInv, TxInv', NEW t \in Tasks, NEW f \in Eps, WaitTxBuffer(t, f), NEW e \in Eps
    PROVE  Stays(e)
<1>1. TxTypeOK /\ TxTypeOK'
  BY DEF TxInv
<1>2. /\ InFlight(e) = Flight(hw[e], queue[e], data[e])
      /\ InFlight(e)' = Flight(hw'[e], queue'[e], data'[e])
  BY <1>1, InFlightIs
<1>3. /\ queue[e] \in Seq(Buffers) /\ data[e] \in [Buffers -> Msgs]
      /\ UNCHANGED <<hw, queue>>
      /\ data' = [data EXCEPT ![f] = [data[f] EXCEPT ![Allocated(f)] = <<t, next[t]>>]]
  BY DEF WaitTxBuffer, TakeTxBuffer, TxInv, TxTypeOK, MgrTypeOK
<1>4. CASE e # f
  <2>1. data'[e] = data[e]
    BY <1>1, <1>3, <1>4 DEF TxTypeOK
  <2>. QED BY <1>2, <1>3, <2>1 DEF Stays
<1>5. CASE e = f
  <2>1. data'[e] = [data[e] EXCEPT ![Allocated(e)] = <<t, next[t]>>]
    BY <1>1, <1>3, <1>5 DEF TxTypeOK
  <2>2. Allocated(e) \in Range(pool[e])
    <3>1. pool[e] \in Seq(Buffers) /\ pool[e] # <<>> /\ Allocated(e) = Head(pool[e])
      BY <1>5 DEF WaitTxBuffer, CanAllocate, Allocated, TxInv, TxTypeOK, MgrTypeOK
    <3>2. Range(pool[e]) = Range(Tail(pool[e])) \cup {Head(pool[e])}
      BY <3>1, TailContains
    <3>. QED BY <3>1, <3>2
  <2>3. Allocated(e) \notin Range(queue[e])
    BY <2>2 DEF TxInv, TxConserved, Conserved, Partition, Apart
  <2>4. Carried(queue[e], data'[e]) = Carried(queue[e], data[e])
    <3>1. ASSUME NEW i \in DOMAIN queue[e] PROVE data'[e][queue[e][i]] = data[e][queue[e][i]]
      <4>1. queue[e][i] \in Buffers /\ queue[e][i] # Allocated(e)
        BY <1>3, <2>3, LenProperties DEF Range
      <4>. QED BY <1>3, <2>1, <4>1
    <3>. QED BY <3>1 DEF Carried
  <2>. QED BY <1>2, <1>3, <2>4 DEF Stays, Flight
<1>. QED BY <1>4, <1>5

Chan == [e \in Eps |-> InFlight(e)]

\* Every step is one message accepted, one delivered, or invisible.
LEMMA ChannelStep ==
    ASSUME OneTask, NoFaults, TxInv, TxInv', SerialInv, Up, [TxNext]_vars
    PROVE  [Channel!Next]_Chan
<1>a. ASSUME \A e \in Eps : Stays(e) PROVE Chan' = Chan
  BY <1>a DEF Stays, Chan
<1>b. ASSUME NEW f \in Eps, Accepts(f), \A e \in Eps \ {f} : Stays(e) PROVE Channel!Next
  <2>1. PICK m \in Msgs : InFlight(f)' = Append(InFlight(f), m)
    BY <1>b DEF Accepts
  <2>2. Chan' = [Chan EXCEPT ![f] = Append(Chan[f], m)]
    BY <1>b, <2>1 DEF Stays, Chan
  <2>. QED BY <2>2 DEF Channel!Next, Channel!Send, Chan
<1>c. ASSUME NEW f \in Eps, Delivers(f), \A e \in Eps \ {f} : Stays(e) PROVE Channel!Next
  <2>1. Chan[f] # <<>> /\ Chan' = [Chan EXCEPT ![f] = Tail(Chan[f])]
    BY <1>c DEF Stays, Delivers, Chan
  <2>. QED BY <2>1 DEF Channel!Next, Channel!Deliver, Chan
<1>0. ~BusReset /\ \A f \in Eps : ~EpConfig(f)
  BY DEF NoFaults, Up, BusReset, EpConfig
<1>1. ASSUME NEW t \in Tasks, EnqueueTxBuffer(t) PROVE [Channel!Next]_Chan
  <2>1. ep[t] \in Eps /\ \A e \in Eps : Stays(e) \/ (e = ep[t] /\ Accepts(e))
    BY <1>1, EnqueueTxBufferFlight DEF TxInv, TxTypeOK
  <2>. QED BY <1>a, <1>b, <2>1
<1>2. ASSUME NEW f \in Eps, HandleIepint(f) PROVE [Channel!Next]_Chan
  BY <1>2, <1>a, HandleIepintFlight
<1>3. ASSUME NEW f \in Eps, HostIn(f) PROVE [Channel!Next]_Chan
  BY <1>3, <1>c, HostInFlight
<1>4. ASSUME NEW t \in Tasks, NEW f \in Eps, WaitTxBuffer(t, f) PROVE [Channel!Next]_Chan
  BY <1>4, <1>a, WaitTxBufferFlight
<1>5. CASE UNCHANGED vars
  <2>1. UNCHANGED <<hw, queue, data>>
    BY <1>5 DEF vars
  <2>2. \A e \in Eps : Stays(e)
    BY <2>1 DEF Stays, InFlight
  <2>. QED BY <1>a, <2>2
<1>. QED BY <1>0, <1>1, <1>2, <1>3, <1>4, <1>5 DEF TxNext

LEMMA ChannelInit == TxInit => Channel!Init
<1>. SUFFICES ASSUME TxInit, NEW e \in Eps PROVE InFlight(e) = <<>>
  BY DEF Channel!Init
<1>1. ~hw[e].ena /\ queue[e] = <<>> /\ data[e] \in [Buffers -> Msgs]
  BY AnyMsgIsMsg DEF TxInit
<1>2. [i \in DOMAIN <<>> |-> data[e][<<>>[i]]] = <<>>
  BY <1>1, CarriedEmpty DEF Carried
<1>3. <<>> \o <<>> = <<>>
  BY EmptySeq, ConcatEmptySeq
<1>. QED BY <1>1, <1>2, <1>3 DEF InFlight

\* The safety part of TxIsFifo: with one application task, otghs2's mask and no
\* faults, what the host reads from an IN endpoint is what the task enqueued
\* there, in order, each message once, for any number of endpoints and buffers.
THEOREM TxImplementsFifo == OneTask /\ Otghs2 /\ NoFaults /\ TxSpec => Channel!SafeSpec
<1>. SUFFICES ASSUME OneTask, Otghs2, NoFaults PROVE TxSpec => Channel!SafeSpec
  OBVIOUS
<1>0. SingleWriter
  BY OneTaskIsSingleWriter
<1>1. TxInit => Up /\ ActiveIsLoaded
  BY DEF TxInit, Up, ActiveIsLoaded
<1>2. TxInv /\ (Up /\ ActiveIsLoaded) /\ [TxNext]_vars => (Up /\ ActiveIsLoaded)'
  BY <1>0, ActiveIsLoadedStep
<1>3. TxInv /\ TxInv' /\ SerialInv /\ (Up /\ ActiveIsLoaded) /\ [TxNext]_vars
        => [Channel!Next]_Chan
  BY ChannelStep
<1>. QED BY <1>1, <1>2, <1>3, ChannelInit, SerialInvariant, PTL DEF TxSpec, Channel!SafeSpec, Chan
=============================================================================
