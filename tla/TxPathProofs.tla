---------------------------- MODULE TxPathProofs -----------------------------
(***************************************************************************)
(* Proofs about TxPath, for every set of tasks, endpoints, buffers and     *)
(* sequence numbers, for both drivers, with any number of bus resets and   *)
(* reconfigurations, and messages of any size.                             *)
(***************************************************************************)
EXTENDS TxPath, EpBufferMgrProofs

-----------------------------------------------------------------------------
(* Type correctness. *)

LEMMA AnyMsgIsMsg == AnyMsg \in Msgs
<1>1. PICK t \in Tasks : <<t, 0>> \in Msgs
  BY TxAssumption DEF Msgs
<1>. QED BY <1>1 DEF AnyMsg

LEMMA NextNumber ==
    ASSUME NEW n \in SeqNos
    PROVE  (IF n + 1 \in SeqNos THEN n + 1 ELSE 0) \in SeqNos
  BY TxAssumption

\* ep_write leaves the endpoint registers well-formed.
LEMMA EpWriteType ==
    ASSUME TxTypeOK, NEW e \in Eps, NEW m \in Msgs, EpWrite(e, m)
    PROVE  hw' \in [Eps -> InEndpoint]
<1>1. hw[e] \in InEndpoint
  BY DEF TxTypeOK
<1>2. [hw[e] EXCEPT !.ena = TRUE, !.nak = FALSE, !.msg = m] \in InEndpoint
  BY <1>1 DEF InEndpoint
<1>. QED BY <1>1, <1>2 DEF TxTypeOK, EpWrite

LEMMA TxTypeInit == TxInit => TxTypeOK
<1>. SUFFICES ASSUME TxInit PROVE TxTypeOK
  OBVIOUS
<1>1. MgrTypeOK
  BY FreeListEnumerates DEF TxInit, MgrTypeOK
<1>2. BufferInHand
  BY DEF TxInit, BufferInHand
<1>3. [act |-> TRUE, ena |-> FALSE, nak |-> TRUE, msg |-> AnyMsg] \in InEndpoint
  BY AnyMsgIsMsg DEF InEndpoint
<1>. QED BY <1>1, <1>2, <1>3, AnyMsgIsMsg, TxAssumption DEF TxInit, TxTypeOK, BufferInHand, PcTx

LEMMA TxTypeStep == TxTypeOK /\ [TxNext]_vars => TxTypeOK'
<1>. SUFFICES ASSUME TxTypeOK, [TxNext]_vars PROVE TxTypeOK'
  OBVIOUS
<1>. USE DEF TxTypeOK, MgrTypeOK, BufferInHand, PcTx
<1>1. ASSUME NEW t \in Tasks, NEW e \in Eps, WaitTxBuffer(t, e) PROVE TxTypeOK'
  <2>1. Allocated(e) \in Buffers /\ pool' \in [Eps -> Seq(Buffers)]
    BY <1>1, TailContains DEF WaitTxBuffer, TakeTxBuffer, CanAllocate, Allocated, AllocateBuffer
  <2>2. <<t, next[t]>> \in Msgs
    BY DEF Msgs
  <2>3. data' \in [Eps -> [Buffers -> Msgs]] /\ next' \in [Tasks -> SeqNos]
    BY <1>1, <2>1, <2>2, TxAssumption DEF WaitTxBuffer, TakeTxBuffer
  <2>4. buf' = [buf EXCEPT ![t] = Allocated(e)] /\ pc' = [pc EXCEPT ![t] = "filled"]
    BY <1>1 DEF WaitTxBuffer, TakeTxBuffer
  <2>5. BufferInHand'
    BY <2>1, <2>4, BuffersAssumption
  <2>. QED BY <1>1, <2>1, <2>3, <2>4, <2>5 DEF WaitTxBuffer, TakeTxBuffer
<1>2. ASSUME NEW t \in Tasks, EnqueueTxBuffer(t) PROVE TxTypeOK'
  <2>1. CASE EnterEnqueue(t)
    BY <2>1 DEF EnterEnqueue, mgrVars
  <2>2. CASE CheckActive(t)
    BY <2>2 DEF CheckActive, mgrVars
  <2>3. CASE LoadActive(t)
    BY <2>3 DEF LoadActive, SetBuffer
  <2>4. CASE WriteActive(t)
    <3>1. data[ep[t]][buf[t]] \in Msgs
      BY <2>4 DEF WriteActive
    <3>2. hw' \in [Eps -> InEndpoint]
      BY <2>4, <3>1, EpWriteType DEF WriteActive
    <3>. QED BY <2>4, <3>2 DEF WriteActive, mgrVars
  <2>5. CASE PushQueue(t)
    <3>1. queue' \in [Eps -> Seq(Buffers)]
      BY <2>5, AppendContains DEF PushQueue, EnqueueBuffer
    <3>. QED BY <2>5, <3>1 DEF PushQueue
  <2>6. CASE LeaveEnqueue(t)
    BY <2>6 DEF LeaveEnqueue, mgrVars
  <2>. QED BY <1>2, <2>1, <2>2, <2>3, <2>4, <2>5, <2>6 DEF EnqueueTxBuffer
<1>3. ASSUME NEW e \in Eps, HandleIepint(e) PROVE TxTypeOK'
  <2>1. pool' \in [Eps -> Seq(Buffers)]
    BY <1>3, AppendContains DEF HandleIepint, ReleaseBuffer
  <2>2. /\ queue' \in [Eps -> Seq(Buffers)]
        /\ Dequeued(e) \in Buffers \cup {NoBuf}
        /\ CanDequeue(e) => Dequeued(e) \in Buffers
    BY <1>3, TailContains DEF HandleIepint, DequeueBuffer, Dequeued, CanDequeue
  <2>3. active' \in [Eps -> Buffers \cup {NoBuf}]
    BY <1>3, <2>2 DEF HandleIepint, SetBuffer
  <2>4. hw' \in [Eps -> InEndpoint]
    <3>1. CASE CanDequeue(e)
      <4>1. data[e][Dequeued(e)] \in Msgs
        BY <2>2, <3>1
      <4>. QED BY <1>3, <3>1, <4>1, EpWriteType DEF HandleIepint
    <3>2. CASE ~CanDequeue(e)
      <4>1. [hw[e] EXCEPT !.nak = TRUE] \in InEndpoint
        BY DEF InEndpoint
      <4>2. hw' = [hw EXCEPT ![e] = [hw[e] EXCEPT !.nak = TRUE]]
        BY <1>3, <3>2 DEF HandleIepint
      <4>. QED BY <4>1, <4>2
    <3>. QED BY <3>1, <3>2
  <2>. QED BY <1>3, <2>1, <2>2, <2>3, <2>4 DEF HandleIepint, taskVars
<1>4. ASSUME NEW e \in Eps, EpConfig(e) PROVE TxTypeOK'
  <2>1. [hw[e] EXCEPT !.act = TRUE, !.nak = TRUE] \in InEndpoint
    BY DEF InEndpoint
  <2>2. hw' = [hw EXCEPT ![e] = [hw[e] EXCEPT !.act = TRUE, !.nak = TRUE]]
    BY <1>4 DEF EpConfig
  <2>. QED BY <1>4, <2>1, <2>2 DEF EpConfig, mgrVars, taskVars
<1>5. ASSUME NEW e \in Eps, HostIn(e) PROVE TxTypeOK'
  <2>1. [hw[e] EXCEPT !.ena = FALSE] \in InEndpoint
    BY DEF InEndpoint
  <2>2. hw' = [hw EXCEPT ![e] = [hw[e] EXCEPT !.ena = FALSE]]
    BY <1>5 DEF HostIn
  <2>. QED BY <1>5, <2>1, <2>2 DEF HostIn, mgrVars, taskVars
<1>6. CASE BusReset
  <2>1. \A e \in Eps : [hw[e] EXCEPT !.act = FALSE, !.ena = FALSE] \in InEndpoint
    BY DEF InEndpoint
  <2>2. hw' \in [Eps -> InEndpoint]
    BY <1>6, <2>1 DEF BusReset
  <2>3. resets' \in Nat
    <3>1. resets \in Nat /\ resets' = resets + 1
      BY <1>6 DEF BusReset
    <3>. QED BY <3>1
  <2>. QED BY <1>6, <2>2, <2>3 DEF BusReset, mgrVars, taskVars
<1>7. CASE UNCHANGED vars
  BY <1>7 DEF vars
<1>. QED BY <1>1, <1>2, <1>3, <1>4, <1>5, <1>6, <1>7 DEF TxNext

\* Every variable of the IN path keeps its type, however tasks, interrupts, the
\* host, resets and reconfigurations interleave.
THEOREM TxTypeCorrect == TxSpec => []TxTypeOK
<1>. QED BY TxTypeInit, TxTypeStep, PTL DEF TxSpec

-----------------------------------------------------------------------------
(***************************************************************************)
(* Conservation of the transmit buffers, when no endpoint is written by    *)
(* two tasks.  The law alone is not inductive: it also takes that          *)
(* handle_iepintx only ever completes an active buffer, and that between   *)
(* the check and the load of enqueue_tx_buffer nobody else activates one.  *)
(***************************************************************************)

\* A task works on an endpoint of its own.
OwnEndpoint == \A t \in Tasks : pc[t] # "idle" => ep[t] \in UsesEp[t]

\* The endpoint hardware only works on an active buffer.
LoadedIsActive ==
    \A e \in Eps :
        /\ hw[e].ena \/ e \in xfrc => active[e] # NoBuf
        /\ ~(hw[e].ena /\ e \in xfrc)

\* What enqueue_tx_buffer saw or did last still holds.
CheckStillHolds ==
    \A t \in Tasks :
        /\ pc[t] = "load" => active[ep[t]] = NoBuf
        /\ pc[t] = "write" =>
             active[ep[t]] = buf[t] /\ ~hw[ep[t]].ena /\ ep[t] \notin xfrc

TxInv == TxTypeOK /\ OwnEndpoint /\ LoadedIsActive /\ CheckStillHolds /\ TxConserved

\* An idle task that takes a buffer adds it to what is held at the endpoint.
LEMMA TakeHeld ==
    ASSUME TxTypeOK, NEW t \in Tasks, NEW e \in Eps, NEW f \in Eps, NEW b,
           ~Owns(t), Owns(t)',
           buf' = [buf EXCEPT ![t] = b], ep' = [ep EXCEPT ![t] = e],
           \A u \in Tasks \ {t} : pc'[u] = pc[u]
    PROVE  HeldBy(f)' = IF f = e THEN HeldBy(f) \cup {b} ELSE HeldBy(f)
<1>1. buf'[t] = b /\ ep'[t] = e
  BY DEF TxTypeOK
<1>2. \A u \in Tasks \ {t} : buf'[u] = buf[u] /\ ep'[u] = ep[u] /\ Owns(u)' = Owns(u)
  BY DEF TxTypeOK, BufferInHand, Owns
<1>3. \A x : x \in HeldBy(f)' <=> \E u \in Tasks : Owns(u)' /\ ep'[u] = f /\ buf'[u] = x
  BY DEF HeldBy
<1>4. \A x : x \in HeldBy(f) <=> \E u \in Tasks : Owns(u) /\ ep[u] = f /\ buf[u] = x
  BY DEF HeldBy
<1>. QED BY <1>1, <1>2, <1>3, <1>4

\* With one writer per endpoint, the task inside the driver is the only one there,
\* and what it gives away is no longer held.
LEMMA AloneAtEndpoint ==
    ASSUME SingleWriter, OwnEndpoint, NEW t \in Tasks, NEW u \in Tasks,
           pc[t] # "idle", pc[u] # "idle", ep[t] = ep[u]
    PROVE  t = u
  BY DEF SingleWriter, OwnEndpoint

LEMMA GiveHeld ==
    ASSUME SingleWriter, OwnEndpoint, TxTypeOK, NEW t \in Tasks, NEW f \in Eps,
           Owns(t), ~Owns(t)', buf' = buf, ep' = ep,
           \A u \in Tasks \ {t} : pc'[u] = pc[u]
    PROVE  /\ buf[t] \in HeldBy(ep[t])
           /\ HeldBy(f)' = IF f = ep[t] THEN HeldBy(f) \ {buf[t]} ELSE HeldBy(f)
<1>1. \A u \in Tasks \ {t} : Owns(u)' = Owns(u)
  BY DEF Owns
<1>2. \A u \in Tasks \ {t} : Owns(u) => ep[u] # ep[t]
  BY AloneAtEndpoint DEF Owns
<1>3. \A x : x \in HeldBy(f)' <=> \E u \in Tasks : Owns(u)' /\ ep[u] = f /\ buf[u] = x
  BY DEF HeldBy
<1>4. \A x : x \in HeldBy(f) <=> \E u \in Tasks : Owns(u) /\ ep[u] = f /\ buf[u] = x
  BY DEF HeldBy
<1>5. buf[t] \in HeldBy(ep[t])
  BY DEF HeldBy
<1>. QED BY <1>1, <1>2, <1>3, <1>4, <1>5

\* A step that leaves alone what the tasks have.
LEMMA SameHeld ==
    ASSUME TxTypeOK, \A u \in Tasks : Owns(u)' = Owns(u) /\ (Owns(u) => buf'[u] = buf[u]),
           ep' = ep
    PROVE  \A f \in Eps : HeldBy(f)' = HeldBy(f)
<1>. SUFFICES ASSUME NEW f \in Eps PROVE HeldBy(f)' = HeldBy(f)
  OBVIOUS
<1>1. \A x : x \in HeldBy(f)' <=> \E u \in Tasks : Owns(u)' /\ ep[u] = f /\ buf'[u] = x
  BY DEF HeldBy
<1>2. \A x : x \in HeldBy(f) <=> \E u \in Tasks : Owns(u) /\ ep[u] = f /\ buf[u] = x
  BY DEF HeldBy
<1>. QED BY <1>1, <1>2

\* Tasks only hold buffers of the endpoint.
LEMMA HeldIsBuffers ==
    ASSUME TxTypeOK, NEW e \in Eps
    PROVE  HeldBy(e) \subseteq Buffers
  BY DEF HeldBy, TxTypeOK, BufferInHand, Owns
\* A task that is about to queue a buffer finds room: the queue is as long as
\* there are buffers, and this one is not in it.
LEMMA TxQueueHasRoom ==
    ASSUME TxInv, NEW t \in Tasks, pc[t] = "push"
    PROVE  CanEnqueue(ep[t], buf[t])
<1>1. ep[t] \in Eps /\ buf[t] \in Buffers /\ queue[ep[t]] \in Seq(Buffers)
  BY DEF TxInv, TxTypeOK, BufferInHand, MgrTypeOK
<1>2. buf[t] \in HeldBy(ep[t])
  BY DEF HeldBy, Owns
<1>3. IsInjective(queue[ep[t]]) /\ buf[t] \notin Range(queue[ep[t]])
  BY <1>1, <1>2 DEF TxInv, TxConserved, Conserved, Partition, NoneTwice, Apart
<1>. QED BY <1>1, <1>3, QueueHasRoom, BuffersAssumption DEF CanEnqueue

LEMMA TxInvInit == TxInit => TxInv
<1>. SUFFICES ASSUME TxInit PROVE TxInv
  OBVIOUS
<1>1. TxTypeOK
  BY TxTypeInit
<1>2. OwnEndpoint /\ LoadedIsActive /\ CheckStillHolds
  BY DEF TxInit, OwnEndpoint, LoadedIsActive, CheckStillHolds
<1>3. TxConserved
  <2>1. \A e \in Eps : HeldBy(e) = {}
    BY DEF TxInit, HeldBy, Owns
  <2>. QED BY <2>1, InitialPartition DEF TxInit, TxConserved, Conserved
<1>. QED BY <1>1, <1>2, <1>3 DEF TxInv

LEMMA WaitTxBufferKeeps ==
    ASSUME TxInv, TxTypeOK', NEW t \in Tasks, NEW e \in Eps, WaitTxBuffer(t, e)
    PROVE  TxInv'
<1>. USE DEF TxInv
<1>1. OwnEndpoint' /\ LoadedIsActive' /\ CheckStillHolds'
  BY DEF TxTypeOK, WaitTxBuffer, TakeTxBuffer, OwnEndpoint, LoadedIsActive, CheckStillHolds
<1>2. TxConserved'
  <2>. SUFFICES ASSUME NEW f \in Eps PROVE Conserved(f, HeldBy(f))'
    BY DEF TxConserved
  <2>1. /\ pool' = [pool EXCEPT ![e] = Tail(pool[e])] /\ pool[e] # <<>>
        /\ Allocated(e) = Head(pool[e])
        /\ active' = active /\ queue' = queue
    BY DEF WaitTxBuffer, TakeTxBuffer, AllocateBuffer, CanAllocate, Allocated
  <2>2. HeldBy(f)' = IF f = e THEN HeldBy(f) \cup {Head(pool[e])} ELSE HeldBy(f)
    <3>1. /\ ~Owns(t) /\ Owns(t)'
          /\ buf' = [buf EXCEPT ![t] = Head(pool[e])] /\ ep' = [ep EXCEPT ![t] = e]
          /\ \A u \in Tasks \ {t} : pc'[u] = pc[u]
      BY <2>1 DEF WaitTxBuffer, TakeTxBuffer, Owns, TxTypeOK
    <3>. QED BY <3>1, TakeHeld
  <2>3. /\ pool[f] \in Seq(Buffers) /\ queue[f] \in Seq(Buffers)
        /\ pool'[f] = IF f = e THEN Tail(pool[f]) ELSE pool[f]
    BY <2>1 DEF TxTypeOK, MgrTypeOK
  <2>. QED BY <2>1, <2>2, <2>3, AllocateKeeps DEF TxConserved, Conserved
<1>. QED BY <1>1, <1>2

LEMMA EnqueueTxBufferKeeps ==
    ASSUME SingleWriter, TxInv, TxTypeOK', NEW t \in Tasks, EnqueueTxBuffer(t)
    PROVE  TxInv'
<1>. USE DEF TxInv
<1>a. /\ ep' = ep
      /\ \A u \in Tasks \ {t} : pc'[u] = pc[u] /\ buf'[u] = buf[u]
      /\ pc[t] # "idle"
  BY DEF EnqueueTxBuffer, EnterEnqueue, CheckActive, LoadActive, WriteActive, PushQueue,
         LeaveEnqueue, TxTypeOK
<1>b. OwnEndpoint'
  BY <1>a DEF OwnEndpoint
<1>c. \A u \in Tasks \ {t} : pc[u] # "idle" => ep[u] # ep[t]
  BY <1>a, AloneAtEndpoint
<1>d. ep[t] \in Eps /\ (pc[t] # "leave" => buf[t] \in Buffers /\ buf[t] # NoBuf)
  BY <1>a, BuffersAssumption DEF TxTypeOK, BufferInHand
<1>1. CASE EnterEnqueue(t) \/ CheckActive(t) \/ LeaveEnqueue(t)
  <2>1. UNCHANGED <<pool, active, queue, hw, xfrc>>
    BY <1>1 DEF EnterEnqueue, CheckActive, LeaveEnqueue, mgrVars
  <2>2. LoadedIsActive'
    BY <2>1 DEF LoadedIsActive
  <2>3. CheckStillHolds'
    <3>1. pc'[t] # "write" /\ (pc'[t] = "load" => active[ep[t]] = NoBuf)
      BY <1>1 DEF EnterEnqueue, CheckActive, LeaveEnqueue, TxTypeOK
    <3>. QED BY <1>a, <2>1, <3>1 DEF CheckStillHolds
  <2>4. \A u \in Tasks : Owns(u)' = Owns(u) /\ (Owns(u) => buf'[u] = buf[u])
    <3>1. \/ pc[t] \in {"filled", "check"} /\ pc'[t] \in {"check", "load", "push"} /\ buf' = buf
          \/ pc[t] = "leave" /\ pc'[t] = "idle"
      BY <1>1 DEF EnterEnqueue, CheckActive, LeaveEnqueue, TxTypeOK
    <3>. QED BY <1>a, <3>1 DEF Owns
  <2>5. \A f \in Eps : HeldBy(f)' = HeldBy(f)
    BY <1>a, <2>4, SameHeld
  <2>. QED BY <1>b, <2>1, <2>2, <2>3, <2>5 DEF TxConserved, Conserved
<1>2. CASE LoadActive(t)
  <2>1. /\ active' = [active EXCEPT ![ep[t]] = buf[t]]
        /\ UNCHANGED <<pool, queue, hw, xfrc, buf>>
        /\ pc[t] = "load" /\ pc'[t] = "write" /\ active[ep[t]] = NoBuf
    BY <1>2 DEF LoadActive, SetBuffer, CheckStillHolds, TxTypeOK
  <2>2. ~hw[ep[t]].ena /\ ep[t] \notin xfrc
    BY <1>d, <2>1 DEF LoadedIsActive
  <2>3. \A f \in Eps : active'[f] = IF f = ep[t] THEN buf[t] ELSE active[f]
    BY <2>1 DEF TxTypeOK, MgrTypeOK
  <2>4. LoadedIsActive'
    BY <1>d, <2>1, <2>3 DEF LoadedIsActive
  <2>5. CheckStillHolds'
    <3>1. ASSUME NEW u \in Tasks \ {t}, pc'[u] \in {"load", "write"}
          PROVE  active'[ep[u]] = active[ep[u]]
      BY <1>a, <1>c, <2>3, <3>1 DEF TxTypeOK
    <3>. QED BY <1>a, <1>d, <2>1, <2>2, <2>3, <3>1 DEF CheckStillHolds
  <2>6. ASSUME NEW f \in Eps PROVE Conserved(f, HeldBy(f))'
    <3>1. Owns(t) /\ ~Owns(t)'
      BY <2>1 DEF Owns
    <3>2. /\ buf[t] \in HeldBy(ep[t])
          /\ HeldBy(f)' = IF f = ep[t] THEN HeldBy(f) \ {buf[t]} ELSE HeldBy(f)
      BY <1>a, <2>1, <3>1, GiveHeld
    <3>. QED BY <1>d, <2>1, <2>3, <3>2, ActivateKeeps DEF TxConserved, Conserved
  <2>. QED BY <1>b, <2>4, <2>5, <2>6 DEF TxConserved
<1>3. CASE WriteActive(t)
  <2>1. /\ UNCHANGED <<pool, active, queue, xfrc, buf>>
        /\ pc[t] = "write" /\ pc'[t] = "leave"
        /\ active[ep[t]] = buf[t] /\ ep[t] \notin xfrc
    BY <1>3 DEF WriteActive, mgrVars, CheckStillHolds, TxTypeOK
  <2>2. \A f \in Eps \ {ep[t]} : hw'[f] = hw[f]
    BY <1>3 DEF WriteActive, EpWrite, TxTypeOK
  <2>3. LoadedIsActive'
    BY <1>d, <2>1, <2>2 DEF LoadedIsActive
  <2>4. CheckStillHolds'
    <3>1. ASSUME NEW u \in Tasks \ {t}, pc'[u] \in {"load", "write"}
          PROVE  hw'[ep[u]] = hw[ep[u]]
      BY <1>a, <1>c, <2>2, <3>1 DEF TxTypeOK
    <3>. QED BY <1>a, <2>1, <3>1 DEF CheckStillHolds
  <2>5. \A f \in Eps : HeldBy(f)' = HeldBy(f)
    <3>1. \A u \in Tasks : Owns(u)' = Owns(u)
      BY <1>a, <2>1 DEF Owns
    <3>. QED BY <1>a, <2>1, <3>1, SameHeld
  <2>. QED BY <1>b, <2>1, <2>3, <2>4, <2>5 DEF TxConserved, Conserved
<1>4. CASE PushQueue(t)
  <2>1. UNCHANGED <<pool, active, hw, xfrc, buf>> /\ pc[t] = "push" /\ pc'[t] = "leave"
    BY <1>4 DEF PushQueue, TxTypeOK
  <2>2. LoadedIsActive' /\ CheckStillHolds'
    BY <1>a, <2>1 DEF LoadedIsActive, CheckStillHolds
  <2>3. CanEnqueue(ep[t], buf[t])
    BY <2>1, TxQueueHasRoom
  <2>4. \A f \in Eps : queue'[f] = IF f = ep[t] THEN Append(queue[f], buf[t]) ELSE queue[f]
    BY <1>4, <2>3 DEF PushQueue, EnqueueBuffer, TxTypeOK, MgrTypeOK
  <2>5. ASSUME NEW f \in Eps PROVE Conserved(f, HeldBy(f))'
    <3>1. Owns(t) /\ ~Owns(t)'
      BY <2>1 DEF Owns
    <3>2. /\ buf[t] \in HeldBy(ep[t])
          /\ HeldBy(f)' = IF f = ep[t] THEN HeldBy(f) \ {buf[t]} ELSE HeldBy(f)
      BY <1>a, <2>1, <3>1, GiveHeld
    <3>3. pool[f] \in Seq(Buffers) /\ queue[f] \in Seq(Buffers)
      BY DEF TxTypeOK, MgrTypeOK
    <3>. QED BY <1>d, <2>1, <2>4, <3>2, <3>3, EnqueueKeeps DEF TxConserved, Conserved
  <2>. QED BY <1>b, <2>2, <2>5 DEF TxConserved
<1>. QED BY <1>1, <1>2, <1>3, <1>4 DEF EnqueueTxBuffer

LEMMA HandleIepintKeeps ==
    ASSUME TxInv, TxTypeOK', NEW e \in Eps, HandleIepint(e)
    PROVE  TxInv'
<1>. USE DEF TxInv
<1>1. /\ e \in xfrc /\ xfrc' = xfrc \ {e} /\ ~hw[e].ena
      /\ active[e] \in Buffers /\ active[e] # NoBuf
      /\ UNCHANGED <<pc, ep, buf>>
  BY BuffersAssumption
     DEF HandleIepint, LoadedIsActive, taskVars, TxTypeOK, MgrTypeOK
<1>2. \A f \in Eps \ {e} : hw'[f] = hw[f]
  BY DEF HandleIepint, EpWrite, TxTypeOK
<1>3. CanDequeue(e) \/ ~hw'[e].ena
  BY <1>1 DEF HandleIepint, TxTypeOK, InEndpoint
<1>4. /\ active' = [active EXCEPT ![e] = Dequeued(e)]
      /\ pool' = [pool EXCEPT ![e] = Append(pool[e], active[e])]
      /\ queue' = [queue EXCEPT ![e] = IF CanDequeue(e) THEN Tail(queue[e]) ELSE queue[e]]
  BY <1>1 DEF HandleIepint, SetBuffer, ReleaseBuffer, DequeueBuffer
<1>5. CanDequeue(e) => Dequeued(e) # NoBuf
  BY TailContains, BuffersAssumption
     DEF CanDequeue, Dequeued, TxTypeOK, MgrTypeOK
<1>6. \A f \in Eps : active'[f] = IF f = e THEN Dequeued(e) ELSE active[f]
  BY <1>4 DEF TxTypeOK, MgrTypeOK
<1>7. OwnEndpoint'
  BY <1>1 DEF OwnEndpoint
<1>8. LoadedIsActive'
  BY <1>1, <1>2, <1>3, <1>5, <1>6 DEF LoadedIsActive
<1>9. CheckStillHolds'
  <2>1. ASSUME NEW u \in Tasks, pc[u] \in {"load", "write"} PROVE ep[u] # e
    BY <1>1, <2>1 DEF CheckStillHolds, TxTypeOK
  <2>2. \A u \in Tasks : ep[u] \in Eps
    BY DEF TxTypeOK
  <2>. QED BY <1>1, <1>2, <1>6, <2>1, <2>2 DEF CheckStillHolds
<1>10. ASSUME NEW f \in Eps PROVE Conserved(f, HeldBy(f))'
  <2>1. HeldBy(f)' = HeldBy(f)
    BY <1>1 DEF HeldBy, Owns
  <2>2. /\ Partition(pool[f], active[f], queue[f], HeldBy(f))
        /\ pool[f] \in Seq(Buffers) /\ queue[f] \in Seq(Buffers)
        /\ NoBuf \notin HeldBy(f)
    BY HeldIsBuffers, BuffersAssumption
       DEF TxConserved, Conserved, TxTypeOK, MgrTypeOK
  <2>3. CASE f # e
    <3>1. pool'[f] = pool[f] /\ active'[f] = active[f] /\ queue'[f] = queue[f]
      BY <1>4, <1>6, <2>3 DEF TxTypeOK, MgrTypeOK
    <3>. QED BY <2>1, <2>2, <3>1 DEF Conserved
  <2>4. CASE f = e
    <3>1. /\ pool'[f] = Append(pool[f], active[f]) /\ active'[f] = Dequeued(f)
          /\ queue'[f] = IF CanDequeue(f) THEN Tail(queue[f]) ELSE queue[f]
      BY <1>4, <1>6, <2>4 DEF TxTypeOK, MgrTypeOK
    <3>2. /\ Partition(Append(pool[f], active[f]), NoBuf, queue[f], HeldBy(f))
          /\ Append(pool[f], active[f]) \in Seq(Buffers)
      BY <1>1, <2>2, <2>4, ReleaseActiveKeeps, AppendContains
    <3>. QED BY <2>1, <2>2, <3>1, <3>2, DequeueActiveKeeps
             DEF Conserved, CanDequeue, Dequeued
  <2>. QED BY <2>3, <2>4
<1>. QED BY <1>7, <1>8, <1>9, <1>10 DEF TxConserved

LEMMA HardwareKeeps ==
    ASSUME TxInv, TxTypeOK',
           BusReset \/ \E e \in Eps : EpConfig(e) \/ HostIn(e)
    PROVE  TxInv'
<1>. USE DEF TxInv
<1>1. UNCHANGED <<pool, active, queue, pc, ep, buf>>
  BY DEF BusReset, EpConfig, HostIn, mgrVars, taskVars
<1>2. \A f \in Eps : /\ hw'[f].ena => hw[f].ena
                     /\ hw'[f].ena => f \notin xfrc'
                     /\ f \in xfrc' => f \in xfrc \/ hw[f].ena
  <2>1. CASE BusReset
    <3>1. xfrc' = {} /\ \A f \in Eps : ~hw'[f].ena
      BY <2>1 DEF BusReset, TxTypeOK, InEndpoint
    <3>. QED BY <3>1
  <2>. USE DEF LoadedIsActive, TxTypeOK
  <2>2. ASSUME NEW e \in Eps, EpConfig(e) PROVE xfrc' = xfrc /\ \A f \in Eps : hw'[f].ena = hw[f].ena
    <3>1. xfrc' = xfrc /\ hw' = [hw EXCEPT ![e] = [hw[e] EXCEPT !.act = TRUE, !.nak = TRUE]]
      BY <2>2 DEF EpConfig
    <3>2. [hw[e] EXCEPT !.act = TRUE, !.nak = TRUE].ena = hw[e].ena
      BY DEF InEndpoint
    <3>. QED BY <3>1, <3>2
  <2>3. ASSUME NEW e \in Eps, HostIn(e)
        PROVE  /\ xfrc' = xfrc \cup {e} /\ hw[e].ena /\ ~hw'[e].ena
               /\ \A f \in Eps \ {e} : hw'[f] = hw[f]
    <3>1. /\ hw' = [hw EXCEPT ![e] = [hw[e] EXCEPT !.ena = FALSE]]
          /\ xfrc' = xfrc \cup {e} /\ hw[e].ena
      BY <2>3 DEF HostIn
    <3>2. [hw[e] EXCEPT !.ena = FALSE].ena = FALSE
      BY DEF InEndpoint
    <3>. QED BY <3>1, <3>2
  <2>. QED BY <2>1, <2>2, <2>3
<1>3. LoadedIsActive'
  BY <1>1, <1>2 DEF LoadedIsActive
<1>4. OwnEndpoint' /\ CheckStillHolds'
  BY <1>1, <1>2 DEF OwnEndpoint, CheckStillHolds, TxTypeOK
<1>5. \A f \in Eps : HeldBy(f)' = HeldBy(f)
  BY <1>1 DEF HeldBy, Owns
<1>. QED BY <1>1, <1>3, <1>4, <1>5 DEF TxConserved, Conserved

LEMMA TxInvStep == SingleWriter /\ TxInv /\ [TxNext]_vars => TxInv'
<1>. SUFFICES ASSUME SingleWriter, TxInv, [TxNext]_vars PROVE TxInv'
  OBVIOUS
<1>1. TxTypeOK'
  BY TxTypeStep DEF TxInv
<1>2. CASE \E t \in Tasks : \E e \in Eps : WaitTxBuffer(t, e)
  BY <1>1, <1>2, WaitTxBufferKeeps
<1>3. CASE \E t \in Tasks : EnqueueTxBuffer(t)
  BY <1>1, <1>3, EnqueueTxBufferKeeps
<1>4. CASE \E e \in Eps : HandleIepint(e)
  BY <1>1, <1>4, HandleIepintKeeps
<1>5. CASE BusReset \/ \E e \in Eps : EpConfig(e) \/ HostIn(e)
  BY <1>1, <1>5, HardwareKeeps
<1>6. CASE UNCHANGED vars
  <2>1. UNCHANGED <<pool, active, queue, hw, xfrc, pc, ep, buf>>
    BY <1>6 DEF vars
  <2>2. \A f \in Eps : HeldBy(f)' = HeldBy(f)
    BY <2>1 DEF HeldBy, Owns
  <2>. QED BY <1>1, <2>1, <2>2 DEF TxInv, OwnEndpoint, LoadedIsActive, CheckStillHolds,
                                   TxConserved, Conserved
<1>. QED BY <1>2, <1>3, <1>4, <1>5, <1>6 DEF TxNext

LEMMA TxInvariant == SingleWriter /\ TxSpec => []TxInv
<1>. SUFFICES ASSUME SingleWriter PROVE TxSpec => []TxInv
  OBVIOUS
<1>. QED BY TxInvInit, TxInvStep, PTL DEF TxSpec

\* No transmit buffer is leaked, duplicated or handed out while in use: on
\* either driver, with any number of tasks, endpoints and buffers, across any
\* resets and reconfigurations, as long as no two tasks write to one endpoint.
THEOREM TxBuffersConserved == SingleWriter /\ TxSpec => []TxConserved
<1>1. TxInv => TxConserved
  BY DEF TxInv
<1>. QED BY TxInvariant, <1>1, PTL

\* And enqueue_tx_buffer then never finds the queue full.
THEOREM TxEnqueueSucceeds == SingleWriter /\ TxSpec => []TxEnqueueNeverFails
<1>1. TxInv => TxEnqueueNeverFails
  BY TxQueueHasRoom DEF TxInv, TxEnqueueNeverFails
<1>. QED BY TxInvariant, <1>1, PTL
=============================================================================
