---------------------------- MODULE RxPathProofs -----------------------------
(***************************************************************************)
(* Proofs about RxPath, for every set of tasks, endpoints, buffers and     *)
(* packet numbers and every FIFO depth, for both drivers, with any number  *)
(* of bus resets and reconfigurations.                                     *)
(***************************************************************************)
EXTENDS RxPath, EpBufferMgrProofs

-----------------------------------------------------------------------------
(* Type correctness. *)

LEMMA NextNumber ==
    ASSUME NEW n \in SeqNos
    PROVE  (IF n + 1 \in SeqNos THEN n + 1 ELSE 0) \in SeqNos
  BY RxAssumption

\* poll_dequeue_buffer and poll_allocate_buffer return a buffer or nullptr.
LEMMA TakenIsBuffer ==
    ASSUME RxTypeOK, NEW e \in Eps
    PROVE  /\ Allocated(e) \in Buffers \cup {NoBuf} /\ Dequeued(e) \in Buffers \cup {NoBuf}
           /\ CanAllocate(e) => Allocated(e) = Head(pool[e]) /\ Allocated(e) \in Buffers
           /\ CanDequeue(e) => Dequeued(e) = Head(queue[e]) /\ Dequeued(e) \in Buffers
           /\ CanAllocate(e) => Tail(pool[e]) \in Seq(Buffers)
           /\ CanDequeue(e) => Tail(queue[e]) \in Seq(Buffers)
  BY TailContains DEF CanAllocate, Allocated, CanDequeue, Dequeued, RxTypeOK, MgrTypeOK

LEMMA RxTypeInit == RxInit => RxTypeOK
<1>. SUFFICES ASSUME RxInit PROVE RxTypeOK
  OBVIOUS
<1>1. MgrTypeOK
  BY InitialPartition DEF RxInit, MgrTypeOK
<1>2. fifo \in Seq(Packets)
  BY DEF RxInit
<1>3. data \in [Eps -> [Buffers -> SeqNos]] /\ sent \in [Eps -> SeqNos]
  BY RxAssumption DEF RxInit
<1>. QED BY <1>1, <1>2, <1>3 DEF RxInit, RxTypeOK, BufferInHand, PcRx

LEMMA RxTypeStep == RxTypeOK /\ [RxNext]_vars => RxTypeOK'
<1>. SUFFICES ASSUME RxTypeOK, [RxNext]_vars PROVE RxTypeOK'
  OBVIOUS
<1>. USE DEF RxTypeOK, MgrTypeOK, BufferInHand, PcRx
<1>1. ASSUME NEW t \in Tasks, ReleaseRxBuffer(t) PROVE RxTypeOK'
  <2>. USE DEF GoTo, coreVars
  <2>1. CASE EnterRelease(t)
    BY <2>1 DEF EnterRelease, mgrVars
  <2>2. CASE FreeBuffer(t)
    <3>1. pool' \in [Eps -> Seq(Buffers)]
      BY <2>2, AppendContains DEF FreeBuffer, ReleaseBuffer
    <3>. QED BY <2>2, <3>1 DEF FreeBuffer
  <2>3. CASE CheckActive(t)
    BY <2>3 DEF CheckActive, mgrVars
  <2>4. CASE AllocateActive(t)
    <3>1. Allocated(ep[t]) \in Buffers \cup {NoBuf}
      BY TakenIsBuffer
    <3>2. pool' \in [Eps -> Seq(Buffers)]
      BY <2>4, TakenIsBuffer DEF AllocateActive, AllocateBuffer
    <3>. QED BY <2>4, <3>1, <3>2 DEF AllocateActive
  <2>5. CASE SetActive(t)
    BY <2>5 DEF SetActive, SetBuffer
  <2>6. CASE ArmEndpoint(t)
    BY <2>6 DEF ArmEndpoint, mgrVars
  <2>7. CASE UnmaskRxflvl(t)
    BY <2>7 DEF UnmaskRxflvl, mgrVars
  <2>8. CASE LeaveRelease(t)
    BY <2>8 DEF LeaveRelease, mgrVars
  <2>. QED BY <1>1, <2>1, <2>2, <2>3, <2>4, <2>5, <2>6, <2>7, <2>8 DEF ReleaseRxBuffer
<1>2. ASSUME NEW t \in Tasks, NEW e \in Eps, WaitRxBuffer(t, e) PROVE RxTypeOK'
  <2>1. Dequeued(e) \in Buffers
    BY <1>2, TakenIsBuffer DEF WaitRxBuffer, TakeRxBuffer
  <2>2. queue' \in [Eps -> Seq(Buffers)]
    BY <1>2, TakenIsBuffer DEF WaitRxBuffer, TakeRxBuffer, DequeueBuffer
  <2>3. BufferInHand'
    <3>1. buf' = [buf EXCEPT ![t] = Dequeued(e)] /\ pc' = [pc EXCEPT ![t] = "reading"]
      BY <1>2 DEF WaitRxBuffer, TakeRxBuffer
    <3>. QED BY <2>1, <3>1, BuffersAssumption
  <2>. QED BY <1>2, <2>1, <2>2, <2>3 DEF WaitRxBuffer, TakeRxBuffer, coreVars
<1>3. ASSUME NEW e \in Eps, HostOut(e) \/ HostOutEmpty(e) PROVE RxTypeOK'
  <2>1. PICK m \in SeqNos \cup {Empty} : HostSends(e, m)
    BY <1>3 DEF HostOut, HostOutEmpty
  <2>2. sent' \in [Eps -> SeqNos]
    BY <1>3, NextNumber DEF HostOut, HostOutEmpty
  <2>3. fifo' \in Seq(Packets) /\ armed' \in [Eps -> BOOLEAN]
    <3>1. <<e, m>> \in Packets
      BY DEF Packets
    <3>. QED BY <2>1, <3>1, RxAssumption DEF HostSends
  <2>. QED BY <2>1, <2>2, <2>3 DEF HostSends, mgrVars, taskVars
<1>4. ASSUME NEW e \in Eps, PollRx(e) PROVE RxTypeOK'
  <2>1. fifo # <<>> /\ fifo' = Tail(fifo)
    BY <1>4 DEF PollRx, Rearm, PollPops
  <2>2. Head(fifo) \in Packets /\ Head(fifo)[2] # Empty /\ fifo' \in Seq(Packets)
    BY <1>4, <2>1, TailContains DEF PollRx
  <2>3. CASE active[e] = NoBuf
    BY <1>4, <2>2, <2>3 DEF PollRx, Rearm, mgrVars, taskVars
  <2>4. CASE active[e] # NoBuf
    <3>1. active[e] \in Buffers /\ Head(fifo)[2] \in SeqNos
      BY <2>2, <2>4 DEF Packets
    <3>2. data' = [data EXCEPT ![e][active[e]] = Head(fifo)[2]]
      BY <1>4, <2>4 DEF PollRx, Rearm
    <3>3. data' \in [Eps -> [Buffers -> SeqNos]]
      BY <3>1, <3>2
    <3>. DEFINE a == Allocated(e)
    <3>a. EnqueueBuffer(e, active[e]) /\ AllocateBuffer(e) /\ SetBuffer(e, a)
      BY <1>4, <2>4 DEF PollRx, Rearm
    <3>4. queue' \in [Eps -> Seq(Buffers)]
      <4>1. Append(queue[e], active[e]) \in Seq(Buffers)
        BY <3>1, AppendContains
      <4>. QED BY <3>a, <4>1 DEF EnqueueBuffer
    <3>5. pool' \in [Eps -> Seq(Buffers)]
      BY <3>a, TakenIsBuffer DEF AllocateBuffer
    <3>6. active' \in [Eps -> Buffers \cup {NoBuf}]
      <4>1. a \in Buffers \cup {NoBuf}
        BY TakenIsBuffer
      <4>. HIDE DEF a
      <4>. QED BY <3>a, <4>1 DEF SetBuffer
    <3>7. armed' \in [Eps -> BOOLEAN] /\ masked' \in BOOLEAN /\ crashed' \in BOOLEAN
      BY <1>4, <2>4, RxAssumption DEF PollRx, Rearm, CanAllocate
    <3>. QED BY <1>4, <2>2, <3>3, <3>4, <3>5, <3>6, <3>7 DEF PollRx, Rearm, taskVars
  <2>. QED BY <2>3, <2>4
<1>5. ASSUME NEW e \in Eps, EpConfig(e) PROVE RxTypeOK'
  BY <1>5 DEF EpConfig, mgrVars, taskVars
<1>6. CASE RaiseOther
  BY <1>6 DEF RaiseOther, mgrVars, taskVars
<1>7. CASE PollOther
  BY <1>7 DEF PollOther, mgrVars, taskVars
<1>8. CASE BusReset
  <2>1. fifo' = <<>> /\ act' = [e \in Eps |-> FALSE] /\ armed' = [e \in Eps |-> FALSE]
        /\ resets' = resets + 1
    BY <1>8 DEF BusReset
  <2>2. fifo' \in Seq(Packets) /\ resets' \in Nat
    BY <2>1
  <2>. QED BY <1>8, <2>1, <2>2 DEF BusReset, mgrVars, taskVars
<1>9. ASSUME NEW e \in Eps, PollEmpty(e) PROVE RxTypeOK'
  <2>1. fifo # <<>> /\ fifo' = Tail(fifo)
    BY <1>9 DEF PollEmpty, PollPops
  <2>2. fifo' \in Seq(Packets)
    BY <2>1, TailContains
  <2>. QED BY <1>9, <2>2 DEF PollEmpty, mgrVars, taskVars
<1>10. CASE UNCHANGED vars
  BY <1>10 DEF vars
<1>. QED BY <1>1, <1>2, <1>3, <1>4, <1>5, <1>6, <1>7, <1>8, <1>9, <1>10 DEF RxNext

\* Every variable of the OUT path keeps its type, however tasks, interrupts, the
\* host, resets and reconfigurations interleave.
THEOREM RxTypeCorrect == RxSpec => []RxTypeOK
<1>. QED BY RxTypeInit, RxTypeStep, PTL DEF RxSpec
-----------------------------------------------------------------------------
(***************************************************************************)
(* Conservation of the receive buffers, when no endpoint is read by two    *)
(* tasks.  Inductive with two facts about release_rx_buffer: a task works  *)
(* on its own endpoint, and between seeing a null active buffer and        *)
(* setting a new one nobody else sets one, because poll() only replaces a  *)
(* buffer that is there.                                                   *)
(***************************************************************************)
OwnEndpoint == \A t \in Tasks : pc[t] # "idle" => ep[t] \in UsesEp[t]

CheckStillHolds == \A t \in Tasks : pc[t] \in {"alloc", "set"} => active[ep[t]] = NoBuf

RxInv == RxTypeOK /\ OwnEndpoint /\ CheckStillHolds /\ RxConserved

\* The buffers one task holds.
Hand(t) ==
    IF pc[t] \in {"reading", "free"} THEN {buf[t]}
    ELSE IF pc[t] = "set" THEN {spare[t]} \ {NoBuf} ELSE {}

LEMMA HeldByHands ==
    ASSUME NEW e
    PROVE  HeldBy(e) = UNION {Hand(t) : t \in {u \in Tasks : ep[u] = e}}
  BY DEF HeldBy, Hand

LEMMA HandIsBuffers ==
    ASSUME RxTypeOK, NEW t \in Tasks
    PROVE  Hand(t) \subseteq Buffers
  BY DEF Hand, RxTypeOK, BufferInHand

LEMMA HeldIsBuffers ==
    ASSUME RxTypeOK, NEW e
    PROVE  HeldBy(e) \subseteq Buffers
  BY HeldByHands, HandIsBuffers

LEMMA AloneAtEndpoint ==
    ASSUME SingleReader, OwnEndpoint, NEW t \in Tasks, NEW u \in Tasks,
           pc[t] # "idle", pc[u] # "idle", ep[t] = ep[u]
    PROVE  t = u
  BY DEF SingleReader, OwnEndpoint

\* Inside release_rx_buffer a task holds all that is held at its endpoint, and its
\* steps change nothing elsewhere.
LEMMA HeldByOne ==
    ASSUME SingleReader, OwnEndpoint, NEW t \in Tasks, pc[t] # "idle", ep' = ep,
           \A u \in Tasks \ {t} : pc'[u] = pc[u] /\ buf'[u] = buf[u] /\ spare'[u] = spare[u]
    PROVE  \A f \in Eps :
             /\ f = ep[t] => HeldBy(f) = Hand(t)
             /\ HeldBy(f)' = IF f = ep[t] THEN Hand(t)' ELSE HeldBy(f)
<1>. SUFFICES ASSUME NEW f \in Eps
              PROVE  /\ f = ep[t] => HeldBy(f) = Hand(t)
                     /\ HeldBy(f)' = IF f = ep[t] THEN Hand(t)' ELSE HeldBy(f)
  OBVIOUS
<1>1. \A u \in Tasks \ {t} : ep[u] = ep[t] => pc[u] = "idle"
  BY AloneAtEndpoint
<1>2. \A u \in Tasks \ {t} : Hand(u)' = Hand(u) /\ (ep[u] = ep[t] => Hand(u) = {})
  BY <1>1 DEF Hand
<1>3. HeldBy(f)' = UNION {Hand(u)' : u \in {v \in Tasks : ep[v] = f}}
  BY DEF HeldBy, Hand
<1>4. CASE f = ep[t]
  <2>. DEFINE here == {v \in Tasks : ep[v] = f}
  <2>1. t \in here /\ \A u \in here \ {t} : Hand(u) = {} /\ Hand(u)' = {}
    BY <1>2, <1>4
  <2>2. UNION {Hand(u) : u \in here} = Hand(t)
    BY <2>1
  <2>3. UNION {Hand(u)' : u \in here} = Hand(t)'
    BY <2>1
  <2>. QED BY <1>3, <1>4, <2>2, <2>3, HeldByHands
<1>5. CASE f # ep[t]
  <2>1. \A u \in {v \in Tasks : ep[v] = f} : Hand(u)' = Hand(u)
    BY <1>2, <1>5
  <2>. QED BY <1>3, <1>5, <2>1, HeldByHands
<1>. QED BY <1>4, <1>5

LEMMA RxInvInit == RxInit => RxInv
<1>. SUFFICES ASSUME RxInit PROVE RxInv
  OBVIOUS
<1>1. OwnEndpoint /\ CheckStillHolds
  BY DEF RxInit, OwnEndpoint, CheckStillHolds
<1>2. \A e \in Eps : HeldBy(e) = {}
  BY DEF RxInit, HeldBy
<1>3. RxConserved
  BY <1>2, InitialPartition DEF RxInit, RxConserved, Conserved
<1>. QED BY <1>1, <1>3, RxTypeInit DEF RxInv

\* An active buffer can be queued: the queue is as long as there are buffers, and
\* this one is not in it.
LEMMA RxQueueHasRoom ==
    ASSUME RxInv, NEW e \in Eps, active[e] # NoBuf
    PROVE  CanEnqueue(e, active[e])
<1>1. active[e] \in Buffers /\ queue[e] \in Seq(Buffers)
  BY DEF RxInv, RxTypeOK, MgrTypeOK
<1>2. IsInjective(queue[e]) /\ active[e] \notin Range(queue[e])
  BY DEF RxInv, RxConserved, Conserved, Partition, NoneTwice, Apart
<1>. QED BY <1>1, <1>2, QueueHasRoom DEF CanEnqueue

LEMMA ReleaseRxBufferKeeps ==
    ASSUME SingleReader, RxInv, RxTypeOK', NEW t \in Tasks, ReleaseRxBuffer(t)
    PROVE  RxInv'
<1>. USE DEF RxInv, GoTo
<1>a. /\ ep' = ep /\ queue' = queue /\ pc[t] # "idle"
      /\ \A u \in Tasks \ {t} : pc'[u] = pc[u] /\ buf'[u] = buf[u] /\ spare'[u] = spare[u]
  BY DEF ReleaseRxBuffer, EnterRelease, FreeBuffer, CheckActive, AllocateActive, SetActive,
         ArmEndpoint, UnmaskRxflvl, LeaveRelease, mgrVars, RxTypeOK
<1>b. OwnEndpoint'
  BY <1>a DEF OwnEndpoint
<1>c. \A f \in Eps : /\ f = ep[t] => HeldBy(f) = Hand(t)
                   /\ HeldBy(f)' = IF f = ep[t] THEN Hand(t)' ELSE HeldBy(f)
  BY <1>a, HeldByOne
<1>d. /\ ep[t] \in Eps
      /\ \A f \in Eps : /\ pool[f] \in Seq(Buffers) /\ queue[f] \in Seq(Buffers)
                       /\ Partition(pool[f], active[f], queue[f], HeldBy(f))
  BY DEF RxTypeOK, MgrTypeOK, RxConserved, Conserved
<1>1. CASE \/ EnterRelease(t) \/ CheckActive(t)  \/ ArmEndpoint(t)
           \/ UnmaskRxflvl(t) \/ LeaveRelease(t)
  <2>1. UNCHANGED <<pool, active, queue>>
    BY <1>1 DEF EnterRelease, CheckActive, ArmEndpoint, UnmaskRxflvl, LeaveRelease, mgrVars
  <2>2. /\ pc'[t] # "set"
        /\ pc'[t] = "alloc" => active[ep[t]] = NoBuf
        /\ pc[t] # "set"
        /\ pc[t] \in {"reading", "free"} <=> pc'[t] \in {"reading", "free"}
        /\ pc[t] \in {"reading", "free"} => buf'[t] = buf[t]
    BY <1>1 DEF EnterRelease, CheckActive, ArmEndpoint, UnmaskRxflvl, LeaveRelease,
                RxTypeOK
  <2>3. CheckStillHolds'
    BY <1>a, <2>1, <2>2 DEF CheckStillHolds
  <2>4. Hand(t)' = Hand(t)
    BY <2>2 DEF Hand
  <2>5. \A f \in Eps : HeldBy(f)' = HeldBy(f)
    BY <1>c, <2>4
  <2>. QED BY <1>b, <2>1, <2>3, <2>5 DEF RxConserved, Conserved
<1>2. CASE FreeBuffer(t)
  <2>1. /\ active' = active /\ buf' = buf /\ pc[t] = "free" /\ pc'[t] = "check"
        /\ pool' = [pool EXCEPT ![ep[t]] = Append(pool[ep[t]], buf[t])]
        /\ buf[t] \in Buffers
    BY <1>2, BuffersAssumption
       DEF FreeBuffer, ReleaseBuffer, RxTypeOK, BufferInHand
  <2>2. CheckStillHolds'
    BY <1>a, <2>1 DEF CheckStillHolds
  <2>3. Hand(t) = {buf[t]} /\ Hand(t)' = {buf[t]} \ {buf[t]}
    BY <2>1 DEF Hand
  <2>4. ASSUME NEW f \in Eps PROVE Conserved(f, HeldBy(f))'
    <3>1. CASE f = ep[t]
      <4>1. pool'[f] = Append(pool[f], buf[t])
        BY <2>1, <3>1 DEF RxTypeOK, MgrTypeOK
      <4>2. Partition(Append(pool[f], buf[t]), active[f], queue[f], HeldBy(f) \ {buf[t]})
        BY <1>c, <1>d, <2>1, <2>3, <3>1, ReleaseKeeps
      <4>. QED BY <1>a, <1>c, <2>1, <2>3, <3>1, <4>1, <4>2 DEF Conserved
    <3>2. CASE f # ep[t]
      <4>1. pool'[f] = pool[f]
        BY <2>1, <3>2 DEF RxTypeOK, MgrTypeOK
      <4>. QED BY <1>a, <1>c, <1>d, <2>1, <3>2, <4>1 DEF Conserved
    <3>. QED BY <3>1, <3>2
  <2>. QED BY <1>b, <2>2, <2>4 DEF RxConserved
<1>3. CASE AllocateActive(t)
  <2>1. /\ active' = active /\ pc[t] = "alloc" /\ pc'[t] = "set" /\ active[ep[t]] = NoBuf
        /\ pool' = [pool EXCEPT ![ep[t]] =
                       IF CanAllocate(ep[t]) THEN Tail(pool[ep[t]]) ELSE pool[ep[t]]]
        /\ spare'[t] = Allocated(ep[t])
    BY <1>3 DEF AllocateActive, AllocateBuffer, CheckStillHolds, RxTypeOK
  <2>2. CheckStillHolds'
    BY <1>a, <2>1 DEF CheckStillHolds
  <2>3. Hand(t) = {} /\ Hand(t)' = {Allocated(ep[t])} \ {NoBuf}
    BY <2>1 DEF Hand
  <2>4. ASSUME NEW f \in Eps PROVE Conserved(f, HeldBy(f))'
    <3>1. CASE f = ep[t] /\ CanAllocate(f)
      <4>1. pool'[f] = Tail(pool[f])
        BY <2>1, <3>1 DEF RxTypeOK, MgrTypeOK
      <4>2. Allocated(f) = Head(pool[f]) /\ Allocated(f) # NoBuf
        BY <3>1, TakenIsBuffer, BuffersAssumption
      <4>3. Partition(Tail(pool[f]), active[f], queue[f], {} \cup {Head(pool[f])})
        BY <1>c, <1>d, <2>3, <3>1, AllocateKeeps DEF CanAllocate
      <4>. QED BY <1>a, <1>c, <2>1, <2>3, <3>1, <4>1, <4>2, <4>3 DEF Conserved
    <3>2. CASE f = ep[t] /\ ~CanAllocate(f)
      <4>1. pool'[f] = pool[f]
        BY <2>1, <3>2 DEF RxTypeOK, MgrTypeOK
      <4>2. Hand(t)' = {}
        BY <2>3, <3>2 DEF Allocated
      <4>3. HeldBy(f)' = HeldBy(f)
        BY <1>c, <2>3, <3>2, <4>2
      <4>. QED BY <1>a, <1>d, <2>1, <4>1, <4>3 DEF Conserved
    <3>3. CASE f # ep[t]
      <4>1. pool'[f] = pool[f]
        BY <2>1, <3>3 DEF RxTypeOK, MgrTypeOK
      <4>. QED BY <1>a, <1>c, <1>d, <2>1, <3>3, <4>1 DEF Conserved
    <3>. QED BY <3>1, <3>2, <3>3
  <2>. QED BY <1>b, <2>2, <2>4 DEF RxConserved
<1>4. CASE SetActive(t)
  <2>1. /\ pool' = pool /\ pc[t] = "set" /\ pc'[t] = "arm" /\ active[ep[t]] = NoBuf
        /\ \A f \in Eps : active'[f] = IF f = ep[t] THEN spare[t] ELSE active[f]
    BY <1>4 DEF SetActive, SetBuffer, CheckStillHolds, RxTypeOK, MgrTypeOK
  <2>2. CheckStillHolds'
    <3>1. \A u \in Tasks \ {t} : pc[u] # "idle" => ep[u] # ep[t]
      BY <1>a, AloneAtEndpoint
    <3>. QED BY <1>a, <2>1, <3>1 DEF CheckStillHolds, RxTypeOK
  <2>3. Hand(t) = {spare[t]} \ {NoBuf} /\ Hand(t)' = {}
    BY <2>1 DEF Hand
  <2>4. ASSUME NEW f \in Eps PROVE Conserved(f, HeldBy(f))'
    <3>1. CASE f = ep[t] /\ spare[t] # NoBuf
      <4>1. spare[t] \in Buffers
        BY <3>1 DEF RxTypeOK
      <4>2. Partition(pool[f], spare[t], queue[f], HeldBy(f) \ {spare[t]})
        BY <1>c, <1>d, <2>1, <2>3, <3>1, <4>1, ActivateKeeps
      <4>. QED BY <1>a, <1>c, <2>1, <2>3, <3>1, <4>2 DEF Conserved
    <3>2. CASE f = ep[t] /\ spare[t] = NoBuf
      <4>1. HeldBy(f)' = HeldBy(f)
        BY <1>c, <2>3, <3>2
      <4>. QED BY <1>a, <1>d, <2>1, <3>2, <4>1 DEF Conserved
    <3>3. CASE f # ep[t]
      BY <1>a, <1>c, <1>d, <2>1, <3>3 DEF Conserved
    <3>. QED BY <3>1, <3>2, <3>3
  <2>. QED BY <1>b, <2>2, <2>4 DEF RxConserved
<1>. QED BY <1>1, <1>2, <1>3, <1>4 DEF ReleaseRxBuffer

LEMMA WaitRxBufferKeeps ==
    ASSUME RxInv, RxTypeOK', NEW t \in Tasks, NEW e \in Eps, WaitRxBuffer(t, e)
    PROVE  RxInv'
<1>. USE DEF RxInv
<1>1. OwnEndpoint' /\ CheckStillHolds'
  BY DEF RxTypeOK, WaitRxBuffer, TakeRxBuffer, OwnEndpoint, CheckStillHolds
<1>2. /\ queue' = [queue EXCEPT ![e] = Tail(queue[e])] /\ queue[e] # <<>>
      /\ pool' = pool /\ active' = active
      /\ pc[t] = "idle" /\ pc'[t] = "reading" /\ ep'[t] = e /\ buf'[t] = Head(queue[e])
      /\ \A u \in Tasks \ {t} :
           pc'[u] = pc[u] /\ ep'[u] = ep[u] /\ buf'[u] = buf[u] /\ spare'[u] = spare[u]
  BY DEF WaitRxBuffer, TakeRxBuffer, DequeueBuffer, CanDequeue, Dequeued, RxTypeOK
<1>3. ASSUME NEW f \in Eps
      PROVE  HeldBy(f)' = IF f = e THEN HeldBy(f) \cup {Head(queue[e])} ELSE HeldBy(f)
  <2>1. HeldBy(f)' = UNION {Hand(u)' : u \in {v \in Tasks : ep'[v] = f}}
    BY DEF HeldBy, Hand
  <2>2. Hand(t) = {} /\ Hand(t)' = {Head(queue[e])}
    BY <1>2 DEF Hand
  <2>3. \A u \in Tasks \ {t} : Hand(u)' = Hand(u)
    BY <1>2 DEF Hand
  <2>. QED BY <1>2, <2>1, <2>2, <2>3, HeldByHands
<1>4. ASSUME NEW f \in Eps PROVE Conserved(f, HeldBy(f))'
  <2>1. /\ pool[f] \in Seq(Buffers) /\ queue[f] \in Seq(Buffers)
        /\ queue'[f] = IF f = e THEN Tail(queue[f]) ELSE queue[f]
    BY <1>2 DEF RxTypeOK, MgrTypeOK
  <2>. QED BY <1>2, <1>3, <2>1, DequeueKeeps DEF RxConserved, Conserved
<1>. QED BY <1>1, <1>4 DEF RxConserved

LEMMA PollRxKeeps ==
    ASSUME RxInv, RxTypeOK', NEW e \in Eps, PollRx(e)
    PROVE  RxInv'
<1>. USE DEF RxInv
<1>1. UNCHANGED <<pc, ep, buf, spare>>
  BY DEF PollRx, Rearm, taskVars
<1>2. OwnEndpoint' /\ \A f \in Eps : HeldBy(f)' = HeldBy(f)
  BY <1>1 DEF OwnEndpoint, HeldBy
<1>3. CASE active[e] = NoBuf
  <2>1. UNCHANGED <<pool, active, queue>>
    BY <1>3 DEF PollRx, Rearm, mgrVars
  <2>. QED BY <1>1, <1>2, <2>1 DEF CheckStillHolds, RxConserved, Conserved
<1>4. CASE active[e] # NoBuf
  <2>. DEFINE a == Allocated(e)
  <2>1. EnqueueBuffer(e, active[e]) /\ AllocateBuffer(e) /\ SetBuffer(e, a)
    BY <1>4 DEF PollRx, Rearm
  <2>2. CanEnqueue(e, active[e]) /\ active[e] \in Buffers
    BY <1>4, RxQueueHasRoom DEF RxTypeOK, MgrTypeOK
  <2>3. \A f \in Eps \ {e} :
          pool'[f] = pool[f] /\ active'[f] = active[f] /\ queue'[f] = queue[f]
    BY <2>1 DEF EnqueueBuffer, AllocateBuffer, SetBuffer, RxTypeOK, MgrTypeOK
  <2>4. /\ queue'[e] = Append(queue[e], active[e])
        /\ pool'[e] = IF CanAllocate(e) THEN Tail(pool[e]) ELSE pool[e]
        /\ active'[e] = a
    <3>. HIDE DEF a
    <3>1. queue' = [queue EXCEPT ![e] = Append(queue[e], active[e])]
      BY <2>1, <2>2 DEF EnqueueBuffer
    <3>. QED BY <2>1, <3>1 DEF AllocateBuffer, SetBuffer, RxTypeOK, MgrTypeOK
  <2>5. CheckStillHolds'
    <3>1. \A u \in Tasks : pc[u] \in {"alloc", "set"} => ep[u] # e
      BY <1>4 DEF CheckStillHolds
    <3>. QED BY <1>1, <2>3, <3>1 DEF CheckStillHolds, RxTypeOK
  <2>6. Conserved(e, HeldBy(e))'
    <3>1. /\ Partition(pool[e], active[e], queue[e], HeldBy(e))
          /\ pool[e] \in Seq(Buffers) /\ queue[e] \in Seq(Buffers) /\ NoBuf \notin HeldBy(e)
      BY HeldIsBuffers, BuffersAssumption
         DEF RxConserved, Conserved, RxTypeOK, MgrTypeOK
    <3>2. /\ Partition(pool[e], NoBuf, queue'[e], HeldBy(e))
          /\ queue'[e] \in Seq(Buffers)
      BY <2>2, <2>4, <3>1, EnqueueActiveKeeps, AppendContains
    <3>3. CASE CanAllocate(e)
      <4>1. Partition(Tail(pool[e]), Head(pool[e]), queue'[e], HeldBy(e))
        BY <3>1, <3>2, <3>3, AllocateActiveKeeps DEF CanAllocate
      <4>. QED BY <1>2, <2>4, <3>3, <4>1 DEF Conserved, Allocated
    <3>4. CASE ~CanAllocate(e)
      BY <1>2, <2>4, <3>2, <3>4 DEF Conserved, Allocated
    <3>. QED BY <3>3, <3>4
  <2>7. ASSUME NEW f \in Eps \ {e} PROVE Conserved(f, HeldBy(f))'
    BY <1>2, <2>3 DEF RxConserved, Conserved
  <2>. QED BY <1>2, <2>5, <2>6, <2>7 DEF RxConserved
<1>. QED BY <1>3, <1>4

LEMMA RxInvStep == SingleReader /\ RxInv /\ [RxNext]_vars => RxInv'
<1>. SUFFICES ASSUME SingleReader, RxInv, [RxNext]_vars PROVE RxInv'
  OBVIOUS
<1>1. RxTypeOK'
  BY RxTypeStep DEF RxInv
<1>2. CASE \E t \in Tasks : ReleaseRxBuffer(t)
  BY <1>1, <1>2, ReleaseRxBufferKeeps
<1>3. CASE \E t \in Tasks : \E e \in Eps : WaitRxBuffer(t, e)
  BY <1>1, <1>3, WaitRxBufferKeeps
<1>4. CASE \E e \in Eps : PollRx(e)
  BY <1>1, <1>4, PollRxKeeps
<1>5. CASE \/ \E e \in Eps : HostOut(e) \/ HostOutEmpty(e) \/ PollEmpty(e) \/ EpConfig(e)
           \/ RaiseOther \/ PollOther \/ BusReset \/ UNCHANGED vars
  <2>1. UNCHANGED <<pool, active, queue, pc, ep, buf, spare>>
    BY <1>5 DEF HostOut, HostOutEmpty, HostSends, PollEmpty, EpConfig, RaiseOther, PollOther, BusReset, mgrVars, taskVars, vars
  <2>2. \A f \in Eps : HeldBy(f)' = HeldBy(f)
    BY <2>1 DEF HeldBy
  <2>. QED BY <1>1, <2>1, <2>2 DEF RxInv, OwnEndpoint, CheckStillHolds, RxConserved, Conserved
<1>. QED BY <1>2, <1>3, <1>4, <1>5 DEF RxNext

LEMMA RxInvariant == SingleReader /\ RxSpec => []RxInv
<1>. SUFFICES ASSUME SingleReader PROVE RxSpec => []RxInv
  OBVIOUS
<1>. QED BY RxInvInit, RxInvStep, PTL DEF RxSpec

\* No receive buffer is leaked, duplicated or handed out while in use: on
\* either driver, with any number of tasks, endpoints and buffers, across any
\* resets and reconfigurations, as long as no two tasks read one endpoint.
THEOREM RxBuffersConserved == SingleReader /\ RxSpec => []RxConserved
<1>1. RxInv => RxConserved
  BY DEF RxInv
<1>. QED BY RxInvariant, <1>1, PTL

\* And poll() then always has room to queue a received packet, so its error
\* path, which would leak the buffer and lose the packet, is dead code.
THEOREM RxEnqueueSucceeds == SingleReader /\ RxSpec => []RxEnqueueNeverFails
<1>1. ASSUME RxInv PROVE RxEnqueueNeverFails
  <2>1. \A i \in DOMAIN fifo : fifo[i][1] \in Eps
    BY <1>1 DEF RxInv, RxTypeOK, Packets
  <2>. QED BY <1>1, <2>1, RxQueueHasRoom DEF RxEnqueueNeverFails
<1>. QED BY RxInvariant, <1>1, PTL

-----------------------------------------------------------------------------
(* The RXFLVL mask, whatever the tasks and the hardware do. *)

MaskInv == (~Otghs2 => ~masked) /\ MaskedMeansUnderrun

LEMMA MaskStep ==
    ASSUME RxTypeOK, MaskInv, [RxNext]_vars
    PROVE  MaskInv'
<1>. USE DEF RxTypeOK, MgrTypeOK, MaskInv, MaskedMeansUnderrun
<1>1. ASSUME NEW t \in Tasks, ReleaseRxBuffer(t) PROVE MaskInv'
  <2>. USE DEF GoTo
  <2>1. CASE SetActive(t)
    <3>1. masked' = masked /\ pc' = [pc EXCEPT ![t] = "arm"]
      BY <2>1 DEF SetActive, coreVars
    <3>2. pc'[t] = "arm"
      BY <3>1
    <3>. QED BY <3>1, <3>2
  <2>2. CASE ArmEndpoint(t)
    <3>1. masked' = masked /\ (Otghs2 => pc'[t] = "unmask")
      BY <2>2 DEF ArmEndpoint
    <3>. QED BY <3>1
  <2>3. CASE UnmaskRxflvl(t)
    BY <2>3 DEF UnmaskRxflvl
  <2>4. CASE \/ EnterRelease(t) \/ FreeBuffer(t) \/ CheckActive(t) \/ AllocateActive(t)
             \/ LeaveRelease(t)
    <3>1. masked' = masked /\ active' = active
      BY <2>4 DEF EnterRelease, FreeBuffer, CheckActive, AllocateActive, LeaveRelease,
                  mgrVars, coreVars
    <3>2. \A u \in Tasks : pc[u] \in {"arm", "unmask"} => pc'[u] \in {"arm", "unmask"}
      BY <2>4 DEF EnterRelease, FreeBuffer, CheckActive, AllocateActive, LeaveRelease
    <3>. QED BY <3>1, <3>2
  <2>. QED BY <1>1, <2>1, <2>2, <2>3, <2>4 DEF ReleaseRxBuffer
<1>2. ASSUME NEW e \in Eps, PollRx(e) PROVE MaskInv'
  <2>1. pc' = pc
    BY <1>2 DEF PollRx, taskVars
  <2>2. CASE active[e] = NoBuf
    BY <1>2, <2>1, <2>2 DEF PollRx, mgrVars
  <2>3. CASE active[e] # NoBuf
    <3>1. /\ masked' = (masked \/ (Otghs2 /\ ~CanAllocate(e)))
          /\ SetBuffer(e, Allocated(e))
      BY <1>2, <2>3 DEF PollRx, Rearm
    <3>2. \A f \in Eps : active'[f] = IF f = e THEN Allocated(e) ELSE active[f]
      <4>. DEFINE a == Allocated(e)
      <4>. HIDE DEF a
      <4>1. active' = [active EXCEPT ![e] = a]
        BY <3>1 DEF a, SetBuffer
      <4>2. \A f \in Eps : active'[f] = IF f = e THEN a ELSE active[f]
        BY <4>1
      <4>. QED BY <4>2 DEF a
    <3>3. CASE CanAllocate(e)
      <4>1. masked' = masked
        BY <1>2, <2>3, <3>1, <3>3, RxAssumption DEF PollRx, Rearm
      <4>2. \A f \in Eps : active[f] = NoBuf => active'[f] = NoBuf
        BY <2>3, <3>2
      <4>. QED BY <2>1, <4>1, <4>2
    <3>4. CASE ~CanAllocate(e)
      <4>1. active'[e] = NoBuf
        BY <3>2, <3>4 DEF Allocated
      <4>2. ~Otghs2 => ~masked'
        BY <3>1, <3>4
      <4>. QED BY <4>1, <4>2
    <3>. QED BY <3>3, <3>4
  <2>. QED BY <2>2, <2>3
<1>3. ASSUME NEW t \in Tasks, NEW e \in Eps, WaitRxBuffer(t, e) PROVE MaskInv'
  <2>1. /\ masked' = masked /\ active' = active
        /\ \A u \in Tasks : pc[u] \in {"arm", "unmask"} => pc'[u] = pc[u]
    BY <1>3 DEF WaitRxBuffer, TakeRxBuffer, coreVars
  <2>. QED BY <2>1
<1>4. CASE \/ \E e \in Eps : HostOut(e) \/ HostOutEmpty(e) \/ PollEmpty(e) \/ EpConfig(e)
           \/ RaiseOther \/ PollOther \/ BusReset \/ UNCHANGED vars
  <2>1. UNCHANGED <<masked, active, pc>>
    BY <1>4 DEF HostOut, HostOutEmpty, HostSends, PollEmpty, EpConfig, RaiseOther, PollOther, BusReset, mgrVars, taskVars, vars
  <2>. QED BY <2>1
<1>. QED BY <1>1, <1>2, <1>3, <1>4 DEF RxNext

\* RXFLVL is masked only while an endpoint has no buffer or a task is about to
\* unmask it: for any tasks, sharing endpoints or not, and across resets.
THEOREM MaskOnlyInUnderrun == RxSpec => []MaskedMeansUnderrun
<1>1. RxInit => MaskInv
  BY DEF RxInit, MaskInv, MaskedMeansUnderrun
<1>2. RxTypeOK /\ MaskInv /\ [RxNext]_vars => MaskInv'
  BY MaskStep
<1>3. MaskInv => MaskedMeansUnderrun
  BY DEF MaskInv
<1>. QED BY <1>1, <1>2, <1>3, RxTypeInit, RxTypeStep, PTL DEF RxSpec

-----------------------------------------------------------------------------
(***************************************************************************)
(* poll() never meets a packet without a buffer to put it in: with one     *)
(* application task, so that Scoped_ISR_Mask need not nest, a packet that  *)
(* ends its endpoint's transfer, and no reset or reconfiguration.          *)
(***************************************************************************)
OneTask  == \A t, u \in Tasks : t = u
NoFaults == StaysArmed = {FALSE} /\ MaxResets = 0 /\ MaxConfigs = 0
NoneYet  == resets = 0 /\ configs = 0

NonePending(e, q) == \A i \in DOMAIN q : q[i][1] # e
OnePending(q) == \A i, j \in DOMAIN q : i # j => q[i][1] # q[j][1]

\* While the task is in release_rx_buffer the interrupt is off.
Masked == \A t \in Tasks : pc[t] \notin {"idle", "reading"} => ~irqOn
\* The FIFO has at most one packet of an endpoint, which then is not armed.
ArmedIsEmpty == OnePending(fifo) /\ \A e \in Eps : armed[e] => NonePending(e, fifo)
\* The buffer the task gave back is there for poll_allocate_buffer, and once it
\* is active the endpoint is still as the underrun left it.
ReleasedIsThere ==
    \A t \in Tasks :
        /\ pc[t] \in {"check", "alloc"} => pool[ep[t]] # <<>>
        /\ pc[t] = "set" => spare[t] # NoBuf
        /\ pc[t] = "arm" => /\ active[ep[t]] # NoBuf
                            /\ ~armed[ep[t]] /\ NonePending(ep[t], fifo)

SerialInv == Masked /\ ArmedIsEmpty /\ ReleasedIsThere /\ NullMeansNak /\ NoNullDeref

LEMMA PacketPopped ==
    ASSUME NEW q \in Seq(Packets), q # <<>>
    PROVE  /\ ~NonePending(Head(q)[1], q)
           /\ \A e : NonePending(e, q) => NonePending(e, Tail(q))
           /\ OnePending(q) => OnePending(Tail(q)) /\ NonePending(Head(q)[1], Tail(q))
<1>1. /\ Len(q) \in Nat \ {0} /\ DOMAIN q = 1 .. Len(q) /\ Head(q) = q[1]
      /\ DOMAIN Tail(q) = 1 .. Len(q) - 1
      /\ \A i \in 1 .. Len(q) - 1 : Tail(q)[i] = q[i + 1]
  BY LenProperties, HeadTailProperties, EmptySeq
<1>2. \A i \in DOMAIN Tail(q) : i + 1 \in DOMAIN q /\ i + 1 # 1 /\ Tail(q)[i] = q[i + 1]
  BY <1>1
<1>3. \A i, j \in DOMAIN Tail(q) : i # j => i + 1 # j + 1
  BY <1>1
<1>4. 1 \in DOMAIN q /\ Head(q) = q[1]
  BY <1>1
<1>. QED BY <1>2, <1>3, <1>4 DEF NonePending, OnePending

LEMMA PacketPushed ==
    ASSUME NEW q \in Seq(Packets), NEW e \in Eps, NEW n \in SeqNos \cup {Empty}
    PROVE  /\ \A f : f # e /\ NonePending(f, q) => NonePending(f, Append(q, <<e, n>>))
           /\ OnePending(q) /\ NonePending(e, q) => OnePending(Append(q, <<e, n>>))
<1>. DEFINE p == Append(q, <<e, n>>)
<1>1. /\ Len(q) \in Nat /\ DOMAIN q = 1 .. Len(q) /\ DOMAIN p = 1 .. Len(q) + 1
      /\ \A i \in 1 .. Len(q) : p[i] = q[i]
      /\ p[Len(q) + 1] = <<e, n>>
  <2>1. <<e, n>> \in Packets
    BY DEF Packets
  <2>. QED BY <2>1, LenProperties, AppendProperties
<1>2. <<e, n>>[1] = e
  OBVIOUS
<1>. HIDE DEF p
<1>3. \A i \in DOMAIN p : (i \in DOMAIN q /\ p[i] = q[i]) \/ (i = Len(q) + 1 /\ p[i][1] = e)
  BY <1>1, <1>2
<1>4. /\ \A f : f # e /\ NonePending(f, q) => NonePending(f, p)
      /\ OnePending(q) /\ NonePending(e, q) => OnePending(p)
  BY <1>3 DEF NonePending, OnePending
<1>. QED BY <1>4 DEF p

LEMMA NakIsNonePending ==
    NullMeansNak <=> \A e \in Eps : active[e] = NoBuf => ~armed[e] /\ NonePending(e, fifo)
  BY DEF NullMeansNak, NonePending

\* A pool that was given a buffer is not empty.
LEMMA ReleasedIsAny ==
    ASSUME NEW p \in Seq(Buffers), NEW b \in Buffers
    PROVE  Append(p, b) # <<>>
<1>1. Len(Append(p, b)) = Len(p) + 1 /\ Len(p) \in Nat
  BY LenProperties
<1>. QED BY <1>1

LEMMA ReleaseRxBufferSerial ==
    ASSUME OneTask, Otghs2, RxInv, SerialInv, NEW t \in Tasks, ReleaseRxBuffer(t)
    PROVE  SerialInv'
<1>0. \A u \in Tasks : u = t
  BY DEF OneTask
<1>. USE DEF RxInv, RxTypeOK, MgrTypeOK, GoTo
<1>n. \A e \in Eps : active[e] = NoBuf => ~armed[e] /\ NonePending(e, fifo)
  BY NakIsNonePending DEF SerialInv
<1>s. Masked /\ ArmedIsEmpty /\ ReleasedIsThere /\ ~crashed
  BY DEF SerialInv, NoNullDeref
<1>q. ASSUME Masked', ArmedIsEmpty', ReleasedIsThere',
             \A e \in Eps : active'[e] = NoBuf => ~armed'[e] /\ NonePending(e, fifo'),
             crashed' = crashed
      PROVE  SerialInv'
  BY <1>q, <1>s DEF SerialInv, NullMeansNak, NonePending, NoNullDeref
<1>a. fifo' = fifo /\ crashed' = crashed /\ ep' = ep /\ ep[t] \in Eps
  BY DEF ReleaseRxBuffer, EnterRelease, FreeBuffer, CheckActive, AllocateActive, SetActive,
         ArmEndpoint, UnmaskRxflvl, LeaveRelease, coreVars
<1>m. Masked'
  BY <1>0, <1>s DEF ReleaseRxBuffer, EnterRelease, FreeBuffer, CheckActive, AllocateActive,
         SetActive, ArmEndpoint, UnmaskRxflvl, LeaveRelease, coreVars, Masked
<1>1. CASE EnterRelease(t) \/ UnmaskRxflvl(t) \/ LeaveRelease(t)
  <2>1. /\ active' = active /\ armed' = armed /\ pc'[t] \in {"free", "leave", "idle"}
    BY <1>1 DEF EnterRelease, UnmaskRxflvl, LeaveRelease, mgrVars, coreVars
  <2>2. ReleasedIsThere' /\ ArmedIsEmpty'
    BY <1>0, <1>a, <1>s, <2>1 DEF ReleasedIsThere, ArmedIsEmpty
  <2>. QED BY <1>a, <1>m, <1>n, <1>q, <2>1, <2>2
<1>2. CASE FreeBuffer(t)
  <2>1. /\ active' = active /\ armed' = armed /\ pc'[t] = "check"
        /\ pool' = [pool EXCEPT ![ep[t]] = Append(pool[ep[t]], buf[t])]
        /\ buf[t] \in Buffers
    BY <1>2, BuffersAssumption DEF FreeBuffer, ReleaseBuffer, BufferInHand, coreVars
  <2>2. pool'[ep[t]] # <<>>
    <3>0. pool \in [Eps -> Seq(Buffers)]
      OBVIOUS
    <3>1. pool'[ep[t]] = Append(pool[ep[t]], buf[t]) /\ pool[ep[t]] \in Seq(Buffers)
      BY <1>a, <2>1, <3>0
    <3>2. Append(pool[ep[t]], buf[t]) # <<>>
      BY <2>1, <3>1, ReleasedIsAny
    <3>. QED BY <3>1, <3>2
  <2>3. ReleasedIsThere' /\ ArmedIsEmpty'
    BY <1>0, <1>a, <1>s, <2>1, <2>2 DEF ReleasedIsThere, ArmedIsEmpty
  <2>. QED BY <1>a, <1>m, <1>n, <1>q, <2>1, <2>3
<1>3. CASE CheckActive(t)
  <2>1. /\ UNCHANGED <<pool, active, armed>> /\ pc[t] = "check" /\ pc'[t] \in {"alloc", "leave"}
    BY <1>3 DEF CheckActive, mgrVars, coreVars
  <2>2. ReleasedIsThere' /\ ArmedIsEmpty'
    BY <1>0, <1>a, <1>s, <2>1 DEF ReleasedIsThere, ArmedIsEmpty
  <2>. QED BY <1>a, <1>m, <1>n, <1>q, <2>1, <2>2
<1>4. CASE AllocateActive(t)
  <2>1. /\ UNCHANGED <<active, armed>> /\ pc[t] = "alloc" /\ pc'[t] = "set"
        /\ spare'[t] = Allocated(ep[t])
    BY <1>4 DEF AllocateActive, coreVars
  <2>2. CanAllocate(ep[t])
    BY <1>s, <2>1 DEF ReleasedIsThere, CanAllocate
  <2>3. spare'[t] # NoBuf
    BY <1>a, <2>1, <2>2, TakenIsBuffer, BuffersAssumption
  <2>4. ReleasedIsThere' /\ ArmedIsEmpty'
    BY <1>0, <1>a, <1>s, <2>1, <2>3 DEF ReleasedIsThere, ArmedIsEmpty
  <2>. QED BY <1>a, <1>m, <1>n, <1>q, <2>1, <2>4
<1>5. CASE SetActive(t)
  <2>1. /\ armed' = armed /\ pc[t] = "set" /\ pc'[t] = "arm"
        /\ \A f \in Eps : active'[f] = IF f = ep[t] THEN spare[t] ELSE active[f]
        /\ active[ep[t]] = NoBuf
    <3>1. /\ armed' = armed /\ pc[t] = "set" /\ pc' = [pc EXCEPT ![t] = "arm"]
          /\ active' = [active EXCEPT ![ep[t]] = spare[t]]
      BY <1>5 DEF SetActive, SetBuffer, coreVars
    <3>2. active[ep[t]] = NoBuf
      BY <3>1 DEF CheckStillHolds
    <3>. QED BY <3>1, <3>2
  <2>2. /\ active'[ep[t]] # NoBuf /\ ~armed[ep[t]] /\ NonePending(ep[t], fifo)
    BY <1>a, <1>n, <1>s, <2>1 DEF ReleasedIsThere
  <2>3. ReleasedIsThere' /\ ArmedIsEmpty'
    BY <1>0, <1>a, <1>s, <2>1, <2>2 DEF ReleasedIsThere, ArmedIsEmpty
  <2>. QED BY <1>a, <1>m, <1>n, <1>q, <2>1, <2>2, <2>3
<1>6. CASE ArmEndpoint(t)
  <2>1. /\ active' = active /\ pc[t] = "arm" /\ pc'[t] = "unmask"
        /\ \A f \in Eps : armed'[f] = IF f = ep[t] THEN TRUE ELSE armed[f]
    BY <1>6 DEF ArmEndpoint, mgrVars
  <2>2. active[ep[t]] # NoBuf /\ NonePending(ep[t], fifo)
    BY <1>s, <2>1 DEF ReleasedIsThere
  <2>3. ReleasedIsThere' /\ ArmedIsEmpty'
    BY <1>0, <1>a, <1>s, <2>1, <2>2 DEF ReleasedIsThere, ArmedIsEmpty
  <2>. QED BY <1>a, <1>m, <1>n, <1>q, <2>1, <2>2, <2>3
<1>. QED BY <1>1, <1>2, <1>3, <1>4, <1>5, <1>6 DEF ReleaseRxBuffer

LEMMA PollRxSerial ==
    ASSUME Otghs2, RxInv, SerialInv, NEW e \in Eps, PollRx(e)
    PROVE  SerialInv'
<1>t. /\ fifo \in Seq(Packets) /\ fifo # <<>> /\ Head(fifo)[1] = e /\ fifo' = Tail(fifo)
      /\ irqOn /\ irqOn' = irqOn /\ pc' = pc /\ ep' = ep /\ spare' = spare
  BY DEF PollRx, PollPops, taskVars, RxInv, RxTypeOK
<1>n. \A f \in Eps : active[f] = NoBuf => ~armed[f] /\ NonePending(f, fifo)
  BY NakIsNonePending DEF SerialInv
<1>1. active[e] # NoBuf
  BY <1>n, <1>t, PacketPopped
<1>2. /\ crashed' = crashed /\ AllocateBuffer(e) /\ SetBuffer(e, Allocated(e))
      /\ armed' = [armed EXCEPT ![e] = CanAllocate(e)]
  BY <1>1 DEF PollRx, Rearm
<1>3. /\ \A f \in Eps \ {e} : active'[f] = active[f]
      /\ ~CanAllocate(e) => active'[e] = NoBuf
      /\ CanAllocate(e) => active'[e] # NoBuf
  <2>. DEFINE a == Allocated(e)
  <2>1. (CanAllocate(e) => a # NoBuf) /\ (~CanAllocate(e) => a = NoBuf)
    BY TakenIsBuffer, BuffersAssumption DEF Allocated, RxInv, RxTypeOK, MgrTypeOK
  <2>2. active' = [active EXCEPT ![e] = a] /\ active \in [Eps -> Buffers \cup {NoBuf}]
    BY <1>2 DEF SetBuffer, RxInv, RxTypeOK, MgrTypeOK
  <2>. HIDE DEF a
  <2>. QED BY <2>1, <2>2
<1>4. \A f \in Eps : armed'[f] = IF f = e THEN CanAllocate(e) ELSE armed[f]
  BY <1>2 DEF RxInv, RxTypeOK
<1>5. /\ OnePending(fifo') /\ NonePending(e, fifo')
      /\ \A f : NonePending(f, fifo) => NonePending(f, fifo')
  BY <1>t, PacketPopped DEF SerialInv, ArmedIsEmpty
<1>6. \A t \in Tasks : pc[t] \in {"idle", "reading"}
  BY <1>t DEF SerialInv, Masked
<1>7. Masked' /\ ReleasedIsThere'
  BY <1>t, <1>6 DEF Masked, ReleasedIsThere
<1>8. ArmedIsEmpty'
  BY <1>4, <1>5 DEF SerialInv, ArmedIsEmpty
<1>9. ASSUME NEW f \in Eps, active'[f] = NoBuf PROVE ~armed'[f] /\ NonePending(f, fifo')
  <2>1. CASE f = e
    BY <1>3, <1>4, <1>5, <1>9, <2>1
  <2>2. CASE f # e
    BY <1>3, <1>4, <1>5, <1>9, <1>n, <2>2
  <2>. QED BY <2>1, <2>2
<1>. QED BY <1>2, <1>7, <1>8, <1>9 DEF SerialInv, NullMeansNak, NonePending, NoNullDeref

\* An empty packet leaves its endpoint without one, and not armed.
LEMMA PollEmptySerial ==
    ASSUME RxInv, SerialInv, NEW e \in Eps, PollEmpty(e)
    PROVE  SerialInv'
<1>1. /\ fifo \in Seq(Packets) /\ fifo # <<>> /\ fifo' = Tail(fifo)
      /\ UNCHANGED <<pool, active, armed, irqOn, crashed, pc, ep, spare>>
  BY DEF PollEmpty, PollPops, mgrVars, taskVars, RxInv, RxTypeOK
<1>2. OnePending(fifo') /\ \A f : NonePending(f, fifo) => NonePending(f, fifo')
  BY <1>1, PacketPopped DEF SerialInv, ArmedIsEmpty
<1>3. Masked' /\ ArmedIsEmpty' /\ ReleasedIsThere'
  BY <1>1, <1>2 DEF SerialInv, Masked, ArmedIsEmpty, ReleasedIsThere
<1>4. \A f \in Eps : active'[f] = NoBuf => ~armed'[f] /\ NonePending(f, fifo')
  BY <1>1, <1>2, NakIsNonePending DEF SerialInv
<1>. QED BY <1>1, <1>3, <1>4 DEF SerialInv, NullMeansNak, NonePending, NoNullDeref

LEMMA HostSendsSerial ==
    ASSUME NoFaults, RxInv, SerialInv, NEW e \in Eps, NEW m \in SeqNos \cup {Empty},
           HostSends(e, m)
    PROVE  SerialInv'
<1>1. /\ fifo \in Seq(Packets)
      /\ armed[e] /\ fifo' = Append(fifo, <<e, m>>)
      /\ \A f \in Eps : armed'[f] = IF f = e THEN FALSE ELSE armed[f]
      /\ UNCHANGED <<pool, active, pc, ep, spare, irqOn, crashed>>
  BY DEF HostSends, NoFaults, mgrVars, taskVars, RxInv, RxTypeOK
<1>2. NonePending(e, fifo) /\ OnePending(fifo)
  BY <1>1 DEF SerialInv, ArmedIsEmpty
<1>3. /\ OnePending(fifo')
      /\ \A f \in Eps \ {e} : NonePending(f, fifo) => NonePending(f, fifo')
  BY <1>1, <1>2, PacketPushed
<1>4. Masked' /\ ArmedIsEmpty'
  BY <1>1, <1>3 DEF SerialInv, Masked, ArmedIsEmpty
<1>5. ReleasedIsThere'
  BY <1>1, <1>3 DEF SerialInv, ReleasedIsThere, RxInv, RxTypeOK
<1>6. ASSUME NEW f \in Eps, active'[f] = NoBuf PROVE ~armed'[f] /\ NonePending(f, fifo')
  <2>1. ~armed[f] /\ NonePending(f, fifo)
    BY <1>1, <1>6, NakIsNonePending DEF SerialInv
  <2>. QED BY <1>1, <1>3, <2>1
<1>. QED BY <1>1, <1>4, <1>5, <1>6 DEF SerialInv, NullMeansNak, NonePending, NoNullDeref

LEMMA SerialStep ==
    ASSUME OneTask, Otghs2, NoFaults, NoneYet, RxInv, SerialInv, [RxNext]_vars
    PROVE  SerialInv' /\ NoneYet'
<1>0. ~BusReset /\ \A e \in Eps : ~EpConfig(e)
  BY DEF NoFaults, NoneYet, BusReset, EpConfig
<1>. USE DEF RxInv, RxTypeOK
<1>1. NoneYet'
  BY <1>0 DEF RxNext, NoneYet, ReleaseRxBuffer, EnterRelease, FreeBuffer, CheckActive,
              AllocateActive, SetActive, ArmEndpoint, UnmaskRxflvl, LeaveRelease,
              WaitRxBuffer, TakeRxBuffer, HostOut, HostOutEmpty, HostSends, PollRx, PollEmpty,
              RaiseOther, PollOther, vars
<1>. SUFFICES SerialInv'
  BY <1>1
<1>2. CASE \E t \in Tasks : ReleaseRxBuffer(t)
  BY <1>2, ReleaseRxBufferSerial
<1>3. CASE \E e \in Eps : PollRx(e)
  BY <1>3, PollRxSerial
<1>4. CASE \E e \in Eps : HostOut(e) \/ HostOutEmpty(e)
  <2>1. PICK e \in Eps, m \in SeqNos \cup {Empty} : HostSends(e, m)
    BY <1>4 DEF HostOut, HostOutEmpty
  <2>. QED BY <2>1, HostSendsSerial
<1>5. ASSUME NEW t \in Tasks, NEW e \in Eps, WaitRxBuffer(t, e) PROVE SerialInv'
  <2>1. /\ UNCHANGED <<pool, active, fifo, armed, irqOn, crashed>>
        /\ pc' = [pc EXCEPT ![t] = "reading"] /\ \A u \in Tasks : u = t
    BY <1>5 DEF WaitRxBuffer, TakeRxBuffer, coreVars, OneTask
  <2>2. Masked' /\ ArmedIsEmpty' /\ ReleasedIsThere'
    BY <2>1 DEF SerialInv, Masked, ArmedIsEmpty, ReleasedIsThere
  <2>. QED BY <2>1, <2>2 DEF SerialInv, NullMeansNak, NoNullDeref
<1>6. CASE RaiseOther \/ PollOther \/ UNCHANGED vars
  <2>1. UNCHANGED <<pool, active, fifo, armed, irqOn, crashed, pc, ep, spare>>
    BY <1>6 DEF RaiseOther, PollOther, mgrVars, taskVars, vars
  <2>. QED BY <2>1 DEF SerialInv, Masked, ArmedIsEmpty, ReleasedIsThere, NullMeansNak, NoNullDeref
<1>7. CASE \E e \in Eps : PollEmpty(e)
  BY <1>7, PollEmptySerial
<1>. QED BY <1>0, <1>2, <1>3, <1>4, <1>5, <1>6, <1>7 DEF RxNext

LEMMA SerialInvariant == OneTask /\ Otghs2 /\ NoFaults /\ RxSpec => [](SerialInv /\ NoneYet)
<1>. SUFFICES ASSUME OneTask, Otghs2, NoFaults PROVE RxSpec => [](SerialInv /\ NoneYet)
  OBVIOUS
<1>0. SingleReader
  BY DEF OneTask, SingleReader
<1>1. RxInit => SerialInv /\ NoneYet
  <2>. SUFFICES ASSUME RxInit PROVE SerialInv /\ NoneYet
    OBVIOUS
  <2>1. \A e \in Eps : active[e] # NoBuf
    BY InitialPartition, BuffersAssumption DEF RxInit
  <2>2. OnePending(fifo) /\ \A e \in Eps : NonePending(e, fifo)
    BY DEF RxInit, OnePending, NonePending
  <2>. QED BY <2>1, <2>2 DEF RxInit, SerialInv, NoneYet, Masked, ArmedIsEmpty, ReleasedIsThere,
                             NullMeansNak, NoNullDeref
<1>2. RxInv /\ (SerialInv /\ NoneYet) /\ [RxNext]_vars => (SerialInv /\ NoneYet)'
  BY SerialStep
<1>. QED BY <1>0, <1>1, <1>2, RxInvariant, PTL DEF RxSpec

\* In otghs2 poll() never dereferences a null active buffer, for one application
\* task, any number of endpoints and buffers, and a FIFO of any depth.
THEOREM PollNeverDereferencesNull == OneTask /\ Otghs2 /\ NoFaults /\ RxSpec => []NoNullDeref
<1>1. SerialInv => NoNullDeref
  BY DEF SerialInv
<1>. QED BY <1>1, SerialInvariant, PTL

\* And an endpoint without an active buffer has its NAK set and no packet in the
\* FIFO, as the comment in release_rx_buffer has it.
THEOREM NullIsNak == OneTask /\ Otghs2 /\ NoFaults /\ RxSpec => []NullMeansNak
<1>1. SerialInv => NullMeansNak
  BY DEF SerialInv
<1>. QED BY <1>1, SerialInvariant, PTL

-----------------------------------------------------------------------------
(***************************************************************************)
(* The safety part of RxIsFifo: what the host sends on an endpoint reaches *)
(* the application once and in order, although all endpoints share the     *)
(* FIFO.  As an endpoint has at most one packet there (OnePending), the    *)
(* packet poll() pops is always the next one of its endpoint.              *)
(***************************************************************************)
\* The data of one packet.
DataOf(m) == IF m = Empty THEN <<>> ELSE <<m>>

LEMMA NoPacket ==
    ASSUME NEW e, NEW q, NonePending(e, q)
    PROVE  PacketsOf(e, q) = <<>>
<1>. DEFINE places == {i \in DOMAIN q : q[i][1] = e /\ q[i][2] # Empty}
            place(n) == CHOOSE i \in places : Cardinality({j \in places : j <= i}) = n
<1>1. places = {}
  BY DEF NonePending
<1>2. Cardinality(places) = 0
  BY <1>1, FS_EmptySet
<1>3. PacketsOf(e, q) = [n \in 1 .. 0 |-> q[place(n)][2]]
  BY <1>2 DEF PacketsOf
<1>. HIDE DEF place
<1>4. [n \in 1 .. 0 |-> q[place(n)][2]] = <<>>
  OBVIOUS
<1>. QED BY <1>3, <1>4

LEMMA OnePacket ==
    ASSUME NEW q \in Seq(Packets), OnePending(q), NEW k \in DOMAIN q
    PROVE  PacketsOf(q[k][1], q) = DataOf(q[k][2])
<1>. DEFINE e == q[k][1]
            places == {i \in DOMAIN q : q[i][1] = e /\ q[i][2] # Empty}
            place(n) == CHOOSE i \in places : Cardinality({j \in places : j <= i}) = n
<1>a. \A i \in DOMAIN q : q[i][1] = e => i = k
  BY DEF OnePending
<1>b. CASE q[k][2] = Empty
  <2>1. places = {}
    BY <1>a, <1>b
  <2>2. Cardinality(places) = 0
    BY <2>1, FS_EmptySet
  <2>3. PacketsOf(e, q) = [n \in 1 .. 0 |-> q[place(n)][2]]
    BY <2>2 DEF PacketsOf
  <2>. HIDE DEF place
  <2>4. [n \in 1 .. 0 |-> q[place(n)][2]] = <<>>
    OBVIOUS
  <2>. QED BY <1>b, <2>3, <2>4 DEF DataOf
<1>c. CASE q[k][2] # Empty
  <2>1. places = {k} /\ k <= k
    BY <1>a, <1>c, LenProperties
  <2>2. Cardinality(places) = 1 /\ Cardinality({j \in places : j <= k}) = 1
    <3>1. {j \in places : j <= k} = {k}
      BY <2>1
    <3>. QED BY <2>1, <3>1, FS_Singleton
  <2>3. place(1) = k
    <3>. HIDE DEF places
    <3>. QED BY <2>1, <2>2
  <2>4. PacketsOf(e, q) = [n \in 1 .. 1 |-> q[place(n)][2]]
    BY <2>2 DEF PacketsOf
  <2>. HIDE DEF place
  <2>5. [n \in 1 .. 1 |-> q[place(n)][2]] = <<q[k][2]>>
    BY <2>3
  <2>. QED BY <1>c, <2>4, <2>5 DEF DataOf
<1>. QED BY <1>b, <1>c

\* Nothing waits in the FIFO for an endpoint, or one packet.
LEMMA FewPackets ==
    ASSUME NEW q \in Seq(Packets), OnePending(q), NEW e
    PROVE  \/ NonePending(e, q) /\ PacketsOf(e, q) = <<>>
           \/ \E k \in DOMAIN q : q[k][1] = e /\ PacketsOf(e, q) = DataOf(q[k][2])
<1>1. CASE NonePending(e, q)
  BY <1>1, NoPacket
<1>2. CASE ~NonePending(e, q)
  <2>1. PICK k \in DOMAIN q : q[k][1] = e
    BY <1>2 DEF NonePending
  <2>. QED BY <2>1, OnePacket
<1>. QED BY <1>1, <1>2

\* Pushing and popping a packet leaves those of the other endpoints.
LEMMA PushedForOne ==
    ASSUME NEW q \in Seq(Packets), NEW e \in Eps, NEW n \in SeqNos \cup {Empty},
           OnePending(q), NonePending(e, q)
    PROVE  /\ PacketsOf(e, Append(q, <<e, n>>)) = DataOf(n)
           /\ \A f \in Eps \ {e} : PacketsOf(f, Append(q, <<e, n>>)) = PacketsOf(f, q)
<1>. DEFINE p == Append(q, <<e, n>>)
<1>1. /\ p \in Seq(Packets) /\ OnePending(p)
      /\ Len(q) \in Nat /\ DOMAIN q = 1 .. Len(q) /\ DOMAIN p = 1 .. Len(q) + 1
      /\ \A i \in 1 .. Len(q) : p[i] = q[i]
      /\ p[Len(q) + 1] = <<e, n>>
  <2>1. <<e, n>> \in Packets
    BY DEF Packets
  <2>. QED BY <2>1, PacketPushed, LenProperties, AppendProperties
<1>2. <<e, n>>[1] = e /\ <<e, n>>[2] = n
  OBVIOUS
<1>. HIDE DEF p
<1>3. PacketsOf(e, p) = DataOf(n)
  <2>1. Len(q) + 1 \in DOMAIN p
    BY <1>1
  <2>. QED BY <1>1, <1>2, <2>1, OnePacket
<1>4. ASSUME NEW f \in Eps \ {e} PROVE PacketsOf(f, p) = PacketsOf(f, q)
  <2>1. CASE NonePending(f, q)
    <3>1. NonePending(f, p)
      BY <2>1, PacketPushed DEF p
    <3>. QED BY <2>1, <3>1, NoPacket
  <2>2. ASSUME NEW k \in DOMAIN q, q[k][1] = f PROVE PacketsOf(f, p) = PacketsOf(f, q)
    <3>1. k \in DOMAIN p /\ p[k] = q[k]
      BY <1>1
    <3>2. PacketsOf(f, p) = DataOf(p[k][2]) /\ PacketsOf(f, q) = DataOf(q[k][2])
      BY <1>1, <2>2, <3>1, OnePacket
    <3>. QED BY <3>1, <3>2
  <2>. QED BY <2>1, <2>2 DEF NonePending
<1>. QED BY <1>3, <1>4 DEF p

LEMMA PoppedForOne ==
    ASSUME NEW q \in Seq(Packets), q # <<>>, OnePending(q)
    PROVE  /\ PacketsOf(Head(q)[1], q) = DataOf(Head(q)[2])
           /\ PacketsOf(Head(q)[1], Tail(q)) = <<>>
           /\ \A f \in Eps \ {Head(q)[1]} : PacketsOf(f, Tail(q)) = PacketsOf(f, q)
<1>. DEFINE p == Tail(q)
<1>1. /\ p \in Seq(Packets) /\ Len(q) \in Nat \ {0} /\ DOMAIN q = 1 .. Len(q)
      /\ Head(q) = q[1] /\ DOMAIN p = 1 .. Len(q) - 1
      /\ \A i \in 1 .. Len(q) - 1 : p[i] = q[i + 1]
  BY LenProperties, HeadTailProperties, EmptySeq
<1>2. OnePending(p) /\ NonePending(Head(q)[1], p)
  BY PacketPopped
<1>. HIDE DEF p
<1>3. 1 \in DOMAIN q
  BY <1>1
<1>4. PacketsOf(Head(q)[1], q) = DataOf(Head(q)[2]) /\ PacketsOf(Head(q)[1], p) = <<>>
  BY <1>1, <1>2, <1>3, OnePacket, NoPacket
<1>5. ASSUME NEW f \in Eps \ {Head(q)[1]} PROVE PacketsOf(f, p) = PacketsOf(f, q)
  <2>1. CASE NonePending(f, q)
    <3>1. NonePending(f, p)
      BY <2>1, PacketPopped DEF p
    <3>. QED BY <2>1, <3>1, NoPacket
  <2>2. ASSUME NEW k \in DOMAIN q, q[k][1] = f PROVE PacketsOf(f, p) = PacketsOf(f, q)
    <3>1. k # 1
      BY <1>1, <2>2
    <3>2. k - 1 \in DOMAIN p /\ p[k - 1] = q[k]
      BY <1>1, <3>1
    <3>3. PacketsOf(f, p) = DataOf(p[k - 1][2]) /\ PacketsOf(f, q) = DataOf(q[k][2])
      BY <1>1, <1>2, <2>2, <3>2, OnePacket
    <3>. QED BY <3>2, <3>3
  <2>. QED BY <2>1, <2>2 DEF NonePending
<1>. QED BY <1>4, <1>5 DEF p

LEMMA ArrivedIs ==
    ASSUME NEW e \in Eps
    PROVE  /\ Arrived(e) = Carried(queue[e], data[e]) \o PacketsOf(e, fifo)
           /\ Arrived(e)' = Carried(queue'[e], data'[e]) \o PacketsOf(e, fifo')
  BY DEF Arrived, Carried

LEMMA WaitingTypes ==
    ASSUME RxTypeOK, OnePending(fifo), NEW e \in Eps
    PROVE  /\ queue[e] \in Seq(Buffers) /\ data[e] \in [Buffers -> SeqNos]
           /\ Carried(queue[e], data[e]) \in Seq(SeqNos)
           /\ PacketsOf(e, fifo) \in Seq(SeqNos)
<1>1. /\ queue[e] \in Seq(Buffers) /\ data[e] \in [Buffers -> SeqNos]
      /\ fifo \in Seq(Packets)
  BY DEF RxTypeOK, MgrTypeOK
<1>2. Carried(queue[e], data[e]) \in Seq(SeqNos)
  BY <1>1, CarriedIsSeq
<1>3. CASE PacketsOf(e, fifo) = <<>>
  BY <1>1, <1>2, <1>3
<1>4. ASSUME NEW k \in DOMAIN fifo, PacketsOf(e, fifo) = DataOf(fifo[k][2])
      PROVE  PacketsOf(e, fifo) \in Seq(SeqNos)
  <2>1. fifo[k][2] \in SeqNos \cup {Empty}
    <3>1. fifo[k] \in Packets
      BY <1>1, LenProperties
    <3>. QED BY <3>1 DEF Packets
  <2>. QED BY <1>4, <2>1 DEF DataOf
<1>5. PacketsOf(e, fifo) \in Seq(SeqNos)
  BY <1>1, <1>3, <1>4, FewPackets
<1>. QED BY <1>1, <1>2, <1>5

\* What a step does to an endpoint's packets.
Stays(e) == Arrived(e)' = Arrived(e)
Accepts(e) == \E n \in SeqNos : Arrived(e)' = Append(Arrived(e), n)
Delivers(e) == Arrived(e) # <<>> /\ Arrived(e)' = Tail(Arrived(e))

\* The packet is the last of its endpoint.
LEMMA HostSendsArrives ==
    ASSUME RxInv, SerialInv, NEW f \in Eps, NEW m \in SeqNos \cup {Empty}, HostSends(f, m),
           NEW e \in Eps
    PROVE  IF e = f THEN Arrived(e)' = Arrived(e) \o DataOf(m) ELSE Stays(e)
<1>. DEFINE c == Carried(queue[e], data[e])
<1>1. /\ fifo \in Seq(Packets)
      /\ armed[f] /\ fifo' = Append(fifo, <<f, m>>)
      /\ UNCHANGED <<queue, data>>
  BY DEF HostSends, mgrVars, RxInv, RxTypeOK
<1>2. NonePending(f, fifo) /\ OnePending(fifo)
  BY <1>1 DEF SerialInv, ArmedIsEmpty
<1>3. c \in Seq(SeqNos)
  BY <1>2, WaitingTypes DEF RxInv
<1>4. Arrived(e) = c \o PacketsOf(e, fifo) /\ Arrived(e)' = c \o PacketsOf(e, fifo')
  BY <1>1, ArrivedIs
<1>. HIDE DEF c
<1>5. CASE e = f
  <2>1. PacketsOf(e, fifo) = <<>> /\ PacketsOf(e, fifo') = DataOf(m)
    BY <1>1, <1>2, <1>5, NoPacket, PushedForOne
  <2>2. c \o <<>> = c
    BY <1>3, ConcatEmptySeq
  <2>. QED BY <1>4, <1>5, <2>1, <2>2
<1>6. CASE e # f
  <2>1. PacketsOf(e, fifo') = PacketsOf(e, fifo)
    BY <1>1, <1>2, <1>6, PushedForOne
  <2>. QED BY <1>4, <1>6, <2>1 DEF Stays
<1>. QED BY <1>5, <1>6

LEMMA ArrivedType ==
    ASSUME RxInv, SerialInv, NEW e \in Eps
    PROVE  Arrived(e) \in Seq(SeqNos)
<1>1. Carried(queue[e], data[e]) \in Seq(SeqNos) /\ PacketsOf(e, fifo) \in Seq(SeqNos)
  BY WaitingTypes DEF RxInv, SerialInv, ArmedIsEmpty
<1>. QED BY <1>1, ArrivedIs, ConcatProperties

LEMMA HostOutArrives ==
    ASSUME RxInv, SerialInv, NEW f \in Eps, HostOut(f), NEW e \in Eps
    PROVE  IF e = f THEN Accepts(e) ELSE Stays(e)
<1>1. sent[f] \in SeqNos /\ sent[f] # Empty /\ HostSends(f, sent[f])
  BY RxAssumption DEF HostOut, RxInv, RxTypeOK
<1>2. CASE e = f
  <2>1. Arrived(e)' = Arrived(e) \o <<sent[f]>>
    BY <1>1, <1>2, HostSendsArrives DEF DataOf
  <2>. QED BY <1>1, <1>2, <2>1, ArrivedType, AppendIsConcat DEF Accepts
<1>. QED BY <1>1, <1>2, HostSendsArrives

\* An empty packet carries nothing to the application.
LEMMA EmptyArrives ==
    ASSUME RxInv, SerialInv, NEW f \in Eps, HostOutEmpty(f) \/ PollEmpty(f), NEW e \in Eps
    PROVE  Stays(e)
<1>1. CASE HostOutEmpty(f)
  <2>1. e # f => Stays(e)
    BY <1>1, HostSendsArrives DEF HostOutEmpty
  <2>2. e = f => Arrived(e)' = Arrived(e) \o <<>>
    BY <1>1, HostSendsArrives DEF HostOutEmpty, DataOf
  <2>. QED BY <2>1, <2>2, ArrivedType, ConcatEmptySeq DEF Stays
<1>2. CASE PollEmpty(f)
  <2>1. /\ fifo \in Seq(Packets) /\ fifo # <<>> /\ fifo' = Tail(fifo)
        /\ Head(fifo) = <<f, Empty>> /\ UNCHANGED <<queue, data>>
    BY <1>2 DEF PollEmpty, PollPops, mgrVars, RxInv, RxTypeOK
  <2>2. Head(fifo)[1] = f /\ DataOf(Head(fifo)[2]) = <<>>
    BY <2>1 DEF DataOf
  <2>3. PacketsOf(e, fifo') = PacketsOf(e, fifo)
    BY <2>1, <2>2, PoppedForOne DEF SerialInv, ArmedIsEmpty
  <2>. QED BY <2>1, <2>3, ArrivedIs DEF Stays
<1>. QED BY <1>1, <1>2

LEMMA PollRxArrives ==
    ASSUME RxInv, SerialInv, NEW f \in Eps, PollRx(f), NEW e \in Eps
    PROVE  Stays(e)
<1>1. /\ fifo \in Seq(Packets) /\ fifo # <<>> /\ Head(fifo)[1] = f /\ fifo' = Tail(fifo)
      /\ Head(fifo)[2] \in SeqNos
  <2>1. fifo \in Seq(Packets) /\ fifo # <<>> /\ Head(fifo)[1] = f /\ fifo' = Tail(fifo)
    BY DEF PollRx, PollPops, RxInv, RxTypeOK
  <2>2. Head(fifo) \in Packets /\ Head(fifo)[2] # Empty
    BY <2>1, HeadTailProperties DEF PollRx
  <2>. QED BY <2>1, <2>2 DEF Packets
<1>2. OnePending(fifo)
  BY DEF SerialInv, ArmedIsEmpty
<1>3. active[f] # NoBuf /\ active[f] \in Buffers
  <2>1. active[f] # NoBuf
    BY <1>1, NakIsNonePending, PacketPopped DEF SerialInv
  <2>. QED BY <2>1 DEF RxInv, RxTypeOK, MgrTypeOK
<1>4. /\ data' = [data EXCEPT ![f] = [data[f] EXCEPT ![active[f]] = Head(fifo)[2]]]
      /\ queue' = [queue EXCEPT ![f] = Append(queue[f], active[f])]
  BY <1>3, RxQueueHasRoom DEF PollRx, EnqueueBuffer
<1>5. /\ queue[e] \in Seq(Buffers) /\ data[e] \in [Buffers -> SeqNos]
      /\ Carried(queue[e], data[e]) \in Seq(SeqNos)
  BY <1>2, WaitingTypes DEF RxInv
<1>6. CASE e # f
  <2>1. PacketsOf(e, fifo') = PacketsOf(e, fifo)
    BY <1>1, <1>2, <1>6, PoppedForOne
  <2>2. queue'[e] = queue[e] /\ data'[e] = data[e]
    BY <1>4, <1>6 DEF RxInv, RxTypeOK, MgrTypeOK
  <2>. QED BY <2>1, <2>2, ArrivedIs DEF Stays
<1>7. CASE e = f
  <2>. DEFINE n == Head(fifo)[2]
              c == Carried(queue[e], data[e])
  <2>1. PacketsOf(e, fifo) = <<n>> /\ PacketsOf(e, fifo') = <<>>
    BY <1>1, <1>2, <1>7, RxAssumption, PoppedForOne DEF DataOf
  <2>2. /\ data'[e] = [data[e] EXCEPT ![active[e]] = n]
        /\ queue'[e] = Append(queue[e], active[e])
    BY <1>4, <1>7 DEF RxInv, RxTypeOK, MgrTypeOK
  <2>3. data'[e] \in [Buffers -> SeqNos] /\ data'[e][active[e]] = n
    BY <1>1, <1>3, <1>5, <1>7, <2>2
  <2>4. Carried(queue[e], data'[e]) = c
    <3>1. active[e] \notin Range(queue[e])
      BY DEF RxInv, RxConserved, Conserved, Partition, Apart
    <3>2. ASSUME NEW i \in DOMAIN queue[e] PROVE data'[e][queue[e][i]] = data[e][queue[e][i]]
      <4>1. queue[e][i] \in Buffers /\ queue[e][i] # active[e]
        BY <1>5, <3>1, LenProperties DEF Range
      <4>. QED BY <1>5, <2>2, <4>1
    <3>. QED BY <3>2 DEF Carried
  <2>5. Carried(queue'[e], data'[e]) = Append(c, n)
    <3>1. active[e] \in Buffers
      BY <1>3, <1>7
    <3>2. Carried(Append(queue[e], active[e]), data'[e])
            = Append(Carried(queue[e], data'[e]), data'[e][active[e]])
      BY <1>5, <2>3, <3>1, CarriedAppend
    <3>. QED BY <2>2, <2>3, <2>4, <3>2
  <2>6. /\ c \o <<n>> = Append(c, n) /\ Append(c, n) \o <<>> = Append(c, n)
    <3>. HIDE DEF c
    <3>1. c \in Seq(SeqNos) /\ n \in SeqNos
      BY <1>1, <1>5 DEF c
    <3>2. Append(c, n) \in Seq(SeqNos)
      BY <3>1, AppendProperties
    <3>. QED BY <3>1, <3>2, AppendIsConcat, ConcatEmptySeq
  <2>. QED BY <2>1, <2>5, <2>6, ArrivedIs DEF Stays
<1>. QED BY <1>6, <1>7

LEMMA WaitRxBufferArrives ==
    ASSUME RxInv, SerialInv, NEW t \in Tasks, NEW f \in Eps, WaitRxBuffer(t, f), NEW e \in Eps
    PROVE  IF e = f THEN Delivers(e) ELSE Stays(e)
<1>1. /\ UNCHANGED <<data, fifo>> /\ queue[f] # <<>>
      /\ queue' = [queue EXCEPT ![f] = Tail(queue[f])]
  BY DEF WaitRxBuffer, TakeRxBuffer, CanDequeue, DequeueBuffer, coreVars
<1>2. /\ queue[e] \in Seq(Buffers) /\ data[e] \in [Buffers -> SeqNos]
      /\ PacketsOf(e, fifo) \in Seq(SeqNos)
  BY WaitingTypes DEF RxInv, SerialInv, ArmedIsEmpty
<1>3. CASE e # f
  <2>1. queue'[e] = queue[e]
    BY <1>1, <1>3 DEF RxInv, RxTypeOK, MgrTypeOK
  <2>. QED BY <1>1, <1>3, <2>1, ArrivedIs DEF Stays
<1>4. CASE e = f
  <2>. DEFINE m == data[e][Head(queue[e])]
              c == Carried(Tail(queue[e]), data[e])
              p == PacketsOf(e, fifo)
  <2>1. queue[e] # <<>> /\ queue'[e] = Tail(queue[e])
    BY <1>1, <1>4 DEF RxInv, RxTypeOK, MgrTypeOK
  <2>2. m \in SeqNos /\ c \in Seq(SeqNos)
    <3>1. Head(queue[e]) \in Buffers /\ Tail(queue[e]) \in Seq(Buffers)
      BY <1>2, <2>1, HeadTailProperties
    <3>. QED BY <1>2, <3>1, CarriedIsSeq
  <2>3. Carried(queue[e], data[e]) = <<m>> \o c
    BY <1>2, <2>1, CarriedHeadTail
  <2>4. Arrived(e) = (<<m>> \o c) \o p /\ Arrived(e)' = c \o p
    BY <1>1, <2>1, <2>3, ArrivedIs
  <2>. HIDE DEF m, c, p
  <2>5. p \in Seq(SeqNos) /\ <<m>> \in Seq(SeqNos)
    BY <1>2, <2>2 DEF p
  <2>6. (<<m>> \o c) \o p = <<m>> \o (c \o p) /\ c \o p \in Seq(SeqNos)
    BY <2>2, <2>5, ConcatAssociative, ConcatProperties
  <2>7. Arrived(e) # <<>> /\ Tail(Arrived(e)) = c \o p
    BY <2>2, <2>4, <2>6, TailOfLoaded
  <2>. QED BY <1>4, <2>4, <2>7 DEF Delivers
<1>. QED BY <1>3, <1>4

Chan == [e \in Eps |-> Arrived(e)]

\* Every step is one packet sent, one read, or invisible.
LEMMA ChannelStep ==
    ASSUME NoFaults, NoneYet, RxInv, SerialInv, [RxNext]_vars
    PROVE  [Channel!Next]_Chan
<1>a. ASSUME \A e \in Eps : Stays(e) PROVE Chan' = Chan
  BY <1>a DEF Stays, Chan
<1>u. ASSUME UNCHANGED <<fifo, queue, data>> PROVE Chan' = Chan
  BY <1>u, <1>a, ArrivedIs DEF Stays
<1>0. ~BusReset /\ \A e \in Eps : ~EpConfig(e)
  BY DEF NoFaults, NoneYet, RxInv, RxTypeOK, BusReset, EpConfig
<1>1. ASSUME NEW f \in Eps, HostOut(f) PROVE Channel!Next
  <2>1. Accepts(f) /\ \A e \in Eps \ {f} : Stays(e)
    BY <1>1, HostOutArrives
  <2>2. PICK n \in SeqNos : Arrived(f)' = Append(Arrived(f), n)
    BY <2>1 DEF Accepts
  <2>3. Chan' = [Chan EXCEPT ![f] = Append(Chan[f], n)]
    BY <2>1, <2>2 DEF Stays, Chan
  <2>. QED BY <2>3 DEF Channel!Next, Channel!Send, Chan
<1>2. ASSUME NEW t \in Tasks, NEW f \in Eps, WaitRxBuffer(t, f) PROVE Channel!Next
  <2>1. Delivers(f) /\ \A e \in Eps \ {f} : Stays(e)
    BY <1>2, WaitRxBufferArrives
  <2>2. Chan[f] # <<>> /\ Chan' = [Chan EXCEPT ![f] = Tail(Chan[f])]
    BY <2>1 DEF Stays, Delivers, Chan
  <2>. QED BY <2>2 DEF Channel!Next, Channel!Deliver, Chan
<1>3. ASSUME NEW f \in Eps, PollRx(f) PROVE Chan' = Chan
  BY <1>3, <1>a, PollRxArrives
<1>4. ASSUME NEW t \in Tasks, ReleaseRxBuffer(t) PROVE UNCHANGED <<fifo, queue, data>>
  BY <1>4 DEF ReleaseRxBuffer, EnterRelease, FreeBuffer, CheckActive, AllocateActive, SetActive,
              ArmEndpoint, UnmaskRxflvl, LeaveRelease, mgrVars, coreVars
<1>5. CASE RaiseOther \/ PollOther \/ UNCHANGED vars
  BY <1>5, <1>u DEF RaiseOther, PollOther, mgrVars, vars
<1>6. ASSUME NEW f \in Eps, HostOutEmpty(f) \/ PollEmpty(f) PROVE Chan' = Chan
  BY <1>6, <1>a, EmptyArrives
<1>. QED BY <1>0, <1>1, <1>2, <1>3, <1>4, <1>5, <1>6, <1>u DEF RxNext

LEMMA ChannelInit == RxInit => Channel!Init
<1>. SUFFICES ASSUME RxInit, NEW e \in Eps PROVE Arrived(e) = <<>>
  BY DEF Channel!Init
<1>1. queue[e] = <<>> /\ fifo = <<>> /\ data[e] \in [Buffers -> SeqNos]
  BY RxAssumption DEF RxInit
<1>2. Carried(<<>>, data[e]) = <<>>
  BY <1>1, CarriedEmpty
<1>3. PacketsOf(e, <<>>) = <<>>
  BY NoPacket DEF NonePending
<1>4. <<>> \o <<>> = <<>>
  BY EmptySeq, ConcatEmptySeq
<1>. QED BY <1>1, <1>2, <1>3, <1>4, ArrivedIs

\* The safety part of RxIsFifo: with one application task, otghs2's mask and no
\* faults, what wait_rx_buffer returns from an endpoint is the data the host sent there,
\* in order, each packet that has any once, whatever the other endpoints receive in
\* between and wherever empty packets, which poll() drops, stand among them.
THEOREM RxImplementsFifo == OneTask /\ Otghs2 /\ NoFaults /\ RxSpec => Channel!SafeSpec
<1>. SUFFICES ASSUME OneTask, Otghs2, NoFaults PROVE RxSpec => Channel!SafeSpec
  OBVIOUS
<1>0. SingleReader
  BY DEF OneTask, SingleReader
<1>1. RxInv /\ (SerialInv /\ NoneYet) /\ [RxNext]_vars => [Channel!Next]_Chan
  BY ChannelStep
<1>. QED BY <1>0, <1>1, ChannelInit, RxInvariant, SerialInvariant, PTL DEF RxSpec, Channel!SafeSpec, Chan
=============================================================================
