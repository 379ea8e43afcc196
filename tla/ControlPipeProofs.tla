-------------------------- MODULE ControlPipeProofs --------------------------
(***************************************************************************)
(* Proofs about ControlPipe, for every set of requests, packet size and    *)
(* number of buffers, events and resets.  Conservation of the buffers      *)
(* holds whatever the host does; the rest follows from PipeInv, which is   *)
(* inductive under OrdinaryUse.  There is one lemma for each action, named *)
(* after it (PollKeeps for DeviceIsr, EventKeeps for DeviceEvent,          *)
(* AnswerKeeps, SetupKeeps, InKeeps, OutKeeps, StatusInKeeps,              *)
(* StatusOutKeeps, GivesUpKeeps, ResetKeeps, EnumKeeps), behind those      *)
(* about what the action does to the events to come, to the receive FIFO   *)
(* and to the data on its way.  The theorems are at the end.               *)
(***************************************************************************)
EXTENDS ControlPipeInv, EpBufferMgrProofs

LEMMA EndpointZero == 0 \in Eps /\ \A e \in Eps : e = 0
  BY Ep0Assumption

\* Every endpoint 0 buffer is free, active or queued, whatever the host does: the
\* interrupt and the core's thread exchange buffers without losing one.  The core
\* never holds one across an event, so nothing is ever out.
LEMMA Ep0InvInit == Init => Ep0Inv
  BY EndpointZero, InitialPartition
     DEF Init, DrvInit, Ep0Inv, MgrTypeOK, Ep0Conserved, Conserved

\* poll() queues the active buffer and replaces it.
LEMMA ReceiveDataKeeps ==
    ASSUME Ep0Inv, NEW units, ReceiveData(units)
    PROVE  Ep0Inv'
<1>. DEFINE a == active[0]  p == pool[0]  q == queue[0]
<1>1. /\ p \in Seq(Buffers) /\ q \in Seq(Buffers)
      /\ a \in Buffers \cup {NoBuf} /\ Partition(p, a, q, {})
  BY EndpointZero DEF Ep0Inv, MgrTypeOK, Ep0Conserved, Conserved
<1>2. CASE units = <<>> \/ active[0] = NoBuf
  BY <1>2 DEF ReceiveData, mgrVars, Ep0Inv, MgrTypeOK, Ep0Conserved, Conserved
<1>3. CASE units # <<>> /\ active[0] # NoBuf
  <2>1. EnqueueBuffer(0, a) /\ AllocateBuffer(0) /\ SetBuffer(0, Allocated(0))
    BY <1>3 DEF ReceiveData
  <2>2. a \in Buffers /\ CanEnqueue(0, a)
    BY <1>1, <1>3, QueueHasRoom, BuffersAssumption DEF CanEnqueue, Partition, NoneTwice, Apart
  <2>3. queue' = [queue EXCEPT ![0] = Append(q, a)] /\ Append(q, a) \in Seq(Buffers)
    BY <1>1, <2>1, <2>2, AppendContains DEF EnqueueBuffer
  <2>4. Partition(p, NoBuf, Append(q, a), {})
    BY <1>1, <2>2, EnqueueActiveKeeps
  <2>5. CASE CanAllocate(0)
    <3>1. Head(p) \in Buffers /\ Tail(p) \in Seq(Buffers)
      BY <1>1, <2>5, TailContains DEF CanAllocate
    <3>2. pool' = [pool EXCEPT ![0] = Tail(p)] /\ active' = [active EXCEPT ![0] = Head(p)]
      BY <2>1, <2>5 DEF AllocateBuffer, SetBuffer, Allocated
    <3>3. Partition(Tail(p), Head(p), Append(q, a), {})
      BY <1>1, <2>3, <2>4, <2>5, AllocateActiveKeeps DEF CanAllocate
    <3>. QED BY <2>3, <3>1, <3>2, <3>3, EndpointZero
             DEF Ep0Inv, MgrTypeOK, Ep0Conserved, Conserved
  <2>6. CASE ~CanAllocate(0)
    <3>1. pool' = pool /\ active' = [active EXCEPT ![0] = NoBuf]
      BY <2>1, <2>6, EndpointZero DEF AllocateBuffer, SetBuffer, Allocated, Ep0Inv, MgrTypeOK
    <3>. QED BY <2>3, <2>4, <3>1, EndpointZero
             DEF Ep0Inv, MgrTypeOK, Ep0Conserved, Conserved
  <2>. QED BY <2>5, <2>6
<1>. QED BY <1>2, <1>3

\* The core takes a queued buffer and gives it back in the same step.
LEMMA TakeDataKeeps ==
    ASSUME Ep0Inv, TakeData
    PROVE  Ep0Inv'
<1>. DEFINE a == active[0]  p == pool[0]  q == queue[0]
<1>1. /\ p \in Seq(Buffers) /\ q \in Seq(Buffers) /\ Partition(p, a, q, {})
      /\ DequeueBuffer(0) /\ ReleaseBuffer(0, Dequeued(0)) /\ active' = active
  BY EndpointZero DEF Ep0Inv, MgrTypeOK, Ep0Conserved, Conserved, TakeData
<1>2. CASE CanDequeue(0)
  <2>1. Head(q) \in Buffers /\ Head(q) # NoBuf /\ Tail(q) \in Seq(Buffers)
    BY <1>1, <1>2, TailContains, BuffersAssumption DEF CanDequeue
  <2>2. /\ queue' = [queue EXCEPT ![0] = Tail(q)]
        /\ pool' = [pool EXCEPT ![0] = Append(p, Head(q))]
    BY <1>1, <1>2, <2>1 DEF DequeueBuffer, ReleaseBuffer, Dequeued
  <2>3. Partition(p, a, Tail(q), {} \cup {Head(q)})
    BY <1>1, <1>2, DequeueKeeps DEF CanDequeue
  <2>4. /\ Partition(Append(p, Head(q)), a, Tail(q), ({} \cup {Head(q)}) \ {Head(q)})
        /\ Append(p, Head(q)) \in Seq(Buffers)
    BY <1>1, <2>1, <2>3, ReleaseKeeps, AppendContains
  <2>5. ({} \cup {Head(q)}) \ {Head(q)} = {}
    OBVIOUS
  <2>. QED BY <1>1, <2>1, <2>2, <2>4, <2>5, EndpointZero
           DEF Ep0Inv, MgrTypeOK, Ep0Conserved, Conserved
<1>3. CASE ~CanDequeue(0)
  <2>1. queue' = queue /\ pool' = pool
    BY <1>1, <1>3, EndpointZero DEF DequeueBuffer, ReleaseBuffer, Dequeued, Ep0Inv, MgrTypeOK
  <2>. QED BY <1>1, <2>1 DEF Ep0Inv, MgrTypeOK, Ep0Conserved, Conserved
<1>. QED BY <1>2, <1>3

LEMMA SameBuffersKeep ==
    ASSUME Ep0Inv, UNCHANGED mgrVars
    PROVE  Ep0Inv'
  BY DEF mgrVars, Ep0Inv, MgrTypeOK, Ep0Conserved, Conserved

LEMMA Ep0InvStep == Ep0Inv /\ [Next]_vars => Ep0Inv'
<1>. SUFFICES ASSUME Ep0Inv, [Next]_vars PROVE Ep0Inv'
  OBVIOUS
<1>1. CASE DeviceIsr
  <2>1. UNCHANGED mgrVars \/ \E units : ReceiveData(units)
    BY <1>1 DEF DeviceIsr, Poll, ServeAll, ServeFirst, Serve, PopRxq, PollStatusFirst, PushIgnored
  <2>. QED BY <2>1, SameBuffersKeep, ReceiveDataKeeps
<1>2. CASE DeviceEvent
  <2>1. UNCHANGED mgrVars \/ TakeData
    BY <1>2 DEF DeviceEvent, HandleIgnored, HandleEvent, HandleEp0Rx, HandleEp0Tx, Decode, StatusOut, Unexpected
  <2>. QED BY <2>1, SameBuffersKeep, TakeDataKeeps
<1>3. CASE \/ DeviceAnswer \/ BusReset \/ EnumDone \/ Suspend \/ (\E s \in Setups : HostSetup(s))
           \/ Transaction \/ HostGivesUp \/ UNCHANGED vars
  <2>1. UNCHANGED mgrVars
    BY <1>3 DEF DeviceAnswer, Respond, BusReset, PollReset, EnumDone, HostSetup, Transaction,
                Suspend, PollSuspend, PushIgnored, HostIn, HostOut, HostAsks, HostStatusOut,
                HostStatusIn, HostGivesUp, devVars, vars, mgrVars
  <2>. QED BY <2>1, SameBuffersKeep
<1>. QED BY <1>1, <1>2, <1>3 DEF Next

\* No endpoint 0 buffer is lost or duplicated, whatever requests the host sends,
\* however it abandons transfers and resets the bus.
THEOREM Ep0BuffersConserved == Spec => []Ep0Conserved
<1>1. Ep0Inv => Ep0Conserved
  BY DEF Ep0Inv
<1>. QED BY Ep0InvInit, Ep0InvStep, <1>1, PTL DEF Spec

-----------------------------------------------------------------------------
(* Arithmetic of packets, and pieces of a transfer's data.                   *)

LEMMA SizeFacts == EP0SIZE \in Nat /\ EP0SIZE > 0 /\ EventDepth \in Nat /\ MaxResets \in Nat
                   /\ TxMax \in Nat /\ RxMax \in Nat /\ TxFifoRoom \in Nat
                   /\ MaxSuspends \in Nat /\ Depth \in Int /\ EventDepth = Depth + 2 + MaxSuspends
  BY Ep0Assumption, PipeAssumption DEF Depth

LEMMA AtFacts ==
    /\ At(0) = 0
    /\ \A k \in Nat : At(k) \in Nat /\ At(k + 1) = At(k) + EP0SIZE
  BY SizeFacts DEF At

LEMMA AtMonotone ==
    ASSUME NEW j \in Int, NEW k \in Int, At(j) < At(k)
    PROVE  j < k
<1>1. ASSUME k <= j PROVE FALSE
  <2>1. k * EP0SIZE <= j * EP0SIZE
    BY <1>1, SizeFacts, SMTT(30)
  <2>. QED BY <2>1, SizeFacts DEF At
<1>. QED BY <1>1

LEMMA WholeFacts == Whole(0) /\ \A n \in Nat : Whole(n) => Whole(n + EP0SIZE)
<1>1. Whole(0)
  <2>1. 0 \in 0 .. 0 /\ 0 = At(0)
    BY AtFacts
  <2>. QED BY <2>1 DEF Whole
<1>2. ASSUME NEW n \in Nat, Whole(n) PROVE Whole(n + EP0SIZE)
  <2>1. PICK k \in 0 .. n : n = At(k)
    BY <1>2 DEF Whole
  <2>2. k + 1 \in 0 .. n + EP0SIZE /\ n + EP0SIZE = At(k + 1)
    BY <2>1, AtFacts, SizeFacts
  <2>. QED BY <2>2 DEF Whole
<1>. QED BY <1>1, <1>2

LEMMA CutType ==
    ASSUME NEW s \in Setups, NEW a \in Nat, NEW b \in Nat, a <= b
    PROVE  Cut(s, a, b) \in Seq(Units) /\ Len(Cut(s, a, b)) = b - a
<1>1. s.id \in Ids
  BY PipeAssumption
<1>2. \A i \in 1 .. b - a : <<s.id, a + i>> \in Units
  BY <1>1 DEF Units
<1>. QED BY <1>2 DEF Cut

LEMMA CutJoins ==
    ASSUME NEW s \in Setups, NEW a \in Nat, NEW b \in Nat, NEW c \in Nat, a <= b, b <= c
    PROVE  Cut(s, a, b) \o Cut(s, b, c) = Cut(s, a, c)
<1>. DEFINE x == Cut(s, a, b)  y == Cut(s, b, c)  z == Cut(s, a, c)
<1>1. /\ x \in Seq(Units) /\ Len(x) = b - a
      /\ y \in Seq(Units) /\ Len(y) = c - b
      /\ z \in Seq(Units) /\ Len(z) = c - a
  <2>1. a <= c
    OBVIOUS
  <2>. QED BY <2>1, CutType
<1>2. /\ x \o y \in Seq(Units) /\ Len(x \o y) = c - a
      /\ \A i \in 1 .. c - a : (x \o y)[i] = IF i <= b - a THEN x[i] ELSE y[i - (b - a)]
  <2>. HIDE DEF x, y
  <2>1. /\ x \o y \in Seq(Units) /\ Len(x \o y) = Len(x) + Len(y)
        /\ \A i \in 1 .. Len(x) + Len(y) : (x \o y)[i] = IF i <= Len(x) THEN x[i] ELSE y[i - Len(x)]
    BY <1>1, ConcatProperties
  <2>. DEFINE l == Len(x)  m == Len(y)  n == Len(x \o y)  xy == x \o y
  <2>2. l = b - a /\ m = c - b
    BY <1>1
  <2>3. n = l + m /\ \A i \in 1 .. l + m : xy[i] = IF i <= l THEN x[i] ELSE y[i - l]
    BY <2>1
  <2>. HIDE DEF l, m, n, xy
  <2>4. l + m = c - a
    BY <2>2
  <2>5. n = c - a /\ \A i \in 1 .. c - a : xy[i] = IF i <= b - a THEN x[i] ELSE y[i - (b - a)]
    BY <2>2, <2>3, <2>4
  <2>. QED BY <2>1, <2>5 DEF n, xy
<1>3. /\ \A i \in 1 .. b - a : x[i] = <<s.id, a + i>>
      /\ \A i \in 1 .. c - b : y[i] = <<s.id, b + i>>
      /\ \A i \in 1 .. c - a : z[i] = <<s.id, a + i>>
  BY DEF Cut
<1>4. ASSUME NEW i \in 1 .. c - a PROVE (x \o y)[i] = z[i]
  <2>. HIDE DEF x, y, z
  <2>1. CASE i <= b - a
    <3>1. i \in 1 .. b - a
      BY <2>1
    <3>2. (x \o y)[i] = x[i]
      BY <1>2, <2>1
    <3>3. x[i] = <<s.id, a + i>>
      BY <1>3, <3>1
    <3>. QED BY <1>3, <3>2, <3>3
  <2>2. CASE ~(i <= b - a)
    <3>1. i - (b - a) \in 1 .. c - b /\ b + (i - (b - a)) = a + i
      BY <2>2
    <3>. QED BY <1>2, <1>3, <2>2, <3>1
  <2>. QED BY <2>1, <2>2
<1>. HIDE DEF x, y, z
<1>5. x \o y = z
  BY <1>1, <1>2, <1>4, SeqEqual
<1>. QED BY <1>5 DEF x, y, z

\* The units from i + 1 to j of a piece.
LEMMA CutFront ==
    ASSUME NEW s \in Setups, NEW b \in Nat, NEW i \in Nat, NEW j \in Nat, i <= j, j <= b
    PROVE  SubSeq(Cut(s, 0, b), i + 1, j) = Cut(s, i, j)
<1>. DEFINE x == Cut(s, 0, b)  y == SubSeq(x, i + 1, j)  z == Cut(s, i, j)
<1>1. x \in Seq(Units) /\ Len(x) = b /\ z \in Seq(Units) /\ Len(z) = j - i
  <2>1. 0 <= b /\ b - 0 = b
    OBVIOUS
  <2>. QED BY <2>1, CutType
<1>2. /\ y \in Seq(Units) /\ Len(y) = j - i
      /\ \A k \in 1 .. j - i : y[k] = x[i + k]
  <2>. HIDE DEF x
  <2>1. i + 1 \in 1 .. Len(x) + 1 /\ j \in 0 .. Len(x)
    BY <1>1
  <2>2. y \in Seq(Units) /\ Len(y) = IF i + 1 <= j THEN j - (i + 1) + 1 ELSE 0
    BY <1>1, <2>1, SubSeqProperties
  <2>3. \A k \in 1 .. j - (i + 1) + 1 : y[k] = x[i + 1 + k - 1]
    BY <1>1, <2>1, SubSeqProperties
  <2>4. j - (i + 1) + 1 = j - i /\ \A k \in 1 .. j - i : i + 1 + k - 1 = i + k
    OBVIOUS
  <2>5. (IF i + 1 <= j THEN j - (i + 1) + 1 ELSE 0) = j - i
    OBVIOUS
  <2>. HIDE DEF y
  <2>6. \A k \in 1 .. j - i : y[k] = x[i + k]
    BY <2>3, <2>4
  <2>. QED BY <2>2, <2>5, <2>6
<1>3. /\ \A k \in 1 .. b : x[k] = <<s.id, k>>
      /\ \A k \in 1 .. j - i : z[k] = <<s.id, i + k>>
  BY DEF Cut
<1>4. \A k \in 1 .. j - i : y[k] = z[k]
  <2>. HIDE DEF x, y, z
  <2>. TAKE k \in 1 .. j - i
  <2>1. i + k \in 1 .. b
    OBVIOUS
  <2>2. x[i + k] = <<s.id, i + k>>
    BY <1>3, <2>1
  <2>. QED BY <1>2, <1>3, <2>1, <2>2
<1>. HIDE DEF x, y, z
<1>5. y = z
  BY <1>1, <1>2, <1>4, SeqEqual
<1>. QED BY <1>5 DEF x, y, z

LEMMA CutFirst ==
    ASSUME NEW s \in Setups, NEW b \in Nat, NEW j \in Nat, j <= b
    PROVE  SubSeq(Cut(s, 0, b), 1, j) = Cut(s, 0, j)
<1>1. ASSUME NEW i \in Nat, i <= j
      PROVE  SubSeq(Cut(s, 0, b), i + 1, j) = Cut(s, i, j)
  BY <1>1, CutFront
<1>2. PICK i \in Nat : i = 0
  OBVIOUS
<1>3. i <= j /\ i + 1 = 1
  BY <1>2
<1>4. SubSeq(Cut(s, 0, b), i + 1, j) = Cut(s, i, j)
  BY <1>1, <1>3
<1>. QED BY <1>2, <1>3, <1>4

\* The whole of a transfer's data.
LEMMA CutWhole ==
    ASSUME NEW s \in Setups
    PROVE  Payload(s) = Cut(s, 0, s.len) /\ Reply(s) = Cut(s, 0, s.reply)
  BY PipeAssumption DEF Payload, Reply, Cut

-----------------------------------------------------------------------------
(* The events to come.                                                       *)

LEMMA EventsOfFacts ==
    /\ EventsOf({}) = <<>>
    /\ EventsOf({"inXfrc"}) = <<"EP_TX">>
    /\ EventsOf({"stup"}) = <<"CTRL_SETUP_PHASE_DONE">>
    /\ EventsOf({"outXfrc"}) = <<"EP_RX">>
  BY DEF EventsOf

\* At most one interrupt is pending.
LEMMA FlagsFacts ==
    ASSUME PipeTypeOK
    PROVE  /\ flags \in {{}, {"inXfrc"}, {"stup"}, {"outXfrc"}}
           /\ FirstOf(flags) = flags
           /\ EventsOf(flags) \in Seq(Events) /\ Len(EventsOf(flags)) \in {0, 1}
           /\ EventsOf(flags) = <<>> => flags = {}
           /\ "inXfrc" \in flags => EventsOf(flags) = <<"EP_TX">>
<1>1. flags \in {{}, {"inXfrc"}, {"stup"}, {"outXfrc"}}
  <2>1. flags \subseteq Flags /\ \A f, g \in flags : f = g
    BY DEF PipeTypeOK
  <2>2. ASSUME NEW f \in flags PROVE flags = {f} /\ f \in {"inXfrc", "stup", "outXfrc"}
    BY <2>1 DEF Flags
  <2>. QED BY <2>2
<1>2. FirstOf(flags) = flags
  BY <1>1 DEF FirstOf
<1>3. /\ <<>> \in Seq(Events) /\ Len(<<>>) = 0
      /\ \A e \in Events : <<e>> \in Seq(Events) /\ Len(<<e>>) = 1 /\ <<e>> # <<>>
  OBVIOUS
<1>4. "EP_TX" \in Events /\ "EP_RX" \in Events /\ "CTRL_SETUP_PHASE_DONE" \in Events
  BY DEF Events
<1>. QED BY <1>1, <1>2, <1>3, <1>4, EventsOfFacts

LEMMA EvFacts ==
    ASSUME NEW e \in Entries
    PROVE  /\ Ev(e) \in Seq(Events)
           /\ e.kind = "setupDone" => Ev(e) = <<"CTRL_SETUP_PHASE_DONE">>
           /\ e.kind = "outDone"   => Ev(e) = <<"EP_RX">>
           /\ e.kind \in {"setup", "data"} => Ev(e) = <<>>
<1>1. e.kind \in {"setup", "setupDone", "data", "outDone"}
  BY DEF Entries
<1>2. "EP_RX" \in Events /\ "CTRL_SETUP_PHASE_DONE" \in Events
  BY DEF Events
<1>3. <<>> \in Seq(Events) /\ \A x \in Events : <<x>> \in Seq(Events)
  OBVIOUS
<1>. QED BY <1>1, <1>2, <1>3 DEF Ev

LEMMA RxEventsFacts ==
    ASSUME NEW q \in Seq(Entries)
    PROVE  /\ RxEvents(q) \in Seq(Events)
           /\ \A i \in Nat : EvAt(q, i) \in Seq(Events)
           /\ \A i \in Nat : i > Len(q) => EvAt(q, i) = <<>>
           /\ \A i \in 1 .. Len(q) : q[i] \in Entries /\ EvAt(q, i) = Ev(q[i])
<1>1. DOMAIN q = 1 .. Len(q) /\ Len(q) \in Nat /\ \A i \in 1 .. Len(q) : q[i] \in Entries
  BY LenProperties
<1>2. \A i \in Nat : EvAt(q, i) \in Seq(Events)
  BY <1>1, EvFacts, EmptySeq DEF EvAt
<1>3. RxEvents(q) \in Seq(Events)
  <2>1. EvAt(q, 3) \o EvAt(q, 4) \in Seq(Events)
    BY <1>2, ConcatProperties
  <2>2. EvAt(q, 2) \o (EvAt(q, 3) \o EvAt(q, 4)) \in Seq(Events)
    BY <1>2, <2>1, ConcatProperties
  <2>. QED BY <1>2, <2>2, ConcatProperties DEF RxEvents
<1>4. \A i \in Nat : i > Len(q) => EvAt(q, i) = <<>>
  BY <1>1 DEF EvAt
<1>5. \A i \in 1 .. Len(q) : EvAt(q, i) = Ev(q[i])
  BY <1>1 DEF EvAt
<1>. QED BY <1>1, <1>2, <1>3, <1>4, <1>5

\* What an entry causes comes first.
LEMMA RxEventsPop ==
    ASSUME NEW q \in Seq(Entries), q # <<>>, Len(q) <= 4
    PROVE  RxEvents(q) = Ev(Head(q)) \o RxEvents(Tail(q))
<1>1. /\ Tail(q) \in Seq(Entries) /\ Len(Tail(q)) = Len(q) - 1 /\ Len(q) \in Nat \ {0}
      /\ Head(q) = q[1]
      /\ \A i \in 1 .. Len(q) - 1 : Tail(q)[i] = q[i + 1]
  BY HeadTailProperties, EmptySeq
<1>a. /\ \A i \in Nat : EvAt(q, i) \in Seq(Events)
      /\ \A i \in Nat : i > Len(q) => EvAt(q, i) = <<>>
      /\ \A i \in 1 .. Len(q) : EvAt(q, i) = Ev(q[i])
  BY RxEventsFacts
<1>b. /\ \A i \in Nat : i > Len(Tail(q)) => EvAt(Tail(q), i) = <<>>
      /\ \A i \in 1 .. Len(Tail(q)) : EvAt(Tail(q), i) = Ev(Tail(q)[i])
  BY <1>1, RxEventsFacts
<1>2. \A i \in {1, 2, 3, 4} : EvAt(Tail(q), i) = EvAt(q, i + 1)
  <2>1. ASSUME NEW i \in {1, 2, 3, 4} PROVE EvAt(Tail(q), i) = EvAt(q, i + 1)
    <3>1. CASE i <= Len(q) - 1
      <4>1. i \in 1 .. Len(Tail(q)) /\ i + 1 \in 1 .. Len(q) /\ Tail(q)[i] = q[i + 1]
        BY <1>1, <3>1
      <4>. QED BY <1>a, <1>b, <4>1
    <3>2. CASE i > Len(q) - 1
      <4>1. i \in Nat /\ i > Len(Tail(q)) /\ i + 1 \in Nat /\ i + 1 > Len(q)
        BY <1>1, <3>2
      <4>. QED BY <1>a, <1>b, <4>1
    <3>. QED BY <1>1, <3>1, <3>2
  <2>. QED BY <2>1
<1>3. /\ EvAt(q, 1) = Ev(Head(q)) /\ EvAt(q, 5) = <<>>
      /\ EvAt(q, 4) \in Seq(Events) /\ EvAt(q, 4) \o <<>> = EvAt(q, 4)
  <2>1. 1 \in 1 .. Len(q) /\ 4 \in Nat /\ 5 \in Nat /\ 5 > Len(q)
    BY <1>1
  <2>. QED BY <1>1, <1>a, <2>1, ConcatEmptySeq
<1>4. /\ EvAt(Tail(q), 1) = EvAt(q, 2) /\ EvAt(Tail(q), 2) = EvAt(q, 3)
      /\ EvAt(Tail(q), 3) = EvAt(q, 4) /\ EvAt(Tail(q), 4) = <<>>
  BY <1>2, <1>3
<1>. QED BY <1>3, <1>4 DEF RxEvents

\* A transaction adds two entries, of which the second causes an event.
LEMMA RxEventsAdd ==
    ASSUME NEW q \in Seq(Entries), Len(q) <= 2,
           NEW x \in Entries, x.kind \in {"setup", "data"},
           NEW y \in Entries, y.kind \in {"setupDone", "outDone"}
    PROVE  /\ q \o <<x, y>> \in Seq(Entries) /\ Len(q \o <<x, y>>) = Len(q) + 2
           /\ \A i \in 1 .. Len(q) : (q \o <<x, y>>)[i] = q[i]
           /\ (q \o <<x, y>>)[Len(q) + 1] = x /\ (q \o <<x, y>>)[Len(q) + 2] = y
           /\ RxEvents(q \o <<x, y>>) = RxEvents(q) \o Ev(y)
<1>. DEFINE r == q \o <<x, y>>
<1>1. /\ r \in Seq(Entries) /\ Len(r) = Len(q) + 2 /\ (Len(q) = 0 \/ Len(q) = 1 \/ Len(q) = 2)
      /\ \A i \in 1 .. Len(q) : r[i] = q[i]
      /\ r[Len(q) + 1] = x /\ r[Len(q) + 2] = y
  <2>1. <<x, y>> \in Seq(Entries) /\ Len(<<x, y>>) = 2 /\ <<x, y>>[1] = x /\ <<x, y>>[2] = y
    OBVIOUS
  <2>2. Len(q) \in Nat
    OBVIOUS
  <2>3. /\ r \in Seq(Entries) /\ Len(r) = Len(q) + 2
        /\ \A i \in 1 .. Len(q) + 2 : r[i] = IF i <= Len(q) THEN q[i] ELSE <<x, y>>[i - Len(q)]
    BY <2>1, ConcatProperties
  <2>. HIDE DEF r
  <2>4. /\ Len(q) + 1 \in 1 .. Len(q) + 2 /\ ~(Len(q) + 1 <= Len(q)) /\ Len(q) + 1 - Len(q) = 1
        /\ Len(q) + 2 \in 1 .. Len(q) + 2 /\ ~(Len(q) + 2 <= Len(q)) /\ Len(q) + 2 - Len(q) = 2
    BY <2>2
  <2>5. r[Len(q) + 1] = x /\ r[Len(q) + 2] = y
    BY <2>1, <2>3, <2>4
  <2>a. \A n \in Nat : n <= 2 => n = 0 \/ n = 1 \/ n = 2
    OBVIOUS
  <2>6. (Len(q) = 0 \/ Len(q) = 1 \/ Len(q) = 2)
    BY <2>2, <2>a
  <2>7. \A i \in 1 .. Len(q) : r[i] = q[i]
    BY <2>2, <2>3
  <2>. QED BY <2>3, <2>5, <2>6, <2>7
<1>. HIDE DEF r
<1>2. Ev(x) = <<>> /\ Ev(y) \in Seq(Events)
  BY EvFacts
<1>3. /\ \A i \in 1 .. Len(q) : EvAt(r, i) = EvAt(q, i) /\ EvAt(q, i) \in Seq(Events)
      /\ EvAt(r, Len(q) + 1) = <<>> /\ EvAt(r, Len(q) + 2) = Ev(y)
      /\ \A i \in Nat : i > Len(q) => EvAt(q, i) = <<>>
      /\ \A i \in Nat : i > Len(q) + 2 => EvAt(r, i) = <<>>
  <2>a. /\ \A i \in Nat : EvAt(q, i) \in Seq(Events)
        /\ \A i \in Nat : i > Len(q) => EvAt(q, i) = <<>>
        /\ \A i \in 1 .. Len(q) : EvAt(q, i) = Ev(q[i])
    BY RxEventsFacts
  <2>b. /\ \A i \in Nat : i > Len(r) => EvAt(r, i) = <<>>
        /\ \A i \in 1 .. Len(r) : EvAt(r, i) = Ev(r[i])
    BY <1>1, RxEventsFacts
  <2>1. \A i \in 1 .. Len(q) : EvAt(r, i) = Ev(r[i]) /\ EvAt(q, i) = Ev(q[i]) /\ EvAt(q, i) \in Seq(Events)
    BY <1>1, <2>a, <2>b
  <2>2. EvAt(r, Len(q) + 1) = Ev(x) /\ EvAt(r, Len(q) + 2) = Ev(y)
    <3>1. Len(q) + 1 \in 1 .. Len(r) /\ Len(q) + 2 \in 1 .. Len(r)
      BY <1>1
    <3>. QED BY <1>1, <2>b, <3>1
  <2>. QED BY <1>1, <1>2, <2>1, <2>2, <2>a, <2>b
<1>4. \A s \in Seq(Events) : <<>> \o s = s /\ s \o <<>> = s
  BY ConcatEmptySeq
<1>5. ASSUME Len(q) = 0 PROVE RxEvents(r) = RxEvents(q) \o Ev(y)
  <2>1. EvAt(q, 1) = <<>> /\ EvAt(q, 2) = <<>> /\ EvAt(q, 3) = <<>> /\ EvAt(q, 4) = <<>>
    BY <1>3, <1>5
  <2>2. EvAt(r, 1) = <<>> /\ EvAt(r, 2) = Ev(y) /\ EvAt(r, 3) = <<>> /\ EvAt(r, 4) = <<>>
    BY <1>3, <1>5
  <2>3. <<>> \in Seq(Events) /\ <<>> \o <<>> = <<>>
    OBVIOUS
  <2>4. RxEvents(q) = <<>> /\ RxEvents(r) = Ev(y)
    BY <1>2, <1>4, <2>1, <2>2, <2>3 DEF RxEvents
  <2>. QED BY <1>2, <1>4, <2>4
<1>6. ASSUME Len(q) = 1 PROVE RxEvents(r) = RxEvents(q) \o Ev(y)
  <2>1. EvAt(q, 2) = <<>> /\ EvAt(q, 3) = <<>> /\ EvAt(q, 4) = <<>>
    BY <1>3, <1>6
  <2>2. EvAt(r, 1) = EvAt(q, 1) /\ EvAt(r, 2) = <<>> /\ EvAt(r, 3) = Ev(y) /\ EvAt(r, 4) = <<>>
        /\ EvAt(q, 1) \in Seq(Events)
    BY <1>3, <1>6
  <2>3. <<>> \in Seq(Events) /\ <<>> \o <<>> = <<>>
    OBVIOUS
  <2>4. RxEvents(q) = EvAt(q, 1) /\ RxEvents(r) = EvAt(q, 1) \o Ev(y)
    BY <1>2, <1>4, <2>1, <2>2, <2>3 DEF RxEvents
  <2>. QED BY <2>4
<1>7. ASSUME Len(q) = 2 PROVE RxEvents(r) = RxEvents(q) \o Ev(y)
  <2>1. EvAt(q, 3) = <<>> /\ EvAt(q, 4) = <<>>
    BY <1>3, <1>7
  <2>2. EvAt(r, 1) = EvAt(q, 1) /\ EvAt(r, 2) = EvAt(q, 2) /\ EvAt(r, 3) = <<>> /\ EvAt(r, 4) = Ev(y)
        /\ EvAt(q, 1) \in Seq(Events) /\ EvAt(q, 2) \in Seq(Events)
    BY <1>3, <1>7
  <2>3. EvAt(q, 1) \o (EvAt(q, 2) \o Ev(y)) = (EvAt(q, 1) \o EvAt(q, 2)) \o Ev(y)
    <3>. DEFINE a == EvAt(q, 1)  b == EvAt(q, 2)  c == Ev(y)
    <3>1. a \in Seq(Events) /\ b \in Seq(Events) /\ c \in Seq(Events)
      BY <1>2, <2>2
    <3>. HIDE DEF a, b, c
    <3>2. (a \o b) \o c = a \o (b \o c)
      BY <3>1, ConcatAssociative
    <3>. QED BY <3>2 DEF a, b, c
  <2>4. <<>> \in Seq(Events) /\ <<>> \o <<>> = <<>>
    OBVIOUS
  <2>5. RxEvents(q) = EvAt(q, 1) \o EvAt(q, 2)
    BY <1>4, <2>1, <2>2, <2>4 DEF RxEvents
  <2>6. RxEvents(r) = EvAt(q, 1) \o (EvAt(q, 2) \o Ev(y))
    BY <1>2, <1>4, <2>2 DEF RxEvents
  <2>. QED BY <2>3, <2>5, <2>6
<1>8. RxEvents(r) = RxEvents(q) \o Ev(y)
  BY <1>1, <1>5, <1>6, <1>7
<1>. QED BY <1>1, <1>8 DEF r

\* The last entry of the receive FIFO causes the last event.
LastEvent == IF Kind(Len(rxq)) = "setupDone" THEN "CTRL_SETUP_PHASE_DONE" ELSE "EP_RX"

LEMMA RxEventsLast ==
    ASSUME PipeTypeOK, RxqShape, rxq # <<>>
    PROVE  /\ Kind(Len(rxq)) \in {"setupDone", "outDone"}
           /\ \E p \in Seq(Events) : RxEvents(rxq) = p \o <<LastEvent>>
<1>. DEFINE n == Len(rxq)
<1>1. rxq \in Seq(Entries) /\ n \in Nat \ {0}
  BY EmptySeq DEF PipeTypeOK
<1>2. n = 1 \/ n = 2 \/ n = 3 \/ n = 4
  BY <1>1 DEF RxqShape
<1>3. Kind(n) \in {"setupDone", "outDone"}
  BY <1>1 DEF RxqShape
<1>4. n \in 1 .. n /\ rxq[n] \in Entries /\ Ev(rxq[n]) = <<LastEvent>>
  <2>1. n \in 1 .. n /\ rxq[n] \in Entries
    BY <1>1, RxEventsFacts
  <2>2. Ev(rxq[n]) = <<LastEvent>>
    BY <2>1, <1>3, EvFacts DEF LastEvent, Kind
  <2>. QED BY <2>1, <2>2
<1>5. /\ \A i \in Nat : EvAt(rxq, i) \in Seq(Events)
      /\ \A i \in Nat : i > n => EvAt(rxq, i) = <<>>
      /\ EvAt(rxq, n) = <<LastEvent>>
  <2>1. /\ \A i \in Nat : EvAt(rxq, i) \in Seq(Events)
        /\ \A i \in Nat : i > Len(rxq) => EvAt(rxq, i) = <<>>
        /\ \A i \in 1 .. Len(rxq) : EvAt(rxq, i) = Ev(rxq[i])
    BY <1>1, RxEventsFacts
  <2>. QED BY <1>4, <2>1
<1>. DEFINE a == EvAt(rxq, 1)  b == EvAt(rxq, 2)  c == EvAt(rxq, 3)  d == EvAt(rxq, 4)
<1>6. /\ RxEvents(rxq) = a \o (b \o (c \o d))
      /\ a \in Seq(Events) /\ b \in Seq(Events) /\ c \in Seq(Events) /\ d \in Seq(Events)
      /\ a \o b \in Seq(Events) /\ b \o c \in Seq(Events) /\ a \o (b \o c) \in Seq(Events)
  <2>1. RxEvents(rxq) = a \o (b \o (c \o d))
    BY DEF RxEvents
  <2>2. a \in Seq(Events) /\ b \in Seq(Events) /\ c \in Seq(Events) /\ d \in Seq(Events)
    BY <1>5
  <2>. HIDE DEF a, b, c, d
  <2>3. a \o b \in Seq(Events) /\ b \o c \in Seq(Events)
    BY <2>2, ConcatProperties
  <2>4. a \o (b \o c) \in Seq(Events)
    BY <2>2, <2>3, ConcatProperties
  <2>. QED BY <2>1, <2>2, <2>3, <2>4
<1>7. /\ n = 1 => a = <<LastEvent>> /\ b = <<>> /\ c = <<>> /\ d = <<>>
      /\ n = 2 => b = <<LastEvent>> /\ c = <<>> /\ d = <<>>
      /\ n = 3 => c = <<LastEvent>> /\ d = <<>>
      /\ n = 4 => d = <<LastEvent>>
  <2>. HIDE DEF n
  <2>1. ASSUME n = 1 PROVE a = <<LastEvent>> /\ b = <<>> /\ c = <<>> /\ d = <<>>
    BY <1>5, <2>1
  <2>2. ASSUME n = 2 PROVE b = <<LastEvent>> /\ c = <<>> /\ d = <<>>
    BY <1>5, <2>2
  <2>3. ASSUME n = 3 PROVE c = <<LastEvent>> /\ d = <<>>
    BY <1>5, <2>3
  <2>4. ASSUME n = 4 PROVE d = <<LastEvent>>
    BY <1>5, <2>4
  <2>. QED BY <2>1, <2>2, <2>3, <2>4
<1>8. \A s \in Seq(Events) : s \o <<>> = s /\ <<>> \o s = s
  BY ConcatEmptySeq
<1>9. <<>> \in Seq(Events) /\ <<LastEvent>> \in Seq(Events)
  BY DEF LastEvent, Events
<1>. HIDE DEF a, b, c, d, n
<1>10. \E p \in Seq(Events) : RxEvents(rxq) = p \o <<LastEvent>>
  <2>1. CASE n = 1
    <3>1. RxEvents(rxq) = <<>> \o <<LastEvent>>
      BY <1>6, <1>7, <1>8, <1>9, <2>1
    <3>. QED BY <1>9, <3>1
  <2>2. CASE n = 2
    <3>1. RxEvents(rxq) = a \o <<LastEvent>>
      BY <1>6, <1>7, <1>8, <1>9, <2>2
    <3>. QED BY <1>6, <3>1
  <2>3. CASE n = 3
    <3>1. RxEvents(rxq) = a \o (b \o <<LastEvent>>)
      BY <1>6, <1>7, <1>8, <1>9, <2>3
    <3>2. a \o (b \o <<LastEvent>>) = (a \o b) \o <<LastEvent>>
      BY <1>6, <1>9, ConcatAssociative
    <3>. QED BY <1>6, <3>1, <3>2
  <2>4. CASE n = 4
    <3>1. RxEvents(rxq) = a \o (b \o (c \o <<LastEvent>>))
      BY <1>6, <1>7, <2>4
    <3>2. b \o (c \o <<LastEvent>>) = (b \o c) \o <<LastEvent>>
      BY <1>6, <1>9, ConcatAssociative
    <3>3. a \o ((b \o c) \o <<LastEvent>>) = (a \o (b \o c)) \o <<LastEvent>>
      BY <1>6, <1>9, ConcatAssociative
    <3>. QED BY <1>6, <3>1, <3>2, <3>3
  <2>. QED BY <1>2, <2>1, <2>2, <2>3, <2>4 DEF n
<1>. QED BY <1>3, <1>10 DEF n

\* What the events to come tell of the queue and the receive FIFO.
LEMMA ComingFacts ==
    ASSUME PipeTypeOK, RxqShape
    PROVE  /\ Coming \in Seq(Events) /\ Len(Coming) \in Nat
           /\ Len(evq) \in Nat /\ Len(evq) <= Len(Coming)
           /\ \A i \in 1 .. Len(evq) : Coming[i] = evq[i]
           /\ "inXfrc" \in flags => /\ Len(evq) < Len(Coming)
                                    /\ Coming[Len(evq) + 1] = "EP_TX"
           /\ rxq # <<>> => /\ Len(evq) < Len(Coming)
                            /\ Coming[Len(Coming)] = LastEvent
           /\ flags # {} => Len(evq) < Len(Coming)
           /\ rxq = <<>> /\ flags = {} => Coming = evq
           /\ Coming = <<>> => rxq = <<>> /\ flags = {} /\ evq = <<>>
           /\ Len(evq) + Len(EventsOf(flags)) <= Len(Coming)
<1>. DEFINE e == EventsOf(flags)  r == RxEvents(rxq)
<1>1. /\ evq \in Seq(Events) /\ e \in Seq(Events) /\ r \in Seq(Events)
      /\ Len(evq) \in Nat /\ Len(e) \in Nat /\ Len(r) \in Nat
  <2>1. evq \in Seq(Events) /\ rxq \in Seq(Entries)
    BY DEF PipeTypeOK
  <2>2. r \in Seq(Events)
    BY <2>1, RxEventsFacts
  <2>3. e \in Seq(Events)
    BY FlagsFacts
  <2>. QED BY <2>1, <2>2, <2>3, LenProperties
<1>2. /\ evq \o e \in Seq(Events) /\ Len(evq \o e) = Len(evq) + Len(e)
      /\ \A i \in 1 .. Len(evq) + Len(e) : (evq \o e)[i] = IF i <= Len(evq) THEN evq[i] ELSE e[i - Len(evq)]
  <2>. HIDE DEF e
  <2>. QED BY <1>1, ConcatProperties
<1>3. /\ Coming = (evq \o e) \o r
      /\ Coming \in Seq(Events) /\ Len(Coming) = Len(evq) + Len(e) + Len(r)
      /\ \A i \in 1 .. Len(evq) + Len(e) + Len(r) :
             Coming[i] = IF i <= Len(evq) + Len(e) THEN (evq \o e)[i] ELSE r[i - (Len(evq) + Len(e))]
  <2>1. Coming = (evq \o e) \o r
    BY DEF Coming
  <2>. HIDE DEF e, r
  <2>. QED BY <1>1, <1>2, <2>1, ConcatProperties
<1>4. \A i \in 1 .. Len(evq) : Coming[i] = evq[i]
  <2>. HIDE DEF e, r
  <2>. TAKE i \in 1 .. Len(evq)
  <2>1. i \in 1 .. Len(evq) + Len(e) /\ i \in 1 .. Len(evq) + Len(e) + Len(r) /\ i <= Len(evq) + Len(e)
    BY <1>1
  <2>. QED BY <1>2, <1>3, <2>1
<1>5. /\ flags # {} => Len(e) > 0
      /\ "inXfrc" \in flags => Len(e) = 1 /\ e[1] = "EP_TX"
  <2>1. e = <<>> => flags = {}
    BY FlagsFacts
  <2>2. "inXfrc" \in flags => e = <<"EP_TX">>
    BY FlagsFacts
  <2>. HIDE DEF e
  <2>. QED BY <1>1, <2>1, <2>2, EmptySeq
<1>6. "inXfrc" \in flags => Coming[Len(evq) + 1] = "EP_TX"
  <2>. HIDE DEF e, r
  <2>. HAVE "inXfrc" \in flags
  <2>1. /\ Len(evq) + 1 \in 1 .. Len(evq) + Len(e) /\ Len(evq) + 1 \in 1 .. Len(evq) + Len(e) + Len(r)
        /\ Len(evq) + 1 <= Len(evq) + Len(e) /\ ~(Len(evq) + 1 <= Len(evq)) /\ Len(evq) + 1 - Len(evq) = 1
    BY <1>1, <1>5
  <2>. QED BY <1>2, <1>3, <1>5, <2>1
<1>7. rxq # <<>> => Len(r) > 0 /\ Coming[Len(Coming)] = LastEvent
  <2>. HAVE rxq # <<>>
  <2>1. PICK p \in Seq(Events) : r = p \o <<LastEvent>>
    BY RxEventsLast
  <2>2. /\ <<LastEvent>> \in Seq(Events) /\ Len(<<LastEvent>>) = 1 /\ <<LastEvent>>[1] = LastEvent
        /\ Len(p) \in Nat
    BY DEF LastEvent, Events
  <2>. HIDE DEF r, e
  <2>3. /\ Len(r) = Len(p) + 1
        /\ \A i \in 1 .. Len(p) + 1 : r[i] = IF i <= Len(p) THEN p[i] ELSE <<LastEvent>>[i - Len(p)]
    BY <2>1, <2>2, ConcatProperties
  <2>4. Len(p) + 1 \in 1 .. Len(p) + 1 /\ ~(Len(p) + 1 <= Len(p)) /\ Len(p) + 1 - Len(p) = 1
    BY <2>2
  <2>5. r[Len(r)] = LastEvent
    BY <2>2, <2>3, <2>4
  <2>6. /\ Len(Coming) \in 1 .. Len(evq) + Len(e) + Len(r) /\ ~(Len(Coming) <= Len(evq) + Len(e))
        /\ Len(Coming) - (Len(evq) + Len(e)) = Len(r)
    BY <1>1, <1>3, <2>2, <2>3
  <2>7. Coming[Len(Coming)] = r[Len(Coming) - (Len(evq) + Len(e))]
    BY <1>3, <2>6
  <2>. QED BY <2>2, <2>3, <2>5, <2>6, <2>7
<1>8. rxq = <<>> /\ flags = {} => Coming = evq
  <2>. HAVE rxq = <<>> /\ flags = {}
  <2>1. e = <<>>
    BY EventsOfFacts
  <2>2. r = <<>>
    <3>1. <<>> \in Seq(Entries) /\ Len(<<>>) = 0
      BY EmptySeq
    <3>2. EvAt(<<>>, 1) = <<>> /\ EvAt(<<>>, 2) = <<>> /\ EvAt(<<>>, 3) = <<>> /\ EvAt(<<>>, 4) = <<>>
      <4>1. \A i \in Nat : i > Len(<<>>) => EvAt(<<>>, i) = <<>>
        BY <3>1, RxEventsFacts
      <4>. QED BY <3>1, <4>1
    <3>3. <<>> \o <<>> = <<>>
      BY <3>1, ConcatEmptySeq
    <3>. QED BY <3>2, <3>3 DEF RxEvents
  <2>. QED BY <1>1, <1>3, <2>1, <2>2, ConcatEmptySeq
<1>9. Coming = <<>> => rxq = <<>> /\ flags = {} /\ evq = <<>>
  <2>. HAVE Coming = <<>>
  <2>1. Len(Coming) = 0
    BY EmptySeq
  <2>. HIDE DEF r, e
  <2>2. Len(evq) = 0 /\ Len(e) = 0 /\ Len(r) = 0
    BY <1>1, <1>3, <2>1
  <2>3. rxq = <<>> /\ flags = {}
    BY <1>5, <1>7, <2>2
  <2>. QED BY <1>1, <2>2, <2>3, EmptySeq
<1>. HIDE DEF r
<1>. QED BY <1>1, <1>3, <1>4, <1>5, <1>6, <1>7, <1>8, <1>9

-----------------------------------------------------------------------------
(* What each kind of step does to the events to come.                        *)

\* What the event queue holds, and what is about to come into it, fits.
HasRoom == /\ ignored \in Seq(Nat) /\ otepspr \in BOOLEAN
           /\ Len(Coming) + Len(ignored) + Pending <= EventDepth

\* handle_event of events for which the queue has room.
LEMMA PushFits ==
    ASSUME PipeTypeOK, ignored \in Seq(Nat),
           NEW a \in Seq(Events), NEW b \in Seq(Events), NEW aside \in BOOLEAN,
           Len(evq) + Len(ignored) + Len(a) + Len(b) + (IF aside THEN 1 ELSE 0) <= EventDepth,
           Push(a, aside, b)
    PROVE  /\ evq' = evq \o (a \o b) /\ evq' \in Seq(Events) /\ ~lost'
           /\ ignored' = IF aside THEN Append(ignored, Len(evq) + Len(a)) ELSE ignored
<1>. DEFINE left == EventDepth - Len(evq) - Len(ignored) - Len(a)
            room == IF aside THEN left - 1 ELSE left
<1>1. evq \in Seq(Events) /\ Len(evq) \in Nat /\ Len(a) \in Nat /\ Len(b) \in Nat /\ ~lost
      /\ Len(ignored) \in Nat
  BY DEF PipeTypeOK
<1>2. Len(b) <= room /\ Len(a) <= left + Len(a) /\ (aside => left > 0) /\ left \in Int
  <2>1. CASE aside
    BY <1>1, <2>1, SizeFacts
  <2>2. CASE ~aside
    BY <1>1, <2>2, SizeFacts
  <2>. QED BY <2>1, <2>2
<1>3. /\ evq' = evq \o (Beginning(a, left + Len(a)) \o Beginning(b, room))
      /\ ignored' = IF aside /\ left > 0 THEN Append(ignored, Len(evq) + Len(a)) ELSE ignored
      /\ lost' = (lost \/ Len(b) > room)
  BY DEF Push
<1>. HIDE DEF left
<1>4. Beginning(a, left + Len(a)) = a /\ Beginning(b, room) = b
  <2>1. SubSeq(a, 1, Len(a)) = a /\ SubSeq(b, 1, Len(b)) = b
    BY SubSeqFull
  <2>. QED BY <1>1, <1>2, <2>1 DEF Beginning, Lesser
<1>5. ~(Len(b) > room)
  BY <1>1, <1>2
<1>6. a \o b \in Seq(Events) /\ evq \o (a \o b) \in Seq(Events)
  BY <1>1, ConcatProperties
<1>. QED BY <1>1, <1>2, <1>3, <1>4, <1>5, <1>6

\* One event, and one that the core ignores.
LEMMA PushOne ==
    ASSUME PipeTypeOK, ignored \in Seq(Nat), NEW e \in Events, Push(<<e>>, FALSE, <<>>),
           Len(evq) + Len(ignored) + 1 <= EventDepth
    PROVE  evq' = evq \o <<e>> /\ evq' \in Seq(Events) /\ ~lost' /\ ignored' = ignored
<1>1. <<e>> \in Seq(Events) /\ <<>> \in Seq(Events) /\ Len(<<e>>) = 1 /\ Len(<<>>) = 0
  BY EmptySeq
<1>2. <<e>> \o <<>> = <<e>>
  BY <1>1, ConcatEmptySeq
<1>3. Len(evq) + Len(ignored) + Len(<<e>>) + Len(<<>>) + (IF FALSE THEN 1 ELSE 0) <= EventDepth
  <2>1. Len(evq) \in Nat /\ Len(ignored) \in Nat
    BY DEF PipeTypeOK
  <2>. QED BY <1>1, <2>1
<1>. QED BY <1>1, <1>2, <1>3, PushFits

LEMMA PushAside ==
    ASSUME PipeTypeOK, ignored \in Seq(Nat), Push(<<>>, TRUE, <<>>),
           Len(evq) + Len(ignored) + 1 <= EventDepth
    PROVE  evq' = evq /\ ~lost' /\ ignored' = Append(ignored, Len(evq))
<1>1. <<>> \in Seq(Events) /\ Len(<<>>) = 0
  BY EmptySeq
<1>2. evq \in Seq(Events) /\ Len(evq) \in Nat /\ Len(ignored) \in Nat
  BY DEF PipeTypeOK
<1>3. <<>> \o <<>> = <<>> /\ evq \o <<>> = evq
  BY <1>1, <1>2, ConcatEmptySeq
<1>4. /\ Len(evq) + Len(ignored) + Len(<<>>) + Len(<<>>) + (IF TRUE THEN 1 ELSE 0) <= EventDepth
      /\ Len(evq) + Len(<<>>) = Len(evq)
  BY <1>1, <1>2
<1>5. evq' = evq \o (<<>> \o <<>>) /\ ~lost' /\ ignored' = Append(ignored, Len(evq) + Len(<<>>))
  <2>1. /\ evq' = evq \o (<<>> \o <<>>) /\ ~lost'
        /\ ignored' = IF TRUE THEN Append(ignored, Len(evq) + Len(<<>>)) ELSE ignored
    BY <1>1, <1>4, PushFits
  <2>. QED BY <2>1
<1>. QED BY <1>3, <1>4, <1>5

LEMMA ShapeLength ==
    ASSUME RxqShape
    PROVE  Len(rxq) <= 4 /\ Len(rxq) \in 0 .. 4
<1>1. Len(rxq) = 0 \/ Len(rxq) = 1 \/ Len(rxq) = 2 \/ Len(rxq) = 3 \/ Len(rxq) = 4
  BY DEF RxqShape
<1>2. \A n : n = 0 \/ n = 1 \/ n = 2 \/ n = 3 \/ n = 4 => n <= 4 /\ n \in 0 .. 4
  OBVIOUS
<1>. QED BY <1>1, <1>2

\* One pass of poll() in either driver: what is pending is pushed, and an entry popped
\* if there is one, in otghs only if nothing was pending.
LEMMA PollStep ==
    ASSUME PipeTypeOK, RxqShape, HasRoom, Poll
    PROVE  /\ evq' = evq \o EventsOf(flags) /\ evq' \in Seq(Events) /\ ~lost' /\ ~stall'
           /\ in' = IF "inXfrc" \in flags THEN [in EXCEPT !.nak = TRUE] ELSE in
           /\ \/ rxq # <<>> /\ PopRxq(Head(rxq)) /\ (flags = {} \/ Otghs2)
              \/ /\ rxq = <<>> \/ flags # {}
                 /\ flags' = {} /\ UNCHANGED <<mgrVars, packet, rxq, lastSetup, outArmed, crashed>>
           /\ \/ UNCHANGED <<otepspr, ignored>> /\ (Otghs2 => ~otepspr)
              \/ /\ otepspr /\ ~otepspr'
                 /\ ignored' = Append(ignored,
                        Len(evq) + Len(EventsOf(flags \cap {"inXfrc"})))
<1>. DEFINE a == EventsOf(flags \cap {"inXfrc"})  b == EventsOf(flags \ {"inXfrc"})
            aside == Otghs2 /\ otepspr
<1>1. /\ a \in Seq(Events) /\ b \in Seq(Events) /\ a \o b = EventsOf(flags)
      /\ Len(a) + Len(b) = Len(EventsOf(flags))
  <2>1. flags \in {{}, {"inXfrc"}, {"stup"}, {"outXfrc"}} /\ EventsOf(flags) \in Seq(Events)
    BY FlagsFacts
  <2>2. <<>> \in Seq(Events) /\ Len(<<>>) = 0 /\ EventsOf({}) = <<>>
    BY EmptySeq, EventsOfFacts
  <2>3. \A s \in Seq(Events) : s \o <<>> = s /\ <<>> \o s = s /\ Len(s) \in Nat
    BY <2>2, ConcatEmptySeq
  <2>4. CASE "inXfrc" \in flags
    <3>1. flags \cap {"inXfrc"} = flags /\ flags \ {"inXfrc"} = {}
      BY <2>1, <2>4
    <3>2. a = EventsOf(flags) /\ b = <<>>
      BY <2>2, <3>1
    <3>. HIDE DEF a, b
    <3>. QED BY <2>1, <2>2, <2>3, <3>2
  <2>5. CASE "inXfrc" \notin flags
    <3>1. flags \cap {"inXfrc"} = {} /\ flags \ {"inXfrc"} = flags
      BY <2>5
    <3>2. a = <<>> /\ b = EventsOf(flags)
      BY <2>2, <3>1
    <3>. HIDE DEF a, b
    <3>. QED BY <2>1, <2>2, <2>3, <3>2
  <2>. QED BY <2>4, <2>5
<1>2. /\ Len(evq) + Len(EventsOf(flags)) <= Len(Coming) /\ Len(evq) \in Nat /\ Len(Coming) \in Nat
      /\ ignored \in Seq(Nat) /\ Len(ignored) \in Nat /\ Len(a) \in Nat /\ Len(b) \in Nat
      /\ aside \in BOOLEAN /\ otepspr \in BOOLEAN
      /\ Len(EventsOf(flags)) \in Nat
  BY <1>1, ComingFacts, LenProperties DEF HasRoom
<1>3. Serve(flags, aside, rxq # <<>>) \/ Serve(flags, aside, flags = {})
  <2>1. CASE Otghs2
    BY <2>1 DEF Poll, ServeAll, HasRoom
  <2>2. CASE ~Otghs2
    BY <2>2, FlagsFacts DEF Poll, ServeFirst
  <2>. QED BY <2>1, <2>2
<1>4. /\ ~stall' /\ Push(a, aside, b) /\ otepspr' = (otepspr /\ ~aside)
      /\ in' = IF "inXfrc" \in flags THEN [in EXCEPT !.nak = TRUE] ELSE in
  BY <1>3 DEF Serve, PipeTypeOK
<1>5. Len(evq) + Len(ignored) + Len(a) + Len(b) + (IF aside THEN 1 ELSE 0) <= EventDepth
  <2>1. (IF aside THEN 1 ELSE 0) <= Pending /\ Pending \in {0, 1} /\ (IF aside THEN 1 ELSE 0) \in {0, 1}
    BY DEF Pending
  <2>2. Len(Coming) + Len(ignored) + Pending <= EventDepth
    BY DEF HasRoom
  <2>. HIDE DEF a, b, aside
  <2>. DEFINE p == IF aside THEN 1 ELSE 0
  <2>. HIDE DEF p
  <2>3. p <= Pending /\ Pending \in Nat /\ p \in Nat
    BY <2>1 DEF p
  <2>4. Len(evq) + Len(ignored) + Len(a) + Len(b) + p <= EventDepth
    BY <1>1, <1>2, <2>2, <2>3, SizeFacts
  <2>. QED BY <2>4 DEF p
<1>6. /\ evq' = evq \o EventsOf(flags) /\ evq' \in Seq(Events) /\ ~lost'
      /\ ignored' = IF aside THEN Append(ignored, Len(evq) + Len(a)) ELSE ignored
  <2>. HIDE DEF a, b, aside
  <2>1. /\ evq' = evq \o (a \o b) /\ evq' \in Seq(Events) /\ ~lost'
        /\ ignored' = IF aside THEN Append(ignored, Len(evq) + Len(a)) ELSE ignored
    BY <1>1, <1>2, <1>4, <1>5, PushFits
  <2>. QED BY <1>1, <2>1
<1>7. \/ rxq # <<>> /\ PopRxq(Head(rxq)) /\ (flags = {} \/ Otghs2)
      \/ /\ rxq = <<>> \/ flags # {}
         /\ flags' = {} /\ UNCHANGED <<mgrVars, packet, rxq, lastSetup, outArmed, crashed>>
  <2>1. CASE Otghs2
    <3>1. Serve(flags, otepspr, rxq # <<>>)
      BY <2>1 DEF Poll, ServeAll
    <3>. QED BY <2>1, <3>1 DEF Serve
  <2>2. CASE ~Otghs2
    <3>1. Serve(flags, FALSE, flags = {}) /\ (flags # {} \/ rxq # <<>>)
      BY <2>2, FlagsFacts DEF Poll, ServeFirst
    <3>. QED BY <3>1 DEF Serve
  <2>. QED BY <2>1, <2>2
<1>8. \/ UNCHANGED <<otepspr, ignored>> /\ (Otghs2 => ~otepspr)
      \/ otepspr /\ ~otepspr' /\ ignored' = Append(ignored, Len(evq) + Len(a))
  BY <1>2, <1>4, <1>6
<1>. QED BY <1>4, <1>6, <1>7, <1>8

\* poll() moves the events on and changes none of them.
LEMMA PollKeepsComing ==
    ASSUME PipeTypeOK, RxqShape, HasRoom, Poll
    PROVE  Coming' = Coming
<1>. DEFINE e == EventsOf(flags)  r == RxEvents(rxq)
<1>1. evq \in Seq(Events) /\ e \in Seq(Events) /\ r \in Seq(Events) /\ rxq \in Seq(Entries)
  <2>1. evq \in Seq(Events) /\ rxq \in Seq(Entries)
    BY DEF PipeTypeOK
  <2>. QED BY <2>1, FlagsFacts, RxEventsFacts
<1>2. evq \o e \in Seq(Events) /\ evq' = evq \o e /\ <<>> \in Seq(Events)
  BY <1>1, PollStep, ConcatProperties
<1>3. Coming = (evq \o e) \o r /\ Coming' = (evq' \o EventsOf(flags')) \o RxEvents(rxq')
  BY DEF Coming
<1>4. CASE rxq # <<>> /\ PopRxq(Head(rxq))
  <2>1. Len(rxq) <= 4 /\ Head(rxq) \in Entries
    <3>1. Len(rxq) <= 4
      BY ShapeLength
    <3>2. Head(rxq) \in Entries
      BY <1>1, <1>4, HeadTailProperties
    <3>. QED BY <3>1, <3>2
  <2>2. r = Ev(Head(rxq)) \o RxEvents(Tail(rxq)) /\ rxq' = Tail(rxq)
    BY <1>1, <1>4, <2>1, RxEventsPop DEF PopRxq
  <2>3. EventsOf(flags') = Ev(Head(rxq))
    <3>1. Head(rxq).kind \in {"setup", "setupDone", "data", "outDone"}
      BY <2>1 DEF Entries
    <3>2. flags' = IF Head(rxq).kind = "setupDone" THEN {"stup"}
                   ELSE IF Head(rxq).kind = "outDone" THEN {"outXfrc"} ELSE {}
      BY <1>4, <3>1 DEF PopRxq
    <3>. QED BY <2>1, <3>1, <3>2, EventsOfFacts, EvFacts
  <2>4. Ev(Head(rxq)) \in Seq(Events) /\ RxEvents(Tail(rxq)) \in Seq(Events)
    BY <1>1, <1>4, <2>1, EvFacts, RxEventsFacts, HeadTailProperties
  <2>. DEFINE x == evq \o e  y == Ev(Head(rxq))  z == RxEvents(Tail(rxq))
  <2>5. Coming = x \o (y \o z) /\ Coming' = (x \o y) \o z
    BY <1>2, <1>3, <2>2, <2>3
  <2>6. x \in Seq(Events) /\ y \in Seq(Events) /\ z \in Seq(Events)
    BY <1>2, <2>4
  <2>. HIDE DEF x, y, z
  <2>. QED BY <2>5, <2>6, ConcatAssociative
<1>5. CASE flags' = {} /\ rxq' = rxq
  <2>1. EventsOf(flags') = <<>>
    BY <1>5, EventsOfFacts
  <2>2. Coming' = ((evq \o e) \o <<>>) \o r
    BY <1>2, <1>3, <1>5, <2>1
  <2>3. (evq \o e) \o <<>> = evq \o e
    BY <1>2, ConcatEmptySeq
  <2>. QED BY <1>3, <2>2, <2>3
<1>. QED BY <1>4, <1>5, PollStep

\* The core takes the first of them.
Taken == /\ Coming' \in Seq(Events) /\ Len(Coming') = Len(Coming) - 1
         /\ \A i \in 1 .. Len(Coming) - 1 : Coming'[i] = Coming[i + 1]

LEMMA EventTakesComing ==
    ASSUME PipeTypeOK, RxqShape, evq # <<>>, evq' = Tail(evq), UNCHANGED <<flags, rxq>>
    PROVE  Coming # <<>> /\ Coming[1] = Head(evq) /\ Len(Coming) \in Nat \ {0} /\ Taken
<1>. DEFINE e == EventsOf(flags)  r == RxEvents(rxq)  s == e \o r
<1>1. /\ evq \in Seq(Events) /\ e \in Seq(Events) /\ r \in Seq(Events)
      /\ Tail(evq) \in Seq(Events) /\ Len(Tail(evq)) = Len(evq) - 1 /\ Len(evq) \in Nat \ {0}
      /\ Head(evq) = evq[1] /\ \A i \in 1 .. Len(evq) - 1 : Tail(evq)[i] = evq[i + 1]
  <2>1. evq \in Seq(Events) /\ rxq \in Seq(Entries)
    BY DEF PipeTypeOK
  <2>. QED BY <2>1, FlagsFacts, RxEventsFacts, HeadTailProperties, EmptySeq
<1>2. s \in Seq(Events) /\ Len(s) \in Nat
  <2>. HIDE DEF e, r
  <2>. QED BY <1>1, ConcatProperties, LenProperties
<1>3. Coming = evq \o s /\ Coming' = Tail(evq) \o s
  <2>1. Coming = (evq \o e) \o r /\ Coming' = (Tail(evq) \o e) \o r
    BY DEF Coming
  <2>. HIDE DEF e, r
  <2>2. (evq \o e) \o r = evq \o (e \o r)
    BY <1>1, ConcatAssociative
  <2>3. (Tail(evq) \o e) \o r = Tail(evq) \o (e \o r)
    BY <1>1, ConcatAssociative
  <2>. QED BY <2>1, <2>2, <2>3
<1>. HIDE DEF s, e, r
<1>4. /\ Len(Coming) = Len(evq) + Len(s) /\ Coming' \in Seq(Events)
      /\ Len(Coming') = Len(evq) - 1 + Len(s)
      /\ \A i \in 1 .. Len(evq) + Len(s) : Coming[i] = IF i <= Len(evq) THEN evq[i] ELSE s[i - Len(evq)]
      /\ \A i \in 1 .. Len(evq) - 1 + Len(s) :
             Coming'[i] = IF i <= Len(evq) - 1 THEN Tail(evq)[i] ELSE s[i - (Len(evq) - 1)]
  BY <1>1, <1>2, <1>3, ConcatProperties
<1>5. ASSUME NEW i \in 1 .. Len(Coming) - 1 PROVE Coming'[i] = Coming[i + 1]
  <2>1. i + 1 \in 1 .. Len(evq) + Len(s) /\ i \in 1 .. Len(evq) - 1 + Len(s)
    BY <1>1, <1>2, <1>4
  <2>2. CASE i <= Len(evq) - 1
    <3>1. i \in 1 .. Len(evq) - 1 /\ i + 1 <= Len(evq)
      BY <1>1, <2>1, <2>2
    <3>. QED BY <1>1, <1>4, <2>1, <2>2, <3>1
  <2>3. CASE ~(i <= Len(evq) - 1)
    <3>1. ~(i + 1 <= Len(evq)) /\ i + 1 - Len(evq) = i - (Len(evq) - 1)
      BY <1>1, <2>1, <2>3
    <3>. QED BY <1>4, <2>1, <2>3, <3>1
  <2>. QED BY <2>2, <2>3
<1>6. Coming[1] = evq[1] /\ Len(Coming) \in Nat \ {0} /\ Coming # <<>>
  <2>1. 1 \in 1 .. Len(evq) + Len(s) /\ 1 <= Len(evq) /\ Len(Coming) > 0 /\ Len(Coming) \in Nat
    BY <1>1, <1>2, <1>4
  <2>. QED BY <1>4, <2>1, EmptySeq
<1>. QED BY <1>1, <1>4, <1>5, <1>6, <1>2 DEF Taken

\* Another event comes behind them.
Grown(e) == /\ Coming' \in Seq(Events) /\ Len(Coming') = Len(Coming) + 1
            /\ \A i \in 1 .. Len(Coming) : Coming'[i] = Coming[i]
            /\ Coming'[Len(Coming) + 1] = e

\* A SETUP or an OUT transaction.
LEMMA AcceptGrows ==
    ASSUME PipeTypeOK, RxqShape, Len(rxq) <= 2, UNCHANGED <<evq, flags>>,
           NEW x \in Entries, x.kind \in {"setup", "data"},
           NEW y \in Entries, y.kind \in {"setupDone", "outDone"},
           rxq' = rxq \o <<x, y>>
    PROVE  /\ Grown(IF y.kind = "setupDone" THEN "CTRL_SETUP_PHASE_DONE" ELSE "EP_RX")
           /\ rxq' \in Seq(Entries) /\ Len(rxq') = Len(rxq) + 2
           /\ \A i \in 1 .. Len(rxq) : rxq'[i] = rxq[i]
           /\ rxq'[Len(rxq) + 1] = x /\ rxq'[Len(rxq) + 2] = y
<1>. DEFINE ev == IF y.kind = "setupDone" THEN "CTRL_SETUP_PHASE_DONE" ELSE "EP_RX"
            a == evq \o EventsOf(flags)  r == RxEvents(rxq)
<1>1. rxq \in Seq(Entries) /\ evq \in Seq(Events)
  BY DEF PipeTypeOK
<1>2. /\ rxq' \in Seq(Entries) /\ Len(rxq') = Len(rxq) + 2
      /\ \A i \in 1 .. Len(rxq) : rxq'[i] = rxq[i]
      /\ rxq'[Len(rxq) + 1] = x /\ rxq'[Len(rxq) + 2] = y
      /\ RxEvents(rxq') = r \o Ev(y)
  <2>. DEFINE w == rxq \o <<x, y>>
  <2>1. /\ w \in Seq(Entries) /\ Len(w) = Len(rxq) + 2
        /\ \A i \in 1 .. Len(rxq) : w[i] = rxq[i]
        /\ w[Len(rxq) + 1] = x /\ w[Len(rxq) + 2] = y
        /\ RxEvents(w) = RxEvents(rxq) \o Ev(y)
    BY <1>1, RxEventsAdd, SMTT(60)
  <2>2. rxq' = w
    OBVIOUS
  <2>. HIDE DEF w
  <2>. QED BY <2>1, <2>2
<1>3. Ev(y) = <<ev>> /\ ev \in Events
  BY EvFacts DEF Events
<1>4. a \in Seq(Events) /\ r \in Seq(Events)
  BY <1>1, FlagsFacts, RxEventsFacts, ConcatProperties
<1>5. Coming = a \o r /\ Coming' = a \o (r \o <<ev>>)
  BY <1>2, <1>3 DEF Coming
<1>. HIDE DEF ev, a, r
<1>6. Coming' = Coming \o <<ev>> /\ <<ev>> \in Seq(Events) /\ Coming \in Seq(Events)
  <2>1. <<ev>> \in Seq(Events)
    BY <1>3
  <2>. QED BY <1>4, <1>5, <2>1, ConcatAssociative, ConcatProperties
<1>7. Coming' = Append(Coming, ev)
  BY <1>3, <1>6, AppendIsConcat
<1>8. Grown(ev)
  BY <1>3, <1>6, <1>7, AppendProperties DEF Grown
<1>. QED BY <1>2, <1>8 DEF ev

\* An IN transaction that nothing else is pending behind.
LEMMA SendGrows ==
    ASSUME PipeTypeOK, RxqShape, Coming = <<>>, UNCHANGED <<evq, rxq>>, flags' = flags \cup {"inXfrc"}
    PROVE  Grown("EP_TX") /\ flags' = {"inXfrc"}
<1>1. rxq = <<>> /\ flags = {} /\ evq = <<>>
  BY ComingFacts
<1>2. flags' = {"inXfrc"}
  BY <1>1
<1>3. Coming = (<<>> \o <<>>) \o RxEvents(<<>>) /\ Coming' = (<<>> \o <<"EP_TX">>) \o RxEvents(<<>>)
  BY <1>1, <1>2, EventsOfFacts DEF Coming
<1>4. RxEvents(<<>>) \in Seq(Events) /\ <<>> \in Seq(Events) /\ <<"EP_TX">> \in Seq(Events)
  <2>1. <<>> \in Seq(Entries)
    BY EmptySeq
  <2>2. RxEvents(<<>>) \in Seq(Events)
    BY <2>1, RxEventsFacts
  <2>3. "EP_TX" \in Events
    BY DEF Events
  <2>. QED BY <2>2, <2>3
<1>5. RxEvents(<<>>) = <<>>
  BY <1>3, <1>4, ConcatEmptySeq
<1>6. Coming' = <<"EP_TX">>
  BY <1>3, <1>4, <1>5, ConcatEmptySeq
<1>. QED BY <1>2, <1>4, <1>6 DEF Grown

\* A bus reset: what was not yet in the queue is lost.
LEMMA ResetComing ==
    ASSUME PipeTypeOK, rxq' = <<>>, flags' = {}, NEW e \in Events, evq' = evq \o <<e>>
    PROVE  /\ Coming' = evq' /\ Coming' \in Seq(Events) /\ Len(Coming') = Len(evq) + 1
           /\ \A i \in 1 .. Len(evq) : Coming'[i] = evq[i]
           /\ Coming'[Len(evq) + 1] = e
<1>1. evq \in Seq(Events) /\ <<e>> \in Seq(Events) /\ <<>> \in Seq(Events) /\ <<>> \in Seq(Entries)
  BY EmptySeq DEF PipeTypeOK
<1>2. evq' = Append(evq, e)
  BY <1>1, AppendIsConcat
<1>3. /\ evq' \in Seq(Events) /\ Len(evq') = Len(evq) + 1 /\ evq'[Len(evq) + 1] = e
      /\ \A i \in 1 .. Len(evq) : evq'[i] = evq[i]
  BY <1>1, <1>2, AppendProperties
<1>4. RxEvents(<<>>) = <<>>
  <2>1. \A i \in Nat : i > Len(<<>>) => EvAt(<<>>, i) = <<>>
    BY <1>1, RxEventsFacts
  <2>2. EvAt(<<>>, 1) = <<>> /\ EvAt(<<>>, 2) = <<>> /\ EvAt(<<>>, 3) = <<>> /\ EvAt(<<>>, 4) = <<>>
    <3>1. Len(<<>>) = 0
      BY EmptySeq
    <3>. QED BY <2>1, <3>1
  <2>3. <<>> \o <<>> = <<>>
    BY <1>1, ConcatEmptySeq
  <2>. QED BY <2>2, <2>3 DEF RxEvents
<1>5. Coming' = (evq' \o <<>>) \o <<>>
  BY <1>4, EventsOfFacts DEF Coming
<1>6. Coming' = evq'
  BY <1>3, <1>5, ConcatEmptySeq
<1>. QED BY <1>3, <1>6

-----------------------------------------------------------------------------
(* Facts every step needs.                                                   *)

\* While a buffer is active, the pool is empty only if all others are queued.
LEMMA PoolHasBuffer ==
    ASSUME Ep0Inv, active[0] # NoBuf, pool[0] = <<>>
    PROVE  BUFFER_DEPTH <= Len(queue[0]) + 1
<1>. DEFINE q == queue[0]  a == active[0]
<1>1. q \in Seq(Buffers) /\ a \in Buffers /\ Partition(<<>>, a, q, {})
  BY EndpointZero DEF Ep0Inv, MgrTypeOK, Ep0Conserved, Conserved
<1>2. Buffers = Range(q) \cup {a} /\ Range(q) \subseteq Buffers
  <2>1. DOMAIN q = 1 .. Len(q) /\ \A i \in 1 .. Len(q) : q[i] \in Buffers
    BY <1>1
  <2>2. Range(q) \subseteq Buffers
    BY <2>1 DEF Range
  <2>. QED BY <1>1, <2>2, EmptyContains DEF Partition, NoneLost
<1>3. Len(q) \in Nat /\ q \in [1 .. Len(q) -> Range(q)] /\ q \in Surjection(1 .. Len(q), Range(q))
  <2>1. Len(q) \in Nat /\ DOMAIN q = 1 .. Len(q) /\ q \in [1 .. Len(q) -> Buffers]
    BY <1>1, LenProperties
  <2>. HIDE DEF q
  <2>. QED BY <2>1 DEF Range, Surjection
<1>4. /\ IsFiniteSet(1 .. Len(q)) /\ Cardinality(1 .. Len(q)) = Len(q)
  BY <1>3, FS_Interval
<1>5. IsFiniteSet(Range(q)) /\ Cardinality(Range(q)) <= Len(q) /\ Cardinality(Range(q)) \in Nat
  <2>. HIDE DEF q
  <2>. QED BY <1>3, <1>4, FS_Surjection, FS_CardinalityType
<1>6. Cardinality(Range(q) \cup {a}) = IF a \in Range(q) THEN Cardinality(Range(q)) ELSE Cardinality(Range(q)) + 1
  <2>. HIDE DEF q, a
  <2>. QED BY <1>5, FS_AddElement
<1>. QED BY <1>2, <1>3, <1>5, <1>6 DEF BUFFER_DEPTH

LEMMA BufferDepthFacts == BUFFER_DEPTH \in Nat /\ BUFFER_DEPTH > 0
<1>1. BUFFER_DEPTH \in Nat /\ BUFFER_DEPTH # 0
  BY BuffersAssumption, FS_CardinalityType, FS_EmptySet DEF BUFFER_DEPTH
<1>. QED BY <1>1

\* The requests.
LEMMA RequestFacts ==
    ASSUME OrdinaryUse, NEW s \in Setups
    PROVE  /\ s # NoSetup /\ s.id \in Ids /\ s.len \in Nat /\ s.reply \in Nat
           /\ s.dir = "in" \/ s.dir = "out"
           /\ s.dir # "in" \/ s.dir # "out"
           /\ Serviceable(s)
           /\ s.dir = "in" => s.len > 0
  BY PipeAssumption DEF OrdinaryUse, Serviceable

LEMMA QueueFacts ==
    ASSUME Ep0Inv
    PROVE  /\ queue[0] \in Seq(Buffers) /\ Len(queue[0]) \in Nat
           /\ pool[0] \in Seq(Buffers) /\ active[0] \in Buffers \cup {NoBuf}
           /\ \A i \in 1 .. Len(queue[0]) : queue[0][i] \in Buffers /\ queue[0][i] # active[0]
           /\ InFlight \in Nat /\ Len(queue[0]) <= InFlight
           /\ InFlight = 0 => queue[0] = <<>>
           /\ queue[0] # <<>> => Len(queue[0]) > 0
<1>1. /\ queue[0] \in Seq(Buffers) /\ Len(queue[0]) \in Nat
      /\ pool[0] \in Seq(Buffers) /\ active[0] \in Buffers \cup {NoBuf}
      /\ \A i \in 1 .. Len(queue[0]) : queue[0][i] \in Buffers
      /\ DOMAIN queue[0] = 1 .. Len(queue[0])
  BY EndpointZero, LenProperties DEF Ep0Inv, MgrTypeOK
<1>2. active[0] \notin Range(queue[0])
  BY DEF Ep0Inv, Ep0Conserved, Conserved, Partition, Apart
<1>3. \A i \in 1 .. Len(queue[0]) : queue[0][i] # active[0]
  BY <1>1, <1>2 DEF Range
<1>4. InFlight \in Nat /\ Len(queue[0]) <= InFlight
  <2>1. InFlight = Len(queue[0]) + 0 \/ InFlight = Len(queue[0]) + 1
    BY DEF InFlight
  <2>2. \A m, n : m \in Nat /\ (n = m + 0 \/ n = m + 1) => n \in Nat /\ m <= n
    OBVIOUS
  <2>. QED BY <1>1, <2>1, <2>2
<1>5. Len(queue[0]) = 0 => queue[0] = <<>>
  BY <1>1, EmptySeq
<1>6. queue[0] # <<>> => Len(queue[0]) > 0
  BY <1>1, <1>5
<1>. QED BY <1>1, <1>3, <1>4, <1>5, <1>6

\* OUT data in flight fits the buffers and the event queue.
LEMMA SentFacts ==
    ASSUME OrdinaryUse, PipeTypeOK, request.dir = "out", InFlight \in Nat,
           NEW taken \in Nat, SentOut(taken)
    PROVE  /\ InFlight > 0 => /\ request.len > 0 /\ MaxResets <= 1
                              /\ InFlight < BUFFER_DEPTH
                              /\ 1 + InFlight + 2 * MaxResets <= Depth
           /\ \A i \in 1 .. InFlight : /\ Flying(i) \in Seq(Units)
                                       /\ Len(Flying(i)) > 0 /\ Len(Flying(i)) <= EP0SIZE
<1>1. request \in Setups /\ request.len \in Nat /\ Serviceable(request)
  BY RequestFacts DEF PipeTypeOK
<1>2. ASSUME NEW i \in 1 .. InFlight
      PROVE  /\ Flying(i) \in Seq(Units)
             /\ Len(Flying(i)) > 0 /\ Len(Flying(i)) <= EP0SIZE
  <2>1. /\ taken + At(i - 1) < request.len
        /\ Flying(i) = Cut(request, taken + At(i - 1), Lesser(taken + At(i), request.len))
    BY DEF SentOut
  <2>2. At(i - 1) \in Nat /\ At(i) = At(i - 1) + EP0SIZE
    <3>1. i - 1 \in Nat /\ (i - 1) + 1 = i
      OBVIOUS
    <3>. QED BY <3>1, AtFacts
  <2>. DEFINE a == taken + At(i - 1)  b == Lesser(taken + At(i), request.len)
  <2>3. a \in Nat /\ b \in Nat /\ a < b /\ b - a <= EP0SIZE
    BY <1>1, <2>1, <2>2, SizeFacts DEF Lesser
  <2>. HIDE DEF a, b
  <2>4. a <= b
    BY <2>3
  <2>5. Cut(request, a, b) \in Seq(Units) /\ Len(Cut(request, a, b)) = b - a
    BY <1>1, <2>3, <2>4, CutType
  <2>6. Flying(i) = Cut(request, a, b)
    BY <2>1 DEF a, b
  <2>7. b - a > 0
    BY <2>3
  <2>. QED BY <2>3, <2>5, <2>6, <2>7
<1>3. ASSUME InFlight > 0
      PROVE  /\ request.len > 0 /\ MaxResets <= 1
             /\ InFlight < BUFFER_DEPTH
             /\ 1 + InFlight + 2 * MaxResets <= Depth
  <2>1. taken + At(InFlight - 1) < request.len /\ InFlight - 1 \in Nat
    <3>1. InFlight \in 1 .. InFlight /\ InFlight - 1 \in Nat
      BY <1>3
    <3>. QED BY <3>1 DEF SentOut
  <2>2. At(InFlight - 1) \in Nat
    BY <2>1, AtFacts
  <2>3. request.len > 0 /\ At(InFlight - 1) < request.len
    BY <1>1, <2>1, <2>2
  <2>4. /\ MaxResets <= 1 /\ request.len <= At(BUFFER_DEPTH - 1)
        /\ request.len <= At(Depth - 1 - 2 * MaxResets)
    BY <1>1, <2>3 DEF Serviceable
  <2>5. BUFFER_DEPTH - 1 \in Int /\ Depth - 1 - 2 * MaxResets \in Int
    BY BufferDepthFacts, SizeFacts
  <2>6. At(BUFFER_DEPTH - 1) \in Int /\ At(Depth - 1 - 2 * MaxResets) \in Int
    BY <2>5, SizeFacts DEF At
  <2>7. At(InFlight - 1) < At(BUFFER_DEPTH - 1) /\ At(InFlight - 1) < At(Depth - 1 - 2 * MaxResets)
    BY <1>1, <2>2, <2>3, <2>4, <2>6
  <2>8. InFlight - 1 < BUFFER_DEPTH - 1 /\ InFlight - 1 < Depth - 1 - 2 * MaxResets
    BY <2>1, <2>5, <2>7, AtMonotone
  <2>. QED BY <2>3, <2>4, <2>8, BufferDepthFacts, SizeFacts
<1>. QED BY <1>2, <1>3

LEMMA FlightPhase ==
    ASSUME OrdinaryUse, PipeInv, InTransfer, InFlight > 0
    PROVE  request.dir = "out" /\ \E taken \in Nat : SentOut(taken)
<1>0. InFlight \in Nat
  BY QueueFacts DEF PipeInv, TransferInv
<1>1. CASE \E n \in 0 .. 2 : Announced(n)
  BY <1>0, <1>1 DEF Announced, Overtaken
<1>2. CASE Receiving
  <2>1. request.len - rx.rem \in Nat
    BY <1>2, RequestFacts DEF Receiving, PipeInv, TransferInv, PipeTypeOK
  <2>. QED BY <1>2, <2>1 DEF Receiving
<1>3. CASE Responding \/ Executed \/ \E n \in 0 .. 2 : Over(n)
  BY <1>3 DEF Responding, Executed, Over
<1>. QED BY <1>1, <1>2, <1>3 DEF PipeInv, TransferInv, Protocol

\* The packet of OUT data that poll() pops goes into the active buffer.
LEMMA PopData ==
    ASSUME OrdinaryUse, PipeInv, rxq # <<>>, Kind(1) = "data", PopRxq(Head(rxq))
    PROVE  /\ ~crashed' /\ active'[0] # NoBuf /\ UNCHANGED lastSetup /\ flags' = {}
           /\ Len(rxq) = 2 \/ Len(rxq) = 4
           /\ rxq[1] \in Entries
           /\ IF InTransfer /\ Len(rxq) = 2
              THEN /\ InFlight = Len(queue[0]) + 1
                   /\ Newest = rxq[1] /\ DataPending
                   /\ packet' = [packet EXCEPT ![active[0]] = rxq[1].units]
                   /\ queue'[0] = Append(queue[0], active[0])
                   /\ outArmed' = TRUE
              ELSE UNCHANGED <<mgrVars, packet, outArmed>>
<1>1. rxq \in Seq(Entries) /\ Head(rxq) = rxq[1] /\ rxq[1] \in Entries
  <2>1. rxq \in Seq(Entries)
    BY DEF PipeInv, TransferInv, PipeTypeOK
  <2>. QED BY <2>1, HeadTailProperties
<1>2. \/ Len(rxq) = 2 /\ Kind(2) = "outDone"
      \/ Len(rxq) = 4 /\ rxq[1].units = <<>>
  <2>1. RxqShape /\ (Len(rxq) = 4 => rxq[1].units = <<>>)
    BY DEF PipeInv, TransferInv, Wire
  <2>3. Len(rxq) # 0 /\ rxq[1].kind = "data"
    BY <1>1, EmptySeq DEF Kind
  <2>4. ASSUME Len(rxq) = 1 /\ Kind(1) \in {"outDone", "setupDone"} PROVE FALSE
    BY <2>3, <2>4 DEF Kind
  <2>5. ASSUME Len(rxq) = 2 /\ Kind(1) = "setup" PROVE FALSE
    BY <2>3, <2>5 DEF Kind
  <2>6. ASSUME Len(rxq) = 3 /\ Kind(1) = "outDone" PROVE FALSE
    BY <2>3, <2>6 DEF Kind
  <2>7. \/ Len(rxq) = 2 /\ Kind(2) = "outDone"
        \/ Len(rxq) = 4
    BY <2>1, <2>3, <2>4, <2>5, <2>6 DEF RxqShape
  <2>. QED BY <2>1, <2>7
<1>3. /\ ReceiveData(rxq[1].units) /\ UNCHANGED lastSetup /\ flags' = {}
  BY <1>1 DEF PopRxq, Kind
<1>4. ~crashed /\ active[0] # NoBuf
  BY DEF PipeInv, TransferInv, PipeTypeOK, Room
<1>5. CASE rxq[1].units = <<>>
  <2>1. UNCHANGED <<mgrVars, packet, outArmed, crashed>>
    BY <1>3, <1>5 DEF ReceiveData
  <2>2. ~(InTransfer /\ Len(rxq) = 2)
    <3>1. ASSUME Len(rxq) = 2 PROVE ~InTransfer
      <4>1. DataPending /\ Newest = rxq[1]
        BY <3>1 DEF DataPending, Newest, Kind
      <4>. QED BY <1>5, <4>1 DEF PipeInv, TransferInv, Wire
    <3>. QED BY <3>1
  <2>. QED BY <1>1, <1>2, <1>3, <1>4, <2>1, <2>2 DEF mgrVars
<1>6. CASE rxq[1].units # <<>>
  <2>1. Len(rxq) = 2 /\ DataPending /\ Newest = rxq[1]
    <3>1. Len(rxq) = 2
      BY <1>2, <1>6
    <3>2. Newest = rxq[1] /\ rxq[1].kind = "data"
      BY <3>1 DEF Newest, Kind
    <3>. QED BY <3>1, <3>2 DEF DataPending
  <2>2. InTransfer
    BY <1>6, <2>1 DEF PipeInv, TransferInv, Wire
  <2>3. InFlight = Len(queue[0]) + 1 /\ InFlight > 0 /\ Len(queue[0]) \in Nat /\ InFlight \in Nat
    <3>1. InFlight = Len(queue[0]) + 1
      BY <2>1, <2>2 DEF InFlight
    <3>. QED BY <3>1, QueueFacts DEF PipeInv, TransferInv
  <2>4. InFlight < BUFFER_DEPTH
    <3>1. request.dir = "out" /\ \E taken \in Nat : SentOut(taken)
      BY <2>2, <2>3, FlightPhase
    <3>. QED BY <2>3, <3>1, SentFacts DEF PipeInv, TransferInv
  <2>5. pool[0] # <<>>
    BY <1>4, <2>3, <2>4, PoolHasBuffer, BufferDepthFacts DEF PipeInv, TransferInv
  <2>6. Head(pool[0]) \in Buffers /\ CanAllocate(0)
    BY <2>5, QueueFacts, HeadTailProperties DEF PipeInv, TransferInv, CanAllocate
  <2>7. CanEnqueue(0, active[0])
    BY <1>4, <2>3, <2>4, BufferDepthFacts DEF CanEnqueue
  <2>8. /\ packet' = [packet EXCEPT ![active[0]] = rxq[1].units]
        /\ EnqueueBuffer(0, active[0]) /\ SetBuffer(0, Allocated(0))
        /\ outArmed' = CanAllocate(0) /\ UNCHANGED crashed
    BY <1>3, <1>4, <1>6 DEF ReceiveData
  <2>9. queue'[0] = Append(queue[0], active[0]) /\ active'[0] = Head(pool[0])
    BY <2>6, <2>7, <2>8, EndpointZero DEF EnqueueBuffer, SetBuffer, Allocated, PipeInv, TransferInv, Ep0Inv, MgrTypeOK
  <2>10. outArmed' = TRUE
    BY <2>6, <2>8
  <2>. QED BY <1>1, <1>3, <1>4, <2>1, <2>2, <2>3, <2>6, <2>8, <2>9, <2>10, BuffersAssumption
<1>. QED BY <1>5, <1>6

LEMMA PopOther ==
    ASSUME PipeInv, rxq # <<>>, Kind(1) # "data", PopRxq(Head(rxq))
    PROVE  /\ UNCHANGED <<mgrVars, packet, crashed>>
           /\ rxq[1] \in Entries
           /\ lastSetup' = IF Kind(1) = "setup" THEN rxq[1].setup ELSE lastSetup
           /\ outArmed' = IF Kind(1) = "setupDone" THEN TRUE ELSE outArmed
           /\ flags' = IF Kind(1) = "setupDone" THEN {"stup"}
                       ELSE IF Kind(1) = "outDone" THEN {"outXfrc"} ELSE {}
<1>1. Head(rxq) = rxq[1] /\ rxq[1] \in Entries
  <2>1. rxq \in Seq(Entries)
    BY DEF PipeInv, TransferInv, PipeTypeOK
  <2>. QED BY <2>1, HeadTailProperties
<1>2. rxq[1].kind \in {"setup", "setupDone", "outDone"}
  BY <1>1 DEF Entries, Kind
<1>. QED BY <1>1, <1>2 DEF PopRxq, Kind

-----------------------------------------------------------------------------
(* poll().                                                                   *)

\* The lengths of the receive FIFO, for the provers.
LEMMA SmallLengths ==
    \A n : /\ n = 0 => ~(n >= 2) /\ n # 1 /\ n # 2 /\ n # 3 /\ n # 4
           /\ n = 1 => ~(n >= 2) /\ n # 0 /\ n # 2 /\ n # 3 /\ n # 4 /\ n - 1 = 0
           /\ n = 2 => n >= 2 /\ n - 1 = 1 /\ n # 0 /\ n # 1 /\ n # 3 /\ n # 4
           /\ n = 3 => n >= 2 /\ n - 1 = 2 /\ n # 0 /\ n # 1 /\ n # 2 /\ n # 4
           /\ n = 4 => n >= 2 /\ n - 1 = 3 /\ n # 0 /\ n # 1 /\ n # 2 /\ n # 3
  OBVIOUS

\* Where a packet is in each shape of the receive FIFO.
LEMMA PendingFacts ==
    RxqShape =>
        /\ SetupPending <=> \/ Len(rxq) = 2 /\ Kind(1) = "setup"
                            \/ Len(rxq) = 3 /\ Kind(2) = "setup"
                            \/ Len(rxq) = 4
        /\ DataPending  <=> \/ Len(rxq) = 2 /\ Kind(1) = "data"
                            \/ Len(rxq) = 3 /\ Kind(2) = "data"
        /\ Len(rxq) = 2 => Newest = rxq[1]
        /\ Len(rxq) = 3 => Newest = rxq[2]
        /\ Len(rxq) = 4 => Newest = rxq[3]
        /\ ~(SetupPending /\ DataPending)
<1>. SUFFICES ASSUME RxqShape
     PROVE /\ SetupPending <=> \/ Len(rxq) = 2 /\ Kind(1) = "setup"
                               \/ Len(rxq) = 3 /\ Kind(2) = "setup"
                               \/ Len(rxq) = 4
           /\ DataPending  <=> \/ Len(rxq) = 2 /\ Kind(1) = "data"
                               \/ Len(rxq) = 3 /\ Kind(2) = "data"
           /\ Len(rxq) = 2 => Newest = rxq[1]
           /\ Len(rxq) = 3 => Newest = rxq[2]
           /\ Len(rxq) = 4 => Newest = rxq[3]
           /\ ~(SetupPending /\ DataPending)
  OBVIOUS
<1>. DEFINE n == Len(rxq)
<1>2. /\ n = 2 => Newest = rxq[1]
      /\ n = 3 => Newest = rxq[2]
      /\ n = 4 => Newest = rxq[3]
  BY SmallLengths DEF Newest
<1>3. /\ SetupPending <=> n >= 2 /\ Newest.kind = "setup"
      /\ DataPending <=> n >= 2 /\ Newest.kind = "data"
  BY DEF SetupPending, DataPending
<1>4. \/ n = 0
      \/ n = 1 /\ Kind(1) \in {"outDone", "setupDone"}
      \/ n = 2 /\ Kind(1) = "data" /\ Kind(2) = "outDone"
      \/ n = 2 /\ Kind(1) = "setup" /\ Kind(2) = "setupDone"
      \/ n = 3 /\ Kind(1) = "outDone" /\ Kind(2) = "data" /\ Kind(3) = "outDone"
      \/ n = 3 /\ Kind(1) = "outDone" /\ Kind(2) = "setup" /\ Kind(3) = "setupDone"
      \/ n = 4 /\ Kind(1) = "data" /\ Kind(2) = "outDone" /\ Kind(3) = "setup"
               /\ Kind(4) = "setupDone"
  BY DEF RxqShape
<1>5. Kind(1) = rxq[1].kind /\ Kind(2) = rxq[2].kind /\ Kind(3) = rxq[3].kind
  BY DEF Kind
<1>. HIDE DEF n
<1>6. CASE n = 0 \/ n = 1
  BY SmallLengths, <1>3, <1>6 DEF n
<1>7. CASE n = 2
  BY SmallLengths, <1>2, <1>3, <1>4, <1>5, <1>7 DEF n
<1>8. CASE n = 3
  BY SmallLengths, <1>2, <1>3, <1>4, <1>5, <1>8 DEF n
<1>9. CASE n = 4
  BY SmallLengths, <1>2, <1>3, <1>4, <1>5, <1>9 DEF n
<1>. QED BY <1>4, <1>6, <1>7, <1>8, <1>9

\* The shapes that popping an entry leads to.
LEMMA PopShape ==
    ASSUME PipeTypeOK, RxqShape, rxq # <<>>, rxq' = Tail(rxq)
    PROVE  /\ rxq' \in Seq(Entries)
           /\ \/ Len(rxq) = 1 /\ Kind(1) = "outDone" /\ Len(rxq') = 0
              \/ Len(rxq) = 1 /\ Kind(1) = "setupDone" /\ Len(rxq') = 0
              \/ /\ Len(rxq) = 2 /\ Kind(1) = "data"
                 /\ Len(rxq') = 1 /\ Kind(1)' = "outDone"
              \/ /\ Len(rxq) = 2 /\ Kind(1) = "setup"
                 /\ Len(rxq') = 1 /\ Kind(1)' = "setupDone"
              \/ /\ Len(rxq) = 3 /\ Kind(1) = "outDone" /\ Kind(2) = "data"
                 /\ Len(rxq') = 2 /\ Kind(1)' = "data" /\ Kind(2)' = "outDone" /\ rxq'[1] = rxq[2]
              \/ /\ Len(rxq) = 3 /\ Kind(1) = "outDone" /\ Kind(2) = "setup"
                 /\ Len(rxq') = 2 /\ Kind(1)' = "setup" /\ Kind(2)' = "setupDone" /\ rxq'[1] = rxq[2]
              \/ /\ Len(rxq) = 4 /\ Kind(1) = "data"
                 /\ Len(rxq') = 3 /\ Kind(1)' = "outDone" /\ Kind(2)' = "setup"
                 /\ Kind(3)' = "setupDone" /\ rxq'[2] = rxq[3]
<1>. DEFINE n == Len(rxq)
<1>1. /\ rxq' \in Seq(Entries) /\ Len(rxq') = n - 1
      /\ \A i \in 1 .. n - 1 : rxq'[i] = rxq[i + 1]
  <2>1. rxq \in Seq(Entries)
    BY DEF PipeTypeOK
  <2>. QED BY <2>1, HeadTailProperties
<1>2. n # 0
  <2>1. rxq \in Seq(Entries)
    BY DEF PipeTypeOK
  <2>. QED BY <2>1, EmptySeq
<1>8. \/ n = 0
      \/ n = 1 /\ Kind(1) \in {"outDone", "setupDone"}
      \/ n = 2 /\ Kind(1) = "data" /\ Kind(2) = "outDone"
      \/ n = 2 /\ Kind(1) = "setup" /\ Kind(2) = "setupDone"
      \/ n = 3 /\ Kind(1) = "outDone" /\ Kind(2) = "data" /\ Kind(3) = "outDone"
      \/ n = 3 /\ Kind(1) = "outDone" /\ Kind(2) = "setup" /\ Kind(3) = "setupDone"
      \/ n = 4 /\ Kind(1) = "data" /\ Kind(2) = "outDone" /\ Kind(3) = "setup"
               /\ Kind(4) = "setupDone"
  BY DEF RxqShape
<1>. HIDE DEF n
<1>3. CASE n = 1 /\ Kind(1) \in {"outDone", "setupDone"}
  BY <1>1, <1>3
<1>4. CASE n = 2
  <2>1. rxq'[1] = rxq[2] /\ Len(rxq') = 1
    <3>1. 1 \in 1 .. n - 1 /\ n - 1 = 1
      BY <1>4
    <3>2. 1 + 1 = 2 /\ 2 + 1 = 3 /\ 3 + 1 = 4
      OBVIOUS
    <3>. QED BY <1>1, <3>1, <3>2
  <2>2. Kind(1)' = Kind(2)
    BY <2>1 DEF Kind
  <2>3. CASE Kind(1) = "data" /\ Kind(2) = "outDone"
    BY <1>1, <1>4, <2>1, <2>2, <2>3
  <2>4. CASE Kind(1) = "setup" /\ Kind(2) = "setupDone"
    BY <1>1, <1>4, <2>1, <2>2, <2>4
  <2>6. \/ Kind(1) = "data" /\ Kind(2) = "outDone"
        \/ Kind(1) = "setup" /\ Kind(2) = "setupDone"
    BY <1>4, <1>8, SmallLengths
  <2>. QED BY <2>3, <2>4, <2>6
<1>5. CASE n = 3
  <2>1. rxq'[1] = rxq[2] /\ rxq'[2] = rxq[3] /\ Len(rxq') = 2
    <3>1. 1 \in 1 .. n - 1 /\ 2 \in 1 .. n - 1 /\ n - 1 = 2
      BY <1>5
    <3>2. 1 + 1 = 2 /\ 2 + 1 = 3 /\ 3 + 1 = 4
      OBVIOUS
    <3>. QED BY <1>1, <3>1, <3>2
  <2>2. Kind(1)' = Kind(2) /\ Kind(2)' = Kind(3)
    BY <2>1 DEF Kind
  <2>3. CASE Kind(1) = "outDone" /\ Kind(2) = "data" /\ Kind(3) = "outDone"
    BY <1>1, <1>5, <2>1, <2>2, <2>3
  <2>4. CASE Kind(1) = "outDone" /\ Kind(2) = "setup" /\ Kind(3) = "setupDone"
    BY <1>1, <1>5, <2>1, <2>2, <2>4
  <2>6. \/ Kind(1) = "outDone" /\ Kind(2) = "data" /\ Kind(3) = "outDone"
        \/ Kind(1) = "outDone" /\ Kind(2) = "setup" /\ Kind(3) = "setupDone"
    BY <1>5, <1>8, SmallLengths
  <2>. QED BY <2>3, <2>4, <2>6
<1>6. CASE n = 4
  <2>1. rxq'[1] = rxq[2] /\ rxq'[2] = rxq[3] /\ rxq'[3] = rxq[4] /\ Len(rxq') = 3
    <3>1. 1 \in 1 .. n - 1 /\ 2 \in 1 .. n - 1 /\ 3 \in 1 .. n - 1 /\ n - 1 = 3
      BY <1>6
    <3>2. 1 + 1 = 2 /\ 2 + 1 = 3 /\ 3 + 1 = 4
      OBVIOUS
    <3>. QED BY <1>1, <3>1, <3>2
  <2>2. Kind(1)' = Kind(2) /\ Kind(2)' = Kind(3) /\ Kind(3)' = Kind(4)
    BY <2>1 DEF Kind
  <2>6. Kind(1) = "data" /\ Kind(2) = "outDone" /\ Kind(3) = "setup" /\ Kind(4) = "setupDone"
    BY <1>6, <1>8, SmallLengths
  <2>7. /\ n = 4 /\ Kind(1) = "data"
        /\ Len(rxq') = 3 /\ Kind(1)' = "outDone" /\ Kind(2)' = "setup"
        /\ Kind(3)' = "setupDone" /\ rxq'[2] = rxq[3]
    BY <1>6, <2>1, <2>2, <2>6
  <2>. QED BY <1>1, <2>7 DEF n
<1>7. \/ n = 1 /\ Kind(1) \in {"outDone", "setupDone"}
      \/ n = 2 \/ n = 3 \/ n = 4
  BY <1>2, <1>8
<1>. QED BY <1>1, <1>3, <1>4, <1>5, <1>6, <1>7 DEF n

LEMMA RoomFacts ==
    ASSUME PipeInv
    PROVE  /\ Len(Coming) \in Nat /\ Len(Coming) <= Depth
           /\ resets \in Nat /\ MaxResets - resets \in Nat
           /\ Coming \in Seq(Events)
           /\ Len(Coming) + 2 * (MaxResets - resets) <= Depth
           /\ HasRoom
<1>1. Len(Coming) \in Nat /\ Coming \in Seq(Events)
  BY ComingFacts DEF PipeInv, TransferInv, Wire
<1>2. resets \in Nat /\ MaxResets - resets \in Nat
  BY SizeFacts DEF PipeInv, TransferInv, PipeTypeOK
<1>3. Len(Coming) + 2 * (MaxResets - resets) + (IF stage = "reset" THEN 1 ELSE 0) <= Depth
  BY DEF PipeInv, TransferInv, Room
<1>4. \A n, k \in Nat : n + 2 * k + (IF stage = "reset" THEN 1 ELSE 0) <= Depth
                        => n <= Depth /\ n + 2 * k <= Depth
  BY SizeFacts
<1>5. /\ ignored \in Seq(Nat) /\ otepspr \in BOOLEAN /\ Len(ignored) \in Nat
      /\ Len(ignored) + Pending <= 2 + MaxSuspends /\ Pending \in Nat
  <2>1. /\ ignored \in Seq(Nat) /\ otepspr \in BOOLEAN /\ asked \in BOOLEAN
        /\ suspends \in 0 .. MaxSuspends /\ Len(ignored) + Pending <= 1 + Own
    BY DEF PipeInv, Beside
  <2>2. Own \in Nat /\ Own <= 1 + MaxSuspends /\ Pending \in Nat /\ Len(ignored) \in Nat
    BY <2>1, SizeFacts DEF Own, Pending
  <2>. QED BY <2>1, <2>2, SizeFacts
<1>6. Len(Coming) + Len(ignored) + Pending <= EventDepth
  BY <1>1, <1>2, <1>3, <1>4, <1>5, SizeFacts
<1>. QED BY <1>1, <1>2, <1>3, <1>4, <1>5, <1>6 DEF HasRoom

\* An event for which Room leaves place.
LEMMA PushInRoom ==
    ASSUME PipeInv, NEW e \in Events, Push(<<e>>, FALSE, <<>>), Len(evq) + 1 <= Depth
    PROVE  evq' = evq \o <<e>> /\ evq' \in Seq(Events) /\ ~lost' /\ ignored' = ignored
<1>1. PipeTypeOK /\ ignored \in Seq(Nat) /\ Len(evq) \in Nat /\ Len(ignored) <= 2 + MaxSuspends
  <2>1. /\ PipeTypeOK /\ ignored \in Seq(Nat) /\ otepspr \in BOOLEAN /\ asked \in BOOLEAN
        /\ suspends \in 0 .. MaxSuspends /\ Len(ignored) + Pending <= 1 + Own
    BY DEF PipeInv, TransferInv, Beside
  <2>2. Own \in Nat /\ Own <= 1 + MaxSuspends /\ Pending \in Nat /\ Len(ignored) \in Nat
    BY <2>1, SizeFacts DEF Own, Pending
  <2>3. Len(evq) \in Nat
    BY <2>1 DEF PipeTypeOK
  <2>. QED BY <2>1, <2>2, <2>3, SizeFacts
<1>2. Len(evq) + Len(ignored) + 1 <= EventDepth
  <2>1. Len(ignored) \in Nat
    BY <1>1
  <2>. QED BY <1>1, <2>1, SizeFacts
<1>. QED BY <1>1, <1>2, PushOne

\* A packet for the host and an event for the core are never there at once.
LEMMA ArmedIsLast ==
    ASSUME PipeInv, InTransfer, Armed
    PROVE  Coming = <<>>
<1>1. ASSUME NEW n, Announced(n) PROVE FALSE
  BY <1>1 DEF Announced, Overtaken
<1>2. ASSUME NEW n, Over(n) PROVE FALSE
  BY <1>2 DEF Over
<1>3. ~Receiving
  BY DEF Receiving
<1>4. ~Responding
  BY DEF Responding, Overtaken
<1>5. Executed
  BY <1>1, <1>2, <1>3, <1>4 DEF PipeInv, TransferInv, Protocol
<1>. QED BY <1>5 DEF Executed, Refusal, StatusIn, Loaded, Fetched, Delivered, Stuck

\* A packet popped from the receive FIFO is still the same packet in flight.
LEMMA PopKeepsFlight ==
    ASSUME OrdinaryUse, PipeInv, rxq # <<>>, PopRxq(Head(rxq)), UNCHANGED <<stage, request>>
    PROVE  /\ InFlight' = InFlight
           /\ \A i \in 1 .. InFlight : Flying(i)' = Flying(i)
           /\ RxqShape' /\ rxq' \in Seq(Entries)
<1>1. PipeTypeOK /\ RxqShape /\ rxq' = Tail(rxq)
  BY DEF PipeInv, TransferInv, Wire, PopRxq
<1>2. RxqShape' /\ rxq' \in Seq(Entries)
  <2>1. RxqShape'
    BY <1>1, PopShape DEF RxqShape
  <2>. QED BY <1>1, <2>1, PopShape
<1>3. /\ DataPending' <=> \/ Len(rxq') = 2 /\ Kind(1)' = "data"
                          \/ Len(rxq') = 3 /\ Kind(2)' = "data"
      /\ Len(rxq') = 2 => Newest' = rxq'[1]
      /\ Len(rxq') = 3 => Newest' = rxq'[2]
  <2>1. (/\ DataPending <=> \/ Len(rxq) = 2 /\ Kind(1) = "data"
                            \/ Len(rxq) = 3 /\ Kind(2) = "data"
         /\ Len(rxq) = 2 => Newest = rxq[1]
         /\ Len(rxq) = 3 => Newest = rxq[2])'
    BY <1>2, PendingFacts, PTL
  <2>. QED BY <2>1
<1>4. /\ DataPending <=> \/ Len(rxq) = 2 /\ Kind(1) = "data"
                         \/ Len(rxq) = 3 /\ Kind(2) = "data"
      /\ Len(rxq) = 2 => Newest = rxq[1]
      /\ Len(rxq) = 3 => Newest = rxq[2]
  BY <1>1, PendingFacts
<1>5. /\ InFlight = Len(queue[0]) + (IF InTransfer /\ DataPending THEN 1 ELSE 0)
      /\ InFlight' = Len(queue'[0]) + (IF InTransfer /\ DataPending' THEN 1 ELSE 0)
      /\ InTransfer' = InTransfer
  BY DEF InFlight, InTransfer
<1>6. CASE Kind(1) = "data" /\ Len(rxq) = 2 /\ InTransfer
  <2>1. /\ InFlight = Len(queue[0]) + 1 /\ Newest = rxq[1]
        /\ packet' = [packet EXCEPT ![active[0]] = rxq[1].units]
        /\ queue'[0] = Append(queue[0], active[0])
    BY <1>6, PopData
  <2>2. ~DataPending'
    <3>1. Len(rxq') = 1
      BY <1>1, <1>6, PopShape, SmallLengths
    <3>. QED BY <1>3, <3>1, SmallLengths
  <2>. DEFINE q == queue[0]  a == active[0]
  <2>3. /\ q \in Seq(Buffers) /\ Len(q) \in Nat /\ a \in Buffers
        /\ \A i \in 1 .. Len(q) : q[i] \in Buffers /\ q[i] # a
        /\ packet \in [Buffers -> Seq(Units)]
    BY QueueFacts DEF PipeInv, TransferInv, Room, PipeTypeOK
  <2>4. Len(queue'[0]) = Len(q) + 1 /\ queue'[0][Len(q) + 1] = a
        /\ \A i \in 1 .. Len(q) : queue'[0][i] = q[i]
    BY <2>1, <2>3, AppendProperties
  <2>5. InFlight' = InFlight
    <3>1. InFlight' = Len(queue'[0]) + 0
      BY <1>5, <2>2
    <3>. QED BY <2>1, <2>3, <2>4, <3>1
  <2>6. ASSUME NEW i \in 1 .. InFlight PROVE Flying(i)' = Flying(i)
    <3>1. Flying(i)' = IF i <= Len(queue'[0]) THEN packet'[queue'[0][i]] ELSE Newest'.units
      BY DEF Flying
    <3>2. Flying(i) = IF i <= Len(q) THEN packet[q[i]] ELSE Newest.units
      BY DEF Flying
    <3>3. CASE i <= Len(q)
      <4>1. i \in 1 .. Len(q) /\ i <= Len(q) + 1
        BY <2>1, <2>3, <3>3
      <4>2. packet'[q[i]] = packet[q[i]] /\ queue'[0][i] = q[i]
        BY <2>1, <2>3, <2>4, <4>1
      <4>. QED BY <2>4, <3>1, <3>2, <3>3, <4>1, <4>2
    <3>4. CASE ~(i <= Len(q))
      <4>1. i = Len(q) + 1 /\ i <= Len(q) + 1
        BY <2>1, <2>3, <3>4
      <4>2. packet'[a] = rxq[1].units
        BY <2>1, <2>3
      <4>. QED BY <2>1, <2>4, <3>1, <3>2, <3>4, <4>1, <4>2
    <3>. QED BY <3>3, <3>4
  <2>. QED BY <1>2, <2>5, <2>6
<1>7. CASE ~(Kind(1) = "data" /\ Len(rxq) = 2 /\ InTransfer)
  <2>1. UNCHANGED <<queue, packet>>
    <3>1. CASE Kind(1) = "data"
      BY <1>7, <3>1, PopData DEF mgrVars
    <3>2. CASE Kind(1) # "data"
      BY <3>2, PopOther DEF mgrVars
    <3>. QED BY <3>1, <3>2
  <2>2. InTransfer => (DataPending' <=> DataPending) /\ (DataPending => Newest' = Newest)
    <3>. HAVE InTransfer
    <3>1. CASE Len(rxq) = 1 /\ Len(rxq') = 0
      BY <1>3, <1>4, <3>1, SmallLengths
    <3>2. CASE Len(rxq) = 2 /\ Kind(1) = "setup" /\ Len(rxq') = 1
      BY <1>3, <1>4, <3>2, SmallLengths
    <3>3. CASE /\ Len(rxq) = 3 /\ Kind(2) = "data"
               /\ Len(rxq') = 2 /\ Kind(1)' = "data" /\ rxq'[1] = rxq[2]
      BY <1>3, <1>4, <3>3, SmallLengths
    <3>4. CASE /\ Len(rxq) = 3 /\ Kind(2) = "setup"
               /\ Len(rxq') = 2 /\ Kind(1)' = "setup"
      BY <1>3, <1>4, <3>4, SmallLengths
    <3>5. CASE Len(rxq) = 4 /\ Len(rxq') = 3 /\ Kind(2)' = "setup"
      BY <1>3, <1>4, <3>5, SmallLengths
    <3>6. ~(Kind(1) = "data" /\ Len(rxq) = 2)
      BY <1>7
    <3>. QED BY <1>1, <3>1, <3>2, <3>3, <3>4, <3>5, <3>6, PopShape
  <2>3. InFlight' = InFlight
    BY <1>5, <2>1, <2>2
  <2>4. ASSUME NEW i \in 1 .. InFlight PROVE Flying(i)' = Flying(i)
    <3>1. Flying(i)' = IF i <= Len(queue[0]) THEN packet[queue[0][i]] ELSE Newest'.units
      BY <2>1 DEF Flying
    <3>2. Flying(i) = IF i <= Len(queue[0]) THEN packet[queue[0][i]] ELSE Newest.units
      BY DEF Flying
    <3>3. i <= Len(queue[0]) \/ (InTransfer /\ DataPending)
      <4>1. CASE InTransfer /\ DataPending
        BY <4>1
      <4>2. CASE ~(InTransfer /\ DataPending)
        <5>1. InFlight = Len(queue[0]) + 0 /\ Len(queue[0]) \in Nat
          BY <1>5, <4>2, QueueFacts DEF PipeInv, TransferInv
        <5>. QED BY <5>1
      <4>. QED BY <4>1, <4>2
    <3>. QED BY <2>2, <3>1, <3>2, <3>3
  <2>. QED BY <1>2, <2>3, <2>4
<1>. QED BY <1>6, <1>7

\* What poll() pops is what the invariant of the receive FIFO expects.
LEMMA PopKeepsWire ==
    ASSUME OrdinaryUse, PipeInv, rxq # <<>>, PopRxq(Head(rxq)), UNCHANGED <<stage, request>>
    PROVE  /\ (SetupPending => InTransfer /\ Newest.setup = request)'
           /\ (DataPending => (Newest.units = <<>> <=> ~InTransfer))'
           /\ (Len(rxq) = 4 => rxq[1].units = <<>>)'
           /\ (InTransfer => (outArmed <=> Len(rxq) = 0 \/ (Len(rxq) = 1 /\ Kind(1) = "outDone")))'
           /\ (\/ InTransfer
               \/ Len(rxq) = 0
               \/ Len(rxq) = 1 /\ Kind(1) = "outDone"
               \/ Len(rxq) = 2 /\ Kind(1) = "data")'
           /\ lastSetup = request \/ SetupPending => lastSetup' = request \/ SetupPending'
<1>1. PipeTypeOK /\ RxqShape /\ rxq' = Tail(rxq)
  BY DEF PipeInv, TransferInv, Wire, PopRxq
<1>2. RxqShape'
  BY PopKeepsFlight
<1>3. /\ SetupPending' <=> \/ Len(rxq') = 2 /\ Kind(1)' = "setup"
                           \/ Len(rxq') = 3 /\ Kind(2)' = "setup"
                           \/ Len(rxq') = 4
      /\ DataPending' <=> \/ Len(rxq') = 2 /\ Kind(1)' = "data"
                          \/ Len(rxq') = 3 /\ Kind(2)' = "data"
      /\ Len(rxq') = 2 => Newest' = rxq'[1]
      /\ Len(rxq') = 3 => Newest' = rxq'[2]
  <2>1. (/\ SetupPending <=> \/ Len(rxq) = 2 /\ Kind(1) = "setup"
                             \/ Len(rxq) = 3 /\ Kind(2) = "setup"
                             \/ Len(rxq) = 4
         /\ DataPending <=> \/ Len(rxq) = 2 /\ Kind(1) = "data"
                            \/ Len(rxq) = 3 /\ Kind(2) = "data"
         /\ Len(rxq) = 2 => Newest = rxq[1]
         /\ Len(rxq) = 3 => Newest = rxq[2])'
    BY <1>2, PendingFacts, PTL
  <2>. QED BY <2>1
<1>4. /\ SetupPending <=> \/ Len(rxq) = 2 /\ Kind(1) = "setup"
                          \/ Len(rxq) = 3 /\ Kind(2) = "setup"
                          \/ Len(rxq) = 4
      /\ DataPending <=> \/ Len(rxq) = 2 /\ Kind(1) = "data"
                         \/ Len(rxq) = 3 /\ Kind(2) = "data"
      /\ Len(rxq) = 2 => Newest = rxq[1]
      /\ Len(rxq) = 3 => Newest = rxq[2]
      /\ Len(rxq) = 4 => Newest = rxq[3]
  BY <1>1, PendingFacts
<1>5. /\ SetupPending => InTransfer /\ Newest.setup = request
      /\ DataPending => (Newest.units = <<>> <=> ~InTransfer)
      /\ InTransfer => (outArmed <=> Len(rxq) = 0 \/ (Len(rxq) = 1 /\ Kind(1) = "outDone"))
      /\ \/ InTransfer
         \/ Len(rxq) = 0
         \/ Len(rxq) = 1 /\ Kind(1) = "outDone"
         \/ Len(rxq) = 2 /\ Kind(1) = "data"
      /\ InTransfer' = InTransfer /\ request' = request
  BY DEF PipeInv, TransferInv, Wire, InTransfer
<1>6. /\ (SetupPending => InTransfer /\ Newest.setup = request)'
           <=> (SetupPending' => InTransfer /\ Newest'.setup = request)
      /\ (DataPending => (Newest.units = <<>> <=> ~InTransfer))'
           <=> (DataPending' => (Newest'.units = <<>> <=> ~InTransfer))
  BY <1>5
<1>7. /\ Kind(1) = "data" => outArmed' = outArmed \/ (InTransfer /\ Len(rxq) = 2 /\ outArmed')
      /\ Kind(1) = "data" /\ InTransfer /\ Len(rxq) = 2 => outArmed'
      /\ Kind(1) = "data" /\ ~(InTransfer /\ Len(rxq) = 2) => outArmed' = outArmed
      /\ Kind(1) = "setupDone" => outArmed'
      /\ Kind(1) \in {"setup", "outDone"} => outArmed' = outArmed
      /\ lastSetup' = IF Kind(1) = "setup" THEN rxq[1].setup ELSE lastSetup
  <2>1. CASE Kind(1) = "data"
    BY <2>1, PopData
  <2>2. CASE Kind(1) # "data"
    BY <2>2, PopOther
  <2>. QED BY <2>1, <2>2
<1>8. CASE Len(rxq) = 1 /\ Kind(1) = "outDone" /\ Len(rxq') = 0
  BY <1>3, <1>4, <1>5, <1>6, <1>7, <1>8, SmallLengths
<1>9. CASE Len(rxq) = 1 /\ Kind(1) = "setupDone" /\ Len(rxq') = 0
  BY <1>3, <1>4, <1>5, <1>6, <1>7, <1>9, SmallLengths
<1>10. CASE /\ Len(rxq) = 2 /\ Kind(1) = "data"
            /\ Len(rxq') = 1 /\ Kind(1)' = "outDone"
  BY <1>3, <1>4, <1>5, <1>6, <1>7, <1>10, SmallLengths
<1>11. CASE /\ Len(rxq) = 2 /\ Kind(1) = "setup"
            /\ Len(rxq') = 1 /\ Kind(1)' = "setupDone"
  BY <1>3, <1>4, <1>5, <1>6, <1>7, <1>11, SmallLengths
<1>12. CASE /\ Len(rxq) = 3 /\ Kind(1) = "outDone" /\ Kind(2) = "data"
            /\ Len(rxq') = 2 /\ Kind(1)' = "data" /\ rxq'[1] = rxq[2]
  BY <1>3, <1>4, <1>5, <1>6, <1>7, <1>12, SmallLengths
<1>13. CASE /\ Len(rxq) = 3 /\ Kind(1) = "outDone" /\ Kind(2) = "setup"
            /\ Len(rxq') = 2 /\ Kind(1)' = "setup" /\ rxq'[1] = rxq[2]
  BY <1>3, <1>4, <1>5, <1>6, <1>7, <1>13, SmallLengths
<1>14. CASE /\ Len(rxq) = 4 /\ Kind(1) = "data"
            /\ Len(rxq') = 3 /\ Kind(1)' = "outDone" /\ Kind(2)' = "setup" /\ rxq'[2] = rxq[3]
  BY <1>3, <1>4, <1>5, <1>6, <1>7, <1>14, SmallLengths
<1>. QED BY <1>1, <1>8, <1>9, <1>10, <1>11, <1>12, <1>13, <1>14, PopShape

\* The phase of a transfer, as long as no one but poll() has moved.
LEMMA PollKeepsProtocol ==
    ASSUME PipeInv, Coming' = Coming, InFlight' = InFlight, InFlight \in Nat,
           UNCHANGED coreVars, UNCHANGED <<stage, request, moved, assigned, resets, ran>>,
           \A i \in 1 .. InFlight : Flying(i)' = Flying(i),
           InTransfer => Armed' = Armed,
           in'.size = in.size, in'.fifo = in.fifo,
           lastSetup = request \/ SetupPending => lastSetup' = request \/ SetupPending'
    PROVE  Protocol' /\ Staged' /\ Addressed' /\ InData'
<1>1. /\ control' = control /\ setup' = setup /\ tx' = tx /\ rx' = rx /\ address' = address
      /\ registered' = registered /\ thread' = thread
      /\ stage' = stage /\ request' = request /\ moved' = moved /\ assigned' = assigned
      /\ resets' = resets /\ ran' = ran
      /\ InTransfer' = InTransfer
  BY DEF coreVars, InTransfer
<1>2. ASSUME NEW k \in Nat, SentOut(k) PROVE SentOut(k)'
  BY <1>1, <1>2 DEF SentOut
<1>3. ASSUME NEW n \in 0 .. 2
      PROVE  /\ Residue(n) => Residue(n)'
             /\ OnlyRx(n) => OnlyRx(n)'
             /\ OnlyBus(n) => OnlyBus(n)'
  BY <1>1 DEF Residue, OnlyRx, OnlyBus
<1>4. ASSUME NEW n \in Nat
      PROVE  Overtaken(n) => Overtaken(n)'
  BY <1>1 DEF Overtaken, OnlyBus
<1>5. ASSUME NEW n \in 0 .. 2, Announced(n) PROVE Announced(n)'
  <2>1. CASE Overtaken(n + 1) /\ InFlight = 0
    <3>1. Overtaken(n + 1)'
      BY <1>4, <2>1
    <3>. QED BY <1>1, <1>3, <1>5, <2>1, <3>1 DEF Announced
  <2>2. CASE /\ InTransfer /\ OnlyRx(n + 1) /\ Len(Coming) = n + 1 + InFlight /\ ~Armed
             /\ IF request.dir = "out" THEN SentOut(0) ELSE InFlight = 0
    <3>1. IF request'.dir = "out" THEN SentOut(0)' ELSE InFlight' = 0
      BY <1>1, <1>2, <2>2
    <3>2. OnlyRx(n + 1)' /\ Len(Coming') = n + 1 + InFlight' /\ ~Armed'
      BY <2>2 DEF OnlyRx
    <3>. QED BY <1>1, <1>3, <1>5, <2>2, <3>1, <3>2 DEF Announced
  <2>. QED BY <1>5, <2>1, <2>2 DEF Announced
<1>6. ASSUME Receiving PROVE Receiving'
  <2>1. request.len - rx.rem \in Nat
    BY <1>6, PipeAssumption DEF Receiving, PipeInv, TransferInv, PipeTypeOK
  <2>2. PICK k \in Nat : k = request.len - rx.rem
    BY <2>1
  <2>3. SentOut(k)
    BY <1>6, <2>2 DEF Receiving
  <2>4. SentOut(k)' /\ k = request'.len - rx'.rem
    BY <1>1, <1>2, <2>2, <2>3
  <2>5. SentOut(request.len - rx.rem)'
    BY <2>4
  <2>6. OnlyRx(0)'
    BY <1>6 DEF Receiving, OnlyRx
  <2>. QED BY <1>1, <1>6, <2>5, <2>6 DEF Receiving
<1>7. ASSUME Responding PROVE Responding'
  BY <1>1, <1>4, <1>7 DEF Responding
<1>8. ASSUME Executed PROVE Executed'
  <2>1. Refusal => Refusal'
    BY <1>1, <1>8 DEF Executed, Refusal
  <2>2. StatusIn => StatusIn'
    BY <1>1, <1>8 DEF Executed, StatusIn
  <2>3. Replying => Replying'
    BY <1>1 DEF Replying, Wanted
  <2>4. Loaded => Loaded'
    BY <1>1, <1>8, <2>3 DEF Executed, Loaded
  <2>5. Fetched => Fetched'
    BY <1>1, <1>8, <2>3 DEF Executed, Fetched
  <2>6. Delivered => Delivered'
    BY <1>1, <1>8, <2>3 DEF Executed, Delivered
  <2>7. Stuck => Stuck'
    BY <1>1, <1>8, <2>3 DEF Executed, Stuck
  <2>. QED BY <1>1, <1>8, <2>1, <2>2, <2>4, <2>5, <2>6, <2>7 DEF Executed
<1>9. ASSUME NEW n \in 0 .. 2, Over(n) PROVE Over(n)'
  <2>1. OnlyBus(n)' /\ (Residue(n) => Residue(n)')
    <3>1. OnlyBus(n)
      BY <1>9 DEF Over
    <3>. QED BY <1>3, <3>1
  <2>. QED BY <1>1, <1>9, <2>1 DEF Over
<1>10. Protocol'
  BY <1>5, <1>6, <1>7, <1>8, <1>9 DEF PipeInv, TransferInv, Protocol
<1>11. Staged'
  BY <1>1 DEF PipeInv, TransferInv, Staged
<1>12. Addressed'
  BY <1>1 DEF PipeInv, TransferInv, Addressed
<1>13. InData'
  BY <1>1 DEF PipeInv, TransferInv, InData, Answering, OnlyBus
<1>. QED BY <1>10, <1>11, <1>12, <1>13

\* A pass of poll() that does not only push an event the core ignores.
Polls == Poll /\ UNCHANGED <<coreVars, hostVars>>

\* What poll() leaves of the types.
LEMMA PollKeepsTypes ==
    ASSUME OrdinaryUse, PipeInv, Polls
    PROVE  PipeTypeOK' /\ PacketsFit' /\ active'[0] # NoBuf
<1>1. PipeTypeOK /\ PacketsFit /\ RxqShape /\ HasRoom /\ Poll /\ active[0] # NoBuf
  BY RoomFacts DEF PipeInv, TransferInv, Wire, Room, Polls
<1>2. /\ control' = control /\ setup' = setup /\ tx' = tx /\ rx' = rx
      /\ registered' = registered /\ thread' = thread
      /\ stage' = stage /\ request' = request /\ moved' = moved
      /\ resets' = resets /\ ran' = ran
  BY DEF Polls, coreVars, hostVars
<1>3. /\ evq' \in Seq(Events) /\ ~lost' /\ ~stall'
      /\ in' = IF "inXfrc" \in flags THEN [in EXCEPT !.nak = TRUE] ELSE in
      /\ \/ rxq # <<>> /\ PopRxq(Head(rxq)) /\ (flags = {} \/ Otghs2)
         \/ /\ rxq = <<>> \/ flags # {}
            /\ flags' = {} /\ UNCHANGED <<mgrVars, packet, rxq, lastSetup, outArmed, crashed>>
  BY <1>1, PollStep
<1>4. /\ in' \in [ena : BOOLEAN, nak : BOOLEAN, size : 0 .. EP0SIZE, fifo : Seq(Units)]
      /\ in'.fifo = in.fifo
  BY <1>1, <1>3 DEF PipeTypeOK
<1>5. /\ packet' \in [Buffers -> Seq(Units)] /\ rxq' \in Seq(Entries)
      /\ lastSetup' \in Setups \cup {NoSetup} /\ outArmed' \in BOOLEAN
      /\ flags' \subseteq Flags /\ (\A f, g \in flags' : f = g)
      /\ ~crashed'
      /\ \A b \in Buffers : Len(packet'[b]) <= EP0SIZE
      /\ active'[0] # NoBuf
  <2>1. CASE flags' = {} /\ UNCHANGED <<mgrVars, packet, rxq, lastSetup, outArmed, crashed>>
    BY <1>1, <2>1 DEF PipeTypeOK, PacketsFit, mgrVars
  <2>2. CASE rxq # <<>> /\ PopRxq(Head(rxq))
    <3>1. rxq' \in Seq(Entries)
      BY <1>2, <2>2, PopKeepsFlight
    <3>2. CASE Kind(1) = "data"
      <4>1. /\ ~crashed' /\ active'[0] # NoBuf /\ UNCHANGED lastSetup /\ flags' = {}
            /\ rxq[1] \in Entries
            /\ IF InTransfer /\ Len(rxq) = 2
               THEN /\ InFlight = Len(queue[0]) + 1
                    /\ Newest = rxq[1] /\ DataPending
                    /\ packet' = [packet EXCEPT ![active[0]] = rxq[1].units]
                    /\ outArmed' = TRUE
               ELSE UNCHANGED <<mgrVars, packet, outArmed>>
        BY <2>2, <3>2, PopData
      <4>2. CASE InTransfer /\ Len(rxq) = 2
        <5>1. Flying(InFlight) = rxq[1].units /\ InFlight > 0 /\ InFlight \in Nat
          <6>1. InFlight = Len(queue[0]) + 1 /\ Len(queue[0]) \in Nat
            BY <4>1, <4>2, QueueFacts DEF PipeInv, TransferInv
          <6>2. ~(InFlight <= Len(queue[0])) /\ InFlight > 0 /\ InFlight \in Nat
            BY <6>1
          <6>. QED BY <4>1, <4>2, <6>2 DEF Flying
        <5>2. Len(rxq[1].units) <= EP0SIZE
          <6>1. PICK k \in Nat : SentOut(k) /\ request.dir = "out"
            BY <4>2, <5>1, FlightPhase
          <6>2. InFlight \in 1 .. InFlight
            BY <5>1
          <6>3. Len(Flying(InFlight)) <= EP0SIZE
            BY <1>1, <5>1, <6>1, <6>2, SentFacts
          <6>. QED BY <5>1, <6>3
        <5>3. rxq[1].units \in Seq(Units)
          BY <4>1 DEF Entries
        <5>. QED BY <1>1, <3>1, <4>1, <4>2, <5>2, <5>3 DEF PipeTypeOK, PacketsFit
      <4>3. CASE ~(InTransfer /\ Len(rxq) = 2)
        BY <1>1, <3>1, <4>1, <4>3 DEF PipeTypeOK, PacketsFit
      <4>. QED BY <4>2, <4>3
    <3>3. CASE Kind(1) # "data"
      <4>1. /\ UNCHANGED <<mgrVars, packet, crashed>>
            /\ rxq[1] \in Entries
            /\ lastSetup' = IF Kind(1) = "setup" THEN rxq[1].setup ELSE lastSetup
            /\ outArmed' = IF Kind(1) = "setupDone" THEN TRUE ELSE outArmed
            /\ flags' = IF Kind(1) = "setupDone" THEN {"stup"}
                        ELSE IF Kind(1) = "outDone" THEN {"outXfrc"} ELSE {}
        BY <2>2, <3>3, PopOther
      <4>2. flags' \subseteq Flags /\ \A f, g \in flags' : f = g
        BY <4>1 DEF Flags
      <4>3. lastSetup' \in Setups \cup {NoSetup} /\ outArmed' \in BOOLEAN
        BY <1>1, <4>1 DEF Entries, PipeTypeOK
      <4>. QED BY <1>1, <3>1, <4>1, <4>2, <4>3 DEF PipeTypeOK, PacketsFit, mgrVars
    <3>. QED BY <3>2, <3>3
  <2>. QED BY <1>3, <2>1, <2>2
<1>. QED BY <1>1, <1>2, <1>3, <1>4, <1>5 DEF PipeTypeOK, PacketsFit

\* poll() is idle while nothing may come.
LEMMA PollNotSilent ==
    ASSUME PipeInv, Polls
    PROVE  ~Silent /\ ~Silent'
<1>1. PipeTypeOK /\ RxqShape /\ HasRoom /\ Poll
  BY RoomFacts DEF PipeInv, TransferInv, Wire, Polls
<1>2. ~Silent
  BY <1>1 DEF Poll, PipeInv, TransferInv, Wire, Beside
<1>3. stage \notin {"detached", "reset"} /\ \A i \in DOMAIN evq : evq[i] \notin Bus
  BY <1>2 DEF Silent
<1>. DEFINE e == EventsOf(flags)
<1>4. /\ e \in Seq(Events) /\ DOMAIN e = 1 .. Len(e) /\ Len(e) \in Nat
      /\ \A i \in DOMAIN e : e[i] \notin Bus
  <2>1. flags \in {{}, {"inXfrc"}, {"stup"}, {"outXfrc"}} /\ e \in Seq(Events)
    BY <1>1, FlagsFacts
  <2>2. e \in {<<>>, <<"EP_TX">>, <<"CTRL_SETUP_PHASE_DONE">>, <<"EP_RX">>}
    BY <2>1, EventsOfFacts
  <2>3. ASSUME NEW v \in {"EP_TX", "CTRL_SETUP_PHASE_DONE", "EP_RX"}
        PROVE  \A i \in DOMAIN <<v>> : <<v>>[i] \notin Bus
    BY DEF Bus
  <2>4. \A i \in DOMAIN <<>> : <<>>[i] \notin Bus
    OBVIOUS
  <2>. HIDE DEF e
  <2>5. \A i \in DOMAIN e : e[i] \notin Bus
    BY <2>2, <2>3, <2>4
  <2>. QED BY <2>1, <2>5, LenProperties
<1>5. evq' = evq \o e /\ stage' = stage /\ evq \in Seq(Events)
  BY <1>1, PollStep DEF Polls, hostVars, PipeTypeOK
<1>. HIDE DEF e
<1>6. ASSUME NEW i \in DOMAIN evq' PROVE evq'[i] \notin Bus
  <2>1. /\ DOMAIN evq' = 1 .. Len(evq) + Len(e) /\ Len(evq) \in Nat /\ DOMAIN evq = 1 .. Len(evq)
        /\ \A j \in 1 .. Len(evq) + Len(e) : evq'[j] = IF j <= Len(evq) THEN evq[j] ELSE e[j - Len(evq)]
    BY <1>4, <1>5, ConcatProperties, LenProperties
  <2>2. CASE i <= Len(evq)
    <3>1. i \in 1 .. Len(evq)
      BY <2>1, <2>2
    <3>. QED BY <1>3, <2>1, <2>2, <3>1
  <2>3. CASE ~(i <= Len(evq))
    <3>1. i - Len(evq) \in 1 .. Len(e)
      BY <1>4, <2>1, <2>3
    <3>. QED BY <1>4, <2>1, <2>3, <3>1
  <2>. QED BY <2>2, <2>3
<1>. QED BY <1>2, <1>3, <1>5, <1>6 DEF Silent

LEMMA PollKeeps ==
    ASSUME OrdinaryUse, PipeInv, Polls
    PROVE  TransferInv'
<1>1. PipeTypeOK /\ RxqShape /\ HasRoom /\ Poll
  BY RoomFacts DEF PipeInv, TransferInv, Wire, Polls
<1>2. /\ UNCHANGED coreVars /\ UNCHANGED <<stage, request, moved, assigned, resets, ran>>
      /\ stage' = stage /\ request' = request /\ resets' = resets
  BY DEF Polls, coreVars, hostVars
<1>3. PipeTypeOK' /\ PacketsFit' /\ active'[0] # NoBuf
  BY PollKeepsTypes
<1>4. Coming' = Coming
  BY <1>1, PollKeepsComing
<1>5. /\ in' = IF "inXfrc" \in flags THEN [in EXCEPT !.nak = TRUE] ELSE in
      /\ \/ rxq # <<>> /\ PopRxq(Head(rxq))
         \/ UNCHANGED <<mgrVars, packet, rxq, lastSetup, outArmed, crashed>>
  BY <1>1, PollStep
<1>6. /\ InFlight' = InFlight
      /\ \A i \in 1 .. InFlight : Flying(i)' = Flying(i)
      /\ RxqShape'
      /\ (SetupPending => InTransfer /\ Newest.setup = request)'
      /\ (DataPending => (Newest.units = <<>> <=> ~InTransfer))'
      /\ (Len(rxq) = 4 => rxq[1].units = <<>>)'
      /\ (InTransfer => (outArmed <=> Len(rxq) = 0 \/ (Len(rxq) = 1 /\ Kind(1) = "outDone")))'
      /\ (\/ InTransfer
          \/ Len(rxq) = 0
          \/ Len(rxq) = 1 /\ Kind(1) = "outDone"
          \/ Len(rxq) = 2 /\ Kind(1) = "data")'
      /\ lastSetup = request \/ SetupPending => lastSetup' = request \/ SetupPending'
  <2>1. CASE rxq # <<>> /\ PopRxq(Head(rxq))
    BY <1>2, <2>1, PopKeepsFlight, PopKeepsWire
  <2>2. CASE UNCHANGED <<mgrVars, packet, rxq, lastSetup, outArmed, crashed>>
    <3>1. /\ rxq' = rxq /\ queue' = queue /\ packet' = packet /\ lastSetup' = lastSetup
          /\ outArmed' = outArmed
      BY <2>2 DEF mgrVars
    <3>2. Wire
      BY DEF PipeInv, TransferInv
    <3>. QED BY <1>2, <3>1, <3>2
             DEF InFlight, Flying, RxqShape, Kind, SetupPending, DataPending, Newest, InTransfer, Wire
  <2>. QED BY <1>5, <2>1, <2>2
<1>7. Wire'
  <2>1. (InTransfer => RxqDepth >= 2)'
    BY <1>2 DEF PipeInv, TransferInv, Wire, InTransfer
  <2>. QED BY <1>6, <2>1, PollNotSilent DEF Wire
<1>8. Room'
  BY <1>2, <1>3, <1>4 DEF PipeInv, TransferInv, Room
<1>9. in'.size = in.size /\ in'.fifo = in.fifo /\ (InTransfer => Armed' = Armed)
  <2>1. CASE "inXfrc" \in flags
    <3>1. InTransfer => ~Armed
      <4>1. Coming # <<>>
        BY <1>1, <2>1, ComingFacts
      <4>. QED BY <4>1, ArmedIsLast
    <3>. QED BY <1>1, <1>5, <2>1, <3>1 DEF Armed, PipeTypeOK
  <2>2. CASE "inXfrc" \notin flags
    BY <1>5, <2>2 DEF Armed
  <2>. QED BY <2>1, <2>2
<1>10. Protocol' /\ Staged' /\ Addressed' /\ InData'
  BY <1>2, <1>4, <1>6, <1>9, PollKeepsProtocol, QueueFacts DEF PipeInv, TransferInv
<1>11. Ep0Inv'
  BY Ep0InvStep DEF PipeInv, TransferInv, Next, DeviceIsr, Polls
<1>. QED BY <1>3, <1>7, <1>8, <1>10, <1>11 DEF PipeInv, TransferInv

-----------------------------------------------------------------------------
(* The core's thread takes an event.                                         *)

\* Bus events are in the event queue as soon as they happen.
LEMMA BusIsQueued ==
    ASSUME PipeTypeOK, RxqShape, NEW i \in 1 .. Len(Coming), Coming[i] \in Bus
    PROVE  i <= Len(evq)
<1>. DEFINE E == Events \ Bus  e == EventsOf(flags)  r == RxEvents(rxq)
<1>1. \A s, t \in Seq(E) : s \o t \in Seq(E)
  <2>. HIDE DEF E
  <2>. QED BY ConcatProperties
<1>2. /\ <<>> \in Seq(E) /\ <<"EP_TX">> \in Seq(E) /\ <<"EP_RX">> \in Seq(E)
      /\ <<"CTRL_SETUP_PHASE_DONE">> \in Seq(E)
  BY DEF Events, Bus
<1>3. e \in Seq(E)
  <2>1. flags \in {{}, {"inXfrc"}, {"stup"}, {"outXfrc"}}
    BY FlagsFacts
  <2>. HIDE DEF E
  <2>. QED BY <1>2, <2>1, EventsOfFacts
<1>4. \A k \in Nat : EvAt(rxq, k) \in Seq(E)
  <2>. HIDE DEF E
  <2>1. ASSUME NEW k \in Nat, k \in DOMAIN rxq PROVE Ev(rxq[k]) \in Seq(E)
    BY <1>2 DEF Ev
  <2>. QED BY <1>2, <2>1 DEF EvAt
<1>5. r \in Seq(E)
  <2>. HIDE DEF E
  <2>1. EvAt(rxq, 3) \o EvAt(rxq, 4) \in Seq(E)
    BY <1>1, <1>4
  <2>2. EvAt(rxq, 2) \o (EvAt(rxq, 3) \o EvAt(rxq, 4)) \in Seq(E)
    BY <1>1, <1>4, <2>1
  <2>. QED BY <1>1, <1>4, <2>2 DEF RxEvents
<1>6. /\ evq \in Seq(Events) /\ e \in Seq(Events) /\ r \in Seq(Events)
      /\ Coming = evq \o (e \o r) /\ e \o r \in Seq(E) /\ e \o r \in Seq(Events)
  <2>1. evq \in Seq(Events) /\ rxq \in Seq(Entries)
    BY DEF PipeTypeOK
  <2>2. e \in Seq(Events) /\ r \in Seq(Events)
    BY <2>1, FlagsFacts, RxEventsFacts
  <2>3. Coming = (evq \o e) \o r
    BY DEF Coming
  <2>. HIDE DEF e, r, E
  <2>4. (evq \o e) \o r = evq \o (e \o r)
    BY <2>1, <2>2, ConcatAssociative
  <2>5. e \o r \in Seq(Events)
    BY <2>2, ConcatProperties
  <2>. QED BY <1>1, <1>3, <1>5, <2>1, <2>2, <2>3, <2>4, <2>5
<1>. DEFINE s == e \o r
<1>7. /\ s \in Seq(Events) /\ Coming = evq \o s /\ Len(s) \in Nat /\ Len(evq) \in Nat
      /\ \A k \in 1 .. Len(s) : s[k] \notin Bus
  <2>1. s \in Seq(E) /\ s \in Seq(Events) /\ Coming = evq \o s
    BY <1>6
  <2>2. \A k \in 1 .. Len(s) : s[k] \in E
    <3>. HIDE DEF s, E
    <3>. QED BY <2>1
  <2>. HIDE DEF s
  <2>. QED BY <1>6, <2>1, <2>2, LenProperties
<1>. HIDE DEF s, e, r, E
<1>8. /\ Len(Coming) = Len(evq) + Len(s)
      /\ \A k \in 1 .. Len(evq) + Len(s) : Coming[k] = IF k <= Len(evq) THEN evq[k] ELSE s[k - Len(evq)]
  BY <1>6, <1>7, ConcatProperties
<1>9. ASSUME ~(i <= Len(evq)) PROVE FALSE
  <2>1. i - Len(evq) \in 1 .. Len(s) /\ i \in 1 .. Len(evq) + Len(s)
    BY <1>7, <1>8, <1>9
  <2>. QED BY <1>7, <1>8, <1>9, <2>1
<1>. QED BY <1>9

\* While a bus event is to come, everything to come is in the event queue.
LEMMA BusIsAll ==
    ASSUME PipeInv, NEW i \in 1 .. Len(Coming), Coming[i] \in Bus
    PROVE  Silent /\ rxq = <<>> /\ flags = {} /\ Coming = evq
<1>1. PipeTypeOK /\ RxqShape
  BY DEF PipeInv, TransferInv, Wire
<1>2. i <= Len(evq) /\ i \in 1 .. Len(evq) /\ Coming[i] = evq[i] /\ i \in DOMAIN evq
  <2>1. i <= Len(evq) /\ Len(evq) \in Nat
    BY <1>1, BusIsQueued, ComingFacts
  <2>2. i \in 1 .. Len(evq)
    BY <2>1
  <2>3. DOMAIN evq = 1 .. Len(evq)
    BY <1>1, LenProperties DEF PipeTypeOK
  <2>. QED BY <1>1, <2>1, <2>2, <2>3, ComingFacts
<1>3. Silent
  BY <1>2 DEF Silent
<1>4. rxq = <<>> /\ flags = {}
  BY <1>3 DEF PipeInv, TransferInv, Wire
<1>. QED BY <1>1, <1>3, <1>4, ComingFacts

\* The core handles an event it acts on.
Handles == HandleEvent /\ UNCHANGED hostVars

\* What every event has in common.
LEMMA EventFrame ==
    ASSUME OrdinaryUse, PipeInv, Handles
    PROVE  /\ Coming # <<>> /\ Len(Coming) \in Nat \ {0} /\ Coming[1] = Head(evq) /\ Taken
           /\ evq' \in Seq(Events) /\ evq # <<>>
           /\ packet' = packet /\ rxq' = rxq /\ lastSetup' = lastSetup /\ flags' = flags
           /\ lost' = lost /\ crashed' = crashed
           /\ stage' = stage /\ request' = request /\ moved' = moved /\ assigned' = assigned
           /\ resets' = resets /\ ran' = ran
           /\ thread = "loop" /\ InTransfer' = InTransfer
           /\ DataPending' = DataPending /\ SetupPending' = SetupPending /\ Newest' = Newest
           /\ (InTransfer => outArmed' = outArmed) => Wire'
           /\ active' = active => Room'
<1>1. PipeTypeOK /\ RxqShape
  BY DEF PipeInv, TransferInv, Wire
<1>2. /\ packet' = packet /\ rxq' = rxq /\ lastSetup' = lastSetup /\ flags' = flags
      /\ lost' = lost /\ crashed' = crashed /\ evq # <<>> /\ evq' = Tail(evq)
      /\ thread = "loop"
  BY DEF Handles, HandleEvent
<1>3. /\ stage' = stage /\ request' = request /\ moved' = moved /\ assigned' = assigned
      /\ resets' = resets /\ ran' = ran
      /\ InTransfer' = InTransfer
  BY DEF Handles, hostVars, InTransfer
<1>4. Coming # <<>> /\ Len(Coming) \in Nat \ {0} /\ Coming[1] = Head(evq) /\ Taken
  BY <1>1, <1>2, EventTakesComing
<1>5. /\ evq' \in Seq(Events) /\ DOMAIN evq' = 1 .. Len(evq) - 1 /\ Len(evq) \in Nat \ {0}
      /\ \A i \in 1 .. Len(evq) - 1 : evq'[i] = evq[i + 1]
      /\ DOMAIN evq = 1 .. Len(evq)
  <2>1. evq \in Seq(Events)
    BY <1>1 DEF PipeTypeOK
  <2>. QED BY <1>2, <2>1, HeadTailProperties, EmptySeq, LenProperties
<1>6. DataPending' = DataPending /\ SetupPending' = SetupPending /\ Newest' = Newest
  BY <1>2 DEF DataPending, SetupPending, Newest
<1>7. Silent' => Silent
  <2>1. \A i \in DOMAIN evq' : i + 1 \in DOMAIN evq /\ evq'[i] = evq[i + 1]
    BY <1>5
  <2>. QED BY <1>3, <2>1 DEF Silent
<1>8. (InTransfer => outArmed' = outArmed) => Wire'
  <2>. HAVE InTransfer => outArmed' = outArmed
  <2>1. Wire
    BY DEF PipeInv, TransferInv
  <2>. QED BY <1>2, <1>3, <1>6, <1>7, <2>1 DEF Wire, RxqShape, Kind
<1>9. active' = active => Room'
  <2>. HAVE active' = active
  <2>1. Len(Coming') = Len(Coming) - 1
    BY <1>4 DEF Taken
  <2>2. active[0] # NoBuf /\ Len(Coming) + 2 * (MaxResets - resets) + (IF stage = "reset" THEN 1 ELSE 0) <= Depth
    BY DEF PipeInv, TransferInv, Room
  <2>3. MaxResets - resets \in Nat
    BY RoomFacts
  <2>4. \A n \in Nat, k \in Nat, b \in {0, 1} : n + 2 * k + b <= Depth => n - 1 + 2 * k + b <= Depth
    BY SizeFacts
  <2>5. Len(Coming) - 1 + 2 * (MaxResets - resets) + (IF stage = "reset" THEN 1 ELSE 0) <= Depth
    BY <1>4, <2>2, <2>3, <2>4
  <2>. QED BY <1>3, <2>1, <2>2, <2>5 DEF Room
<1>. QED BY <1>2, <1>3, <1>4, <1>5, <1>6, <1>8, <1>9

\* The host transfers only while the bus is quiet.
LEMMA NoBusInTransfer ==
    ASSUME PipeInv, InTransfer, Coming # <<>>
    PROVE  Coming[1] \notin Bus
<1>1. ASSUME NEW n \in 0 .. 2, Announced(n) PROVE Coming[1] \notin Bus
  <2>1. Residue(n) /\ Coming[n + 1] = "CTRL_SETUP_PHASE_DONE" /\ (n = 0 => n + 1 = 1)
    BY <1>1 DEF Announced
  <2>. QED BY <2>1 DEF Residue, Bus
<1>2. ASSUME NEW n, Over(n) PROVE FALSE
  BY <1>2 DEF Over
<1>3. ASSUME Receiving PROVE Coming[1] \notin Bus
  <2>1. Len(Coming) \in Nat /\ Len(Coming) # 0
    BY RoomFacts, EmptySeq
  <2>2. 1 \in 0 + 1 .. Len(Coming)
    BY <2>1
  <2>. QED BY <1>3, <2>2 DEF Receiving, OnlyRx, Bus
<1>4. ~Responding
  BY DEF Responding, Overtaken
<1>5. ASSUME Executed PROVE Coming[1] \notin Bus
  BY <1>5 DEF Executed, Refusal, StatusIn, Loaded, Fetched, Delivered, Stuck, Bus
<1>. QED BY <1>1, <1>2, <1>3, <1>4, <1>5 DEF PipeInv, TransferInv, Protocol

\* What an event leaves alone, whatever it is.
LEMMA EventKeepsRest ==
    ASSUME OrdinaryUse, PipeInv, Handles
    PROVE  /\ Ep0Inv' /\ PacketsFit' /\ Staged' /\ Addressed' /\ resets \in Nat \ {0}
           /\ InTransfer => Head(evq) \notin Bus
<1>1. /\ Coming # <<>> /\ Len(Coming) \in Nat \ {0} /\ Coming[1] = Head(evq) /\ Taken
      /\ packet' = packet
      /\ stage' = stage /\ request' = request /\ moved' = moved /\ assigned' = assigned
      /\ resets' = resets /\ ran' = ran
      /\ InTransfer' = InTransfer
  BY EventFrame
<1>2. Ep0Inv'
  BY Ep0InvStep DEF PipeInv, TransferInv, Next, DeviceEvent, Handles
<1>3. PacketsFit'
  BY <1>1 DEF PipeInv, TransferInv, PacketsFit
<1>4. resets \in Nat \ {0}
  BY <1>1, RoomFacts DEF PipeInv, TransferInv, Staged
<1>5. Staged'
  BY <1>1, <1>4 DEF PipeInv, TransferInv, Staged
<1>6. InTransfer => Head(evq) \notin Bus
  BY <1>1, NoBusInTransfer
<1>7. address' = IF Head(evq) = "RESET" THEN 0 ELSE address
  BY DEF Handles, HandleEvent, HandleReset
<1>8. DOMAIN Coming = 1 .. Len(Coming) /\ DOMAIN Coming' = 1 .. Len(Coming) - 1
      /\ \A i \in 1 .. Len(Coming) - 1 : Coming'[i] = Coming[i + 1]
  <2>1. Coming \in Seq(Events) /\ Coming' \in Seq(Events) /\ Len(Coming') = Len(Coming) - 1
    BY <1>1, RoomFacts DEF Taken
  <2>. QED BY <1>1, <2>1, LenProperties DEF Taken
<1>9. Addressed'
  <2>1. CASE InTransfer
    <3>1. Head(evq) # "RESET"
      BY <1>6, <2>1 DEF Bus
    <3>. QED BY <1>1, <1>7, <2>1, <3>1 DEF PipeInv, TransferInv, Addressed
  <2>2. CASE ~InTransfer
    <3>1. IF \E i \in DOMAIN Coming : Coming[i] = "RESET" THEN assigned = 0 ELSE address = assigned
      BY <2>2 DEF PipeInv, TransferInv, Addressed
    <3>2. ASSUME NEW i \in DOMAIN Coming', Coming'[i] = "RESET"
          PROVE  assigned = 0
      <4>1. i + 1 \in DOMAIN Coming /\ Coming[i + 1] = "RESET"
        BY <1>1, <1>8, <3>2
      <4>. QED BY <3>1, <4>1
    <3>3. ASSUME ~\E i \in DOMAIN Coming' : Coming'[i] = "RESET"
          PROVE  address' = assigned
      <4>1. CASE Head(evq) = "RESET"
        <5>1. 1 \in DOMAIN Coming /\ Coming[1] = "RESET"
          BY <1>1, <1>8, <4>1
        <5>. QED BY <1>7, <3>1, <4>1, <5>1
      <4>2. CASE Head(evq) # "RESET"
        <5>1. ASSUME NEW i \in DOMAIN Coming, Coming[i] = "RESET" PROVE FALSE
          <6>1. i # 1
            BY <1>1, <4>2, <5>1
          <6>2. i - 1 \in 1 .. Len(Coming) - 1 /\ (i - 1) + 1 = i
            BY <1>1, <1>8, <6>1
          <6>3. i - 1 \in DOMAIN Coming' /\ Coming'[i - 1] = Coming[i]
            BY <1>8, <6>2
          <6>. QED BY <3>3, <5>1, <6>3
        <5>. QED BY <1>7, <3>1, <4>2, <5>1
      <4>. QED BY <4>1, <4>2
    <3>. QED BY <1>1, <2>2, <3>2, <3>3 DEF Addressed
  <2>. QED BY <2>1, <2>2
<1>. QED BY <1>2, <1>3, <1>4, <1>5, <1>6, <1>9

\* What the events behind the first are.
LEMMA TakenFacts ==
    ASSUME Taken, Len(Coming) \in Nat \ {0}, UNCHANGED <<stage, resets>>
    PROVE  /\ \A n \in Nat : /\ OnlyRx(n + 1) => OnlyRx(n)'
                             /\ OnlyBus(n + 1) => OnlyBus(n)'
                             /\ Overtaken(n + 1) => Overtaken(n)'
           /\ OnlyRx(0) => OnlyRx(0)'
           /\ OnlyBus(0) => OnlyBus(0)'
<1>1. /\ Len(Coming') = Len(Coming) - 1
      /\ \A i \in 1 .. Len(Coming) - 1 : Coming'[i] = Coming[i + 1]
      /\ InTransfer' = InTransfer
  BY DEF Taken, InTransfer
<1>2. ASSUME NEW n \in Nat, NEW i \in n + 1 .. Len(Coming')
      PROVE  Coming'[i] = Coming[i + 1] /\ i + 1 \in n + 1 + 1 .. Len(Coming) /\ i + 1 \in n + 1 .. Len(Coming)
  <2>1. i \in 1 .. Len(Coming) - 1
    BY <1>1
  <2>. QED BY <1>1, <2>1
<1>3. ASSUME NEW n \in Nat PROVE OnlyRx(n + 1) => OnlyRx(n)'
  BY <1>2 DEF OnlyRx
<1>4. ASSUME NEW n \in Nat PROVE OnlyBus(n + 1) => OnlyBus(n)'
  BY <1>2 DEF OnlyBus
<1>5. ASSUME NEW n \in Nat, Overtaken(n + 1) PROVE Overtaken(n)'
  <2>1. ~InTransfer /\ resets > 1 /\ Len(Coming) > n + 1 /\ Coming[(n + 1) + 1] = "RESET" /\ OnlyBus(n + 1)
    BY <1>5 DEF Overtaken
  <2>2. n + 1 \in 1 .. Len(Coming) - 1 /\ Len(Coming') > n
    BY <1>1, <2>1
  <2>. QED BY <1>1, <1>4, <2>1, <2>2 DEF Overtaken
<1>6. OnlyRx(0) => OnlyRx(0)'
  BY <1>2 DEF OnlyRx
<1>7. OnlyBus(0) => OnlyBus(0)'
  BY <1>2 DEF OnlyBus
<1>. QED BY <1>3, <1>4, <1>5, <1>6, <1>7

\* What is left to show of each event.
Kept == /\ PipeTypeOK' /\ Protocol' /\ InData'
        /\ active' = active /\ (InTransfer => outArmed' = outArmed)

LEMMA EventKeepsIfKept ==
    ASSUME OrdinaryUse, PipeInv, Handles, Kept
    PROVE  TransferInv'
  BY EventFrame, EventKeepsRest DEF Kept, PipeInv, TransferInv

\* OUT data in flight stays so.
LEMMA FlightFrame ==
    ASSUME UNCHANGED <<queue, packet, rxq, stage, request, moved>>, Ep0Inv
    PROVE  /\ InFlight' = InFlight /\ InFlight \in Nat
           /\ \A i \in 1 .. InFlight : Flying(i)' = Flying(i)
           /\ \A k \in Nat : SentOut(k) => SentOut(k)'
<1>1. InFlight' = InFlight /\ InFlight \in Nat
  BY QueueFacts DEF InFlight, InTransfer, DataPending, Newest
<1>2. \A i \in 1 .. InFlight : Flying(i)' = Flying(i)
  BY DEF Flying, Newest
<1>3. ASSUME NEW k \in Nat, SentOut(k) PROVE SentOut(k)'
  BY <1>1, <1>2, <1>3 DEF SentOut
<1>. QED BY <1>1, <1>2, <1>3

\* The events that end the transfer before.
LEMMA ResidueStep ==
    ASSUME OrdinaryUse, PipeInv, Handles, registered,
           NEW n \in {1, 2}, Len(Coming) >= n, Residue(n)
    PROVE  /\ Residue(n - 1)'
           /\ UNCHANGED <<mgrVars, in, stall, setup, tx, outArmed, registered, thread>>
           /\ control' \in ControlStates
           /\ n = 1 => control' = "IDLE"
           /\ rx' \in {rx, [buf |-> <<>>, rem |-> 0]}
<1>1. Coming[1] = Head(evq) /\ Taken /\ Len(Coming) \in Nat \ {0}
  BY EventFrame
<1>2. ASSUME Head(evq) = "EP_TX"
      PROVE  /\ HandleEp0Tx /\ UNCHANGED <<outArmed, registered>>
  BY <1>2 DEF Handles, HandleEvent
<1>3. ASSUME Head(evq) = "EP_RX"
      PROVE  /\ HandleEp0Rx /\ UNCHANGED <<outArmed, registered>>
  BY <1>3 DEF Handles, HandleEvent
<1>4. CASE n = 1 /\ Coming[1] = "EP_TX" /\ control = "STATUS_IN"
  <2>1. control' = "IDLE" /\ UNCHANGED <<mgrVars, in, stall, setup, tx, rx, outArmed, registered, thread>>
    BY <1>1, <1>2, <1>4 DEF HandleEp0Tx
  <2>2. Residue(0)'
    BY DEF Residue
  <2>. QED BY <1>4, <2>1, <2>2 DEF ControlStates
<1>5. CASE n = 1 /\ Coming[1] = "EP_RX" /\ control = "STATUS_OUT"
  <2>1. /\ control' = "IDLE" /\ rx' = [buf |-> <<>>, rem |-> 0]
        /\ UNCHANGED <<mgrVars, in, stall, setup, tx, outArmed, registered, thread>>
    BY <1>1, <1>3, <1>5 DEF HandleEp0Rx, StatusOut
  <2>2. Residue(0)'
    BY DEF Residue
  <2>. QED BY <1>5, <2>1, <2>2 DEF ControlStates
<1>6. CASE n = 2 /\ Coming[1] = "EP_TX" /\ Coming[2] = "EP_RX" /\ control = "TXCOMP"
  <2>1. control' = "STATUS_OUT" /\ UNCHANGED <<mgrVars, in, stall, setup, tx, rx, outArmed, registered, thread>>
    BY <1>1, <1>2, <1>6 DEF HandleEp0Tx
  <2>2. Coming'[1] = "EP_RX"
    <3>1. 1 \in 1 .. Len(Coming) - 1
      BY <1>1, <1>6
    <3>. QED BY <1>1, <1>6, <3>1 DEF Taken
  <2>3. Residue(1)'
    BY <2>1, <2>2 DEF Residue
  <2>. QED BY <1>6, <2>1, <2>3 DEF ControlStates
<1>7. n # 0
  OBVIOUS
<1>. QED BY <1>4, <1>5, <1>6, <1>7 DEF Residue

LEMMA AnnouncedResidue ==
    ASSUME OrdinaryUse, PipeInv, Handles, NEW n \in {1, 2}, Announced(n)
    PROVE  Kept
<1>1. /\ Coming # <<>> /\ Len(Coming) \in Nat \ {0} /\ Coming[1] = Head(evq) /\ Taken
      /\ evq' \in Seq(Events)
      /\ packet' = packet /\ rxq' = rxq /\ lastSetup' = lastSetup /\ flags' = flags
      /\ lost' = lost /\ crashed' = crashed
      /\ stage' = stage /\ request' = request /\ moved' = moved /\ assigned' = assigned
      /\ resets' = resets /\ ran' = ran
      /\ thread = "loop" /\ InTransfer' = InTransfer
      /\ SetupPending' = SetupPending
  BY EventFrame
<1>2. /\ registered /\ Len(Coming) > n /\ Residue(n) /\ ran[request.id] = 0
      /\ Coming[n + 1] = "CTRL_SETUP_PHASE_DONE" /\ (lastSetup = request \/ SetupPending)
      /\ \/ /\ InTransfer /\ OnlyRx(n + 1) /\ Len(Coming) = n + 1 + InFlight /\ ~Armed
            /\ IF request.dir = "out" THEN SentOut(0) ELSE InFlight = 0
         \/ Overtaken(n + 1) /\ InFlight = 0
  BY DEF Announced
<1>3. /\ Residue(n - 1)'
      /\ UNCHANGED <<mgrVars, in, stall, setup, tx, outArmed, registered, thread>>
      /\ control' \in ControlStates
      /\ rx' \in {rx, [buf |-> <<>>, rem |-> 0]}
  <2>1. Len(Coming) >= n
    BY <1>1, <1>2
  <2>. QED BY <1>2, <2>1, ResidueStep
<1>4. PipeTypeOK'
  <2>1. /\ rx' \in [buf : Seq(Units), rem : Nat]
        /\ Len(rx'.buf) + rx'.rem <= RxMax
    <3>1. CASE rx' = rx
      BY <3>1 DEF PipeInv, TransferInv, PipeTypeOK
    <3>2. CASE rx' = [buf |-> <<>>, rem |-> 0]
      BY <3>2, SizeFacts
    <3>. QED BY <1>3, <3>1, <3>2
  <2>. QED BY <1>1, <1>3, <2>1 DEF PipeInv, TransferInv, PipeTypeOK
<1>5. /\ InFlight' = InFlight /\ InFlight \in Nat
      /\ SentOut(0) => SentOut(0)'
      /\ Armed' = Armed
  <2>1. UNCHANGED <<queue, packet, rxq, stage, request, moved>>
    BY <1>1, <1>3 DEF mgrVars
  <2>. QED BY <1>3, <2>1, FlightFrame DEF Armed, PipeInv, TransferInv
<1>6. /\ Len(Coming') > n - 1 /\ Coming'[(n - 1) + 1] = "CTRL_SETUP_PHASE_DONE"
      /\ Len(Coming') = Len(Coming) - 1
      /\ (n - 1) + 1 = n /\ n - 1 \in 0 .. 2 /\ n \in Nat
  <2>1. n \in 1 .. Len(Coming) - 1 /\ (n - 1) + 1 = n /\ n - 1 \in 0 .. 2
    BY <1>1, <1>2
  <2>. QED BY <1>1, <1>2, <2>1 DEF Taken
<1>7. /\ OnlyRx(n + 1) => OnlyRx(n)'
      /\ Overtaken(n + 1) => Overtaken(n)'
  BY <1>1, <1>6, TakenFacts
<1>8. Announced(n - 1)'
  <2>. DEFINE m == n - 1
  <2>1. /\ m + 1 = n /\ Len(Coming') > m /\ Residue(m)' /\ Coming'[m + 1] = "CTRL_SETUP_PHASE_DONE"
    BY <1>3, <1>6
  <2>2. \/ /\ InTransfer' /\ OnlyRx(m + 1)' /\ Len(Coming') = m + 1 + InFlight' /\ ~Armed'
           /\ IF request'.dir = "out" THEN SentOut(0)' ELSE InFlight' = 0
        \/ Overtaken(m + 1)' /\ InFlight' = 0
    <3>1. ASSUME Len(Coming) = n + 1 + InFlight PROVE Len(Coming') = n + InFlight
      BY <1>5, <1>6, <3>1
    <3>. QED BY <1>1, <1>2, <1>5, <1>7, <2>1, <3>1
  <2>3. thread' = "loop" /\ registered' /\ ran'[request'.id] = 0 /\ (lastSetup' = request' \/ SetupPending')
    BY <1>1, <1>2, <1>3
  <2>. HIDE DEF m
  <2>4. Announced(m)'
    BY <2>1, <2>2, <2>3 DEF Announced
  <2>. QED BY <2>4 DEF m
<1>9. Protocol'
  BY <1>6, <1>8 DEF Protocol
<1>10. InData'
  <2>1. CASE InTransfer
    BY <1>1, <1>3, <1>5, <2>1 DEF PipeInv, TransferInv, InData, Answering
  <2>2. CASE ~InTransfer
    BY <1>1, <1>2, <2>2 DEF InData, Overtaken, PipeInv, TransferInv, PipeTypeOK
  <2>. QED BY <2>1, <2>2
<1>. QED BY <1>3, <1>4, <1>9, <1>10 DEF Kept, mgrVars

\* The setup packet the interrupt read last is the one of the current transfer.
LEMMA SetupWasRead ==
    ASSUME OrdinaryUse, PipeInv, Handles, Announced(0)
    PROVE  lastSetup = request
<1>1. lastSetup = request \/ SetupPending
  BY DEF Announced
<1>2. ASSUME SetupPending PROVE FALSE
  <2>1. PipeTypeOK /\ RxqShape /\ InTransfer
    BY <1>2 DEF PipeInv, TransferInv, Wire
  <2>2. rxq # <<>> /\ LastEvent = "CTRL_SETUP_PHASE_DONE"
    <3>1. \/ Len(rxq) = 2 /\ Kind(1) = "setup"
          \/ Len(rxq) = 3 /\ Kind(2) = "setup"
          \/ Len(rxq) = 4
      BY <1>2, <2>1, PendingFacts
    <3>2. Kind(Len(rxq)) = "setupDone" /\ Len(rxq) # 0
      <4>1. CASE Len(rxq) = 2 /\ Kind(1) = "setup"
        BY <2>1, <4>1, SmallLengths DEF RxqShape
      <4>2. CASE Len(rxq) = 3 /\ Kind(2) = "setup"
        BY <2>1, <4>2, SmallLengths DEF RxqShape
      <4>3. CASE Len(rxq) = 4
        BY <2>1, <4>3, SmallLengths DEF RxqShape
      <4>. QED BY <3>1, <4>1, <4>2, <4>3
    <3>3. rxq # <<>>
      BY <3>2, EmptySeq
    <3>. QED BY <3>2, <3>3 DEF LastEvent
  <2>3. Len(evq) < Len(Coming) /\ Coming[Len(Coming)] = "CTRL_SETUP_PHASE_DONE" /\ Len(evq) \in Nat
    BY <2>1, <2>2, ComingFacts
  <2>4. Len(evq) > 0 /\ Len(Coming) \in Nat
    <3>1. evq \in Seq(Events) /\ evq # <<>> /\ Len(Coming) \in Nat
      BY <2>1, EventFrame, RoomFacts DEF PipeTypeOK
    <3>. QED BY <2>3, <3>1, EmptySeq
  <2>5. OnlyRx(1)
    <3>1. 0 + 1 = 1
      OBVIOUS
    <3>. QED BY <2>1, <3>1 DEF Announced, Overtaken
  <2>6. Len(Coming) \in 1 + 1 .. Len(Coming)
    BY <2>3, <2>4
  <2>. QED BY <2>3, <2>5, <2>6 DEF OnlyRx
<1>. QED BY <1>1, <1>2

\* CTRL_SETUP_PHASE_DONE: the transfer is decoded, and executed at once unless it has
\* OUT data.
LEMMA AnnouncedDecode ==
    ASSUME OrdinaryUse, PipeInv, Handles, Announced(0)
    PROVE  Kept
<1>1. /\ Coming # <<>> /\ Len(Coming) \in Nat \ {0} /\ Coming[1] = Head(evq) /\ Taken
      /\ evq' \in Seq(Events)
      /\ packet' = packet /\ rxq' = rxq /\ lastSetup' = lastSetup /\ flags' = flags
      /\ lost' = lost /\ crashed' = crashed
      /\ stage' = stage /\ request' = request /\ moved' = moved /\ assigned' = assigned
      /\ resets' = resets /\ ran' = ran
      /\ thread = "loop" /\ InTransfer' = InTransfer
      /\ resets \in Nat \ {0}
  BY EventFrame, EventKeepsRest
<1>2. /\ registered /\ ran[request.id] = 0 /\ Coming[1] = "CTRL_SETUP_PHASE_DONE"
      /\ \/ /\ InTransfer /\ OnlyRx(1) /\ Len(Coming) = 1 + InFlight /\ ~Armed
            /\ IF request.dir = "out" THEN SentOut(0) ELSE InFlight = 0
         \/ Overtaken(1) /\ InFlight = 0
  <2>1. 0 + 1 = 1
    OBVIOUS
  <2>. QED BY <2>1 DEF Announced
<1>3. Decode /\ UNCHANGED <<outArmed, registered>> /\ lastSetup = request
  BY <1>1, <1>2, SetupWasRead DEF Handles, HandleEvent
<1>4. /\ request \in Setups /\ request.len \in Nat /\ Serviceable(request)
      /\ request.dir = "in" \/ request.dir = "out"
  BY RequestFacts DEF PipeInv, TransferInv, PipeTypeOK
<1>5. /\ setup' = request /\ UNCHANGED mgrVars /\ in' = in /\ tx' = tx /\ stall' = stall
      /\ IF request.dir = "out" /\ request.len > 0
         THEN /\ control' = "RXDATA" /\ thread' = "loop"
              /\ rx' = [buf |-> <<>>, rem |-> request.len]
         ELSE /\ control' = "IDLE" /\ rx' = rx
              /\ thread' = IF request.resp = "INVALID" THEN "loop" ELSE "respond"
  <2>1. request.dir = "out" /\ request.len > 0 => ~(request.len > RxMax) /\ request.resp # "INVALID"
    BY <1>4, SizeFacts DEF Serviceable
  <2>. QED BY <1>1, <1>3, <2>1 DEF Decode
<1>6. PipeTypeOK'
  <2>1. rx' \in [buf : Seq(Units), rem : Nat] /\ Len(rx'.buf) + rx'.rem <= RxMax
    <3>1. CASE request.dir = "out" /\ request.len > 0
      <4>1. request.len <= RxMax
        BY <1>4, <3>1, SizeFacts DEF Serviceable
      <4>2. <<>> \in Seq(Units) /\ Len(<<>>) = 0
        BY EmptySeq
      <4>3. rx'.buf = <<>> /\ rx'.rem = request.len
        BY <1>5, <3>1
      <4>4. Len(rx'.buf) + rx'.rem <= RxMax
        BY <1>4, <4>1, <4>2, <4>3, SizeFacts
      <4>5. rx' \in [buf : Seq(Units), rem : Nat]
        <5>1. rx' = [buf |-> <<>>, rem |-> request.len]
          BY <1>5, <3>1
        <5>. QED BY <1>4, <4>2, <5>1
      <4>. QED BY <4>4, <4>5
    <3>2. CASE ~(request.dir = "out" /\ request.len > 0)
      BY <1>5, <3>2 DEF PipeInv, TransferInv, PipeTypeOK
    <3>. QED BY <3>1, <3>2
  <2>2. control' \in ControlStates /\ thread' \in {"loop", "respond"}
    BY <1>5 DEF ControlStates
  <2>. QED BY <1>1, <1>3, <1>4, <1>5, <2>1, <2>2 DEF PipeInv, TransferInv, PipeTypeOK
<1>7. /\ InFlight' = InFlight /\ InFlight \in Nat
      /\ SentOut(0) => SentOut(0)'
      /\ Armed' = Armed
  <2>1. UNCHANGED <<queue, packet, rxq, stage, request, moved>>
    BY <1>1, <1>5 DEF mgrVars
  <2>. QED BY <1>5, <2>1, FlightFrame DEF Armed, PipeInv, TransferInv
<1>8. /\ Len(Coming') = Len(Coming) - 1
      /\ OnlyRx(1) => OnlyRx(0)'
      /\ Overtaken(1) => Overtaken(0)'
  <2>1. 0 + 1 = 1 /\ 0 \in Nat
    OBVIOUS
  <2>. QED BY <1>1, <2>1, TakenFacts DEF Taken
<1>9. CASE request.dir = "out" /\ request.len > 0
  <2>1. InTransfer /\ OnlyRx(1) /\ Len(Coming) = 1 + InFlight /\ ~Armed /\ SentOut(0)
    <3>1. MaxResets <= 1 /\ resets <= MaxResets
      BY <1>4, <1>9 DEF Serviceable, PipeInv, TransferInv, PipeTypeOK
    <3>2. ~(resets > 1)
      BY <1>1, <3>1, SizeFacts
    <3>. QED BY <1>2, <1>9, <3>2 DEF Overtaken
  <2>2. rx'.rem = request.len /\ rx'.buf = <<>> /\ request.len - request.len = 0
    BY <1>4, <1>5, <1>9
  <2>3. Cut(request, 0, 0) = <<>>
    <3>1. Cut(request, 0, 0) \in Seq(Units) /\ Len(Cut(request, 0, 0)) = 0 - 0
      BY <1>4, CutType
    <3>. QED BY <3>1, EmptySeq
  <2>4. SentOut(request.len - rx.rem)'
    <3>1. request'.len - rx'.rem = 0
      BY <1>1, <2>2
    <3>2. SentOut(0)'
      BY <1>7, <2>1
    <3>. QED BY <3>1, <3>2
  <2>5. Len(Coming') = InFlight' /\ OnlyRx(0)' /\ ~Armed'
    BY <1>7, <1>8, <2>1
  <2>6. rx'.buf = Cut(request', 0, request'.len - rx'.rem)
    BY <1>1, <2>2, <2>3
  <2>7. 0 < rx'.rem /\ rx'.rem <= request'.len
    BY <1>1, <1>4, <1>9, <2>2
  <2>8. Receiving'
    BY <1>1, <1>2, <1>3, <1>5, <1>9, <2>1, <2>4, <2>5, <2>6, <2>7 DEF Receiving
  <2>9. InData'
    BY <1>1, <1>5, <1>7, <2>1 DEF PipeInv, TransferInv, InData, Answering
  <2>. QED BY <1>3, <1>5, <1>6, <2>8, <2>9 DEF Kept, Protocol, mgrVars
<1>10. CASE ~(request.dir = "out" /\ request.len > 0)
  <2>1. InFlight = 0
    <3>1. CASE request.dir = "out" /\ InTransfer
      <4>1. SentOut(0) /\ 0 \in Nat
        BY <1>2, <3>1 DEF Overtaken
      <4>2. InFlight > 0 => request.len > 0
        BY <1>7, <3>1, <4>1, SentFacts DEF PipeInv, TransferInv
      <4>. QED BY <1>7, <1>10, <3>1, <4>2
    <3>2. CASE ~(request.dir = "out" /\ InTransfer)
      BY <1>2, <3>2
    <3>. QED BY <3>1, <3>2
  <2>2. \/ InTransfer' /\ Coming' = <<>> /\ ~Armed'
        \/ Overtaken(0)'
    <3>1. CASE Overtaken(1)
      BY <1>8, <3>1
    <3>2. CASE ~Overtaken(1)
      <4>1. InTransfer /\ Len(Coming) = 1 + InFlight /\ ~Armed
        BY <1>2, <3>2
      <4>2. Len(Coming') = 0
        BY <1>8, <2>1, <4>1
      <4>3. Coming' = <<>>
        BY <1>1, <4>2, EmptySeq DEF Taken
      <4>. QED BY <1>1, <1>7, <4>1, <4>3
    <3>. QED BY <3>1, <3>2
  <2>3. InTransfer /\ request.dir = "out" => stage = "status"
    <3>. HAVE InTransfer /\ request.dir = "out"
    <3>1. Len(moved) <= request.len /\ (stage = "status" <=> Len(moved) = request.len)
      BY DEF PipeInv, TransferInv, Staged
    <3>2. Len(moved) \in Nat
      BY LenProperties DEF PipeInv, TransferInv, PipeTypeOK
    <3>. QED BY <1>4, <1>10, <3>1, <3>2
  <2>4. Responding' \/ Executed' \/ Over(0)'
    <3>1. CASE request.resp # "INVALID"
      BY <1>1, <1>2, <1>3, <1>5, <1>7, <1>10, <2>1, <2>2, <2>3, <3>1 DEF Responding
    <3>2. CASE request.resp = "INVALID" /\ InTransfer /\ ~Overtaken(0)'
      <4>1. Coming' = <<>> /\ ~Armed'
        BY <2>2, <3>2
      <4>2. stage = IF request.dir = "in" THEN "data" ELSE "status"
        BY <1>2, <1>4, <2>3, <3>2 DEF PipeInv, TransferInv, Staged
      <4>3. request.dir = "in" => moved = <<>>
        BY <1>2, <3>2 DEF PipeInv, TransferInv, Staged
      <4>4. Refusal'
        BY <1>1, <1>5, <1>10, <3>2, <4>1, <4>2, <4>3 DEF Refusal
      <4>. QED BY <1>1, <1>2, <1>3, <1>5, <1>7, <1>10, <2>1, <3>2, <4>4 DEF Executed
    <3>3. CASE request.resp = "INVALID" /\ Overtaken(0)'
      <4>1. ~InTransfer' /\ OnlyBus(0)'
        BY <3>3 DEF Overtaken
      <4>. QED BY <1>1, <1>2, <1>3, <1>5, <1>7, <1>8, <1>10, <2>1, <3>3, <4>1 DEF Over, Residue
    <3>. QED BY <1>1, <2>2, <3>1, <3>2, <3>3
  <2>5. InData'
    <3>1. CASE InTransfer
      BY <1>1, <1>5, <1>7, <3>1 DEF PipeInv, TransferInv, InData, Answering
    <3>2. CASE ~InTransfer
      BY <1>1, <1>2, <3>2, SizeFacts DEF InData, Overtaken
    <3>. QED BY <3>1, <3>2
  <2>. QED BY <1>3, <1>5, <1>6, <2>4, <2>5 DEF Kept, Protocol, mgrVars
<1>. QED BY <1>9, <1>10

\* The packet the core takes is the next one in flight.
LEMMA TakesNext ==
    ASSUME OrdinaryUse, PipeInv, Handles, Receiving
    PROVE  /\ queue[0] # <<>> /\ TakeData /\ UNCHANGED <<outArmed, address, registered>>
           /\ Dequeued(0) = queue[0][1] /\ queue'[0] = Tail(queue[0])
           /\ InFlight > 0 /\ InFlight' = InFlight - 1 /\ InFlight \in Nat
           /\ packet[Dequeued(0)] = Flying(1)
           /\ \A i \in 1 .. InFlight - 1 : Flying(i)' = Flying(i + 1)
<1>1. /\ Len(Coming) \in Nat \ {0} /\ Coming[1] = Head(evq) /\ Taken /\ evq # <<>>
      /\ packet' = packet /\ rxq' = rxq /\ InTransfer' = InTransfer
      /\ DataPending' = DataPending /\ Newest' = Newest
  BY EventFrame
<1>2. InTransfer /\ control = "RXDATA" /\ OnlyRx(0) /\ Len(Coming) = InFlight /\ registered
  BY DEF Receiving
<1>3. Head(evq) = "EP_RX"
  <2>1. 1 \in 0 + 1 .. Len(Coming)
    BY <1>1
  <2>. QED BY <1>1, <1>2, <2>1 DEF OnlyRx
<1>4. TakeData /\ UNCHANGED <<outArmed, address, registered>>
  BY <1>2, <1>3 DEF Handles, HandleEvent, HandleEp0Rx
<1>5. queue[0] \in Seq(Buffers) /\ Len(queue[0]) \in Nat /\ InFlight \in Nat
  BY QueueFacts DEF PipeInv, TransferInv
<1>6. queue[0] # <<>>
  <2>. SUFFICES ASSUME queue[0] = <<>> PROVE FALSE
    OBVIOUS
  <2>1. Len(queue[0]) = 0
    BY EmptySeq
  <2>2. InFlight = (IF InTransfer /\ DataPending THEN 1 ELSE 0)
    BY <2>1 DEF InFlight
  <2>3. DataPending /\ InFlight = 1
    BY <1>1, <1>2, <2>2
  <2>4. PipeTypeOK /\ RxqShape
    BY DEF PipeInv, TransferInv, Wire
  <2>5. rxq # <<>>
    <3>1. Len(rxq) >= 2
      BY <2>3 DEF DataPending
    <3>2. Len(<<>>) = 0 /\ ~(0 >= 2)
      BY EmptySeq
    <3>. QED BY <3>1, <3>2
  <2>6. Len(evq) < 1 /\ Len(evq) \in Nat
    BY <1>2, <2>3, <2>4, <2>5, ComingFacts
  <2>. QED BY <1>1, <2>4, <2>6, EmptySeq DEF PipeTypeOK
<1>. DEFINE q == queue[0]
<1>7. /\ Head(q) = q[1] /\ Tail(q) \in Seq(Buffers) /\ Len(Tail(q)) = Len(q) - 1 /\ Len(q) \in Nat \ {0}
      /\ \A i \in 1 .. Len(q) - 1 : Tail(q)[i] = q[i + 1]
  BY <1>5, <1>6, HeadTailProperties, EmptySeq
<1>8. Dequeued(0) = q[1] /\ queue'[0] = Tail(q)
  BY <1>4, <1>6, <1>7, EndpointZero
     DEF TakeData, CanDequeue, Dequeued, DequeueBuffer, PipeInv, TransferInv, Ep0Inv, MgrTypeOK
<1>. DEFINE d == IF InTransfer /\ DataPending THEN 1 ELSE 0
<1>9. InFlight = Len(q) + d /\ InFlight' = Len(queue'[0]) + d /\ d \in {0, 1}
  BY <1>1 DEF InFlight
<1>. HIDE DEF d
<1>10. InFlight > 0 /\ InFlight' = InFlight - 1
  BY <1>7, <1>8, <1>9
<1>11. packet[q[1]] = Flying(1)
  <2>1. 1 <= Len(q)
    BY <1>7
  <2>. QED BY <2>1 DEF Flying
<1>12. ASSUME NEW i \in 1 .. InFlight - 1 PROVE Flying(i)' = Flying(i + 1)
  <2>1. Flying(i)' = IF i <= Len(Tail(q)) THEN packet[Tail(q)[i]] ELSE Newest.units
    BY <1>1, <1>8 DEF Flying
  <2>2. Flying(i + 1) = IF i + 1 <= Len(q) THEN packet[q[i + 1]] ELSE Newest.units
    BY DEF Flying
  <2>3. CASE i <= Len(q) - 1
    <3>1. i \in 1 .. Len(q) - 1 /\ i + 1 <= Len(q) /\ i <= Len(Tail(q))
      BY <1>7, <2>3
    <3>. QED BY <1>7, <2>1, <2>2, <3>1
  <2>4. CASE ~(i <= Len(q) - 1)
    <3>1. ~(i + 1 <= Len(q)) /\ ~(i <= Len(Tail(q)))
      BY <1>7, <2>4
    <3>. QED BY <2>1, <2>2, <3>1
  <2>. QED BY <2>3, <2>4
<1>. QED BY <1>4, <1>5, <1>6, <1>8, <1>10, <1>11, <1>12

\* EP_RX in the data stage: what is taken is the next piece of the payload, and the
\* request is executed when it is complete.
LEMMA ReceivingTakes ==
    ASSUME OrdinaryUse, PipeInv, Handles, Receiving
    PROVE  Kept
<1>1. /\ Len(Coming) \in Nat \ {0} /\ Taken
      /\ evq' \in Seq(Events)
      /\ packet' = packet /\ rxq' = rxq /\ lastSetup' = lastSetup /\ flags' = flags
      /\ lost' = lost /\ crashed' = crashed
      /\ stage' = stage /\ request' = request /\ moved' = moved /\ assigned' = assigned
      /\ resets' = resets /\ ran' = ran
      /\ thread = "loop" /\ InTransfer' = InTransfer
  BY EventFrame
<1>2. /\ queue[0] # <<>> /\ TakeData /\ UNCHANGED <<outArmed, address, registered>>
      /\ InFlight > 0 /\ InFlight' = InFlight - 1 /\ InFlight \in Nat
      /\ packet[Dequeued(0)] = Flying(1)
      /\ \A i \in 1 .. InFlight - 1 : Flying(i)' = Flying(i + 1)
  BY TakesNext
<1>3. /\ registered /\ ran[request.id] = 0 /\ setup = request
      /\ InTransfer /\ request.dir = "out" /\ request.len > 0
      /\ control = "RXDATA" /\ OnlyRx(0) /\ Len(Coming) = InFlight /\ ~Armed
      /\ 0 < rx.rem /\ rx.rem <= request.len
      /\ rx.buf = Cut(request, 0, request.len - rx.rem)
      /\ SentOut(request.len - rx.rem)
  BY DEF Receiving
<1>4. request \in Setups /\ request.len \in Nat /\ rx.rem \in Nat
  BY RequestFacts DEF PipeInv, TransferInv, PipeTypeOK
<1>. DEFINE len == request.len  taken == request.len - rx.rem
            next == Lesser(taken + EP0SIZE, len)
<1>5. /\ taken \in Nat /\ next \in Nat /\ taken < next /\ next <= len /\ taken <= next
      /\ next < len => next = taken + EP0SIZE
      /\ next = len => taken + EP0SIZE >= len
  BY <1>3, <1>4, SizeFacts DEF Lesser
<1>6. /\ At(0) = 0 /\ At(1) = EP0SIZE
      /\ \A k \in Nat : At(k) \in Nat /\ At(k + 1) = At(k) + EP0SIZE
  <2>1. 0 + 1 = 1 /\ 0 \in Nat
    OBVIOUS
  <2>. QED BY <2>1, AtFacts, SizeFacts
<1>7. /\ moved = Cut(request, 0, Lesser(taken + At(InFlight), len))
      /\ \A i \in 1 .. InFlight :
             /\ taken + At(i - 1) < len
             /\ Flying(i) = Cut(request, taken + At(i - 1), Lesser(taken + At(i), len))
  BY <1>3 DEF SentOut
<1>. HIDE DEF taken, next
<1>8. Flying(1) = Cut(request, taken, next) /\ Len(Cut(request, taken, next)) = next - taken
  <2>1. 1 \in 1 .. InFlight /\ 1 - 1 = 0
    BY <1>2
  <2>2. Flying(1) = Cut(request, taken + At(0), Lesser(taken + At(1), len))
    BY <1>7, <2>1
  <2>3. taken + At(0) = taken /\ Lesser(taken + At(1), len) = next
    BY <1>5, <1>6 DEF next
  <2>. QED BY <1>4, <1>5, <2>2, <2>3, CutType
<1>9. rx.rem = len - taken /\ len - taken \in Nat
  BY <1>3, <1>4 DEF taken
<1>10. /\ rx' = [buf |-> Cut(request, 0, next), rem |-> len - next]
       /\ thread' = IF len - next > 0 THEN "loop" ELSE "respond"
       /\ UNCHANGED <<control, stall, active, in, setup, tx>>
  <2>1. CanDequeue(0) /\ ~(rx.rem < Len(packet[Dequeued(0)]))
    <3>1. ~(len - taken < next - taken)
      BY <1>4, <1>5
    <3>2. Len(packet[Dequeued(0)]) = next - taken
      BY <1>2, <1>8
    <3>. QED BY <1>2, <1>9, <3>1, <3>2 DEF CanDequeue
  <2>2. rx' = [buf |-> rx.buf \o packet[Dequeued(0)], rem |-> rx.rem - Len(packet[Dequeued(0)])]
    BY <1>2, <2>1 DEF TakeData
  <2>3. thread' = IF rx.rem > Len(packet[Dequeued(0)]) THEN "loop" ELSE "respond"
    BY <1>2, <2>1 DEF TakeData
  <2>4. UNCHANGED <<control, stall, active, in, setup, tx>>
    BY <1>2, <2>1 DEF TakeData
  <2>5. rx.buf \o Flying(1) = Cut(request, 0, next)
    <3>1. Cut(request, 0, taken) \o Cut(request, taken, next) = Cut(request, 0, next)
      BY <1>4, <1>5, CutJoins
    <3>. QED BY <1>3, <1>8, <3>1 DEF taken
  <2>6. rx.rem - Len(Flying(1)) = len - next /\ (rx.rem > Len(Flying(1)) <=> len - next > 0)
    BY <1>4, <1>5, <1>8, <1>9
  <2>. QED BY <1>2, <2>2, <2>3, <2>4, <2>5, <2>6
<1>11. PipeTypeOK'
  <2>1. Cut(request, 0, next) \in Seq(Units) /\ Len(Cut(request, 0, next)) = next - 0
    BY <1>4, <1>5, CutType
  <2>2. len <= RxMax
    <3>1. Serviceable(request) /\ request.dir = "out" /\ request.len > 0
      BY <1>3, <1>4, RequestFacts
    <3>. QED BY <3>1 DEF Serviceable
  <2>3. len - next \in Nat /\ (next - 0) + (len - next) <= RxMax
    BY <1>4, <1>5, <2>2, SizeFacts
  <2>4. rx' \in [buf : Seq(Units), rem : Nat] /\ Len(rx'.buf) + rx'.rem <= RxMax
    BY <1>10, <2>1, <2>3
  <2>5. thread' \in {"loop", "respond"}
    BY <1>10
  <2>. QED BY <1>1, <1>2, <1>10, <2>4, <2>5 DEF PipeInv, TransferInv, PipeTypeOK
<1>12. InData' /\ Armed' = Armed
  BY <1>1, <1>3, <1>10 DEF PipeInv, TransferInv, InData, Answering, Armed
<1>13. Len(Coming') = InFlight' /\ OnlyRx(0)'
  <2>1. Len(Coming') = Len(Coming) - 1
    BY <1>1 DEF Taken
  <2>2. OnlyRx(0)'
    BY <1>1, <1>3, TakenFacts
  <2>. QED BY <1>2, <1>3, <2>1, <2>2
<1>14. CASE next < len
  <2>1. /\ next = taken + EP0SIZE /\ thread' = "loop"
        /\ rx'.rem = len - next /\ rx'.buf = Cut(request, 0, next)
    BY <1>4, <1>5, <1>10, <1>14
  <2>2. len - rx'.rem = next /\ 0 < rx'.rem /\ rx'.rem <= len
    BY <1>4, <1>5, <1>14, <2>1
  <2>0. PICK m \in Nat : m = next
    BY <1>5
  <2>3. SentOut(m)'
    <3>1. moved' = Cut(request', 0, Lesser(next + At(InFlight'), request'.len))
      <4>1. InFlight - 1 \in Nat /\ (InFlight - 1) + 1 = InFlight
        BY <1>2
      <4>2. At(InFlight) = At(InFlight - 1) + EP0SIZE /\ At(InFlight - 1) \in Nat
        BY <1>6, <4>1
      <4>3. next + At(InFlight - 1) = taken + At(InFlight)
        BY <1>5, <2>1, <4>2, SizeFacts
      <4>. QED BY <1>1, <1>2, <1>7, <4>3
    <3>2. ASSUME NEW i \in 1 .. InFlight - 1
          PROVE  /\ next + At(i - 1) < len
                 /\ Flying(i)' = Cut(request, next + At(i - 1), Lesser(next + At(i), len))
      <4>1. i + 1 \in 1 .. InFlight /\ (i + 1) - 1 = i /\ i - 1 \in Nat /\ (i - 1) + 1 = i /\ i \in Nat
        BY <1>2
      <4>2. /\ taken + At(i) < len
            /\ Flying(i + 1) = Cut(request, taken + At(i), Lesser(taken + At(i + 1), len))
        BY <1>7, <4>1
      <4>3. /\ At(i) = At(i - 1) + EP0SIZE /\ At(i + 1) = At(i) + EP0SIZE
            /\ At(i - 1) \in Nat /\ At(i) \in Nat
        BY <1>6, <4>1
      <4>4. next + At(i - 1) = taken + At(i) /\ next + At(i) = taken + At(i + 1)
        BY <1>5, <2>1, <4>3, SizeFacts
      <4>. QED BY <1>2, <4>2, <4>4
    <3>. QED BY <1>1, <1>2, <2>0, <3>1, <3>2 DEF SentOut
  <2>4. SentOut(request.len - rx.rem)'
    <3>1. request'.len - rx'.rem = m
      BY <1>1, <2>0, <2>2
    <3>. QED BY <2>3, <3>1
  <2>5. rx'.buf = Cut(request', 0, request'.len - rx'.rem) /\ 0 < rx'.rem /\ rx'.rem <= request'.len
    BY <1>1, <2>1, <2>2
  <2>6. Receiving'
    BY <1>1, <1>2, <1>3, <1>10, <1>12, <1>13, <2>1, <2>4, <2>5 DEF Receiving
  <2>. QED BY <1>2, <1>10, <1>11, <1>12, <2>6 DEF Kept, Protocol
<1>15. CASE ~(next < len)
  <2>1. next = len /\ taken + EP0SIZE >= len /\ thread' = "respond"
        /\ rx'.buf = Cut(request, 0, len)
    <3>1. next = len
      BY <1>4, <1>5, <1>15
    <3>2. ~(len - next > 0)
      BY <1>4, <3>1
    <3>. QED BY <1>5, <1>10, <3>1, <3>2
  <2>2. InFlight = 1
    <3>1. ASSUME InFlight > 1 PROVE FALSE
      <4>1. 2 \in 1 .. InFlight /\ 2 - 1 = 1
        BY <1>2, <3>1
      <4>2. taken + At(1) < len
        BY <1>7, <4>1
      <4>. QED BY <1>4, <1>5, <1>6, <2>1, <4>2, SizeFacts
    <3>. QED BY <1>2, <3>1
  <2>3. InFlight' = 0 /\ Coming' = <<>>
    <3>1. InFlight' = 0
      BY <1>2, <2>2
    <3>2. Coming' \in Seq(Events) /\ Len(Coming') = 0
      BY <1>1, <1>13, <3>1 DEF Taken
    <3>. QED BY <3>1, <3>2, EmptySeq
  <2>4. stage = "status"
    <3>1. Lesser(taken + At(InFlight), len) = len
      <4>1. At(InFlight) = EP0SIZE
        BY <1>6, <2>2
      <4>2. taken + EP0SIZE \in Nat /\ taken + EP0SIZE >= len
        BY <1>5, <2>1, SizeFacts
      <4>. QED BY <1>4, <4>1, <4>2 DEF Lesser
    <3>2. Len(moved) = len
      <4>1. 0 <= len
        BY <1>4
      <4>2. Len(Cut(request, 0, len)) = len - 0
        BY <1>4, <4>1, CutType
      <4>. QED BY <1>4, <1>7, <3>1, <4>2
    <3>. QED BY <1>3, <3>2 DEF PipeInv, TransferInv, Staged
  <2>5. Responding'
    <3>1. request.resp # "INVALID"
      <4>1. Serviceable(request)
        BY <1>4 DEF OrdinaryUse
      <4>. QED BY <1>3, <1>4, <4>1 DEF Serviceable
    <3>. QED BY <1>1, <1>2, <1>3, <1>10, <1>12, <2>1, <2>3, <2>4, <3>1 DEF Responding
  <2>. QED BY <1>2, <1>10, <1>11, <1>12, <2>5 DEF Kept, Protocol
<1>. QED BY <1>14, <1>15

\* ep_write of the next packet of t: written as a whole, or not at all.
LEMMA SendDataFacts ==
    ASSUME PipeTypeOK, NEW t \in [buf : Seq(Units), pos : Nat, rem : Nat],
           t.pos + t.rem <= Len(t.buf), Len(t.buf) <= TxMax, SendData(t),
           NEW n, n = Lesser(t.rem, EP0SIZE),
           NEW u, u = SubSeq(t.buf, t.pos + 1, t.pos + n)
    PROVE  /\ n \in Nat /\ n <= t.rem /\ n <= EP0SIZE /\ u \in Seq(Units) /\ Len(u) = n
           /\ n < EP0SIZE => n = t.rem
           /\ Len(in.fifo) + n <= TxFifoRoom
                => /\ in' = [ena |-> TRUE, nak |-> FALSE, size |-> n, fifo |-> in.fifo \o u]
                   /\ tx' = [buf |-> t.buf, pos |-> t.pos + n, rem |-> t.rem - n]
                   /\ control' = AfterPacket(n, t.rem - n)
           /\ ~(Len(in.fifo) + n <= TxFifoRoom)
                => /\ in' = in /\ tx' = t
                   /\ control' = AfterPacket(n, t.rem)
<1>1. n \in Nat /\ n <= t.rem /\ n <= EP0SIZE /\ (n < EP0SIZE => n = t.rem)
  BY SizeFacts DEF Lesser
<1>2. u \in Seq(Units) /\ Len(u) = n
  <2>1. t.buf \in Seq(Units) /\ Len(t.buf) \in Nat /\ t.pos \in Nat /\ t.rem \in Nat
    BY LenProperties
  <2>2. t.pos + 1 \in 1 .. Len(t.buf) + 1 /\ t.pos + n \in 0 .. Len(t.buf)
    <3>1. \A a, b, c, d \in Nat : d <= b /\ a + b <= c => a + 1 \in 1 .. c + 1 /\ a + d \in 0 .. c
      OBVIOUS
    <3>2. t.pos + t.rem <= Len(t.buf)
      OBVIOUS
    <3>. QED BY <1>1, <2>1, <3>1, <3>2
  <2>3. u \in Seq(Units) /\ Len(u) = IF t.pos + 1 <= t.pos + n THEN (t.pos + n) - (t.pos + 1) + 1 ELSE 0
    BY <2>1, <2>2, SubSeqProperties
  <2>4. (IF t.pos + 1 <= t.pos + n THEN (t.pos + n) - (t.pos + 1) + 1 ELSE 0) = n
    BY <1>1, <2>1
  <2>. QED BY <2>3, <2>4
<1>3. CanWrite(u) <=> Len(in.fifo) + n <= TxFifoRoom
  BY <1>2 DEF CanWrite
<1>4. /\ EpWrite(u)
      /\ LET left == IF CanWrite(u) THEN t.rem - n ELSE t.rem
         IN  /\ tx' = [t EXCEPT !.pos = @ + (t.rem - left), !.rem = left]
             /\ control' = AfterPacket(n, left)
  BY DEF SendData
<1>5. ASSUME Len(in.fifo) + n <= TxFifoRoom
      PROVE  /\ in' = [ena |-> TRUE, nak |-> FALSE, size |-> n, fifo |-> in.fifo \o u]
             /\ tx' = [buf |-> t.buf, pos |-> t.pos + n, rem |-> t.rem - n]
             /\ control' = AfterPacket(n, t.rem - n)
  <2>1. in' = [ena |-> TRUE, nak |-> FALSE, size |-> n, fifo |-> in.fifo \o u]
    BY <1>2, <1>3, <1>4, <1>5 DEF EpWrite
  <2>2. /\ tx' = [t EXCEPT !.pos = @ + (t.rem - (t.rem - n)), !.rem = t.rem - n]
        /\ control' = AfterPacket(n, t.rem - n)
    BY <1>3, <1>4, <1>5
  <2>3. t.rem - (t.rem - n) = n
    BY <1>1
  <2>. QED BY <2>1, <2>2, <2>3
<1>6. ASSUME ~(Len(in.fifo) + n <= TxFifoRoom)
      PROVE  in' = in /\ tx' = t /\ control' = AfterPacket(n, t.rem)
  <2>1. in' = in
    BY <1>3, <1>4, <1>6 DEF EpWrite
  <2>2. /\ tx' = [t EXCEPT !.pos = @ + (t.rem - t.rem), !.rem = t.rem]
        /\ control' = AfterPacket(n, t.rem)
    BY <1>3, <1>4, <1>6
  <2>3. t.pos + (t.rem - t.rem) = t.pos
    OBVIOUS
  <2>. QED BY <2>1, <2>2, <2>3
<1>. QED BY <1>1, <1>2, <1>5, <1>6

\* An empty packet always has room.
LEMMA EmptyWrite ==
    ASSUME PipeTypeOK, EpWrite(<<>>)
    PROVE  in' = [ena |-> TRUE, nak |-> FALSE, size |-> 0, fifo |-> in.fifo]
<1>1. in.fifo \in Seq(Units) /\ Len(in.fifo) <= TxFifoRoom /\ Len(in.fifo) \in Nat
  BY LenProperties DEF PipeTypeOK
<1>2. Len(<<>>) = 0 /\ in.fifo \o <<>> = in.fifo
  BY <1>1, EmptySeq, ConcatEmptySeq
<1>3. Len(in.fifo) + 0 <= TxFifoRoom
  BY <1>1
<1>. QED BY <1>2, <1>3 DEF EpWrite, CanWrite

\* Types after an answer.
LEMMA WriteTypes ==
    ASSUME PipeTypeOK, NEW t \in [buf : Seq(Units), pos : Nat, rem : Nat],
           t.pos + t.rem <= Len(t.buf), Len(t.buf) <= TxMax, SendData(t)
    PROVE  /\ in' \in [ena : BOOLEAN, nak : BOOLEAN, size : 0 .. EP0SIZE, fifo : Seq(Units)]
           /\ Len(in'.fifo) <= TxFifoRoom
           /\ tx' \in [buf : Seq(Units), pos : Nat, rem : Nat]
           /\ tx'.pos + tx'.rem = t.pos + t.rem /\ tx'.buf = t.buf /\ tx'.rem <= t.rem
           /\ control' \in {"TXDATA", "TXZLP", "TXCOMP"}
<1>1. PICK n : n = Lesser(t.rem, EP0SIZE)
  OBVIOUS
<1>2. PICK u : u = SubSeq(t.buf, t.pos + 1, t.pos + n)
  OBVIOUS
<1>3. /\ n \in Nat /\ n <= t.rem /\ n <= EP0SIZE /\ u \in Seq(Units) /\ Len(u) = n
      /\ Len(in.fifo) + n <= TxFifoRoom
           => /\ in' = [ena |-> TRUE, nak |-> FALSE, size |-> n, fifo |-> in.fifo \o u]
              /\ tx' = [buf |-> t.buf, pos |-> t.pos + n, rem |-> t.rem - n]
              /\ control' = AfterPacket(n, t.rem - n)
      /\ ~(Len(in.fifo) + n <= TxFifoRoom)
           => /\ in' = in /\ tx' = t
              /\ control' = AfterPacket(n, t.rem)
  BY <1>1, <1>2, SendDataFacts
<1>4. control' \in {"TXDATA", "TXZLP", "TXCOMP"}
  BY <1>3 DEF AfterPacket
<1>5. CASE Len(in.fifo) + n <= TxFifoRoom
  <2>1. in.fifo \in Seq(Units)
    BY DEF PipeTypeOK
  <2>2. in.fifo \o u \in Seq(Units) /\ Len(in.fifo \o u) = Len(in.fifo) + n
    BY <1>3, <2>1, ConcatProperties
  <2>3. n \in 0 .. EP0SIZE
    BY <1>3, SizeFacts
  <2>4. t.pos + n \in Nat /\ t.rem - n \in Nat /\ (t.pos + n) + (t.rem - n) = t.pos + t.rem
        /\ t.rem - n <= t.rem
    BY <1>3
  <2>5. in' = [ena |-> TRUE, nak |-> FALSE, size |-> n, fifo |-> in.fifo \o u]
        /\ tx' = [buf |-> t.buf, pos |-> t.pos + n, rem |-> t.rem - n]
    BY <1>3, <1>5
  <2>6. in' \in [ena : BOOLEAN, nak : BOOLEAN, size : 0 .. EP0SIZE, fifo : Seq(Units)]
        /\ Len(in'.fifo) <= TxFifoRoom
    BY <1>5, <2>2, <2>3, <2>5
  <2>7. /\ tx' \in [buf : Seq(Units), pos : Nat, rem : Nat]
        /\ tx'.pos + tx'.rem = t.pos + t.rem /\ tx'.buf = t.buf /\ tx'.rem <= t.rem
    BY <2>4, <2>5
  <2>. QED BY <1>4, <2>6, <2>7
<1>6. CASE ~(Len(in.fifo) + n <= TxFifoRoom)
  BY <1>3, <1>4, <1>6 DEF PipeTypeOK
<1>. QED BY <1>5, <1>6

\* EP_TX in the data stage: the next packet, the empty one after full ones, or the wait
\* for the status stage.
LEMMA ExecutedSends ==
    ASSUME OrdinaryUse, PipeInv, Handles, Executed
    PROVE  Kept
<1>1. /\ Coming # <<>> /\ Len(Coming) \in Nat \ {0} /\ Coming[1] = Head(evq) /\ Taken
      /\ evq' \in Seq(Events)
      /\ packet' = packet /\ rxq' = rxq /\ lastSetup' = lastSetup /\ flags' = flags
      /\ lost' = lost /\ crashed' = crashed
      /\ stage' = stage /\ request' = request /\ moved' = moved /\ assigned' = assigned
      /\ resets' = resets /\ ran' = ran
      /\ thread = "loop" /\ InTransfer' = InTransfer
  BY EventFrame
<1>2. PipeTypeOK /\ InData /\ Ep0Inv
  BY DEF PipeInv, TransferInv
<1>3. /\ registered /\ ran[request.id] = 1 /\ setup = request
      /\ InTransfer /\ InFlight = 0 /\ Fetched
  <2>1. Fetched
    BY <1>1 DEF Executed, Refusal, StatusIn, Loaded, Delivered, Stuck
  <2>2. request.resp = "ACK"
    BY <2>1 DEF Fetched, Replying
  <2>. QED BY <2>1, <2>2 DEF Executed
<1>4. /\ Replying /\ Len(Coming) = 1 /\ Coming[1] = "EP_TX" /\ ~Armed
      /\ Len(moved) = tx.pos
      /\ \/ /\ stage = "data" /\ Whole(Len(moved))
            /\ control = IF tx.rem > 0 THEN "TXDATA" ELSE "TXZLP"
         \/ stage = "status" /\ tx.rem = 0 /\ control = "TXCOMP"
  BY <1>3 DEF Fetched
<1>5. HandleEp0Tx /\ UNCHANGED <<outArmed, address, registered>>
  BY <1>1, <1>3, <1>4 DEF Handles, HandleEvent
<1>6. UNCHANGED mgrVars /\ stall' = stall /\ setup' = setup /\ rx' = rx /\ thread' = thread
  BY <1>5 DEF HandleEp0Tx
<1>7. Coming' = <<>>
  <2>1. Coming' \in Seq(Events) /\ Len(Coming') = 0
    BY <1>1, <1>4 DEF Taken
  <2>. QED BY <2>1, EmptySeq
<1>8. InFlight' = 0
  <2>1. UNCHANGED <<queue, packet, rxq, stage, request, moved>>
    BY <1>1, <1>6 DEF mgrVars
  <2>. QED BY <1>2, <1>3, <2>1, FlightFrame
<1>9. /\ request.resp = "ACK" /\ request.dir = "in" /\ tx.pos + tx.rem = Wanted
      /\ Wanted' = Wanted /\ request \in Setups
  BY <1>1, <1>2, <1>4 DEF Replying, Wanted, PipeTypeOK
<1>10. /\ tx \in [buf : Seq(Units), pos : Nat, rem : Nat]
       /\ tx.pos + tx.rem <= Len(tx.buf) /\ Len(tx.buf) <= TxMax
       /\ tx.pos \in Nat /\ tx.rem \in Nat /\ Len(tx.buf) \in Nat /\ resets \in Nat
       /\ in.fifo \in Seq(Units) /\ Len(in.fifo) \in Nat
  BY <1>2, LenProperties DEF PipeTypeOK
<1>11. ASSUME PipeTypeOK', Loaded' \/ Delivered' \/ Stuck', InData' PROVE Kept
  <2>1. Executed'
    BY <1>1, <1>3, <1>5, <1>6, <1>8, <1>11 DEF Executed
  <2>. QED BY <1>5, <1>6, <1>11, <2>1 DEF Kept, Protocol, mgrVars
<1>12. resets <= 1 =>
         /\ moved = Cut(request, 0, Len(moved))
         /\ tx.buf = Cut(request, 0, Lesser(request.reply, TxMax))
         /\ in.fifo = <<>>
  BY <1>2, <1>3, <1>4, <1>9 DEF InData, Answering
<1>13. CASE control = "TXDATA"
  <2>1. SendData(tx) /\ tx.rem > 0 /\ stage = "data" /\ Whole(Len(moved))
    BY <1>4, <1>5, <1>13 DEF HandleEp0Tx
  <2>2. PipeTypeOK'
    <3>1. /\ in' \in [ena : BOOLEAN, nak : BOOLEAN, size : 0 .. EP0SIZE, fifo : Seq(Units)]
          /\ Len(in'.fifo) <= TxFifoRoom
          /\ tx' \in [buf : Seq(Units), pos : Nat, rem : Nat]
          /\ tx'.pos + tx'.rem = tx.pos + tx.rem /\ tx'.buf = tx.buf
          /\ control' \in {"TXDATA", "TXZLP", "TXCOMP"}
      BY <1>2, <1>10, <2>1, WriteTypes
    <3>2. tx'.pos + tx'.rem <= Len(tx'.buf) /\ Len(tx'.buf) <= TxMax /\ control' \in ControlStates
      BY <1>10, <3>1 DEF ControlStates
    <3>. QED BY <1>1, <1>2, <1>5, <1>6, <3>1, <3>2 DEF PipeTypeOK
  <2>3. PICK n : n = Lesser(tx.rem, EP0SIZE)
    OBVIOUS
  <2>4. PICK u : u = SubSeq(tx.buf, tx.pos + 1, tx.pos + n)
    OBVIOUS
  <2>5. /\ n \in Nat /\ n <= tx.rem /\ n <= EP0SIZE /\ u \in Seq(Units) /\ Len(u) = n
        /\ n < EP0SIZE => n = tx.rem
        /\ Len(in.fifo) + n <= TxFifoRoom
             => /\ in' = [ena |-> TRUE, nak |-> FALSE, size |-> n, fifo |-> in.fifo \o u]
                /\ tx' = [buf |-> tx.buf, pos |-> tx.pos + n, rem |-> tx.rem - n]
                /\ control' = AfterPacket(n, tx.rem - n)
        /\ ~(Len(in.fifo) + n <= TxFifoRoom)
             => in' = in /\ tx' = tx
    BY <1>2, <1>10, <2>1, <2>3, <2>4, SendDataFacts
  <2>6. resets <= 1 => Len(in.fifo) + n <= TxFifoRoom
    <3>. HAVE resets <= 1
    <3>1. Len(in.fifo) = 0 /\ EP0SIZE <= TxFifoRoom
      BY <1>12, EmptySeq DEF OrdinaryUse
    <3>. QED BY <2>5, <3>1, SizeFacts
  <2>7. CASE Len(in.fifo) + n <= TxFifoRoom
    <3>1. /\ in' = [ena |-> TRUE, nak |-> FALSE, size |-> n, fifo |-> in.fifo \o u]
          /\ tx' = [buf |-> tx.buf, pos |-> tx.pos + n, rem |-> tx.rem - n]
          /\ control' = AfterPacket(n, tx.rem - n)
      BY <2>5, <2>7
    <3>2. /\ in'.size = n /\ in'.fifo = in.fifo \o u /\ in'.ena /\ ~in'.nak
          /\ tx'.buf = tx.buf /\ tx'.pos = tx.pos + n /\ tx'.rem = tx.rem - n
      BY <3>1
    <3>3. n <= Len(in.fifo \o u)
      <4>1. Len(in.fifo \o u) = Len(in.fifo) + n
        BY <1>10, <2>5, ConcatProperties
      <4>. QED BY <1>10, <2>5, <4>1
    <3>4. tx'.pos + tx'.rem = Wanted'
      BY <1>9, <1>10, <2>5, <3>2
    <3>5. in'.size < EP0SIZE => tx'.rem = 0
      BY <1>10, <2>5, <3>2
    <3>6. control' = AfterPacket(in'.size, tx'.rem) /\ Len(moved') + in'.size = tx'.pos
      BY <1>1, <1>4, <3>1, <3>2
    <3>7. Replying'
      BY <1>1, <1>9, <3>4 DEF Replying
    <3>8. Loaded'
      BY <1>1, <1>7, <2>1, <3>2, <3>3, <3>5, <3>6, <3>7 DEF Loaded, Armed
    <3>9. InData'
      <4>1. resets <= 1 => in'.fifo = Cut(request, Len(moved), tx'.pos)
        <5>. HAVE resets <= 1
        <5>1. PICK b \in Nat : b = Lesser(request.reply, TxMax)
          BY <1>9, SizeFacts, PipeAssumption DEF Lesser
        <5>2. PICK i \in Nat : i = tx.pos
          BY <1>10
        <5>3. PICK j \in Nat : j = tx.pos + n
          BY <1>10, <2>5
        <5>4. i <= j /\ j <= b
          <6>1. Len(tx.buf) = b
            <7>1. 0 <= b /\ b - 0 = b
              OBVIOUS
            <7>2. tx.buf = Cut(request, 0, b)
              BY <1>12, <5>1
            <7>. QED BY <1>9, <7>1, <7>2, CutType
          <6>2. tx.pos + n <= Len(tx.buf)
            <7>1. \A p, r, l, m \in Nat : m <= r /\ p + r <= l => p + m <= l
              OBVIOUS
            <7>. QED BY <1>10, <2>5, <7>1
          <6>. QED BY <1>10, <2>5, <5>1, <5>2, <5>3, <6>1, <6>2
        <5>5. u = Cut(request, i, j)
          <6>1. tx.buf = Cut(request, 0, b)
            BY <1>12, <5>1
          <6>2. u = SubSeq(Cut(request, 0, b), i + 1, j)
            BY <2>4, <5>2, <5>3, <6>1
          <6>. QED BY <1>9, <5>4, <6>2, CutFront
        <5>6. in.fifo \o u = u
          BY <1>12, <2>5, ConcatEmptySeq
        <5>. QED BY <1>4, <3>2, <5>2, <5>3, <5>5, <5>6
      <4>2. Answering' /\ Armed'
        BY <1>1, <1>3, <1>9, <3>2 DEF Answering, Armed
      <4>. QED BY <1>1, <1>2, <1>3, <1>9, <1>12, <3>2, <4>1, <4>2 DEF InData
    <3>. QED BY <1>11, <2>2, <3>8, <3>9
  <2>8. CASE ~(Len(in.fifo) + n <= TxFifoRoom)
    <3>1. in' = in /\ tx' = tx /\ resets > 1
      BY <1>10, <2>5, <2>6, <2>8
    <3>2. Replying' /\ ~Armed'
      BY <1>1, <1>4, <1>9, <3>1 DEF Replying, Armed
    <3>3. Stuck'
      BY <1>1, <1>7, <2>1, <3>1, <3>2 DEF Stuck
    <3>4. InData'
      BY <1>1, <1>10, <3>1 DEF InData
    <3>. QED BY <1>11, <2>2, <3>3, <3>4
  <2>. QED BY <2>7, <2>8
<1>14. CASE control = "TXZLP"
  <2>1. EpWrite(<<>>) /\ control' = "TXCOMP" /\ tx' = tx /\ stage = "data" /\ Whole(Len(moved))
        /\ ~(tx.rem > 0)
    BY <1>4, <1>5, <1>14 DEF HandleEp0Tx
  <2>2. in' = [ena |-> TRUE, nak |-> FALSE, size |-> 0, fifo |-> in.fifo] /\ tx.rem = 0
    BY <1>2, <1>10, <2>1, EmptyWrite
  <2>3. in'.size = 0 /\ in'.fifo = in.fifo /\ in'.ena /\ ~in'.nak
    BY <2>2
  <2>4. PipeTypeOK'
    <3>1. in' \in [ena : BOOLEAN, nak : BOOLEAN, size : 0 .. EP0SIZE, fifo : Seq(Units)]
      BY <1>10, <2>2, SizeFacts
    <3>2. control' \in ControlStates
      BY <2>1 DEF ControlStates
    <3>. QED BY <1>1, <1>2, <1>5, <1>6, <2>1, <2>3, <3>1, <3>2 DEF PipeTypeOK
  <2>5. control' = AfterPacket(in'.size, tx'.rem) /\ in'.size <= Len(in'.fifo)
        /\ Len(moved') + in'.size = tx'.pos
    <3>1. 0 # EP0SIZE /\ ~(0 > 0)
      BY SizeFacts
    <3>. QED BY <1>1, <1>4, <1>10, <2>1, <2>2, <2>3, <3>1 DEF AfterPacket
  <2>6. Replying'
    BY <1>1, <1>9, <2>1 DEF Replying
  <2>7. Loaded'
    BY <1>1, <1>7, <2>1, <2>2, <2>3, <2>5, <2>6 DEF Loaded, Armed
  <2>8. InData'
    <3>1. Answering' /\ Armed'
      BY <1>1, <1>3, <1>9, <2>3 DEF Answering, Armed
    <3>2. Cut(request, tx.pos, tx.pos) = <<>>
      <4>1. tx.pos <= tx.pos /\ tx.pos - tx.pos = 0
        BY <1>10
      <4>2. Cut(request, tx.pos, tx.pos) \in Seq(Units) /\ Len(Cut(request, tx.pos, tx.pos)) = 0
        BY <1>9, <1>10, <4>1, CutType
      <4>. QED BY <4>2, EmptySeq
    <3>. QED BY <1>1, <1>3, <1>4, <1>9, <1>12, <2>1, <2>3, <3>1, <3>2 DEF InData
  <2>. QED BY <1>11, <2>4, <2>7, <2>8
<1>15. CASE control = "TXCOMP"
  <2>1. control' = "STATUS_OUT" /\ UNCHANGED <<in, tx>> /\ stage = "status" /\ tx.rem = 0
    BY <1>4, <1>5, <1>15 DEF HandleEp0Tx
  <2>2. PipeTypeOK'
    BY <1>1, <1>2, <1>5, <1>6, <2>1 DEF PipeTypeOK, ControlStates
  <2>3. Replying' /\ ~Armed'
    BY <1>1, <1>4, <1>9, <2>1 DEF Replying, Armed
  <2>4. Delivered'
    BY <1>1, <1>4, <1>7, <2>1, <2>3 DEF Delivered
  <2>5. InData'
    BY <1>1, <1>2, <1>3, <2>1, <2>3, <1>4, <1>6 DEF InData, Answering
  <2>. QED BY <1>11, <2>2, <2>4, <2>5
<1>. QED BY <1>4, <1>13, <1>14, <1>15

\* An event without a transfer.
LEMMA OverNext ==
    ASSUME OrdinaryUse, PipeInv, Handles, NEW n \in 0 .. 2, Over(n),
           NEW m \in 0 .. 2, m = (IF n = 0 THEN 0 ELSE n - 1), Residue(m)',
           UNCHANGED mgrVars, thread' = "loop"
    PROVE  Protocol'
<1>1. /\ Len(Coming) \in Nat \ {0} /\ Coming[1] = Head(evq) /\ Taken
      /\ packet' = packet /\ rxq' = rxq
      /\ stage' = stage /\ request' = request /\ moved' = moved
      /\ resets' = resets /\ InTransfer' = InTransfer
  BY EventFrame
<1>2. /\ ~InTransfer /\ InFlight = 0 /\ (registered \/ n = 0) /\ Len(Coming) >= n /\ OnlyBus(n)
      /\ stage = "idle" /\ ~registered => Len(Coming) > 0 /\ Coming[Len(Coming)] = "ENUM_DONE"
  BY DEF Over
<1>3. registered' = (registered \/ Head(evq) = "ENUM_DONE")
  BY DEF Handles, HandleEvent, PipeInv, TransferInv, PipeTypeOK
<1>4. InFlight' = 0
  <2>1. UNCHANGED <<queue, packet, rxq, stage, request, moved>>
    BY <1>1 DEF mgrVars
  <2>. QED BY <1>2, <2>1, FlightFrame DEF PipeInv, TransferInv
<1>5. OnlyBus(m)' /\ Len(Coming') >= m
  <2>1. CASE n = 0
    BY <1>1, <1>2, <2>1, TakenFacts DEF Taken
  <2>2. CASE n # 0
    <3>1. m \in Nat /\ m + 1 = n /\ Len(Coming) - 1 >= m
      BY <1>1, <1>2, <2>2
    <3>2. OnlyBus(m + 1) => OnlyBus(m)'
      BY <1>1, <3>1, TakenFacts
    <3>. QED BY <1>1, <1>2, <3>1, <3>2 DEF Taken
  <2>. QED BY <2>1, <2>2
<1>6. ASSUME stage' = "idle", ~registered'
      PROVE  Len(Coming') > 0 /\ Coming'[Len(Coming')] = "ENUM_DONE"
  <2>1. /\ Coming[Len(Coming)] = "ENUM_DONE" /\ Coming[1] # "ENUM_DONE"
    BY <1>1, <1>2, <1>3, <1>6
  <2>2. Len(Coming) # 1
    BY <2>1
  <2>3. \A k \in Nat \ {0} : k # 1 => k - 1 \in 1 .. k - 1 /\ (k - 1) + 1 = k /\ k - 1 > 0
    OBVIOUS
  <2>4. Len(Coming) - 1 \in 1 .. Len(Coming) - 1 /\ (Len(Coming) - 1) + 1 = Len(Coming)
        /\ Len(Coming) - 1 > 0
    BY <1>1, <2>2, <2>3
  <2>. QED BY <1>1, <2>1, <2>4 DEF Taken
<1>7. registered' \/ m = 0
  BY <1>2, <1>3
<1>8. Over(m)'
  BY <1>1, <1>2, <1>4, <1>5, <1>6, <1>7 DEF Over
<1>. QED BY <1>8 DEF Protocol

\* EP_TX or EP_RX at the end of the status stage.
LEMMA OverResidue ==
    ASSUME OrdinaryUse, PipeInv, Handles, NEW n \in {1, 2}, Over(n), Residue(n)
    PROVE  Kept
<1>1. /\ Len(Coming) \in Nat \ {0} /\ Taken
      /\ evq' \in Seq(Events)
      /\ packet' = packet /\ rxq' = rxq /\ lastSetup' = lastSetup /\ flags' = flags
      /\ lost' = lost /\ crashed' = crashed
      /\ stage' = stage /\ request' = request /\ moved' = moved /\ assigned' = assigned
      /\ resets' = resets /\ ran' = ran
      /\ thread = "loop" /\ InTransfer' = InTransfer
  BY EventFrame
<1>2. /\ ~InTransfer /\ registered /\ Len(Coming) >= n /\ n \in 0 .. 2 /\ n # 0
  BY DEF Over
<1>3. /\ Residue(n - 1)'
      /\ UNCHANGED <<mgrVars, in, stall, setup, tx, outArmed, registered, thread>>
      /\ control' \in ControlStates
      /\ n = 1 => control' = "IDLE"
      /\ rx' \in {rx, [buf |-> <<>>, rem |-> 0]}
  BY <1>2, ResidueStep
<1>4. PipeTypeOK'
  <2>1. /\ rx' \in [buf : Seq(Units), rem : Nat]
        /\ Len(rx'.buf) + rx'.rem <= RxMax
    <3>1. CASE rx' = rx
      BY <3>1 DEF PipeInv, TransferInv, PipeTypeOK
    <3>2. CASE rx' = [buf |-> <<>>, rem |-> 0]
      BY <3>2, SizeFacts
    <3>. QED BY <1>3, <3>1, <3>2
  <2>. QED BY <1>1, <1>3, <2>1 DEF PipeInv, TransferInv, PipeTypeOK
<1>5. Protocol'
  <2>1. PICK m \in 0 .. 2 : m = n - 1
    BY <1>2
  <2>2. Residue(m)'
    BY <1>3, <2>1
  <2>3. m = (IF n = 0 THEN 0 ELSE n - 1)
    BY <1>2, <2>1
  <2>. QED BY <1>1, <1>2, <1>3, <2>2, <2>3, OverNext
<1>6. OnlyBus(0)' => control' = "IDLE"
  <2>1. CASE n = 1
    BY <1>3, <2>1
  <2>2. CASE n = 2
    <3>1. Residue(1)'
      <4>1. n - 1 = 1
        BY <2>2
      <4>. QED BY <1>3, <4>1
    <3>2. Coming'[1] \notin Bus
      BY <3>1 DEF Residue, Bus
    <3>3. 1 \in 0 + 1 .. Len(Coming')
      BY <1>1, <1>2, <2>2 DEF Taken
    <3>. QED BY <3>2, <3>3 DEF OnlyBus
  <2>. QED BY <2>1, <2>2
<1>7. InData'
  BY <1>1, <1>2, <1>3, <1>6 DEF PipeInv, TransferInv, InData, Answering
<1>. QED BY <1>2, <1>3, <1>4, <1>5, <1>7 DEF Kept, mgrVars

\* EP_TX of a packet that was sent just before a reset.
LEMMA OverLate ==
    ASSUME OrdinaryUse, PipeInv, Handles, Over(1), Coming[1] = "EP_TX", resets > 1
    PROVE  Kept
<1>1. /\ Len(Coming) \in Nat \ {0} /\ Coming[1] = Head(evq)
      /\ evq' \in Seq(Events)
      /\ packet' = packet /\ rxq' = rxq /\ lastSetup' = lastSetup /\ flags' = flags
      /\ lost' = lost /\ crashed' = crashed
      /\ stage' = stage /\ request' = request /\ moved' = moved /\ assigned' = assigned
      /\ resets' = resets /\ ran' = ran
      /\ thread = "loop" /\ InTransfer' = InTransfer
  BY EventFrame
<1>2. ~InTransfer /\ registered /\ resets \in Nat
  BY RoomFacts DEF Over
<1>3. HandleEp0Tx /\ UNCHANGED <<outArmed, address, registered>>
  BY <1>1, <1>2 DEF Handles, HandleEvent
<1>4. UNCHANGED mgrVars /\ stall' = stall /\ setup' = setup /\ rx' = rx /\ thread' = thread
  BY <1>3 DEF HandleEp0Tx
<1>5. PipeTypeOK
  BY DEF PipeInv, TransferInv
<1>6. /\ in' \in [ena : BOOLEAN, nak : BOOLEAN, size : 0 .. EP0SIZE, fifo : Seq(Units)]
      /\ Len(in'.fifo) <= TxFifoRoom
      /\ tx' \in [buf : Seq(Units), pos : Nat, rem : Nat]
      /\ tx'.pos + tx'.rem <= Len(tx'.buf) /\ Len(tx'.buf) <= TxMax
      /\ control' \in ControlStates
  <2>1. CASE control = "TXDATA" /\ SendData(tx)
    <3>1. /\ tx \in [buf : Seq(Units), pos : Nat, rem : Nat]
          /\ tx.pos + tx.rem <= Len(tx.buf) /\ Len(tx.buf) <= TxMax
      BY <1>5 DEF PipeTypeOK
    <3>2. /\ in' \in [ena : BOOLEAN, nak : BOOLEAN, size : 0 .. EP0SIZE, fifo : Seq(Units)]
          /\ Len(in'.fifo) <= TxFifoRoom
          /\ tx' \in [buf : Seq(Units), pos : Nat, rem : Nat]
          /\ tx'.pos + tx'.rem = tx.pos + tx.rem /\ tx'.buf = tx.buf
          /\ control' \in {"TXDATA", "TXZLP", "TXCOMP"}
      BY <1>5, <2>1, <3>1, WriteTypes
    <3>. QED BY <3>1, <3>2 DEF ControlStates
  <2>2. CASE control = "TXZLP" /\ EpWrite(<<>>) /\ control' = "TXCOMP" /\ UNCHANGED tx
    <3>1. in' = [ena |-> TRUE, nak |-> FALSE, size |-> 0, fifo |-> in.fifo]
      BY <1>5, <2>2, EmptyWrite
    <3>2. in'.fifo = in.fifo /\ 0 \in 0 .. EP0SIZE
      BY <3>1, SizeFacts
    <3>. QED BY <1>5, <2>2, <3>1, <3>2 DEF PipeTypeOK, ControlStates
  <2>3. CASE UNCHANGED <<in, tx>> /\ control' \in {"STATUS_OUT", "IDLE"}
    BY <1>5, <2>3 DEF PipeTypeOK, ControlStates
  <2>4. CASE UNCHANGED <<control, in, tx>>
    BY <1>5, <2>4 DEF PipeTypeOK
  <2>. QED BY <1>3, <2>1, <2>2, <2>3, <2>4 DEF HandleEp0Tx
<1>7. PipeTypeOK'
  BY <1>1, <1>3, <1>4, <1>5, <1>6 DEF PipeTypeOK
<1>8. Protocol'
  <2>1. Residue(0)'
    BY DEF Residue
  <2>2. 1 \in 0 .. 2 /\ 0 \in 0 .. 2 /\ 0 = (IF 1 = 0 THEN 0 ELSE 1 - 1)
    OBVIOUS
  <2>. QED BY <1>1, <1>4, <2>1, <2>2, OverNext
<1>9. InData'
  BY <1>1, <1>2 DEF InData
<1>. QED BY <1>2, <1>4, <1>7, <1>8, <1>9 DEF Kept, mgrVars

\* RESET or ENUM_DONE.
LEMMA OverBus ==
    ASSUME OrdinaryUse, PipeInv, Handles, Over(0)
    PROVE  Kept
<1>1. /\ Len(Coming) \in Nat \ {0} /\ Coming[1] = Head(evq) /\ Taken
      /\ evq' \in Seq(Events)
      /\ packet' = packet /\ rxq' = rxq /\ lastSetup' = lastSetup /\ flags' = flags
      /\ lost' = lost /\ crashed' = crashed
      /\ stage' = stage /\ request' = request /\ moved' = moved /\ assigned' = assigned
      /\ resets' = resets /\ ran' = ran
      /\ thread = "loop" /\ InTransfer' = InTransfer
  BY EventFrame
<1>2. ~InTransfer /\ OnlyBus(0) /\ Head(evq) \in Bus
  <2>1. ~InTransfer /\ OnlyBus(0)
    BY DEF Over
  <2>2. 1 \in 0 + 1 .. Len(Coming)
    BY <1>1
  <2>. QED BY <1>1, <2>1, <2>2 DEF OnlyBus
<1>3. /\ EpConfig /\ registered' \in {registered, TRUE}
      /\ UNCHANGED <<mgrVars, stall, control, setup, tx, rx, thread>>
  BY <1>2 DEF Handles, HandleEvent, HandleReset, Bus
<1>4. /\ in' \in [ena : BOOLEAN, nak : BOOLEAN, size : 0 .. EP0SIZE, fifo : Seq(Units)]
      /\ in'.fifo = in.fifo /\ outArmed' = TRUE
  <2>1. EP0SIZE \in 0 .. EP0SIZE
    BY SizeFacts
  <2>. QED BY <1>3, <2>1 DEF EpConfig, PipeInv, TransferInv, PipeTypeOK
<1>5. PipeTypeOK'
  BY <1>1, <1>3, <1>4 DEF PipeInv, TransferInv, PipeTypeOK
<1>6. Protocol'
  <2>1. Residue(0)'
    BY DEF Residue
  <2>2. 0 \in 0 .. 2 /\ 0 = (IF 0 = 0 THEN 0 ELSE 0 - 1)
    OBVIOUS
  <2>. QED BY <1>1, <1>3, <2>1, <2>2, OverNext
<1>7. InData'
  BY <1>1, <1>2, <1>3, <1>4 DEF PipeInv, TransferInv, InData, Answering
<1>. QED BY <1>2, <1>3, <1>5, <1>6, <1>7 DEF Kept, mgrVars

LEMMA EventKeeps ==
    ASSUME OrdinaryUse, PipeInv, Handles
    PROVE  TransferInv'
<1>1. thread = "loop"
  BY EventFrame
<1>2. ASSUME NEW n \in 0 .. 2, Announced(n) PROVE Kept
  <2>1. CASE n = 0
    BY <1>2, <2>1, AnnouncedDecode
  <2>2. CASE n # 0
    <3>1. n \in {1, 2}
      BY <2>2
    <3>. QED BY <1>2, <3>1, AnnouncedResidue
  <2>. QED BY <2>1, <2>2
<1>3. ASSUME NEW n \in 0 .. 2, Over(n) PROVE Kept
  <2>1. CASE n = 0
    BY <1>3, <2>1, OverBus
  <2>2. CASE n # 0 /\ Residue(n)
    <3>1. n \in {1, 2}
      BY <2>2
    <3>. QED BY <1>3, <2>2, <3>1, OverResidue
  <2>3. CASE n = 1 /\ Coming[1] = "EP_TX" /\ resets > 1
    BY <1>3, <2>3, OverLate
  <2>. QED BY <1>3, <2>1, <2>2, <2>3 DEF Over
<1>4. ~Responding
  BY <1>1 DEF Responding
<1>5. Kept
  BY <1>2, <1>3, <1>4, ReceivingTakes, ExecutedSends DEF PipeInv, TransferInv, Protocol
<1>. QED BY <1>5, EventKeepsIfKept

-----------------------------------------------------------------------------
(* process_request and its answer.                                           *)

\* process_request starts from an empty buffer and cuts the reply to wLength.
LEMMA FilledFacts ==
    ASSUME OrdinaryUse, NEW s \in Setups, s.dir = "in", s.resp = "ACK"
    PROVE  /\ Filled(s) \in [buf : Seq(Units), pos : Nat, rem : Nat]
           /\ Filled(s).pos = 0 /\ Filled(s).rem = Lesser(s.reply, s.len)
           /\ Filled(s).buf = Cut(s, 0, Lesser(s.reply, TxMax))
           /\ Len(Filled(s).buf) = Lesser(s.reply, TxMax)
           /\ Filled(s).rem <= Len(Filled(s).buf) /\ Len(Filled(s).buf) <= TxMax
<1>1. /\ s.fresh = TRUE /\ s.len \in Nat /\ s.reply \in Nat /\ TxMax \in Nat
      /\ Lesser(s.reply, s.len) <= TxMax
  BY RequestFacts, SizeFacts DEF Serviceable
<1>2. PICK n \in Nat : n = Lesser(s.reply, TxMax) /\ n <= s.reply /\ n <= TxMax
  BY <1>1 DEF Lesser
<1>3. PICK k \in Nat : k = Lesser(s.reply, s.len) /\ k = Lesser(n, s.len) /\ k <= n
  BY <1>1, <1>2 DEF Lesser
<1>4. SubSeq(Reply(s), 1, n) = Cut(s, 0, n)
  <2>1. SubSeq(Cut(s, 0, s.reply), 1, n) = Cut(s, 0, n)
    BY <1>1, <1>2, CutFirst
  <2>2. Reply(s) = Cut(s, 0, s.reply)
    BY CutWhole
  <2>. QED BY <2>1, <2>2
<1>5. Cut(s, 0, n) \in Seq(Units) /\ Len(Cut(s, 0, n)) = n
  <2>1. 0 <= n /\ n - 0 = n
    OBVIOUS
  <2>. QED BY <2>1, CutType
<1>6. Filled(s) = [buf |-> Cut(s, 0, n), pos |-> 0, rem |-> k]
  <2>1. /\ EmptyTx.buf = <<>> /\ EmptyTx.rem = 0 /\ TxMax - Len(<<>>) = TxMax
        /\ 0 + n = n
    BY <1>1, EmptySeq DEF EmptyTx
  <2>2. Filled(s) = [EmptyTx EXCEPT !.buf = @ \o SubSeq(Reply(s), 1, Lesser(s.reply, TxMax - Len(EmptyTx.buf))),
                                    !.rem = Lesser(@ + Lesser(s.reply, TxMax - Len(EmptyTx.buf)), s.len)]
    BY <1>1 DEF Filled
  <2>3. Filled(s) = [EmptyTx EXCEPT !.buf = <<>> \o Cut(s, 0, n), !.rem = k]
    BY <1>2, <1>3, <1>4, <2>1, <2>2
  <2>4. <<>> \o Cut(s, 0, n) = Cut(s, 0, n)
    BY <1>5, ConcatEmptySeq
  <2>. QED BY <2>3, <2>4 DEF EmptyTx
<1>7. Filled(s).pos = 0 /\ Filled(s).rem = k /\ Filled(s).buf = Cut(s, 0, n)
  BY <1>6
<1>8. Filled(s) \in [buf : Seq(Units), pos : Nat, rem : Nat]
  BY <1>5, <1>6
<1>. QED BY <1>2, <1>3, <1>5, <1>7, <1>8

\* What the answer leaves alone.
LEMMA AnswerFrame ==
    ASSUME OrdinaryUse, PipeInv, DeviceAnswer
    PROVE  /\ Responding /\ request \in Setups /\ setup = request
           /\ UNCHANGED <<mgrVars, packet, rxq, lastSetup, outArmed, stall, flags, evq, lost, crashed,
                          setup, rx, registered, stage, request, moved, assigned, resets>>
           /\ thread' = "loop" /\ address' = NewAddress(request)
           /\ ran' \in [Ids -> 0 .. 1] /\ ran'[request.id] = 1
           /\ Coming' = Coming /\ InTransfer' = InTransfer /\ InFlight' = 0
           /\ Ep0Inv' /\ PacketsFit' /\ Wire' /\ Room' /\ Staged' /\ Addressed'
<1>1. Responding
  BY DEF DeviceAnswer, Respond, PipeInv, TransferInv, Protocol, Announced, Receiving, Executed, Over
<1>2. /\ registered /\ ran[request.id] = 0 /\ setup = request /\ InFlight = 0
      /\ InTransfer \/ Overtaken(0)
  BY <1>1 DEF Responding
<1>3. request \in Setups /\ request.id \in Ids /\ ran \in [Ids -> 0 .. 1]
  BY RequestFacts DEF PipeInv, TransferInv, PipeTypeOK
<1>4. /\ UNCHANGED <<mgrVars, packet, rxq, lastSetup, outArmed, stall, flags, evq, lost, crashed,
                     setup, rx, registered, stage, request, moved, assigned, resets>>
      /\ thread' = "loop" /\ address' = NewAddress(request)
  BY <1>2 DEF DeviceAnswer, Respond
<1>5. ran' \in [Ids -> 0 .. 1] /\ ran'[request.id] = 1
  <2>1. ran' = [ran EXCEPT ![request.id] = Lesser(0 + 1, 2)]
    BY <1>2, <1>3 DEF DeviceAnswer
  <2>2. Lesser(0 + 1, 2) = 1
    BY DEF Lesser
  <2>. QED BY <1>3, <2>1, <2>2
<1>6. Coming' = Coming /\ InTransfer' = InTransfer
  BY <1>4 DEF Coming, InTransfer
<1>7. InFlight' = 0
  <2>1. UNCHANGED <<queue, packet, rxq, stage, request, moved>>
    BY <1>4 DEF mgrVars
  <2>. QED BY <1>2, <2>1, FlightFrame DEF PipeInv, TransferInv
<1>8. Ep0Inv'
  BY Ep0InvStep DEF PipeInv, TransferInv, Next
<1>9. PacketsFit' /\ Room'
  BY <1>4, <1>6 DEF PipeInv, TransferInv, PacketsFit, Room, mgrVars
<1>10. Wire'
  <2>1. Wire
    BY DEF PipeInv, TransferInv
  <2>. QED BY <1>4, <2>1 DEF Wire, RxqShape, SetupPending, DataPending, Newest, Kind, InTransfer, Silent
<1>11. Staged'
  <2>1. resets # 0
    BY <1>2 DEF PipeInv, TransferInv, Staged
  <2>. QED BY <1>4, <1>5, <1>6, <2>1 DEF PipeInv, TransferInv, Staged
<1>12. Addressed'
  <2>1. CASE InTransfer
    <3>1. address = assigned
      BY <1>2, <2>1 DEF PipeInv, TransferInv, Addressed
    <3>. QED BY <1>4, <1>5, <1>6, <2>1, <3>1 DEF Addressed, NewAddress
  <2>2. CASE ~InTransfer
    <3>1. Len(Coming) > 0 /\ Coming[0 + 1] = "RESET"
      BY <1>2, <2>2 DEF Overtaken
    <3>2. 1 \in DOMAIN Coming /\ Coming[1] = "RESET"
      BY <3>1, RoomFacts, LenProperties
    <3>3. assigned = 0
      BY <2>2, <3>2 DEF PipeInv, TransferInv, Addressed
    <3>. QED BY <1>4, <1>6, <2>2, <3>2, <3>3 DEF Addressed
  <2>. QED BY <2>1, <2>2
<1>. QED BY <1>1, <1>2, <1>3, <1>4, <1>5, <1>6, <1>7, <1>8, <1>9, <1>10, <1>11, <1>12

LEMMA AnswerKeepsTypes ==
    ASSUME OrdinaryUse, PipeInv, DeviceAnswer
    PROVE  PipeTypeOK'
<1>1. /\ request \in Setups /\ setup = request
      /\ UNCHANGED <<mgrVars, packet, rxq, lastSetup, outArmed, stall, flags, evq, lost, crashed,
                     setup, rx, registered, stage, request, moved, assigned, resets>>
      /\ thread' = "loop" /\ ran' \in [Ids -> 0 .. 1]
  BY AnswerFrame
<1>2. PipeTypeOK
  BY DEF PipeInv, TransferInv
<1>3. /\ in' \in [ena : BOOLEAN, nak : BOOLEAN, size : 0 .. EP0SIZE, fifo : Seq(Units)]
      /\ Len(in'.fifo) <= TxFifoRoom
      /\ tx' \in [buf : Seq(Units), pos : Nat, rem : Nat]
      /\ tx'.pos + tx'.rem <= Len(tx'.buf) /\ Len(tx'.buf) <= TxMax
      /\ control' \in ControlStates
  <2>1. CASE request.resp = "ACK" /\ request.dir = "in" /\ SendData(Filled(request))
    <3>1. PICK t \in [buf : Seq(Units), pos : Nat, rem : Nat] :
             /\ t = Filled(request) /\ t.pos = 0 /\ t.rem <= Len(t.buf) /\ Len(t.buf) <= TxMax
      BY <1>1, <2>1, FilledFacts
    <3>2. t.pos + t.rem <= Len(t.buf) /\ SendData(t)
      BY <2>1, <3>1
    <3>3. /\ in' \in [ena : BOOLEAN, nak : BOOLEAN, size : 0 .. EP0SIZE, fifo : Seq(Units)]
          /\ Len(in'.fifo) <= TxFifoRoom
          /\ tx' \in [buf : Seq(Units), pos : Nat, rem : Nat]
          /\ tx'.pos + tx'.rem = t.pos + t.rem /\ tx'.buf = t.buf
          /\ control' \in {"TXDATA", "TXZLP", "TXCOMP"}
      BY <1>2, <3>1, <3>2, WriteTypes
    <3>. QED BY <3>1, <3>2, <3>3 DEF ControlStates
  <2>2. CASE tx' = EmptyTx /\ EpWrite(<<>>) /\ control' = "STATUS_IN"
    <3>1. in' = [ena |-> TRUE, nak |-> FALSE, size |-> 0, fifo |-> in.fifo]
      BY <1>2, <2>2, EmptyWrite
    <3>2. in'.fifo = in.fifo /\ 0 \in 0 .. EP0SIZE
      BY <3>1, SizeFacts
    <3>3. /\ tx'.buf = <<>> /\ tx'.pos = 0 /\ tx'.rem = 0 /\ Len(<<>>) = 0 /\ <<>> \in Seq(Units)
          /\ tx' \in [buf : Seq(Units), pos : Nat, rem : Nat]
      BY <2>2, EmptySeq DEF EmptyTx
    <3>. QED BY <1>2, <2>2, <3>1, <3>2, <3>3, SizeFacts DEF PipeTypeOK, ControlStates
  <2>3. CASE UNCHANGED <<in, tx>> /\ control' = "STATUS_IN"
    BY <1>2, <2>3 DEF PipeTypeOK, ControlStates
  <2>. QED BY <1>1, <2>1, <2>2, <2>3 DEF DeviceAnswer, Respond
<1>. QED BY <1>1, <1>2, <1>3 DEF PipeTypeOK

\* The answer to a request whose host still waits: a data packet.
LEMMA AnswerSends ==
    ASSUME OrdinaryUse, PipeInv, DeviceAnswer, InTransfer,
           request.resp = "ACK", request.dir = "in"
    PROVE  Protocol' /\ InData'
<1>0. \A a, b \in Seq(Units) : Len(a \o b) = Len(a) + Len(b)
  BY ConcatProperties
<1>1. /\ Responding /\ request \in Setups /\ setup = request
      /\ UNCHANGED <<mgrVars, packet, rxq, lastSetup, outArmed, stall, flags, evq, lost, crashed,
                     setup, rx, registered, stage, request, moved, assigned, resets>>
      /\ thread' = "loop" /\ ran'[request.id] = 1
      /\ Coming' = Coming /\ InTransfer' = InTransfer /\ InFlight' = 0
  BY AnswerFrame
<1>2. /\ registered /\ ran[request.id] = 0 /\ Coming = <<>> /\ ~Armed
  BY <1>1 DEF Responding, Overtaken
<1>3. stage = "data" /\ moved = <<>> /\ Len(moved) = 0
  BY <1>2, EmptySeq DEF PipeInv, TransferInv, Staged
<1>4. /\ request.len \in Nat /\ request.reply \in Nat /\ resets \in Nat
      /\ PipeTypeOK /\ InData /\ in.fifo \in Seq(Units) /\ Len(in.fifo) \in Nat
  BY <1>1, RequestFacts, RoomFacts, LenProperties DEF PipeInv, TransferInv, PipeTypeOK
<1>5. PICK t \in [buf : Seq(Units), pos : Nat, rem : Nat] :
         /\ t = Filled(request) /\ t.pos = 0 /\ t.rem = Wanted
         /\ t.buf = Cut(request, 0, Lesser(request.reply, TxMax))
         /\ Len(t.buf) = Lesser(request.reply, TxMax)
         /\ t.rem <= Len(t.buf) /\ Len(t.buf) <= TxMax
  BY <1>1, FilledFacts DEF Wanted
<1>6. SendData(t) /\ t.pos + t.rem <= Len(t.buf) /\ t.rem \in Nat /\ t.pos + t.rem = Wanted
  BY <1>1, <1>5 DEF DeviceAnswer, Respond
<1>7. PICK n : n = Lesser(t.rem, EP0SIZE)
  OBVIOUS
<1>8. PICK u : u = SubSeq(t.buf, t.pos + 1, t.pos + n)
  OBVIOUS
<1>9. /\ n \in Nat /\ n <= t.rem /\ n <= EP0SIZE /\ u \in Seq(Units) /\ Len(u) = n
      /\ n < EP0SIZE => n = t.rem
      /\ Len(in.fifo) + n <= TxFifoRoom
           => /\ in' = [ena |-> TRUE, nak |-> FALSE, size |-> n, fifo |-> in.fifo \o u]
              /\ tx' = [buf |-> t.buf, pos |-> t.pos + n, rem |-> t.rem - n]
              /\ control' = AfterPacket(n, t.rem - n)
      /\ ~(Len(in.fifo) + n <= TxFifoRoom)
           => in' = in /\ tx' = t
  <2>1. PipeTypeOK /\ t.pos + t.rem <= Len(t.buf) /\ Len(t.buf) <= TxMax /\ SendData(t)
    BY <1>4, <1>5, <1>6
  <2>. QED BY <1>7, <1>8, <2>1, SendDataFacts
<1>10. resets <= 1 => in.fifo = <<>>
  BY <1>2, <1>4 DEF InData, Answering
<1>11. resets <= 1 => Len(in.fifo) + n <= TxFifoRoom
  <2>. HAVE resets <= 1
  <2>1. Len(in.fifo) = 0 /\ EP0SIZE <= TxFifoRoom
    BY <1>10, EmptySeq DEF OrdinaryUse
  <2>. QED BY <1>9, <2>1, SizeFacts
<1>12. Wanted' = Wanted
  BY <1>1 DEF Wanted
<1>13. ASSUME Loaded' \/ Stuck' PROVE Protocol'
  <2>1. Executed'
    BY <1>1, <1>2, <1>13 DEF Executed
  <2>. QED BY <2>1 DEF Protocol
<1>14. CASE Len(in.fifo) + n <= TxFifoRoom
  <2>1. /\ in'.size = n /\ in'.fifo = in.fifo \o u /\ in'.ena /\ ~in'.nak
        /\ tx'.buf = t.buf /\ tx'.pos = n /\ tx'.rem = t.rem - n
        /\ control' = AfterPacket(in'.size, tx'.rem)
    BY <1>5, <1>9, <1>14
  <2>2. n <= Len(in.fifo \o u)
    <3>1. Len(in.fifo \o u) = Len(in.fifo) + n
      <4>1. in.fifo \in Seq(Units) /\ u \in Seq(Units) /\ Len(u) = n
        BY <1>4, <1>9
      <4>2. Len(in.fifo \o u) = Len(in.fifo) + Len(u)
        BY <1>0, <4>1
      <4>. QED BY <4>1, <4>2
    <3>. QED BY <1>4, <1>9, <3>1
  <2>3. tx'.pos + tx'.rem = Wanted'
    <3>1. n + (t.rem - n) = t.rem
      BY <1>6, <1>9
    <3>. QED BY <1>5, <1>12, <2>1, <3>1
  <2>4. in'.size < EP0SIZE => tx'.rem = 0
    BY <1>6, <1>9, <2>1
  <2>5. Replying'
    BY <1>1, <2>3 DEF Replying
  <2>6. Whole(Len(moved')) /\ Len(moved') + in'.size = tx'.pos
    BY <1>1, <1>3, <1>9, <2>1, WholeFacts
  <2>7. Loaded'
    BY <1>1, <1>2, <1>3, <2>1, <2>2, <2>4, <2>5, <2>6 DEF Loaded, Armed
  <2>8. InData'
    <3>1. ASSUME resets <= 1 PROVE in'.fifo = Cut(request, 0, n)
      <4>1. PICK b \in Nat : b = Lesser(request.reply, TxMax)
        BY <1>4, SizeFacts DEF Lesser
      <4>2. n <= b
        BY <1>5, <1>6, <1>9, <4>1
      <4>3. u = SubSeq(Cut(request, 0, b), 1, n)
        <5>1. t.pos + 1 = 1 /\ t.pos + n = n
          BY <1>5, <1>9
        <5>. QED BY <1>5, <1>8, <4>1, <5>1
      <4>4. u = Cut(request, 0, n)
        BY <1>1, <1>9, <4>2, <4>3, CutFirst
      <4>5. in.fifo \o u = u
        BY <1>9, <1>10, <3>1, ConcatEmptySeq
      <4>. QED BY <2>1, <4>4, <4>5
    <3>2. Answering' /\ Armed'
      BY <1>1, <2>1 DEF Answering, Armed
    <3>3. resets <= 1 => moved = Cut(request, 0, Len(moved))
      BY <1>4 DEF InData
    <3>. QED BY <1>1, <1>3, <1>5, <2>1, <3>1, <3>2, <3>3 DEF InData
  <2>. QED BY <1>13, <2>7, <2>8
<1>15. CASE ~(Len(in.fifo) + n <= TxFifoRoom)
  <2>1. in' = in /\ tx' = t /\ resets > 1
    BY <1>4, <1>9, <1>11, <1>15
  <2>2. Replying' /\ ~Armed'
    BY <1>1, <1>2, <1>6, <1>12, <2>1 DEF Replying, Armed
  <2>3. Stuck'
    BY <1>1, <1>2, <1>3, <2>1, <2>2 DEF Stuck
  <2>4. InData'
    BY <1>1, <1>4, <2>1 DEF InData
  <2>. QED BY <1>13, <2>3, <2>4
<1>. QED BY <1>14, <1>15

\* The status packet, or nothing.
LEMMA AnswerEnds ==
    ASSUME OrdinaryUse, PipeInv, DeviceAnswer, InTransfer,
           ~(request.resp = "ACK" /\ request.dir = "in")
    PROVE  Protocol' /\ InData'
<1>1. /\ Responding /\ request \in Setups /\ setup = request
      /\ UNCHANGED <<mgrVars, packet, rxq, lastSetup, outArmed, stall, flags, evq, lost, crashed,
                     setup, rx, registered, stage, request, moved, assigned, resets>>
      /\ thread' = "loop" /\ ran'[request.id] = 1
      /\ Coming' = Coming /\ InTransfer' = InTransfer /\ InFlight' = 0
  BY AnswerFrame
<1>2. /\ registered /\ ran[request.id] = 0 /\ Coming = <<>> /\ ~Armed
      /\ request.dir = "out" => stage = "status"
      /\ request.dir = "in" => stage = "data" /\ moved = <<>>
      /\ request.resp # "INVALID"
  BY <1>1 DEF Responding, Overtaken, PipeInv, TransferInv, Staged
<1>3. (request.dir = "in" \/ request.dir = "out") /\ (request.dir # "in" \/ request.dir # "out")
      /\ PipeTypeOK /\ InData
  BY <1>1, RequestFacts DEF PipeInv, TransferInv
<1>4. control' = "STATUS_IN"
  BY <1>1 DEF DeviceAnswer, Respond
<1>5. CASE request.resp = "ACK"
  <2>1. tx' = EmptyTx /\ EpWrite(<<>>) /\ request.dir = "out"
    BY <1>1, <1>3, <1>5 DEF DeviceAnswer, Respond
  <2>2. in' = [ena |-> TRUE, nak |-> FALSE, size |-> 0, fifo |-> in.fifo]
    BY <1>3, <2>1, EmptyWrite
  <2>3. in'.fifo = in.fifo /\ in'.size = 0 /\ in'.ena /\ ~in'.nak /\ tx'.rem = 0
    BY <2>1, <2>2 DEF EmptyTx
  <2>4. StatusIn'
    BY <1>1, <1>2, <1>4, <1>5, <2>1, <2>3 DEF StatusIn, Armed
  <2>5. Protocol'
    BY <1>1, <1>2, <1>5, <2>4 DEF Protocol, Executed
  <2>6. InData'
    BY <1>1, <1>3, <2>1, <2>3 DEF InData, Answering
  <2>. QED BY <2>5, <2>6
<1>6. CASE request.resp # "ACK"
  <2>1. in' = in /\ tx' = tx
    BY <1>1, <1>6 DEF DeviceAnswer, Respond
  <2>2. Refusal'
    BY <1>1, <1>2, <1>3, <1>4, <1>6, <2>1 DEF Refusal, Armed
  <2>3. Protocol'
    BY <1>1, <1>2, <2>2 DEF Protocol, Executed
  <2>4. InData'
    BY <1>1, <1>3, <1>6, <2>1 DEF InData, Answering
  <2>. QED BY <2>3, <2>4
<1>. QED BY <1>5, <1>6

\* The answer to a request that a bus reset has overtaken.
LEMMA AnswerTooLate ==
    ASSUME OrdinaryUse, PipeInv, DeviceAnswer, ~InTransfer
    PROVE  Protocol' /\ InData'
<1>1. /\ Responding
      /\ UNCHANGED <<mgrVars, packet, rxq, lastSetup, outArmed, stall, flags, evq, lost, crashed,
                     setup, rx, registered, stage, request, moved, assigned, resets>>
      /\ thread' = "loop"
      /\ Coming' = Coming /\ InTransfer' = InTransfer /\ InFlight' = 0
  BY AnswerFrame
<1>2. registered /\ resets > 1 /\ OnlyBus(0) /\ Len(Coming) \in Nat /\ resets \in Nat
  BY <1>1, RoomFacts DEF Responding, Overtaken
<1>3. Over(0)'
  BY <1>1, <1>2 DEF Over, OnlyBus, Residue
<1>4. InData'
  BY <1>1, <1>2 DEF InData
<1>. QED BY <1>3, <1>4 DEF Protocol

LEMMA AnswerKeeps ==
    ASSUME OrdinaryUse, PipeInv, DeviceAnswer
    PROVE  TransferInv'
<1>1. Protocol' /\ InData'
  BY AnswerSends, AnswerEnds, AnswerTooLate
<1>. QED BY <1>1, AnswerFrame, AnswerKeepsTypes DEF PipeInv, TransferInv

-----------------------------------------------------------------------------
(* The host's transactions.                                                  *)

\* A host gives up only a transfer that the device has refused, or whose data found no
\* room: in every other phase it would get an answer.
LEMMA GivesUpWhen ==
    ASSUME OrdinaryUse, PipeInv, HostGivesUp
    PROVE  /\ Coming = <<>> /\ rxq = <<>> /\ flags = {} /\ Executed
           /\ Refusal \/ Stuck
<1>1. InTransfer /\ Quiet /\ NoAnswer /\ ~stall
  BY DEF HostGivesUp, PipeInv, TransferInv, PipeTypeOK
<1>2. PipeTypeOK /\ RxqShape /\ rxq = <<>> /\ flags = {} /\ evq = <<>> /\ thread = "loop"
  BY <1>1 DEF Quiet, PipeInv, TransferInv, Wire
<1>3. Coming = <<>> /\ Len(Coming) = 0
  BY <1>2, ComingFacts, EmptySeq
<1>4. CanAcceptOut
  <2>1. Len(rxq) = 0 /\ outArmed /\ RxqDepth >= 2
    BY <1>1, <1>2, EmptySeq DEF PipeInv, TransferInv, Wire
  <2>2. Len(rxq) + 2 <= RxqDepth
    BY <2>1, Ep0Assumption
  <2>. QED BY <1>1, <2>1, <2>2 DEF CanAcceptOut
<1>5. ASSUME NEW n \in 0 .. 2, Announced(n) PROVE FALSE
  BY <1>3, <1>5 DEF Announced
<1>6. ASSUME NEW n \in 0 .. 2, Over(n) PROVE FALSE
  BY <1>1, <1>6 DEF Over
<1>7. ~Responding
  BY <1>2 DEF Responding
<1>8. request \in Setups /\ request.len \in Nat /\ (request.dir = "in" => request.len > 0)
  BY <1>2, RequestFacts DEF PipeTypeOK
<1>9. ~Receiving
  <2>. SUFFICES ASSUME Receiving PROVE FALSE
    OBVIOUS
  <2>1. /\ request.dir = "out" /\ InFlight = 0 /\ rx.rem > 0 /\ rx.rem <= request.len
        /\ SentOut(request.len - rx.rem)
    BY <1>3 DEF Receiving
  <2>2. rx.rem \in Nat
    BY <1>2 DEF PipeTypeOK
  <2>3. PICK k \in Nat : k = request.len - rx.rem /\ k < request.len
    BY <1>8, <2>1, <2>2
  <2>4. moved = Cut(request, 0, k)
    <3>1. At(0) = 0 /\ k + 0 = k
      BY AtFacts
    <3>2. Lesser(k, request.len) = k
      BY <1>8, <2>3 DEF Lesser
    <3>. QED BY <2>1, <2>3, <3>1, <3>2 DEF SentOut
  <2>5. Len(moved) = k
    <3>1. 0 <= k /\ k - 0 = k
      OBVIOUS
    <3>. QED BY <1>8, <2>4, <3>1, CutType
  <2>6. stage = "data"
    <3>1. stage = "status" <=> Len(moved) = request.len
      BY <1>1, <2>1 DEF PipeInv, TransferInv, Staged
    <3>. QED BY <1>1, <1>8, <2>3, <2>5, <3>1 DEF InTransfer
  <2>. QED BY <1>1, <1>4, <2>1, <2>6 DEF NoAnswer, ExpectsIn
<1>10. Executed
  BY <1>5, <1>6, <1>7, <1>9 DEF PipeInv, TransferInv, Protocol
<1>11. ~StatusIn
  BY <1>1 DEF StatusIn, NoAnswer, ExpectsIn, StatusIsOut, CanSendIn, Armed
<1>12. ~Loaded
  BY <1>1 DEF Loaded, Replying, NoAnswer, ExpectsIn, CanSendIn, Armed
<1>13. ~Fetched
  BY <1>3 DEF Fetched
<1>14. ~Delivered
  BY <1>1, <1>4, <1>8 DEF Delivered, Replying, NoAnswer, ExpectsIn, StatusIsOut
<1>. QED BY <1>2, <1>3, <1>10, <1>11, <1>12, <1>13, <1>14 DEF Executed

LEMMA GivesUpKeeps ==
    ASSUME OrdinaryUse, PipeInv, HostGivesUp
    PROVE  TransferInv'
<1>1. /\ Coming = <<>> /\ rxq = <<>> /\ flags = {} /\ Executed
      /\ Refusal \/ Stuck
  BY GivesUpWhen
<1>2. /\ InTransfer /\ stage' = "idle" /\ ~InTransfer'
      /\ UNCHANGED <<devVars, request, moved, assigned, resets, ran>>
  BY DEF HostGivesUp, InTransfer
<1>3. /\ thread = "loop" /\ registered /\ setup = request /\ InFlight = 0
      /\ request.resp # "ACK" \/ resets > 1
  BY <1>1 DEF Executed, Refusal, Stuck
<1>4. UNCHANGED <<mgrVars, packet, rxq, lastSetup, outArmed, in, stall, flags, evq, lost, crashed,
                  control, setup, tx, rx, address, registered, thread>>
  BY <1>2 DEF devVars, drvVars, coreVars
<1>5. Coming' = Coming /\ Len(Coming) = 0
  BY <1>1, <1>4, EmptySeq DEF Coming
<1>6. Ep0Inv'
  BY Ep0InvStep DEF PipeInv, TransferInv, Next
<1>7. PipeTypeOK' /\ PacketsFit' /\ resets \in Nat
  BY <1>2, <1>4, RoomFacts DEF PipeInv, TransferInv, PipeTypeOK, PacketsFit
<1>8. Wire'
  <2>1. Len(rxq') = 0 /\ rxq' = <<>> /\ flags' = {}
    BY <1>1, <1>4, EmptySeq
  <2>2. RxqShape'
    BY <2>1 DEF RxqShape
  <2>3. ~SetupPending' /\ ~DataPending' /\ Len(rxq') # 4
    BY <2>1, SmallLengths DEF SetupPending, DataPending
  <2>. QED BY <1>2, <2>1, <2>2, <2>3 DEF Wire
<1>9. Room'
  BY <1>2, <1>4, <1>5 DEF PipeInv, TransferInv, Room, InTransfer, mgrVars
<1>10. Staged'
  BY <1>2, <1>3 DEF PipeInv, TransferInv, Staged
<1>11. Addressed'
  <2>1. request.addr = NoAddr
    <3>1. request \in Setups /\ Serviceable(request) /\ (request.dir # "in" \/ request.dir # "out")
      BY RequestFacts DEF PipeInv, TransferInv, PipeTypeOK
    <3>. QED BY <1>1, <3>1 DEF Serviceable, Refusal, Stuck, Replying
  <2>2. address = assigned
    BY <1>2, <2>1 DEF PipeInv, TransferInv, Addressed
  <2>3. ~\E i \in DOMAIN Coming' : Coming'[i] = "RESET"
    BY <1>1, <1>5, EmptySeq
  <2>. QED BY <1>2, <1>4, <2>2, <2>3 DEF Addressed
<1>12. InFlight' = 0
  <2>1. queue[0] = <<>>
    BY <1>3, QueueFacts DEF PipeInv, TransferInv
  <2>2. Len(queue'[0]) = 0
    BY <1>4, <2>1, EmptySeq DEF mgrVars
  <2>. QED BY <1>2, <2>2 DEF InFlight
<1>13. Protocol'
  <2>1. Len(Coming') = 0 /\ Residue(0)'
    BY <1>5 DEF Residue
  <2>2. OnlyBus(0)'
    <3>1. \A i \in 0 + 1 .. 0 : FALSE
      OBVIOUS
    <3>. QED BY <2>1, <3>1 DEF OnlyBus
  <2>3. Over(0)'
    BY <1>2, <1>3, <1>4, <1>12, <2>1, <2>2 DEF Over
  <2>. QED BY <2>3 DEF Protocol
<1>14. InData'
  <2>. SUFFICES ASSUME resets' <= 1 PROVE InData'
    BY DEF InData
  <2>1. resets <= 1 /\ request.resp # "ACK"
    BY <1>2, <1>3, <1>7
  <2>2. in.fifo = <<>>
    BY <2>1 DEF PipeInv, TransferInv, InData, Answering
  <2>3. setup' \notin Served
    BY <1>3, <1>4, <2>1 DEF Served
  <2>. QED BY <1>2, <1>4, <2>2, <2>3 DEF InData, Answering
<1>. QED BY <1>6, <1>7, <1>8, <1>9, <1>10, <1>11, <1>13, <1>14 DEF PipeInv, TransferInv

\* The end of the status stage.
LEMMA EndedKeeps ==
    ASSUME OrdinaryUse, PipeInv, HostStatusIn \/ HostStatusOut, Executed,
           NEW n \in {1, 2}, Coming' \in Seq(Events), Len(Coming') = n, Residue(n)',
           tx.rem = 0, resets <= 1 => in'.fifo = <<>>
    PROVE  Ep0Inv' /\ PacketsFit' /\ Room' /\ Staged' /\ Addressed' /\ Protocol' /\ InData'
<1>1. /\ stage = "status" /\ Ended
      /\ UNCHANGED <<mgrVars, packet, lastSetup, stall, evq, lost, crashed>>
  BY DEF HostStatusIn, HostStatusOut
<1>2. /\ stage' = "idle" /\ assigned' = (IF request.addr = NoAddr THEN assigned ELSE request.addr)
      /\ UNCHANGED <<control, setup, tx, rx, address, registered, thread, request, moved, resets, ran>>
      /\ InTransfer /\ ~InTransfer'
  BY <1>1 DEF Ended, coreVars, InTransfer
<1>3. /\ thread = "loop" /\ registered /\ setup = request /\ InFlight = 0
  BY DEF Executed
<1>4. Ep0Inv'
  BY Ep0InvStep DEF PipeInv, TransferInv, Next, Transaction
<1>5. PacketsFit'
  BY <1>1 DEF PipeInv, TransferInv, PacketsFit
<1>6. resets # 0 /\ Staged'
  BY <1>2, <1>3 DEF PipeInv, TransferInv, Staged
<1>7. Room'
  <2>1. /\ resets \in Nat /\ MaxResets \in Nat /\ MaxResets - resets \in Nat /\ Depth \in Nat
        /\ 1 + 2 * MaxResets <= Depth
    BY RoomFacts, SizeFacts DEF OrdinaryUse
  <2>2. n + 2 * (MaxResets - resets) + 0 <= Depth
    BY <1>6, <2>1
  <2>. QED BY <1>1, <1>2, <2>2 DEF PipeInv, TransferInv, Room, mgrVars
<1>8. /\ \A i \in 1 .. n : Coming'[i] \notin Bus
      /\ DOMAIN Coming' = 1 .. n /\ Coming'[1] \notin Bus
  <2>1. DOMAIN Coming' = 1 .. n
    BY LenProperties
  <2>2. CASE n = 1
    BY <2>1, <2>2 DEF Residue, Bus
  <2>3. CASE n = 2
    BY <2>1, <2>3 DEF Residue, Bus
  <2>. QED BY <2>2, <2>3
<1>9. Addressed'
  <2>1. address = assigned'
    <3>1. ran[request.id] = 1 \/ request.addr = NoAddr
      <4>1. request \in Setups /\ Serviceable(request)
        BY RequestFacts DEF PipeInv, TransferInv, PipeTypeOK
      <4>. QED BY <4>1 DEF Serviceable, Executed
    <3>. QED BY <1>2, <3>1 DEF PipeInv, TransferInv, Addressed
  <2>2. ~\E i \in DOMAIN Coming' : Coming'[i] = "RESET"
    BY <1>8 DEF Bus
  <2>. QED BY <1>2, <2>1, <2>2 DEF Addressed
<1>10. Protocol'
  <2>1. InFlight' = 0
    <3>1. queue[0] = <<>>
      BY <1>3, QueueFacts DEF PipeInv, TransferInv
    <3>2. Len(queue'[0]) = 0
      BY <1>1, <3>1, EmptySeq DEF mgrVars
    <3>. QED BY <1>2, <3>2 DEF InFlight
  <2>2. OnlyBus(n)'
    <3>1. \A i \in n + 1 .. n : FALSE
      OBVIOUS
    <3>. QED BY <3>1 DEF OnlyBus
  <2>3. Over(n)'
    BY <1>2, <1>3, <2>1, <2>2 DEF Over
  <2>. QED BY <2>3 DEF Protocol
<1>11. InData'
  <2>1. ~OnlyBus(0)'
    <3>1. 1 \in 0 + 1 .. n
      OBVIOUS
    <3>. QED BY <1>8, <3>1 DEF OnlyBus
  <2>. QED BY <1>2, <2>1 DEF InData, Answering
<1>. QED BY <1>4, <1>5, <1>6, <1>7, <1>9, <1>10, <1>11

\* The status packet of a transfer without IN data has been written.
LEMMA StatusInWhen ==
    ASSUME OrdinaryUse, PipeInv, HostStatusIn
    PROVE  Coming = <<>> /\ Executed /\ StatusIn
<1>1. stage = "status" /\ ~StatusIsOut /\ InTransfer /\ Armed
  BY DEF HostStatusIn, CanSendIn, InTransfer, Armed
<1>2. Coming = <<>> /\ Len(Coming) = 0
  BY <1>1, ArmedIsLast, EmptySeq
<1>3. ASSUME NEW n \in 0 .. 2 PROVE ~Announced(n) /\ ~Over(n)
  BY <1>1, <1>2 DEF Announced, Over
<1>4. ~Receiving /\ ~Responding
  BY <1>1, <1>2 DEF Receiving, Responding, Overtaken
<1>5. Executed
  BY <1>3, <1>4 DEF PipeInv, TransferInv, Protocol
<1>6. ~Refusal /\ ~Loaded /\ ~Fetched /\ ~Delivered /\ ~Stuck
  BY <1>1 DEF Refusal, Loaded, Fetched, Delivered, Stuck
<1>. QED BY <1>2, <1>5, <1>6 DEF Executed

\* The host takes the empty packet.
LEMMA StatusInKeeps ==
    ASSUME OrdinaryUse, PipeInv, HostStatusIn
    PROVE  TransferInv'
<1>1. /\ stage = "status" /\ ~StatusIsOut /\ in.size = 0 /\ InTransfer /\ Armed
      /\ SendIn /\ Ended
      /\ UNCHANGED <<mgrVars, packet, rxq, lastSetup, outArmed, stall, evq, lost, crashed>>
  BY DEF HostStatusIn, CanSendIn, InTransfer, Armed
<1>2. Coming = <<>> /\ Len(Coming) = 0
  BY StatusInWhen, EmptySeq
<1>3. PipeTypeOK /\ RxqShape /\ rxq = <<>> /\ flags = {} /\ evq = <<>>
  BY <1>2, ComingFacts DEF PipeInv, TransferInv, Wire
<1>4. Executed /\ StatusIn
  BY StatusInWhen
<1>5. /\ stage' = "idle" /\ ~InTransfer'
      /\ UNCHANGED <<control, setup, tx, rx, address, registered, thread, request, moved, resets, ran>>
  BY <1>1 DEF Ended, coreVars, InTransfer
<1>6. /\ in' = [in EXCEPT !.ena = FALSE, !.fifo = SubSeq(in.fifo, in.size + 1, Len(in.fifo))]
      /\ flags' = flags \cup {"inXfrc"}
  BY <1>1 DEF SendIn
<1>7. Grown("EP_TX") /\ flags' = {"inXfrc"}
  BY <1>1, <1>2, <1>3, <1>6, SendGrows
<1>8. /\ in' \in [ena : BOOLEAN, nak : BOOLEAN, size : 0 .. EP0SIZE, fifo : Seq(Units)]
      /\ in'.fifo = in.fifo
  <2>1. in.fifo \in Seq(Units)
    BY <1>3 DEF PipeTypeOK
  <2>2. SubSeq(in.fifo, in.size + 1, Len(in.fifo)) = in.fifo
    <3>1. in.size + 1 = 1
      BY <1>1
    <3>. QED BY <2>1, <3>1, SubSeqFull
  <2>3. in' = [in EXCEPT !.ena = FALSE, !.fifo = in.fifo]
    BY <1>6, <2>2
  <2>. QED BY <1>3, <2>3 DEF PipeTypeOK
<1>9. PipeTypeOK'
  <2>1. flags' \subseteq Flags /\ \A f, g \in flags' : f = g
    BY <1>7 DEF Flags
  <2>. QED BY <1>1, <1>3, <1>5, <1>8, <2>1 DEF PipeTypeOK
<1>10. Wire'
  <2>1. Len(rxq') = 0 /\ rxq' = <<>>
    BY <1>1, <1>3, EmptySeq
  <2>2. RxqShape'
    BY <2>1 DEF RxqShape
  <2>3. ~SetupPending' /\ ~DataPending' /\ Len(rxq') # 4
    BY <2>1, SmallLengths DEF SetupPending, DataPending
  <2>4. ~Silent'
    BY <1>1, <1>3, <1>5, EmptySeq DEF Silent
  <2>. QED BY <1>5, <2>1, <2>2, <2>3, <2>4 DEF Wire
<1>11. Coming' \in Seq(Events) /\ Len(Coming') = 1 /\ Residue(1)' /\ 1 \in {1, 2}
  BY <1>2, <1>4, <1>5, <1>7 DEF Grown, Residue, StatusIn
<1>12. tx.rem = 0 /\ (resets <= 1 => in'.fifo = <<>>)
  BY <1>4, <1>8 DEF StatusIn, PipeInv, TransferInv, InData, Answering
<1>. QED BY <1>4, <1>9, <1>10, <1>11, <1>12, EndedKeeps DEF PipeInv, TransferInv

\* The receive FIFO while an OUT packet can be accepted.
LEMMA AcceptingFifo ==
    ASSUME OrdinaryUse, PipeInv, InTransfer, outArmed
    PROVE  /\ Len(rxq) = 0 \/ (Len(rxq) = 1 /\ Kind(1) = "outDone")
           /\ Len(rxq) <= 2 /\ Len(rxq) \in {0, 1}
           /\ rxq # <<>> => Coming # <<>> /\ Coming[Len(Coming)] = "EP_RX"
<1>1. PipeTypeOK /\ RxqShape /\ rxq \in Seq(Entries)
  BY DEF PipeInv, TransferInv, Wire, PipeTypeOK
<1>2. Len(rxq) = 0 \/ (Len(rxq) = 1 /\ Kind(1) = "outDone")
  BY DEF PipeInv, TransferInv, Wire
<1>3. Len(rxq) <= 2 /\ Len(rxq) \in {0, 1}
  <2>1. 0 <= 2 /\ 1 <= 2
    OBVIOUS
  <2>. QED BY <1>2, <2>1
<1>4. ASSUME rxq # <<>> PROVE Coming # <<>> /\ Coming[Len(Coming)] = "EP_RX"
  <2>1. Len(rxq) # 0
    BY <1>1, <1>4, EmptySeq
  <2>2. LastEvent = "EP_RX"
    BY <1>2, <2>1 DEF LastEvent
  <2>. QED BY <1>1, <1>4, <2>2, ComingFacts
<1>. QED BY <1>2, <1>3, <1>4

\* The host ends a data stage that came from the device.
LEMMA StatusOutWhen ==
    ASSUME OrdinaryUse, PipeInv, HostStatusOut
    PROVE  /\ Executed /\ (Fetched \/ Delivered)
           /\ rxq = <<>> /\ \A i \in DOMAIN evq : evq[i] \notin Bus
<1>1. /\ stage = "status" /\ StatusIsOut /\ InTransfer /\ CanAcceptOut /\ outArmed
  BY DEF HostStatusOut, CanAcceptOut, InTransfer
<1>2. PipeTypeOK /\ RxqShape /\ request \in Setups /\ request.dir = "in" /\ request.dir # "out"
  BY <1>1, RequestFacts DEF PipeInv, TransferInv, Wire, PipeTypeOK, StatusIsOut
<1>3. ran[request.id] # 0
  BY <1>1, <1>2 DEF PipeInv, TransferInv, Staged
<1>4. Executed
  BY <1>1, <1>3 DEF PipeInv, TransferInv, Protocol, Announced, Over, Receiving, Responding
<1>5. Fetched \/ Delivered
  BY <1>1, <1>2, <1>4 DEF Executed, Refusal, StatusIn, Loaded, Stuck
<1>6. Len(Coming) \in Nat /\ Len(Coming) <= 1
      /\ \A i \in 1 .. Len(Coming) : Coming[i] = "EP_TX"
  <2>1. CASE Coming = <<>>
    BY <2>1, EmptySeq
  <2>2. CASE Len(Coming) = 1 /\ Coming[1] = "EP_TX"
    BY <2>2
  <2>. QED BY <1>5, <2>1, <2>2 DEF Fetched, Delivered
<1>7. rxq = <<>>
  <2>1. ASSUME rxq # <<>> PROVE FALSE
    <3>1. Coming # <<>> /\ Coming[Len(Coming)] = "EP_RX" /\ Coming \in Seq(Events)
      BY <1>1, <2>1, AcceptingFifo, RoomFacts
    <3>2. Len(Coming) # 0
      BY <3>1, EmptySeq
    <3>3. Len(Coming) \in 1 .. Len(Coming)
      BY <1>6, <3>2
    <3>. QED BY <1>6, <3>1, <3>3
  <2>. QED BY <2>1
<1>8. ASSUME NEW i \in DOMAIN evq PROVE evq[i] \notin Bus
  <2>1. /\ evq \in Seq(Events) /\ Len(evq) \in Nat /\ Len(evq) <= Len(Coming)
        /\ \A k \in 1 .. Len(evq) : Coming[k] = evq[k]
    BY <1>2, ComingFacts DEF PipeTypeOK
  <2>2. i \in 1 .. Len(evq)
    BY <2>1, LenProperties
  <2>3. i \in 1 .. Len(Coming)
    BY <1>6, <2>1, <2>2
  <2>. QED BY <1>6, <2>1, <2>2, <2>3 DEF Bus
<1>. QED BY <1>4, <1>5, <1>7, <1>8

LEMMA StatusOutKeeps ==
    ASSUME OrdinaryUse, PipeInv, HostStatusOut
    PROVE  TransferInv'
<1>1. /\ stage = "status" /\ AcceptOut(request, <<>>) /\ Ended
      /\ UNCHANGED <<mgrVars, packet, lastSetup, in, stall, flags, evq, lost, crashed>>
  BY DEF HostStatusOut
<1>2. /\ Executed /\ (Fetched \/ Delivered)
      /\ rxq = <<>> /\ \A i \in DOMAIN evq : evq[i] \notin Bus
  BY StatusOutWhen
<1>3. PipeTypeOK /\ RxqShape /\ request \in Setups /\ Len(rxq) = 0
  BY <1>2, EmptySeq DEF PipeInv, TransferInv, Wire, PipeTypeOK
<1>4. PICK x \in Entries : x = Entry("data", request, <<>>)
  BY <1>3, EmptySeq DEF Entry, Entries
<1>5. PICK y \in Entries : y = Entry("outDone", request, <<>>)
  BY <1>3, EmptySeq DEF Entry, Entries
<1>6. x.kind = "data" /\ y.kind = "outDone" /\ x.units = <<>>
  BY <1>4, <1>5 DEF Entry
<1>7. /\ Grown("EP_RX") /\ rxq' \in Seq(Entries) /\ Len(rxq') = Len(rxq) + 2
      /\ rxq'[Len(rxq) + 1] = x /\ rxq'[Len(rxq) + 2] = y
  <2>1. /\ rxq' = rxq \o <<x, y>> /\ UNCHANGED <<evq, flags>> /\ Len(rxq) <= 2
        /\ x.kind \in {"setup", "data"} /\ y.kind \in {"setupDone", "outDone"}
        /\ y.kind # "setupDone"
    BY <1>1, <1>3, <1>4, <1>5, <1>6 DEF AcceptOut
  <2>. QED BY <1>3, <2>1, AcceptGrows
<1>8. Len(rxq') = 2 /\ rxq'[1] = x /\ rxq'[2] = y /\ outArmed' = FALSE
  <2>1. 0 + 2 = 2 /\ 0 + 1 = 1
    OBVIOUS
  <2>. QED BY <1>1, <1>3, <1>7, <2>1 DEF AcceptOut
<1>9. /\ stage' = "idle" /\ ~InTransfer'
      /\ UNCHANGED <<control, setup, tx, rx, address, registered, thread, request, moved, resets, ran>>
  BY <1>1 DEF Ended, coreVars, InTransfer
<1>10. PipeTypeOK'
  BY <1>1, <1>3, <1>7, <1>8, <1>9 DEF PipeTypeOK
<1>11. Wire'
  <2>1. Kind(1)' = "data" /\ Kind(2)' = "outDone"
    BY <1>6, <1>8 DEF Kind
  <2>2. RxqShape'
    BY <1>8, <2>1 DEF RxqShape
  <2>3. ~SetupPending' /\ Newest' = x
    <3>1. Len(rxq') - 1 = 1
      BY <1>8, SmallLengths
    <3>2. Newest' = x
      BY <1>8, <3>1 DEF Newest
    <3>. QED BY <1>6, <3>2 DEF SetupPending
  <2>4. ~Silent'
    BY <1>1, <1>2, <1>9 DEF Silent
  <2>5. Len(rxq') # 4
    BY <1>8, SmallLengths
  <2>. QED BY <1>6, <1>8, <1>9, <2>1, <2>2, <2>3, <2>4, <2>5 DEF Wire
<1>12. tx.rem = 0 /\ ~Armed
  <2>1. CASE Fetched
    BY <1>1, <2>1 DEF Fetched
  <2>2. CASE Delivered
    BY <2>2 DEF Delivered
  <2>. QED BY <1>2, <2>1, <2>2
<1>13. resets <= 1 => in'.fifo = <<>>
  BY <1>1, <1>12 DEF PipeInv, TransferInv, InData
<1>14. CASE Fetched
  <2>1. Len(Coming) = 1 /\ Coming[1] = "EP_TX" /\ control = "TXCOMP" /\ 1 + 1 = 2
    BY <1>1, <1>14 DEF Fetched
  <2>2. Coming' \in Seq(Events) /\ Len(Coming') = 2 /\ Coming'[1] = "EP_TX" /\ Coming'[2] = "EP_RX"
    <3>1. 1 \in 1 .. 1
      OBVIOUS
    <3>. QED BY <1>7, <2>1, <3>1 DEF Grown
  <2>3. Residue(2)' /\ 2 \in {1, 2}
    BY <1>9, <2>1, <2>2 DEF Residue
  <2>4. Ep0Inv' /\ PacketsFit' /\ Room' /\ Staged' /\ Addressed' /\ Protocol' /\ InData'
    BY <1>2, <1>12, <1>13, <2>2, <2>3, EndedKeeps
  <2>. QED BY <1>10, <1>11, <2>4 DEF PipeInv, TransferInv
<1>15. CASE Delivered
  <2>1. Len(Coming) = 0 /\ control = "STATUS_OUT" /\ 0 + 1 = 1
    BY <1>15, EmptySeq DEF Delivered
  <2>2. Coming' \in Seq(Events) /\ Len(Coming') = 1 /\ Coming'[1] = "EP_RX"
    BY <1>7, <2>1 DEF Grown
  <2>3. Residue(1)' /\ 1 \in {1, 2}
    BY <1>9, <2>1, <2>2 DEF Residue
  <2>4. Ep0Inv' /\ PacketsFit' /\ Room' /\ Staged' /\ Addressed' /\ Protocol' /\ InData'
    BY <1>2, <1>12, <1>13, <2>2, <2>3, EndedKeeps
  <2>. QED BY <1>10, <1>11, <2>4 DEF PipeInv, TransferInv
<1>. QED BY <1>2, <1>14, <1>15

\* The host takes a data packet, the one that was written for it.
LEMMA InWhen ==
    ASSUME OrdinaryUse, PipeInv, HostIn
    PROVE  /\ InTransfer /\ InTransfer' /\ Armed /\ Executed /\ Loaded
           /\ Coming = <<>> /\ Len(Coming) = 0 /\ rxq = <<>> /\ flags = {} /\ evq = <<>>
<1>1. stage = "data" /\ request.dir = "in" /\ CanSendIn /\ InTransfer /\ InTransfer' /\ Armed
  BY DEF HostIn, CanSendIn, InTransfer, Armed
<1>2. Coming = <<>> /\ Len(Coming) = 0
  BY <1>1, ArmedIsLast, EmptySeq
<1>3. rxq = <<>> /\ flags = {} /\ evq = <<>>
  BY <1>2, ComingFacts DEF PipeInv, TransferInv, Wire
<1>4. Executed
  <2>1. ASSUME NEW n \in 0 .. 2 PROVE ~Announced(n) /\ ~Over(n)
    BY <1>1, <1>2 DEF Announced, Over
  <2>2. ~Receiving /\ ~Responding
    BY <1>1, <1>2 DEF Receiving, Responding, Overtaken
  <2>. QED BY <2>1, <2>2 DEF PipeInv, TransferInv, Protocol
<1>5. request.dir # "out"
  BY <1>1
<1>6. Loaded
  BY <1>1, <1>4, <1>5 DEF Executed, Refusal, StatusIn, Fetched, Delivered, Stuck
<1>. QED BY <1>1, <1>2, <1>3, <1>4, <1>6

\* The packet, and the end of the data stage.
LEMMA InMoves ==
    ASSUME OrdinaryUse, PipeInv, HostIn
    PROVE  /\ Fetched'
           /\ moved' \in Seq(Units) /\ Len(moved') = tx.pos
           /\ in' \in [ena : BOOLEAN, nak : BOOLEAN, size : 0 .. EP0SIZE, fifo : Seq(Units)]
           /\ Len(in'.fifo) <= TxFifoRoom /\ ~Armed'
           /\ flags' = {"inXfrc"}
           /\ resets <= 1 => moved' = Cut(request, 0, tx.pos) /\ in'.fifo = <<>>
<1>1. /\ stage = "data" /\ SendIn /\ moved' = moved \o InPacket
      /\ stage' = (IF Len(moved \o InPacket) >= request.len \/ in.size < EP0SIZE
                   THEN "status" ELSE "data")
      /\ UNCHANGED <<mgrVars, packet, rxq, lastSetup, outArmed, stall, evq, lost, crashed, coreVars,
                     request, assigned, resets, ran>>
  BY DEF HostIn
<1>2. /\ InTransfer /\ Armed /\ Executed /\ Loaded
      /\ Coming = <<>> /\ Len(Coming) = 0 /\ rxq = <<>> /\ flags = {} /\ evq = <<>>
  BY InWhen
<1>3. /\ PipeTypeOK /\ RxqShape
      /\ request \in Setups /\ request.len \in Nat /\ request.reply \in Nat /\ Serviceable(request)
      /\ request.dir = "in" /\ request.resp = "ACK"
  BY <1>2, RequestFacts DEF PipeInv, TransferInv, Wire, PipeTypeOK, Loaded, Replying
<1>4. /\ tx.pos + tx.rem = Wanted
      /\ Whole(Len(moved)) /\ in.size <= Len(in.fifo) /\ Len(moved) + in.size = tx.pos
      /\ in.size < EP0SIZE => tx.rem = 0
      /\ control = AfterPacket(in.size, tx.rem)
  BY <1>2 DEF Loaded, Replying
<1>5. UNCHANGED <<control, setup, tx, rx, address, registered, thread>>
  BY <1>1 DEF coreVars
<1>6. /\ in.fifo \in Seq(Units) /\ Len(in.fifo) \in Nat
      /\ moved \in Seq(Units) /\ Len(moved) \in Nat
      /\ in.size \in Nat /\ in.size <= EP0SIZE /\ tx.pos \in Nat /\ tx.rem \in Nat
      /\ Len(in.fifo) <= TxFifoRoom
      /\ EP0SIZE \in Nat /\ EP0SIZE > 0
  BY <1>3, LenProperties, SizeFacts DEF PipeTypeOK
<1>7. PICK k \in Nat : k = in.size /\ k <= Len(in.fifo)
  BY <1>4, <1>6
<1>8. PICK l \in Nat : l = Len(in.fifo)
  BY <1>6
<1>9. InPacket \in Seq(Units) /\ Len(InPacket) = in.size
  <2>1. 1 \in 1 .. Len(in.fifo) + 1 /\ k \in 0 .. Len(in.fifo)
    BY <1>6, <1>7
  <2>2. SubSeq(in.fifo, 1, k) \in Seq(Units)
        /\ Len(SubSeq(in.fifo, 1, k)) = (IF 1 <= k THEN k - 1 + 1 ELSE 0)
    BY <1>6, <2>1, SubSeqProperties
  <2>3. (IF 1 <= k THEN k - 1 + 1 ELSE 0) = k
    OBVIOUS
  <2>. QED BY <1>7, <2>2, <2>3 DEF InPacket
<1>10. moved' \in Seq(Units) /\ Len(moved') = tx.pos
  <2>1. \A a, b \in Seq(Units) : a \o b \in Seq(Units) /\ Len(a \o b) = Len(a) + Len(b)
    BY ConcatProperties
  <2>. QED BY <1>1, <1>4, <1>6, <1>9, <2>1
<1>11. in' = [in EXCEPT !.ena = FALSE, !.fifo = SubSeq(in.fifo, k + 1, l)]
       /\ flags' = flags \cup {"inXfrc"}
  BY <1>1, <1>7, <1>8 DEF SendIn
<1>12. SubSeq(in.fifo, k + 1, l) \in Seq(Units) /\ Len(SubSeq(in.fifo, k + 1, l)) <= l
       /\ (k = l => Len(SubSeq(in.fifo, k + 1, l)) = 0)
  <2>1. k + 1 \in 1 .. Len(in.fifo) + 1 /\ l \in 0 .. Len(in.fifo)
    BY <1>6, <1>7, <1>8
  <2>2. SubSeq(in.fifo, k + 1, l) \in Seq(Units)
        /\ Len(SubSeq(in.fifo, k + 1, l)) = (IF k + 1 <= l THEN l - (k + 1) + 1 ELSE 0)
    BY <1>6, <2>1, SubSeqProperties
  <2>3. (IF k + 1 <= l THEN l - (k + 1) + 1 ELSE 0) <= l
    OBVIOUS
  <2>4. k = l => (IF k + 1 <= l THEN l - (k + 1) + 1 ELSE 0) = 0
    OBVIOUS
  <2>. QED BY <2>2, <2>3, <2>4
<1>13. /\ in' \in [ena : BOOLEAN, nak : BOOLEAN, size : 0 .. EP0SIZE, fifo : Seq(Units)]
       /\ in'.ena = FALSE /\ in'.fifo = SubSeq(in.fifo, k + 1, l)
  BY <1>3, <1>11, <1>12 DEF PipeTypeOK
<1>14. Len(in'.fifo) <= TxFifoRoom
  <2>1. \A a, b, c \in Nat : a <= b /\ b <= c => a <= c
    OBVIOUS
  <2>2. Len(in'.fifo) \in Nat
    BY <1>13, LenProperties
  <2>. QED BY <1>6, <1>8, <1>12, <1>13, <2>1, <2>2, SizeFacts
<1>15. Grown("EP_TX") /\ flags' = {"inXfrc"}
  BY <1>1, <1>2, <1>3, <1>11, SendGrows
<1>16. Len(Coming') = 1 /\ Coming'[1] = "EP_TX" /\ ~Armed'
  BY <1>2, <1>13, <1>15 DEF Grown, Armed
<1>17. Replying'
  BY <1>1, <1>2, <1>5 DEF Loaded, Replying, Wanted
<1>18. Whole(Len(moved) + EP0SIZE)
  BY <1>4, <1>6, WholeFacts
<1>19. ASSUME in.size < EP0SIZE PROVE Fetched'
  <2>1. stage' = "status" /\ tx.rem = 0 /\ in.size # EP0SIZE
    BY <1>1, <1>4, <1>6, <1>19
  <2>2. control' = "TXCOMP"
    BY <1>4, <1>5, <2>1 DEF AfterPacket
  <2>3. Len(moved') = tx'.pos /\ tx'.rem = 0
    BY <1>5, <1>10, <2>1
  <2>. QED BY <1>16, <1>17, <2>1, <2>2, <2>3 DEF Fetched
<1>20. ASSUME in.size = EP0SIZE PROVE Fetched'
  <2>1. ~(tx.pos >= request.len)
    <3>. SUFFICES ASSUME tx.pos >= request.len PROVE FALSE
      OBVIOUS
    <3>1. tx.pos = request.len /\ request.len <= request.reply
      BY <1>3, <1>4, <1>6 DEF Wanted, Lesser
    <3>2. Whole(request.len)
      BY <1>4, <1>18, <1>20, <3>1
    <3>. QED BY <1>3, <3>1, <3>2 DEF Serviceable
  <2>2. stage' = "data"
    BY <1>1, <1>6, <1>10, <1>20, <2>1
  <2>3. Whole(Len(moved'))
    BY <1>4, <1>10, <1>18, <1>20
  <2>4. control' = IF tx'.rem > 0 THEN "TXDATA" ELSE "TXZLP"
    BY <1>4, <1>5, <1>20 DEF AfterPacket
  <2>5. Len(moved') = tx'.pos
    BY <1>5, <1>10
  <2>. QED BY <1>16, <1>17, <2>2, <2>3, <2>4, <2>5 DEF Fetched
<1>21. ASSUME resets <= 1
       PROVE  moved' = Cut(request, 0, tx.pos) /\ in'.fifo = <<>>
  <2>1. PICK a \in Nat : a = Len(moved)
    BY <1>6
  <2>2. PICK b \in Nat : b = tx.pos
    BY <1>6
  <2>3. a + k = b /\ a <= b /\ b - a = k /\ 0 <= a
    BY <1>4, <1>7, <2>1, <2>2
  <2>4. Answering
    BY <1>2, <1>3 DEF Answering, Executed
  <2>5. moved = Cut(request, 0, a) /\ in.fifo = Cut(request, a, b)
    BY <1>2, <1>3, <1>21, <2>1, <2>2, <2>4 DEF PipeInv, TransferInv, InData
  <2>6. Len(in.fifo) = k
    BY <1>3, <2>3, <2>5, CutType
  <2>7. InPacket = in.fifo
    BY <1>6, <1>7, <2>6, SubSeqFull DEF InPacket
  <2>8. Cut(request, 0, a) \o Cut(request, a, b) = Cut(request, 0, b)
    BY <1>3, <2>3, CutJoins
  <2>9. moved' = Cut(request, 0, b)
    BY <1>1, <2>5, <2>7, <2>8
  <2>10. in'.fifo = <<>>
    BY <1>8, <1>12, <1>13, <2>6, EmptySeq
  <2>. QED BY <2>2, <2>9, <2>10
<1>22. Fetched'
  BY <1>6, <1>19, <1>20
<1>. QED BY <1>10, <1>13, <1>14, <1>15, <1>16, <1>21, <1>22

LEMMA InKeeps ==
    ASSUME OrdinaryUse, PipeInv, HostIn
    PROVE  TransferInv'
<1>1. /\ stage' \in {"data", "status"}
      /\ UNCHANGED <<mgrVars, packet, rxq, lastSetup, outArmed, stall, evq, lost, crashed, coreVars,
                     request, assigned, resets, ran>>
  BY DEF HostIn
<1>2. /\ InTransfer /\ InTransfer' /\ Armed /\ Executed /\ Loaded
      /\ Coming = <<>> /\ Len(Coming) = 0 /\ rxq = <<>> /\ flags = {} /\ evq = <<>>
  BY InWhen
<1>3. /\ Fetched'
      /\ moved' \in Seq(Units) /\ Len(moved') = tx.pos
      /\ in' \in [ena : BOOLEAN, nak : BOOLEAN, size : 0 .. EP0SIZE, fifo : Seq(Units)]
      /\ Len(in'.fifo) <= TxFifoRoom /\ ~Armed'
      /\ flags' = {"inXfrc"}
      /\ resets <= 1 => moved' = Cut(request, 0, tx.pos) /\ in'.fifo = <<>>
  BY InMoves
<1>4. UNCHANGED <<control, setup, tx, rx, address, registered, thread>>
  BY <1>1 DEF coreVars
<1>5. /\ registered /\ ran[request.id] = 1 /\ setup = request /\ thread = "loop"
      /\ request.dir = "in" /\ request.dir # "out" /\ InFlight = 0
  BY <1>2 DEF Executed, Loaded, Replying
<1>6. Ep0Inv'
  BY Ep0InvStep DEF PipeInv, TransferInv, Next, Transaction
<1>7. PipeTypeOK' /\ PacketsFit'
  <2>1. flags' \subseteq Flags /\ \A f, g \in flags' : f = g
    BY <1>3 DEF Flags
  <2>. QED BY <1>1, <1>3, <1>4, <2>1 DEF PipeInv, TransferInv, PipeTypeOK, PacketsFit
<1>8. Wire'
  <2>1. ~Silent'
    BY <1>1, <1>2, EmptySeq DEF Silent
  <2>2. Wire
    BY DEF PipeInv, TransferInv
  <2>. QED BY <1>1, <1>2, <2>1, <2>2 DEF Wire, RxqShape, SetupPending, DataPending, Newest, Kind
<1>9. resets # 0 /\ Staged'
  BY <1>1, <1>4, <1>5 DEF PipeInv, TransferInv, Staged
<1>10. Room'
  <2>1. /\ resets \in Nat /\ MaxResets \in Nat /\ MaxResets - resets \in Nat /\ Depth \in Nat
        /\ 1 + 2 * MaxResets <= Depth
    BY RoomFacts, SizeFacts DEF OrdinaryUse
  <2>2. Len(Coming') = 1 /\ stage' # "reset"
    BY <1>1, <1>3 DEF Fetched
  <2>3. 1 + 2 * (MaxResets - resets) + 0 <= Depth
    BY <2>1
  <2>. QED BY <1>1, <2>2, <2>3 DEF PipeInv, TransferInv, Room, mgrVars
<1>11. Addressed'
  BY <1>1, <1>2, <1>4 DEF PipeInv, TransferInv, Addressed
<1>12. InFlight' = 0
  BY <1>1, <1>2, <1>5 DEF InFlight, DataPending, Newest, mgrVars
<1>13. Protocol'
  BY <1>1, <1>2, <1>3, <1>4, <1>5, <1>12 DEF Protocol, Executed
<1>14. InData'
  BY <1>1, <1>2, <1>3, <1>4, <1>5 DEF PipeInv, TransferInv, InData, Answering
<1>. QED BY <1>6, <1>7, <1>8, <1>9, <1>10, <1>11, <1>13, <1>14 DEF PipeInv, TransferInv

-----------------------------------------------------------------------------
(* The bus: enumeration and reset.                                           *)

\* One more event of the bus, behind the others.
LEMMA GrownFacts ==
    ASSUME NEW e \in Bus, Grown(e), Len(Coming) \in Nat
    PROVE  /\ \A n \in Nat : OnlyBus(n) => OnlyBus(n)'
           /\ OnlyBus(0)' => OnlyBus(0)
           /\ Len(Coming') = Len(Coming) + 1 /\ Len(Coming') \in Nat
           /\ \A n \in Nat : n < Len(Coming) => Coming'[n + 1] = Coming[n + 1]
           /\ Coming'[Len(Coming')] = e
           /\ \A i \in 1 .. Len(Coming') : i \in 1 .. Len(Coming) \/ Coming'[i] = e
<1>1. /\ Len(Coming') = Len(Coming) + 1
      /\ \A i \in 1 .. Len(Coming) : Coming'[i] = Coming[i]
      /\ Coming'[Len(Coming) + 1] = e
  BY DEF Grown
<1>2. ASSUME NEW n \in Nat, OnlyBus(n) PROVE OnlyBus(n)'
  <2>1. ASSUME NEW i \in n + 1 .. Len(Coming') PROVE Coming'[i] \in Bus
    <3>1. CASE i <= Len(Coming)
      <4>1. i \in 1 .. Len(Coming) /\ i \in n + 1 .. Len(Coming)
        BY <1>1, <3>1
      <4>. QED BY <1>1, <1>2, <4>1 DEF OnlyBus
    <3>2. CASE ~(i <= Len(Coming))
      <4>1. i = Len(Coming) + 1
        BY <1>1, <3>2
      <4>. QED BY <1>1, <4>1
    <3>. QED BY <3>1, <3>2
  <2>. QED BY <2>1 DEF OnlyBus
<1>3. ASSUME OnlyBus(0)' PROVE OnlyBus(0)
  <2>1. ASSUME NEW i \in 0 + 1 .. Len(Coming) PROVE Coming[i] \in Bus
    <3>1. i \in 1 .. Len(Coming) /\ i \in 0 + 1 .. Len(Coming')
      BY <1>1
    <3>. QED BY <1>1, <1>3, <3>1 DEF OnlyBus
  <2>. QED BY <2>1 DEF OnlyBus
<1>4. ASSUME NEW n \in Nat, n < Len(Coming) PROVE Coming'[n + 1] = Coming[n + 1]
  <2>1. n + 1 \in 1 .. Len(Coming)
    BY <1>4
  <2>. QED BY <1>1, <2>1
<1>5. \A i \in 1 .. Len(Coming') : i \in 1 .. Len(Coming) \/ Coming'[i] = e
  <2>. TAKE i \in 1 .. Len(Coming')
  <2>1. i \in 1 .. Len(Coming) \/ i = Len(Coming) + 1
    BY <1>1
  <2>. QED BY <1>1, <2>1
<1>6. Len(Coming') \in Nat
  BY <1>1
<1>. QED BY <1>1, <1>2, <1>3, <1>4, <1>5, <1>6

\* Without a transfer an event of the bus changes no phase.
LEMMA BusGrows ==
    ASSUME PipeInv, ~InTransfer, ~InTransfer', NEW e \in Bus, Grown(e),
           UNCHANGED <<coreVars, request, ran, lastSetup, queue>>,
           resets' \in Nat, resets' >= resets,
           stage' = "idle" => e = "ENUM_DONE"
    PROVE  Protocol'
<1>1. /\ Len(Coming) \in Nat /\ resets \in Nat
  BY RoomFacts
<1>2. /\ \A n \in Nat : OnlyBus(n) => OnlyBus(n)'
      /\ Len(Coming') = Len(Coming) + 1 /\ Len(Coming') \in Nat
      /\ \A n \in Nat : n < Len(Coming) => Coming'[n + 1] = Coming[n + 1]
      /\ Coming'[Len(Coming')] = e
  BY <1>1, GrownFacts
<1>3. UNCHANGED <<control, setup, tx, rx, address, registered, thread>>
  BY DEF coreVars
<1>4. InFlight' = InFlight
  BY DEF InFlight
<1>5. \A n \in 0 .. 2 : Residue(n) /\ Len(Coming) >= n => Residue(n)'
  <2>. TAKE n \in 0 .. 2
  <2>. HAVE Residue(n) /\ Len(Coming) >= n
  <2>1. n >= 1 => Coming'[1] = Coming[1]
    <3>1. n >= 1 => 0 < Len(Coming) /\ 0 + 1 = 1
      BY <1>1
    <3>. QED BY <1>2, <3>1
  <2>2. n = 2 => Coming'[2] = Coming[2]
    <3>1. n = 2 => 1 < Len(Coming) /\ 1 + 1 = 2
      BY <1>1
    <3>. QED BY <1>2, <3>1
  <2>3. (n = 1 => n >= 1) /\ (n = 2 => n >= 1)
    OBVIOUS
  <2>. QED BY <1>3, <2>1, <2>2, <2>3 DEF Residue
<1>6. ASSUME NEW n \in Nat, Overtaken(n) PROVE Overtaken(n)'
  <2>1. resets' > 1 /\ Len(Coming') > n
    BY <1>1, <1>2, <1>6 DEF Overtaken
  <2>. QED BY <1>2, <1>6, <2>1 DEF Overtaken
<1>7. ASSUME NEW n \in 0 .. 2, Announced(n) PROVE Announced(n)'
  <2>1. /\ thread = "loop" /\ registered /\ ran[request.id] = 0
        /\ Len(Coming) > n /\ Residue(n) /\ Coming[n + 1] = "CTRL_SETUP_PHASE_DONE"
        /\ lastSetup = request \/ SetupPending
        /\ Overtaken(n + 1) /\ InFlight = 0
    BY <1>7 DEF Announced
  <2>2. lastSetup = request
    BY <2>1 DEF PipeInv, TransferInv, Wire
  <2>3. /\ Len(Coming') > n /\ Residue(n)' /\ Coming'[n + 1] = "CTRL_SETUP_PHASE_DONE"
    BY <1>1, <1>2, <1>5, <2>1
  <2>4. Overtaken(n + 1)'
    <3>1. PICK m \in Nat : m = n + 1
      OBVIOUS
    <3>2. Overtaken(m)'
      BY <1>6, <2>1, <3>1
    <3>. QED BY <3>1, <3>2
  <2>. QED BY <1>3, <1>4, <2>1, <2>2, <2>3, <2>4 DEF Announced
<1>8. ~Receiving /\ ~Executed
  BY DEF Receiving, Executed
<1>9. ASSUME Responding PROVE Responding'
  <2>1. Overtaken(0) /\ ~InTransfer
    BY <1>9 DEF Responding
  <2>2. Overtaken(0)'
    BY <1>6, <2>1
  <2>. QED BY <1>3, <1>4, <1>9, <2>2 DEF Responding
<1>10. ASSUME NEW n \in 0 .. 2, Over(n) PROVE Over(n)'
  <2>1. /\ thread = "loop" /\ InFlight = 0
        /\ registered \/ n = 0
        /\ Len(Coming) >= n /\ OnlyBus(n)
        /\ Residue(n) \/ (n = 1 /\ Coming[1] = "EP_TX" /\ Len(Coming) > 1 /\ resets > 1)
    BY <1>10 DEF Over
  <2>2. Len(Coming') >= n /\ OnlyBus(n)' /\ Len(Coming') > 0
    BY <1>1, <1>2, <2>1
  <2>3. Residue(n)' \/ (n = 1 /\ Coming'[1] = "EP_TX" /\ Len(Coming') > 1 /\ resets' > 1)
    <3>1. CASE Residue(n)
      BY <1>5, <2>1, <3>1
    <3>2. CASE n = 1 /\ Coming[1] = "EP_TX" /\ Len(Coming) > 1 /\ resets > 1
      <4>1. 0 < Len(Coming) /\ 0 + 1 = 1 /\ Len(Coming') > 1 /\ resets' > 1
        BY <1>1, <1>2, <3>2
      <4>. QED BY <1>2, <3>2, <4>1
    <3>. QED BY <2>1, <3>1, <3>2
  <2>. QED BY <1>2, <1>3, <1>4, <2>1, <2>2, <2>3 DEF Over
<1>. QED BY <1>7, <1>8, <1>9, <1>10 DEF PipeInv, TransferInv, Protocol

\* Enumeration done.
LEMMA EnumKeeps ==
    ASSUME OrdinaryUse, PipeInv, EnumDone
    PROVE  TransferInv'
<1>1. /\ stage = "reset" /\ stage' = "idle" /\ Push(<<"ENUM_DONE">>, FALSE, <<>>)
      /\ UNCHANGED <<mgrVars, packet, rxq, lastSetup, outArmed, in, stall, flags, crashed, coreVars,
                     request, moved, assigned, resets, ran>>
      /\ ~InTransfer /\ ~InTransfer'
  BY DEF EnumDone, PollEnumDone, InTransfer
<1>2. PipeTypeOK /\ RxqShape /\ rxq = <<>> /\ flags = {} /\ resets # 0
  BY <1>1 DEF PipeInv, TransferInv, Wire, Silent, Staged
<1>3. Coming = evq /\ Len(Coming) \in Nat /\ Coming \in Seq(Events)
  BY <1>2, ComingFacts
<1>4. /\ Len(Coming) + 2 * (MaxResets - resets) + 1 <= Depth /\ active[0] # NoBuf
      /\ MaxResets - resets \in Nat /\ Depth \in Nat /\ resets \in Nat
  BY <1>1, RoomFacts, SizeFacts DEF PipeInv, TransferInv, Room
<1>5. evq' = evq \o <<"ENUM_DONE">> /\ evq' \in Seq(Events) /\ ~lost'
  <2>1. "ENUM_DONE" \in Events /\ Len(evq) + 1 <= Depth
    BY <1>3, <1>4 DEF Events
  <2>. QED BY <1>1, <1>2, <2>1, PushInRoom
<1>6. Grown("ENUM_DONE") /\ "ENUM_DONE" \in Bus
  <2>1. "ENUM_DONE" \in Events /\ rxq' = <<>> /\ flags' = {}
    BY <1>1, <1>2 DEF Events
  <2>2. /\ Coming' \in Seq(Events) /\ Len(Coming') = Len(evq) + 1
        /\ \A i \in 1 .. Len(evq) : Coming'[i] = evq[i]
        /\ Coming'[Len(evq) + 1] = "ENUM_DONE"
    BY <1>2, <1>5, <2>1, ResetComing
  <2>. QED BY <1>3, <2>2 DEF Grown, Bus
<1>7. UNCHANGED <<control, setup, tx, rx, address, registered, thread>>
  BY <1>1 DEF coreVars
<1>8. Ep0Inv'
  BY Ep0InvStep DEF PipeInv, TransferInv, Next
<1>9. PipeTypeOK' /\ PacketsFit'
  BY <1>1, <1>5, <1>7 DEF PipeInv, TransferInv, PipeTypeOK, PacketsFit
<1>10. Wire'
  <2>1. Wire /\ flags' = {} /\ rxq' = <<>>
    BY <1>1, <1>2 DEF PipeInv, TransferInv
  <2>. QED BY <1>1, <2>1 DEF Wire, RxqShape, SetupPending, DataPending, Newest, Kind
<1>11. Room'
  <2>1. Len(Coming') = Len(Coming) + 1 /\ stage' # "reset"
    BY <1>1, <1>6 DEF Grown
  <2>2. Len(Coming) + 1 + 2 * (MaxResets - resets) + 0 <= Depth
    BY <1>3, <1>4
  <2>. QED BY <1>1, <1>4, <2>1, <2>2 DEF Room, mgrVars
<1>12. Staged'
  BY <1>1, <1>2 DEF Staged
<1>13. /\ DOMAIN Coming = 1 .. Len(Coming) /\ DOMAIN Coming' = 1 .. Len(Coming')
       /\ \A i \in DOMAIN Coming' : Coming'[i] = "RESET" => i \in DOMAIN Coming /\ Coming[i] = "RESET"
       /\ \A i \in DOMAIN Coming : i \in DOMAIN Coming' /\ Coming'[i] = Coming[i]
  <2>1. /\ \A i \in 1 .. Len(Coming') : i \in 1 .. Len(Coming) \/ Coming'[i] = "ENUM_DONE"
        /\ Len(Coming') = Len(Coming) + 1 /\ Coming' \in Seq(Events)
        /\ \A i \in 1 .. Len(Coming) : Coming'[i] = Coming[i]
    BY <1>3, <1>6, GrownFacts DEF Grown
  <2>2. 1 .. Len(Coming) \subseteq 1 .. Len(Coming')
    BY <1>3, <2>1
  <2>3. DOMAIN Coming = 1 .. Len(Coming) /\ DOMAIN Coming' = 1 .. Len(Coming')
    BY <1>3, <2>1, LenProperties
  <2>. QED BY <2>1, <2>2, <2>3
<1>14. Addressed'
  BY <1>1, <1>7, <1>13 DEF PipeInv, TransferInv, Addressed
<1>15. Protocol'
  <2>1. resets' \in Nat /\ resets' >= resets /\ UNCHANGED <<coreVars, request, ran, lastSetup, queue>>
    BY <1>1, <1>4 DEF mgrVars
  <2>. QED BY <1>1, <1>6, <2>1, BusGrows
<1>16. InData'
  <2>1. OnlyBus(0)' => OnlyBus(0)
    BY <1>3, <1>6, GrownFacts
  <2>. QED BY <1>1, <1>7, <2>1 DEF PipeInv, TransferInv, InData, Answering
<1>. QED BY <1>8, <1>9, <1>10, <1>11, <1>12, <1>14, <1>15, <1>16 DEF PipeInv, TransferInv

\* What a bus reset changes.
LEMMA ResetFrame ==
    ASSUME OrdinaryUse, PipeInv, BusReset
    PROVE  /\ stage' = "reset" /\ assigned' = 0 /\ resets' = resets + 1 /\ ~InTransfer'
           /\ UNCHANGED <<mgrVars, packet, lastSetup, stall, crashed, coreVars, request, moved, ran>>
           /\ rxq' = <<>> /\ flags' = {} /\ evq' \in Seq(Events) /\ ~lost'
           /\ in' = [in EXCEPT !.fifo = <<>>] /\ outArmed' = FALSE
           /\ evq' = evq \o <<"RESET">> /\ ignored' = ignored
           /\ Coming' = evq' /\ Coming' \in Seq(Events) /\ Len(Coming') = Len(evq) + 1
           /\ \A i \in 1 .. Len(evq) : Coming'[i] = evq[i]
           /\ Coming'[Len(evq) + 1] = "RESET"
           /\ resets \in Nat /\ resets < MaxResets
           /\ Len(evq) \in Nat /\ Len(evq) <= Len(Coming) /\ Len(Coming) \in Nat
           /\ \A i \in 1 .. Len(evq) : Coming[i] = evq[i]
           /\ InFlight' = Len(queue[0])
<1>1. /\ stage' = "reset" /\ assigned' = 0 /\ resets' = resets + 1 /\ resets < MaxResets
      /\ UNCHANGED <<mgrVars, packet, lastSetup, stall, crashed, coreVars, request, moved, ran>>
      /\ rxq' = <<>> /\ flags' = {} /\ outArmed' = FALSE
      /\ in' = [in EXCEPT !.fifo = <<>>]
      /\ Push(<<"RESET">>, FALSE, <<>>)
  BY DEF BusReset, PollReset
<1>2. ~InTransfer'
  BY <1>1 DEF InTransfer
<1>3. PipeTypeOK /\ RxqShape
  BY DEF PipeInv, TransferInv, Wire
<1>4. /\ Len(evq) \in Nat /\ Len(evq) <= Len(Coming) /\ Len(Coming) \in Nat
      /\ \A i \in 1 .. Len(evq) : Coming[i] = evq[i]
  BY <1>3, ComingFacts
<1>5. /\ resets \in Nat /\ MaxResets \in Nat /\ Depth \in Nat
      /\ Len(Coming) + 2 * (MaxResets - resets) <= Depth
  BY RoomFacts, SizeFacts
<1>6. evq' = evq \o <<"RESET">> /\ evq' \in Seq(Events) /\ ~lost' /\ ignored' = ignored
  <2>1. "RESET" \in Events
    BY DEF Events
  <2>2. Len(evq) + 1 <= Depth
    BY <1>1, <1>4, <1>5
  <2>. QED BY <1>1, <1>3, <2>1, <2>2, PushInRoom
<1>7. /\ Coming' = evq' /\ Coming' \in Seq(Events) /\ Len(Coming') = Len(evq) + 1
      /\ \A i \in 1 .. Len(evq) : Coming'[i] = evq[i]
      /\ Coming'[Len(evq) + 1] = "RESET"
  <2>1. "RESET" \in Events
    BY DEF Events
  <2>. QED BY <1>1, <1>3, <1>6, <2>1, ResetComing
<1>8. InFlight' = Len(queue[0])
  <2>1. Len(queue[0]) \in Nat
    BY QueueFacts DEF PipeInv, TransferInv
  <2>. QED BY <1>1, <1>2, <2>1 DEF InFlight, mgrVars
<1>. QED BY <1>1, <1>2, <1>4, <1>5, <1>6, <1>7, <1>8

\* A reset behind n events, the rest of which it drops.
LEMMA ResetOver ==
    ASSUME OrdinaryUse, PipeInv, BusReset, thread = "loop", queue[0] = <<>>,
           NEW n \in 0 .. 2, Len(evq) = n,
           n = 0 \/ registered,
           Residue(n) \/ (n = 1 /\ Coming[1] = "EP_TX" /\ resets # 0)
    PROVE  Protocol'
<1>1. /\ stage' = "reset" /\ resets' = resets + 1 /\ ~InTransfer' /\ resets \in Nat
      /\ UNCHANGED coreVars
      /\ Len(Coming') = Len(evq) + 1
      /\ \A i \in 1 .. Len(evq) : Coming'[i] = evq[i]
      /\ Coming'[Len(evq) + 1] = "RESET"
      /\ \A i \in 1 .. Len(evq) : Coming[i] = evq[i]
      /\ InFlight' = Len(queue[0])
  BY ResetFrame
<1>2. InFlight' = 0
  BY <1>1, EmptySeq
<1>3. UNCHANGED <<control, setup, tx, rx, address, registered, thread>>
  BY <1>1 DEF coreVars
<1>4. OnlyBus(n)' /\ Len(Coming') >= n /\ Len(Coming') > 0
  <2>1. \A i \in n + 1 .. n + 1 : i = n + 1
    OBVIOUS
  <2>. QED BY <1>1, <2>1 DEF OnlyBus, Bus
<1>5. \A i \in 1 .. n : Coming'[i] = Coming[i]
  BY <1>1
<1>6. Residue(n)' \/ (n = 1 /\ Coming'[1] = "EP_TX" /\ Len(Coming') > 1 /\ resets' > 1)
  <2>1. (n >= 1 => Coming'[1] = Coming[1]) /\ (n = 2 => Coming'[2] = Coming[2])
    <3>1. (n >= 1 => 1 \in 1 .. n) /\ (n = 2 => 2 \in 1 .. n)
      OBVIOUS
    <3>. QED BY <1>5, <3>1
  <2>2. CASE Residue(n)
    <3>1. (n = 1 => n >= 1) /\ (n = 2 => n >= 1)
      OBVIOUS
    <3>. QED BY <1>3, <2>1, <2>2, <3>1 DEF Residue
  <2>3. CASE n = 1 /\ Coming[1] = "EP_TX" /\ resets # 0
    <3>1. Len(Coming') > 1 /\ resets' > 1 /\ n >= 1
      BY <1>1, <2>3
    <3>. QED BY <2>1, <2>3, <3>1
  <2>. QED BY <2>2, <2>3
<1>7. Over(n)'
  BY <1>1, <1>2, <1>3, <1>4, <1>6 DEF Over
<1>. QED BY <1>7 DEF Protocol

\* A reset while the host waits for a transfer that the core has not begun.
LEMMA ResetAnnounced ==
    ASSUME OrdinaryUse, PipeInv, BusReset, InTransfer, NEW n \in 0 .. 2, Announced(n)
    PROVE  Protocol'
<1>1. /\ stage' = "reset" /\ resets' = resets + 1 /\ ~InTransfer' /\ resets \in Nat
      /\ UNCHANGED <<mgrVars, lastSetup, coreVars, request, ran>>
      /\ Len(Coming') = Len(evq) + 1
      /\ \A i \in 1 .. Len(evq) : Coming'[i] = evq[i]
      /\ Coming'[Len(evq) + 1] = "RESET"
      /\ resets < MaxResets
      /\ Len(evq) \in Nat /\ Len(evq) <= Len(Coming) /\ Len(Coming) \in Nat
      /\ \A i \in 1 .. Len(evq) : Coming[i] = evq[i]
      /\ InFlight' = Len(queue[0])
  BY ResetFrame
<1>2. /\ thread = "loop" /\ registered /\ ran[request.id] = 0
      /\ Len(Coming) > n /\ Residue(n) /\ Coming[n + 1] = "CTRL_SETUP_PHASE_DONE"
      /\ lastSetup = request \/ SetupPending
      /\ OnlyRx(n + 1) /\ Len(Coming) = n + 1 + InFlight
      /\ IF request.dir = "out" THEN SentOut(0) ELSE InFlight = 0
  BY DEF Announced, Overtaken
<1>3. UNCHANGED <<control, setup, tx, rx, address, registered, thread>>
  BY <1>1 DEF coreVars
<1>4. resets # 0
  BY <1>2 DEF PipeInv, TransferInv, Staged
<1>5. InFlight = 0 /\ queue[0] = <<>>
  <2>1. InFlight \in Nat /\ (InFlight = 0 => queue[0] = <<>>)
    BY QueueFacts DEF PipeInv, TransferInv
  <2>2. CASE request.dir = "out"
    <3>1. SentOut(0) /\ 0 \in Nat
      BY <1>2, <2>2
    <3>2. InFlight > 0 => MaxResets <= 1
      BY <2>1, <2>2, <3>1, SentFacts DEF PipeInv, TransferInv
    <3>. QED BY <1>1, <1>4, <2>1, <3>2, SizeFacts
  <2>3. CASE request.dir # "out"
    BY <1>2, <2>1, <2>3
  <2>. QED BY <2>2, <2>3
<1>6. Len(Coming) = n + 1
  BY <1>2, <1>5
<1>7. CASE Len(evq) = n + 1
  <2>1. lastSetup = request
    <3>1. ASSUME SetupPending PROVE FALSE
      <4>1. Len(rxq) >= 2
        BY <3>1 DEF SetupPending
      <4>2. rxq # <<>>
        <5>1. Len(rxq) # 0
          BY <4>1, SmallLengths
        <5>. QED BY <5>1, EmptySeq
      <4>3. Len(evq) < Len(Coming)
        BY <4>2, ComingFacts DEF PipeInv, TransferInv, Wire
      <4>. QED BY <1>6, <1>7, <4>3
    <3>. QED BY <1>2, <3>1
  <2>2. InFlight' = 0
    BY <1>1, <1>5, EmptySeq
  <2>3. \A i \in 1 .. n + 1 : Coming'[i] = Coming[i]
    BY <1>1, <1>7
  <2>4. Residue(n)' /\ Coming'[n + 1] = "CTRL_SETUP_PHASE_DONE"
    <3>1. /\ n >= 1 => Coming'[1] = Coming[1]
          /\ n = 2 => Coming'[2] = Coming[2]
          /\ Coming'[n + 1] = Coming[n + 1]
      <4>1. (n >= 1 => 1 \in 1 .. n + 1) /\ (n = 2 => 2 \in 1 .. n + 1) /\ n + 1 \in 1 .. n + 1
        OBVIOUS
      <4>. QED BY <2>3, <4>1
    <3>2. (n = 1 => n >= 1) /\ (n = 2 => n >= 1)
      OBVIOUS
    <3>. QED BY <1>2, <1>3, <3>1, <3>2 DEF Residue
  <2>5. Overtaken(n + 1)' /\ Len(Coming') > n
    <3>1. PICK m \in Nat : m = n + 1
      OBVIOUS
    <3>2. Len(Coming') = m + 1 /\ Coming'[m + 1] = "RESET" /\ Len(Coming') > m /\ resets' > 1
          /\ Len(Coming') > n
      BY <1>1, <1>4, <1>7, <3>1
    <3>3. \A i \in m + 1 .. m + 1 : i = m + 1
      OBVIOUS
    <3>4. OnlyBus(m)'
      BY <3>2, <3>3 DEF OnlyBus, Bus
    <3>5. Overtaken(m)'
      BY <1>1, <3>2, <3>4 DEF Overtaken
    <3>. QED BY <3>1, <3>2, <3>5
  <2>6. Announced(n)'
    BY <1>1, <1>2, <1>3, <2>1, <2>2, <2>4, <2>5 DEF Announced
  <2>. QED BY <2>6 DEF Protocol
<1>8. CASE Len(evq) # n + 1
  <2>1. PICK m \in 0 .. 2 : m = Len(evq) /\ m <= n
    <3>1. \A a, b \in Nat : a <= b /\ b = n + 1 /\ a # n + 1 => a \in 0 .. 2 /\ a <= n
      OBVIOUS
    <3>2. Len(evq) \in 0 .. 2 /\ Len(evq) <= n
      BY <1>1, <1>6, <1>8, <3>1
    <3>. QED BY <3>2
  <2>2. CASE m = n
    BY <1>2, <1>5, <2>1, <2>2, ResetOver
  <2>3. CASE m # n /\ m = 0
    <3>1. Residue(0)
      BY DEF Residue
    <3>. QED BY <1>2, <1>5, <2>1, <2>3, <3>1, ResetOver
  <2>4. CASE m # n /\ m # 0
    <3>1. m = 1 /\ n = 2
      BY <2>1, <2>4
    <3>2. Coming[1] = "EP_TX"
      BY <1>2, <3>1 DEF Residue
    <3>. QED BY <1>2, <1>4, <1>5, <2>1, <3>1, <3>2, ResetOver
  <2>. QED BY <2>2, <2>3, <2>4
<1>. QED BY <1>7, <1>8

\* A reset in any other phase of a transfer.
LEMMA ResetInTransfer ==
    ASSUME OrdinaryUse, PipeInv, BusReset, InTransfer
    PROVE  Protocol'
<1>1. /\ stage' = "reset" /\ resets' = resets + 1 /\ ~InTransfer' /\ resets \in Nat
      /\ UNCHANGED <<mgrVars, lastSetup, coreVars, request, ran>>
      /\ Coming' = evq' /\ Len(Coming') = Len(evq) + 1
      /\ Coming'[Len(evq) + 1] = "RESET"
      /\ resets < MaxResets
      /\ Len(evq) \in Nat /\ Len(evq) <= Len(Coming) /\ Len(Coming) \in Nat
      /\ InFlight' = Len(queue[0])
  BY ResetFrame
<1>2. UNCHANGED <<control, setup, tx, rx, address, registered, thread>>
  BY <1>1 DEF coreVars
<1>3. registered => resets # 0
  BY DEF PipeInv, TransferInv, Staged
<1>4. InFlight = 0 => queue[0] = <<>>
  BY QueueFacts DEF PipeInv, TransferInv
<1>5. Residue(0)
  BY DEF Residue
<1>6. ~Receiving
  <2>. SUFFICES ASSUME Receiving PROVE FALSE
    OBVIOUS
  <2>1. request \in Setups /\ Serviceable(request)
    BY RequestFacts DEF PipeInv, TransferInv, PipeTypeOK
  <2>2. MaxResets <= 1 /\ registered
    BY <2>1 DEF Receiving, Serviceable
  <2>. QED BY <1>1, <1>3, <2>2, SizeFacts
<1>7. ASSUME Responding PROVE Protocol'
  <2>1. registered /\ Coming = <<>> /\ InFlight = 0
    BY <1>7 DEF Responding, Overtaken
  <2>2. Len(evq) = 0
    BY <1>1, <2>1, EmptySeq
  <2>3. Len(Coming') = 1 /\ Coming'[1] = "RESET" /\ resets' > 1
    BY <1>1, <1>3, <2>1, <2>2
  <2>4. OnlyBus(0)'
    <3>1. \A i \in 0 + 1 .. 1 : i = 1
      OBVIOUS
    <3>. QED BY <2>3, <3>1 DEF OnlyBus, Bus
  <2>5. Overtaken(0)'
    <3>1. 0 + 1 = 1 /\ 1 > 0
      OBVIOUS
    <3>. QED BY <1>1, <2>3, <2>4, <3>1 DEF Overtaken
  <2>6. InFlight' = 0
    BY <1>1, <1>4, <2>1, EmptySeq
  <2>7. Responding'
    BY <1>1, <1>2, <1>7, <2>5, <2>6 DEF Responding
  <2>. QED BY <2>7 DEF Protocol
<1>8. ASSUME Executed PROVE Protocol'
  <2>1. thread = "loop" /\ registered /\ queue[0] = <<>>
    BY <1>4, <1>8 DEF Executed
  <2>2. CASE Len(evq) = 0
    <3>1. 0 \in 0 .. 2
      OBVIOUS
    <3>. QED BY <1>5, <2>1, <2>2, <3>1, ResetOver
  <2>3. CASE Len(evq) # 0
    <3>1. Coming # <<>>
      BY <1>1, <2>3, EmptySeq
    <3>2. Len(Coming) = 1 /\ Coming[1] = "EP_TX"
      BY <1>8, <3>1 DEF Executed, Refusal, StatusIn, Loaded, Fetched, Delivered, Stuck
    <3>3. Len(evq) = 1 /\ 1 \in 0 .. 2
      <4>1. (\A a, b \in Nat : a <= b /\ b = 1 /\ a # 0 => a = 1) /\ 1 \in 0 .. 2
        OBVIOUS
      <4>2. Len(evq) \in Nat /\ Len(Coming) \in Nat /\ Len(evq) <= Len(Coming)
        BY <1>1
      <4>. QED BY <2>3, <3>2, <4>1, <4>2
    <3>. QED BY <1>3, <2>1, <3>2, <3>3, ResetOver
  <2>. QED BY <2>2, <2>3
<1>9. \A n \in 0 .. 2 : ~Over(n)
  BY DEF Over
<1>. QED BY <1>6, <1>7, <1>8, <1>9, ResetAnnounced DEF PipeInv, TransferInv, Protocol

\* A reset without a transfer.
LEMMA ResetIdle ==
    ASSUME OrdinaryUse, PipeInv, BusReset, ~InTransfer
    PROVE  Protocol'
<1>1. /\ stage' = "reset" /\ resets' = resets + 1 /\ ~InTransfer' /\ resets \in Nat
      /\ UNCHANGED <<mgrVars, lastSetup, coreVars, request, ran>>
      /\ Coming' \in Seq(Events) /\ Len(Coming') = Len(evq) + 1
      /\ \A i \in 1 .. Len(evq) : Coming'[i] = evq[i]
      /\ Coming'[Len(evq) + 1] = "RESET"
      /\ Len(evq) \in Nat /\ Len(evq) <= Len(Coming) /\ Len(Coming) \in Nat
      /\ \A i \in 1 .. Len(evq) : Coming[i] = evq[i]
  BY ResetFrame
<1>2. CASE Len(evq) = Len(Coming)
  <2>1. Grown("RESET") /\ "RESET" \in Bus
    BY <1>1, <1>2 DEF Grown, Bus
  <2>2. /\ UNCHANGED <<coreVars, request, ran, lastSetup, queue>>
        /\ resets' \in Nat /\ resets' >= resets /\ stage' # "idle"
    BY <1>1 DEF mgrVars
  <2>. QED BY <1>1, <2>1, <2>2, BusGrows
<1>3. CASE Len(evq) # Len(Coming)
  <2>1. ASSUME NEW i \in 1 .. Len(Coming), Coming[i] \in Bus PROVE FALSE
    BY <1>3, <2>1, BusIsAll
  <2>2. ASSUME NEW n \in Nat, Overtaken(n) PROVE FALSE
    <3>1. n + 1 \in 1 .. Len(Coming) /\ Coming[n + 1] = "RESET"
      BY <1>1, <2>2 DEF Overtaken
    <3>. QED BY <2>1, <3>1 DEF Bus
  <2>3. ~Responding
    BY <2>2 DEF Responding
  <2>4. ASSUME NEW n \in 0 .. 2, Announced(n) PROVE FALSE
    <3>1. Overtaken(n + 1) /\ n + 1 \in Nat
      BY <2>4 DEF Announced
    <3>. QED BY <2>2, <3>1
  <2>5. ASSUME NEW n \in 0 .. 2, Over(n) PROVE Protocol'
    <3>1. /\ thread = "loop" /\ InFlight = 0
          /\ registered \/ n = 0
          /\ Len(Coming) >= n /\ OnlyBus(n)
          /\ Residue(n) \/ (n = 1 /\ Coming[1] = "EP_TX" /\ Len(Coming) > 1 /\ resets > 1)
      BY <2>5 DEF Over
    <3>2. Len(Coming) = n
      <4>. SUFFICES ASSUME Len(Coming) > n PROVE FALSE
        BY <1>1, <3>1
      <4>1. n + 1 \in 1 .. Len(Coming) /\ n + 1 \in n + 1 .. Len(Coming)
        BY <1>1
      <4>. QED BY <2>1, <3>1, <4>1 DEF OnlyBus
    <3>3. Residue(n)
      <4>1. n = 1 => ~(n > 1)
        OBVIOUS
      <4>. QED BY <3>1, <3>2, <4>1
    <3>4. queue[0] = <<>>
      BY <3>1, QueueFacts DEF PipeInv, TransferInv
    <3>5. \/ Len(evq) = 0
          \/ n = 2 /\ Len(evq) = 1
      <4>1. \A a, b \in Nat : a <= b /\ a # b /\ b = n => a = 0 \/ (n = 2 /\ a = 1)
        OBVIOUS
      <4>2. Len(evq) \in Nat /\ Len(Coming) \in Nat /\ Len(evq) <= Len(Coming)
        BY <1>1
      <4>. QED BY <1>3, <3>2, <4>1, <4>2
    <3>6. CASE Len(evq) = 0
      <4>1. 0 \in 0 .. 2 /\ Residue(0)
        BY DEF Residue
      <4>. QED BY <3>1, <3>4, <3>6, <4>1, ResetOver
    <3>7. CASE n = 2 /\ Len(evq) = 1
      <4>1. 1 \in 0 .. 2 /\ n # 0 /\ n # 1
        BY <3>7
      <4>2. registered /\ resets # 0 /\ Coming[1] = "EP_TX"
        BY <3>1, <3>3, <4>1 DEF Residue, PipeInv, TransferInv, Staged
      <4>. QED BY <3>1, <3>4, <3>7, <4>1, <4>2, ResetOver
    <3>. QED BY <3>5, <3>6, <3>7
  <2>6. ~Receiving /\ ~Executed
    BY DEF Receiving, Executed
  <2>. QED BY <2>3, <2>4, <2>5, <2>6 DEF PipeInv, TransferInv, Protocol
<1>. QED BY <1>2, <1>3

LEMMA ResetKeeps ==
    ASSUME OrdinaryUse, PipeInv, BusReset
    PROVE  TransferInv'
<1>1. /\ stage' = "reset" /\ assigned' = 0 /\ resets' = resets + 1 /\ ~InTransfer'
      /\ UNCHANGED <<mgrVars, packet, lastSetup, stall, crashed, coreVars, request, moved, ran>>
      /\ rxq' = <<>> /\ flags' = {} /\ evq' \in Seq(Events) /\ ~lost'
      /\ in' = [in EXCEPT !.fifo = <<>>] /\ outArmed' = FALSE
      /\ Coming' \in Seq(Events) /\ Len(Coming') = Len(evq) + 1
      /\ Coming'[Len(evq) + 1] = "RESET"
      /\ resets \in Nat /\ resets < MaxResets
      /\ Len(evq) \in Nat /\ Len(evq) <= Len(Coming) /\ Len(Coming) \in Nat
  BY ResetFrame
<1>2. UNCHANGED <<control, setup, tx, rx, address, registered, thread>>
  BY <1>1 DEF coreVars
<1>3. Ep0Inv'
  BY Ep0InvStep DEF PipeInv, TransferInv, Next
<1>4. PipeTypeOK' /\ PacketsFit'
  <2>1. PipeTypeOK /\ PacketsFit
    BY DEF PipeInv, TransferInv
  <2>2. /\ in' \in [ena : BOOLEAN, nak : BOOLEAN, size : 0 .. EP0SIZE, fifo : Seq(Units)]
        /\ Len(in'.fifo) <= TxFifoRoom
    <3>1. <<>> \in Seq(Units) /\ Len(<<>>) = 0
      BY EmptySeq
    <3>2. in' \in [ena : BOOLEAN, nak : BOOLEAN, size : 0 .. EP0SIZE, fifo : Seq(Units)] /\ in'.fifo = <<>>
      BY <1>1, <2>1, <3>1 DEF PipeTypeOK
    <3>. QED BY <3>1, <3>2, SizeFacts
  <2>3. resets' \in 0 .. MaxResets
    BY <1>1, SizeFacts
  <2>4. rxq' \in Seq(Entries)
    BY <1>1, EmptySeq
  <2>. QED BY <1>1, <1>2, <2>1, <2>2, <2>3, <2>4 DEF PipeTypeOK, PacketsFit
<1>5. Wire'
  <2>1. Len(rxq') = 0
    BY <1>1, EmptySeq
  <2>2. RxqShape'
    BY <2>1 DEF RxqShape
  <2>3. ~SetupPending' /\ ~DataPending' /\ Len(rxq') # 4
    BY <2>1, SmallLengths DEF SetupPending, DataPending
  <2>. QED BY <1>1, <2>1, <2>2, <2>3 DEF Wire
<1>6. Room'
  <2>1. /\ MaxResets \in Nat /\ Depth \in Nat /\ active[0] # NoBuf
        /\ Len(Coming) + 2 * (MaxResets - resets) <= Depth
    BY RoomFacts, SizeFacts DEF PipeInv, TransferInv, Room
  <2>2. Len(evq) + 1 + 2 * (MaxResets - (resets + 1)) + 1 <= Depth
    BY <1>1, <2>1
  <2>. QED BY <1>1, <2>1, <2>2 DEF Room, mgrVars
<1>7. Staged'
  <2>1. resets' # 0
    BY <1>1
  <2>. QED BY <1>1, <2>1 DEF Staged
<1>8. Addressed'
  <2>1. Len(evq) + 1 \in DOMAIN Coming'
    BY <1>1, LenProperties
  <2>. QED BY <1>1, <2>1 DEF Addressed
<1>9. InData'
  <2>. SUFFICES ASSUME resets' <= 1 PROVE InData'
    BY DEF InData
  <2>1. resets = 0
    BY <1>1
  <2>2. setup = NoSetup
    BY <2>1 DEF PipeInv, TransferInv, Staged
  <2>3. setup' \notin Served
    BY <1>2, <2>2, PipeAssumption DEF Served
  <2>4. in'.fifo = <<>>
    BY <1>1 DEF PipeInv, TransferInv, PipeTypeOK
  <2>. QED BY <1>1, <2>3, <2>4 DEF InData, Answering
<1>. QED BY <1>3, <1>4, <1>5, <1>6, <1>7, <1>8, <1>9, ResetIdle, ResetInTransfer DEF PipeInv, TransferInv

-----------------------------------------------------------------------------
(* The host starts a transfer, and sends its data.                           *)

\* No event of the bus is under way in a transfer.
LEMMA TransferNotSilent ==
    ASSUME PipeInv, InTransfer
    PROVE  \A i \in DOMAIN evq : evq[i] \notin Bus
<1>. SUFFICES ASSUME NEW i \in DOMAIN evq, evq[i] \in Bus PROVE FALSE
  OBVIOUS
<1>1. /\ evq \in Seq(Events) /\ Len(evq) \in Nat /\ Len(evq) <= Len(Coming) /\ Len(Coming) \in Nat
      /\ \A k \in 1 .. Len(evq) : Coming[k] = evq[k]
  BY ComingFacts, RoomFacts DEF PipeInv, TransferInv, PipeTypeOK, Wire
<1>2. i \in 1 .. Len(evq)
  BY <1>1, LenProperties
<1>3. i \in 1 .. Len(Coming) /\ Coming[i] \in Bus
  BY <1>1, <1>2
<1>4. Silent
  BY DEF Silent
<1>5. ASSUME NEW n \in 0 .. 2, Announced(n) PROVE FALSE
  <2>1. /\ Residue(n) /\ Coming[n + 1] = "CTRL_SETUP_PHASE_DONE" /\ OnlyRx(n + 1)
    BY <1>5 DEF Announced, Overtaken
  <2>2. i # n + 1
    BY <1>3, <2>1 DEF Bus
  <2>3. CASE i > n + 1
    <3>1. i \in n + 1 + 1 .. Len(Coming)
      BY <1>3, <2>3
    <3>. QED BY <1>3, <2>1, <3>1 DEF OnlyRx, Bus
  <2>4. CASE i <= n
    <3>1. i = 1 \/ (i = 2 /\ n = 2)
      BY <1>3, <2>4
    <3>2. i \in 1 .. n /\ n # 0 /\ (n = 2 => n # 1)
      BY <1>3, <2>4
    <3>. QED BY <1>3, <2>1, <3>1, <3>2 DEF Residue, Bus
  <2>. QED BY <1>3, <2>2, <2>3, <2>4
<1>6. ASSUME Receiving PROVE FALSE
  <2>1. i \in 0 + 1 .. Len(Coming)
    BY <1>3
  <2>. QED BY <1>3, <1>6, <2>1 DEF Receiving, OnlyRx, Bus
<1>7. ASSUME Responding \/ Executed PROVE FALSE
  <2>1. Coming # <<>>
    BY <1>3, EmptySeq
  <2>2. Len(Coming) = 1 /\ Coming[1] = "EP_TX"
    BY <1>7, <2>1 DEF Responding, Overtaken, Executed, Refusal, StatusIn, Loaded, Fetched, Delivered, Stuck
  <2>3. i = 1
    BY <1>3, <2>2
  <2>. QED BY <1>3, <2>2, <2>3 DEF Bus
<1>8. \A n \in 0 .. 2 : ~Over(n)
  BY DEF Over
<1>. QED BY <1>5, <1>6, <1>7, <1>8 DEF PipeInv, TransferInv, Protocol

\* A SETUP: the last transfer is over, and its last events at most are under way.
LEMMA SetupWhen ==
    ASSUME OrdinaryUse, PipeInv, NEW s \in Setups, HostSetup(s)
    PROVE  /\ ~InTransfer /\ stage = "idle"
           /\ thread = "loop" /\ registered /\ resets # 0 /\ queue[0] = <<>>
           /\ \E n \in 0 .. 2 : Residue(n) /\ Len(Coming) = n
<1>1. stage = "idle" /\ Recovered /\ ~InTransfer
  BY DEF HostSetup, OrdinaryUse, InTransfer
<1>2. Len(Coming) \in Nat
  BY RoomFacts
<1>3. ASSUME NEW i \in 1 .. Len(Coming), Coming[i] \in Bus PROVE FALSE
  <2>1. Coming = evq
    BY <1>3, BusIsAll
  <2>2. i \in DOMAIN evq
    BY <2>1, LenProperties, RoomFacts
  <2>. QED BY <1>1, <1>3, <2>1, <2>2 DEF Recovered, Bus
<1>4. ASSUME NEW n \in Nat, Overtaken(n) PROVE FALSE
  <2>1. n + 1 \in 1 .. Len(Coming) /\ Coming[n + 1] = "RESET"
    BY <1>2, <1>4 DEF Overtaken
  <2>. QED BY <1>3, <2>1 DEF Bus
<1>5. ASSUME NEW n \in 0 .. 2, Announced(n) PROVE FALSE
  <2>1. Overtaken(n + 1) /\ n + 1 \in Nat
    BY <1>1, <1>5 DEF Announced
  <2>. QED BY <1>4, <2>1
<1>6. ~Responding /\ ~Receiving /\ ~Executed
  BY <1>1, <1>4 DEF Responding, Receiving, Executed
<1>7. PICK n \in 0 .. 2 : Over(n)
  BY <1>5, <1>6 DEF PipeInv, TransferInv, Protocol
<1>8. /\ thread = "loop" /\ InFlight = 0
      /\ registered \/ n = 0
      /\ Len(Coming) >= n /\ OnlyBus(n)
      /\ Residue(n) \/ (n = 1 /\ Coming[1] = "EP_TX" /\ Len(Coming) > 1 /\ resets > 1)
      /\ ~registered => Len(Coming) > 0
  BY <1>1, <1>7 DEF Over
<1>9. Len(Coming) = n
  <2>. SUFFICES ASSUME Len(Coming) > n PROVE FALSE
    BY <1>2, <1>8
  <2>1. n + 1 \in 1 .. Len(Coming) /\ n + 1 \in n + 1 .. Len(Coming)
    BY <1>2
  <2>. QED BY <1>3, <1>8, <2>1 DEF OnlyBus
<1>10. Residue(n) /\ registered
  <2>1. (n = 1 => ~(n > 1)) /\ ~(0 > 0)
    OBVIOUS
  <2>. QED BY <1>8, <1>9, <2>1
<1>11. resets # 0
  BY <1>10 DEF PipeInv, TransferInv, Staged
<1>12. queue[0] = <<>>
  BY <1>8, QueueFacts DEF PipeInv, TransferInv
<1>. QED BY <1>1, <1>8, <1>9, <1>10, <1>11, <1>12

\* The SETUP in the receive FIFO.
LEMMA SetupShape ==
    ASSUME OrdinaryUse, PipeInv, NEW s \in Setups, HostSetup(s)
    PROVE  /\ rxq' \in Seq(Entries) /\ RxqShape' /\ SetupPending' /\ ~DataPending'
           /\ Newest'.setup = s
           /\ Len(rxq') = 4 => rxq'[1].units = <<>>
           /\ RxqDepth >= 2
           /\ Grown("CTRL_SETUP_PHASE_DONE")
<1>1. /\ Len(rxq) + 2 <= RxqDepth /\ UNCHANGED <<evq, flags>>
      /\ rxq' = rxq \o <<Entry("setup", s, <<>>), Entry("setupDone", s, <<>>)>>
  BY DEF HostSetup, AcceptSetup
<1>2. PipeTypeOK /\ RxqShape /\ ~InTransfer /\ rxq \in Seq(Entries) /\ Len(rxq) \in Nat
  BY SetupWhen, LenProperties DEF PipeInv, TransferInv, Wire, PipeTypeOK
<1>3. PICK x \in Entries : x = Entry("setup", s, <<>>)
  BY EmptySeq DEF Entry, Entries
<1>4. PICK y \in Entries : y = Entry("setupDone", s, <<>>)
  BY EmptySeq DEF Entry, Entries
<1>5. x.kind = "setup" /\ y.kind = "setupDone" /\ x.setup = s
  BY <1>3, <1>4 DEF Entry
<1>6. \/ Len(rxq) = 0
      \/ Len(rxq) = 1 /\ Kind(1) = "outDone"
      \/ Len(rxq) = 2 /\ Kind(1) = "data"
  BY <1>2 DEF PipeInv, TransferInv, Wire
<1>7. Len(rxq) <= 2
  <2>1. 0 <= 2 /\ 1 <= 2 /\ 2 <= 2
    OBVIOUS
  <2>. QED BY <1>6, <2>1
<1>8. /\ Grown("CTRL_SETUP_PHASE_DONE") /\ rxq' \in Seq(Entries) /\ Len(rxq') = Len(rxq) + 2
      /\ \A i \in 1 .. Len(rxq) : rxq'[i] = rxq[i]
      /\ rxq'[Len(rxq) + 1] = x /\ rxq'[Len(rxq) + 2] = y
  <2>1. /\ rxq' = rxq \o <<x, y>> /\ UNCHANGED <<evq, flags>>
        /\ x.kind \in {"setup", "data"} /\ y.kind \in {"setupDone", "outDone"}
    BY <1>1, <1>3, <1>4, <1>5
  <2>. QED BY <1>2, <1>5, <1>7, <2>1, AcceptGrows
<1>9. RxqDepth >= 2
  BY <1>1, <1>2, Ep0Assumption
<1>10. \A n \in Nat : n = Len(rxq') => (Len(rxq') - 1 = n - 1)
  OBVIOUS
<1>11. CASE Len(rxq) = 0
  <2>1. Len(rxq') = 2 /\ rxq'[1] = x /\ rxq'[2] = y
    <3>1. 0 + 2 = 2 /\ 0 + 1 = 1
      OBVIOUS
    <3>. QED BY <1>8, <1>11, <3>1
  <2>2. Len(rxq') - 1 = 1 /\ Len(rxq') >= 2 /\ Len(rxq') # 4
    BY <2>1, SmallLengths
  <2>3. RxqShape'
    BY <1>5, <2>1 DEF RxqShape, Kind
  <2>4. Newest' = x
    BY <2>1, <2>2 DEF Newest
  <2>. QED BY <1>5, <1>8, <1>9, <2>2, <2>3, <2>4 DEF SetupPending, DataPending
<1>12. CASE Len(rxq) = 1 /\ Kind(1) = "outDone"
  <2>1. Len(rxq') = 3 /\ rxq'[1] = rxq[1] /\ rxq'[2] = x /\ rxq'[3] = y
    <3>1. 1 + 2 = 3 /\ 1 + 1 = 2 /\ 1 \in 1 .. 1
      OBVIOUS
    <3>. QED BY <1>8, <1>12, <3>1
  <2>2. Len(rxq') - 1 = 2 /\ Len(rxq') >= 2 /\ Len(rxq') # 4
    BY <2>1, SmallLengths
  <2>3. RxqShape'
    BY <1>5, <1>12, <2>1 DEF RxqShape, Kind
  <2>4. Newest' = x
    BY <2>1, <2>2 DEF Newest
  <2>. QED BY <1>5, <1>8, <1>9, <2>2, <2>3, <2>4 DEF SetupPending, DataPending
<1>13. CASE Len(rxq) = 2 /\ Kind(1) = "data"
  <2>1. Len(rxq') = 4 /\ rxq'[1] = rxq[1] /\ rxq'[2] = rxq[2] /\ rxq'[3] = x /\ rxq'[4] = y
    <3>1. 2 + 2 = 4 /\ 2 + 1 = 3 /\ 1 \in 1 .. 2 /\ 2 \in 1 .. 2
      OBVIOUS
    <3>. QED BY <1>8, <1>13, <3>1
  <2>2. Len(rxq') - 1 = 3 /\ Len(rxq') >= 2
    BY <2>1, SmallLengths
  <2>3. Kind(2) = "outDone"
    BY <1>2, <1>13, SmallLengths DEF RxqShape
  <2>4. RxqShape'
    BY <1>5, <1>13, <2>1, <2>3 DEF RxqShape, Kind
  <2>5. Newest' = x
    BY <2>1, <2>2 DEF Newest
  <2>6. rxq'[1].units = <<>>
    <3>1. DataPending /\ Newest = rxq[1]
      BY <1>2, <1>13, PendingFacts
    <3>. QED BY <1>2, <2>1, <3>1 DEF PipeInv, TransferInv, Wire
  <2>. QED BY <1>5, <1>8, <1>9, <2>2, <2>4, <2>5, <2>6 DEF SetupPending, DataPending
<1>. QED BY <1>6, <1>11, <1>12, <1>13

LEMMA SetupKeeps ==
    ASSUME OrdinaryUse, PipeInv, NEW s \in Setups, HostSetup(s)
    PROVE  TransferInv'
<1>1. /\ Recovered /\ assigned = address
      /\ outArmed' = FALSE /\ stall' = FALSE /\ in' = [in EXCEPT !.nak = TRUE]
      /\ stage' = (IF s.len > 0 THEN "data" ELSE "status")
      /\ request' = s /\ moved' = <<>> /\ ran' = [ran EXCEPT ![s.id] = 0]
      /\ UNCHANGED <<mgrVars, packet, lastSetup, flags, evq, lost, crashed, coreVars, assigned, resets>>
  BY DEF HostSetup, AcceptSetup
<1>2. InTransfer' /\ stage' \in {"data", "status"}
  BY <1>1 DEF InTransfer
<1>3. UNCHANGED <<control, setup, tx, rx, address, registered, thread>>
  BY <1>1 DEF coreVars
<1>4. /\ ~InTransfer /\ stage = "idle" /\ thread = "loop" /\ registered /\ resets # 0 /\ queue[0] = <<>>
  BY SetupWhen
<1>5. PICK n \in 0 .. 2 : Residue(n) /\ Len(Coming) = n
  BY SetupWhen
<1>6. /\ rxq' \in Seq(Entries) /\ RxqShape' /\ SetupPending' /\ ~DataPending'
      /\ Newest'.setup = s
      /\ Len(rxq') = 4 => rxq'[1].units = <<>>
      /\ RxqDepth >= 2
      /\ Grown("CTRL_SETUP_PHASE_DONE")
  BY SetupShape
<1>7. /\ s.id \in Ids /\ s.len \in Nat /\ (s.dir = "in" \/ s.dir = "out")
      /\ s.dir # "in" \/ s.dir # "out"
      /\ s.dir = "in" => s.len > 0
  BY RequestFacts
<1>8. Ep0Inv'
  BY Ep0InvStep DEF PipeInv, TransferInv, Next
<1>9. in'.fifo = in.fifo /\ in'.nak
      /\ in' \in [ena : BOOLEAN, nak : BOOLEAN, size : 0 .. EP0SIZE, fifo : Seq(Units)]
  BY <1>1 DEF PipeInv, TransferInv, PipeTypeOK
<1>10. ran' \in [Ids -> 0 .. 1] /\ ran'[s.id] = 0
  <2>1. ran \in [Ids -> 0 .. 1]
    BY DEF PipeInv, TransferInv, PipeTypeOK
  <2>. QED BY <1>1, <1>7, <2>1
<1>11. PipeTypeOK' /\ PacketsFit'
  <2>1. moved' \in Seq(Units)
    BY <1>1, EmptySeq
  <2>. QED BY <1>1, <1>2, <1>3, <1>6, <1>9, <1>10, <2>1 DEF PipeInv, TransferInv, PipeTypeOK, PacketsFit
<1>12. Wire'
  <2>1. ~Silent'
    BY <1>1, <1>2 DEF Silent, Recovered, Bus
  <2>2. Len(rxq') >= 2
    BY <1>6 DEF SetupPending
  <2>3. Len(rxq') # 0 /\ Len(rxq') # 1
    BY <2>2, SmallLengths
  <2>. QED BY <1>1, <1>2, <1>6, <2>1, <2>3 DEF Wire
<1>13. Room'
  <2>1. /\ resets \in Nat /\ MaxResets \in Nat /\ Depth \in Nat /\ MaxResets - resets \in Nat
        /\ 1 + 2 * MaxResets <= Depth /\ active[0] # NoBuf
    BY RoomFacts, SizeFacts DEF OrdinaryUse, PipeInv, TransferInv, Room
  <2>2. Len(Coming') = n + 1 /\ stage' # "reset"
    BY <1>2, <1>5, <1>6 DEF Grown
  <2>3. (n + 1) + 2 * (MaxResets - resets) + 0 <= Depth
    BY <1>4, <2>1
  <2>. QED BY <1>1, <2>1, <2>2, <2>3 DEF Room, mgrVars
<1>14. Staged'
  <2>1. Len(moved') = 0
    BY <1>1, EmptySeq
  <2>. QED BY <1>1, <1>4, <1>7, <2>1 DEF Staged
<1>15. Addressed'
  BY <1>1, <1>2, <1>3, <1>10 DEF Addressed
<1>16. Cut(s, 0, 0) = <<>>
  <2>1. 0 <= 0 /\ 0 - 0 = 0 /\ 0 \in Nat
    OBVIOUS
  <2>2. Cut(s, 0, 0) \in Seq(Units) /\ Len(Cut(s, 0, 0)) = 0
    BY <2>1, CutType
  <2>. QED BY <2>2, EmptySeq
<1>17. InFlight' = 0
  <2>1. Len(queue'[0]) = 0
    BY <1>1, <1>4, EmptySeq DEF mgrVars
  <2>. QED BY <1>6, <2>1 DEF InFlight
<1>18. SentOut(0)'
  <2>1. Lesser(0 + At(0), s.len) = 0
    <3>1. At(0) = 0
      BY AtFacts
    <3>2. 0 + At(0) = 0 /\ 0 <= s.len
      BY <1>7, <3>1
    <3>. QED BY <3>2 DEF Lesser
  <2>2. moved' = Cut(s, 0, Lesser(0 + At(InFlight'), s.len))
    BY <1>1, <1>16, <1>17, <2>1
  <2>3. \A i \in 1 .. 0 : FALSE
    OBVIOUS
  <2>. QED BY <1>1, <1>17, <2>2, <2>3 DEF SentOut
<1>19. Announced(n)'
  <2>1. /\ Coming'[n + 1] = "CTRL_SETUP_PHASE_DONE" /\ Len(Coming') = n + 1
        /\ \A i \in 1 .. n : Coming'[i] = Coming[i]
    BY <1>5, <1>6 DEF Grown
  <2>2. Residue(n)'
    <3>1. (n = 1 => 1 \in 1 .. n) /\ (n = 2 => 1 \in 1 .. n /\ 2 \in 1 .. n)
      OBVIOUS
    <3>2. (n = 1 => Coming'[1] = Coming[1]) /\ (n = 2 => Coming'[1] = Coming[1] /\ Coming'[2] = Coming[2])
      BY <2>1, <3>1
    <3>. QED BY <1>3, <1>5, <3>2 DEF Residue
  <2>3. OnlyRx(n + 1)' /\ Len(Coming') > n /\ Len(Coming') = n + 1 + InFlight'
    <3>1. (\A i \in n + 1 + 1 .. n + 1 : FALSE) /\ n + 1 > n /\ n + 1 + 0 = n + 1
      OBVIOUS
    <3>. QED BY <1>17, <2>1, <3>1 DEF OnlyRx
  <2>4. ~Armed'
    BY <1>9 DEF Armed
  <2>. QED BY <1>1, <1>2, <1>3, <1>4, <1>6, <1>10, <1>17, <1>18, <2>1, <2>2, <2>3, <2>4 DEF Announced
<1>20. InData'
  <2>. SUFFICES ASSUME resets' <= 1 PROVE InData'
    BY DEF InData
  <2>1. in.fifo = <<>>
    BY <1>1, <1>4 DEF PipeInv, TransferInv, InData, Answering
  <2>2. moved' = Cut(s, 0, Len(moved'))
    BY <1>1, <1>16, EmptySeq
  <2>3. ~Answering'
    BY <1>1, <1>10 DEF Answering
  <2>. QED BY <1>1, <1>2, <1>9, <2>1, <2>2, <2>3 DEF InData
<1>. QED BY <1>8, <1>11, <1>12, <1>13, <1>14, <1>15, <1>19, <1>20 DEF PipeInv, TransferInv, Protocol

\* OUT data: the core waits for it, or has not read the setup packet yet.
OutPhase(taken) ==
    /\ SentOut(taken)
    /\ \/ taken = 0 /\ \E n \in 0 .. 2 : Announced(n)
       \/ taken = request.len - rx.rem /\ Receiving

LEMMA OutWhen ==
    ASSUME OrdinaryUse, PipeInv, HostOut
    PROVE  /\ InTransfer /\ request.dir = "out" /\ outArmed
           /\ Len(moved) < request.len
           /\ \E taken \in Nat : OutPhase(taken)
<1>1. stage = "data" /\ request.dir = "out" /\ CanAcceptOut /\ InTransfer /\ outArmed
  BY DEF HostOut, CanAcceptOut, InTransfer
<1>2. request \in Setups /\ request.len \in Nat /\ request.dir # "in"
  BY <1>1, RequestFacts DEF PipeInv, TransferInv, PipeTypeOK
<1>3. Len(moved) < request.len
  <2>1. Len(moved) <= request.len /\ Len(moved) # request.len /\ Len(moved) \in Nat
    BY <1>1, LenProperties DEF PipeInv, TransferInv, Staged, PipeTypeOK
  <2>. QED BY <1>2, <2>1
<1>4. ~Responding
  BY <1>1 DEF Responding, Overtaken
<1>5. ~Executed
  BY <1>1, <1>2 DEF Executed, Refusal, StatusIn, Loaded, Fetched, Delivered, Stuck, Replying
<1>6. ASSUME NEW n \in 0 .. 2, Announced(n) PROVE OutPhase(0)
  BY <1>1, <1>6 DEF OutPhase, Announced, Overtaken
<1>7. ASSUME Receiving PROVE \E taken \in Nat : OutPhase(taken)
  <2>1. SentOut(request.len - rx.rem) /\ rx.rem <= request.len /\ rx.rem \in Nat
    BY <1>7 DEF Receiving, PipeInv, TransferInv, PipeTypeOK
  <2>2. PICK k \in Nat : k = request.len - rx.rem
    BY <1>2, <2>1
  <2>3. SentOut(k)
    BY <2>1, <2>2
  <2>. QED BY <1>7, <2>2, <2>3 DEF OutPhase
<1>8. \A n \in 0 .. 2 : ~Over(n)
  BY <1>1 DEF Over
<1>9. 0 \in Nat
  OBVIOUS
<1>10. \E taken \in Nat : OutPhase(taken)
  BY <1>4, <1>5, <1>6, <1>7, <1>8, <1>9 DEF PipeInv, TransferInv, Protocol
<1>. QED BY <1>1, <1>3, <1>10

\* The packet: the next units of the payload.
LEMMA OutPacket ==
    ASSUME OrdinaryUse, PipeInv, HostOut, NEW taken \in Nat, SentOut(taken)
    PROVE  \E a \in Nat, b \in Nat, u \in Seq(Units) :
             /\ a = taken + At(InFlight) /\ b = Lesser(taken + At(InFlight + 1), request.len)
             /\ a < b /\ b <= request.len /\ InFlight \in Nat
             /\ moved = Cut(request, 0, a) /\ Len(moved) = a
             /\ u = Cut(request, a, b) /\ u # <<>>
             /\ moved' = Cut(request, 0, b) /\ Len(moved') = b /\ moved' \in Seq(Units)
             /\ AcceptOut(request, u)
             /\ stage' = IF b = request.len THEN "status" ELSE "data"
<1>1. request \in Setups /\ request.len \in Nat
  BY RequestFacts DEF PipeInv, TransferInv, PipeTypeOK
<1>2. Len(moved) < request.len
  BY OutWhen
<1>3. InFlight \in Nat /\ At(InFlight) \in Nat /\ At(InFlight + 1) = At(InFlight) + EP0SIZE
  BY QueueFacts, AtFacts DEF PipeInv, TransferInv
<1>4. PICK a \in Nat : a = taken + At(InFlight)
  BY <1>3
<1>5. moved = Cut(request, 0, a) /\ Len(moved) = a
  <2>1. PICK c \in Nat : c = Lesser(a, request.len)
    BY <1>1 DEF Lesser
  <2>2. moved = Cut(request, 0, c)
    BY <1>4, <2>1 DEF SentOut
  <2>3. Len(moved) = c
    <3>1. 0 <= c /\ c - 0 = c
      OBVIOUS
    <3>. QED BY <1>1, <2>2, <3>1, CutType
  <2>4. c = a
    BY <1>1, <1>2, <2>1, <2>3 DEF Lesser
  <2>. QED BY <2>2, <2>3, <2>4
<1>6. PICK n \in Nat : n = Lesser(EP0SIZE, request.len - a) /\ n > 0 /\ n <= request.len - a
  BY <1>1, <1>2, <1>5, SizeFacts DEF Lesser
<1>7. PICK b \in Nat : b = a + n
  BY <1>6
<1>8. a < b /\ b <= request.len /\ a <= b /\ b - a > 0 /\ 0 <= a /\ 0 <= b /\ b - 0 = b
  BY <1>1, <1>2, <1>5, <1>6, <1>7
<1>9. b = Lesser(taken + At(InFlight + 1), request.len)
  BY <1>1, <1>2, <1>3, <1>4, <1>5, <1>6, <1>7, SizeFacts DEF Lesser
<1>10. PICK u : u = SubSeq(Payload(request), a + 1, b)
  OBVIOUS
<1>11. /\ AcceptOut(request, u) /\ moved' = moved \o u
       /\ stage' = IF b = request.len THEN "status" ELSE "data"
  BY <1>5, <1>6, <1>7, <1>10 DEF HostOut
<1>12. u = Cut(request, a, b)
  <2>1. SubSeq(Cut(request, 0, request.len), a + 1, b) = Cut(request, a, b)
    BY <1>1, <1>8, CutFront
  <2>. QED BY <1>1, <1>10, <2>1, CutWhole
<1>13. u \in Seq(Units) /\ u # <<>>
  <2>1. u \in Seq(Units) /\ Len(u) = b - a
    BY <1>1, <1>8, <1>12, CutType
  <2>. QED BY <1>8, <2>1, EmptySeq
<1>14. moved' = Cut(request, 0, b)
  BY <1>1, <1>5, <1>8, <1>11, <1>12, CutJoins
<1>15. Len(moved') = b /\ moved' \in Seq(Units)
  BY <1>1, <1>8, <1>14, CutType
<1>. QED BY <1>3, <1>4, <1>5, <1>8, <1>9, <1>11, <1>12, <1>13, <1>14, <1>15

\* The packet in the receive FIFO.
LEMMA OutShape ==
    ASSUME OrdinaryUse, PipeInv, HostOut, NEW u \in Seq(Units), u # <<>>, AcceptOut(request, u)
    PROVE  /\ rxq' \in Seq(Entries) /\ Wire'
           /\ lastSetup = request \/ SetupPending => lastSetup = request
           /\ Grown("EP_RX")
           /\ InFlight' = InFlight + 1 /\ InFlight \in Nat
           /\ \A i \in 1 .. InFlight : Flying(i)' = Flying(i)
           /\ \A i \in Nat : i = InFlight + 1 => Flying(i)' = u
<1>1. /\ rxq' = rxq \o <<Entry("data", request, u), Entry("outDone", request, <<>>)>>
      /\ outArmed' = FALSE /\ stage' \in {"data", "status"}
      /\ UNCHANGED <<mgrVars, packet, evq, flags, request>>
  BY DEF HostOut, AcceptOut
<1>2. InTransfer /\ InTransfer' /\ outArmed
  BY <1>1, OutWhen DEF InTransfer
<1>3. PipeTypeOK /\ RxqShape /\ request \in Setups /\ rxq \in Seq(Entries) /\ Len(rxq) \in Nat
  BY LenProperties DEF PipeInv, TransferInv, Wire, PipeTypeOK
<1>4. PICK x \in Entries : x = Entry("data", request, u)
  BY <1>3 DEF Entry, Entries
<1>5. PICK y \in Entries : y = Entry("outDone", request, <<>>)
  BY <1>3, EmptySeq DEF Entry, Entries
<1>6. x.kind = "data" /\ y.kind = "outDone" /\ x.units = u
  BY <1>4, <1>5 DEF Entry
<1>7. /\ Len(rxq) = 0 \/ (Len(rxq) = 1 /\ Kind(1) = "outDone")
      /\ Len(rxq) <= 2
  BY <1>2, AcceptingFifo
<1>8. /\ Grown("EP_RX") /\ rxq' \in Seq(Entries) /\ Len(rxq') = Len(rxq) + 2
      /\ \A i \in 1 .. Len(rxq) : rxq'[i] = rxq[i]
      /\ rxq'[Len(rxq) + 1] = x /\ rxq'[Len(rxq) + 2] = y
  <2>1. /\ rxq' = rxq \o <<x, y>> /\ UNCHANGED <<evq, flags>>
        /\ x.kind \in {"setup", "data"} /\ y.kind \in {"setupDone", "outDone"}
        /\ y.kind # "setupDone"
    BY <1>1, <1>4, <1>5, <1>6
  <2>. QED BY <1>3, <1>7, <2>1, AcceptGrows
<1>9. ~(Len(rxq) >= 2)
  <2>1. ~(0 >= 2) /\ ~(1 >= 2)
    OBVIOUS
  <2>. QED BY <1>7, <2>1
<1>10. /\ RxqShape' /\ Newest' = x
       /\ Len(rxq') = 2 \/ Len(rxq') = 3
  <2>1. CASE Len(rxq) = 0
    <3>1. Len(rxq') = 2 /\ rxq'[1] = x /\ rxq'[2] = y
      <4>1. 0 + 2 = 2 /\ 0 + 1 = 1
        OBVIOUS
      <4>. QED BY <1>8, <2>1, <4>1
    <3>2. Len(rxq') - 1 = 1
      BY <3>1, SmallLengths
    <3>. QED BY <1>6, <3>1, <3>2 DEF RxqShape, Kind, Newest
  <2>2. CASE Len(rxq) = 1 /\ Kind(1) = "outDone"
    <3>1. Len(rxq') = 3 /\ rxq'[1] = rxq[1] /\ rxq'[2] = x /\ rxq'[3] = y
      <4>1. 1 + 2 = 3 /\ 1 + 1 = 2 /\ 1 \in 1 .. 1
        OBVIOUS
      <4>. QED BY <1>8, <2>2, <4>1
    <3>2. Len(rxq') - 1 = 2
      BY <3>1, SmallLengths
    <3>. QED BY <1>6, <2>2, <3>1, <3>2 DEF RxqShape, Kind, Newest
  <2>. QED BY <1>7, <2>1, <2>2
<1>11. Len(rxq') >= 2 /\ Len(rxq') # 0 /\ Len(rxq') # 1 /\ Len(rxq') # 4
  BY <1>10, SmallLengths
<1>12. ~SetupPending' /\ DataPending' /\ ~SetupPending /\ ~DataPending
  BY <1>6, <1>9, <1>10, <1>11 DEF SetupPending, DataPending
<1>13. Wire'
  <2>1. ~Silent'
    BY <1>1, <1>2, TransferNotSilent DEF Silent
  <2>2. RxqDepth >= 2
    BY <1>2 DEF PipeInv, TransferInv, Wire
  <2>. QED BY <1>1, <1>2, <1>6, <1>10, <1>11, <1>12, <2>1, <2>2 DEF Wire
<1>14. InFlight = Len(queue[0]) /\ InFlight' = InFlight + 1 /\ InFlight \in Nat
  <2>1. Len(queue[0]) \in Nat
    BY QueueFacts DEF PipeInv, TransferInv
  <2>. QED BY <1>1, <1>2, <1>12, <2>1 DEF InFlight, mgrVars
<1>15. \A i \in 1 .. InFlight : Flying(i)' = Flying(i)
  <2>. TAKE i \in 1 .. InFlight
  <2>1. i <= Len(queue[0])
    BY <1>14
  <2>. QED BY <1>1, <2>1 DEF Flying, mgrVars
<1>16. \A i \in Nat : i = InFlight + 1 => Flying(i)' = u
  <2>. SUFFICES ASSUME NEW i \in Nat, i = InFlight + 1 PROVE Flying(i)' = u
    OBVIOUS
  <2>1. ~(i <= Len(queue[0]))
    BY <1>14
  <2>. QED BY <1>1, <1>6, <1>10, <1>14, <2>1 DEF Flying, mgrVars
<1>. QED BY <1>8, <1>12, <1>13, <1>14, <1>15, <1>16

\* The packet is the next one of the payload in flight.
LEMMA OutKeepsSent ==
    ASSUME OrdinaryUse, PipeInv, HostOut, NEW taken \in Nat, SentOut(taken)
    PROVE  SentOut(taken)'
<1>1. PICK a \in Nat, b \in Nat, u \in Seq(Units) :
             /\ a = taken + At(InFlight) /\ b = Lesser(taken + At(InFlight + 1), request.len)
             /\ a < b /\ b <= request.len
             /\ u = Cut(request, a, b) /\ u # <<>>
             /\ moved' = Cut(request, 0, b)
             /\ AcceptOut(request, u)
  BY OutPacket
<1>2. /\ InFlight' = InFlight + 1 /\ InFlight \in Nat
      /\ \A i \in 1 .. InFlight : Flying(i)' = Flying(i)
      /\ \A i \in Nat : i = InFlight + 1 => Flying(i)' = u
  BY <1>1, OutShape
<1>3. request' = request
  BY DEF HostOut
<1>4. PICK m \in Nat : m = InFlight
  BY <1>2
<1>5. InFlight' = m + 1
  BY <1>2, <1>4
<1>6. request.len \in Nat
  BY RequestFacts DEF PipeInv, TransferInv, PipeTypeOK
<1>7. ASSUME NEW i \in 1 .. m + 1
      PROVE  /\ taken + At(i - 1) < request.len
             /\ Flying(i)' = Cut(request, taken + At(i - 1), Lesser(taken + At(i), request.len))
  <2>1. CASE i \in 1 .. m
    BY <1>2, <1>4, <2>1 DEF SentOut
  <2>2. CASE i = m + 1
    <3>1. i - 1 = m /\ i \in Nat
      BY <2>2
    <3>2. a < request.len
      BY <1>1, <1>6
    <3>. QED BY <1>1, <1>2, <1>4, <2>2, <3>1, <3>2
  <2>. QED BY <2>1, <2>2
<1>8. moved' = Cut(request, 0, Lesser(taken + At(m + 1), request.len))
  BY <1>1, <1>4
<1>. QED BY <1>3, <1>5, <1>7, <1>8 DEF SentOut

\* One more packet fits the event queue.
LEMMA OutFits ==
    ASSUME OrdinaryUse, PipeInv, NEW taken \in Nat, request.dir = "out", InFlight \in Nat,
           taken + At(InFlight) < request.len
    PROVE  1 + (InFlight + 1) + 2 * MaxResets <= Depth
<1>1. request \in Setups /\ request.len \in Nat /\ Serviceable(request)
  BY RequestFacts DEF PipeInv, TransferInv, PipeTypeOK
<1>2. At(InFlight) \in Nat
  BY AtFacts
<1>3. request.len > 0 /\ At(InFlight) < request.len
  BY <1>1, <1>2
<1>4. request.len <= At(Depth - 1 - 2 * MaxResets)
  BY <1>1, <1>3 DEF Serviceable
<1>5. Depth - 1 - 2 * MaxResets \in Int
  BY SizeFacts
<1>6. At(Depth - 1 - 2 * MaxResets) \in Int
  BY <1>5, SizeFacts DEF At
<1>7. At(InFlight) < At(Depth - 1 - 2 * MaxResets)
  BY <1>1, <1>2, <1>3, <1>4, <1>6
<1>8. InFlight < Depth - 1 - 2 * MaxResets
  BY <1>5, <1>7, AtMonotone
<1>. QED BY <1>5, <1>8, SizeFacts

LEMMA OutKeepsPhase ==
    ASSUME OrdinaryUse, PipeInv, HostOut, NEW taken \in Nat, OutPhase(taken),
           NEW u \in Seq(Units), u # <<>>, AcceptOut(request, u)
    PROVE  Protocol' /\ \E n \in 0 .. 2 : Len(Coming') <= n + 1 + InFlight'
<1>1. /\ stage' \in {"data", "status"}
      /\ UNCHANGED <<control, setup, tx, rx, address, registered, thread, lastSetup, in, request, ran>>
  BY DEF HostOut, coreVars
<1>2. InTransfer /\ InTransfer'
  BY <1>1, OutWhen DEF InTransfer
<1>3. /\ lastSetup = request \/ SetupPending => lastSetup = request
      /\ Grown("EP_RX")
      /\ InFlight' = InFlight + 1 /\ InFlight \in Nat
  BY OutShape
<1>4. SentOut(taken)'
  BY OutKeepsSent DEF OutPhase
<1>5. request.dir = "out" /\ request' = request
  BY <1>1, OutWhen
<1>6. Armed' = Armed
  BY <1>1 DEF Armed
<1>7. Len(Coming) \in Nat
  BY RoomFacts
<1>8. /\ Len(Coming') = Len(Coming) + 1
      /\ \A i \in 1 .. Len(Coming) : Coming'[i] = Coming[i]
      /\ \A i \in 1 .. Len(Coming') : i \in 1 .. Len(Coming) \/ Coming'[i] = "EP_RX"
  BY <1>3, <1>7 DEF Grown
<1>9. \A k \in Nat : OnlyRx(k) => OnlyRx(k)'
  <2>. SUFFICES ASSUME NEW k \in Nat, OnlyRx(k), NEW i \in k + 1 .. Len(Coming')
                PROVE  Coming'[i] = "EP_RX"
    BY DEF OnlyRx
  <2>1. i \in 1 .. Len(Coming') /\ (i \in 1 .. Len(Coming) => i \in k + 1 .. Len(Coming))
    BY <1>7, <1>8
  <2>. QED BY <1>8, <2>1 DEF OnlyRx
<1>10. ASSUME taken = 0, NEW n \in 0 .. 2, Announced(n)
       PROVE  Announced(n)' /\ Len(Coming') <= n + 1 + InFlight'
  <2>1. /\ thread = "loop" /\ registered /\ ran[request.id] = 0
        /\ Len(Coming) > n /\ Residue(n) /\ Coming[n + 1] = "CTRL_SETUP_PHASE_DONE"
        /\ lastSetup = request \/ SetupPending
        /\ OnlyRx(n + 1) /\ Len(Coming) = n + 1 + InFlight /\ ~Armed
    BY <1>2, <1>10 DEF Announced, Overtaken
  <2>2. /\ n + 1 \in 1 .. Len(Coming) /\ n + 1 \in Nat
        /\ Len(Coming') > n /\ Len(Coming') = n + 1 + InFlight' /\ Len(Coming') <= n + 1 + InFlight'
    BY <1>3, <1>7, <1>8, <2>1
  <2>3. Coming'[n + 1] = "CTRL_SETUP_PHASE_DONE"
    BY <1>8, <2>1, <2>2
  <2>4. Residue(n)'
    <3>1. (n = 1 => 1 \in 1 .. Len(Coming)) /\ (n = 2 => 1 \in 1 .. Len(Coming) /\ 2 \in 1 .. Len(Coming))
      BY <1>7, <2>1
    <3>. QED BY <1>1, <1>8, <2>1, <3>1 DEF Residue
  <2>5. OnlyRx(n + 1)'
    BY <1>9, <2>1, <2>2
  <2>6. SentOut(0)'
    BY <1>4, <1>10
  <2>. QED BY <1>1, <1>2, <1>3, <1>5, <1>6, <2>1, <2>2, <2>3, <2>4, <2>5, <2>6 DEF Announced
<1>11. ASSUME taken = request.len - rx.rem, Receiving
       PROVE  Receiving' /\ Len(Coming') <= 0 + 1 + InFlight'
  <2>1. SentOut(request.len - rx.rem)'
    BY <1>1, <1>4, <1>11
  <2>2. OnlyRx(0)'
    BY <1>9, <1>11 DEF Receiving
  <2>3. Len(Coming') = InFlight' /\ Len(Coming') <= 0 + 1 + InFlight'
    BY <1>3, <1>8, <1>11 DEF Receiving
  <2>. QED BY <1>1, <1>2, <1>6, <1>11, <2>1, <2>2, <2>3 DEF Receiving
<1>12. 0 \in 0 .. 2
  OBVIOUS
<1>. QED BY <1>10, <1>11, <1>12 DEF OutPhase, Protocol

LEMMA OutKeeps ==
    ASSUME OrdinaryUse, PipeInv, HostOut
    PROVE  TransferInv'
<1>1. InTransfer /\ request.dir = "out" /\ Len(moved) < request.len
  BY OutWhen
<1>2. PICK taken \in Nat : OutPhase(taken)
  BY OutWhen
<1>3. SentOut(taken)
  BY <1>2 DEF OutPhase
<1>4. PICK a \in Nat, b \in Nat, u \in Seq(Units) :
             /\ a = taken + At(InFlight)
             /\ a < b /\ b <= request.len
             /\ u # <<>>
             /\ Len(moved') = b /\ moved' \in Seq(Units)
             /\ AcceptOut(request, u)
             /\ stage' = IF b = request.len THEN "status" ELSE "data"
  BY <1>3, OutPacket
<1>5. /\ outArmed' = FALSE /\ stage' \in {"data", "status"}
      /\ UNCHANGED <<mgrVars, packet, lastSetup, in, stall, flags, evq, lost, crashed, coreVars,
                     request, assigned, resets, ran>>
  BY <1>4 DEF HostOut, AcceptOut
<1>6. UNCHANGED <<control, setup, tx, rx, address, registered, thread>>
  BY <1>5 DEF coreVars
<1>7. InTransfer'
  BY <1>5 DEF InTransfer
<1>8. /\ rxq' \in Seq(Entries) /\ Wire'
      /\ Grown("EP_RX")
      /\ InFlight' = InFlight + 1 /\ InFlight \in Nat
  BY <1>4, OutShape
<1>9. Ep0Inv'
  BY Ep0InvStep DEF PipeInv, TransferInv, Next, Transaction
<1>10. PipeTypeOK' /\ PacketsFit'
  BY <1>4, <1>5, <1>6, <1>8 DEF PipeInv, TransferInv, PipeTypeOK, PacketsFit
<1>11. Protocol' /\ \E n \in 0 .. 2 : Len(Coming') <= n + 1 + InFlight'
  BY <1>2, <1>4, OutKeepsPhase
<1>12. request.len \in Nat
  BY RequestFacts DEF PipeInv, TransferInv, PipeTypeOK
<1>13. Room'
  <2>1. PICK n \in 0 .. 2 : Len(Coming') <= n + 1 + InFlight'
    BY <1>11
  <2>2. a < request.len
    BY <1>4, <1>12
  <2>3. 1 + (InFlight + 1) + 2 * MaxResets <= Depth
    BY <1>1, <1>4, <1>8, <2>2, OutFits
  <2>4. resets # 0
    BY <1>1 DEF PipeInv, TransferInv, Staged, InTransfer
  <2>5. /\ resets \in Nat /\ MaxResets \in Nat /\ Depth \in Nat /\ active[0] # NoBuf
        /\ Len(Coming) \in Nat
    BY RoomFacts, SizeFacts DEF PipeInv, TransferInv, Room
  <2>6. Len(Coming') \in Nat
    BY <1>8, <2>5 DEF Grown
  <2>7. Len(Coming') + 2 * (MaxResets - resets) + 0 <= Depth
    BY <1>8, <2>1, <2>3, <2>4, <2>5, <2>6
  <2>8. stage' # "reset"
    BY <1>5
  <2>. QED BY <1>5, <2>5, <2>7, <2>8 DEF Room, mgrVars
<1>14. Staged'
  <2>1. Len(moved') <= request'.len /\ (stage' = "status" <=> Len(moved') = request'.len)
    BY <1>4, <1>5
  <2>2. resets # 0 /\ request.dir # "in"
    BY <1>1 DEF PipeInv, TransferInv, Staged, InTransfer
  <2>. QED BY <1>5, <2>1, <2>2 DEF Staged
<1>15. Addressed'
  BY <1>1, <1>5, <1>6, <1>7 DEF PipeInv, TransferInv, Addressed
<1>16. InData'
  <2>1. request.dir # "in"
    BY <1>1
  <2>. QED BY <1>1, <1>5, <1>6, <1>7, <2>1 DEF PipeInv, TransferInv, InData, Answering
<1>. QED BY <1>8, <1>9, <1>10, <1>11, <1>13, <1>14, <1>15, <1>16 DEF PipeInv, TransferInv

-----------------------------------------------------------------------------
(* PipeInv is an inductive invariant.                                      *)

LEMMA FirstBufferActive == Head(FreeList) \in Buffers /\ Head(FreeList) # NoBuf
  BY InitialPartition, BuffersAssumption

LEMMA PipeInvInit == OrdinaryUse /\ Init => PipeInv
<1>. SUFFICES ASSUME OrdinaryUse, Init PROVE PipeInv
  OBVIOUS
<1>1. /\ active = [e \in Eps |-> Head(FreeList)] /\ queue = [e \in Eps |-> <<>>]
      /\ packet = [b \in Buffers |-> <<>>]
      /\ rxq = <<>> /\ lastSetup = NoSetup /\ outArmed = FALSE
      /\ in = [ena |-> FALSE, nak |-> TRUE, size |-> 0, fifo |-> <<>>]
      /\ stall = FALSE /\ flags = {} /\ evq = <<>> /\ lost = FALSE /\ crashed = FALSE
  BY DEF Init, DrvInit
<1>2. /\ control \in ControlStates /\ setup = NoSetup
      /\ tx = [buf |-> <<>>, pos |-> 0, rem |-> 0] /\ rx = [buf |-> <<>>, rem |-> 0]
      /\ address = 0 /\ registered = FALSE /\ thread = "loop"
  BY DEF Init, CoreInit, EmptyTx
<1>3. /\ stage = "detached" /\ request \in Setups /\ moved = <<>>
      /\ assigned = 0 /\ resets = 0 /\ ran = [i \in Ids |-> 0]
  BY DEF Init
<1>4. Len(<<>>) = 0 /\ Len(<<>>) <= 0 /\ <<>> \in Seq(Units) /\ <<>> \in Seq(Entries) /\ <<>> \in Seq(Events)
  BY EmptySeq
<1>5. Ep0Inv
  BY Ep0InvInit
<1>6. active[0] # NoBuf /\ queue[0] = <<>>
  BY <1>1, FirstBufferActive, EndpointZero
<1>7. /\ MaxResets \in Nat /\ MaxSuspends \in Nat /\ Depth \in Int /\ TxFifoRoom \in Nat
      /\ EP0SIZE \in Nat /\ TxMax \in Nat /\ RxMax \in Nat /\ NoSetup \notin Setups
  BY SizeFacts, PipeAssumption, Ep0Assumption
<1>8. PipeTypeOK
  <2>1. in \in [ena : BOOLEAN, nak : BOOLEAN, size : 0 .. EP0SIZE, fifo : Seq(Units)]
    BY <1>1, <1>4, <1>7
  <2>2. tx \in [buf : Seq(Units), pos : Nat, rem : Nat] /\ rx \in [buf : Seq(Units), rem : Nat]
    BY <1>2, <1>4
  <2>3. /\ Len(in.fifo) <= TxFifoRoom
        /\ tx.pos + tx.rem <= Len(tx.buf) /\ Len(tx.buf) <= TxMax
        /\ Len(rx.buf) + rx.rem <= RxMax
    <3>1. in.fifo = <<>> /\ tx.pos = 0 /\ tx.rem = 0 /\ tx.buf = <<>> /\ rx.buf = <<>> /\ rx.rem = 0
      BY <1>1, <1>2
    <3>. QED BY <1>4, <1>7, <3>1
  <2>4. resets \in 0 .. MaxResets
    BY <1>3, <1>7
  <2>5. ran \in [Ids -> 0 .. 1] /\ packet \in [Buffers -> Seq(Units)]
    BY <1>1, <1>3, <1>4
  <2>. QED BY <1>1, <1>2, <1>3, <1>4, <2>1, <2>2, <2>3, <2>4, <2>5 DEF PipeTypeOK, ControlStates
<1>9. PacketsFit
  BY <1>1, <1>4, <1>7 DEF PacketsFit
<1>10. ~InTransfer
  BY <1>3 DEF InTransfer
<1>11. Coming = <<>>
  <2>1. RxqShape
    BY <1>1, <1>4 DEF RxqShape
  <2>. QED BY <1>1, <1>8, <2>1, ComingFacts
<1>12. Len(Coming) = 0 /\ \A i \in 1 .. Len(Coming) : FALSE
  BY <1>4, <1>11
<1>13. Wire
  <2>1. RxqShape /\ Len(rxq) # 4 /\ ~(Len(rxq) >= 2)
    BY <1>1, <1>4, SmallLengths DEF RxqShape
  <2>. QED BY <1>1, <1>4, <1>10, <2>1 DEF Wire, SetupPending, DataPending
<1>14. Room
  <2>1. 1 + 2 * MaxResets <= Depth
    BY DEF OrdinaryUse
  <2>2. 0 + 2 * (MaxResets - 0) + 0 <= Depth
    BY <1>7, <2>1
  <2>. QED BY <1>3, <1>6, <1>12, <2>2 DEF Room
<1>15. Over(0) /\ 0 \in 0 .. 2
  <2>1. InFlight = 0
    <3>1. Len(queue[0]) = 0 /\ 0 + 0 = 0
      BY <1>4, <1>6
    <3>. QED BY <1>10, <3>1 DEF InFlight
  <2>2. OnlyBus(0) /\ Len(Coming) >= 0
    <3>1. 0 + 1 = 1 /\ 0 >= 0
      OBVIOUS
    <3>. QED BY <1>12, <3>1 DEF OnlyBus
  <2>. QED BY <1>2, <1>3, <1>10, <2>1, <2>2 DEF Over, Residue
<1>16. Staged /\ Addressed
  <2>1. \A i \in DOMAIN Coming : FALSE
    BY <1>11
  <2>. QED BY <1>2, <1>3, <1>10, <1>11, <2>1 DEF Staged, Addressed
<1>17. InData
  BY <1>1, <1>2, <1>7, <1>10 DEF InData, Answering, Served
<1>18. Beside
  <2>1. /\ otepspr = FALSE /\ ignored = <<>> /\ asked = FALSE /\ suspends = 0 /\ 0 \in 0 .. MaxSuspends
        /\ <<>> \in Seq(Nat)
    BY <1>7, EmptySeq DEF Init, DrvInit
  <2>2. Own = 0 /\ Pending = 0 /\ Len(ignored) + Pending = 0
    BY <1>4, <2>1 DEF Own, Pending
  <2>3. /\ \A i \in DOMAIN ignored : ignored[i] <= Len(evq)
        /\ \A k \in DOMAIN evq : FALSE
    BY <1>1, <2>1
  <2>4. Len(ignored) + Pending <= 1 + Own /\ Len(ignored) + Pending <= Own
    BY <2>2
  <2>5. otepspr \in BOOLEAN /\ asked \in BOOLEAN /\ suspends \in 0 .. MaxSuspends /\ ignored \in Seq(Nat)
    BY <2>1
  <2>. QED BY <2>1, <2>3, <2>4, <2>5 DEF Beside
<1>. QED BY <1>5, <1>8, <1>9, <1>13, <1>14, <1>15, <1>16, <1>17, <1>18 DEF PipeInv, TransferInv, Protocol

\* A step of the ignored events alone, or of nothing.
Still == /\ UNCHANGED <<mgrVars, packet, rxq, lastSetup, outArmed, in, stall, flags, evq, crashed,
                        coreVars, stage, request, moved, assigned, resets, ran>>
         /\ ~lost'

LEMMA StillKeeps ==
    ASSUME PipeInv, Still
    PROVE  TransferInv'
<1>1. /\ UNCHANGED <<pool, active, queue, packet, rxq, lastSetup, outArmed, in>>
      /\ UNCHANGED <<stall, flags, evq, crashed, control, setup, tx, rx>> /\ ~lost'
      /\ UNCHANGED <<address, registered, thread>>
      /\ UNCHANGED <<stage, request, moved, assigned, resets, ran>>
  BY DEF Still, mgrVars, coreVars
<1>2. Ep0Inv'
  BY <1>1, SameBuffersKeep DEF PipeInv, TransferInv, mgrVars
<1>3. Coming' = Coming /\ InTransfer' = InTransfer /\ Armed' = Armed
  BY <1>1 DEF Coming, InTransfer, Armed
<1>4. /\ SetupPending' = SetupPending /\ DataPending' = DataPending /\ Newest' = Newest
      /\ RxqShape' = RxqShape /\ Silent' = Silent
  BY <1>1 DEF SetupPending, DataPending, Newest, RxqShape, Kind, Silent
<1>5. PipeTypeOK' /\ PacketsFit'
  BY <1>1 DEF PipeInv, TransferInv, PipeTypeOK, PacketsFit
<1>6. Wire'
  <2>1. rxq' = rxq /\ flags' = flags /\ outArmed' = outArmed /\ request' = request
    BY <1>1
  <2>2. Wire
    BY DEF PipeInv, TransferInv
  <2>3. RxqShape' /\ (SetupPending => InTransfer /\ Newest.setup = request)'
    BY <1>3, <1>4, <2>1, <2>2 DEF Wire
  <2>4. (DataPending => (Newest.units = <<>> <=> ~InTransfer))' /\ (Len(rxq) = 4 => rxq[1].units = <<>>)'
    BY <1>3, <1>4, <2>1, <2>2 DEF Wire
  <2>5. (InTransfer => (outArmed <=> Len(rxq) = 0 \/ (Len(rxq) = 1 /\ Kind(1) = "outDone")))'
    BY <1>3, <2>1, <2>2 DEF Wire, Kind
  <2>6. (\/ InTransfer
         \/ Len(rxq) = 0
         \/ Len(rxq) = 1 /\ Kind(1) = "outDone"
         \/ Len(rxq) = 2 /\ Kind(1) = "data")'
    BY <1>3, <2>1, <2>2 DEF Wire, Kind
  <2>7. (InTransfer => RxqDepth >= 2)' /\ (Silent => rxq = <<>> /\ flags = {})'
    BY <1>3, <1>4, <2>1, <2>2 DEF Wire
  <2>. QED BY <2>3, <2>4, <2>5, <2>6, <2>7 DEF Wire
<1>7. Room'
  BY <1>1, <1>3 DEF PipeInv, TransferInv, Room
<1>8. InFlight' = InFlight /\ InFlight \in Nat /\ \A i \in 1 .. InFlight : Flying(i)' = Flying(i)
  BY <1>1, <1>3, <1>4, QueueFacts DEF PipeInv, TransferInv, InFlight, Flying
<1>9. Protocol' /\ Staged' /\ Addressed' /\ InData'
  BY <1>1, <1>3, <1>4, <1>8, PollKeepsProtocol DEF coreVars
<1>. QED BY <1>2, <1>5, <1>6, <1>7, <1>9 DEF PipeInv, TransferInv

-----------------------------------------------------------------------------
(* The events the core ignores.                                            *)

LEMMA BesideFacts ==
    ASSUME PipeInv
    PROVE  /\ otepspr \in BOOLEAN /\ asked \in BOOLEAN /\ suspends \in Nat /\ suspends <= MaxSuspends
           /\ ignored \in Seq(Nat) /\ Len(ignored) \in Nat /\ DOMAIN ignored = 1 .. Len(ignored)
           /\ \A i \in DOMAIN ignored : ignored[i] \in Nat /\ ignored[i] <= Len(evq)
           /\ Pending \in Nat /\ Own \in Nat /\ MaxSuspends \in Nat
           /\ Pending = (IF otepspr THEN 1 ELSE 0) /\ Own = suspends + (IF asked THEN 1 ELSE 0)
           /\ Len(ignored) + Pending <= 1 + Own
           /\ evq \in Seq(Events) /\ Len(evq) \in Nat /\ DOMAIN evq = 1 .. Len(evq)
           /\ PipeTypeOK /\ RxqShape
<1>1. PipeTypeOK /\ RxqShape /\ evq \in Seq(Events)
  BY DEF PipeInv, TransferInv, Wire, PipeTypeOK
<1>2. /\ otepspr \in BOOLEAN /\ asked \in BOOLEAN /\ suspends \in 0 .. MaxSuspends
      /\ ignored \in Seq(Nat) /\ \A i \in DOMAIN ignored : ignored[i] <= Len(evq)
      /\ Len(ignored) + Pending <= 1 + Own
  BY DEF PipeInv, Beside
<1>3. Len(ignored) \in Nat /\ DOMAIN ignored = 1 .. Len(ignored) /\ Len(evq) \in Nat /\ DOMAIN evq = 1 .. Len(evq)
  BY <1>1, <1>2, LenProperties
<1>4. \A i \in DOMAIN ignored : ignored[i] \in Nat
  BY <1>2, <1>3
<1>5. MaxSuspends \in Nat /\ suspends \in Nat /\ suspends <= MaxSuspends
  BY <1>2, SizeFacts
<1>6. Pending \in Nat /\ Own \in Nat
  BY <1>2, <1>5 DEF Pending, Own
<1>. QED BY <1>1, <1>2, <1>3, <1>4, <1>5, <1>6 DEF Pending, Own

\* What is left to show of a step that moves neither queue.
LEMMA BesideStays ==
    ASSUME PipeInv, UNCHANGED <<otepspr, ignored, evq, asked, suspends>>, Silent' => Silent,
           (\A i \in DOMAIN Coming' : Coming'[i] \notin Marks)
               => \A i \in DOMAIN Coming : Coming[i] \notin Marks
    PROVE  Beside'
<1>1. Pending' = Pending /\ Own' = Own
  BY DEF Pending, Own
<1>. QED BY <1>1 DEF PipeInv, Beside

\* What is left to show of a step that queues another ignored event last.
LEMMA BesideGrows ==
    ASSUME PipeInv, UNCHANGED evq, Coming' = Coming, Silent' => Silent,
           ignored' = Append(ignored, Len(evq)),
           otepspr' \in BOOLEAN, otepspr' => otepspr, asked' = asked, suspends' \in 0 .. MaxSuspends,
           1 + Pending' - Own' <= Pending - Own, Own' \in Nat, Pending' \in Nat
    PROVE  Beside'
<1>1. /\ ignored \in Seq(Nat) /\ Len(ignored) \in Nat /\ DOMAIN ignored = 1 .. Len(ignored)
      /\ \A i \in DOMAIN ignored : ignored[i] \in Nat /\ ignored[i] <= Len(evq)
      /\ Pending \in Nat /\ Own \in Nat /\ Len(evq) \in Nat /\ asked \in BOOLEAN
      /\ Len(ignored) + Pending <= 1 + Own /\ DOMAIN evq = 1 .. Len(evq)
  BY BesideFacts
<1>2. /\ ignored' \in Seq(Nat) /\ Len(ignored') = Len(ignored) + 1
      /\ \A i \in 1 .. Len(ignored) : ignored'[i] = ignored[i]
      /\ ignored'[Len(ignored) + 1] = Len(evq)
      /\ DOMAIN ignored' = 1 .. Len(ignored) + 1
  BY <1>1, AppendProperties, LenProperties
<1>3. \A i \in DOMAIN ignored' : ignored'[i] <= Len(evq)
  <2>1. ASSUME NEW i \in 1 .. Len(ignored) + 1 PROVE i \in 1 .. Len(ignored) \/ i = Len(ignored) + 1
    BY <1>1
  <2>2. Len(evq) <= Len(evq)
    BY <1>1
  <2>. QED BY <1>1, <1>2, <2>1, <2>2
<1>. DEFINE l == Len(ignored)  l2 == Len(ignored')  p == Pending  p2 == Pending'  o == Own  o2 == Own'
<1>4. /\ l \in Nat /\ l2 = l + 1 /\ p \in Nat /\ p2 \in Nat /\ o \in Nat /\ o2 \in Nat
      /\ 1 + p2 - o2 <= p - o /\ l + p <= 1 + o
  BY <1>1, <1>2
<1>. HIDE DEF l, l2, p, p2, o, o2
<1>5. /\ l2 + p2 <= 1 + o2
      /\ l + p <= o => l2 + p2 <= o2
      /\ \A m \in 0 .. l : l - m + p <= o => m \in 0 .. l2 /\ l2 - m + p2 <= o2
  BY <1>4
<1>6. ASSUME NEW k \in DOMAIN evq, evq[k] \in Marks
      PROVE  \E m \in 0 .. l2 : (\A i \in 1 .. m : ignored'[i] < k) /\ l2 - m + p2 <= o2
  <2>1. PICK m \in 0 .. l : (\A i \in 1 .. m : ignored[i] < k) /\ l - m + p <= o
    BY <1>6 DEF PipeInv, Beside, l, p, o
  <2>2. \A i \in 1 .. m : ignored'[i] < k
    <3>1. \A i \in 1 .. m : i \in 1 .. l
      BY <1>4
    <3>. QED BY <1>2, <2>1, <3>1 DEF l
  <2>. QED BY <1>5, <2>1, <2>2
<1>7. (\A i \in DOMAIN Coming : Coming[i] \notin Marks) => l2 + p2 <= o2
  <2>. HAVE \A i \in DOMAIN Coming : Coming[i] \notin Marks
  <2>1. l + p <= o
    BY DEF PipeInv, Beside, l, p, o
  <2>. QED BY <1>5, <2>1
<1>8. Silent' => ~otepspr'
  BY DEF PipeInv, Beside
<1>9. /\ Len(ignored') + Pending' <= 1 + Own'
      /\ \A k \in DOMAIN evq : evq[k] \in Marks =>
             \E m \in 0 .. Len(ignored') : (\A i \in 1 .. m : ignored'[i] < k)
                                          /\ Len(ignored') - m + Pending' <= Own'
      /\ (\A i \in DOMAIN Coming : Coming[i] \notin Marks) => Len(ignored') + Pending' <= Own'
  BY <1>5, <1>6, <1>7 DEF l2, p2, o2
<1>10. asked' \in BOOLEAN /\ otepspr' \in BOOLEAN /\ suspends' \in 0 .. MaxSuspends /\ ignored' \in Seq(Nat)
  BY <1>1, <1>2
<1>. QED BY <1>3, <1>8, <1>9, <1>10 DEF Beside

LEMMA AsideFacts ==
    ASSUME PipeInv, Push(<<>>, TRUE, <<>>), otepspr \/ suspends < MaxSuspends
    PROVE  evq' = evq /\ ~lost' /\ ignored' = Append(ignored, Len(evq))
<1>1. /\ Len(ignored) \in Nat /\ Len(evq) \in Nat /\ PipeTypeOK /\ ignored \in Seq(Nat)
      /\ suspends \in Nat /\ MaxSuspends \in Nat /\ Pending = (IF otepspr THEN 1 ELSE 0)
      /\ Own = suspends + (IF asked THEN 1 ELSE 0) /\ Len(ignored) + Pending <= 1 + Own
      /\ asked \in BOOLEAN /\ otepspr \in BOOLEAN
  BY BesideFacts
<1>2. Len(evq) <= Len(Coming) /\ Len(Coming) \in Nat /\ Len(Coming) <= Depth
      /\ Len(Coming) + Len(ignored) + Pending <= EventDepth
  BY BesideFacts, ComingFacts, RoomFacts DEF HasRoom
<1>3. Len(evq) + Len(ignored) + 1 <= EventDepth
  <2>1. CASE otepspr
    BY <1>1, <1>2, <2>1, SizeFacts
  <2>2. CASE ~otepspr
    <3>1. suspends < MaxSuspends /\ Pending = 0 /\ Own <= suspends + 1
      BY <1>1, <2>2
    <3>. QED BY <1>1, <1>2, <3>1, SizeFacts
  <2>. QED BY <2>1, <2>2
<1>. QED BY <1>1, <1>3, PushAside

LEMMA StatusFirstKeeps ==
    ASSUME PipeInv, PollStatusFirst, UNCHANGED <<coreVars, hostVars>>
    PROVE  Still /\ Beside'
<1>1. /\ Push(<<>>, TRUE, <<>>) /\ otepspr /\ otepspr' = FALSE
      /\ UNCHANGED <<mgrVars, packet, rxq, lastSetup, outArmed, in, stall, flags, crashed>>
      /\ UNCHANGED <<coreVars, stage, request, moved, assigned, asked, suspends, resets, ran>>
  BY DEF PollStatusFirst, StatusFirst, PushIgnored, hostVars
<1>2. evq' = evq /\ ~lost' /\ ignored' = Append(ignored, Len(evq))
  BY <1>1, AsideFacts
<1>3. Coming' = Coming /\ Silent' = Silent
  BY <1>1, <1>2 DEF Coming, Silent
<1>4. /\ Pending = 1 /\ Pending' = 0 /\ Own' = Own /\ Own \in Nat
      /\ asked' = asked /\ suspends' \in 0 .. MaxSuspends
  <2>1. suspends \in 0 .. MaxSuspends
    BY DEF PipeInv, Beside
  <2>. QED BY <1>1, <2>1, BesideFacts DEF Pending, Own
<1>5. 1 + Pending' - Own' <= Pending - Own
  BY <1>4
<1>6. Beside'
  BY <1>1, <1>2, <1>3, <1>4, <1>5, BesideGrows
<1>. QED BY <1>1, <1>2, <1>6 DEF Still

LEMMA SuspendKeeps ==
    ASSUME PipeInv, Suspend
    PROVE  Still /\ Beside'
<1>1. /\ Push(<<>>, TRUE, <<>>) /\ otepspr' = otepspr /\ suspends < MaxSuspends /\ suspends' = suspends + 1
      /\ UNCHANGED <<mgrVars, packet, rxq, lastSetup, outArmed, in, stall, flags, crashed>>
      /\ UNCHANGED <<coreVars, stage, request, moved, assigned, asked, resets, ran>>
  BY DEF Suspend, PollSuspend, PushIgnored
<1>2. evq' = evq /\ ~lost' /\ ignored' = Append(ignored, Len(evq))
  BY <1>1, AsideFacts
<1>3. Coming' = Coming /\ Silent' = Silent
  BY <1>1, <1>2 DEF Coming, Silent
<1>4. /\ Pending' = Pending /\ Pending \in Nat /\ Own' = Own + 1 /\ Own \in Nat
      /\ asked' = asked /\ suspends' \in 0 .. MaxSuspends /\ otepspr' \in BOOLEAN
  <2>1. suspends \in Nat /\ MaxSuspends \in Nat /\ asked \in BOOLEAN /\ otepspr \in BOOLEAN
        /\ Pending \in Nat /\ Own \in Nat
    BY BesideFacts
  <2>2. Own' = suspends + 1 + (IF asked THEN 1 ELSE 0) /\ Own = suspends + (IF asked THEN 1 ELSE 0)
    BY <1>1 DEF Own
  <2>3. Own' = Own + 1 /\ suspends' \in 0 .. MaxSuspends
    BY <1>1, <2>1, <2>2
  <2>. QED BY <1>1, <2>1, <2>3 DEF Pending
<1>5. 1 + Pending' - Own' <= Pending - Own
  BY <1>4
<1>6. Beside'
  BY <1>1, <1>2, <1>3, <1>4, <1>5, BesideGrows
<1>. QED BY <1>1, <1>2, <1>6 DEF Still

\* What is left to show of a step that moves no event but may raise OTEPSPR.
LEMMA BesideShifts ==
    ASSUME PipeInv, UNCHANGED <<ignored, evq>>, Coming' = Coming,
           otepspr' \in BOOLEAN, asked' \in BOOLEAN, suspends' \in 0 .. MaxSuspends,
           Pending' - Own' <= Pending - Own, Own' \in Nat, Pending' \in Nat, ~Silent'
    PROVE  Beside'
<1>. DEFINE l == Len(ignored)  p == Pending  p2 == Pending'  o == Own  o2 == Own'
<1>1. /\ l \in Nat /\ p \in Nat /\ p2 \in Nat /\ o \in Nat /\ o2 \in Nat
      /\ p2 - o2 <= p - o /\ l + p <= 1 + o
  BY BesideFacts
<1>. HIDE DEF l, p, p2, o, o2
<1>2. /\ l + p2 <= 1 + o2
      /\ l + p <= o => l + p2 <= o2
      /\ \A m \in 0 .. l : l - m + p <= o => l - m + p2 <= o2
  BY <1>1
<1>3. ASSUME NEW k \in DOMAIN evq, evq[k] \in Marks
      PROVE  \E m \in 0 .. l : (\A i \in 1 .. m : ignored[i] < k) /\ l - m + p2 <= o2
  <2>1. PICK m \in 0 .. l : (\A i \in 1 .. m : ignored[i] < k) /\ l - m + p <= o
    BY <1>3 DEF PipeInv, Beside, l, p, o
  <2>. QED BY <1>2, <2>1
<1>4. (\A i \in DOMAIN Coming : Coming[i] \notin Marks) => l + p2 <= o2
  <2>. HAVE \A i \in DOMAIN Coming : Coming[i] \notin Marks
  <2>1. l + p <= o
    BY DEF PipeInv, Beside, l, p, o
  <2>. QED BY <1>2, <2>1
<1>5. ignored' \in Seq(Nat) /\ \A i \in DOMAIN ignored' : ignored'[i] <= Len(evq')
  BY BesideFacts
<1>6. /\ Len(ignored') + Pending' <= 1 + Own'
      /\ \A k \in DOMAIN evq' : evq'[k] \in Marks =>
             \E m \in 0 .. Len(ignored') : (\A i \in 1 .. m : ignored'[i] < k)
                                          /\ Len(ignored') - m + Pending' <= Own'
      /\ (\A i \in DOMAIN Coming' : Coming'[i] \notin Marks) => Len(ignored') + Pending' <= Own'
  BY <1>2, <1>3, <1>4 DEF l, p2, o2
<1>. QED BY <1>5, <1>6 DEF Beside

\* What is left to show of a step that queues the events q, and perhaps an ignored one.
LEMMA BesideQueues ==
    ASSUME PipeInv, NEW q \in Seq(Events), evq' = evq \o q, UNCHANGED <<asked, suspends>>,
           otepspr' \in BOOLEAN, ignored' \in Seq(Nat), Len(ignored') >= Len(ignored),
           \A i \in 1 .. Len(ignored) : ignored'[i] = ignored[i],
           \A i \in DOMAIN ignored' : ignored'[i] <= Len(evq) + Len(q),
           Len(ignored') + Pending' <= Len(ignored) + Pending,
           \A i \in DOMAIN q : q[i] \in Marks =>
               ~otepspr' /\ \A j \in DOMAIN ignored' : ignored'[j] <= Len(evq),
           (\A i \in DOMAIN Coming' : Coming'[i] \notin Marks)
               => \A i \in DOMAIN Coming : Coming[i] \notin Marks,
           Silent' => ~otepspr'
    PROVE  Beside'
<1>. DEFINE l == Len(ignored)  l2 == Len(ignored')  p == Pending  p2 == Pending'  o == Own
            n == Len(evq)
<1>1. /\ l \in Nat /\ p \in Nat /\ o \in Nat /\ n \in Nat /\ l + p <= 1 + o
      /\ asked \in BOOLEAN /\ suspends \in 0 .. MaxSuspends /\ evq \in Seq(Events)
  BY BesideFacts
<1>2. l2 \in Nat /\ DOMAIN ignored' = 1 .. l2 /\ l2 >= l
  BY LenProperties
<1>3. p2 \in Nat /\ (~otepspr' => p2 = 0) /\ l2 + p2 <= l + p /\ Own' = o
  BY DEF Pending, Own
<1>4. /\ Len(evq') = n + Len(q) /\ Len(q) \in Nat /\ DOMAIN evq' = 1 .. n + Len(q)
      /\ \A k \in 1 .. n : evq'[k] = evq[k]
      /\ \A k \in n + 1 .. n + Len(q) : evq'[k] = q[k - n] /\ k - n \in DOMAIN q
  <2>1. Len(evq') = n + Len(q) /\ evq' \in Seq(Events) /\ Len(q) \in Nat /\ DOMAIN q = 1 .. Len(q)
    BY <1>1, ConcatProperties, LenProperties
  <2>2. \A k \in 1 .. n + Len(q) : evq'[k] = IF k <= n THEN evq[k] ELSE q[k - n]
    BY <1>1, ConcatProperties
  <2>. QED BY <1>1, <2>1, <2>2, LenProperties
<1>5. ASSUME NEW k \in DOMAIN evq', evq'[k] \in Marks
      PROVE  \E m \in 0 .. l2 : (\A i \in 1 .. m : ignored'[i] < k) /\ l2 - m + p2 <= o
  <2>1. CASE k \in 1 .. n
    <3>1. k \in DOMAIN evq /\ evq[k] \in Marks
      BY <1>1, <1>4, <1>5, <2>1, LenProperties
    <3>2. PICK m \in 0 .. l : (\A i \in 1 .. m : ignored[i] < k) /\ l - m + p <= o
      BY <3>1 DEF PipeInv, Beside
    <3>. HIDE DEF l, l2, p, p2, o, n
    <3>3. m \in 0 .. l2 /\ l2 - m + p2 <= o /\ \A i \in 1 .. m : i \in 1 .. l
      BY <1>1, <1>2, <1>3, <3>2
    <3>4. \A i \in 1 .. m : ignored'[i] < k
      BY <3>2, <3>3 DEF l
    <3>. QED BY <3>3, <3>4
  <2>2. CASE k \notin 1 .. n
    <3>1. k \in n + 1 .. n + Len(q)
      BY <1>1, <1>4, <1>5, <2>2
    <3>2. ~otepspr' /\ \A j \in DOMAIN ignored' : ignored'[j] <= n
      BY <1>4, <1>5, <3>1
    <3>3. \A i \in 1 .. l2 : ignored'[i] \in Nat
      BY <1>2
    <3>4. ASSUME NEW i \in 1 .. l2 PROVE ignored'[i] < k
      <4>1. ignored'[i] \in Nat /\ ignored'[i] <= n
        BY <1>2, <3>2, <3>3
      <4>2. k \in Int /\ n < k
        <5>1. n \in Nat /\ Len(q) \in Nat
          BY <1>1, <1>4
        <5>. HIDE DEF n
        <5>. QED BY <3>1, <5>1
      <4>. HIDE DEF n
      <4>. QED BY <1>1, <4>1, <4>2
    <3>5. l2 \in 0 .. l2 /\ l2 - l2 + p2 <= o
      BY <1>1, <1>2, <1>3, <3>2
    <3>. QED BY <3>4, <3>5
  <2>. QED BY <2>1, <2>2
<1>6. l2 + p2 <= 1 + o
  <2>. HIDE DEF l, l2, p, p2, o
  <2>. QED BY <1>1, <1>2, <1>3
<1>7. (\A i \in DOMAIN Coming' : Coming'[i] \notin Marks) => l2 + p2 <= o
  <2>. HAVE \A i \in DOMAIN Coming' : Coming'[i] \notin Marks
  <2>1. l + p <= o
    BY DEF PipeInv, Beside
  <2>. HIDE DEF l, l2, p, p2, o
  <2>. QED BY <1>1, <1>2, <1>3, <2>1
<1>8. \A i \in DOMAIN ignored' : ignored'[i] <= Len(evq')
  BY <1>4
<1>. QED BY <1>1, <1>3, <1>5, <1>6, <1>7, <1>8 DEF Beside

LEMMA NothingKeeps ==
    ASSUME PipeInv, UNCHANGED vars
    PROVE  Still /\ Beside'
<1>1. /\ UNCHANGED <<pool, active, queue, packet, rxq, lastSetup, outArmed, in>>
      /\ UNCHANGED <<stall, flags, otepspr, evq, ignored, lost, crashed, control, setup, tx, rx>>
      /\ UNCHANGED <<address, registered, thread>>
      /\ UNCHANGED <<stage, request, moved, assigned, asked, resets, suspends, ran>>
  BY DEF vars
<1>2. Still
  BY <1>1, BesideFacts DEF Still, mgrVars, coreVars, PipeTypeOK
<1>3. Coming' = Coming /\ Silent' = Silent
  BY <1>1 DEF Coming, Silent
<1>. QED BY <1>1, <1>2, <1>3, BesideStays

LEMMA AsksKeeps ==
    ASSUME PipeInv, HostAsks
    PROVE  Still /\ Beside'
<1>1. /\ stage = "status" /\ ~asked /\ asked' = TRUE /\ otepspr' \in {TRUE, otepspr}
      /\ UNCHANGED <<mgrVars, packet, rxq, lastSetup, outArmed, in, stall, flags, evq, ignored, lost,
                     crashed, coreVars, stage, request, moved, assigned, resets, suspends, ran>>
  BY DEF HostAsks, StatusToken
<1>2. Still
  BY <1>1, BesideFacts DEF Still, PipeTypeOK
<1>3. Coming' = Coming /\ ~Silent'
  <2>1. \A i \in DOMAIN evq : evq[i] \notin Bus
    BY <1>1, TransferNotSilent DEF InTransfer
  <2>. QED BY <1>1, <2>1 DEF Coming, Silent
<1>4. /\ otepspr \in BOOLEAN /\ suspends \in 0 .. MaxSuspends /\ suspends \in Nat
  BY BesideFacts DEF PipeInv, Beside
<1>5. /\ Pending \in {0, 1} /\ Pending' \in {0, 1} /\ Own = suspends + 0 /\ Own' = suspends + 1
  BY <1>1, <1>4 DEF Pending, Own
<1>6. Pending' - Own' <= Pending - Own /\ Own' \in Nat /\ Pending' \in Nat
  <2>. DEFINE p == Pending  p2 == Pending'  o == Own  o2 == Own'  s == suspends
  <2>1. p \in {0, 1} /\ p2 \in {0, 1} /\ o = s + 0 /\ o2 = s + 1 /\ s \in Nat
    BY <1>4, <1>5
  <2>. HIDE DEF p, p2, o, o2, s
  <2>2. p2 - o2 <= p - o /\ o2 \in Nat /\ p2 \in Nat
    BY <2>1
  <2>. QED BY <2>2 DEF p, p2, o, o2
<1>7. otepspr' \in BOOLEAN /\ asked' \in BOOLEAN /\ suspends' \in 0 .. MaxSuspends
  BY <1>1, <1>4
<1>. QED BY <1>1, <1>2, <1>3, <1>6, <1>7, BesideShifts

LEMMA IgnoredKeeps ==
    ASSUME PipeInv, HandleIgnored, UNCHANGED hostVars
    PROVE  Still /\ Beside'
<1>1. /\ ignored # <<>> /\ Head(ignored) = 0 /\ ignored' = Tail(ignored)
      /\ UNCHANGED <<mgrVars, packet, rxq, lastSetup, outArmed, in, stall, flags, otepspr, evq, lost,
                     crashed, coreVars>>
      /\ UNCHANGED <<stage, request, moved, assigned, asked, resets, suspends, ran>>
  BY DEF HandleIgnored, hostVars
<1>2. Still
  BY <1>1, BesideFacts DEF Still, PipeTypeOK
<1>3. Coming' = Coming /\ Silent' = Silent /\ Pending' = Pending /\ Own' = Own
  BY <1>1 DEF Coming, Silent, Pending, Own
<1>. DEFINE l == Len(ignored)  l2 == Len(ignored')  p == Pending  o == Own
<1>4. l \in Nat /\ p \in Nat /\ o \in Nat /\ l + p <= 1 + o /\ ignored \in Seq(Nat)
      /\ asked \in BOOLEAN /\ otepspr \in BOOLEAN /\ suspends \in 0 .. MaxSuspends
      /\ DOMAIN ignored = 1 .. l
  BY BesideFacts DEF PipeInv, Beside
<1>5. /\ ignored' \in Seq(Nat) /\ l2 = l - 1 /\ l >= 1 /\ DOMAIN ignored' = 1 .. l - 1
      /\ \A i \in 1 .. l - 1 : ignored'[i] = ignored[i + 1] /\ i + 1 \in 1 .. l
  BY <1>1, <1>4, HeadTailProperties, EmptySeq, LenProperties
<1>6. \A i \in DOMAIN ignored' : ignored'[i] <= Len(evq')
  BY <1>1, <1>4, <1>5 DEF PipeInv, Beside
<1>. HIDE DEF l2, p, o
<1>7. ASSUME NEW k \in DOMAIN evq, evq[k] \in Marks
      PROVE  \E m \in 0 .. l2 : (\A i \in 1 .. m : ignored'[i] < k) /\ l2 - m + p <= o
  <2>1. PICK m \in 0 .. l : (\A i \in 1 .. m : ignored[i] < k) /\ l - m + p <= o
    BY <1>7 DEF PipeInv, Beside, p, o
  <2>2. CASE m = 0
    <3>1. 0 \in 0 .. l2 /\ (\A i \in 1 .. 0 : ignored'[i] < k) /\ l2 - 0 + p <= o
      BY <1>4, <1>5, <2>1, <2>2
    <3>. QED BY <3>1
  <2>3. CASE m # 0
    <3>1. m - 1 \in 0 .. l2 /\ l2 - (m - 1) + p <= o
      BY <1>4, <1>5, <2>1, <2>3
    <3>2. \A i \in 1 .. m - 1 : i \in 1 .. l - 1 /\ i + 1 \in 1 .. m
      BY <1>4, <1>5, <2>1, <2>3
    <3>3. \A i \in 1 .. m - 1 : ignored'[i] < k
      BY <1>5, <2>1, <3>2
    <3>. QED BY <3>1, <3>3
  <2>. QED BY <2>2, <2>3
<1>8. l2 + p <= 1 + o
  BY <1>4, <1>5 DEF p, o
<1>9. (\A i \in DOMAIN Coming : Coming[i] \notin Marks) => l2 + p <= o
  <2>. HAVE \A i \in DOMAIN Coming : Coming[i] \notin Marks
  <2>1. l + p <= o
    BY DEF PipeInv, Beside, p, o
  <2>. QED BY <1>4, <1>5, <2>1 DEF p, o
<1>10. Silent' => ~otepspr'
  BY <1>1, <1>3 DEF PipeInv, Beside
<1>11. /\ Len(ignored') + Pending' <= 1 + Own'
       /\ \A k \in DOMAIN evq' : evq'[k] \in Marks =>
              \E m \in 0 .. Len(ignored') : (\A i \in 1 .. m : ignored'[i] < k)
                                           /\ Len(ignored') - m + Pending' <= Own'
       /\ (\A i \in DOMAIN Coming' : Coming'[i] \notin Marks) => Len(ignored') + Pending' <= Own'
  BY <1>1, <1>3, <1>7, <1>8, <1>9 DEF l2, p, o
<1>. QED BY <1>1, <1>2, <1>4, <1>5, <1>6, <1>10, <1>11 DEF Beside

\* An event the core acts on that comes from an interrupt, and what is ignored with it.
LEMMA PollBeside ==
    ASSUME OrdinaryUse, PipeInv, Polls
    PROVE  Beside'
<1>. DEFINE e == EventsOf(flags)  a == EventsOf(flags \cap {"inXfrc"})
<1>1. /\ PipeTypeOK /\ RxqShape /\ HasRoom /\ Poll /\ UNCHANGED <<asked, suspends>>
      /\ otepspr \in BOOLEAN /\ ignored \in Seq(Nat) /\ Len(ignored) \in Nat /\ Len(evq) \in Nat
      /\ DOMAIN ignored = 1 .. Len(ignored)
      /\ \A i \in DOMAIN ignored : ignored[i] \in Nat /\ ignored[i] <= Len(evq)
  BY BesideFacts, RoomFacts DEF Polls, hostVars
<1>2. evq' = evq \o e /\ Coming' = Coming /\ ~Silent'
  BY <1>1, PollStep, PollKeepsComing, PollNotSilent
<1>3. /\ e \in Seq(Events) /\ Len(e) \in Nat /\ DOMAIN e = 1 .. Len(e) /\ Len(a) \in Nat /\ Len(a) <= Len(e)
      /\ \A i \in DOMAIN e : e[i] \in Marks => Len(a) = 0 /\ flags = {"stup"}
  <2>1. flags \in {{}, {"inXfrc"}, {"stup"}, {"outXfrc"}} /\ e \in Seq(Events)
    BY <1>1, FlagsFacts
  <2>2. CASE flags = {"inXfrc"}
    <3>1. flags \cap {"inXfrc"} = {"inXfrc"} /\ e = <<"EP_TX">> /\ a = <<"EP_TX">>
      BY <2>2, EventsOfFacts
    <3>2. "EP_TX" \notin Marks
      BY DEF Marks, Bus
    <3>3. Len(e) = 1 /\ Len(a) = 1 /\ DOMAIN e = 1 .. 1 /\ e[1] = "EP_TX"
      BY <3>1
    <3>4. \A i \in DOMAIN e : e[i] = "EP_TX"
      BY <3>3
    <3>. HIDE DEF e, a
    <3>. QED BY <2>1, <3>2, <3>3, <3>4
  <2>3. CASE flags # {"inXfrc"}
    <3>1. flags \cap {"inXfrc"} = {} /\ a = <<>>
      BY <2>1, <2>3, EventsOfFacts
    <3>2. \A i \in DOMAIN e : e[i] \in Marks => flags = {"stup"}
      <4>1. CASE flags = {}
        BY <4>1, EventsOfFacts
      <4>2. CASE flags = {"outXfrc"}
        <5>1. e = <<"EP_RX">> /\ "EP_RX" \notin Marks
          BY <4>2, EventsOfFacts DEF Marks, Bus
        <5>. QED BY <5>1
      <4>. QED BY <2>1, <2>3, <4>1, <4>2
    <3>3. Len(a) = 0
      BY <3>1, EmptySeq
    <3>. HIDE DEF e, a
    <3>4. Len(e) \in Nat /\ DOMAIN e = 1 .. Len(e)
      BY <2>1, LenProperties
    <3>5. Len(a) \in Nat /\ Len(a) <= Len(e)
      BY <3>3, <3>4
    <3>. QED BY <2>1, <3>2, <3>3, <3>4, <3>5
  <2>. QED BY <2>2, <2>3
<1>4. \/ UNCHANGED <<otepspr, ignored>> /\ (Otghs2 => ~otepspr)
      \/ otepspr /\ ~otepspr' /\ ignored' = Append(ignored, Len(evq) + Len(a))
  BY <1>1, PollStep
<1>5. flags = {"stup"} => Otghs2 \/ ~otepspr
  <2>1. flags = {"stup"} => FirstOf(flags) \cap {"stup", "outXfrc"} # {}
    BY <1>1, FlagsFacts
  <2>. QED BY <1>1, <2>1 DEF Poll, StatusFirst
<1>. HIDE DEF e, a
<1>6. CASE UNCHANGED <<otepspr, ignored>> /\ (Otghs2 => ~otepspr)
  <2>1. otepspr' \in BOOLEAN /\ ignored' \in Seq(Nat) /\ Len(ignored') >= Len(ignored)
    BY <1>1, <1>6
  <2>2. \A i \in DOMAIN ignored' : ignored'[i] <= Len(evq) + Len(e)
    BY <1>1, <1>3, <1>6
  <2>3. Len(ignored') + Pending' <= Len(ignored) + Pending
    <3>1. Pending' = Pending /\ Pending \in Nat
      BY <1>6, BesideFacts DEF Pending
    <3>. QED BY <1>1, <1>6, <3>1
  <2>4. \A i \in DOMAIN e : e[i] \in Marks =>
            ~otepspr' /\ \A j \in DOMAIN ignored' : ignored'[j] <= Len(evq)
    BY <1>1, <1>3, <1>5, <1>6
  <2>. QED BY <1>1, <1>2, <1>3, <1>6, <2>1, <2>2, <2>3, <2>4, BesideQueues
<1>7. CASE otepspr /\ ~otepspr' /\ ignored' = Append(ignored, Len(evq) + Len(a))
  <2>1. /\ ignored' \in Seq(Nat) /\ Len(ignored') = Len(ignored) + 1
        /\ \A i \in 1 .. Len(ignored) : ignored'[i] = ignored[i]
        /\ ignored'[Len(ignored) + 1] = Len(evq) + Len(a)
        /\ DOMAIN ignored' = 1 .. Len(ignored) + 1
    <3>1. Len(evq) + Len(a) \in Nat
      BY <1>1, <1>3
    <3>2. Append(ignored, Len(evq) + Len(a)) \in Seq(Nat)
      BY <1>1, <3>1, AppendProperties
    <3>. QED BY <1>1, <1>7, <3>1, <3>2, AppendProperties, LenProperties
  <2>2. otepspr' = FALSE
    BY <1>1, <1>7 DEF Poll, ServeAll, ServeFirst, Serve
  <2>3. ASSUME NEW i \in DOMAIN ignored' PROVE i \in 1 .. Len(ignored) \/ i = Len(ignored) + 1
    BY <1>1, <2>1
  <2>4. ASSUME NEW i \in DOMAIN ignored' PROVE ignored'[i] <= Len(evq) + Len(e)
    <3>1. CASE i \in 1 .. Len(ignored)
      <4>1. ignored'[i] \in Nat /\ ignored'[i] <= Len(evq)
        BY <1>1, <2>1, <3>1
      <4>. QED BY <1>1, <1>3, <4>1
    <3>2. CASE i = Len(ignored) + 1
      <4>1. ignored'[i] = Len(evq) + Len(a)
        BY <2>1, <3>2
      <4>. QED BY <1>1, <1>3, <4>1
    <3>. QED BY <2>3, <3>1, <3>2
  <2>5. Len(ignored') + Pending' <= Len(ignored) + Pending
    <3>1. Pending' = 0 /\ Pending = 1
      BY <1>7 DEF Pending
    <3>. QED BY <1>1, <2>1, <3>1
  <2>6. \A i \in DOMAIN e : e[i] \in Marks =>
            ~otepspr' /\ \A j \in DOMAIN ignored' : ignored'[j] <= Len(evq)
    <3>. SUFFICES ASSUME NEW i \in DOMAIN e, e[i] \in Marks, NEW j \in DOMAIN ignored'
                  PROVE  ~otepspr' /\ ignored'[j] <= Len(evq)
      BY <1>7
    <3>1. Len(a) = 0 /\ Len(evq) + Len(a) = Len(evq)
      BY <1>1, <1>3
    <3>2. CASE j \in 1 .. Len(ignored)
      BY <1>1, <1>7, <2>1, <3>2
    <3>3. CASE j = Len(ignored) + 1
      <4>1. ignored'[j] = Len(evq)
        BY <2>1, <3>1, <3>3
      <4>. QED BY <1>1, <1>7, <4>1
    <3>. QED BY <2>3, <3>2, <3>3
  <2>7. Len(ignored') >= Len(ignored)
    BY <1>1, <2>1
  <2>. QED BY <1>1, <1>2, <1>3, <1>7, <2>1, <2>2, <2>4, <2>5, <2>6, <2>7, BesideQueues
<1>. QED BY <1>4, <1>6, <1>7

\* The core takes an event: those it ignores have one less before them.
LEMMA EventBeside ==
    ASSUME OrdinaryUse, PipeInv, Handles
    PROVE  Beside'
<1>1. /\ evq # <<>> /\ evq' = Tail(evq) /\ \A i \in DOMAIN ignored : ignored[i] > 0
      /\ ignored' = [i \in DOMAIN ignored |-> ignored[i] - 1]
      /\ UNCHANGED <<rxq, flags, otepspr, asked, suspends, stage>>
  BY DEF Handles, HandleEvent, hostVars
<1>2. /\ Coming # <<>> /\ Coming[1] = Head(evq) /\ Taken /\ Len(Coming) \in Nat \ {0}
  BY EventFrame
<1>. DEFINE l == Len(ignored)  l2 == Len(ignored')  p == Pending  o == Own  n == Len(evq)
<1>3. /\ l \in Nat /\ p \in Nat /\ o \in Nat /\ l + p <= 1 + o /\ ignored \in Seq(Nat)
      /\ asked \in BOOLEAN /\ otepspr \in BOOLEAN /\ suspends \in 0 .. MaxSuspends
      /\ DOMAIN ignored = 1 .. l /\ \A i \in 1 .. l : ignored[i] \in Nat /\ ignored[i] <= n
      /\ evq \in Seq(Events) /\ n \in Nat /\ DOMAIN evq = 1 .. n
  BY BesideFacts DEF PipeInv, Beside
<1>4. /\ n >= 1 /\ Len(evq') = n - 1 /\ DOMAIN evq' = 1 .. n - 1 /\ Head(evq) = evq[1]
      /\ \A k \in 1 .. n - 1 : evq'[k] = evq[k + 1] /\ k + 1 \in 1 .. n
  BY <1>1, <1>3, HeadTailProperties, EmptySeq, LenProperties
<1>5. /\ ignored' \in Seq(Nat) /\ l2 = l /\ DOMAIN ignored' = 1 .. l
      /\ \A i \in 1 .. l : ignored'[i] = ignored[i] - 1 /\ ignored[i] > 0
  <2>1. ASSUME NEW i \in 1 .. l PROVE ignored[i] - 1 \in Nat
    <3>1. ignored[i] > 0 /\ ignored[i] \in Nat
      BY <1>1, <1>3
    <3>. QED BY <3>1
  <2>2. ignored' = [i \in 1 .. l |-> ignored[i] - 1]
    BY <1>1, <1>3
  <2>3. ignored' \in Seq(Nat) /\ l2 = l
    <3>. HIDE DEF l
    <3>1. ignored' \in [1 .. l -> Nat]
      BY <2>1, <2>2
    <3>. QED BY <1>3, <3>1, SeqDef, LenProperties
  <2>. QED BY <1>1, <1>3, <2>2, <2>3
<1>6. Pending' = p /\ Own' = o
  BY <1>1 DEF Pending, Own
<1>7. \A i \in DOMAIN ignored' : ignored'[i] <= Len(evq')
  BY <1>3, <1>4, <1>5
<1>. HIDE DEF l, l2, p, o, n
<1>8. ASSUME NEW k \in DOMAIN evq', evq'[k] \in Marks
      PROVE  \E m \in 0 .. l : (\A i \in 1 .. m : ignored'[i] < k) /\ l - m + p <= o
  <2>1. k + 1 \in DOMAIN evq /\ evq[k + 1] \in Marks /\ k \in Nat
    BY <1>3, <1>4, <1>8
  <2>2. PICK m \in 0 .. l : (\A i \in 1 .. m : ignored[i] < k + 1) /\ l - m + p <= o
    BY <2>1 DEF PipeInv, Beside, l, p, o
  <2>3. \A i \in 1 .. m : i \in 1 .. l
    BY <1>3, <2>2
  <2>4. \A i \in 1 .. m : ignored'[i] < k
    BY <1>3, <1>5, <2>1, <2>2, <2>3
  <2>. QED BY <2>2, <2>4
<1>9. (\A i \in DOMAIN Coming' : Coming'[i] \notin Marks) => l + p <= o
  <2>. HAVE \A i \in DOMAIN Coming' : Coming'[i] \notin Marks
  <2>1. CASE evq[1] \in Marks
    <3>1. 1 \in DOMAIN evq
      BY <1>3, <1>4
    <3>2. PICK m \in 0 .. l : (\A i \in 1 .. m : ignored[i] < 1) /\ l - m + p <= o
      BY <2>1, <3>1 DEF PipeInv, Beside, l, p, o
    <3>3. m = 0
      <4>1. ASSUME m # 0 PROVE FALSE
        <5>1. 1 \in 1 .. m /\ 1 \in 1 .. l
          BY <1>3, <3>2, <4>1
        <5>2. ignored[1] < 1 /\ ignored[1] > 0 /\ ignored[1] \in Nat
          BY <1>3, <1>5, <3>2, <5>1
        <5>. QED BY <5>2
      <4>. QED BY <4>1
    <3>. QED BY <1>3, <3>2, <3>3
  <2>2. CASE evq[1] \notin Marks
    <3>1. /\ DOMAIN Coming = 1 .. Len(Coming) /\ DOMAIN Coming' = 1 .. Len(Coming) - 1
          /\ \A i \in 1 .. Len(Coming) - 1 : Coming'[i] = Coming[i + 1]
      <4>1. Coming \in Seq(Events) /\ Coming' \in Seq(Events) /\ Len(Coming') = Len(Coming) - 1
        BY <1>2, RoomFacts DEF Taken
      <4>. QED BY <1>2, <4>1, LenProperties DEF Taken
    <3>2. ASSUME NEW i \in DOMAIN Coming PROVE Coming[i] \notin Marks
      <4>1. CASE i = 1
        BY <1>2, <1>4, <2>2, <4>1
      <4>2. CASE i # 1
        <5>1. i - 1 \in 1 .. Len(Coming) - 1 /\ (i - 1) + 1 = i
          BY <1>2, <3>1, <4>2
        <5>2. Coming'[i - 1] = Coming[i]
          BY <3>1, <5>1
        <5>. QED BY <3>1, <5>1, <5>2
      <4>. QED BY <4>1, <4>2
    <3>. QED BY <3>2 DEF PipeInv, Beside, l, p, o
  <2>. QED BY <2>1, <2>2
<1>10. Silent' => ~otepspr'
  <2>. HAVE Silent'
  <2>1. CASE stage \in {"detached", "reset"}
    BY <1>1, <2>1 DEF Silent, PipeInv, Beside
  <2>2. CASE stage \notin {"detached", "reset"}
    <3>1. PICK k \in DOMAIN evq' : evq'[k] \in Bus
      BY <1>1, <2>2 DEF Silent
    <3>2. k + 1 \in DOMAIN evq /\ evq[k + 1] \in Bus
      BY <1>3, <1>4, <3>1
    <3>. QED BY <1>1, <3>2 DEF Silent, PipeInv, Beside
  <2>. QED BY <2>1, <2>2
<1>11. /\ Len(ignored') + Pending' <= 1 + Own'
       /\ \A k \in DOMAIN evq' : evq'[k] \in Marks =>
              \E m \in 0 .. Len(ignored') : (\A i \in 1 .. m : ignored'[i] < k)
                                           /\ Len(ignored') - m + Pending' <= Own'
       /\ (\A i \in DOMAIN Coming' : Coming'[i] \notin Marks) => Len(ignored') + Pending' <= Own'
  BY <1>3, <1>5, <1>6, <1>8, <1>9 DEF l2
<1>. QED BY <1>1, <1>3, <1>5, <1>7, <1>10, <1>11 DEF Beside

LEMMA AnswerBeside ==
    ASSUME OrdinaryUse, PipeInv, DeviceAnswer
    PROVE  Beside'
<1>1. UNCHANGED <<otepspr, ignored, evq, asked, suspends, stage>> /\ Coming' = Coming
  BY AnswerFrame DEF DeviceAnswer, Respond
<1>2. Silent' = Silent
  BY <1>1 DEF Silent
<1>. QED BY <1>1, <1>2, BesideStays

\* A bus reset, or the end of the enumeration.
LEMMA BusBeside ==
    ASSUME PipeInv, NEW e \in Bus, evq' = evq \o <<e>>, UNCHANGED <<ignored, asked, suspends>>,
           otepspr' = FALSE,
           Coming' \in Seq(Events), Len(Coming') = Len(evq) + 1, Coming'[Len(evq) + 1] = e
    PROVE  Beside'
<1>1. <<e>> \in Seq(Events) /\ Len(<<e>>) = 1 /\ e \in Marks
  BY DEF Bus, Events, Marks
<1>2. /\ Len(evq) \in Nat /\ Len(ignored) \in Nat /\ DOMAIN ignored = 1 .. Len(ignored)
      /\ ignored \in Seq(Nat) /\ \A i \in DOMAIN ignored : ignored[i] \in Nat /\ ignored[i] <= Len(evq)
      /\ Pending \in Nat
  BY BesideFacts
<1>3. \A i \in DOMAIN ignored' : ignored'[i] <= Len(evq) /\ ignored'[i] <= Len(evq) + Len(<<e>>)
  BY <1>1, <1>2
<1>4. Len(ignored') + Pending' <= Len(ignored) + Pending
  <2>1. Pending' = 0
    BY DEF Pending
  <2>. QED BY <1>2, <2>1
<1>5. \E i \in DOMAIN Coming' : Coming'[i] \in Marks
  <2>1. Len(evq) + 1 \in DOMAIN Coming'
    BY <1>2, LenProperties
  <2>. QED BY <1>1, <2>1
<1>6. Len(ignored') >= Len(ignored)
  BY <1>2
<1>. QED BY <1>1, <1>2, <1>3, <1>4, <1>5, <1>6, BesideQueues

LEMMA ResetBeside ==
    ASSUME OrdinaryUse, PipeInv, BusReset
    PROVE  Beside'
<1>1. /\ evq' = evq \o <<"RESET">> /\ ignored' = ignored
      /\ Coming' \in Seq(Events) /\ Len(Coming') = Len(evq) + 1 /\ Coming'[Len(evq) + 1] = "RESET"
  BY ResetFrame
<1>2. otepspr' = FALSE /\ UNCHANGED <<asked, suspends>> /\ "RESET" \in Bus
  BY DEF BusReset, PollReset, Bus
<1>. QED BY <1>1, <1>2, BusBeside

LEMMA EnumBeside ==
    ASSUME OrdinaryUse, PipeInv, EnumDone
    PROVE  Beside'
<1>1. /\ stage = "reset" /\ Push(<<"ENUM_DONE">>, FALSE, <<>>)
      /\ UNCHANGED <<rxq, flags, otepspr, asked, suspends>>
  BY DEF EnumDone, PollEnumDone
<1>2. ~otepspr /\ PipeTypeOK /\ RxqShape /\ rxq = <<>> /\ flags = {}
  BY <1>1, BesideFacts DEF PipeInv, TransferInv, Wire, Beside, Silent
<1>3. Coming = evq /\ Len(Coming) \in Nat
  BY <1>2, ComingFacts
<1>4. Len(evq) + 1 <= Depth
  <2>1. /\ Len(Coming) + 2 * (MaxResets - resets) + 1 <= Depth /\ MaxResets - resets \in Nat
        /\ Depth \in Int
    BY <1>1, RoomFacts, SizeFacts DEF PipeInv, TransferInv, Room
  <2>. QED BY <1>3, <2>1
<1>5. evq' = evq \o <<"ENUM_DONE">> /\ ignored' = ignored
  <2>1. "ENUM_DONE" \in Events
    BY DEF Events
  <2>. QED BY <1>1, <1>4, <2>1, PushInRoom
<1>6. Coming' \in Seq(Events) /\ Len(Coming') = Len(evq) + 1 /\ Coming'[Len(evq) + 1] = "ENUM_DONE"
  <2>1. "ENUM_DONE" \in Events /\ rxq' = <<>> /\ flags' = {}
    BY <1>1, <1>2 DEF Events
  <2>. QED BY <1>2, <1>5, <2>1, ResetComing
<1>7. otepspr' = FALSE /\ "ENUM_DONE" \in Bus
  BY <1>1, <1>2, BesideFacts DEF Bus
<1>. QED BY <1>1, <1>5, <1>6, <1>7, BusBeside

\* A SETUP comes when nothing is left of the transfer before but its own events.
LEMMA SetupBeside ==
    ASSUME OrdinaryUse, PipeInv, NEW s \in Setups, HostSetup(s)
    PROVE  Beside'
<1>1. /\ asked' = FALSE /\ Recovered /\ stage' \in {"data", "status"}
      /\ UNCHANGED <<otepspr, ignored, evq, flags, suspends>>
  BY DEF HostSetup
<1>2. PICK n \in 0 .. 2 : Residue(n) /\ Len(Coming) = n
  BY SetupWhen
<1>3. \A i \in DOMAIN Coming : Coming[i] \notin Marks
  <2>1. DOMAIN Coming = 1 .. n
    BY <1>2, RoomFacts, LenProperties
  <2>2. \A i \in 1 .. n : Coming[i] \in {"EP_TX", "EP_RX"}
    BY <1>2 DEF Residue
  <2>. QED BY <2>1, <2>2 DEF Marks, Bus
<1>. DEFINE l == Len(ignored)  p == Pending  o == Own  o2 == Own'
<1>4. /\ l \in Nat /\ p \in Nat /\ o \in Nat /\ l + p <= o /\ o2 \in Nat /\ o <= 1 + o2
      /\ otepspr \in BOOLEAN /\ suspends \in 0 .. MaxSuspends /\ ignored \in Seq(Nat)
      /\ \A i \in DOMAIN ignored : ignored[i] <= Len(evq)
  <2>1. /\ l \in Nat /\ p \in Nat /\ o \in Nat /\ l + p <= o
        /\ otepspr \in BOOLEAN /\ suspends \in 0 .. MaxSuspends /\ ignored \in Seq(Nat)
        /\ \A i \in DOMAIN ignored : ignored[i] <= Len(evq)
    BY <1>3, BesideFacts DEF PipeInv, Beside
  <2>2. asked \in BOOLEAN /\ suspends \in Nat
    BY BesideFacts
  <2>3. o = suspends + (IF asked THEN 1 ELSE 0) /\ o2 = suspends + 0
    BY <1>1 DEF Own
  <2>. HIDE DEF o, o2
  <2>4. o2 \in Nat /\ o <= 1 + o2
    BY <2>2, <2>3
  <2>. QED BY <2>1, <2>4
<1>5. Len(ignored') + Pending' <= 1 + Own'
  <2>1. l + p <= 1 + o2
    <3>. HIDE DEF l, p, o, o2
    <3>. QED BY <1>4
  <2>. QED BY <1>1, <2>1 DEF Pending
<1>6. \A k \in DOMAIN evq' : evq'[k] \notin Marks
  <2>1. /\ DOMAIN evq = 1 .. Len(evq) /\ DOMAIN Coming = 1 .. Len(Coming) /\ Len(evq) \in Nat
        /\ Len(evq) <= Len(Coming) /\ Len(Coming) \in Nat /\ \A i \in 1 .. Len(evq) : Coming[i] = evq[i]
    BY BesideFacts, ComingFacts, RoomFacts, LenProperties
  <2>2. \A k \in 1 .. Len(evq) : k \in 1 .. Len(Coming)
    BY <2>1
  <2>. QED BY <1>1, <1>3, <2>1, <2>2
<1>7. \E i \in DOMAIN Coming' : Coming'[i] \in Marks
  <2>1. /\ Coming' \in Seq(Events) /\ Len(Coming') = Len(Coming) + 1 /\ Len(Coming) \in Nat
        /\ Coming'[Len(Coming) + 1] = "CTRL_SETUP_PHASE_DONE"
    BY SetupShape, RoomFacts DEF Grown
  <2>2. Len(Coming) + 1 \in DOMAIN Coming'
    BY <2>1, LenProperties
  <2>. QED BY <2>1, <2>2 DEF Marks
<1>8. ~Silent'
  BY <1>1 DEF Silent, Recovered, Bus
<1>. QED BY <1>1, <1>4, <1>5, <1>6, <1>7, <1>8 DEF Beside

\* The other steps of the host leave both queues alone.
LEMMA InBeside ==
    ASSUME OrdinaryUse, PipeInv, HostIn
    PROVE  Beside'
<1>1. UNCHANGED <<otepspr, ignored, evq, asked, suspends>> /\ stage' \in {"data", "status"}
  BY DEF HostIn
<1>2. Coming = <<>>
  BY InWhen
<1>3. Silent' => Silent
  BY <1>1 DEF Silent
<1>4. \A i \in DOMAIN Coming : Coming[i] \notin Marks
  BY <1>2
<1>. QED BY <1>1, <1>3, <1>4, BesideStays

LEMMA OutBeside ==
    ASSUME OrdinaryUse, PipeInv, HostOut
    PROVE  Beside'
<1>1. UNCHANGED <<otepspr, ignored, evq, asked, suspends>> /\ stage' \in {"data", "status"}
  BY DEF HostOut
<1>2. PICK taken \in Nat : OutPhase(taken)
  BY OutWhen
<1>3. SentOut(taken)
  BY <1>2 DEF OutPhase
<1>4. PICK u \in Seq(Units) : u # <<>> /\ AcceptOut(request, u)
  BY <1>3, OutPacket
<1>5. Grown("EP_RX")
  BY <1>4, OutShape
<1>6. Silent' => Silent
  BY <1>1 DEF Silent
<1>7. ASSUME \A i \in DOMAIN Coming' : Coming'[i] \notin Marks, NEW i \in DOMAIN Coming
      PROVE  Coming[i] \notin Marks
  <2>1. /\ i \in 1 .. Len(Coming) /\ Len(Coming) \in Nat
        /\ DOMAIN Coming' = 1 .. Len(Coming) + 1 /\ Coming'[i] = Coming[i]
    BY <1>5, RoomFacts, LenProperties DEF Grown
  <2>2. i \in DOMAIN Coming'
    BY <2>1
  <2>. QED BY <1>7, <2>1, <2>2
<1>. QED BY <1>1, <1>6, <1>7, BesideStays

LEMMA StatusOutBeside ==
    ASSUME OrdinaryUse, PipeInv, HostStatusOut
    PROVE  Beside'
<1>1. UNCHANGED <<otepspr, ignored, evq, asked, suspends>> /\ stage' = "idle"
  BY DEF HostStatusOut, Ended
<1>2. Fetched \/ Delivered
  BY StatusOutWhen
<1>3. Silent' => Silent
  BY <1>1 DEF Silent
<1>4. \A i \in DOMAIN Coming : Coming[i] \notin Marks
  <2>1. CASE Fetched
    <3>1. DOMAIN Coming = 1 .. 1 /\ Coming[1] = "EP_TX"
      BY <2>1, RoomFacts, LenProperties DEF Fetched
    <3>. QED BY <3>1 DEF Marks, Bus
  <2>2. CASE Delivered
    BY <2>2 DEF Delivered
  <2>. QED BY <1>2, <2>1, <2>2
<1>. QED BY <1>1, <1>3, <1>4, BesideStays

LEMMA StatusInBeside ==
    ASSUME OrdinaryUse, PipeInv, HostStatusIn
    PROVE  Beside'
<1>1. UNCHANGED <<otepspr, ignored, evq, asked, suspends>> /\ stage' = "idle"
  BY DEF HostStatusIn, Ended
<1>2. Coming = <<>>
  BY StatusInWhen
<1>3. Silent' => Silent
  BY <1>1 DEF Silent
<1>4. \A i \in DOMAIN Coming : Coming[i] \notin Marks
  BY <1>2
<1>. QED BY <1>1, <1>3, <1>4, BesideStays

LEMMA GivesUpBeside ==
    ASSUME OrdinaryUse, PipeInv, HostGivesUp
    PROVE  Beside'
<1>1. UNCHANGED <<rxq, flags, otepspr, ignored, evq, asked, suspends>> /\ stage' = "idle"
  BY DEF HostGivesUp, devVars, drvVars
<1>2. Coming' = Coming /\ (Silent' => Silent)
  BY <1>1 DEF Coming, Silent
<1>. QED BY <1>1, <1>2, BesideStays

LEMMA PipeInvStep == OrdinaryUse /\ PipeInv /\ [Next]_vars => PipeInv'
<1>. SUFFICES ASSUME OrdinaryUse, PipeInv, [Next]_vars PROVE TransferInv' /\ Beside'
  BY DEF PipeInv
<1>1. CASE DeviceIsr
  <2>1. CASE Poll
    BY <1>1, <2>1, PollKeeps, PollBeside DEF DeviceIsr, Polls
  <2>2. CASE PollStatusFirst
    BY <1>1, <2>2, StatusFirstKeeps, StillKeeps DEF DeviceIsr
  <2>. QED BY <1>1, <2>1, <2>2 DEF DeviceIsr
<1>2. CASE DeviceEvent
  <2>1. CASE HandleEvent
    BY <1>2, <2>1, EventKeeps, EventBeside DEF DeviceEvent, Handles
  <2>2. CASE HandleIgnored
    BY <1>2, <2>2, IgnoredKeeps, StillKeeps DEF DeviceEvent
  <2>. QED BY <1>2, <2>1, <2>2 DEF DeviceEvent
<1>3. CASE DeviceAnswer
  BY <1>3, AnswerKeeps, AnswerBeside
<1>4. CASE BusReset
  BY <1>4, ResetKeeps, ResetBeside
<1>5. CASE EnumDone
  BY <1>5, EnumKeeps, EnumBeside
<1>6. CASE Suspend
  BY <1>6, SuspendKeeps, StillKeeps
<1>7. CASE \E s \in Setups : HostSetup(s)
  BY <1>7, SetupKeeps, SetupBeside
<1>8. CASE Transaction
  <2>1. CASE HostAsks
    BY <2>1, AsksKeeps, StillKeeps
  <2>2. CASE HostIn
    BY <2>2, InKeeps, InBeside
  <2>3. CASE HostOut
    BY <2>3, OutKeeps, OutBeside
  <2>4. CASE HostStatusOut
    BY <2>4, StatusOutKeeps, StatusOutBeside
  <2>5. CASE HostStatusIn
    BY <2>5, StatusInKeeps, StatusInBeside
  <2>. QED BY <1>8, <2>1, <2>2, <2>3, <2>4, <2>5 DEF Transaction
<1>9. CASE HostGivesUp
  BY <1>9, GivesUpKeeps, GivesUpBeside
<1>10. CASE UNCHANGED vars
  BY <1>10, NothingKeeps, StillKeeps
<1>. QED BY <1>1, <1>2, <1>3, <1>4, <1>5, <1>6, <1>7, <1>8, <1>9, <1>10 DEF Next

-----------------------------------------------------------------------------
(* What follows from PipeInv, state by state.                              *)

Booleans == stall \in BOOLEAN /\ lost \in BOOLEAN /\ crashed \in BOOLEAN

LEMMA BooleansStep == Booleans /\ [Next]_vars => Booleans'
<1>. SUFFICES ASSUME Booleans, [Next]_vars PROVE Booleans'
  OBVIOUS
<1>1. ASSUME NEW a, NEW aside, NEW b, Push(a, aside, b) PROVE lost' \in BOOLEAN
  BY <1>1 DEF Push
<1>2. CASE DeviceIsr
  <2>1. CASE Poll
    <3>1. PICK f, aside, pop : Serve(f, aside, pop)
      BY <2>1 DEF Poll, ServeAll, ServeFirst
    <3>2. stall' = stall /\ Push(EventsOf(f \cap {"inXfrc"}), aside, EventsOf(f \ {"inXfrc"}))
      BY <3>1 DEF Serve
    <3>3. crashed' = crashed \/ crashed' = TRUE
      BY <3>1 DEF Serve, PopRxq, ReceiveData
    <3>. QED BY <1>1, <3>2, <3>3 DEF Booleans
  <2>2. CASE PollStatusFirst
    <3>1. stall' = stall /\ crashed' = crashed /\ Push(<<>>, TRUE, <<>>)
      BY <2>2 DEF PollStatusFirst, PushIgnored
    <3>. QED BY <1>1, <3>1 DEF Booleans
  <2>. QED BY <1>2, <2>1, <2>2 DEF DeviceIsr
<1>3. CASE DeviceEvent
  <2>1. lost' = lost /\ crashed' = crashed
    BY <1>3 DEF DeviceEvent, HandleEvent, HandleIgnored
  <2>2. stall' = stall \/ stall' = TRUE
    BY <1>3 DEF DeviceEvent, HandleEvent, HandleIgnored, HandleEp0Rx, HandleEp0Tx, Decode, TakeData,
                StatusOut, Unexpected, StallControlEp
  <2>. QED BY <2>1, <2>2 DEF Booleans
<1>4. CASE BusReset
  <2>1. stall' = stall /\ crashed' = crashed /\ Push(<<"RESET">>, FALSE, <<>>)
    BY <1>4 DEF BusReset, PollReset
  <2>. QED BY <1>1, <2>1 DEF Booleans
<1>5. CASE EnumDone \/ Suspend
  <2>1. stall' = stall /\ crashed' = crashed
    BY <1>5 DEF EnumDone, Suspend, PollSuspend, PushIgnored
  <2>2. Push(<<"ENUM_DONE">>, FALSE, <<>>) \/ Push(<<>>, TRUE, <<>>)
    BY <1>5 DEF EnumDone, PollEnumDone, Suspend, PollSuspend, PushIgnored
  <2>. QED BY <1>1, <2>1, <2>2 DEF Booleans
<1>6. CASE \E s \in Setups : HostSetup(s)
  <2>1. stall' = FALSE /\ crashed' = crashed /\ lost' = lost
    BY <1>6 DEF HostSetup, AcceptSetup
  <2>. QED BY <2>1 DEF Booleans
<1>7. CASE DeviceAnswer \/ Transaction \/ HostGivesUp \/ UNCHANGED vars
  <2>1. stall' = stall /\ crashed' = crashed /\ lost' = lost
    BY <1>7 DEF DeviceAnswer, Respond, Transaction, HostIn, HostOut, HostAsks, HostStatusOut, HostStatusIn,
                HostGivesUp, devVars, drvVars, vars
  <2>. QED BY <2>1 DEF Booleans
<1>. QED BY <1>2, <1>3, <1>4, <1>5, <1>6, <1>7 DEF Next

LEMMA TypesFollow == PipeInv /\ Booleans => ControlTypeOK
<1>. SUFFICES ASSUME PipeInv, Booleans PROVE ControlTypeOK
  OBVIOUS
<1>1. PipeTypeOK /\ PacketsFit /\ MgrTypeOK
  BY DEF PipeInv, TransferInv, Ep0Inv
<1>2. otepspr \in BOOLEAN /\ ignored \in Seq(Nat) /\ Len(evq) + Len(ignored) <= EventDepth
  <2>1. /\ Len(Coming) \in Nat /\ Len(evq) \in Nat /\ Len(evq) <= Len(Coming)
        /\ Len(ignored) \in Nat /\ Pending \in Nat /\ otepspr \in BOOLEAN /\ ignored \in Seq(Nat)
        /\ Len(Coming) + Len(ignored) + Pending <= EventDepth
    BY BesideFacts, RoomFacts, ComingFacts DEF HasRoom
  <2>2. Len(evq) + Len(ignored) <= EventDepth
    BY <2>1, SizeFacts
  <2>. QED BY <2>1, <2>2
<1>3. /\ in.ena \in BOOLEAN /\ in.nak \in BOOLEAN /\ in.size \in 0 .. EP0SIZE
      /\ tx.rem \in Nat /\ rx.rem \in Nat
  BY <1>1 DEF PipeTypeOK
<1>4. ran \in [Ids -> 0 .. 2]
  <2>1. ran \in [Ids -> 0 .. 1] /\ \A k \in 0 .. 1 : k \in 0 .. 2
    BY <1>1 DEF PipeTypeOK
  <2>. QED BY <2>1
<1>. QED BY <1>1, <1>2, <1>3, <1>4 DEF PipeTypeOK, PacketsFit, ControlTypeOK, Booleans

LEMMA RespondingIsCurrent ==
    ASSUME PipeInv, thread = "respond"
    PROVE  Responding
<1>1. thread # "loop"
  OBVIOUS
<1>. QED BY <1>1 DEF PipeInv, TransferInv, Protocol, Announced, Receiving, Executed, Over

LEMMA QuietIsOver ==
    ASSUME PipeInv, stage = "idle", Quiet
    PROVE  ~InTransfer /\ Coming = <<>> /\ \E n \in 0 .. 2 : Over(n)
<1>1. ~InTransfer /\ thread # "respond"
  BY DEF InTransfer, Quiet
<1>2. Coming = <<>>
  BY ComingFacts DEF PipeInv, TransferInv, Wire, Quiet
<1>3. Len(Coming) = 0
  BY <1>2, EmptySeq
<1>4. \A n \in 0 .. 2 : ~Announced(n)
  <2>1. \A n \in 0 .. 2 : ~(0 > n)
    OBVIOUS
  <2>. QED BY <1>3, <2>1 DEF Announced
<1>. QED BY <1>1, <1>2, <1>4 DEF PipeInv, TransferInv, Protocol, Receiving, Responding, Executed

LEMMA AddressFollows == PipeInv => AddressAgreed
<1>. SUFFICES ASSUME PipeInv, stage = "idle", Quiet PROVE address = assigned
  BY DEF AddressAgreed
<1>1. ~InTransfer /\ \A i \in DOMAIN Coming : FALSE
  BY QuietIsOver
<1>. QED BY <1>1 DEF PipeInv, TransferInv, Addressed

\* The data the host gets.
LEMMA DataFacts ==
    ASSUME OrdinaryUse, PipeInv, request.dir = "in"
    PROVE  /\ Wanted \in Nat /\ Data(request) = Cut(request, 0, Wanted)
           /\ \A k \in Nat : k <= Wanted => IsPrefix(Cut(request, 0, k), Data(request))
<1>1. request \in Setups /\ request.len \in Nat /\ request.reply \in Nat
  BY RequestFacts DEF PipeInv, TransferInv, PipeTypeOK
<1>2. Wanted \in Nat /\ Wanted <= request.reply
  BY <1>1 DEF Wanted, Lesser
<1>3. Data(request) = Cut(request, 0, Wanted)
  BY <1>1, <1>2, CutWhole, CutFirst DEF Data, Wanted
<1>4. ASSUME NEW k \in Nat, k <= Wanted PROVE IsPrefix(Cut(request, 0, k), Data(request))
  <2>1. Cut(request, 0, k) = SubSeq(Data(request), 1, k)
    BY <1>1, <1>2, <1>3, <1>4, CutFirst
  <2>2. Len(Cut(request, 0, k)) = k /\ Len(Data(request)) = Wanted
    <3>1. 0 <= k /\ 0 <= Wanted /\ k - 0 = k /\ Wanted - 0 = Wanted
      BY <1>2
    <3>. QED BY <1>1, <1>2, <1>3, <3>1, CutType
  <2>. QED BY <1>2, <1>4, <2>1, <2>2 DEF IsPrefix
<1>. QED BY <1>2, <1>3, <1>4

\* A host that reads has no more than the core has sent.
LEMMA HasNoMore ==
    ASSUME OrdinaryUse, PipeInv, resets <= 1, InTransfer, request.dir = "in"
    PROVE  /\ Len(moved) \in Nat /\ moved = Cut(request, 0, Len(moved))
           /\ Len(moved) <= Wanted
           /\ stage = "status" => Len(moved) = Wanted
<1>1. Len(moved) \in Nat /\ tx.pos \in Nat /\ tx.rem \in Nat /\ in.size \in Nat /\ Wanted \in Nat
  BY DataFacts, LenProperties, SizeFacts DEF PipeInv, TransferInv, PipeTypeOK
<1>2. moved = Cut(request, 0, Len(moved))
  BY DEF PipeInv, TransferInv, InData
<1>3. CASE ran[request.id] = 0
  <2>1. stage = "data" /\ Len(moved) = 0
    BY <1>3, EmptySeq DEF PipeInv, TransferInv, Staged
  <2>. QED BY <1>1, <1>2, <2>1
<1>4. CASE ran[request.id] # 0
  <2>1. Executed
    BY <1>4 DEF PipeInv, TransferInv, Protocol, Announced, Receiving, Responding, Over
  <2>2. ~Stuck /\ ~StatusIn
    <3>1. ~(resets > 1) /\ request.dir # "out"
      BY RoomFacts
    <3>. QED BY <3>1 DEF Stuck, StatusIn
  <2>3. CASE Refusal
    <3>1. stage = "data" /\ Len(moved) = 0
      BY <2>3, EmptySeq DEF Refusal
    <3>. QED BY <1>1, <1>2, <3>1
  <2>4. CASE Loaded
    <3>1. stage = "data" /\ Len(moved) + in.size = tx.pos /\ tx.pos + tx.rem = Wanted
      BY <2>4 DEF Loaded, Replying
    <3>. QED BY <1>1, <1>2, <3>1
  <2>5. CASE Fetched \/ Delivered
    <3>1. /\ Len(moved) = tx.pos /\ tx.pos + tx.rem = Wanted
          /\ stage = "status" => tx.rem = 0
      BY <2>5 DEF Fetched, Delivered, Replying
    <3>. QED BY <1>1, <1>2, <3>1
  <2>. QED BY <2>1, <2>2, <2>3, <2>4, <2>5 DEF Executed
<1>. QED BY <1>3, <1>4

LEMMA AtMostOneReset ==
    ASSUME PipeInv, MaxResets <= 1
    PROVE  resets <= 1
  BY SizeFacts DEF PipeInv, TransferInv, PipeTypeOK

LEMMA DataFollows == OrdinaryUse /\ MaxResets <= 1 /\ PipeInv => DataIsOwn
<1>. SUFFICES ASSUME OrdinaryUse, MaxResets <= 1, PipeInv PROVE DataIsOwn
  OBVIOUS
<1>1. ASSUME InTransfer, request.dir = "in" PROVE IsPrefix(moved, Data(request))
  <2>1. PICK k \in Nat : k = Len(moved)
    BY <1>1, HasNoMore, AtMostOneReset
  <2>2. moved = Cut(request, 0, k) /\ k <= Wanted
    BY <1>1, <2>1, HasNoMore, AtMostOneReset
  <2>. QED BY <1>1, <2>2, DataFacts
<1>2. ASSUME thread = "respond", setup.dir = "out", setup.len > 0 PROVE rx.buf = Payload(setup)
  <2>1. setup = request /\ rx.buf = Cut(request, 0, request.len)
    BY <1>2, RespondingIsCurrent DEF Responding
  <2>. QED BY <2>1, CutWhole DEF PipeInv, TransferInv, PipeTypeOK
<1>. QED BY <1>1, <1>2 DEF DataIsOwn

LEMMA ReplyFollows == OrdinaryUse /\ MaxResets <= 1 /\ PipeInv => ReplyIsWhole
<1>. SUFFICES ASSUME OrdinaryUse, MaxResets <= 1, PipeInv, stage = "status", request.dir = "in"
              PROVE  moved = Data(request)
  BY DEF ReplyIsWhole
<1>1. InTransfer
  BY DEF InTransfer
<1>2. moved = Cut(request, 0, Len(moved)) /\ Len(moved) = Wanted
  BY <1>1, HasNoMore, AtMostOneReset
<1>. QED BY <1>2, DataFacts

LEMMA CleanFollows == MaxResets <= 1 /\ PipeInv => QuietIsClean
<1>. SUFFICES ASSUME MaxResets <= 1, PipeInv, stage = "idle", Quiet
              PROVE  /\ queue[0] = <<>> /\ in.fifo = <<>> /\ active[0] # NoBuf
                     /\ setup \in Served => control = "IDLE" /\ tx.rem = 0
  BY DEF QuietIsClean
<1>1. ~InTransfer /\ Coming = <<>> /\ InFlight = 0
  BY QuietIsOver DEF Over
<1>2. OnlyBus(0)
  <2>1. Len(Coming) = 0 /\ \A i \in 0 + 1 .. 0 : FALSE
    BY <1>1, EmptySeq
  <2>. QED BY <2>1 DEF OnlyBus
<1>3. resets <= 1
  BY AtMostOneReset
<1>4. queue[0] = <<>> /\ active[0] # NoBuf
  BY <1>1, QueueFacts DEF PipeInv, TransferInv, Room
<1>. QED BY <1>1, <1>2, <1>3, <1>4 DEF PipeInv, TransferInv, InData, Answering

-----------------------------------------------------------------------------
(* The theorems.                                                           *)

\* Of every state: what the core has still to do, how far its state machine is, what
\* is on the wire and what the host has seen fit together.
THEOREM PipeInvariant ==
    ASSUME OrdinaryUse
    PROVE  Spec => []PipeInv
<1>1. Init => PipeInv
  BY PipeInvInit
<1>2. PipeInv /\ [Next]_vars => PipeInv'
  BY PipeInvStep
<1>. QED BY <1>1, <1>2, PTL DEF Spec

\* Every variable keeps its type: no packet is longer than a buffer, the core's cursors
\* stay in its buffers, and the interrupt's queue holds what the code has allocated.
THEOREM TypesCorrect ==
    ASSUME OrdinaryUse
    PROVE  Spec => []ControlTypeOK
<1>1. Init => Booleans
  BY DEF Init, DrvInit, Booleans
<1>2. Spec => []Booleans
  BY <1>1, BooleansStep, PTL DEF Spec
<1>. QED BY <1>2, PipeInvariant, TypesFollow, PTL

\* handle_ep0_setup decodes the setup packet of the transfer the host is in, although
\* the interrupt writes m_last_setup_packet without a lock.
THEOREM DecodesCurrent ==
    ASSUME OrdinaryUse
    PROVE  Spec => []DecodedIsCurrent
<1>1. PipeInv => DecodedIsCurrent
  BY RespondingIsCurrent DEF DecodedIsCurrent, Responding
<1>. QED BY <1>1, PipeInvariant, PTL

\* process_request runs at most once for a SETUP, however the thread is delayed and
\* whenever the bus is reset.
THEOREM ExecutesOnce ==
    ASSUME OrdinaryUse
    PROVE  Spec => []ExecutedOnce
<1>1. PipeInv => ExecutedOnce
  <2>1. \A k \in 0 .. 1 : k <= 1
    OBVIOUS
  <2>. QED BY <2>1 DEF PipeInv, TransferInv, PipeTypeOK, ExecutedOnce
<1>. QED BY <1>1, PipeInvariant, PTL

\* The interrupt never finds the event queue full, with as many resets and suspends as
\* fit it: two events each and one, and three of a transfer.  CTRL_DATA_PHASE_DONE and
\* the suspend events, which the core ignores, are counted in.
THEOREM EventsFitQueue ==
    ASSUME OrdinaryUse
    PROVE  Spec => []EventsFit
<1>1. PipeInv => EventsFit
  BY DEF PipeInv, TransferInv, PipeTypeOK, EventsFit
<1>. QED BY <1>1, PipeInvariant, PTL

\* poll() finds an active buffer for every packet of endpoint 0.
THEOREM NoNullBuffer ==
    ASSUME OrdinaryUse
    PROVE  Spec => []Ep0NoNullDeref
<1>1. PipeInv => Ep0NoNullDeref
  BY DEF PipeInv, TransferInv, PipeTypeOK, Ep0NoNullDeref
<1>. QED BY <1>1, PipeInvariant, PTL

\* Once the thread has caught up, device and host agree on the address, whether a
\* reset or SET_ADDRESS was last.
THEOREM AgreeOnAddress ==
    ASSUME OrdinaryUse
    PROVE  Spec => []AddressAgreed
  BY PipeInvariant, AddressFollows, PTL

\* What the host has of a reply is a prefix of it, and process_request sees the whole
\* payload and nothing else, until a bus reset breaks into a transfer.
THEOREM DataBelongs ==
    ASSUME OrdinaryUse, MaxResets <= 1
    PROVE  Spec => []DataIsOwn
<1>1. PipeInv => DataIsOwn
  BY DataFollows
<1>. QED BY <1>1, PipeInvariant, PTL

\* A host that ends the data stage has all of the reply, cut to wLength.
THEOREM ReplyComplete ==
    ASSUME OrdinaryUse, MaxResets <= 1
    PROVE  Spec => []ReplyIsWhole
<1>1. PipeInv => ReplyIsWhole
  BY ReplyFollows
<1>. QED BY <1>1, PipeInvariant, PTL

\* Between transfers the pipe is as it was: no packet queued, the FIFO empty, a buffer
\* to receive into and, after a served request, the state machine idle.
THEOREM LeavesNothing ==
    ASSUME OrdinaryUse, MaxResets <= 1
    PROVE  Spec => []QuietIsClean
<1>1. PipeInv => QuietIsClean
  BY CleanFollows
<1>. QED BY <1>1, PipeInvariant, PTL

-----------------------------------------------------------------------------
(* The control pipe implements the safety part of ControlTransfer.         *)

LEMMA InOrderInit == Init => Transfer!Init
  BY DEF Init, Transfer!Init, Phase, InTransfer

\* process_request answers the transfer the host is in, or one that a reset has ended.
LEMMA AnswerInOrder ==
    ASSUME OrdinaryUse, PipeInv, DeviceAnswer
    PROVE  Transfer!Execute \/ UNCHANGED Transfer!ctlVars
<1>1. Responding /\ request' = request /\ ran'[request.id] = 1 /\ InTransfer' = InTransfer
  BY AnswerFrame
<1>2. ran[request.id] = 0
  BY <1>1 DEF Responding
<1>3. CASE InTransfer
  BY <1>1, <1>2, <1>3 DEF Transfer!Execute, Phase
<1>4. CASE ~InTransfer
  BY <1>1, <1>4 DEF Transfer!ctlVars, Phase
<1>. QED BY <1>3, <1>4

\* A status stage comes to an end only when the request has been executed.
LEMMA StatusInOrder ==
    ASSUME OrdinaryUse, PipeInv, HostStatusIn \/ HostStatusOut
    PROVE  Transfer!Complete
<1>1. Executed /\ request.resp = "ACK"
  <2>1. CASE HostStatusIn
    BY <2>1, StatusInWhen DEF StatusIn
  <2>2. CASE HostStatusOut
    BY <2>2, StatusOutWhen DEF Fetched, Delivered, Replying
  <2>. QED BY <2>1, <2>2
<1>2. stage' = "idle" /\ request' = request
  BY DEF HostStatusIn, HostStatusOut, Ended
<1>3. ran[request.id] = 1
  BY <1>1 DEF Executed
<1>. QED BY <1>1, <1>2, <1>3 DEF Executed, Transfer!Complete, Phase, InTransfer

LEMMA InOrderStep == OrdinaryUse /\ PipeInv /\ [Next]_vars => [Transfer!Next]_(Transfer!ctlVars)
<1>. SUFFICES ASSUME OrdinaryUse, PipeInv, [Next]_vars PROVE [Transfer!Next]_(Transfer!ctlVars)
  OBVIOUS
<1>1. CASE DeviceIsr \/ DeviceEvent \/ Suspend \/ HostAsks \/ UNCHANGED vars
  <2>1. UNCHANGED <<stage, request, ran>>
    BY <1>1 DEF DeviceIsr, DeviceEvent, Suspend, HostAsks, hostVars, vars
  <2>. QED BY <2>1 DEF Transfer!ctlVars, Phase, InTransfer
<1>2. CASE DeviceAnswer
  BY <1>2, AnswerInOrder DEF Transfer!Next
<1>3. CASE BusReset \/ HostGivesUp
  <2>1. stage' \in {"reset", "idle"} /\ request' = request
    BY <1>3 DEF BusReset, HostGivesUp
  <2>2. Phase' = "idle"
    BY <2>1 DEF Phase, InTransfer
  <2>. QED BY <2>1, <2>2 DEF Transfer!Next, Transfer!Drop, Transfer!ctlVars
<1>4. CASE EnumDone
  <2>1. stage = "reset" /\ stage' = "idle" /\ request' = request
    BY <1>4 DEF EnumDone
  <2>. QED BY <2>1 DEF Transfer!ctlVars, Phase, InTransfer
<1>5. ASSUME NEW s \in Setups, HostSetup(s) PROVE Transfer!Start(s)
  <2>1. ~InTransfer
    BY <1>5, SetupWhen
  <2>2. s.id \in Ids
    BY RequestFacts
  <2>3. /\ stage' \in {"data", "status"} /\ request' = s
        /\ ran' = [ran EXCEPT ![s.id] = 0]
    BY <1>5 DEF HostSetup
  <2>4. ran'[s.id] = 0
    BY <2>2, <2>3 DEF PipeInv, TransferInv, PipeTypeOK
  <2>. QED BY <2>1, <2>3, <2>4 DEF Transfer!Start, Phase, InTransfer
<1>6. CASE HostIn \/ HostOut
  <2>1. stage \in {"data", "status"} /\ stage' \in {"data", "status"} /\ request' = request /\ ran' = ran
    BY <1>6 DEF HostIn, HostOut
  <2>. QED BY <2>1 DEF Transfer!ctlVars, Phase, InTransfer
<1>7. CASE HostStatusIn \/ HostStatusOut
  BY <1>7, StatusInOrder DEF Transfer!Next
<1>. QED BY <1>1, <1>2, <1>3, <1>4, <1>5, <1>6, <1>7 DEF Next, Transaction, Transfer!Next

\* For the host, the control pipe is ControlTransfer: a request is executed at most once,
\* only while the host is in its transfer, and a transfer the host sees complete has been
\* executed, with any number of resets the event queue holds.
THEOREM ImplementsControlTransfer ==
    ASSUME OrdinaryUse
    PROVE  Spec => TransfersInOrder
<1>1. PipeInv /\ [Next]_vars => [Transfer!Next]_(Transfer!ctlVars)
  BY InOrderStep
<1>. QED BY <1>1, InOrderInit, PipeInvariant, PTL DEF Spec, TransfersInOrder, Transfer!SafeSpec
=============================================================================
