---------------------------- MODULE ControlPipeInv ----------------------------
(***************************************************************************)
(* The inductive invariant of ControlPipe for a host that ends a transfer  *)
(* before it starts the next.  The interrupt only moves events along, from *)
(* the receive FIFO over the interrupt flags to the event queue, so the    *)
(* invariant speaks of all the events to come (Coming), which poll() does  *)
(* not change, and says for each phase of a transfer what they are, how    *)
(* far the state machine is, and what the host has seen.                   *)
(***************************************************************************)
EXTENDS ControlPipe

(***************************************************************************)
(* What is assumed of the requests and the sizes.                          *)
(***************************************************************************)
\* What the event queue holds besides the events the core ignores: two of OTEPSPR, and
\* the suspends.
Depth == EventDepth - 2 - MaxSuspends

At(k)    == k * EP0SIZE
Whole(n) == \E k \in 0 .. n : n = At(k)

\* A reply fits the control buffer, which is reset first, and is not exactly as
\* long as asked for in full packets; a payload fits the buffers and the event
\* queue, and no bus reset interrupts it; only SET_ADDRESS carries an address.
Serviceable(s) ==
    /\ s.resp = "INVALID" => s.dir = "in" \/ s.len = 0
    /\ s.dir = "in" => s.len > 0
    /\ s.dir = "in" /\ s.resp = "ACK" =>
           /\ s.fresh = TRUE
           /\ Lesser(s.reply, s.len) <= TxMax
           /\ s.len <= s.reply => ~Whole(s.len)
    /\ s.dir = "out" /\ s.len > 0 =>
           /\ s.len <= RxMax /\ MaxResets <= 1
           /\ s.len <= At(BUFFER_DEPTH - 1)
           /\ s.len <= At(Depth - 1 - 2 * MaxResets)
    /\ s.addr # NoAddr => s.dir = "out" /\ s.len = 0 /\ s.resp = "ACK"

OrdinaryUse ==
    /\ ~HostAborts
    /\ EP0SIZE <= TxFifoRoom
    /\ 1 + 2 * MaxResets <= Depth
    /\ \A s \in Setups : Serviceable(s)

(***************************************************************************)
(* The events to come.                                                     *)
(***************************************************************************)
Bus == {"RESET", "ENUM_DONE"}

Ev(entry) == CASE entry.kind = "setupDone" -> <<"CTRL_SETUP_PHASE_DONE">>
               [] entry.kind = "outDone"   -> <<"EP_RX">>
               [] OTHER -> <<>>
EvAt(q, i)  == IF i \in DOMAIN q THEN Ev(q[i]) ELSE <<>>
\* The receive FIFO never holds more than four entries.
RxEvents(q) == EvAt(q, 1) \o (EvAt(q, 2) \o (EvAt(q, 3) \o EvAt(q, 4)))
Coming      == (evq \o EventsOf(flags)) \o RxEvents(rxq)

(***************************************************************************)
(* Types.                                                                  *)
(***************************************************************************)
Units   == Ids \X Nat
Entries == [kind : {"setup", "setupDone", "data", "outDone"}, setup : Setups, units : Seq(Units)]

PipeTypeOK ==
    /\ packet \in [Buffers -> Seq(Units)]
    /\ rxq \in Seq(Entries)
    /\ lastSetup \in Setups \cup {NoSetup} /\ setup \in Setups \cup {NoSetup}
    /\ outArmed \in BOOLEAN
    /\ in \in [ena : BOOLEAN, nak : BOOLEAN, size : 0 .. EP0SIZE, fifo : Seq(Units)]
    /\ Len(in.fifo) <= TxFifoRoom
    /\ flags \subseteq Flags /\ \A f, g \in flags : f = g
    /\ evq \in Seq(Events)
    /\ control \in ControlStates /\ thread \in {"loop", "respond"}
    /\ tx \in [buf : Seq(Units), pos : Nat, rem : Nat]
    /\ tx.pos + tx.rem <= Len(tx.buf) /\ Len(tx.buf) <= TxMax
    /\ rx \in [buf : Seq(Units), rem : Nat]
    /\ Len(rx.buf) + rx.rem <= RxMax
    /\ registered \in BOOLEAN
    /\ stage \in {"detached", "reset", "idle", "data", "status"}
    /\ request \in Setups /\ moved \in Seq(Units)
    /\ resets \in 0 .. MaxResets
    /\ ran \in [Ids -> 0 .. 1]
    /\ ~lost /\ ~crashed /\ ~stall

\* No packet is longer than a buffer.
PacketsFit == \A b \in Buffers : Len(packet[b]) <= EP0SIZE

(***************************************************************************)
(* The receive FIFO, and the room in the queues.                           *)
(***************************************************************************)
Kind(i)  == rxq[i].kind
Newest   == rxq[Len(rxq) - 1]
RxqShape ==
    \/ Len(rxq) = 0
    \/ Len(rxq) = 1 /\ Kind(1) \in {"outDone", "setupDone"}
    \/ Len(rxq) = 2 /\ Kind(1) = "data" /\ Kind(2) = "outDone"
    \/ Len(rxq) = 2 /\ Kind(1) = "setup" /\ Kind(2) = "setupDone"
    \/ Len(rxq) = 3 /\ Kind(1) = "outDone" /\ Kind(2) = "data" /\ Kind(3) = "outDone"
    \/ Len(rxq) = 3 /\ Kind(1) = "outDone" /\ Kind(2) = "setup" /\ Kind(3) = "setupDone"
    \/ Len(rxq) = 4 /\ Kind(1) = "data" /\ Kind(2) = "outDone" /\ Kind(3) = "setup"
                    /\ Kind(4) = "setupDone"

SetupPending == Len(rxq) >= 2 /\ Newest.kind = "setup"
DataPending  == Len(rxq) >= 2 /\ Newest.kind = "data"

Silent == stage \in {"detached", "reset"} \/ \E i \in DOMAIN evq : evq[i] \in Bus

Wire ==
    /\ RxqShape
    /\ SetupPending => InTransfer /\ Newest.setup = request
    /\ DataPending => (Newest.units = <<>> <=> ~InTransfer)
    /\ Len(rxq) = 4 => rxq[1].units = <<>>
    /\ InTransfer => (outArmed <=> Len(rxq) = 0 \/ (Len(rxq) = 1 /\ Kind(1) = "outDone"))
    /\ \/ InTransfer
       \/ Len(rxq) = 0
       \/ Len(rxq) = 1 /\ Kind(1) = "outDone"
       \/ Len(rxq) = 2 /\ Kind(1) = "data"
    /\ InTransfer => RxqDepth >= 2
    /\ Silent => rxq = <<>> /\ flags = {}

\* An active buffer, and every event fits its part of the queue, those of later resets
\* included.
Room ==
    /\ active[0] # NoBuf
    /\ Len(Coming) + 2 * (MaxResets - resets) + (IF stage = "reset" THEN 1 ELSE 0) <= Depth

(***************************************************************************)
(* The events the core ignores.  The current transfer raises OTEPSPR once; *)
(* that of the one before may be queued until the thread gets to the SETUP *)
(* or to a bus event, and stands before it.                                *)
(***************************************************************************)
Marks   == Bus \cup {"CTRL_SETUP_PHASE_DONE"}
Pending == IF otepspr THEN 1 ELSE 0
Own     == suspends + IF asked THEN 1 ELSE 0

Beside ==
    /\ otepspr \in BOOLEAN /\ asked \in BOOLEAN /\ suspends \in 0 .. MaxSuspends
    /\ ignored \in Seq(Nat) /\ \A i \in DOMAIN ignored : ignored[i] <= Len(evq)
    /\ Len(ignored) + Pending <= 1 + Own
    /\ \A k \in DOMAIN evq : evq[k] \in Marks =>
           \E m \in 0 .. Len(ignored) : /\ \A i \in 1 .. m : ignored[i] < k
                                       /\ Len(ignored) - m + Pending <= Own
    /\ (\A i \in DOMAIN Coming : Coming[i] \notin Marks) => Len(ignored) + Pending <= Own
    /\ Silent => ~otepspr

(***************************************************************************)
(* OUT data on its way.                                                    *)
(***************************************************************************)
\* Units a + 1 to b of the data of request s.
Cut(s, a, b) == [i \in 1 .. b - a |-> <<s.id, a + i>>]

\* OUT data the core has not taken: in queued buffers, then in the receive FIFO.
InFlight == Len(queue[0]) + (IF InTransfer /\ DataPending THEN 1 ELSE 0)

\* The i-th packet in flight.
Flying(i) == IF i <= Len(queue[0]) THEN packet[queue[0][i]] ELSE Newest.units

\* The core has taken units, and the rest the host has sent is in flight, a full
\* packet each but for the last.
SentOut(taken) ==
    /\ moved = Cut(request, 0, Lesser(taken + At(InFlight), request.len))
    /\ \A i \in 1 .. InFlight :
           /\ taken + At(i - 1) < request.len
           /\ Flying(i) = Cut(request, taken + At(i - 1), Lesser(taken + At(i), request.len))

(***************************************************************************)
(* The phases of a transfer.                                               *)
(***************************************************************************)
Armed == in.ena /\ ~in.nak

\* The first n events to come end the transfer before.
Residue(n) ==
    \/ n = 0
    \/ n = 1 /\ Coming[1] = "EP_TX" /\ control = "STATUS_IN"
    \/ n = 1 /\ Coming[1] = "EP_RX" /\ control = "STATUS_OUT"
    \/ n = 2 /\ Coming[1] = "EP_TX" /\ Coming[2] = "EP_RX" /\ control = "TXCOMP"

OnlyRx(n)  == \A i \in n + 1 .. Len(Coming) : Coming[i] = "EP_RX"
OnlyBus(n) == \A i \in n + 1 .. Len(Coming) : Coming[i] \in Bus
\* A bus reset has overtaken what the core still has to do.
Overtaken(n) == /\ ~InTransfer /\ resets > 1
                /\ Len(Coming) > n /\ Coming[n + 1] = "RESET" /\ OnlyBus(n)

Announced(n) ==
    /\ thread = "loop" /\ registered /\ ran[request.id] = 0
    /\ Len(Coming) > n /\ Residue(n) /\ Coming[n + 1] = "CTRL_SETUP_PHASE_DONE"
    /\ lastSetup = request \/ SetupPending
    /\ \/ /\ InTransfer /\ OnlyRx(n + 1) /\ Len(Coming) = n + 1 + InFlight /\ ~Armed
          /\ IF request.dir = "out" THEN SentOut(0) ELSE InFlight = 0
       \/ Overtaken(n + 1) /\ InFlight = 0

Receiving ==
    /\ thread = "loop" /\ registered /\ ran[request.id] = 0 /\ setup = request
    /\ InTransfer /\ request.dir = "out" /\ request.len > 0
    /\ control = "RXDATA"
    /\ OnlyRx(0) /\ Len(Coming) = InFlight /\ ~Armed
    /\ 0 < rx.rem /\ rx.rem <= request.len
    /\ rx.buf = Cut(request, 0, request.len - rx.rem)
    /\ SentOut(request.len - rx.rem)

Responding ==
    /\ thread = "respond" /\ registered /\ ran[request.id] = 0 /\ setup = request
    /\ request.resp # "INVALID"
    /\ InFlight = 0
    /\ request.dir = "out" /\ request.len > 0 => rx.buf = Cut(request, 0, request.len)
    /\ \/ /\ InTransfer /\ Coming = <<>> /\ ~Armed
          /\ request.dir = "out" => stage = "status"
       \/ Overtaken(0)

Wanted == Lesser(request.reply, request.len)

\* What the core has answered, and how much of it the host has.  A request that is not
\* answered leaves the host without a packet.
Refusal   == /\ request.resp # "ACK"
             /\ control = IF request.resp = "INVALID" THEN "IDLE" ELSE "STATUS_IN"
             /\ Coming = <<>> /\ ~Armed
             /\ stage = IF request.dir = "in" THEN "data" ELSE "status"
             /\ request.dir = "in" => moved = <<>>
StatusIn  == /\ request.resp = "ACK" /\ request.dir = "out" /\ control = "STATUS_IN"
             /\ Coming = <<>> /\ Armed /\ in.size = 0
             /\ stage = "status" /\ tx.rem = 0
Replying  == /\ request.resp = "ACK" /\ request.dir = "in"
             /\ tx.pos + tx.rem = Wanted
\* A packet waits for the host; the host has it; the host has all; no room for it.
Loaded    == /\ Replying /\ Coming = <<>> /\ Armed
             /\ stage = "data" /\ Whole(Len(moved))
             /\ in.size <= Len(in.fifo) /\ Len(moved) + in.size = tx.pos
             /\ in.size < EP0SIZE => tx.rem = 0
             /\ control = AfterPacket(in.size, tx.rem)
Fetched   == /\ Replying /\ Len(Coming) = 1 /\ Coming[1] = "EP_TX" /\ ~Armed
             /\ Len(moved) = tx.pos
             /\ \/ /\ stage = "data" /\ Whole(Len(moved))
                   /\ control = IF tx.rem > 0 THEN "TXDATA" ELSE "TXZLP"
                \/ stage = "status" /\ tx.rem = 0 /\ control = "TXCOMP"
Delivered == /\ Replying /\ Coming = <<>> /\ ~Armed
             /\ Len(moved) = tx.pos /\ tx.rem = 0
             /\ stage = "status" /\ control = "STATUS_OUT"
Stuck     == /\ Replying /\ Coming = <<>> /\ ~Armed
             /\ stage = "data" /\ resets > 1

Executed ==
    /\ thread = "loop" /\ registered /\ setup = request
    /\ ran[request.id] = IF request.resp = "INVALID" THEN 0 ELSE 1
    /\ InTransfer /\ InFlight = 0
    /\ Refusal \/ StatusIn \/ Loaded \/ Fetched \/ Delivered \/ Stuck

\* No transfer.  A completed one may have left a packet's event before a reset's.
Over(n) ==
    /\ ~InTransfer /\ thread = "loop" /\ InFlight = 0
    /\ registered \/ n = 0
    /\ Len(Coming) >= n /\ OnlyBus(n)
    /\ Residue(n) \/ (n = 1 /\ Coming[1] = "EP_TX" /\ Len(Coming) > 1 /\ resets > 1)
    /\ stage = "idle" /\ ~registered => Len(Coming) > 0 /\ Coming[Len(Coming)] = "ENUM_DONE"

Protocol ==
    \/ \E n \in 0 .. 2 : Announced(n)
    \/ Receiving \/ Responding \/ Executed
    \/ \E n \in 0 .. 2 : Over(n)

\* The host's stage, before the core has answered or while the host sends; and
\* nothing happens before the first reset.
Staged ==
    /\ resets = 0 => /\ stage = "detached" /\ ~registered
                      /\ setup = NoSetup /\ Coming = <<>>
    /\ InTransfer =>
        /\ request.dir = "out" => /\ Len(moved) <= request.len
                                  /\ stage = "status" <=> Len(moved) = request.len
        /\ request.dir = "in" /\ ran[request.id] = 0 => stage = "data" /\ moved = <<>>

(***************************************************************************)
(* The address.                                                            *)
(***************************************************************************)
Addressed ==
    IF InTransfer
    THEN address = IF ran[request.id] = 1 /\ request.addr # NoAddr THEN request.addr ELSE assigned
    ELSE IF \E i \in DOMAIN Coming : Coming[i] = "RESET" THEN assigned = 0 ELSE address = assigned

(***************************************************************************)
(* IN data, until a bus reset breaks in.                                   *)
(***************************************************************************)
Answering == InTransfer /\ request.dir = "in" /\ request.resp = "ACK" /\ ran[request.id] = 1

InData ==
    resets <= 1 =>
        /\ InTransfer /\ request.dir = "in" => moved = Cut(request, 0, Len(moved))
        /\ Answering => tx.buf = Cut(request, 0, Lesser(request.reply, TxMax))
        /\ in.fifo = IF Answering /\ Armed THEN Cut(request, Len(moved), tx.pos) ELSE <<>>
        /\ ~InTransfer /\ setup \in Served =>
               tx.rem = 0 /\ (OnlyBus(0) => control = "IDLE")

\* The buffers of endpoint 0, whatever the host does.
Ep0Inv == MgrTypeOK /\ Ep0Conserved

TransferInv ==
    /\ Ep0Inv /\ PipeTypeOK /\ PacketsFit
    /\ Wire /\ Room /\ Protocol /\ Staged /\ Addressed /\ InData

PipeInv == TransferInv /\ Beside
=============================================================================
