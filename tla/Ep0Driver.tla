------------------------------ MODULE Ep0Driver ------------------------------
(***************************************************************************)
(* The control endpoint in the OTG drivers: the SETUP, OUT and IN          *)
(* hardware of endpoint 0, the part of poll() that serves it, and the      *)
(* queue that carries events from the interrupt to the core's thread.      *)
(*                                                                         *)
(* The data of a control transfer is a sequence of units, half a maximum   *)
(* packet each when EP0SIZE is 2; a unit <<id, i>> says which transfer it  *)
(* belongs to and its place in it.                                         *)
(***************************************************************************)
EXTENDS EpBufferMgr

CONSTANTS
    EP0SIZE,     \* m_ep0_cfg.size, in units
    TxFifoRoom,  \* the IN FIFO of endpoint 0, in units
    RxqDepth,    \* entries the receive FIFO holds
    EventDepth,  \* length of m_event_queue (32)
    Otghs2,      \* TRUE: stm32_h7xx_otghs2, FALSE: stm32_h7xx_otghs
    Setups,      \* the setup packets the host sends
    NoSetup      \* what m_last_setup_packet and m_setup_packet hold before the first

ASSUME Ep0Assumption ==
    /\ Eps = {0}
    /\ EP0SIZE \in Nat \ {0} /\ TxFifoRoom \in Nat
    /\ RxqDepth \in Nat /\ EventDepth \in Nat \ {0}
    /\ Otghs2 \in BOOLEAN

VARIABLES
    packet,    \* [Buffers -> Seq(unit)]: what an endpoint 0 buffer holds
    rxq,       \* the receive FIFO: what GRXSTSP pops
    lastSetup, \* m_last_setup_packet
    outArmed,  \* OUT: enabled and not NAKing
    in,        \* IN: EPENA, NAK, the programmed XFRSIZ and the FIFO
    stall,     \* STALL on both halves
    flags,     \* pending STUP and XFRC interrupts of endpoint 0
    otepspr,   \* pending OTEPSPR interrupt: the host is in the status stage
    evq,       \* m_event_queue: the events the core acts on
    ignored,   \* the others in it: how many of evq stand before each of them
    lost,      \* an event found the queue full
    crashed    \* poll() dereferenced a null endpoint 0 buffer

drvVars == <<packet, rxq, lastSetup, outArmed, in, stall, flags, otepspr, evq,
             ignored, lost, crashed>>

Events == {"RESET", "ENUM_DONE", "CTRL_SETUP_PHASE_DONE", "EP_RX", "EP_TX"}
Flags  == {"inXfrc", "stup", "outXfrc"}
Entry(kind, s, units) == [kind |-> kind, setup |-> s, units |-> units]

\* After initialize() and enable(): no transfer, the first buffer active.
DrvInit ==
    /\ pool   = [e \in Eps |-> Tail(FreeList)]
    /\ active = [e \in Eps |-> Head(FreeList)]
    /\ queue  = [e \in Eps |-> <<>>]
    /\ packet = [b \in Buffers |-> <<>>]
    /\ rxq = <<>> /\ lastSetup = NoSetup
    /\ outArmed = FALSE
    /\ in = [ena |-> FALSE, nak |-> TRUE, size |-> 0, fifo |-> <<>>]
    /\ stall = FALSE /\ flags = {} /\ otepspr = FALSE
    /\ evq = <<>> /\ ignored = <<>> /\ lost = FALSE /\ crashed = FALSE

Lesser(a, b) == IF a <= b THEN a ELSE b
Beginning(events, n) == SubSeq(events, 1, Lesser(Len(events), n))

\* handle_event for each of the events before, for one that the core ignores
\* (CTRL_DATA_PHASE_DONE, EARLY_SUSPEND, SUSPEND) if aside, and for each of those
\* after.  A full queue refuses.
Push(before, aside, after) ==
    LET left == EventDepth - Len(evq) - Len(ignored) - Len(before)
        room == IF aside THEN left - 1 ELSE left
    IN  /\ evq' = evq \o (Beginning(before, left + Len(before)) \o Beginning(after, room))
        /\ ignored' = IF aside /\ left > 0 THEN Append(ignored, Len(evq) + Len(before)) ELSE ignored
        /\ lost' = (lost \/ Len(after) > room)

-----------------------------------------------------------------------------
(* poll(), without a bus reset: the IN interrupt, the OUT interrupts, one    *)
(* entry of the receive FIFO.  otghs2 serves all that is pending, otghs the  *)
(* first of them.  An entry popped now raises its interrupt for the next     *)
(* call.                                                                     *)

\* The data of an OUT transaction goes to the active buffer, which is queued
\* for the core and replaced.  An empty packet is ignored.
ReceiveData(units) ==
    IF units = <<>>
    THEN UNCHANGED <<mgrVars, packet, outArmed, crashed>>
    ELSE IF active[0] = NoBuf
    THEN crashed' = TRUE /\ UNCHANGED <<mgrVars, packet, outArmed>>
    ELSE /\ packet' = [packet EXCEPT ![active[0]] = units]
         /\ EnqueueBuffer(0, active[0])
         /\ AllocateBuffer(0)
         /\ SetBuffer(0, Allocated(0))
         /\ outArmed' = CanAllocate(0)
         /\ UNCHANGED crashed

PopRxq(entry) ==
    /\ rxq' = Tail(rxq)
    /\ lastSetup' = IF entry.kind = "setup" THEN entry.setup ELSE lastSetup
    /\ CASE entry.kind = "data" -> ReceiveData(entry.units)
         [] entry.kind = "setupDone" -> outArmed' = TRUE /\ UNCHANGED <<mgrVars, packet, crashed>>
         [] OTHER -> UNCHANGED <<mgrVars, packet, outArmed, crashed>>
    /\ flags' = CASE entry.kind = "setupDone" -> {"stup"}
                  [] entry.kind = "outDone"   -> {"outXfrc"}
                  [] OTHER -> {}

\* A plausible bug: the status bits are read again after they were served.
EventsTwice(f) == (IF "inXfrc"  \in f THEN <<"EP_TX", "EP_TX">> ELSE <<>>)
               \o (IF "stup"    \in f THEN <<"CTRL_SETUP_PHASE_DONE", "CTRL_SETUP_PHASE_DONE">> ELSE <<>>)
               \o (IF "outXfrc" \in f THEN <<"EP_RX", "EP_RX">> ELSE <<>>)
EventsOf(f) == (IF "inXfrc"  \in f THEN <<"EP_TX">> ELSE <<>>)
            \o (IF "stup"    \in f THEN <<"CTRL_SETUP_PHASE_DONE">> ELSE <<>>)
            \o (IF "outXfrc" \in f THEN <<"EP_RX">> ELSE <<>>)

\* The interrupts in now are served, OTEPSPR with them if aside, before STUP and
\* XFRC of OUT, and an entry is popped if pop.
Serve(now, aside, pop) ==
    /\ Push(EventsOf(now \cap {"inXfrc"}), aside, EventsOf(now \ {"inXfrc"}))
    /\ otepspr' = (otepspr /\ ~aside)
    /\ in' = IF "inXfrc" \in now THEN [in EXCEPT !.nak = TRUE] ELSE in
    /\ IF pop
       THEN PopRxq(Head(rxq))
       ELSE flags' = flags \ now /\ UNCHANGED <<mgrVars, packet, rxq, lastSetup, outArmed, crashed>>
    /\ UNCHANGED stall

\* otghs2: one if after the other.
ServeAll == Serve(flags, otepspr, rxq # <<>>)

\* otghs: else if, IN before OUT before the FIFO, and STUP before XFRC.
FirstOf(f) == IF "inXfrc" \in f THEN {"inXfrc"} ELSE IF "stup" \in f THEN {"stup"} ELSE f
ServeFirst == Serve(FirstOf(flags), FALSE, flags = {})

\* otghs does not enable the OTEPSPR interrupt, but serves it, alone, when another of
\* OUT endpoint 0 is pending.
StatusFirst == ~Otghs2 /\ otepspr /\ FirstOf(flags) \cap {"stup", "outXfrc"} # {}

Poll ==
    /\ ~crashed /\ ~StatusFirst
    /\ flags # {} \/ rxq # <<>> \/ (Otghs2 /\ otepspr)
    /\ \/ Otghs2 /\ ServeAll
       \/ ~Otghs2 /\ ServeFirst

PushIgnored == Push(<<>>, TRUE, <<>>)
              /\ UNCHANGED <<mgrVars, packet, rxq, lastSetup, outArmed, in, stall, flags, crashed>>

PollStatusFirst == ~crashed /\ StatusFirst /\ PushIgnored /\ otepspr' = FALSE

\* ESUSP, USBSUSP.
PollSuspend == ~crashed /\ PushIgnored /\ UNCHANGED otepspr

\* USBRST: every endpoint unconfigured, all FIFOs flushed.  An enabled OUT
\* endpoint is disabled; ep_unconfig leaves EPENA of IN endpoint 0 alone.
PollReset ==
    /\ ~crashed
    /\ rxq' = <<>> /\ flags' = {} /\ otepspr' = FALSE
    /\ outArmed' = FALSE
    /\ in' = [in EXCEPT !.fifo = <<>>]
    /\ Push(<<"RESET">>, FALSE, <<>>)
    /\ UNCHANGED <<mgrVars, packet, lastSetup, stall, crashed>>

PollEnumDone == Push(<<"ENUM_DONE">>, FALSE, <<>>)

-----------------------------------------------------------------------------
(* The driver's functions the core calls. *)

\* ep_write on endpoint 0 fails if the FIFO has no room.  It does not look at
\* EPENA and nothing ever flushes what an abandoned transfer left in the FIFO.
CanAlwaysWrite(units) == TRUE  \* a plausible bug: the room in the FIFO is not checked
CanWrite(units) == Len(in.fifo) + Len(units) <= TxFifoRoom
EpWrite(units) ==
    in' = IF CanWrite(units)
          THEN [ena |-> TRUE, nak |-> FALSE, size |-> Len(units), fifo |-> in.fifo \o units]
          ELSE in

\* ep_config of endpoint 0: NAK on IN, OUT armed.  The core passes size 8 after a
\* reset and the final one after enumeration; here both are EP0SIZE.
EpConfig == /\ in' = [in EXCEPT !.nak = TRUE, !.size = EP0SIZE]
            /\ outArmed' = TRUE

-----------------------------------------------------------------------------
(* The hardware's side of the host's transactions. *)

\* A SETUP is accepted while the FIFO has room for it, whatever the endpoint is
\* doing: it clears STALL and NAKs both halves.
AcceptSetup(s) ==
    /\ Len(rxq) + 2 <= RxqDepth
    /\ rxq' = rxq \o <<Entry("setup", s, <<>>), Entry("setupDone", s, <<>>)>>
    /\ outArmed' = FALSE /\ stall' = FALSE
    /\ in' = [in EXCEPT !.nak = TRUE]

CanAcceptOut == outArmed /\ ~stall /\ Len(rxq) + 2 <= RxqDepth
AcceptOut(s, units) ==
    /\ rxq' = rxq \o <<Entry("data", s, units), Entry("outDone", s, <<>>)>>
    /\ outArmed' = FALSE

\* An IN token takes the programmed number of units from the FIFO.
CanSendIn == in.ena /\ ~in.nak /\ ~stall
InPacket  == SubSeq(in.fifo, 1, in.size)
SendIn ==
    /\ in' = [in EXCEPT !.ena = FALSE, !.fifo = SubSeq(@, in.size + 1, Len(@))]
    /\ flags' = flags \cup {"inXfrc"}

\* The first IN token of the status stage, answered or not, raises OTEPSPR; whether
\* it does when there was no data stage is left open.
StatusToken == otepspr' \in {TRUE, otepspr}
=============================================================================
