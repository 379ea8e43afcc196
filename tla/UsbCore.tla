------------------------------- MODULE UsbCore -------------------------------
(***************************************************************************)
(* USB_core's thread: it pops one event after another and runs the control *)
(* transfer state machine (handle_ep0_setup, handle_ep0_rx, handle_ep0_tx),*)
(* the reset handlers and the requests.                                    *)
(*                                                                         *)
(* One event is handled in one step, or in two when it reaches             *)
(* process_request: the interrupt can run in between, after the setup      *)
(* packet or the data has been read and before the answer is written.      *)
(*                                                                         *)
(* What a request does is in the setup packet: reply is the length of the  *)
(* data process_request puts into m_tx_buffer, resp its USB_RESP (INVALID  *)
(* if bmRequestType is no valid one and it is never called), fresh is      *)
(* FALSE for the one request (GET_CONFIGURATION) that does not reset the   *)
(* buffer first, addr the address SET_ADDRESS carries.                     *)
(***************************************************************************)
EXTENDS Ep0Driver

CONSTANTS
    TxMax,   \* capacity of m_tx_buffer, in units
    RxMax,   \* capacity of m_rx_buffer, in units
    NoAddr   \* addr of a request other than SET_ADDRESS

VARIABLES
    control,    \* m_control_state
    setup,      \* m_setup_packet
    tx,         \* m_tx_buffer: contents, curr_ptr and rem_len
    rx,         \* m_rx_buffer: contents and rem_len
    address,    \* m_address and DCFG.DAD
    registered, \* the endpoint 0 callbacks are set
    thread      \* "loop": waiting for an event, "respond": before process_request

coreVars == <<control, setup, tx, rx, address, registered, thread>>

ControlStates == {"IDLE", "RXDATA", "TXDATA", "TXZLP", "TXCOMP", "STATUS_IN", "STATUS_OUT"}

\* The units process_request produces for s, and those the host sends with it.
Reply(s)   == [i \in 1 .. s.reply |-> <<s.id, i>>]
Payload(s) == [i \in 1 .. s.len |-> <<s.id, i>>]

EmptyTx == [buf |-> <<>>, pos |-> 0, rem |-> 0]

\* m_control_state is not initialised.
CoreInit ==
    /\ control \in ControlStates
    /\ setup = NoSetup
    /\ tx = EmptyTx /\ rx = [buf |-> <<>>, rem |-> 0]
    /\ address = 0 /\ registered = FALSE
    /\ thread = "loop"

StallControlEp == stall' = TRUE /\ control' = "IDLE"

-----------------------------------------------------------------------------
(* handle_ep0_tx *)

\* Plausible bugs: the rest of the data is dropped, the empty packet after full
\* ones is not sent, the status packet is not awaited.
DropsRest(n, left)   == IF n # EP0SIZE THEN "TXCOMP" ELSE "TXZLP"
SendsNoZlp(n, left)  == IF left > 0 THEN "TXDATA" ELSE "TXCOMP"
SkipsStatus(n, left) == IF left > 0 THEN "TXDATA" ELSE "IDLE"

\* The state after a packet of n units that leaves left more to send.
AfterPacket(n, left) ==
    IF left > 0 THEN "TXDATA" ELSE IF n # EP0SIZE THEN "TXCOMP" ELSE "TXZLP"

\* TXDATA: write the next packet of t; after the last, a full one is followed
\* by an empty packet.  A refused write changes nothing.
SendData(t) ==
    LET n    == Lesser(t.rem, EP0SIZE)
        left == IF CanWrite(SubSeq(t.buf, t.pos + 1, t.pos + n)) THEN t.rem - n ELSE t.rem
    IN  /\ EpWrite(SubSeq(t.buf, t.pos + 1, t.pos + n))
        /\ tx' = [t EXCEPT !.pos = @ + (t.rem - left), !.rem = left]
        /\ control' = AfterPacket(n, left)

HandleEp0Tx ==
    /\ \/ control = "TXDATA" /\ SendData(tx)
       \/ control = "TXZLP" /\ EpWrite(<<>>) /\ control' = "TXCOMP" /\ UNCHANGED tx
       \/ control = "TXCOMP" /\ control' = "STATUS_OUT" /\ UNCHANGED <<in, tx>>
       \/ control = "STATUS_IN" /\ control' = "IDLE" /\ UNCHANGED <<in, tx>>
       \/ control \in {"IDLE", "RXDATA", "STATUS_OUT"} /\ UNCHANGED <<control, in, tx>>
    /\ UNCHANGED <<mgrVars, stall, setup, rx, thread>>

-----------------------------------------------------------------------------
(* handle_ep0_rx, up to process_request *)

\* IDLE: decode the last setup packet; wait for the data of one that has any.  One
\* that cannot be decoded gets no answer.
Decode ==
    /\ setup' = lastSetup
    /\ IF lastSetup.resp = "INVALID"
       THEN control' = "IDLE" /\ UNCHANGED <<stall, rx, thread>>
       ELSE IF lastSetup.dir = "out" /\ lastSetup.len > 0
       THEN /\ IF lastSetup.len > RxMax
               THEN StallControlEp /\ UNCHANGED rx
               ELSE /\ control' = "RXDATA"
                    /\ rx' = [buf |-> <<>>, rem |-> lastSetup.len]
                    /\ UNCHANGED stall
            /\ UNCHANGED thread
       ELSE /\ thread' = "respond"
            /\ control' = "IDLE"
            /\ UNCHANGED <<stall, rx>>
    /\ UNCHANGED <<mgrVars, in, tx>>

\* RXDATA: take one packet off the queue and give its buffer back to the pool.
\* Without a packet, or with the last one, process the request.
TakeData ==
    LET units == packet[Dequeued(0)]
    IN  /\ IF ~CanDequeue(0)
           THEN thread' = "respond" /\ UNCHANGED <<control, stall, rx>>
           ELSE IF rx.rem < Len(units)
           THEN StallControlEp /\ UNCHANGED <<rx, thread>>
           ELSE /\ rx' = [buf |-> rx.buf \o units, rem |-> rx.rem - Len(units)]
                /\ thread' = IF rx.rem > Len(units) THEN "loop" ELSE "respond"
                /\ UNCHANGED <<control, stall>>
        /\ DequeueBuffer(0)
        /\ ReleaseBuffer(0, Dequeued(0))
        /\ UNCHANGED <<active, in, setup, tx>>

StatusOut ==
    /\ rx' = [buf |-> <<>>, rem |-> 0]
    /\ control' = "IDLE"
    /\ UNCHANGED <<mgrVars, in, stall, setup, tx, thread>>

\* Any other state: stall, and process the request all the same.
Unexpected ==
    /\ StallControlEp
    /\ thread' = "respond"
    /\ UNCHANGED <<mgrVars, in, setup, tx, rx>>

HandleEp0Rx ==
    \/ control = "IDLE" /\ Decode
    \/ control = "RXDATA" /\ TakeData
    \/ control = "STATUS_OUT" /\ StatusOut
    \/ control \in {"TXDATA", "TXZLP", "TXCOMP", "STATUS_IN"} /\ Unexpected

-----------------------------------------------------------------------------
(* The event loop. *)

ResetKeepsAddress == UNCHANGED address /\ EpConfig  \* a plausible bug
HandleReset == address' = 0 /\ EpConfig

\* An event the core does nothing with.
HandleIgnored ==
    /\ thread = "loop" /\ ~crashed
    /\ ignored # <<>> /\ Head(ignored) = 0
    /\ ignored' = Tail(ignored)
    /\ UNCHANGED <<mgrVars, packet, rxq, lastSetup, outArmed, in, stall, flags, otepspr, evq, lost,
                   crashed, coreVars>>

\* Events of endpoint 0 go to the callbacks handle_enum_done has set.
HandleEvent ==
    /\ thread = "loop" /\ ~crashed
    /\ evq # <<>> /\ \A i \in DOMAIN ignored : ignored[i] > 0
    /\ evq' = Tail(evq)
    /\ ignored' = [i \in DOMAIN ignored |-> ignored[i] - 1]
    /\ \/ /\ Head(evq) = "RESET"
          /\ HandleReset
          /\ UNCHANGED <<mgrVars, stall, control, setup, tx, rx, registered, thread>>
       \/ /\ Head(evq) = "ENUM_DONE"
          /\ EpConfig
          /\ registered' = TRUE
          /\ UNCHANGED <<mgrVars, stall, control, setup, tx, rx, address, thread>>
       \/ /\ Head(evq) \notin {"RESET", "ENUM_DONE"}
          /\ IF registered
             THEN \/ Head(evq) = "CTRL_SETUP_PHASE_DONE" /\ Decode
                  \/ Head(evq) = "EP_RX" /\ HandleEp0Rx
                  \/ Head(evq) = "EP_TX" /\ HandleEp0Tx
             ELSE UNCHANGED <<mgrVars, in, stall, control, setup, tx, rx, thread>>
          /\ UNCHANGED <<outArmed, address, registered>>
    /\ UNCHANGED <<packet, rxq, lastSetup, flags, otepspr, lost, crashed>>

\* Plausible bugs: m_tx_buffer is not reset; the address is not set.
FilledOnTop(s) ==
    LET n == Lesser(s.reply, TxMax - Len(tx.buf))
    IN  [tx EXCEPT !.buf = @ \o SubSeq(Reply(s), 1, n), !.rem = Lesser(@ + n, s.len)]
KeepsAddress(s) == address

\* m_tx_buffer after process_request, cut to what the host asked for.
Filled(s) ==
    LET base == IF s.fresh THEN EmptyTx ELSE tx
        n    == Lesser(s.reply, TxMax - Len(base.buf))
    IN  [base EXCEPT !.buf = @ \o SubSeq(Reply(s), 1, n),
                     !.rem = Lesser(@ + n, s.len)]

\* SET_ADDRESS takes effect at once, before the status stage.
NewAddress(s) == IF s.addr = NoAddr THEN address ELSE s.addr

\* process_request and its answer: the first data packet, the status packet, or
\* nothing at all.
Respond ==
    /\ thread = "respond" /\ ~crashed
    /\ thread' = "loop"
    /\ address' = NewAddress(setup)
    /\ \/ setup.resp = "ACK" /\ setup.dir = "in" /\ SendData(Filled(setup))
       \/ /\ setup.resp = "ACK" /\ setup.dir = "out"
          /\ tx' = EmptyTx
          /\ EpWrite(<<>>)
          /\ control' = "STATUS_IN"
       \/ /\ setup.resp # "ACK"
          /\ control' = "STATUS_IN"
          /\ UNCHANGED <<in, tx>>
    /\ UNCHANGED <<mgrVars, packet, rxq, lastSetup, outArmed, stall, flags, otepspr, evq, ignored,
                   lost, crashed, setup, rx, registered>>
=============================================================================
