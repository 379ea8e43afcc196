-------------------------------- MODULE Device --------------------------------
(***************************************************************************)
(* What the device does with the requests of the control pipe: USB_core's  *)
(* process_request (standard requests to the device, an interface or an    *)
(* endpoint, CDC class requests), the application's SET_CONFIGURATION      *)
(* callback, the endpoints' activation, halt and data toggle; and a host   *)
(* that configures the device and keeps its own view of all this.          *)
(*                                                                         *)
(* The control pipe below is represented by ControlTransfer, which         *)
(* ControlPipe implements: a request is started, executed and completed,   *)
(* or dropped by a bus reset.  The reset reaches the endpoints at once,    *)
(* from the interrupt, and the core's thread later, as an event: also in   *)
(* the middle of the SET_CONFIGURATION callback.                           *)
(*                                                                         *)
(* An endpoint is <<direction, number>>; a wValue is <<high, low byte>>.   *)
(***************************************************************************)
EXTENDS Descriptors

CONSTANTS
    Endpoints,    \* data endpoints
    ConfigValues, \* the bConfigurationValues the application knows, 0 included
    EpsOf,        \* EpsOf[c]: the endpoints of configuration c
    Misfits,      \* Misfits[c]: those of c config_ep_tx_fifo has no room for
    Requests,     \* setup packets the host may send
    NotSet,       \* the host has not set a configuration since the last reset
    MaxResets     \* bound: bus resets

ASSUME DeviceAssumption ==
    /\ Endpoints \subseteq {"in", "out"} \X Nat
    /\ 0 \in ConfigValues /\ EpsOf \in [ConfigValues -> SUBSET Endpoints] /\ EpsOf[0] = {}
    /\ Misfits \in [ConfigValues -> SUBSET Endpoints]
    /\ NotSet \notin Nat /\ ConfigValues \subseteq Nat
    /\ TxMax >= 2 \* room for a status
    /\ MaxResets \in Nat

\* Endpoint requests are about data endpoints.
ASSUME RequestsAssumption ==
    \A r \in Requests :
        /\ r.wValue[2] \in Nat /\ r.wLength \in Nat
        /\ r.type = "STANDARD" /\ r.recipient = "ENDPOINT" => r.wIndex \in Endpoints

VARIABLES
    phase, request, \* the host's control transfer
    evq,      \* event queue: "SETUP" and "RESET"
    thread,   \* "loop", "respond" (in process_request), "callback" (set_configuration)
    target,   \* bConfigurationValue the callback was called with
    todo,     \* endpoints it has still to deal with
    again,    \* is this its second call, with 0, after it has failed?
    torn,     \* history: that failed too, and no callback has succeeded since
    resp,     \* is the answer on its way to the host ACK (FAIL and NAK do the same)?
    tx,       \* m_tx_buffer: its units from curr_ptr on, how many of them are to be
              \* sent, and the room behind them
    configuration, address, \* m_configuration, m_address
    written,  \* history: IN endpoints written to since they were halted
    on, halt, pid,          \* per endpoint: USBAEP, STALL, the next data PID
    hconf, haddr, hhalt, hpid, \* the host's view of the same
    resets    \* counter for the bound

ctlVars  == <<phase, request>>
callVars == <<target, todo, again, torn>>
coreVars == <<evq, thread, callVars, resp, tx, configuration, address>>
epVars   == <<on, halt, pid, written>>
hostVars == <<hconf, haddr, hhalt, hpid, resets>>
vars     == <<table, phase, request, evq, thread, target, todo, again,
              torn, resp, tx, configuration, address, on, halt, pid, written, hconf, haddr, hhalt,
              hpid, resets>>

\* The requests the control pipe completes are those that were answered with ACK.
Transfer == INSTANCE ControlTransfer WITH Setups <- Requests, Served <- {}

\* m_tx_buffer.reset(), and insert() into the buffer that was reset.
Holds(data) ==
    LET n == Shorter(Len(data), TxMax)
    IN  [rest |-> SubSeq(data, 1, n), rem |-> n, room |-> TxMax - n]
Empty == [rest |-> <<>>, rem |-> 0, room |-> TxMax]

\* insert() of one unit behind what the buffer holds.
Inserted(u) ==
    IF tx.room = 0 THEN tx
    ELSE [rest |-> Append(tx.rest, u), rem |-> tx.rem + 1, room |-> tx.room - 1]

\* The buffer after the first n of its units were sent.
Sent(b, n) == [b EXCEPT !.rest = SubSeq(@, n + 1, Len(@)), !.rem = @ - n]

Init ==
    /\ DescInit /\ Transfer!Init
    /\ evq = <<>> /\ thread = "loop"
    /\ target = 0 /\ todo = {} /\ again = FALSE /\ torn = FALSE
    /\ resp = FALSE /\ tx = Empty
    /\ configuration = 0 /\ address = 0
    /\ on = {} /\ halt = {} /\ written = {} /\ pid = [e \in Endpoints |-> 0]
    /\ hconf = NotSet /\ haddr = 0 /\ hhalt = {} /\ hpid = pid
    /\ resets = 0

-----------------------------------------------------------------------------
(* The driver: operations on a data endpoint. *)

\* A plausible bug: the halt survives.
ConfigKeepsHalt(e) ==
    on' = on \cup {e} /\ pid' = [pid EXCEPT ![e] = 0] /\ UNCHANGED <<halt, written>>

\* DIEPCTL or DOEPCTL is written as a whole: USBAEP, DATA0, no STALL.
EpConfig(e) ==
    /\ on' = on \cup {e}
    /\ halt' = halt \ {e}
    /\ pid' = [pid EXCEPT ![e] = 0]
    /\ UNCHANGED written

\* Both directions of the number are unconfigured.
EpUnconfig(e) == on' = {f \in on : f[2] # e[2]} /\ UNCHANGED <<halt, pid, written>>

\* A plausible bug: the toggle stays.
StallKeepsToggle(e) == halt' = halt \cup {e} /\ written' = written \ {e} /\ UNCHANGED <<on, pid>>
EpStall(e) ==
    /\ halt' = halt \cup {e}
    /\ pid' = [pid EXCEPT ![e] = 0]
    /\ written' = written \ {e}
    /\ UNCHANGED on

\* Whether it resets the toggle depends on an ep_cfg that nothing has filled in.
EpUnstall(e) ==
    /\ halt' = halt \ {e}
    /\ pid' \in {pid, [pid EXCEPT ![e] = 0]}
    /\ UNCHANGED <<on, written>>

\* DIEPCTL is written with EPENA and CNAK, and without STALL.
EpWrite(e) ==
    /\ halt' = halt \ {e}
    /\ written' = IF e \in halt THEN written \cup {e} ELSE written
    /\ UNCHANGED <<on, pid>>

-----------------------------------------------------------------------------
(* process_request. *)

\* m_setup_packet is the request of the host: it starts no other before the core's
\* thread is back in its loop.
Asked(recipient, name) ==
    request.type = "STANDARD" /\ request.recipient = recipient /\ request.bRequest = name

\* process_request returns with m_tx_buffer b.  After an ACK as much of it is sent as the
\* host asked for, or the empty status packet.  The answer is for the host's transfer
\* unless a reset has dropped that: then any part of it is sent, to nobody.
Answer(ack, b) ==
    IF ~ack THEN b
    ELSE IF request.dir = "in" THEN [b EXCEPT !.rem = Shorter(@, request.wLength)]
    ELSE Empty
Returns(ack, b) ==
    /\ thread' = "loop"
    /\ IF phase = "requested"
       THEN Transfer!Execute /\ resp' = ack /\ tx' = Answer(ack, b)
       ELSE /\ UNCHANGED <<ctlVars, resp>>
            /\ \E n \in 0 .. Answer(ack, b).rem :
                  tx' = Sent(Answer(ack, b), IF ack THEN n ELSE 0)

ValidAddress == request.wValue[1] = 0 /\ request.wValue[2] <= 127 /\ request.wIndex = 0 /\ request.wLength = 0

\* A plausible bug: the address is set before it is checked.
SetAnyAddress ==
    /\ Asked("DEVICE", "SET_ADDRESS")
    /\ Returns(ValidAddress, tx)
    /\ address' = request.wValue[2]
    /\ UNCHANGED <<table, evq, callVars, configuration, epVars>>
SetAddress ==
    /\ Asked("DEVICE", "SET_ADDRESS")
    /\ Returns(ValidAddress, tx)
    /\ address' = IF ValidAddress THEN request.wValue[2] ELSE address
    /\ UNCHANGED <<table, evq, callVars, configuration, epVars>>

Sought == Key(request.wValue[1], request.wValue[2], request.wIndex)

\* A configuration is refused after the buffer was reset, the others before.
GetDescriptor ==
    /\ Asked("DEVICE", "GET_DESCRIPTOR")
    /\ \/ /\ GetsDescriptor(Sought)
          /\ Returns(TRUE, Holds(Descriptor(Sought, request.wLength)))
       \/ /\ ~GetsDescriptor(Sought)
          /\ Returns(FALSE, IF Found(Sought) # NoDesc THEN Empty ELSE tx)
    /\ UNCHANGED <<table, evq, callVars, configuration, address, epVars>>

\* A number in a reply, written like the units of a descriptor.
Number(n) == <<NoDesc, n>>
Status(n) == <<Number(n), Number(0)>>

ValidGetConfiguration == request.wValue = <<0, 0>> /\ request.wIndex = 0 /\ request.wLength = 1
ValidFeature          == request.wValue = <<0, 0>>  \* ENDPOINT_HALT

\* The requests that read.  GET_CONFIGURATION does not reset the buffer.
Read ==
    /\ \/ /\ Asked("DEVICE", "GET_STATUS") \/ Asked("INTERFACE", "GET_STATUS")
          /\ Returns(TRUE, Holds(Status(0)))
       \/ /\ Asked("DEVICE", "GET_CONFIGURATION") /\ ValidGetConfiguration
          /\ Returns(TRUE, Inserted(Number(configuration)))
       \/ /\ Asked("ENDPOINT", "GET_STATUS") /\ ValidFeature
          /\ Returns(TRUE, Holds(Status(IF request.wIndex \in halt THEN 1 ELSE 0)))
    /\ UNCHANGED <<table, evq, callVars, configuration, address, epVars>>

Feature ==
    /\ \/ Asked("ENDPOINT", "SET_FEATURE") /\ ValidFeature /\ EpStall(request.wIndex)
       \/ Asked("ENDPOINT", "CLEAR_FEATURE") /\ ValidFeature /\ EpUnstall(request.wIndex)
    /\ Returns(TRUE, tx)
    /\ UNCHANGED <<table, evq, callVars, configuration, address>>

\* CDC_class: line coding and control line state are read and acknowledged, the line
\* coding in the answer is a constant; nothing is kept.
ClassAnswers == {"SET_LINE_CODING", "GET_LINE_CODING", "SET_CONTROL_LINE_STATE"}
LineCoding   == <<Number(9600), Number(0), Number(0), Number(8)>>
Class ==
    /\ request.type = "CLASS"
    /\ Returns(request.bRequest \in ClassAnswers,
               IF request.bRequest = "GET_LINE_CODING" THEN Holds(LineCoding) ELSE Empty)
    /\ UNCHANGED <<table, evq, callVars, configuration, address, epVars>>

ValidConfiguration == request.wValue[1] = 0 /\ request.wIndex = 0 /\ request.wLength = 0

\* FAIL for the rest.
Understood ==
    \/ request.type = "CLASS"
    \/ \E name \in {"GET_STATUS", "SET_ADDRESS", "GET_DESCRIPTOR"} : Asked("DEVICE", name)
    \/ Asked("DEVICE", "GET_CONFIGURATION") /\ ValidGetConfiguration
    \/ Asked("DEVICE", "SET_CONFIGURATION") /\ ValidConfiguration
    \/ Asked("INTERFACE", "GET_STATUS")
    \/ \E name \in {"GET_STATUS", "SET_FEATURE", "CLEAR_FEATURE"} :
          Asked("ENDPOINT", name) /\ ValidFeature
Refuse ==
    /\ ~Understood
    /\ Returns(FALSE, tx)
    /\ UNCHANGED <<table, evq, callVars, configuration, address, epVars>>

-----------------------------------------------------------------------------
(* set_configuration and the application's callback. *)

Call(v) ==
    /\ thread' = "callback"
    /\ target' = v
    /\ todo' = Endpoints
    /\ UNCHANGED torn

\* When the callback fails it is called again with 0.  A plausible bug: it is not.
NoFallBack == todo' = {} /\ target' = 0 /\ again' = TRUE /\ UNCHANGED <<thread, torn>>
FallBack   == Call(0) /\ again' = TRUE

\* A value the application does not know it refuses at once.
SetConfiguration ==
    /\ Asked("DEVICE", "SET_CONFIGURATION") /\ ValidConfiguration
    /\ \/ request.wValue[2] \in ConfigValues /\ Call(request.wValue[2]) /\ again' = FALSE
       \/ request.wValue[2] \notin ConfigValues /\ FallBack
    /\ UNCHANGED <<table, ctlVars, evq, resp, tx, configuration, address, epVars>>

\* It unconfigures the endpoints that are not in the configuration, then configures
\* those that are; when ep_config fails so does it.
ConfigureEndpoint(e) ==
    /\ thread = "callback" /\ e \in todo
    /\ \/ /\ e \notin EpsOf[target]
          /\ EpUnconfig(e)
          /\ todo' = todo \ {e}
          /\ UNCHANGED <<thread, target, again, torn>>
       \/ /\ todo \subseteq EpsOf[target] /\ e \notin Misfits[target]
          /\ EpConfig(e)
          /\ todo' = todo \ {e}
          /\ UNCHANGED <<thread, target, again, torn>>
       \/ /\ todo \subseteq EpsOf[target] /\ e \in Misfits[target]
          /\ FallBack
          /\ UNCHANGED epVars
    /\ UNCHANGED <<table, ctlVars, evq, resp, tx, configuration, address, hostVars>>

\* Plausible bugs: m_configuration is not reset after a failure; ret stays false.
KeepsOldValue == IF again THEN configuration ELSE target
NeverAccepted == FALSE

\* m_configuration is what the callback accepted; the request fails when it was called
\* a second time.
NewConfiguration == target
Accepted         == ~again

CallbackReturns ==
    /\ thread = "callback" /\ todo = {}
    /\ configuration' = NewConfiguration
    /\ Returns(Accepted, tx)
    /\ target' = 0 /\ again' = FALSE /\ torn' = FALSE
    /\ UNCHANGED <<table, evq, todo, address, epVars, hostVars>>

\* The callback refuses 0 as well, at once: m_configuration is kept.
CallbackFailsAgain ==
    /\ thread = "callback" /\ again /\ todo = Endpoints
    /\ Returns(FALSE, tx)
    /\ target' = 0 /\ again' = FALSE /\ torn' = TRUE /\ todo' = {}
    /\ UNCHANGED <<table, evq, configuration, address, epVars, hostVars>>

ProcessRequest ==
    /\ thread = "respond"
    /\ SetAddress \/ GetDescriptor \/ Read \/ Feature \/ Class \/ SetConfiguration \/ Refuse
    /\ UNCHANGED hostVars

-----------------------------------------------------------------------------
(* The core's event loop, and the application beside it. *)

HandleEvent ==
    /\ thread = "loop" /\ evq # <<>>
    /\ evq' = Tail(evq)
    /\ \/ /\ Head(evq) = "RESET"
          /\ address' = 0
          /\ UNCHANGED thread
       \/ /\ Head(evq) = "SETUP"
          /\ thread' = "respond"
          /\ UNCHANGED address
    /\ UNCHANGED <<table, ctlVars, callVars, resp, tx, configuration, epVars, hostVars>>

SetDescriptors ==
    /\ thread = "loop"
    /\ Application
    /\ UNCHANGED <<ctlVars, coreVars, epVars, hostVars>>

\* enqueue_tx_buffer, and handle_iepintx for what is queued: at any time.
Write(e) ==
    /\ e[1] = "in"
    /\ EpWrite(e)
    /\ UNCHANGED <<table, ctlVars, coreVars, hostVars>>

-----------------------------------------------------------------------------
(* The host. *)

\* handle_reset_done: the interrupt unconfigures every endpoint and queues the event.
\* Some of the answer under way may have been sent.
BusReset ==
    /\ resets < MaxResets /\ resets' = resets + 1
    /\ on' = {}
    /\ evq' = Append(evq, "RESET")
    /\ hconf' = NotSet /\ haddr' = 0 /\ hhalt' = {}
    /\ IF phase = "idle" THEN UNCHANGED ctlVars ELSE Transfer!Drop
    /\ resp' = FALSE
    /\ \E n \in 0 .. tx.rem : tx' = Sent(tx, IF resp THEN n ELSE 0)
    /\ UNCHANGED <<table, thread, callVars, configuration, address,
                   halt, pid, written, hpid>>

\* The recovery time after a reset is enough for the core's thread.
Recovered == thread = "loop" /\ evq = <<>>

Current == IF hconf = NotSet THEN {} ELSE EpsOf[hconf]
IsFeature(r) == r.type = "STANDARD" /\ r.recipient = "ENDPOINT"

\* The host addresses endpoints of the current configuration, and clears the halt of
\* endpoints that are halted.
Sensible(r) ==
    /\ IsFeature(r) => r.wIndex \in Current
    /\ IsFeature(r) /\ r.bRequest = "CLEAR_FEATURE" => r.wIndex \in hhalt
HostSetup(r) ==
    /\ Recovered /\ haddr = address
    /\ Sensible(r)
    /\ Transfer!Start(r)
    /\ evq' = Append(evq, "SETUP")
    /\ UNCHANGED <<table, thread, callVars, resp, tx, configuration, address, epVars, hostVars>>

\* The transfer ends, and the host takes the effect of its request for granted; or it
\* fails, and the host takes the device for not configured if it was to be configured.
HostCompletes ==
    /\ resp /\ Transfer!Complete /\ resp' = FALSE
    /\ tx' = Sent(tx, tx.rem)
    /\ haddr' = IF Asked("DEVICE", "SET_ADDRESS") THEN request.wValue[2] ELSE haddr
    /\ hconf' = IF Asked("DEVICE", "SET_CONFIGURATION") THEN request.wValue[2] ELSE hconf
    /\ hhalt' = IF Asked("DEVICE", "SET_CONFIGURATION") THEN {}
                ELSE IF Asked("ENDPOINT", "SET_FEATURE") THEN hhalt \cup {request.wIndex}
                ELSE IF Asked("ENDPOINT", "CLEAR_FEATURE") THEN hhalt \ {request.wIndex}
                ELSE hhalt
    /\ hpid' = IF Asked("DEVICE", "SET_CONFIGURATION") THEN [e \in Endpoints |-> 0]
               ELSE IF Asked("ENDPOINT", "CLEAR_FEATURE") THEN [hpid EXCEPT ![request.wIndex] = 0]
               ELSE hpid
    /\ UNCHANGED <<table, evq, thread, callVars, configuration, address, epVars, resets>>

HostGivesUp ==
    /\ phase = "executed" /\ ~resp /\ Transfer!Drop
    /\ hconf' = IF Asked("DEVICE", "SET_CONFIGURATION") /\ ValidConfiguration THEN 0 ELSE hconf
    /\ hhalt' = IF Asked("DEVICE", "SET_CONFIGURATION") /\ ValidConfiguration THEN {} ELSE hhalt
    /\ UNCHANGED <<table, coreVars, epVars, haddr, hpid, resets>>

\* Requests during which the host does not use endpoint e.
Suspends(e) ==
    /\ phase # "idle"
    /\ \/ Asked("DEVICE", "SET_CONFIGURATION")
       \/ Asked("ENDPOINT", "SET_FEATURE") /\ request.wIndex = e
       \/ Asked("ENDPOINT", "CLEAR_FEATURE") /\ request.wIndex = e

\* A data packet on endpoint e.  A receiver that expects the other PID takes it for a
\* repetition, acknowledges and drops it: then only the sender's toggle changes.
HostPacket(e) ==
    /\ haddr = address
    /\ e \in Current \ hhalt /\ ~Suspends(e)
    /\ e \in on \ halt
    /\ LET new == pid[e] = hpid[e]
       IN  /\ pid'  = IF e[1] = "in"  \/ new THEN [pid EXCEPT ![e] = 1 - @] ELSE pid
           /\ hpid' = IF e[1] = "out" \/ new THEN [hpid EXCEPT ![e] = 1 - @] ELSE hpid
    /\ UNCHANGED <<table, ctlVars, coreVars, on, halt, written, hconf, haddr, hhalt, resets>>

Thread == HandleEvent \/ ProcessRequest \/ CallbackReturns \/ CallbackFailsAgain
          \/ \E e \in Endpoints : ConfigureEndpoint(e)

Next ==
    \/ Thread \/ SetDescriptors
    \/ BusReset \/ HostCompletes \/ HostGivesUp
    \/ \E r \in Requests : HostSetup(r)
    \/ \E e \in Endpoints : Write(e) \/ HostPacket(e)

\* The core's thread is scheduled, and the host ends a transfer it has begun.
Fairness == WF_vars(Thread) /\ WF_vars(HostCompletes \/ HostGivesUp)

Spec     == Init /\ [][Next]_vars
FairSpec == Spec /\ Fairness

-----------------------------------------------------------------------------
(* Properties. *)

StateTypeOK ==
    /\ phase \in {"idle", "requested", "executed"}
    /\ request \in Requests
    /\ evq \in Seq({"SETUP", "RESET"})
    /\ thread \in {"loop", "respond", "callback"}
    /\ target \in ConfigValues /\ todo \subseteq Endpoints
    /\ again \in BOOLEAN /\ torn \in BOOLEAN /\ resp \in BOOLEAN
    /\ configuration \in ConfigValues /\ address \in 0 .. 127
    /\ on \subseteq Endpoints /\ halt \subseteq Endpoints /\ pid \in [Endpoints -> 0 .. 1]
    /\ written \subseteq Endpoints
    /\ hconf \in ConfigValues \cup {NotSet} /\ haddr \in 0 .. 127
    /\ hhalt \subseteq Endpoints /\ hpid \in [Endpoints -> 0 .. 1]
    /\ resets \in Nat

\* Nothing beyond what the buffer holds is sent, and nothing is written behind its end.
Contents  == (AllDescs \cup {NoDesc}) \X Nat
BufferTypeOK ==
    /\ tx \in [rest : Seq(Contents), rem : Nat, room : Nat]
    /\ tx.rem <= Len(tx.rest) /\ Len(tx.rest) + tx.room <= TxMax

DeviceTypeOK == DescTypeOK /\ BufferTypeOK /\ StateTypeOK

\* No request is running.
Quiet == phase = "idle" /\ Recovered

\* The host that has configured the device (or failed to) since the last reset is
\* right about the configuration, and exactly its endpoints are active: an ep_config
\* that fails half-way, or a reset during an earlier callback, leaves nothing behind.
ConfigurationAgreed ==
    Quiet /\ hconf # NotSet /\ ~torn => configuration = hconf /\ on = EpsOf[hconf]

\* At no time when the core is not inside the callback is an endpoint active that is
\* not one of the current configuration, also when a reset came in its middle.
ActiveIsConfigured == thread = "loop" /\ ~torn => on \subseteq EpsOf[configuration]

\* Host and device agree on the next data PID of every endpoint the host uses, through
\* halts, clears and reconfigurations: no new packet is taken for a repetition.
ToggleAgreed ==
    \A e \in Current \ hhalt : Quiet => pid[e] = hpid[e]

\* An endpoint the host uses is halted exactly if the host has halted it and has
\* neither cleared it nor set the configuration since, and, for an IN endpoint, the
\* application has not written to it since: ep_write ends the halt.
HaltAgreed == Quiet => halt \cap Current = hhalt \ written

\* The units the host gets, the buffer being sent.
Reply == SubSeq(tx.rest, 1, tx.rem)

\* What the device answers to a request it acknowledges is true from the host's point
\* of view: the halt of an endpoint; the descriptor in the table, whole or cut to
\* wLength, if it fits into m_tx_buffer; and its configuration, if nothing is left in
\* m_tx_buffer of a reply that was cut or abandoned and there is room in it.
TrueAnswer ==
    /\ Asked("DEVICE", "GET_CONFIGURATION") /\ hconf # NotSet /\ ~torn
       /\ tx.rest = <<>> /\ tx.room > 0 => Reply' = <<Number(hconf)>>
    /\ Asked("ENDPOINT", "GET_STATUS") =>
          Reply' = SubSeq(Status(IF request.wIndex \in hhalt \ written THEN 1 ELSE 0),
                          1, Shorter(2, request.wLength))
    /\ Asked("DEVICE", "GET_DESCRIPTOR") /\ request.wValue[1] = "CONFIGURATION" =>
          \E d \in {Found(Sought)} :
              Total(d) <= TxMax => Reply' = Units(d, Shorter(request.wLength, Total(d)))
AnswersAreTrue ==
    [][request.dir = "in" /\ phase = "requested" /\ phase' = "executed" /\ resp'
           => TrueAnswer]_vars

\* A SET_CONFIGURATION whose endpoints fit is eventually in effect, unless a reset
\* interferes.
Fits == /\ Asked("DEVICE", "SET_CONFIGURATION") /\ ValidConfiguration
        /\ request.wValue[2] \in ConfigValues
        /\ EpsOf[request.wValue[2]] \cap Misfits[request.wValue[2]] = {}
ConfigurationReached ==
    (phase = "requested" /\ Fits)
        ~> (phase = "idle" /\ (hconf = NotSet \/ (Fits /\ hconf = request.wValue[2] /\ on = EpsOf[hconf])))
=============================================================================
