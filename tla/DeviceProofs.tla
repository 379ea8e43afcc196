---------------------------- MODULE DeviceProofs ----------------------------
(***************************************************************************)
(* Host and device agree on the configuration, on the endpoints it         *)
(* activates, on halted endpoints and on data toggles, for any endpoints,  *)
(* configurations, requests and bus resets; and what the device answers is *)
(* true for the host.                                                      *)
(***************************************************************************)
EXTENDS Device, WellFoundedInduction, TLAPS

ToConfigure == Asked("DEVICE", "SET_CONFIGURATION") /\ ValidConfiguration
ToHalt      == Asked("ENDPOINT", "SET_FEATURE") /\ ValidFeature
ToClear     == Asked("ENDPOINT", "CLEAR_FEATURE") /\ ValidFeature

\* A transfer's request is either still queued or with the thread; once it is answered,
\* or when there is none and no reset either, the thread is idle.
Scheduled ==
    /\ phase = "requested" => \/ thread = "loop" /\ evq = <<"SETUP">>
                              \/ thread # "loop" /\ evq = <<>>
    /\ phase = "executed" \/ (phase = "idle" /\ hconf # NotSet) => thread = "loop" /\ evq = <<>>

\* Inside the callback: what it has dealt with is off, or configured anew, unless a
\* reset has come in between; first all unconfigurations, then all configurations.
InCallback ==
    thread = "callback" =>
        /\ ToConfigure /\ target = IF again THEN 0 ELSE request.wValue[2]
        /\ on \subseteq EpsOf[target] \cup todo
        /\ EpsOf[target] \subseteq todo \/ todo \subseteq EpsOf[target]
        /\ phase = "requested" =>
              \A e \in EpsOf[target] \ todo : e \in on /\ e \notin halt /\ pid[e] = 0

OutsideCallback == thread # "callback" /\ ~torn => on \subseteq EpsOf[configuration]

\* What an answer on its way to the host means.
Answered ==
    phase = "executed" =>
        /\ ToConfigure /\ resp => ~torn
        /\ ToConfigure /\ ~torn =>
              /\ configuration = IF resp THEN request.wValue[2] ELSE 0
              /\ on = EpsOf[configuration]
              /\ \A e \in on : e \notin halt /\ pid[e] = 0
        /\ Asked("DEVICE", "SET_CONFIGURATION") /\ resp => ValidConfiguration
        /\ Asked("DEVICE", "SET_ADDRESS") /\ resp => ValidAddress
        /\ Asked("ENDPOINT", "SET_FEATURE") \/ Asked("ENDPOINT", "CLEAR_FEATURE") =>
              (resp <=> ValidFeature)

\* The endpoint requests of a sensible host, which has none for a device that has failed
\* to give its configuration up.
InFlight ==
    /\ hhalt \subseteq Current
    /\ phase # "idle" /\ IsFeature(request) => request.wIndex \in Current
    /\ phase # "idle" /\ Asked("ENDPOINT", "CLEAR_FEATURE") => request.wIndex \in hhalt
    /\ torn => Current = {} \/ (phase = "executed" /\ ToConfigure)

\* The host has a configuration, and it is not being changed.
Settled ==
    /\ hconf # NotSet /\ thread # "callback" /\ ~torn
    /\ ~(phase = "executed" /\ ToConfigure)

\* hhalt as it will be when the host has the answer.
HostHalt ==
    CASE phase = "executed" /\ ToHalt  -> hhalt \cup {request.wIndex}
      [] phase = "executed" /\ ToClear -> hhalt \ {request.wIndex}
      [] OTHER -> hhalt

Agreed ==
    Settled =>
        /\ configuration = hconf /\ on = EpsOf[hconf]
        /\ halt \cap Current = HostHalt \ written
        /\ \A e \in Current : pid[e] = IF e \in hhalt \cup HostHalt THEN 0 ELSE hpid[e]

DeviceInv ==
    /\ StateTypeOK /\ Scheduled /\ InCallback /\ OutsideCallback
    /\ Answered /\ InFlight /\ Agreed
-----------------------------------------------------------------------------
USE DeviceAssumption DEF ctlVars, callVars, coreVars, epVars, hostVars

\* No request is about more than one thing.
LEMMA OneThing ==
    /\ ToConfigure => ~IsFeature(request) /\ ~ToHalt /\ ~ToClear
    /\ ToHalt => ~ToClear
BY DEF ToConfigure, ToHalt, ToClear, Asked, IsFeature

LEMMA InitInv ==
    ASSUME Init
    PROVE  DeviceInv
<1>1. StateTypeOK
  <2>2. /\ evq \in Seq({"SETUP", "RESET"}) /\ pid \in [Endpoints -> 0 .. 1]
        /\ hpid \in [Endpoints -> 0 .. 1]
    BY DEF Init
  <2>3. 0 \in 0 .. 127
    OBVIOUS
  <2> QED BY <2>2, <2>3, Zenon DEF Init, StateTypeOK, Transfer!Init
<1>2. Scheduled /\ InCallback /\ OutsideCallback /\ Answered /\ InFlight /\ Agreed
  BY DEF Init, Transfer!Init, Scheduled, InCallback, OutsideCallback, Answered, InFlight, Agreed,
     Settled, Current
<1> QED BY <1>1, <1>2 DEF DeviceInv

\* A request that is answered and does nothing to endpoints and configuration.
LEMMA AnswerOnly ==
    ASSUME DeviceInv, thread = "respond", NEW ack \in BOOLEAN, NEW b, Returns(ack, b),
           UNCHANGED <<evq, callVars, configuration, epVars, hostVars>>, StateTypeOK',
           ~ToConfigure, ~ToHalt, ~ToClear,
           Asked("DEVICE", "SET_CONFIGURATION") => ~ack,
           Asked("DEVICE", "SET_ADDRESS") /\ ack => ValidAddress,
           Asked("ENDPOINT", "SET_FEATURE") \/ Asked("ENDPOINT", "CLEAR_FEATURE") => ~ack
    PROVE  DeviceInv'
<1>1. request' = request
  BY DEF Returns, Transfer!Execute
<1>2. /\ \/ phase' = phase /\ phase # "requested"
         \/ phase' = "executed" /\ phase = "requested"
      /\ thread' = "loop"
  BY DEF Returns, Transfer!Execute
<1>3. Scheduled'
  BY <1>2 DEF DeviceInv, Scheduled, StateTypeOK
<1>4. InCallback' /\ OutsideCallback' /\ InFlight'
  BY <1>1, <1>2 DEF DeviceInv, InCallback, OutsideCallback, InFlight, StateTypeOK, IsFeature,
     Asked, Current
<1>5. Answered'
  <2>1. CASE phase = "requested"
    BY <1>1, <2>1 DEF Returns, Transfer!Execute, Answered, ToConfigure, ToHalt, ToClear, Asked,
       ValidConfiguration, ValidFeature, ValidAddress
  <2>2. CASE phase # "requested"
    BY <1>2, <2>2 DEF DeviceInv, Scheduled, Answered, StateTypeOK
  <2> QED BY <2>1, <2>2
<1>6. Agreed'
  <2>1. ~ToConfigure' /\ ~ToHalt' /\ ~ToClear' /\ Current' = Current
    BY <1>1 DEF ToConfigure, ToHalt, ToClear, Asked, ValidConfiguration, ValidFeature, Current
  <2>2. HostHalt' = HostHalt /\ (Settled' => Settled)
    BY <2>1 DEF HostHalt, Settled
  <2> QED BY <2>1, <2>2 DEF DeviceInv, Agreed
<1> QED BY <1>3, <1>4, <1>5, <1>6 DEF DeviceInv

LEMMA SetAddressInv ==
    ASSUME DeviceInv, thread = "respond", SetAddress, UNCHANGED hostVars
    PROVE  DeviceInv'
<1>1. ~ToConfigure /\ ~ToHalt /\ ~ToClear
  BY DEF SetAddress, ToConfigure, ToHalt, ToClear, Asked
<1>2. ValidAddress => request.wValue[2] \in 0 .. 127
  <2>1. request \in Requests
    BY DEF DeviceInv, StateTypeOK
  <2>2. request.wValue[2] \in Nat
    BY <2>1, RequestsAssumption, Zenon
  <2> QED BY <2>2 DEF ValidAddress
<1>0. ValidAddress \in BOOLEAN
  BY Zenon DEF ValidAddress
<1>3. StateTypeOK'
  <2>1. address' \in 0 .. 127
    BY <1>2 DEF SetAddress, DeviceInv, StateTypeOK
  <2> QED BY <1>0, <2>1 DEF SetAddress, Returns, Transfer!Execute, DeviceInv, StateTypeOK
<1> QED BY <1>0, <1>1, <1>3, AnswerOnly DEF SetAddress, Asked

LEMMA GetDescriptorInv ==
    ASSUME DeviceInv, thread = "respond", GetDescriptor, UNCHANGED hostVars
    PROVE  DeviceInv'
<1>1. ~ToConfigure /\ ~ToHalt /\ ~ToClear
  BY DEF GetDescriptor, ToConfigure, ToHalt, ToClear, Asked
<1>2. PICK ack \in BOOLEAN : \E b : Returns(ack, b)
  BY DEF GetDescriptor
<1>3. StateTypeOK'
  BY <1>2 DEF GetDescriptor, Returns, Transfer!Execute, DeviceInv, StateTypeOK
<1> QED BY <1>1, <1>2, <1>3, AnswerOnly DEF GetDescriptor, Asked

LEMMA ReadInv ==
    ASSUME DeviceInv, thread = "respond", Read, UNCHANGED hostVars
    PROVE  DeviceInv'
<1>1. ~ToConfigure /\ ~ToHalt /\ ~ToClear
  BY DEF Read, ToConfigure, ToHalt, ToClear, Asked
<1>2. PICK b : Returns(TRUE, b)
  BY DEF Read
<1>3. StateTypeOK'
  BY <1>2 DEF Read, Returns, Transfer!Execute, DeviceInv, StateTypeOK
<1> QED BY <1>1, <1>2, <1>3, AnswerOnly DEF Read, Asked

LEMMA ClassInv ==
    ASSUME DeviceInv, thread = "respond", Class, UNCHANGED hostVars
    PROVE  DeviceInv'
<1>1. ~ToConfigure /\ ~ToHalt /\ ~ToClear
  BY DEF Class, ToConfigure, ToHalt, ToClear, Asked
<1> DEFINE answers == request.bRequest \in ClassAnswers
<1>0. answers \in BOOLEAN /\ \E b : Returns(answers, b)
  <2>1. answers \in BOOLEAN
    OBVIOUS
  <2>2. \E b : Returns(answers, b)
    <3> DEFINE b == IF request.bRequest = "GET_LINE_CODING" THEN Holds(LineCoding) ELSE Empty
    <3>1. Returns(answers, b)
      BY Zenon DEF Class
    <3> QED BY <3>1, Zenon
  <2> QED BY <2>1, <2>2
<1> HIDE DEF answers
<1>2. PICK ack \in BOOLEAN : \E b : Returns(ack, b)
  BY <1>0, Zenon
<1>3. StateTypeOK'
  BY <1>2 DEF Class, Returns, Transfer!Execute, DeviceInv, StateTypeOK
<1> QED BY <1>1, <1>2, <1>3, AnswerOnly DEF Class, Asked

LEMMA RefuseInv ==
    ASSUME DeviceInv, thread = "respond", Refuse, UNCHANGED hostVars
    PROVE  DeviceInv'
<1>1. ~ToConfigure /\ ~ToHalt /\ ~ToClear
  BY DEF Refuse, Understood, ToConfigure, ToHalt, ToClear, Asked
<1>2. StateTypeOK'
  BY DEF Refuse, Returns, Transfer!Execute, DeviceInv, StateTypeOK
<1> QED BY <1>1, <1>2, AnswerOnly DEF Refuse

LEMMA SetConfigurationInv ==
    ASSUME DeviceInv, thread = "respond", SetConfiguration, UNCHANGED hostVars
    PROVE  DeviceInv'
<1>1. ToConfigure /\ ToConfigure'
  BY DEF SetConfiguration, ToConfigure, Asked, ValidConfiguration
<1>0. /\ thread' = "callback" /\ todo' = Endpoints /\ again' \in BOOLEAN
      /\ target' = IF again' THEN 0 ELSE request.wValue[2]
      /\ target' \in ConfigValues
      /\ UNCHANGED <<phase, request, evq, resp, configuration, address, torn, epVars, hostVars>>
  BY DEF SetConfiguration, FallBack, Call
<1>2. StateTypeOK'
  BY <1>0 DEF DeviceInv, StateTypeOK
<1>3. Scheduled' /\ OutsideCallback' /\ Agreed'
  BY <1>0 DEF DeviceInv, Scheduled, OutsideCallback, Agreed, Settled
<1>4. InCallback'
  BY <1>0, <1>1 DEF InCallback, DeviceInv, StateTypeOK
<1>5. Answered' /\ InFlight'
  BY <1>0, <1>1 DEF DeviceInv, Scheduled, Answered, InFlight, Current, IsFeature,
     ToConfigure, Asked
<1> QED BY <1>2, <1>3, <1>4, <1>5 DEF DeviceInv

LEMMA FeatureInv ==
    ASSUME DeviceInv, thread = "respond", Feature, UNCHANGED hostVars
    PROVE  DeviceInv'
<1> DEFINE e == request.wIndex
<1>1. e \in Endpoints /\ ValidFeature
  BY RequestsAssumption DEF Feature, Asked, DeviceInv, StateTypeOK
<1>2. request' = request /\ thread' = "loop" /\ evq' = evq /\ UNCHANGED <<callVars, on>>
  BY DEF Feature, Returns, Transfer!Execute, EpStall, EpUnstall
<1>3. /\ \/ phase' = phase /\ phase # "requested"
         \/ phase' = "executed" /\ phase = "requested" /\ resp' = TRUE
  BY DEF Feature, Returns, Transfer!Execute
<1>4. pid' \in [Endpoints -> 0 .. 1] /\ \A f \in Endpoints \ {e} : pid'[f] = pid[f]
  <2>1. pid' = pid \/ pid' = [pid EXCEPT ![e] = 0]
    BY DEF Feature, EpStall, EpUnstall
  <2>2. pid \in [Endpoints -> 0 .. 1]
    BY DEF DeviceInv, StateTypeOK
  <2> HIDE DEF e
  <2>3. [pid EXCEPT ![e] = 0] \in [Endpoints -> 0 .. 1]
    BY <2>2, 0 \in 0 .. 1
  <2>4. \A f \in Endpoints \ {e} : [pid EXCEPT ![e] = 0][f] = pid[f]
    BY <2>2
  <2> QED BY <2>1, <2>2, <2>3, <2>4
<1>5. StateTypeOK'
  BY <1>1, <1>4 DEF Feature, Returns, Transfer!Execute, EpStall, EpUnstall, DeviceInv, StateTypeOK
<1>6. Scheduled'
  BY <1>2, <1>3 DEF Feature, DeviceInv, Scheduled, StateTypeOK
<1>7. ~ToConfigure /\ ~ToConfigure'
  BY <1>2 DEF Feature, ToConfigure, Asked
<1>8. InCallback' /\ OutsideCallback' /\ InFlight'
  BY <1>2, <1>3, <1>7 DEF Feature, DeviceInv, InCallback, OutsideCallback, InFlight, StateTypeOK,
     IsFeature, Asked, Current
<1>9. Answered'
  BY <1>1, <1>2, <1>3, <1>7 DEF Feature, DeviceInv, Scheduled, Answered, ToConfigure, Asked,
     ValidFeature, StateTypeOK
<1>10. Agreed'
  <2>1. CASE phase # "requested"
    BY <1>2, <1>3, <2>1 DEF Feature, DeviceInv, Scheduled, Agreed, Settled, StateTypeOK
  <2>2. CASE phase = "requested" /\ Asked("ENDPOINT", "SET_FEATURE")
    <3>1. ToHalt' /\ ~ToClear' /\ EpStall(e)
      BY <1>1, <1>2, <2>2 DEF Feature, ToHalt, ToClear, Asked, ValidFeature
    <3>2. HostHalt = hhalt /\ HostHalt' = hhalt \cup {e} /\ Current' = Current
      BY <1>2, <1>3, <2>2, <3>1 DEF Feature, HostHalt, Current
    <3>3. e \in Current
      BY <2>2 DEF DeviceInv, InFlight, IsFeature, Asked
    <3> QED BY <1>1, <1>2, <1>3, <1>4, <1>7, <2>2, <3>1, <3>2, <3>3
       DEF Feature, EpStall, DeviceInv, Agreed, Settled, StateTypeOK
  <2>3. CASE phase = "requested" /\ Asked("ENDPOINT", "CLEAR_FEATURE")
    <3>1. ToClear' /\ ~ToHalt' /\ EpUnstall(e)
      BY <1>1, <1>2, <2>3 DEF Feature, ToClear, ToHalt, Asked, ValidFeature
    <3>2. HostHalt = hhalt /\ HostHalt' = hhalt \ {e} /\ Current' = Current
      BY <1>2, <1>3, <2>3, <3>1 DEF Feature, HostHalt, Current
    <3>3. e \in Current /\ e \in hhalt
      BY <2>3 DEF DeviceInv, InFlight, IsFeature, Asked
    <3> QED BY <1>1, <1>2, <1>3, <1>4, <1>7, <2>3, <3>1, <3>2, <3>3
       DEF Feature, EpUnstall, DeviceInv, Agreed, Settled, StateTypeOK
  <2> QED BY <2>1, <2>2, <2>3 DEF Feature
<1> QED BY <1>5, <1>6, <1>8, <1>9, <1>10 DEF DeviceInv

LEMMA ConfigureEndpointInv ==
    ASSUME DeviceInv, NEW e \in Endpoints, ConfigureEndpoint(e)
    PROVE  DeviceInv'
<1>1. /\ thread = "callback" /\ e \in todo
      /\ UNCHANGED <<phase, request, evq, resp, configuration, address, hostVars>>
  BY DEF ConfigureEndpoint
<1>2. CASE /\ e \notin EpsOf[target] /\ EpUnconfig(e) /\ todo' = todo \ {e}
           /\ UNCHANGED <<thread, target, again, torn>>
  <2>0. todo' = todo \ {e} /\ UNCHANGED <<thread, target, again, torn, halt, pid, written>>
    BY <1>2 DEF EpUnconfig
  <2>1. EpsOf[target] \subseteq todo
    BY <1>1, <1>2 DEF DeviceInv, InCallback
  <2>2. on' \subseteq on \ {e}
    BY <1>2 DEF EpUnconfig
  <2>3. InCallback'
    BY <1>1, <1>2, <2>0, <2>1, <2>2 DEF DeviceInv, InCallback, ToConfigure, Asked,
       ValidConfiguration
  <2>4. StateTypeOK'
    BY <1>1, <2>0, <2>2 DEF DeviceInv, StateTypeOK
  <2> QED BY <1>1, <2>0, <2>3, <2>4 DEF DeviceInv, Scheduled, OutsideCallback, Answered, InFlight,
       Agreed, Settled, Current, IsFeature, Asked
<1>3. CASE /\ todo \subseteq EpsOf[target] /\ EpConfig(e) /\ todo' = todo \ {e}
           /\ UNCHANGED <<thread, target, again, torn>>
  <2>1. StateTypeOK'
    BY <1>1, <1>3 DEF EpConfig, DeviceInv, StateTypeOK
  <2>2. InCallback'
    BY <1>1, <1>3 DEF EpConfig, DeviceInv, StateTypeOK, InCallback, ToConfigure, Asked,
       ValidConfiguration
  <2> QED BY <1>1, <1>3, <2>1, <2>2 DEF DeviceInv, Scheduled, OutsideCallback, Answered, InFlight,
       Agreed, Settled, Current, IsFeature, Asked
<1>4. CASE FallBack /\ UNCHANGED epVars
  <2>0. /\ thread' = "callback" /\ target' = 0 /\ todo' = Endpoints /\ again' = TRUE
        /\ torn' = torn
    BY <1>4 DEF FallBack, Call
  <2>1. StateTypeOK'
    BY <1>1, <1>4, <2>0 DEF DeviceInv, StateTypeOK
  <2>2. InCallback'
    BY <1>1, <1>4, <2>0 DEF DeviceInv, StateTypeOK, InCallback, ToConfigure, Asked,
       ValidConfiguration
  <2> QED BY <1>1, <1>4, <2>0, <2>1, <2>2 DEF DeviceInv, Scheduled, OutsideCallback, Answered,
       InFlight, Agreed, Settled, Current, IsFeature, Asked
<1> QED BY <1>2, <1>3, <1>4 DEF ConfigureEndpoint

LEMMA CallbackReturnsInv ==
    ASSUME DeviceInv, CallbackReturns
    PROVE  DeviceInv'
<1>1. /\ thread = "callback" /\ todo = {} /\ thread' = "loop" /\ configuration' = target
      /\ again' = FALSE /\ torn' = FALSE
      /\ UNCHANGED <<request, evq, address, todo, epVars, hostVars>>
  BY DEF CallbackReturns, NewConfiguration, Returns, Transfer!Execute
<1>2. \/ phase' = phase /\ phase # "requested" /\ resp' = resp
      \/ phase' = "executed" /\ phase = "requested" /\ resp' = ~again
  BY DEF CallbackReturns, Accepted, Returns, Transfer!Execute
<1>3. StateTypeOK'
  <2>1. resp' \in BOOLEAN
    BY <1>2 DEF DeviceInv, StateTypeOK
  <2>2. phase' \in {"idle", "requested", "executed"} /\ target' = 0
    BY <1>2 DEF CallbackReturns, DeviceInv, StateTypeOK
  <2> QED BY <1>1, <2>1, <2>2 DEF DeviceInv, StateTypeOK
<1>4. Scheduled' /\ InCallback' /\ OutsideCallback' /\ InFlight'
  BY <1>1, <1>2 DEF DeviceInv, StateTypeOK, Scheduled, InCallback, OutsideCallback, InFlight,
     Current, IsFeature, Asked
<1>5. ToConfigure /\ ToConfigure'
  BY <1>1 DEF DeviceInv, InCallback, ToConfigure, Asked, ValidConfiguration
<1>6. Answered'
  <2>1. CASE phase = "requested"
    <3>1. on' = EpsOf[configuration'] /\ \A f \in on' : f \notin halt' /\ pid'[f] = 0
      BY <1>1, <2>1 DEF DeviceInv, InCallback
    <3>2. configuration' = IF resp' THEN request'.wValue[2] ELSE 0
      BY <1>1, <1>2, <2>1 DEF DeviceInv, InCallback
    <3> QED BY <1>1, <1>5, <3>1, <3>2 DEF Answered, ToConfigure, Asked, ValidConfiguration
  <2>2. CASE phase # "requested"
    BY <1>1, <1>2, <2>2 DEF DeviceInv, Scheduled, Answered, StateTypeOK
  <2> QED BY <2>1, <2>2
<1>7. Agreed'
  BY <1>1, <1>2, <1>5 DEF DeviceInv, StateTypeOK, Scheduled, Agreed, Settled
<1> QED BY <1>3, <1>4, <1>6, <1>7 DEF DeviceInv

LEMMA CallbackFailsAgainInv ==
    ASSUME DeviceInv, CallbackFailsAgain
    PROVE  DeviceInv'
<1>1. /\ thread = "callback" /\ thread' = "loop" /\ torn' = TRUE /\ again' = FALSE
      /\ target' = 0 /\ todo' = {}
      /\ UNCHANGED <<request, evq, configuration, address, epVars, hostVars>>
  BY DEF CallbackFailsAgain, Returns, Transfer!Execute
<1>2. \/ phase' = phase /\ phase # "requested" /\ resp' = resp
      \/ phase' = "executed" /\ phase = "requested" /\ resp' = FALSE
  BY DEF CallbackFailsAgain, Returns, Transfer!Execute
<1>3. StateTypeOK'
  BY <1>1, <1>2 DEF DeviceInv, StateTypeOK
<1>4. Scheduled' /\ InCallback' /\ OutsideCallback' /\ Agreed'
  BY <1>1, <1>2 DEF DeviceInv, StateTypeOK, Scheduled, InCallback, OutsideCallback, Agreed, Settled
<1>5. ToConfigure /\ ToConfigure'
  BY <1>1 DEF DeviceInv, InCallback, ToConfigure, Asked, ValidConfiguration
<1>6. InFlight'
  <2>1. CASE phase = "requested"
    BY <1>1, <1>2, <1>5, <2>1 DEF DeviceInv, InFlight, IsFeature, Asked, ToConfigure, Current
  <2>2. CASE phase # "requested"
    <3>1. hconf = NotSet /\ phase' = "idle"
      BY <1>1, <1>2, <2>2 DEF DeviceInv, Scheduled, StateTypeOK
    <3> QED BY <1>1, <3>1 DEF DeviceInv, InFlight, Current
  <2> QED BY <2>1, <2>2
<1>7. Answered'
  <2>1. CASE phase = "requested"
    BY <1>1, <1>2, <1>5, <2>1 DEF Answered, ToConfigure, Asked
  <2>2. CASE phase # "requested"
    BY <1>1, <1>2, <2>2 DEF DeviceInv, Scheduled, Answered, StateTypeOK
  <2> QED BY <2>1, <2>2
<1> QED BY <1>3, <1>4, <1>6, <1>7 DEF DeviceInv

\* ep_write: only the halt of an IN endpoint and its history change, together.
LEMMA WriteInv ==
    ASSUME DeviceInv, NEW e \in Endpoints, Write(e)
    PROVE  DeviceInv'
<1>1. /\ halt' = halt \ {e} /\ written' = IF e \in halt THEN written \cup {e} ELSE written
      /\ UNCHANGED <<phase, request, coreVars, on, pid, hostVars>>
  BY DEF Write, EpWrite
<1>2. StateTypeOK'
  BY <1>1 DEF DeviceInv, StateTypeOK
<1>3. /\ ToConfigure' = ToConfigure /\ ToHalt' = ToHalt /\ ToClear' = ToClear
      /\ Current' = Current /\ Settled' = Settled /\ HostHalt' = HostHalt
  BY <1>1 DEF ToConfigure, ToHalt, ToClear, Asked, ValidConfiguration, ValidFeature, Current, Settled,
     HostHalt
<1>4. Scheduled' /\ InCallback' /\ OutsideCallback' /\ InFlight'
  BY <1>1, <1>3 DEF DeviceInv, Scheduled, InCallback, OutsideCallback, InFlight, IsFeature, Asked
<1>5. Answered'
  BY <1>1, <1>3 DEF DeviceInv, Answered, Asked, ValidConfiguration, ValidAddress, ValidFeature
<1>6. Agreed'
  BY <1>1, <1>3 DEF DeviceInv, Agreed
<1> QED BY <1>2, <1>4, <1>5, <1>6 DEF DeviceInv

LEMMA HandleEventInv ==
    ASSUME DeviceInv, HandleEvent
    PROVE  DeviceInv'
<1>1. /\ thread = "loop" /\ evq # <<>> /\ evq' = Tail(evq) /\ thread' \in {"loop", "respond"}
      /\ UNCHANGED <<phase, request, callVars, resp, configuration, epVars, hostVars>>
  BY DEF HandleEvent
<1>2. address' \in 0 .. 127
  <2>1. address \in 0 .. 127
    BY DEF DeviceInv, StateTypeOK
  <2>2. address' = 0 \/ address' = address
    BY DEF HandleEvent
  <2> QED BY <2>1, <2>2
<1>3. StateTypeOK'
  BY <1>1, <1>2 DEF DeviceInv, StateTypeOK
<1>4. Scheduled'
  <2>1. CASE phase = "requested"
    <3>1. evq = <<"SETUP">>
      BY <1>1, <2>1 DEF DeviceInv, Scheduled
    <3>2. evq' = <<>> /\ thread' = "respond"
      BY <1>1, <3>1 DEF HandleEvent
    <3> QED BY <1>1, <2>1, <3>2 DEF Scheduled
  <2>2. CASE phase # "requested"
    BY <1>1, <2>2 DEF DeviceInv, Scheduled, StateTypeOK
  <2> QED BY <2>1, <2>2
<1>5. InCallback' /\ OutsideCallback'
  BY <1>1 DEF DeviceInv, InCallback, OutsideCallback
<1>6. Answered' /\ InFlight' /\ Agreed'
  BY <1>1 DEF DeviceInv, Answered, InFlight, Agreed, Settled, HostHalt, ToConfigure, ToHalt, ToClear,
     Asked, ValidConfiguration, ValidAddress, ValidFeature, IsFeature, Current
<1> QED BY <1>3, <1>4, <1>5, <1>6 DEF DeviceInv

LEMMA SetDescriptorsInv ==
    ASSUME DeviceInv, SetDescriptors
    PROVE  DeviceInv'
BY DEF SetDescriptors, StateTypeOK, DeviceInv, Scheduled, InCallback, OutsideCallback, Answered,
   InFlight, Agreed, Settled, HostHalt, ToConfigure, ToHalt, ToClear, Asked, ValidConfiguration,
   ValidAddress, ValidFeature, IsFeature, Current

LEMMA BusResetInv ==
    ASSUME DeviceInv, BusReset
    PROVE  DeviceInv'
<1>1. /\ on' = {} /\ phase' = "idle" /\ hconf' = NotSet /\ hhalt' = {} /\ request' = request
      /\ UNCHANGED <<thread, callVars, configuration, address, halt, pid, written, hpid>>
  BY DEF BusReset, Transfer!Drop
<1>2. StateTypeOK'
  <2>1. evq' \in Seq({"SETUP", "RESET"})
    BY DEF BusReset, DeviceInv, StateTypeOK
  <2>2. resets' \in Nat /\ resp' = FALSE /\ haddr' = 0
    BY DEF BusReset, DeviceInv, StateTypeOK
  <2>3. haddr' \in 0 .. 127
    BY <2>2
  <2> QED BY <1>1, <2>1, <2>2, <2>3 DEF DeviceInv, StateTypeOK
<1>3. Scheduled' /\ OutsideCallback' /\ Answered' /\ InFlight' /\ Agreed'
  BY <1>1 DEF Scheduled, OutsideCallback, Answered, InFlight, Agreed, Settled, Current
<1>4. InCallback'
  BY <1>1 DEF DeviceInv, InCallback, ToConfigure, Asked, ValidConfiguration
<1> QED BY <1>2, <1>3, <1>4 DEF DeviceInv

LEMMA HostSetupInv ==
    ASSUME DeviceInv, NEW r \in Requests, HostSetup(r)
    PROVE  DeviceInv'
<1>1. /\ phase = "idle" /\ phase' = "requested" /\ request' = r /\ thread = "loop"
      /\ evq' = <<"SETUP">> /\ Sensible(r)
      /\ UNCHANGED <<thread, callVars, resp, configuration, address, epVars, hostVars>>
  BY DEF HostSetup, Transfer!Start, Recovered
<1>2. StateTypeOK'
  BY <1>1 DEF DeviceInv, StateTypeOK
<1>3. Scheduled' /\ InCallback' /\ OutsideCallback' /\ Answered'
  BY <1>1 DEF DeviceInv, Scheduled, InCallback, OutsideCallback, Answered
<1>4. InFlight'
  BY <1>1 DEF DeviceInv, InFlight, Sensible, IsFeature, Asked, Current
<1>5. Agreed'
  <2>1. Current' = Current /\ HostHalt = hhalt /\ HostHalt' = hhalt /\ (Settled' => Settled)
    BY <1>1 DEF Current, HostHalt, Settled
  <2> QED BY <1>1, <2>1 DEF DeviceInv, Agreed
<1> QED BY <1>2, <1>3, <1>4, <1>5 DEF DeviceInv

LEMMA HostPacketInv ==
    ASSUME DeviceInv, NEW e \in Endpoints, HostPacket(e)
    PROVE  DeviceInv'
<1>1. /\ e \in Current /\ e \notin hhalt /\ ~Suspends(e) /\ e \in on /\ e \notin halt
      /\ UNCHANGED <<phase, request, coreVars, on, halt, written, hconf, haddr, hhalt, resets>>
  BY DEF HostPacket
<1>2. ~(phase # "idle" /\ ToConfigure)
  BY <1>1 DEF Suspends, ToConfigure
<1>3. Settled
  <2>1. ~torn
    BY <1>1, <1>2 DEF DeviceInv, InFlight
  <2> QED BY <1>1, <1>2, <2>1 DEF Current, DeviceInv, Scheduled, InCallback, StateTypeOK, Settled
<1>4. Settled' /\ Current' = Current /\ HostHalt' = HostHalt
  BY <1>1, <1>3 DEF Settled, Current, HostHalt, ToConfigure, ToHalt, ToClear, Asked,
     ValidConfiguration, ValidFeature
<1>5. pid[e] = hpid[e] /\ pid[e] \in 0 .. 1
  <2>1. e \notin HostHalt
    BY <1>1 DEF HostHalt, Suspends, ToHalt, Asked
  <2> QED BY <1>1, <1>3, <2>1 DEF DeviceInv, Agreed, StateTypeOK
<1>6. pid' = [pid EXCEPT ![e] = 1 - @] /\ hpid' = [hpid EXCEPT ![e] = 1 - @]
  BY <1>5 DEF HostPacket
<1>7. StateTypeOK'
  <2>1. pid' \in [Endpoints -> 0 .. 1] /\ hpid' \in [Endpoints -> 0 .. 1]
    BY <1>5, <1>6 DEF DeviceInv, StateTypeOK
  <2> QED BY <1>1, <2>1 DEF DeviceInv, StateTypeOK
<1>8. Agreed'
  <2>1. e \notin HostHalt
    BY <1>1 DEF HostHalt, Suspends, ToHalt, Asked
  <2> QED BY <1>1, <1>3, <1>4, <1>5, <1>6, <2>1 DEF DeviceInv, Agreed, StateTypeOK, Current
<1>9. ~(phase = "executed" /\ ToConfigure) /\ ToConfigure' = ToConfigure
  BY <1>1, <1>2 DEF ToConfigure, Asked, ValidConfiguration
<1>10. Scheduled' /\ InCallback' /\ OutsideCallback' /\ InFlight'
  BY <1>1, <1>3, <1>9 DEF DeviceInv, Scheduled, InCallback, OutsideCallback, InFlight, Settled,
     IsFeature, Asked, Current
<1>11. Answered'
  BY <1>1, <1>9 DEF DeviceInv, Answered, Asked, ToConfigure, ValidConfiguration, ValidAddress,
     ValidFeature
<1> QED BY <1>7, <1>8, <1>10, <1>11 DEF DeviceInv

\* The end of a transfer, in either way.
LEMMA HostEnds ==
    ASSUME DeviceInv, phase = "executed", phase' = "idle",
           UNCHANGED <<request, evq, thread, callVars, configuration, address,
                       epVars, resets>>,
           StateTypeOK', hhalt' \subseteq Current', torn => Current' = {}, Agreed'
    PROVE  DeviceInv'
<1>1. thread = "loop" /\ evq = <<>>
  BY DEF DeviceInv, Scheduled
<1>2. Scheduled' /\ InCallback' /\ OutsideCallback' /\ Answered' /\ InFlight'
  BY <1>1 DEF DeviceInv, Scheduled, InCallback, OutsideCallback, Answered, InFlight
<1> QED BY <1>2 DEF DeviceInv

LEMMA HostCompletesInv ==
    ASSUME DeviceInv, HostCompletes
    PROVE  DeviceInv'
<1> DEFINE e == request.wIndex
           config == Asked("DEVICE", "SET_CONFIGURATION")
           set    == Asked("ENDPOINT", "SET_FEATURE")
           clear  == Asked("ENDPOINT", "CLEAR_FEATURE")
<1>1. /\ resp /\ phase = "executed" /\ phase' = "idle" /\ resp' = FALSE
      /\ UNCHANGED <<request, evq, thread, callVars, configuration, address,
                     epVars, resets>>
  BY DEF HostCompletes, Transfer!Complete
<1>2. /\ config => ToConfigure
      /\ set => ToHalt /\ e \in Current
      /\ clear => ToClear /\ e \in Current /\ e \in hhalt
      /\ ToConfigure => config /\ ~set /\ ~clear
      /\ ToHalt => set /\ ~config /\ ~clear
      /\ ToClear => clear /\ ~config /\ ~set
  BY <1>1 DEF DeviceInv, Answered, InFlight, IsFeature, ToConfigure, ToHalt, ToClear, Asked
<1>3. haddr' \in 0 .. 127
  <2>1. haddr \in 0 .. 127
    BY DEF DeviceInv, StateTypeOK
  <2>2. CASE Asked("DEVICE", "SET_ADDRESS")
    <3>1. request.wValue[2] \in Nat
      BY RequestsAssumption, Zenon DEF DeviceInv, StateTypeOK
    <3>2. request.wValue[2] <= 127
      BY <1>1, <2>2 DEF DeviceInv, Answered, ValidAddress
    <3> QED BY <2>2, <3>1, <3>2 DEF HostCompletes
  <2>3. CASE ~Asked("DEVICE", "SET_ADDRESS")
    BY <2>1, <2>3 DEF HostCompletes
  <2> QED BY <2>2, <2>3
<1>4. CASE config
  <2>1. /\ hconf' = request.wValue[2] /\ hhalt' = {} /\ hpid' = [f \in Endpoints |-> 0]
    BY <1>2, <1>4 DEF HostCompletes
  <2>2. /\ ~torn /\ configuration = request.wValue[2] /\ on = EpsOf[configuration]
        /\ \A f \in on : f \notin halt /\ pid[f] = 0
    BY <1>1, <1>2, <1>4 DEF DeviceInv, Answered
  <2>3. StateTypeOK'
    <3>1. hpid' \in [Endpoints -> 0 .. 1] /\ hconf' \in ConfigValues
      BY <2>1, <2>2 DEF DeviceInv, StateTypeOK
    <3> QED BY <1>1, <1>3, <2>1, <3>1 DEF DeviceInv, StateTypeOK
  <2>4. Current' = on
    BY <2>1, <2>2 DEF Current, DeviceInv, StateTypeOK
  <2>5. HostHalt' = {}
    BY <1>1, <2>1 DEF HostHalt
  <2>6. Agreed'
    BY <1>1, <2>1, <2>2, <2>4, <2>5 DEF Agreed, DeviceInv, StateTypeOK
  <2> QED BY <1>1, <2>1, <2>2, <2>3, <2>6, HostEnds
<1>5. CASE ~config
  <2>1. UNCHANGED hconf /\ Current' = Current
    BY <1>5 DEF HostCompletes, Current
  <2>2. hhalt' = HostHalt /\ HostHalt' = HostHalt
    BY <1>1, <1>2, <1>5, Zenon DEF HostCompletes, HostHalt
  <2>3. hpid' = IF clear THEN [hpid EXCEPT ![e] = 0] ELSE hpid
    BY <1>5 DEF HostCompletes
  <2>4. HostHalt \subseteq Current
    BY <1>1, <1>2, Zenon DEF HostHalt, DeviceInv, InFlight
  <2>5. StateTypeOK'
    <3>1. hpid' \in [Endpoints -> 0 .. 1]
      <4>1. hpid \in [Endpoints -> 0 .. 1]
        BY DEF DeviceInv, StateTypeOK
      <4>2. CASE clear
        <5>1. hpid' = [hpid EXCEPT ![e] = 0]
          BY <2>3, <4>2
        <5>2. \A f \in Endpoints : hpid'[f] = IF f = e THEN 0 ELSE hpid[f]
          BY <4>1, <5>1
        <5>3. \A f \in Endpoints : hpid'[f] \in 0 .. 1
          BY <4>1, <5>2
        <5> QED BY <4>1, <5>1, <5>3
      <4>3. CASE ~clear
        BY <2>3, <4>1, <4>3
      <4> QED BY <4>2, <4>3
    <3>2. hhalt' \subseteq Endpoints
      BY <2>2, <2>4 DEF Current, DeviceInv, StateTypeOK
    <3> QED BY <1>1, <1>3, <2>1, <3>1, <3>2 DEF DeviceInv, StateTypeOK
  <2>6. Agreed'
    <3>1. Settled' => Settled
      BY <1>1, <1>2, <1>5, <2>1 DEF Settled
    <3>2. ASSUME Settled, NEW f \in Current
          PROVE  pid[f] = IF f \in hhalt' THEN 0 ELSE hpid'[f]
      <4>1. pid[f] = IF f \in hhalt \cup HostHalt THEN 0 ELSE hpid[f]
        BY <3>2 DEF DeviceInv, Agreed
      <4>2. f \in Endpoints
        BY DEF Current, DeviceInv, StateTypeOK
      <4>3. CASE clear
        <5>1. HostHalt = hhalt \ {e}
          BY <1>1, <1>2, <4>3, Zenon DEF HostHalt
        <5>2. hpid' = [hpid EXCEPT ![e] = 0] /\ hpid \in [Endpoints -> 0 .. 1]
          BY <2>3, <4>3 DEF DeviceInv, StateTypeOK
        <5>3. CASE f = e
          BY <1>2, <2>2, <4>1, <4>2, <4>3, <5>1, <5>2, <5>3
        <5>4. CASE f # e
          BY <2>2, <4>1, <4>2, <5>1, <5>2, <5>4
        <5> QED BY <5>3, <5>4
      <4>4. CASE ~clear
        <5>1. hhalt \subseteq HostHalt
          BY <1>1, <1>2, <4>4, Zenon DEF HostHalt
        <5> QED BY <2>2, <2>3, <4>1, <4>4, <5>1
      <4> QED BY <4>3, <4>4
    <3> QED BY <1>1, <2>1, <2>2, <3>1, <3>2 DEF DeviceInv, Agreed
  <2>7. torn => Current' = {}
    BY <1>2, <1>5, <2>1 DEF DeviceInv, InFlight
  <2> QED BY <1>1, <2>1, <2>2, <2>4, <2>5, <2>6, <2>7, HostEnds
<1> QED BY <1>4, <1>5

LEMMA HostGivesUpInv ==
    ASSUME DeviceInv, HostGivesUp
    PROVE  DeviceInv'
<1>1. /\ ~resp /\ phase = "executed" /\ phase' = "idle" /\ resp' = resp
      /\ UNCHANGED <<request, evq, thread, callVars, configuration, address,
                     epVars, resets, haddr, hpid>>
  BY DEF HostGivesUp, Transfer!Drop
<1>2. ~ToHalt /\ ~ToClear
  BY <1>1 DEF DeviceInv, Answered, ToHalt, ToClear
<1>3. CASE ToConfigure
  <2>1. hconf' = 0 /\ hhalt' = {} /\ Current' = {}
    BY <1>3 DEF HostGivesUp, ToConfigure, Current
  <2>2. ~torn => configuration = 0 /\ on = {}
    BY <1>1, <1>3 DEF DeviceInv, Answered
  <2>3. HostHalt' = {}
    BY <1>1, <2>1 DEF HostHalt
  <2>4. StateTypeOK'
    BY <1>1, <2>1 DEF DeviceInv, StateTypeOK
  <2>5. Agreed'
    BY <1>1, <2>1, <2>2, <2>3 DEF Agreed, Settled
  <2> QED BY <1>1, <2>1, <2>4, <2>5, HostEnds
<1>4. CASE ~ToConfigure
  <2>1. UNCHANGED <<hconf, hhalt>>
    BY <1>4 DEF HostGivesUp, ToConfigure
  <2>2. Current' = Current /\ HostHalt = hhalt /\ HostHalt' = hhalt /\ (Settled' => Settled)
    BY <1>1, <1>2, <1>4, <2>1 DEF Current, HostHalt, Settled
  <2>3. StateTypeOK'
    BY <1>1, <2>1 DEF DeviceInv, StateTypeOK
  <2>4. Agreed' /\ hhalt' \subseteq Current'
    BY <1>1, <2>1, <2>2 DEF DeviceInv, Agreed, InFlight
  <2>5. torn => Current' = {}
    BY <1>4, <2>2 DEF DeviceInv, InFlight
  <2> QED BY <1>1, <2>1, <2>2, <2>3, <2>4, <2>5, HostEnds
<1> QED BY <1>3, <1>4

-----------------------------------------------------------------------------
LEMMA StepInv ==
    ASSUME DeviceInv, [Next]_vars
    PROVE  DeviceInv'
<1>1. CASE ProcessRequest
  BY <1>1, SetAddressInv, GetDescriptorInv, ReadInv, FeatureInv, ClassInv, SetConfigurationInv,
     RefuseInv DEF ProcessRequest
<1>2. CASE \E e \in Endpoints : ConfigureEndpoint(e)
  BY <1>2, ConfigureEndpointInv
<1>3. CASE \E r \in Requests : HostSetup(r)
  BY <1>3, HostSetupInv
<1>4. CASE \E e \in Endpoints : Write(e) \/ HostPacket(e)
  BY <1>4, HostPacketInv, WriteInv
<1>5. CASE UNCHANGED vars
  BY <1>5 DEF vars, DeviceInv, StateTypeOK, Scheduled, InCallback, OutsideCallback,
     Answered, InFlight, Agreed, Settled, HostHalt, ToConfigure, ToHalt, ToClear, Asked,
     ValidConfiguration, ValidAddress, ValidFeature, IsFeature, Current
<1> QED BY <1>1, <1>2, <1>3, <1>4, <1>5, HandleEventInv, CallbackReturnsInv,
       CallbackFailsAgainInv, SetDescriptorsInv, BusResetInv, HostCompletesInv, HostGivesUpInv DEF Next, Thread

LEMMA DeviceInvariant == Spec => []DeviceInv
BY InitInv, StepInv, PTL DEF Spec

-----------------------------------------------------------------------------
(***************************************************************************)
(* The tables and m_tx_buffer, on which nothing above depends.             *)
(***************************************************************************)
LEMMA LeastNumber ==
    ASSUME NEW S \in SUBSET Nat, S # {}
    PROVE  \E n \in S : \A m \in S : n <= m
<1>1. PICK less : less = OpToRel(<, Nat)
  OBVIOUS
<1>2. IsWellFoundedOn(less, Nat)
  BY <1>1, NatLessThanWellFounded
<1>3. \A m, n \in Nat : m < n => <<m, n>> \in less
  BY <1>1 DEF OpToRel
<1>4. PICK n \in S : \A m \in S : ~ (<<m, n>> \in less)
  BY <1>2, WFMin
<1>5. ASSUME NEW m \in S PROVE n <= m
  <2>1. m \in Nat /\ n \in Nat
    OBVIOUS
  <2>2. ~(m < n)
    BY <1>3, <1>4, <2>1
  <2> QED BY <2>1, <2>2
<1> QED BY <1>5

\* The nodes of a descriptor end one behind the other, the last where the whole does.
LEMMA EndsAscend ==
    ASSUME NEW d \in AllDescs
    PROVE  /\ Len(Ends[d]) \in Nat \ {0} /\ DOMAIN Ends[d] = 1 .. Len(Ends[d])
           /\ Total(d) \in Nat /\ TxMax \in Nat
           /\ \A k \in 1 .. Len(Ends[d]) : Ends[d][k] \in Nat /\ Ends[d][k] <= Total(d)
<1>1. /\ Ends[d] \in Seq(Nat) /\ Ends[d] # <<>> /\ TxMax \in Nat
      /\ \A j, k \in DOMAIN Ends[d] : j <= k => Ends[d][j] <= Ends[d][k]
  BY DescriptorAssumption
<1> DEFINE s == Ends[d]
<1> HIDE DEF s
<1>2. s \in Seq(Nat) /\ s # <<>> /\ \A j, k \in DOMAIN s : j <= k => s[j] <= s[k]
  BY <1>1 DEF s
<1>3. /\ Len(s) \in Nat \ {0} /\ DOMAIN s = 1 .. Len(s)
      /\ \A k \in 1 .. Len(s) : s[k] \in Nat
  BY <1>2
<1>4. Len(s) \in DOMAIN s
  BY <1>3
<1>5. ASSUME NEW k \in 1 .. Len(s) PROVE s[k] <= s[Len(s)]
  <2>1. k \in DOMAIN s /\ k <= Len(s)
    BY <1>3
  <2> QED BY <1>2, <1>4, <2>1
<1> QED BY <1>1, <1>3, <1>4, <1>5 DEF s, Total

\* The walk over a configuration's nodes ends.
LEMMA WalkStops ==
    ASSUME NEW d \in AllDescs, NEW n
    PROVE  LastNode(d, n) \in 1 .. Len(Ends[d]) /\ Stops(d, LastNode(d, n), n)
<1> DEFINE stops == {k \in 1 .. Len(Ends[d]) : Stops(d, k, n)}
<1>1. /\ Len(Ends[d]) \in Nat \ {0} /\ DOMAIN Ends[d] = 1 .. Len(Ends[d])
  BY EndsAscend
<1>2. stops \in SUBSET Nat /\ Len(Ends[d]) \in stops
  BY <1>1 DEF Stops
<1> HIDE DEF stops
<1>3. PICK k \in stops : \A j \in stops : k <= j
  BY <1>2, LeastNumber
<1>4. k \in 1 .. Len(Ends[d]) /\ Stops(d, k, n)
  BY DEF stops
<1>5. \A j \in 1 .. k - 1 : ~Stops(d, j, n)
  <2> SUFFICES ASSUME NEW j \in 1 .. k - 1, Stops(d, j, n) PROVE FALSE
    OBVIOUS
  <2>1. j \in stops
    BY <1>1, <1>4 DEF stops
  <2> QED BY <1>3, <1>4, <2>1
<1>6. \E i \in DOMAIN Ends[d] : Stops(d, i, n) /\ \A j \in 1 .. i - 1 : ~Stops(d, j, n)
  BY <1>1, <1>4, <1>5
<1> QED BY <1>1, <1>6, Zenon DEF LastNode

\* What is serialized of a configuration is a number of units, at most the whole.
LEMMA ConfigLengthType ==
    ASSUME NEW d \in AllDescs, NEW n \in Nat
    PROVE  /\ ConfigLength(d, n) \in Nat /\ ConfigLength(d, n) <= Total(d)
           /\ Total(d) \in Nat
<1>1. /\ Len(Ends[d]) \in Nat \ {0} /\ Total(d) \in Nat
      /\ \A i \in 1 .. Len(Ends[d]) : Ends[d][i] \in Nat /\ Ends[d][i] <= Total(d)
  BY EndsAscend
<1>2. LastNode(d, n) \in 1 .. Len(Ends[d]) /\ 1 \in 1 .. Len(Ends[d])
  BY <1>1, WalkStops
<1> QED BY <1>1, <1>2 DEF ConfigLength

\* A configuration that fits m_tx_buffer is answered whole or cut to wLength.
LEMMA WholeOrCut ==
    ASSUME NEW d \in AllDescs, NEW n \in Nat, Total(d) <= TxMax
    PROVE  Shorter(n, ConfigLength(d, n)) = Shorter(n, Total(d))
<1> DEFINE s == Ends[d]
           k == LastNode(d, n)
<1>1. /\ Len(s) \in Nat \ {0} /\ Total(d) \in Nat /\ TxMax \in Nat
      /\ \A i \in 1 .. Len(s) : s[i] \in Nat /\ s[i] <= Total(d)
  BY EndsAscend
<1>2. /\ k \in 1 .. Len(s)
      /\ k = Len(s) \/ s[k] = n \/ s[k + 1] > TxMax
  BY WalkStops DEF Stops
<1>3. Total(d) = s[Len(s)] /\ ConfigLength(d, n) = IF n <= s[1] THEN s[1] ELSE s[k]
  BY DEF Total, ConfigLength
<1> HIDE DEF s, k
<1>4. s[1] \in Nat /\ s[1] <= Total(d) /\ s[k] \in Nat /\ s[k] <= Total(d)
  BY <1>1, <1>2
<1>5. s[k] = Total(d) \/ s[k] = n
  <2>1. CASE k = Len(s)
    BY <1>3, <2>1
  <2>2. CASE s[k + 1] > TxMax /\ k # Len(s)
    <3>1. k + 1 \in 1 .. Len(s)
      <4> DEFINE l == Len(s)
      <4>1. l \in Nat /\ k \in 1 .. l /\ k # l
        BY <1>1, <1>2, <2>2
      <4> HIDE DEF l
      <4>2. k + 1 \in 1 .. l
        BY <4>1
      <4> QED BY <4>2 DEF l
    <3>2. s[k + 1] \in Nat /\ s[k + 1] <= Total(d)
      BY <1>1, <3>1
    <3> QED BY <1>1, <2>2, <3>2
  <2> QED BY <1>2, <2>1, <2>2
<1> QED BY <1>1, <1>3, <1>4, <1>5 DEF Shorter

-----------------------------------------------------------------------------
\* The first n units of a sequence.
LEMMA Beginning ==
    ASSUME NEW S, NEW s \in Seq(S), NEW n \in 0 .. Len(s)
    PROVE  /\ SubSeq(s, 1, n) \in Seq(S) /\ Len(SubSeq(s, 1, n)) = n
           /\ \A i \in 1 .. n : SubSeq(s, 1, n)[i] = s[i]
OBVIOUS

LEMMA BeginningOfBeginning ==
    ASSUME NEW S, NEW s \in Seq(S), NEW m \in 0 .. Len(s), NEW n \in 0 .. m
    PROVE  SubSeq(SubSeq(s, 1, m), 1, n) = SubSeq(s, 1, n)
<1> DEFINE t == SubSeq(s, 1, m)
           u == SubSeq(t, 1, n)
           v == SubSeq(s, 1, n)
<1>1. t \in Seq(S) /\ Len(t) = m /\ \A i \in 1 .. m : t[i] = s[i]
  BY Beginning
<1>2. v \in Seq(S) /\ Len(v) = n /\ \A i \in 1 .. n : v[i] = s[i]
  BY Beginning
<1> HIDE DEF t
<1>3. u \in Seq(S) /\ Len(u) = n /\ \A i \in 1 .. n : u[i] = t[i]
  BY <1>1, Beginning
<1> HIDE DEF u, v
<1>4. u = v
  BY <1>1, <1>2, <1>3
<1> QED BY <1>4 DEF t, u, v

\* The units of a descriptor, and the first of them.
LEMMA UnitsType ==
    ASSUME NEW d, NEW n \in Nat
    PROVE  /\ Units(d, n) \in Seq({d} \X Nat) /\ Len(Units(d, n)) = n
           /\ \A m \in 0 .. n : SubSeq(Units(d, n), 1, m) = Units(d, m)
BY DEF Units

\* What BufferTypeOK says, of any buffer.
BufferOK(b) ==
    /\ b \in [rest : Seq(Contents), rem : Nat, room : Nat]
    /\ b.rem <= Len(b.rest) /\ Len(b.rest) + b.room <= TxMax

LEMMA HoldsOK ==
    ASSUME NEW data \in Seq(Contents)
    PROVE  /\ BufferOK(Holds(data))
           /\ Holds(data).rest = SubSeq(data, 1, Shorter(Len(data), TxMax))
           /\ Holds(data).rem = Shorter(Len(data), TxMax)
<1> DEFINE n == Shorter(Len(data), TxMax)
<1>1. n \in 0 .. Len(data) /\ n <= TxMax /\ TxMax \in Nat
  BY DescriptorAssumption DEF Shorter
<1> HIDE DEF n
<1>2. SubSeq(data, 1, n) \in Seq(Contents) /\ Len(SubSeq(data, 1, n)) = n
  BY <1>1, Beginning
<1>3. Holds(data) = [rest |-> SubSeq(data, 1, n), rem |-> n, room |-> TxMax - n]
  BY DEF Holds, n
<1> QED BY <1>1, <1>2, <1>3 DEF BufferOK, n

LEMMA EmptyOK == BufferOK(Empty)
BY DescriptorAssumption DEF BufferOK, Empty

LEMMA InsertedOK ==
    ASSUME BufferTypeOK, NEW u \in Contents
    PROVE  BufferOK(Inserted(u))
<1>1. /\ tx.rest \in Seq(Contents) /\ tx.rem \in Nat /\ tx.room \in Nat /\ TxMax \in Nat
      /\ tx.rem <= Len(tx.rest) /\ Len(tx.rest) + tx.room <= TxMax
  BY DescriptorAssumption DEF BufferTypeOK
<1>2. Append(tx.rest, u) \in Seq(Contents) /\ Len(Append(tx.rest, u)) = Len(tx.rest) + 1
  BY <1>1
<1>3. CASE tx.room = 0
  BY <1>3 DEF Inserted, BufferOK, BufferTypeOK
<1>4. CASE tx.room # 0
  <2>1. Inserted(u) = [rest |-> Append(tx.rest, u), rem |-> tx.rem + 1, room |-> tx.room - 1]
    BY <1>4 DEF Inserted
  <2> QED BY <1>1, <1>2, <1>4, <2>1 DEF BufferOK
<1> QED BY <1>3, <1>4

LEMMA SentOK ==
    ASSUME NEW b, BufferOK(b), NEW n \in 0 .. b.rem
    PROVE  BufferOK(Sent(b, n))
<1>1. /\ b \in [rest : Seq(Contents), rem : Nat, room : Nat]
      /\ b.rem <= Len(b.rest) /\ Len(b.rest) + b.room <= TxMax /\ TxMax \in Nat
  BY DescriptorAssumption DEF BufferOK
<1> DEFINE rest == SubSeq(b.rest, n + 1, Len(b.rest))
<1>2. rest \in Seq(Contents) /\ Len(rest) = Len(b.rest) - n
  <2> DEFINE s == b.rest
  <2>1. s \in Seq(Contents) /\ n \in 0 .. Len(s)
    BY <1>1
  <2> HIDE DEF s
  <2>2. SubSeq(s, n + 1, Len(s)) \in Seq(Contents) /\ Len(SubSeq(s, n + 1, Len(s))) = Len(s) - n
    BY <2>1
  <2> QED BY <2>2 DEF s
<1>3. Sent(b, n) = [rest |-> rest, rem |-> b.rem - n, room |-> b.room]
  <2> HIDE DEF rest
  <2>1. Sent(b, n) = [b EXCEPT !.rest = rest, !.rem = b.rem - n]
    BY <1>1 DEF Sent, rest
  <2> QED BY <1>1, <2>1
<1> QED BY <1>1, <1>2, <1>3 DEF BufferOK

LEMMA AnswerOK ==
    ASSUME NEW b, BufferOK(b), NEW ack, request.wLength \in Nat
    PROVE  BufferOK(Answer(ack, b))
<1>1. /\ b \in [rest : Seq(Contents), rem : Nat, room : Nat]
      /\ b.rem <= Len(b.rest) /\ Len(b.rest) + b.room <= TxMax /\ TxMax \in Nat
  BY DescriptorAssumption DEF BufferOK
<1>2. BufferOK([b EXCEPT !.rem = Shorter(@, request.wLength)])
  <2>1. Shorter(b.rem, request.wLength) \in Nat /\ Shorter(b.rem, request.wLength) <= b.rem
    BY <1>1 DEF Shorter
  <2> DEFINE n == Shorter(b.rem, request.wLength)
  <2> HIDE DEF n
  <2>2. [b EXCEPT !.rem = n] = [rest |-> b.rest, rem |-> n, room |-> b.room]
    BY <1>1
  <2>3. n \in Nat /\ n <= Len(b.rest)
    <3> DEFINE l == Len(b.rest)
    <3>1. l \in Nat /\ b.rem <= l /\ n \in Nat /\ n <= b.rem /\ b.rem \in Nat
      BY <1>1, <2>1 DEF n
    <3> HIDE DEF l
    <3>2. n <= l
      BY <3>1
    <3> QED BY <3>1, <3>2 DEF l
  <2>4. BufferOK([b EXCEPT !.rem = n])
    BY <1>1, <2>2, <2>3 DEF BufferOK
  <2> QED BY <2>4 DEF n
<1> QED BY <1>2, EmptyOK DEF Answer

LEMMA ReturnsOK ==
    ASSUME request \in Requests, NEW b, BufferOK(b), NEW ack, Returns(ack, b)
    PROVE  BufferTypeOK'
<1>1. request.wLength \in Nat
  BY RequestsAssumption
<1>2. BufferOK(Answer(ack, b)) /\ Answer(ack, b).rem \in Nat
  BY <1>1, AnswerOK DEF BufferOK
<1>3. \/ tx' = Answer(ack, b)
      \/ \E n \in 0 .. Answer(ack, b).rem : tx' = Sent(Answer(ack, b), n)
  <2>1. CASE phase = "requested"
    BY <2>1 DEF Returns
  <2>2. CASE phase # "requested"
    <3>1. PICK n \in 0 .. Answer(ack, b).rem : tx' = Sent(Answer(ack, b), IF ack THEN n ELSE 0)
      BY <2>2 DEF Returns
    <3>2. (IF ack THEN n ELSE 0) \in 0 .. Answer(ack, b).rem
      BY <1>2
    <3> QED BY <3>1, <3>2
  <2> QED BY <2>1, <2>2
<1>4. BufferOK(tx')
  BY <1>2, <1>3, SentOK
<1> QED BY <1>4 DEF BufferOK, BufferTypeOK

LEMMA NumberType ==
    ASSUME NEW n \in Nat
    PROVE  Number(n) \in Contents
BY DEF Number, Contents

\* What a descriptor puts into m_tx_buffer.
LEMMA DescriptorType ==
    ASSUME DescTypeOK, NEW k, Found(k) # NoDesc, NEW n \in Nat
    PROVE  /\ Found(k) \in AllDescs
           /\ DescriptorLength(k[1], Found(k), n) \in Nat
           /\ Descriptor(k, n) \in Seq(Contents)
<1> DEFINE d == Found(k)
<1>1. d \in AllDescs
  BY DEF Found, DescTypeOK, AllDescs
<1> HIDE DEF d
<1>2. TxMax \in Nat /\ Total(d) \in Nat /\ ConfigLength(d, n) \in Nat
  BY <1>1, ConfigLengthType, DescriptorAssumption
<1>3. DescriptorLength(k[1], d, n) \in Nat
  BY <1>2 DEF DescriptorLength, Shorter
<1>4. Units(d, DescriptorLength(k[1], d, n)) \in Seq(Contents)
  <2> DEFINE m == DescriptorLength(k[1], d, n)
  <2> HIDE DEF m
  <2>1. m \in Nat
    BY <1>3 DEF m
  <2>2. \A i \in 1 .. m : <<d, i>> \in Contents
    BY <1>1, <2>1 DEF Contents
  <2>3. Units(d, m) \in Seq(Contents)
    BY <2>1, <2>2 DEF Units
  <2> QED BY <2>3 DEF m
<1> QED BY <1>1, <1>3, <1>4 DEF d, Descriptor

LEMMA TableStep ==
    ASSUME DescTypeOK, [Next]_vars
    PROVE  DescTypeOK'
<1>1. CASE SetDescriptors
  <2>1. PICK k \in Keys : \E d \in Descs[k] : SetDescriptor(k, d)
    BY <1>1 DEF SetDescriptors, Application
  <2> QED BY <2>1 DEF SetDescriptor, DescTypeOK
<1>2. CASE ~SetDescriptors
  <2>1. table' = table
    BY <1>2 DEF Next, Thread, HandleEvent, ProcessRequest, SetAddress, GetDescriptor, Read, Feature,
       Class, SetConfiguration, Refuse, CallbackReturns, CallbackFailsAgain, ConfigureEndpoint,
       BusReset, HostCompletes, HostGivesUp, HostSetup, Write, HostPacket, vars
  <2> QED BY <2>1 DEF DescTypeOK
<1> QED BY <1>1, <1>2

LEMMA BufferStep ==
    ASSUME StateTypeOK, DescTypeOK, BufferTypeOK, [Next]_vars
    PROVE  BufferTypeOK'
<1>1. request \in Requests /\ request.wLength \in Nat /\ BufferOK(tx)
  BY RequestsAssumption DEF StateTypeOK, BufferTypeOK, BufferOK
<1>2. CASE SetAddress \/ Feature \/ Refuse \/ CallbackReturns \/ CallbackFailsAgain
  <2>1. \E ack : Returns(ack, tx)
    BY <1>2, Zenon DEF SetAddress, Feature, Refuse, CallbackReturns, CallbackFailsAgain
  <2> QED BY <1>1, <2>1, ReturnsOK
<1>3. CASE GetDescriptor
  <2>1. CASE GetsDescriptor(Sought) /\ Returns(TRUE, Holds(Descriptor(Sought, request.wLength)))
    <3>1. Descriptor(Sought, request.wLength) \in Seq(Contents)
      BY <1>1, <2>1, DescriptorType DEF GetsDescriptor
    <3> QED BY <1>1, <2>1, <3>1, HoldsOK, ReturnsOK
  <2>2. CASE Returns(FALSE, IF Found(Sought) # NoDesc THEN Empty ELSE tx)
    BY <1>1, <2>2, EmptyOK, ReturnsOK
  <2> QED BY <1>3, <2>1, <2>2 DEF GetDescriptor
<1>4. CASE Read
  <2>1. Number(configuration) \in Contents
    BY NumberType DEF StateTypeOK
  <2>2. \A n \in 0 .. 1 : Status(n) \in Seq(Contents)
    BY NumberType DEF Status
  <2>3. ASSUME NEW n \in 0 .. 1, Returns(TRUE, Holds(Status(n))) PROVE BufferTypeOK'
    BY <1>1, <2>2, <2>3, HoldsOK, ReturnsOK
  <2>4. CASE Returns(TRUE, Inserted(Number(configuration)))
    BY <1>1, <2>1, <2>4, InsertedOK, ReturnsOK
  <2>5. CASE Returns(TRUE, Holds(Status(IF request.wIndex \in halt THEN 1 ELSE 0)))
    <3>1. (IF request.wIndex \in halt THEN 1 ELSE 0) \in 0 .. 1
      OBVIOUS
    <3> QED BY <2>3, <2>5, <3>1, Zenon
  <2>6. CASE Returns(TRUE, Holds(Status(0)))
    <3>1. 0 \in 0 .. 1
      OBVIOUS
    <3> QED BY <2>3, <2>6, <3>1, Zenon
  <2> QED BY <1>4, <2>4, <2>5, <2>6, Zenon DEF Read
<1>5. CASE Class
  <2>1. LineCoding \in Seq(Contents)
    BY NumberType DEF LineCoding
  <2>2. BufferOK(Holds(LineCoding))
    BY <2>1, HoldsOK
  <2>3. \E ack, b : Returns(ack, b) /\ (b = Holds(LineCoding) \/ b = Empty)
    <3> DEFINE ack == request.bRequest \in ClassAnswers
               b == IF request.bRequest = "GET_LINE_CODING" THEN Holds(LineCoding) ELSE Empty
    <3>1. Returns(ack, b) /\ (b = Holds(LineCoding) \/ b = Empty)
      BY <1>5, Zenon DEF Class
    <3> QED BY <3>1, Zenon
  <2> QED BY <1>1, <2>2, <2>3, EmptyOK, ReturnsOK
<1>6. CASE BusReset
  <2>1. \E n \in 0 .. tx.rem : tx' = Sent(tx, n)
    <3>1. PICK n \in 0 .. tx.rem : tx' = Sent(tx, IF resp THEN n ELSE 0)
      BY <1>6 DEF BusReset
    <3>2. (IF resp THEN n ELSE 0) \in 0 .. tx.rem
      BY DEF BufferTypeOK
    <3> QED BY <3>1, <3>2
  <2>2. BufferOK(tx')
    BY <1>1, <2>1, SentOK
  <2> QED BY <2>2 DEF BufferOK, BufferTypeOK
<1>7. CASE HostCompletes
  <2>1. tx' = Sent(tx, tx.rem) /\ tx.rem \in 0 .. tx.rem
    BY <1>7 DEF HostCompletes, BufferTypeOK
  <2>2. BufferOK(tx')
    BY <1>1, <2>1, SentOK
  <2> QED BY <2>2 DEF BufferOK, BufferTypeOK
<1>8. CASE UNCHANGED tx
  BY <1>8 DEF BufferTypeOK
<1>9. CASE \/ SetConfiguration \/ HandleEvent \/ SetDescriptors \/ HostGivesUp
           \/ (\E r \in Requests : HostSetup(r)) \/ UNCHANGED vars
           \/ \E e \in Endpoints : ConfigureEndpoint(e) \/ Write(e) \/ HostPacket(e)
  BY <1>8, <1>9 DEF SetConfiguration, HandleEvent, SetDescriptors, HostGivesUp, HostSetup,
     ConfigureEndpoint, Write, HostPacket, vars
<1> QED BY <1>2, <1>3, <1>4, <1>5, <1>6, <1>7, <1>9, Zenon DEF Next, Thread, ProcessRequest

\* The types of the tables, of m_tx_buffer and of the device's and the host's state, in
\* every behaviour: an answer that is sent never reaches behind what m_tx_buffer holds.
THEOREM DeviceTypeCorrect == Spec => []DeviceTypeOK
<1>1. Init => DescTypeOK /\ BufferTypeOK
  <2>1. Init => tx = Empty
    BY DEF Init
  <2> QED BY <2>1, EmptyOK DEF Init, DescInit, DescTypeOK, BufferOK, BufferTypeOK
<1>2. DeviceInv => StateTypeOK
  BY DEF DeviceInv
<1>3. StateTypeOK /\ DescTypeOK /\ BufferTypeOK /\ [Next]_vars => (DescTypeOK /\ BufferTypeOK)'
  BY TableStep, BufferStep
<1>4. StateTypeOK /\ DescTypeOK /\ BufferTypeOK => DeviceTypeOK
  BY DEF DeviceTypeOK
<1> QED BY <1>1, <1>2, <1>3, <1>4, DeviceInvariant, PTL DEF Spec

-----------------------------------------------------------------------------
(***************************************************************************)
(* Host and device agree.                                                  *)
(***************************************************************************)
\* USB_core::set_configuration and ep_unconfig: outside the callback no endpoint is
\* active that the current configuration does not have, whatever failed in the callback
\* and whenever a reset came, unless the callback has refused 0 as well.
THEOREM OnlyConfiguredActive == Spec => []ActiveIsConfigured
<1>1. DeviceInv => ActiveIsConfigured
  BY DEF DeviceInv, OutsideCallback, ActiveIsConfigured
<1> QED BY <1>1, DeviceInvariant, PTL

\* Host and device agree on the configuration between requests.
THEOREM HostKnowsConfiguration == Spec => []ConfigurationAgreed
<1>1. DeviceInv => ConfigurationAgreed
  BY DEF DeviceInv, Agreed, Settled, ConfigurationAgreed, Quiet, Recovered
<1> QED BY <1>1, DeviceInvariant, PTL

\* An endpoint of a configuration in use tells that the device is not torn.
LEMMA UsedIsSettled ==
    ASSUME DeviceInv, Current # {}, thread # "callback", phase # "executed"
    PROVE  Settled /\ HostHalt = hhalt
BY DEF DeviceInv, InFlight, Current, Settled, HostHalt

\* ep_stall, ep_unstall, ep_config and ep_write: between requests exactly the endpoints
\* the host has halted are halted, except IN endpoints the application has written to
\* since; for those the halt is over without the host knowing.
THEOREM HostKnowsHalts == Spec => []HaltAgreed
<1>1. DeviceInv => HaltAgreed
  <2> SUFFICES ASSUME DeviceInv, Quiet
               PROVE  halt \cap Current = hhalt \ written
    BY DEF HaltAgreed
  <2>1. CASE Current = {}
    BY <2>1 DEF DeviceInv, InFlight
  <2>2. CASE Current # {}
    <3>1. Settled /\ HostHalt = hhalt
      BY <2>2, UsedIsSettled DEF Quiet, Recovered
    <3> QED BY <3>1 DEF DeviceInv, Agreed
  <2> QED BY <2>1, <2>2
<1> QED BY <1>1, DeviceInvariant, PTL

\* ep_config, ep_stall and ep_unstall: the next data PID of an endpoint the host uses is
\* the one it expects, through halts, clears and reconfigurations.
THEOREM TogglesAgree == Spec => []ToggleAgreed
<1>1. DeviceInv => ToggleAgreed
  <2> SUFFICES ASSUME DeviceInv, Quiet, NEW e \in Current \ hhalt
               PROVE  pid[e] = hpid[e]
    BY DEF ToggleAgreed
  <2>1. Settled /\ HostHalt = hhalt
    BY UsedIsSettled DEF Quiet, Recovered
  <2> QED BY <2>1 DEF DeviceInv, Agreed
<1> QED BY <1>1, DeviceInvariant, PTL

-----------------------------------------------------------------------------
(***************************************************************************)
(* The device's answers: what a step that answers puts into m_tx_buffer    *)
(* is what the host will read, cut to wLength.                             *)
(***************************************************************************)
\* An answer to a transfer of the host.
LEMMA Answers ==
    ASSUME phase = "requested", request.dir = "in", NEW b, Returns(TRUE, b)
    PROVE  tx' = [b EXCEPT !.rem = Shorter(@, request.wLength)]
BY DEF Returns, Answer

\* The host reads the beginning of what the buffer was reset to hold.
LEMMA HeldAnswer ==
    ASSUME phase = "requested", request.dir = "in", request \in Requests,
           NEW data \in Seq(Contents), Returns(TRUE, Holds(data)), Len(data) <= TxMax
    PROVE  Reply' = SubSeq(data, 1, Shorter(Len(data), request.wLength))
<1> DEFINE h == Holds(data)
           m == Len(data)
           n == Shorter(m, request.wLength)
<1>1. request.wLength \in Nat /\ TxMax \in Nat /\ m \in Nat /\ m <= TxMax /\ m \in 0 .. m
  BY RequestsAssumption, DescriptorAssumption
<1>2. Shorter(m, TxMax) = m /\ n \in 0 .. m
  BY <1>1 DEF Shorter
<1>3. h.rest = SubSeq(data, 1, m) /\ h.rem = m
      /\ h \in [rest : Seq(Contents), rem : Nat, room : Nat]
  BY <1>2, HoldsOK DEF BufferOK
<1>4. tx' = [h EXCEPT !.rem = Shorter(@, request.wLength)]
  BY Answers
<1> HIDE DEF h
<1>5. tx'.rest = SubSeq(data, 1, m) /\ tx'.rem = n
  BY <1>3, <1>4
<1>6. SubSeq(SubSeq(data, 1, m), 1, n) = SubSeq(data, 1, n)
  BY <1>1, <1>2, BeginningOfBeginning
<1> QED BY <1>5, <1>6 DEF Reply

\* GET_CONFIGURATION behind a buffer that holds nothing.
LEMMA InsertedAnswer ==
    ASSUME phase = "requested", request.dir = "in", BufferTypeOK, request.wLength = 1,
           NEW u \in Contents, Returns(TRUE, Inserted(u)), tx.rest = <<>>, tx.room > 0
    PROVE  Reply' = <<u>>
<1>1. /\ tx.rest \in Seq(Contents) /\ tx.rem \in Nat /\ tx.room \in Nat
      /\ tx.rem <= Len(tx.rest)
  BY DEF BufferTypeOK
<1>2. tx.rem = 0
  <2>1. Len(<<>>) = 0
    OBVIOUS
  <2> QED BY <1>1, <2>1
<1>3. Inserted(u) = [rest |-> <<u>>, rem |-> 1, room |-> tx.room - 1]
  BY <1>1, <1>2 DEF Inserted
<1>4. tx' = [Inserted(u) EXCEPT !.rem = Shorter(@, 1)]
  BY Answers
<1>5. tx'.rest = <<u>> /\ tx'.rem = 1
  BY <1>3, <1>4 DEF Shorter
<1>6. SubSeq(<<u>>, 1, 1) = <<u>>
  <2> DEFINE s == <<u>>
             t == SubSeq(s, 1, 1)
  <2>1. s \in Seq({u}) /\ Len(s) = 1 /\ 1 \in 0 .. Len(s)
    OBVIOUS
  <2> HIDE DEF s
  <2>2. t \in Seq({u}) /\ Len(t) = 1 /\ \A i \in 1 .. 1 : t[i] = s[i]
    BY <2>1, Beginning
  <2> HIDE DEF t
  <2>3. t = s
    BY <2>1, <2>2
  <2> QED BY <2>3 DEF s, t
<1> QED BY <1>5, <1>6 DEF Reply

LEMMA AnswerIsTrue ==
    ASSUME DeviceInv, DescTypeOK, BufferTypeOK, Next,
           request.dir = "in", phase = "requested", phase' = "executed", resp'
    PROVE  TrueAnswer
<1>1. request \in Requests /\ request.wLength \in Nat
  BY RequestsAssumption DEF DeviceInv, StateTypeOK
<1>2. CASE CallbackReturns \/ CallbackFailsAgain
  <2>1. Asked("DEVICE", "SET_CONFIGURATION")
    BY <1>2 DEF DeviceInv, InCallback, ToConfigure, CallbackReturns, CallbackFailsAgain
  <2> QED BY <2>1 DEF TrueAnswer, Asked
<1>3. CASE ProcessRequest
  <2>1. thread = "respond" /\ phase # "executed"
    BY <1>3 DEF ProcessRequest
  <2>2. CASE SetConfiguration
    BY <2>2 DEF SetConfiguration
  <2>3. CASE Refuse
    BY <2>3 DEF Refuse, Returns
  <2>4. CASE SetAddress \/ Feature \/ Class
    BY <2>4 DEF SetAddress, Feature, Class, TrueAnswer, Asked
  <2>5. CASE Read
    <3>1. CASE (Asked("DEVICE", "GET_STATUS") \/ Asked("INTERFACE", "GET_STATUS"))
      BY <3>1 DEF TrueAnswer, Asked
    <3>2. CASE /\ Asked("DEVICE", "GET_CONFIGURATION") /\ ValidGetConfiguration
               /\ Returns(TRUE, Inserted(Number(configuration)))
      <4>1. ASSUME hconf # NotSet, ~torn, tx.rest = <<>>, tx.room > 0
            PROVE  Reply' = <<Number(hconf)>>
        <5>1. configuration = hconf /\ configuration \in Nat
          BY <2>1, <4>1 DEF Settled, DeviceInv, Agreed, StateTypeOK
        <5>2. Number(configuration) \in Contents
          BY <5>1, NumberType
        <5>3. Reply' = <<Number(configuration)>>
          BY <3>2, <4>1, <5>2, InsertedAnswer DEF ValidGetConfiguration
        <5> QED BY <5>1, <5>3
      <4>2. ~Asked("ENDPOINT", "GET_STATUS") /\ ~Asked("DEVICE", "GET_DESCRIPTOR")
        BY <3>2 DEF Asked
      <4> QED BY <4>1, <4>2, Zenon DEF TrueAnswer
    <3>3. CASE /\ Asked("ENDPOINT", "GET_STATUS")
               /\ Returns(TRUE, Holds(Status(IF request.wIndex \in halt THEN 1 ELSE 0)))
      <4> DEFINE n == IF request.wIndex \in halt THEN 1 ELSE 0
      <4>1. request.wIndex \in Current
        BY <3>3 DEF DeviceInv, InFlight, IsFeature, Asked
      <4>2. Settled /\ HostHalt = hhalt
        BY <2>1, <4>1, UsedIsSettled
      <4>3. request.wIndex \in halt <=> request.wIndex \in hhalt \ written
        BY <4>1, <4>2 DEF DeviceInv, Agreed
      <4>4. Status(n) \in Seq(Contents) /\ Len(Status(n)) = 2
        BY NumberType DEF Status
      <4>5. Reply' = SubSeq(Status(n), 1, Shorter(2, request.wLength))
        <5> HIDE DEF n
        <5>1. Returns(TRUE, Holds(Status(n)))
          BY <3>3, Zenon DEF n
        <5>2. Reply' = SubSeq(Status(n), 1, Shorter(Len(Status(n)), request.wLength))
          BY <1>1, <4>4, <5>1, HeldAnswer
        <5> QED BY <4>4, <5>2
      <4>6. n = IF request.wIndex \in hhalt \ written THEN 1 ELSE 0
        BY <4>3
      <4>7. ~Asked("DEVICE", "GET_CONFIGURATION") /\ ~Asked("DEVICE", "GET_DESCRIPTOR")
        BY <3>3 DEF Asked
      <4> HIDE DEF n
      <4> QED BY <4>5, <4>6, <4>7 DEF TrueAnswer
    <3> QED BY <2>5, <3>1, <3>2, <3>3 DEF Read
  <2>6. CASE GetDescriptor
    <3>1. ~Asked("DEVICE", "GET_CONFIGURATION") /\ ~Asked("ENDPOINT", "GET_STATUS")
      BY <2>6 DEF GetDescriptor, Asked
    <3>2. GetsDescriptor(Sought) /\ Returns(TRUE, Holds(Descriptor(Sought, request.wLength)))
      BY <2>6 DEF GetDescriptor, Returns
    <3>3. ASSUME request.wValue[1] = "CONFIGURATION", Total(Found(Sought)) <= TxMax
          PROVE  Reply' = Units(Found(Sought), Shorter(request.wLength, Total(Found(Sought))))
      <4> DEFINE d == Found(Sought)
                 n == request.wLength
                 l == ConfigLength(d, n)
      <4>1. d \in AllDescs /\ Descriptor(Sought, n) \in Seq(Contents)
        BY <1>1, <3>2, DescriptorType DEF GetsDescriptor
      <4>2. Sought[1] = "CONFIGURATION"
        BY <3>3 DEF Sought, Key
      <4>3. Descriptor(Sought, n) = Units(d, l)
        BY <4>2 DEF Descriptor, DescriptorLength
      <4> HIDE DEF d
      <4>4. l \in Nat /\ l <= Total(d) /\ Total(d) \in Nat /\ Total(d) <= TxMax /\ TxMax \in Nat
        BY <1>1, <3>3, <4>1, ConfigLengthType, DescriptorAssumption DEF d
      <4>5. Shorter(n, l) = Shorter(n, Total(d)) /\ Shorter(l, n) = Shorter(n, l)
            /\ Shorter(l, n) \in 0 .. l
        <5>1. Shorter(n, l) = Shorter(n, Total(d))
          BY <1>1, <4>1, <4>4, WholeOrCut
        <5> HIDE DEF l, n
        <5>2. n \in Nat
          BY <1>1 DEF n
        <5> QED BY <4>4, <5>1, <5>2 DEF Shorter
      <4> HIDE DEF l
      <4>6. Len(Units(d, l)) = l /\ SubSeq(Units(d, l), 1, Shorter(l, n)) = Units(d, Shorter(l, n))
        BY <4>4, <4>5, UnitsType
      <4>7. Reply' = SubSeq(Units(d, l), 1, Shorter(Len(Units(d, l)), n))
        <5> DEFINE data == Descriptor(Sought, n)
        <5>1. data \in Seq(Contents) /\ Len(data) <= TxMax /\ Returns(TRUE, Holds(data))
          <6>1. data = Units(d, l) /\ data \in Seq(Contents) /\ Returns(TRUE, Holds(data))
            BY <3>2, <4>1, <4>3
          <6> HIDE DEF data
          <6>2. Len(data) = l
            BY <4>6, <6>1, Zenon
          <6>3. l <= TxMax
            BY <4>4
          <6>4. Len(data) <= TxMax
            BY <6>2, <6>3, Zenon
          <6> QED BY <6>1, <6>4, Zenon
        <5> HIDE DEF data
        <5>2. Reply' = SubSeq(data, 1, Shorter(Len(data), n))
          BY <1>1, <5>1, HeldAnswer
        <5> QED BY <4>3, <5>2 DEF data
      <4> QED BY <4>5, <4>6, <4>7 DEF d
    <3> QED BY <3>1, <3>3 DEF TrueAnswer
  <2> QED BY <1>3, <2>2, <2>3, <2>4, <2>5, <2>6 DEF ProcessRequest
<1>4. CASE \/ HandleEvent \/ SetDescriptors \/ BusReset \/ HostCompletes \/ HostGivesUp
           \/ (\E r \in Requests : HostSetup(r))
           \/ \E e \in Endpoints : ConfigureEndpoint(e) \/ Write(e) \/ HostPacket(e)
  BY <1>4 DEF HandleEvent, SetDescriptors, BusReset, HostCompletes, HostGivesUp, HostSetup,
     ConfigureEndpoint, Write, HostPacket, Transfer!Drop, Transfer!Complete, Transfer!Start
<1> QED BY <1>2, <1>3, <1>4, Zenon DEF Next, Thread

\* What the device answers with an ACK is true for the host: the halt of an endpoint;
\* the descriptor in the table, whole or cut to wLength; and the configuration, as long
\* as nothing is left in m_tx_buffer, which GET_CONFIGURATION does not reset.
THEOREM AnswersTrue == Spec => AnswersAreTrue
<1>1. DeviceInv /\ DeviceTypeOK /\ [Next]_vars =>
          [request.dir = "in" /\ phase = "requested" /\ phase' = "executed" /\ resp'
               => TrueAnswer]_vars
  BY AnswerIsTrue DEF DeviceTypeOK
<1> QED BY <1>1, DeviceInvariant, DeviceTypeCorrect, PTL DEF Spec, AnswersAreTrue
=============================================================================
