------------------------------- MODULE MCDevice -------------------------------
(* Instances of Device for TLC.  Configuration 1 uses both directions of      *)
(* endpoint 1, configuration 2 one of them; configuration 3 makes the other    *)
(* too large for the FIFO RAM; configuration 4 does not exist.                 *)
EXTENDS Device

CONSTANTS dev, short  \* descriptors

In1  == <<"in", 1>>
Out1 == <<"out", 1>>

MCEndpoints    == {In1, Out1}
MCConfigValues == 0 .. 3
MCEpsOf        == [v \in MCConfigValues |->
    CASE v = 0 -> {} [] v = 2 -> {Out1} [] OTHER -> {In1, Out1}]
MCMisfits      == [v \in MCConfigValues |-> IF v = 3 THEN {In1} ELSE {}]
MCKeys         == {<<"DEVICE", NoLang, 0>>, <<"CONFIGURATION", NoLang, 0>>}
MCDescs        == [k \in MCKeys |-> IF k[1] = "DEVICE" THEN {dev} ELSE {short}]
MCEnds         == [d \in {dev, short} |-> IF d = short THEN <<1, 3>> ELSE <<2>>]

Reads == {"GET_STATUS", "GET_DESCRIPTOR", "GET_CONFIGURATION"}
Request(type, recipient, name, value, index, length) ==
    [dir |-> IF name \in Reads THEN "in" ELSE "out",
     type |-> type, recipient |-> recipient, bRequest |-> name, wValue |-> value,
     wIndex |-> index, wLength |-> length]
ToDevice(name, value, index, length) == Request("STANDARD", "DEVICE", name, value, index, length)

Configure == {ToDevice("SET_CONFIGURATION", <<0, v>>, 0, 0) : v \in 0 .. 4}
Features  == {Request("STANDARD", "ENDPOINT", name, <<0, 0>>, In1, IF name = "GET_STATUS" THEN 2 ELSE 0) :
                 name \in {"GET_STATUS", "SET_FEATURE", "CLEAR_FEATURE"}}
Describe  == {ToDevice("GET_DESCRIPTOR", <<"CONFIGURATION", 0>>, NoLang, n) : n \in {2, 8}}
             \cup {ToDevice("GET_DESCRIPTOR", <<"DEVICE", 0>>, NoLang, 8)}
Others    == {ToDevice("SET_ADDRESS", <<0, 0>>, 0, 0), ToDevice("SET_ADDRESS", <<0, 200>>, 0, 0),
              ToDevice("GET_CONFIGURATION", <<0, 0>>, 0, 1),
              Request("STANDARD", "INTERFACE", "GET_STATUS", <<0, 0>>, 0, 2),
              Request("CLASS", "INTERFACE", "SEND_BREAK", <<0, 0>>, 0, 0)}

MCRequests == Configure \cup Features \cup Describe \cup Others
=============================================================================
