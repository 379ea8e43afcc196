---------------------------- MODULE MCControlPipe ----------------------------
(* Instances of ControlPipe for TLC.  A packet is two units; a set of        *)
(* requests is chosen for the question a run asks.                           *)
EXTENDS ControlPipeInv

MCEps == {0}
MCIds == 0 .. 1
OneId == {0}

Request(i, dir, len, reply, resp, fresh, addr) ==
    [id |-> i, dir |-> dir, len |-> len, reply |-> reply, resp |-> resp, fresh |-> fresh, addr |-> addr]

Get(len, reply) == {Request(i, "in", len, reply, "ACK", TRUE, NoAddr) : i \in MCIds}
Put(len)        == {Request(i, "out", len, 0, "ACK", TRUE, NoAddr) : i \in MCIds}
SetAddress(a)   == {Request(i, "out", 0, 0, "ACK", TRUE, a) : i \in MCIds}
Refused         == {Request(i, "in", 2, 0, "FAIL", TRUE, NoAddr) : i \in MCIds}
Invalid         == {Request(i, "in", 2, 0, "INVALID", TRUE, NoAddr) : i \in MCIds}
GetConfiguration == {Request(i, "in", 1, 1, "ACK", FALSE, NoAddr) : i \in MCIds}

\* All zero, as a static object starts: GET_STATUS of the device, host to device.
ZeroPacket == Request(-1, "out", 0, 0, "ACK", TRUE, NoAddr)

\* Replies of one packet and of two, cut short, padded with a short packet or
\* an empty one; payloads of one packet and of two; an address; a refusal; a
\* request that is not one.
Ordinary == Get(3, 3) \cup Get(4, 1) \cup Get(4, 2) \cup Get(1, 3) \cup Put(3) \cup Put(0)
            \cup SetAddress(5) \cup Refused \cup Invalid

\* A reply that is exactly as long as the host asked for, in full packets.
ExactLength == Get(2, 2)
Long        == Get(3, 3) \cup Put(3)
Interrupted == Get(3, 3) \cup SetAddress(5)
TooLong     == Put(5) \cup Put(3)
Abandoned == {s \in Get(2, 2) \cup Put(2) : s.id \in OneId}
Configuration == Get(1, 3) \cup GetConfiguration
=============================================================================
