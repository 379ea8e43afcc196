-------------------------------- MODULE Codecs --------------------------------
(***************************************************************************)
(* The formats on the wire: packets and descriptors as sequences of bytes, *)
(* little-endian, and the C++ objects as records.  A deserialize that can  *)
(* fail gives a record whose field ok tells whether it did.                *)
(***************************************************************************)
EXTENDS Integers, Sequences

Byte == 0 .. 255
U16  == {n \in Nat : n <= 65535}
U32  == {n \in Nat : n <= 4294967295}

\* Byte_util, by its use: b0 is the least significant byte, make_* takes the most
\* significant one first.
b0(x) == x % 256
b1(x) == (x \div 256) % 256
b2(x) == (x \div 65536) % 256
b3(x) == (x \div 16777216) % 256
make_u16(h, l)       == 256 * h + l
make_u32(h, u, v, l) == 16777216 * h + 65536 * u + 256 * v + l

\* Buffer_adapter_base_T::insert, with room for n more bytes: the rest is dropped.
Inserted(bytes, n) == SubSeq(bytes, 1, IF Len(bytes) <= n THEN Len(bytes) ELSE n)

-----------------------------------------------------------------------------
(* Setup packets; notifications have the same form (code is bRequest or    *)
(* bNotification).                                                         *)

Header == [bmRequestType : Byte, code : Byte, wValue : U16, wIndex : U16, wLength : U16]

SerializeHeader(p) ==
    << p.bmRequestType, p.code, b0(p.wValue), b1(p.wValue),
       b0(p.wIndex), b1(p.wIndex), b0(p.wLength), b1(p.wLength) >>

DeserializeHeader(a) ==
    [bmRequestType |-> a[1], code |-> a[2], wValue |-> make_u16(a[4], a[3]),
     wIndex |-> make_u16(a[6], a[5]), wLength |-> make_u16(a[8], a[7])]

-----------------------------------------------------------------------------
(* Request_type: direction, type and recipient, by their numbers. *)

RequestType == [data_dir : 0 .. 1, type : 0 .. 3, recipient : 0 .. 3]

SerializeRequestType(r) == 128 * r.data_dir + 32 * r.type + r.recipient

DeserializeRequestType(b) ==
    [ok |-> b % 32 <= 3,
     data_dir |-> b \div 128, type |-> (b \div 32) % 4, recipient |-> b % 32]

\* Get_descriptor: a wValue is a descriptor's type and index.
SerializeGetDescriptor(type, idx) == make_u16(type, idx)
DeserializeGetDescriptor(w)       == [type |-> b1(w), idx |-> b0(w)]

-----------------------------------------------------------------------------
(* Descriptors; the first two bytes are bLength and bDescriptorType.  Of   *)
(* the fields between, only what is not a copy has a name.                 *)

\* Endpoint_descriptor.
Endpoint == [bEndpointAddress : Byte, bmAttributes : Byte, wMaxPacketSize : U16, bInterval : Byte]

SerializeEndpoint(d) ==
    << 7, 5, d.bEndpointAddress, d.bmAttributes,
       b0(d.wMaxPacketSize), b1(d.wMaxPacketSize), d.bInterval >>

DeserializeEndpoint(a) ==
    [ok |-> a[1] = 7 /\ a[2] = 5,
     desc |-> [bEndpointAddress |-> a[3], bmAttributes |-> a[4],
               wMaxPacketSize |-> make_u16(a[6], a[5]), bInterval |-> a[7]]]

\* Configuration_descriptor; counts is << bNumInterfaces, bConfigurationValue, iConfiguration >>.
Configuration == [wTotalLength : U16, counts : Byte \X Byte \X Byte, bmAttributes : Byte, bMaxPower : Byte]

Reserved1(attributes) == IF attributes < 128 THEN attributes + 128 ELSE attributes  \* | 0x80

SerializeConfiguration(d) ==
    << 9, 2, b0(d.wTotalLength), b1(d.wTotalLength), d.counts[1], d.counts[2], d.counts[3],
       Reserved1(d.bmAttributes), d.bMaxPower >>

DeserializeConfiguration(a) ==
    [ok |-> a[1] = 9 /\ a[2] = 2,
     desc |-> [wTotalLength |-> make_u16(a[4], a[3]), counts |-> <<a[5], a[6], a[7]>>,
               bmAttributes |-> a[8], bMaxPower |-> a[9]]]

\* Any of them into a buffer with room for n bytes: nothing unless it fits.
SerializeInto(bytes, n) ==
    IF n < Len(bytes) THEN [ok |-> FALSE, bytes |-> <<>>] ELSE [ok |-> TRUE, bytes |-> Inserted(bytes, n)]

\* String descriptors, by lengths: n characters, or n languages for string zero.  size() is
\* the announced bLength, Written what serialize inserts; string zero loops bLength times.
StrLenMax == 126
Characters(n)       == IF n <= StrLenMax THEN n ELSE StrLenMax
StringSize(n)       == IF 2 + 2 * Characters(n) <= 254 THEN 2 + 2 * Characters(n) ELSE 254
StringWritten(n)    == 2 + 2 * Characters(n)
LanguagesSize(n)    == (2 + 2 * n) % 256
LanguagesWritten(n) == 2 + 2 * LanguagesSize(n)

-----------------------------------------------------------------------------
(* CDC. *)

LineCoding == [dwDTERRate : U32, bCharFormat : 0 .. 2, bParityType : 0 .. 4, bDataBits : {5, 6, 7, 8, 16}]

SerializeLineCoding(c) ==
    << b0(c.dwDTERRate), b1(c.dwDTERRate), b2(c.dwDTERRate), b3(c.dwDTERRate),
       c.bCharFormat, c.bParityType, c.bDataBits >>

\* A field out of range keeps its old value, the others are set nevertheless.
DeserializeLineCoding(old, a) ==
    LET Known(field, value, known) == IF value \in known THEN value ELSE old[field]
    IN  IF Len(a) # 7
        THEN [ok |-> FALSE, coding |-> old]
        ELSE [ok |-> a[5] \in 0 .. 2 /\ a[6] \in 0 .. 4 /\ a[7] \in {5, 6, 7, 8, 16},
              coding |-> [dwDTERRate  |-> make_u32(a[1], a[2], a[3], a[4]),
                          bCharFormat |-> Known("bCharFormat", a[5], 0 .. 2),
                          bParityType |-> Known("bParityType", a[6], 0 .. 4),
                          bDataBits   |-> Known("bDataBits", a[7], {5, 6, 7, 8, 16})]]

\* A notification with its data, into an empty buffer of n bytes: fails only when the
\* header does not fit.
SerializeNotification(p, payload, n) ==
    [ok |-> n >= 8, bytes |-> Inserted(SerializeHeader(p) \o (IF n >= 8 THEN payload ELSE <<>>), n)]

\* The data of SERIAL_STATE, two bytes, and CONNECTION_SPEED_CHANGE, eight; deserialize
\* checks that there are two, in both cases.
UartState(s)          == << b0(s), b1(s) >>
Speeds(dl, ul)        == << b0(dl), b1(dl), b2(dl), b3(dl), b0(ul), b1(ul), b2(ul), b3(ul) >>
DeserializeUartState(a) == [ok |-> Len(a) = 2, state |-> make_u16(a[2], a[1])]
SpeedsAccepted(a)     == Len(a) = 2
SpeedsRead            == 1 .. 8  \* the places deserialize then reads
=============================================================================
