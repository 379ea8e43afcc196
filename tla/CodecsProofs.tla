----------------------------- MODULE CodecsProofs -----------------------------
(* What deserialize makes of what serialize wrote, for every value. *)
EXTENDS Codecs, SequenceTheorems, TLAPS

LEMMA Bytes16 ==
    ASSUME NEW x \in U16
    PROVE  /\ b0(x) \in Byte /\ b1(x) \in Byte
           /\ make_u16(b1(x), b0(x)) = x
<1> DEFINE q == x \div 256
<1>1. x \in Int /\ 0 <= x /\ x <= 65535
  BY DEF U16
<1>2. /\ q \in Int /\ 0 <= q /\ q <= 255
      /\ x % 256 \in 0 .. 255 /\ 256 * q + (x % 256) = x
  BY <1>1, SMT
<1> HIDE DEF q
<1>3. q % 256 = q
  BY <1>2, SMT
<1>4. b0(x) = x % 256 /\ b1(x) = q
  BY <1>3 DEF b0, b1, q
<1> QED BY <1>2, <1>4 DEF make_u16, Byte

LEMMA Halves ==
    ASSUME NEW h \in Byte, NEW l \in Byte
    PROVE  /\ make_u16(h, l) \in U16
           /\ b1(make_u16(h, l)) = h /\ b0(make_u16(h, l)) = l
<1> DEFINE x == 256 * h + l
<1>1. h \in Int /\ 0 <= h /\ h <= 255 /\ l \in Int /\ 0 <= l /\ l <= 255
  BY DEF Byte
<1>2. x \in U16
  <2>1. x \in Int /\ 0 <= x /\ x <= 65535
    BY <1>1
  <2> HIDE DEF x
  <2> QED BY <2>1 DEF U16
<1>3. x \div 256 = h
  BY <1>1, SMT
<1>4. x % 256 = l
  BY <1>1, SMT
<1>5. h % 256 = h
  BY <1>1, SMT
<1> QED BY <1>2, <1>3, <1>4, <1>5, Zenon DEF make_u16, b0, b1

\* A setup or notification packet is read as it was written, and every eight bytes are
\* a packet that is written as they were read (Setup_packet, Notification_packet).
THEOREM HeaderRoundTrip ==
    /\ \A p \in Header : DeserializeHeader(SerializeHeader(p)) = p
    /\ \A a \in [1 .. 8 -> Byte] :
          /\ DeserializeHeader(a) \in Header
          /\ SerializeHeader(DeserializeHeader(a)) = a
<1>1. ASSUME NEW p \in Header PROVE DeserializeHeader(SerializeHeader(p)) = p
  <2>1. p.wValue \in U16 /\ p.wIndex \in U16 /\ p.wLength \in U16
    BY DEF Header
  <2> QED BY <2>1, Bytes16 DEF DeserializeHeader, SerializeHeader, Header
<1>2. ASSUME NEW a \in [1 .. 8 -> Byte]
      PROVE  /\ DeserializeHeader(a) \in Header
             /\ SerializeHeader(DeserializeHeader(a)) = a
  <2>1. \A i \in 1 .. 8 : a[i] \in Byte
    OBVIOUS
  <2>2. DeserializeHeader(a) \in Header
    BY <2>1, Halves DEF DeserializeHeader, Header
  <2>3. SerializeHeader(DeserializeHeader(a)) = <<a[1], a[2], a[3], a[4], a[5], a[6], a[7], a[8]>>
    BY <2>1, Halves DEF DeserializeHeader, SerializeHeader
  <2>4. a = <<a[1], a[2], a[3], a[4], a[5], a[6], a[7], a[8]>>
    OBVIOUS
  <2> QED BY <2>2, <2>3, <2>4
<1> QED BY <1>1, <1>2

\* bmRequestType is accepted exactly when it is one that serialize writes, and is then
\* read as that one: no other byte is taken for a request (Request_type).
THEOREM RequestTypeRoundTrip ==
    /\ \A r \in RequestType :
          /\ SerializeRequestType(r) \in Byte
          /\ DeserializeRequestType(SerializeRequestType(r)) =
                [ok |-> TRUE, data_dir |-> r.data_dir, type |-> r.type, recipient |-> r.recipient]
    /\ \A b \in Byte : DeserializeRequestType(b).ok =>
          \E r \in RequestType : SerializeRequestType(r) = b
<1>1. ASSUME NEW r \in RequestType
      PROVE  /\ SerializeRequestType(r) \in Byte
             /\ DeserializeRequestType(SerializeRequestType(r)) =
                   [ok |-> TRUE, data_dir |-> r.data_dir, type |-> r.type, recipient |-> r.recipient]
  <2>1. r.data_dir \in 0 .. 1 /\ r.type \in 0 .. 3 /\ r.recipient \in 0 .. 3
    BY DEF RequestType
  <2> DEFINE b == 128 * r.data_dir + 32 * r.type + r.recipient
  <2>2. /\ b \in Byte /\ b \div 128 = r.data_dir /\ b % 32 = r.recipient
        /\ b \div 32 = 4 * r.data_dir + r.type
    BY <2>1, SMT DEF Byte
  <2>3. (b \div 32) % 4 = r.type
    BY <2>1, <2>2, SMT
  <2>4. SerializeRequestType(r) = b
    BY DEF SerializeRequestType
  <2>5. b % 32 <= 3
    BY <2>1, <2>2
  <2> HIDE DEF b
  <2> QED BY <2>2, <2>3, <2>4, <2>5 DEF DeserializeRequestType
<1>2. ASSUME NEW b \in Byte, DeserializeRequestType(b).ok
      PROVE  \E r \in RequestType : SerializeRequestType(r) = b
  <2> DEFINE r == [data_dir |-> b \div 128, type |-> (b \div 32) % 4, recipient |-> b % 32]
  <2>1. b % 32 <= 3
    BY <1>2 DEF DeserializeRequestType
  <2>2. /\ b \in Int /\ 0 <= b /\ b <= 255
    BY DEF Byte
  <2>3. /\ b \div 128 \in Int /\ 0 <= b \div 128 /\ b \div 128 <= 1
        /\ (b \div 32) % 4 \in 0 .. 3 /\ b % 32 \in 0 .. 3
        /\ 128 * (b \div 128) + 32 * ((b \div 32) % 4) + (b % 32) = b
    BY <2>1, <2>2, SMT
  <2>4. r \in RequestType /\ SerializeRequestType(r) = b
    BY <2>3 DEF RequestType, SerializeRequestType
  <2> QED BY <2>4
<1> QED BY <1>1, <1>2

\* The type and the index of a GET_DESCRIPTOR are those in its wValue (Get_descriptor).
THEOREM GetDescriptorRoundTrip ==
    \A type \in Byte, idx \in Byte :
        DeserializeGetDescriptor(SerializeGetDescriptor(type, idx)) = [type |-> type, idx |-> idx]
  BY Halves DEF DeserializeGetDescriptor, SerializeGetDescriptor

\* An endpoint descriptor is read as it was written; a configuration descriptor too, but
\* for the reserved attribute bit, which serialize sets: writing it again changes nothing.
THEOREM DescriptorRoundTrip ==
    /\ \A d \in Endpoint : DeserializeEndpoint(SerializeEndpoint(d)) = [ok |-> TRUE, desc |-> d]
    /\ \A d \in Configuration :
          LET got == DeserializeConfiguration(SerializeConfiguration(d))
          IN  /\ got = [ok |-> TRUE, desc |-> [d EXCEPT !.bmAttributes = Reserved1(@)]]
              /\ SerializeConfiguration(got.desc) = SerializeConfiguration(d)
<1>1. ASSUME NEW d \in Endpoint
      PROVE  DeserializeEndpoint(SerializeEndpoint(d)) = [ok |-> TRUE, desc |-> d]
  <2>1. d.wMaxPacketSize \in U16
    BY DEF Endpoint
  <2> QED BY <2>1, Bytes16 DEF DeserializeEndpoint, SerializeEndpoint, Endpoint
<1>2. ASSUME NEW d \in Configuration
      PROVE  LET got == DeserializeConfiguration(SerializeConfiguration(d))
             IN  /\ got = [ok |-> TRUE, desc |-> [d EXCEPT !.bmAttributes = Reserved1(@)]]
                 /\ SerializeConfiguration(got.desc) = SerializeConfiguration(d)
  <2> DEFINE n == [d EXCEPT !.bmAttributes = Reserved1(@)]
  <2>1. /\ d.wTotalLength \in U16 /\ d.bmAttributes \in Byte
        /\ d.counts = <<d.counts[1], d.counts[2], d.counts[3]>>
    BY DEF Configuration
  <2>2. Reserved1(Reserved1(d.bmAttributes)) = Reserved1(d.bmAttributes)
    BY <2>1, SMT DEF Reserved1, Byte
  <2>3. n = [wTotalLength |-> d.wTotalLength, counts |-> d.counts,
             bmAttributes |-> Reserved1(d.bmAttributes), bMaxPower |-> d.bMaxPower]
    BY DEF Configuration
  <2>4. DeserializeConfiguration(SerializeConfiguration(d)) = [ok |-> TRUE, desc |-> n]
    BY <2>1, <2>3, Bytes16 DEF DeserializeConfiguration, SerializeConfiguration
  <2>5. SerializeConfiguration(n) = SerializeConfiguration(d)
    BY <2>2, <2>3 DEF SerializeConfiguration
  <2> QED BY <2>4, <2>5
<1> QED BY <1>1, <1>2

\* A string descriptor announces as many bytes as it writes, however long the string is.
THEOREM StringLengthTrue ==
    \A n \in Nat : StringSize(n) = StringWritten(n) /\ StringSize(n) <= 255
  BY SMT DEF StringSize, StringWritten, Characters, StrLenMax

\* String zero never does: its loop counts to bLength, beyond the languages it has.
THEOREM LanguagesLengthFalse ==
    \A n \in Nat : n <= 126 => LanguagesWritten(n) > LanguagesSize(n) /\ LanguagesSize(n) > n
  BY SMT DEF LanguagesWritten, LanguagesSize

\* A line coding that serialize wrote is accepted, and everything but the rate is read as
\* it was written; the rate's bytes are reversed (LINE_CODING).
THEOREM LineCodingReversed ==
    \A c \in LineCoding, old \in LineCoding :
        LET rate == c.dwDTERRate
        IN  DeserializeLineCoding(old, SerializeLineCoding(c)) =
                [ok |-> TRUE,
                 coding |-> [c EXCEPT !.dwDTERRate = make_u32(b0(rate), b1(rate), b2(rate), b3(rate))]]
<1> SUFFICES ASSUME NEW c \in LineCoding, NEW old \in LineCoding,
                    NEW rate, rate = c.dwDTERRate
             PROVE  DeserializeLineCoding(old, SerializeLineCoding(c)) =
                        [ok |-> TRUE,
                         coding |-> [c EXCEPT !.dwDTERRate = make_u32(b0(rate), b1(rate), b2(rate), b3(rate))]]
  OBVIOUS
<1> DEFINE reversed == make_u32(b0(rate), b1(rate), b2(rate), b3(rate))
           wire     == SerializeLineCoding(c)
<1>1. c.bCharFormat \in 0 .. 2 /\ c.bParityType \in 0 .. 4 /\ c.bDataBits \in {5, 6, 7, 8, 16}
  BY DEF LineCoding
<1>2. [c EXCEPT !.dwDTERRate = reversed] =
          [dwDTERRate |-> reversed, bCharFormat |-> c.bCharFormat,
           bParityType |-> c.bParityType, bDataBits |-> c.bDataBits]
  <2> HIDE DEF reversed
  <2> QED BY DEF LineCoding
<1>3. /\ Len(wire) = 7
      /\ wire[5] = c.bCharFormat /\ wire[6] = c.bParityType /\ wire[7] = c.bDataBits
      /\ make_u32(wire[1], wire[2], wire[3], wire[4]) = reversed
  BY DEF SerializeLineCoding
<1> HIDE DEF wire, reversed
<1>4. DeserializeLineCoding(old, wire) =
          [ok |-> TRUE,
           coding |-> [dwDTERRate |-> reversed, bCharFormat |-> c.bCharFormat,
                       bParityType |-> c.bParityType, bDataBits |-> c.bDataBits]]
  BY <1>1, <1>3 DEF DeserializeLineCoding
<1> QED BY <1>2, <1>4 DEF wire, reversed

\* The common rate 9600 is therefore read as 2149908480 bits per second.
THEOREM Rate9600 == make_u32(b0(9600), b1(9600), b2(9600), b3(9600)) = 2149908480
  BY SMT DEF make_u32, b0, b1, b2, b3

\* The data of a SERIAL_STATE notification is read as it was written; that of a
\* CONNECTION_SPEED_CHANGE is refused, and what is accepted has none of the last six bytes
\* deserialize reads.
THEOREM NotificationData ==
    /\ \A s \in U16 : DeserializeUartState(UartState(s)) = [ok |-> TRUE, state |-> s]
    /\ \A dl \in U32, ul \in U32 : ~SpeedsAccepted(Speeds(dl, ul))
    /\ \A a \in Seq(Byte) : SpeedsAccepted(a) => ~(SpeedsRead \subseteq DOMAIN a)
<1>1. \A s \in U16 : DeserializeUartState(UartState(s)) = [ok |-> TRUE, state |-> s]
  BY Bytes16 DEF DeserializeUartState, UartState
<1>2. \A dl \in U32, ul \in U32 : ~SpeedsAccepted(Speeds(dl, ul))
  BY DEF SpeedsAccepted, Speeds
<1>3. ASSUME NEW a \in Seq(Byte), SpeedsAccepted(a)
      PROVE  ~(SpeedsRead \subseteq DOMAIN a)
  BY <1>3, SMT DEF SpeedsAccepted, SpeedsRead
<1> QED BY <1>1, <1>2, <1>3

LEMMA Appended ==
    ASSUME NEW head \in Seq(Byte), Len(head) = 8, NEW data \in Seq(Byte), Len(data) = 2
    PROVE  head \o data \in Seq(Byte) /\ Len(head \o data) = 10
<1>1. Len(head \o data) = Len(head) + Len(data)
  BY ConcatProperties
<1> QED BY <1>1

\* A notification that serialize reports as written may lack its data: only with room for
\* the whole is it complete (SERIAL_STATE_NOTIFICATION::serialize ignores insert's result).
THEOREM NotificationComplete ==
    \A p \in Header, s \in U16, n \in Nat :
        LET out == SerializeNotification(p, UartState(s), n)
        IN  /\ out.ok => Len(out.bytes) >= 8
            /\ out.ok /\ n >= 10 => Len(out.bytes) = 10
            /\ n \in 8 .. 9 => out.ok /\ Len(out.bytes) < 10
<1> SUFFICES ASSUME NEW p \in Header, NEW s \in U16, NEW n \in Nat
             PROVE  LET out == SerializeNotification(p, UartState(s), n)
                    IN  /\ out.ok => Len(out.bytes) >= 8
                        /\ out.ok /\ n >= 10 => Len(out.bytes) = 10
                        /\ n \in 8 .. 9 => out.ok /\ Len(out.bytes) < 10
  OBVIOUS
<1> DEFINE head == SerializeHeader(p)
           data == UartState(s)
           all  == head \o data
           out  == SerializeNotification(p, data, n)
<1>1. head \in Seq(Byte) /\ Len(head) = 8
  <2>1. /\ p.wValue \in U16 /\ p.wIndex \in U16 /\ p.wLength \in U16
        /\ p.bmRequestType \in Byte /\ p.code \in Byte
    BY DEF Header
  <2> QED BY <2>1, Bytes16 DEF SerializeHeader
<1>2. data \in Seq(Byte) /\ Len(data) = 2
  BY Bytes16 DEF UartState
<1>3. all \in Seq(Byte) /\ Len(all) = 10
  BY <1>1, <1>2, Appended
<1> HIDE DEF head, data
<1> HIDE DEF all
<1>4. Len(Inserted(all, n)) = IF 10 <= n THEN 10 ELSE n
  BY <1>3 DEF Inserted
<1>5. n >= 8 => out.bytes = Inserted(all, n)
  BY DEF SerializeNotification, head, all
<1>6. out.ok <=> n >= 8
  BY DEF SerializeNotification
<1> HIDE DEF out
<1> DEFINE length == Len(out.bytes)
           ok     == out.ok
<1>7. n >= 8 => length = IF 10 <= n THEN 10 ELSE n
  BY <1>4, <1>5, Zenon
<1>8. ok <=> n >= 8
  BY <1>6
<1> HIDE DEF length, ok
<1>9. /\ ok => length >= 8
      /\ ok /\ n >= 10 => length = 10
      /\ n \in 8 .. 9 => ok /\ length < 10
  <2>1. CASE n >= 8
    <3>1. ok /\ length >= 8 /\ (n >= 10 => length = 10) /\ (n \in 8 .. 9 => length < 10)
      BY <1>7, <1>8, <2>1
    <3> QED BY <3>1
  <2>2. CASE ~(n >= 8)
    <3>1. ~ok /\ ~(n \in 8 .. 9)
      BY <1>8, <2>2
    <3> QED BY <3>1
  <2> QED BY <2>1, <2>2
<1> QED BY <1>9 DEF out, data, length, ok
=============================================================================
