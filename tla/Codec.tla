------------------------------- MODULE Codec -------------------------------
(***************************************************************************)
(* common/Message.cpp: the three messages as bytes, and what the receiver  *)
(* makes of the bytes of a datagram.                                       *)
(*                                                                         *)
(* A message is a header (two magic bytes, a hash and a size), the action, *)
(* the message id and the fields of its own.  Integers are big-endian.     *)
(* The names of the fields are those of Datagrams; an endpoint is the four *)
(* bytes of an address and a port.                                         *)
(***************************************************************************)
EXTENDS Naturals, Sequences

CONSTANTS
  Base,               \* how many values a byte has: 256
  kNetworkBufferSize, \* 1472
  kFnv1aSeed,         \* the parameters of the hash, as large as fit in
  kFnv1aPrime,        \* the eight bytes of a uint64_t
  ByteXor             \* the exclusive or of two bytes, as a table

Byte == 0 .. Base - 1

(* How many values two, four and eight bytes have, and the types.          *)
Base2 == Base * Base
Base4 == Base2 * Base2
Base8 == Base4 * Base4

UInt16 == 0 .. Base2 - 1
UInt32 == 0 .. Base4 - 1
UInt64 == 0 .. Base8 - 1

(* The sizes of messages fit in a header, and a buffer has room for the    *)
(* largest message and a header more, which the hash looks at.             *)
ASSUME CodecAssumption ==
  /\ Base \in Nat /\ Base > 2
  /\ kNetworkBufferSize \in Nat /\ kNetworkBufferSize >= 48
  /\ kFnv1aSeed \in UInt64
  /\ kFnv1aPrime \in Nat
  /\ ByteXor \in [Byte \X Byte -> Byte]

kMessageHeaderSize == 2 + 8 + 4
kMessageSize == kMessageHeaderSize + 4 + 4
PayloadSize == [Login |-> 4 + 4 + 2, Ping |-> 4 + 8, Acknowledge |-> 8]

kMagicBytes == <<190 % Base, 239 % Base>>
Action == [Acknowledge |-> 1, Login |-> 2, Ping |-> 3]

LoginMessage ==
  [action : {"Login"}, messageId : UInt32, session : UInt32,
   address : [1 .. 4 -> Byte], port : UInt16]
PingMessage ==
  [action : {"Ping"}, messageId : UInt32, playerId : UInt32, lastAck : UInt64]
AcknowledgeMessage ==
  [action : {"Acknowledge"}, messageId : UInt32, acked : UInt64]

Message == LoginMessage \cup PingMessage \cup AcknowledgeMessage

-----------------------------------------------------------------------------
(* Variant of Put16_BE: the lowest byte first.                             *)
Put16_LE(value) == <<value % Base, (value \div Base) % Base>>

(* MemoryWriter: the bytes of an unsigned integer, the first the highest.  *)
Put16_BE(value) == <<(value \div Base) % Base, value % Base>>
Put32_BE(value) == Put16_BE(value \div Base2) \o Put16_BE(value % Base2)
Put64_BE(value) == Put32_BE(value \div Base4) \o Put32_BE(value % Base4)

(* MemoryReader: the bytes at an offset, and 0 unless all are there.       *)
Read(bytes, offset) ==
  IF offset + 1 <= Len(bytes) THEN bytes[offset + 1] ELSE 0

Read16_BE(bytes, offset) ==
  IF offset + 2 <= Len(bytes)
  THEN Read(bytes, offset) * Base + Read(bytes, offset + 1)
  ELSE 0

Read32_BE(bytes, offset) ==
  IF offset + 4 <= Len(bytes)
  THEN Read16_BE(bytes, offset) * Base2 + Read16_BE(bytes, offset + 2)
  ELSE 0

Read64_BE(bytes, offset) ==
  IF offset + 8 <= Len(bytes)
  THEN Read32_BE(bytes, offset) * Base4 + Read32_BE(bytes, offset + 4)
  ELSE 0

(* seed ^ byte: only the lowest byte of the seed changes.                  *)
XorByte(seed, byte) == (seed \div Base) * Base + ByteXor[<<seed % Base, byte>>]

FNV1A(bytes) ==
  LET seed[n \in 0 .. Len(bytes)] ==
        IF n = 0
        THEN kFnv1aSeed
        ELSE (XorByte(seed[n - 1], bytes[n]) * kFnv1aPrime) % Base8
  IN  seed[Len(bytes)]

-----------------------------------------------------------------------------
(* Serialize.                                                              *)

LoginPayload(m) == Put32_BE(m.session) \o m.address \o Put16_BE(m.port)

(* Variant of PingPayload: only the low half of lastAck is written.        *)
PingPayloadOfHalves(m) ==
  Put32_BE(m.playerId) \o Put32_BE(0) \o Put32_BE(m.lastAck)

PingPayload(m) == Put32_BE(m.playerId) \o Put64_BE(m.lastAck)

AcknowledgePayload(m) == Put64_BE(m.acked)

Payload(m) ==
  CASE m.action = "Login" -> LoginPayload(m)
    [] m.action = "Ping" -> PingPayload(m)
    [] m.action = "Acknowledge" -> AcknowledgePayload(m)

Body(m) ==
  Put32_BE(Action[m.action]) \o Put32_BE(m.messageId) \o Payload(m)

(* The span whose size and hash the header holds starts after the header   *)
(* and is as long as the whole message.  It ends in what a fresh buffer    *)
(* holds past the message: zeros.                                          *)
HashedSpan(m) == Body(m) \o [i \in 1 .. kMessageHeaderSize |-> 0]

Header(hash, payloadSize) ==
  kMagicBytes \o Put64_BE(hash) \o Put32_BE(payloadSize)

HashOf(m) == FNV1A(HashedSpan(m))

Serialize(m) == Header(HashOf(m), Len(HashedSpan(m))) \o Body(m)

-----------------------------------------------------------------------------
(* Deserialize.                                                            *)

HeaderOf(bytes) ==
  [magic |-> <<Read(bytes, 0), Read(bytes, 1)>>, hash |-> Read64_BE(bytes, 2),
   payloadSize |-> Read32_BE(bytes, 10)]

(* DeserializeHeader: the hash is looked at, and not compared.             *)
IsHeader(header) ==
  /\ header.magic = kMagicBytes
  /\ header.hash > 0
  /\ header.payloadSize > 0

(* Serializer<Message>::Deserialize.                                       *)
IsMessage(bytes) ==
  /\ Len(bytes) >= kMessageHeaderSize
  /\ IsHeader(HeaderOf(bytes))
  /\ HeaderOf(bytes).payloadSize <= kNetworkBufferSize
  /\ HeaderOf(bytes).payloadSize <= Len(bytes)
  /\ Len(bytes) - kMessageHeaderSize >= 8

(* Variant of IsA: the size of the message's own fields is not looked at.  *)
IsAnySize(bytes, action) ==
  /\ IsMessage(bytes)
  /\ Read32_BE(bytes, kMessageHeaderSize) = Action[action]

(* The receiver hands the bytes to the Deserialize of their action, which  *)
(* looks at them from the start again.                                     *)
IsA(bytes, action) ==
  /\ IsMessage(bytes)
  /\ Read32_BE(bytes, kMessageHeaderSize) = Action[action]
  /\ Len(bytes) - kMessageSize >= PayloadSize[action]

MessageId(bytes) == Read32_BE(bytes, kMessageHeaderSize + 4)

(* Variant of LoginOf: the port is read as a uint32_t.                     *)
LoginOfWidePort(bytes) ==
  [action |-> "Login", messageId |-> MessageId(bytes),
   session |-> Read32_BE(bytes, kMessageSize),
   address |-> [i \in 1 .. 4 |-> Read(bytes, kMessageSize + 3 + i)],
   port |-> Read32_BE(bytes, kMessageSize + 8)]

LoginOf(bytes) ==
  [action |-> "Login", messageId |-> MessageId(bytes),
   session |-> Read32_BE(bytes, kMessageSize),
   address |-> [i \in 1 .. 4 |-> Read(bytes, kMessageSize + 3 + i)],
   port |-> Read16_BE(bytes, kMessageSize + 8)]

PingOf(bytes) ==
  [action |-> "Ping", messageId |-> MessageId(bytes),
   playerId |-> Read32_BE(bytes, kMessageSize),
   lastAck |-> Read64_BE(bytes, kMessageSize + 4)]

AcknowledgeOf(bytes) ==
  [action |-> "Acknowledge", messageId |-> MessageId(bytes),
   acked |-> Read64_BE(bytes, kMessageSize)]

(* What OnRecv and OnMessage make of a datagram.                           *)
NoMessage == [action |-> "None"]

Deserialize(bytes) ==
  CASE IsA(bytes, "Login") -> LoginOf(bytes)
    [] IsA(bytes, "Ping") -> PingOf(bytes)
    [] IsA(bytes, "Acknowledge") -> AcknowledgeOf(bytes)
    [] OTHER -> NoMessage

=============================================================================
