-------------------------------- MODULE Wire --------------------------------
(***************************************************************************)
(* A datagram on its way: the bytes of one message, to which things happen *)
(* that a sender or the network can do to bytes, before they are read.     *)
(***************************************************************************)
EXTENDS Codec

CONSTANTS
  Sent,       \* the messages that are sent
  MaxFaults   \* bound: how often the bytes change

ASSUME SentAssumption == Sent \subseteq Message

VARIABLES
  sent,       \* the message that was sent
  bytes,      \* the bytes of the datagram
  faults      \* how often they have changed

vars == <<sent, bytes, faults>>

Init ==
  /\ sent \in Sent
  /\ bytes = Serialize(sent)
  /\ faults = 0

Fault ==
  /\ faults < MaxFaults
  /\ faults' = faults + 1
  /\ UNCHANGED sent

CutShort ==
  /\ Fault
  /\ \E n \in 0 .. Len(bytes) - 1 : bytes' = SubSeq(bytes, 1, n)

Extended ==
  /\ Fault
  /\ Len(bytes) < kNetworkBufferSize
  /\ \E byte \in Byte : bytes' = Append(bytes, byte)

Changed ==
  /\ Fault
  /\ \E i \in DOMAIN bytes, byte \in Byte :
       byte # bytes[i] /\ bytes' = [bytes EXCEPT ![i] = byte]

Next == CutShort \/ Extended \/ Changed

Spec == Init /\ [][Next]_vars

-----------------------------------------------------------------------------
(* Properties.                                                             *)

Received == Deserialize(bytes)
IsAccepted == Received.action # "None"

(* Type invariant: whatever the bytes, the fields read are in their range. *)
TypeOK ==
  /\ bytes \in Seq(Byte)
  /\ Len(bytes) <= kNetworkBufferSize
  /\ Received \in Message \cup {NoMessage}

(* What Serialize writes, the Deserialize of the other side reads; only a  *)
(* message whose hash happens to be 0 is lost, since IsHeader turns that   *)
(* down.                                                                   *)
RoundTrip ==
  faults = 0 => Received = IF HashOf(sent) = 0 THEN NoMessage ELSE sent

(* Every field of a message that is accepted, its action and id too, is    *)
(* what the datagram has at the place where the sender of that message     *)
(* puts it: none is the 0 that the reader returns past the end, whatever   *)
(* the header says of the size.                                            *)
FieldsAreThere ==
  IsAccepted =>
    LET body == Body(Received)
    IN  \A i \in DOMAIN body :
          /\ kMessageHeaderSize + i \in DOMAIN bytes
          /\ bytes[kMessageHeaderSize + i] = body[i]

(* What is accepted, and sent on, is read as the same message.             *)
ReadsAsWritten ==
  IsAccepted /\ HashOf(Received) # 0
    => Deserialize(Serialize(Received)) = Received

=============================================================================
