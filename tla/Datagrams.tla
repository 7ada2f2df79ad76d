----------------------------- MODULE Datagrams -----------------------------
(***************************************************************************)
(* What travels between the client and the server of the UDP game, and the *)
(* network it travels on.                                                  *)
(*                                                                         *)
(* A datagram is one encoded message (common/Message.h) and the endpoint   *)
(* it is sent to.  The encoding itself is left out here: a message is the  *)
(* record of the fields that the receiver's Deserialize returns.           *)
(*                                                                         *)
(* The network is the one UDP gives: a datagram can be lost, duplicated    *)
(* and overtaken by a later one.  It is a set of datagrams in flight.      *)
(***************************************************************************)
EXTENDS Naturals, FiniteSets

CONSTANTS
  Address,        \* IPv4 addresses
  Port,           \* ports that a process binds to receive on
  EphemeralPort,  \* the port the system gives to a socket that is not bound
  Endpoint,       \* the address:port pairs at which clients listen
  Server,         \* the endpoint of the server
  IdSpace,        \* player ids are uint32_t: 0 .. IdSpace-1, IdSpace = 2^32
  MsgSpace        \* message ids are uint32_t: 0 .. MsgSpace-1, MsgSpace = 2^32

ASSUME EphemeralAssumption == EphemeralPort \notin Port
(* No client listens where the server does: a login that names the         *)
(* server's own endpoint, so that the server would send its reply to       *)
(* itself, is left out.                                                    *)
ASSUME EndpointAssumption ==
  /\ Endpoint \subseteq [address : Address, port : Port]
  /\ Server \notin [address : Address, port : Port \cup {EphemeralPort}]
  /\ IsFiniteSet(Endpoint)
ASSUME WidthAssumption == IdSpace \in Nat \ {0} /\ MsgSpace \in Nat \ {0}

-----------------------------------------------------------------------------
PlayerId == 0 .. IdSpace - 1
MsgId == 0 .. MsgSpace - 1

(* LoginMessage::kInvalidSession and PingMessage::kInvalidPlayer, both ~0. *)
kInvalidSession == IdSpace - 1

LoginMessage ==
  [action : {"Login"}, messageId : MsgId, session : PlayerId,
   endpoint : Endpoint]

(* lastAck is PingMessage::messageId, "the last acknowledged message ID";  *)
(* messageId is the id of the ping itself, PingMessage::message.messageId. *)
PingMessage ==
  [action : {"Ping"}, messageId : MsgId, playerId : PlayerId, lastAck : MsgId]

(* acked is AcknowledgeMessage::messageId.                                 *)
AcknowledgeMessage ==
  [action : {"Acknowledge"}, messageId : MsgId, acked : MsgId]

(* Bytes that Deserialize rejects, or whose action is none of the three.   *)
JunkMessage == [action : {"None"}]

Message == LoginMessage \cup PingMessage \cup AcknowledgeMessage
             \cup JunkMessage

(* Where a datagram can be sent: to the server, to the endpoint a client   *)
(* listens at, or to a port that no process has bound.                     *)
Destination == [address : Address, port : Port \cup {EphemeralPort}]
                 \cup {Server}

Datagram == [to : Destination, msg : Message]

-----------------------------------------------------------------------------
VARIABLE net    \* the datagrams in flight

(* SendMessage opens a socket, sends one datagram from it and closes it.   *)
(* It returns false, and sends nothing, when either system call fails.     *)
SendMessage(to, msg, sent) ==
  net' = IF sent THEN net \cup {[to |-> to, msg |-> msg]} ELSE net

(* The port recvfrom reports for any datagram: that of the sender's        *)
(* unbound and already closed socket.                                      *)
SourcePort == EphemeralPort

(* A datagram that is read may still be delivered a second time.           *)
TakeFromNet(d) == d \in net /\ net' \in {net, net \ {d}}

(* The network loses a datagram.                                           *)
Lose == \E d \in net : net' = net \ {d}

=============================================================================
