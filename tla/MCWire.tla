------------------------------- MODULE MCWire -------------------------------
(* Wire with bytes of four values: messages with low, high and mixed       *)
(* fields, among them the invalid session and player, and one whose hash   *)
(* is 0.                                                                   *)
EXTENDS Wire, Bitwise

Highest(n) == Base^n - 1

MCByteXor == [pair \in Byte \X Byte |-> pair[1] ^^ pair[2]]

(* A message whose hash is 0 with the parameters of the configurations.    *)
ZeroHashed == [action |-> "Acknowledge", messageId |-> 24, acked |-> 351]

MCSent ==
  [action : {"Login"}, messageId : {99}, session : {0, Highest(4)},
   address : {<<127 % Base, 0, 0, 1>>}, port : {Base + 2}]
  \cup [action : {"Ping"}, messageId : {1}, playerId : {Highest(4)},
        lastAck : {0, Base^7 + 2}]
  \cup [action : {"Acknowledge"}, messageId : {0}, acked : {0, Highest(8)}]
  \cup {ZeroHashed}

=============================================================================
