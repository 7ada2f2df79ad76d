--------------------------- MODULE MCClientAlone ---------------------------
(* ClientAlone on a small instance: two clients, and a server that replies *)
(* with two valid sessions, the invalid one, a ping, an acknowledgement    *)
(* and bytes that do not parse.                                            *)
EXTENDS ClientAlone

CONSTANTS a1, p1, p2

At(address, port) == [address |-> address, port |-> port]

MCEndpoint == {At(a1, p1), At(a1, p2)}

MCInput ==
  {[action |-> "Login", messageId |-> 0, session |-> s,
    endpoint |-> At(a1, p1)] : s \in {1, 2, kInvalidSession}}
  \cup {[action |-> "Ping", messageId |-> 0, playerId |-> 1, lastAck |-> 0],
        [action |-> "Acknowledge", messageId |-> 0, acked |-> 0],
        [action |-> "None"]}

=============================================================================
