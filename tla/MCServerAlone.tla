---------------------------- MODULE MCServerAlone ---------------------------
(* ServerAlone on a small instance: three endpoints, two of which share an  *)
(* address and two a port.                                                 *)
EXTENDS ServerAlone

CONSTANTS a1, a2, p1, p2

At(address, port) == [address |-> address, port |-> port]

MCEndpoint == {At(a1, p1), At(a1, p2), At(a2, p1)}

(* Logins as TryLogin sends them, pings as TryPing builds them, for the    *)
(* first player, for an unknown one while there is none and for the        *)
(* invalid one, an acknowledgement and a message that does not parse.      *)
MCInput ==
  {[action |-> "Login", messageId |-> 0, session |-> 0, endpoint |-> e] :
     e \in MCEndpoint}
  \cup [action : {"Ping"}, messageId : {1},
        playerId : {1, kInvalidSession}, lastAck : {0}]
  \cup {[action |-> "Acknowledge", messageId |-> 0, acked |-> 0]}
  \cup {[action |-> "None"]}

=============================================================================
