--------------------------- MODULE MCServerClaims ---------------------------
(* What a comment of the code says of the server and the code does not do. *)
EXTENDS MCServerAlone

(* "Sent acknowledge message back to client" (server/GameLoop.cpp:101):    *)
(* the acknowledgement goes to the port of the client's closed socket.     *)
AcknowledgeReachesClient ==
  \A d \in net :
    d.to # Server /\ d.msg.action = "Acknowledge"
      => \E id \in DOMAIN mPlayers : mPlayers[id].endpoint = d.to

=============================================================================
