----------------------------- MODULE GameServer -----------------------------
(***************************************************************************)
(* Server::GameLoop: the registry of players and the replies to logins and *)
(* pings.                                                                  *)
(***************************************************************************)
EXTENDS Game

VARIABLES
  sPhase,         \* what the server thread does: read the socket or tick
  sEvents,        \* mEvents, the queued events
  mPlayers,       \* mPlayers, player id -> PlayerState
  mNextPlayerId   \* mNextPlayerId, the id of the next player

serverVars == <<sPhase, sEvents, mPlayers, mNextPlayerId>>

ServerInit ==
  /\ sPhase = "recv"
  /\ sEvents = <<>>
  /\ mPlayers = <<>>
  /\ mNextPlayerId = 1

(* Fewer endpoints than ids: mNextPlayerId never wraps round.  The proofs  *)
(* assume it.                                                              *)
FewEndpoints == Cardinality(Endpoint) < kInvalidSession

-----------------------------------------------------------------------------
(* Game::PlayerState.  connectStart and lastMessage are written and never  *)
(* read by the code, so they are not part of the state; ackCount stays 0.  *)
PlayerStateOf(endpoint) ==
  [endpoint |-> endpoint, nextMessage |-> 0, messages |-> <<>>]

(* Variant of PlayersAt: the search looks at the address only.             *)
PlayersAtAddress(endpoint) ==
  {id \in DOMAIN mPlayers :
     mPlayers[id].endpoint.address = endpoint.address}

(* Variant of PlayersAt: the search takes the port that the datagram came  *)
(* from for the port that the login names.                                 *)
PlayersAtSource(endpoint) ==
  {id \in DOMAIN mPlayers :
     /\ mPlayers[id].endpoint.address = endpoint.address
     /\ mPlayers[id].endpoint.port = SourcePort}

(* The players that CreatePlayer(address, port) finds for an endpoint.     *)
PlayersAt(endpoint) ==
  {id \in DOMAIN mPlayers :
     /\ mPlayers[id].endpoint.address = endpoint.address
     /\ mPlayers[id].endpoint.port = endpoint.port}

(* CreatePlayer(address, port): the player that is there, or a new id.     *)
PlayerFor(endpoint) ==
  IF PlayersAt(endpoint) # {} THEN PlayersAt(endpoint) ELSE {mNextPlayerId}

(* Variant of NextPlayerIdAfter: the id is read and not taken.             *)
NextPlayerIdNever(endpoint) == mNextPlayerId

(* mNextPlayerId++ on a uint32_t, when CreatePlayer makes a new player.    *)
NextPlayerIdAfter(endpoint) ==
  IF PlayersAt(endpoint) # {} THEN mNextPlayerId
  ELSE (mNextPlayerId + 1) % IdSpace

(* Variant of StateFor: a login starts the player's state afresh.          *)
StateAfresh(id, endpoint) == PlayerStateOf(endpoint)

(* The PlayerState CreatePlayer returns.  In a build without assertions an *)
(* id that is taken has its endpoint overwritten (Game.cpp:44-54).         *)
StateFor(id, endpoint) ==
  IF id \in DOMAIN mPlayers
  THEN [mPlayers[id] EXCEPT !.endpoint = endpoint]
  ELSE PlayerStateOf(endpoint)

(* Variant of AfterReply: a reply is kept when its send failed.            *)
AfterReplyFailed(state, msg, sent) ==
  [state EXCEPT
     !.nextMessage = (@ + 1) % MsgSpace,
     !.messages = IF sent THEN @ ELSE TryEmplace(@, msg.messageId, msg)]

(* A reply takes the player's next message id, sent or not, and is kept    *)
(* for resending only when it was sent.                                    *)
AfterReply(state, msg, sent) ==
  [state EXCEPT
     !.nextMessage = (@ + 1) % MsgSpace,
     !.messages = IF sent THEN TryEmplace(@, msg.messageId, msg) ELSE @]

-----------------------------------------------------------------------------
(* The server reads a datagram from its socket.                            *)
ServerReceive(d) ==
  /\ sPhase = "recv"
  /\ d.to = Server
  /\ Len(sEvents) < MaxEvents
  /\ TakeFromNet(d)
  /\ sEvents' = OnMessage(sEvents, d.msg)
  /\ UNCHANGED <<sPhase, mPlayers, mNextPlayerId>>

ServerTick ==
  /\ sPhase = "recv"
  /\ sPhase' = "tick"
  /\ UNCHANGED <<net, sEvents, mPlayers, mNextPlayerId>>

(* HandleLogin: find or create the player of the endpoint that the message *)
(* names, and send its id to that endpoint.                                *)
LoginReply(id, state, endpoint) ==
  [action |-> "Login", messageId |-> state.nextMessage, session |-> id,
   endpoint |-> endpoint]

ServerHandleLogin(endpoint, sent) ==
  /\ IsNext(sPhase, sEvents, "Login")
  /\ Head(sEvents).endpoint = endpoint
  /\ \E id \in PlayerFor(endpoint) :
       LET state == StateFor(id, endpoint)
           reply == LoginReply(id, state, endpoint)
       IN  /\ state.nextMessage < MaxMessages
           /\ mPlayers' = Put(mPlayers, id, AfterReply(state, reply, sent))
           /\ SendMessage(endpoint, reply, sent)
  /\ mNextPlayerId' = NextPlayerIdAfter(endpoint)
  /\ sEvents' = Tail(sEvents)
  /\ UNCHANGED sPhase

(* HandlePing: acknowledge the ping of a known player, at the address it   *)
(* registered and the port the ping came from.                             *)
Acknowledgement(ping, state) ==
  [action |-> "Acknowledge", messageId |-> state.nextMessage,
   acked |-> ping.lastAck]

AcknowledgeTo(state) ==
  [address |-> state.endpoint.address, port |-> SourcePort]

IsKnownPlayer(id) == id # kInvalidSession /\ id \in DOMAIN mPlayers

ServerHandlePing ==
  /\ IsNext(sPhase, sEvents, "Ping")
  /\ LET ping == Head(sEvents)
         state == mPlayers[ping.playerId]
         ack == Acknowledgement(ping, state)
     IN  \/ /\ ~ IsKnownPlayer(ping.playerId)
            /\ UNCHANGED <<net, mPlayers>>
         \/ /\ IsKnownPlayer(ping.playerId)
            /\ state.nextMessage < MaxMessages
            /\ \E sent \in BOOLEAN :
                 /\ mPlayers' = [mPlayers EXCEPT
                                   ![ping.playerId] = AfterReply(@, ack, sent)]
                 /\ SendMessage(AcknowledgeTo(state), ack, sent)
  /\ sEvents' = Tail(sEvents)
  /\ UNCHANGED <<sPhase, mNextPlayerId>>

(* HandleAcknowledge does nothing with the event that Tick popped.         *)
ServerHandleAcknowledge ==
  /\ IsNext(sPhase, sEvents, "Acknowledge")
  /\ sEvents' = Tail(sEvents)
  /\ UNCHANGED <<net, sPhase, mPlayers, mNextPlayerId>>

(* Tick returns when the queue is empty.                                   *)
ServerTickEnd ==
  /\ sPhase = "tick"
  /\ sEvents = <<>>
  /\ sPhase' = "recv"
  /\ UNCHANGED <<net, sEvents, mPlayers, mNextPlayerId>>

(* What the thread does whether or not there is a datagram to read.        *)
ServerThread ==
  \/ ServerTick
  \/ \E endpoint \in Endpoint, sent \in BOOLEAN :
       ServerHandleLogin(endpoint, sent)
  \/ ServerHandlePing
  \/ ServerHandleAcknowledge
  \/ ServerTickEnd

ServerStep == ServerThread \/ \E d \in net : ServerReceive(d)

-----------------------------------------------------------------------------
(* Properties.                                                             *)

IsPlayerState(state) ==
  /\ state \in [endpoint : Endpoint, nextMessage : MsgId,
                messages : {state.messages}]
  /\ IsMap(state.messages, MsgId, Message)

(* Type invariant of the server and the network.                           *)
ServerTypeOK ==
  /\ net \subseteq Datagram
  /\ sPhase \in Phase
  /\ sEvents \in Seq(Event)
  /\ DOMAIN mPlayers \subseteq PlayerId
  /\ \A id \in DOMAIN mPlayers : IsPlayerState(mPlayers[id])
  /\ mNextPlayerId \in PlayerId

(* However often, and in whatever order, logins of the same endpoint are   *)
(* sent again, duplicated or lost, the registry holds one player for it    *)
(* (the search loop of CreatePlayer).                                      *)
OneSessionPerEndpoint ==
  \A i, j \in DOMAIN mPlayers :
    mPlayers[i].endpoint = mPlayers[j].endpoint => i = j

(* Every login reply that is still on its way to a client, however old,    *)
(* names the player the server now holds for that client's endpoint, and   *)
(* an id the client accepts: replies sent by HandleLogin never disagree.   *)
LoginReplies == {d \in net : d.to # Server /\ d.msg.action = "Login"}

RepliesMatchRegistry ==
  \A d \in LoginReplies :
    /\ d.msg.session \in DOMAIN mPlayers
    /\ d.msg.session # kInvalidSession
    /\ mPlayers[d.msg.session].endpoint = d.to

(* Every reply on its way to a client can be sent again: it is in the      *)
(* buffer of a player at that address, under its own message id and with   *)
(* its own contents (what the TODO in HandlePing means to resend from).    *)
IsBuffered(d, state) ==
  /\ state.endpoint.address = d.to.address
  /\ d.msg.messageId \in DOMAIN state.messages
  /\ state.messages[d.msg.messageId] = d.msg

SentIsBuffered ==
  \A d \in net :
    d.to # Server => \E id \in DOMAIN mPlayers : IsBuffered(d, mPlayers[id])

(* A player, once created, keeps its id and its endpoint, and what was     *)
(* buffered for it is never replaced, in any step of the server.           *)
KeepsPlayer(id) ==
  /\ id \in DOMAIN mPlayers'
  /\ mPlayers'[id].endpoint = mPlayers[id].endpoint
  /\ IsRestriction(mPlayers[id].messages, mPlayers'[id].messages)

KeepsPlayers == \A id \in DOMAIN mPlayers : KeepsPlayer(id)

PlayersAreKept == [][KeepsPlayers]_serverVars

=============================================================================
