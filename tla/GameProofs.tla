----------------------------- MODULE GameProofs -----------------------------
(***************************************************************************)
(* The inductive invariants of the server and of the clients, and that     *)
(* each of their steps keeps them.  ServerAloneProofs, ClientAloneProofs   *)
(* and UdpGameProofs build on it.                                          *)
(***************************************************************************)
EXTENDS GameServer, GameClient, FiniteSetTheorems, TLAPS

(* Ids are handed out in order and none is left out, and there are no more *)
(* players than endpoints: the next id is free, valid and does not wrap.   *)
IdsInOrder ==
  /\ mNextPlayerId \in 1 .. Cardinality(Endpoint) + 1
  /\ DOMAIN mPlayers = 1 .. mNextPlayerId - 1

(* The inductive invariant of the registry, which a restart of the server  *)
(* keeps.  IdsInOrder is what makes the next id free, without which        *)
(* CreatePlayer would overwrite the endpoint of a player that has been     *)
(* told its session already.                                               *)
RegistryInv == ServerTypeOK /\ IdsInOrder /\ OneSessionPerEndpoint

(* The inductive invariant of a server that is not restarted.              *)
IInv == RegistryInv /\ RepliesMatchRegistry

-----------------------------------------------------------------------------
(* Facts about the data.                                                   *)

(* Endpoints are told apart by what CreatePlayer compares.                 *)
LEMMA EndpointFields ==
  ASSUME NEW e \in Endpoint, NEW f \in Endpoint,
         e.address = f.address, e.port = f.port
  PROVE  e = f
BY EndpointAssumption

(* No client is at the endpoint of the server.                             *)
LEMMA EndpointIsNotServer == Server \notin Endpoint
BY EndpointAssumption

(* A client's endpoint is a place to send to, and so is an address with    *)
(* the port of a closed socket.                                            *)
LEMMA Destinations ==
  ASSUME NEW e \in Endpoint
  PROVE  /\ e \in Destination
         /\ [address |-> e.address, port |-> SourcePort] \in Destination
BY EndpointAssumption DEF Destination, SourcePort

(* The action tells the kind of a message.                                 *)
LEMMA MessageKinds ==
  ASSUME NEW m \in Message
  PROVE  /\ m.action = "Login" => m \in LoginMessage
         /\ m.action = "Ping" => m \in PingMessage
         /\ m.action = "Acknowledge" => m \in AcknowledgeMessage
BY DEF Message, LoginMessage, PingMessage, AcknowledgeMessage, JunkMessage

(* OnMessage leaves a queue of events, all of which are messages.          *)
LEMMA OnMessageQueuesEvents ==
  ASSUME NEW events \in Seq(Event), NEW msg \in Message
  PROVE  OnMessage(events, msg) \in Seq(Event)
<1>1. msg.action # "None" => msg \in Event
  BY DEF Event
<1>2. QED
  BY <1>1 DEF OnMessage

(* The first event of a queue is a message, and the others are a queue.    *)
LEMMA FirstEvent ==
  ASSUME NEW events \in Seq(Event), events # <<>>
  PROVE  Head(events) \in Message /\ Tail(events) \in Seq(Event)
<1>1. Head(events) \in Event /\ Tail(events) \in Seq(Event)
  OBVIOUS
<1>2. QED
  BY <1>1 DEF Event

(* There is no room for more players than endpoints.                       *)
LEMMA PlayersFit ==
  ASSUME NEW n \in Nat, NEW f, \A i \in 1 .. n : f[i] \in Endpoint,
         \A i, j \in 1 .. n : f[i] = f[j] => i = j
  PROVE  n <= Cardinality(Endpoint)
<1> DEFINE g == [i \in 1 .. n |-> f[i]]
<1>1. IsFiniteSet(1 .. n) /\ Cardinality(1 .. n) = n
  BY FS_Interval
<1>2. IsFiniteSet(Endpoint) /\ Cardinality(Endpoint) \in Nat
  BY EndpointAssumption, FS_CardinalityType
<1>3. g \in [1 .. n -> Endpoint]
  OBVIOUS
<1>4. SUFFICES ASSUME Cardinality(Endpoint) < n PROVE FALSE
  BY <1>2
<1>5. PICK x, y \in 1 .. n : x # y /\ g[x] = g[y]
  <2> HIDE DEF g
  <2>1. Cardinality(Endpoint) < Cardinality(1 .. n)
    BY <1>1, <1>4
  <2>2. QED
    BY <1>1, <1>2, <1>3, <2>1, FS_PigeonHole, Zenon
<1>6. QED
  BY <1>5

(* What a reply does to a player: its endpoint stays, its next id is an    *)
(* id and nothing that was buffered is replaced.                           *)
LEMMA ReplyKeepsPlayer ==
  ASSUME NEW state, IsPlayerState(state), NEW msg \in Message,
         msg.messageId \in MsgId, NEW sent \in BOOLEAN
  PROVE  LET after == AfterReply(state, msg, sent)
         IN  /\ IsPlayerState(after)
             /\ after.endpoint = state.endpoint
             /\ IsRestriction(state.messages, after.messages)
<1> DEFINE after == AfterReply(state, msg, sent)
           kept == IF sent THEN TryEmplace(state.messages, msg.messageId, msg)
                   ELSE state.messages
<1>1. IsMap(kept, MsgId, Message) /\ IsRestriction(state.messages, kept)
  BY DEF IsPlayerState, IsMap, TryEmplace, IsRestriction
<1>2. (state.nextMessage + 1) % MsgSpace \in MsgId
  BY WidthAssumption DEF IsPlayerState, MsgId
<1>3. after = [endpoint |-> state.endpoint,
               nextMessage |-> (state.nextMessage + 1) % MsgSpace,
               messages |-> kept]
  <2> HIDE DEF kept
  <2>1. after = [state EXCEPT !.nextMessage = (@ + 1) % MsgSpace,
                              !.messages = kept]
    BY DEF AfterReply, kept
  <2>2. PICK e, n, ms :
          state = [endpoint |-> e, nextMessage |-> n, messages |-> ms]
    BY DEF IsPlayerState
  <2>3. QED
    BY <2>1, <2>2
<1>4. QED
  BY <1>1, <1>2, <1>3 DEF IsPlayerState


-----------------------------------------------------------------------------
(* With fewer endpoints than ids, no id that is handed out is invalid.     *)
LEMMA IdBounds ==
  ASSUME FewEndpoints
  PROVE  /\ Cardinality(Endpoint) \in Nat
         /\ IdSpace \in Nat
         /\ kInvalidSession = IdSpace - 1
         /\ Cardinality(Endpoint) < IdSpace - 1
BY EndpointAssumption, FS_CardinalityType, WidthAssumption
   DEF FewEndpoints, kInvalidSession

-----------------------------------------------------------------------------
(* The invariant holds when the server starts, with an empty registry and  *)
(* whatever in the network.                                                *)
LEMMA ServerStarts ==
  ASSUME FewEndpoints, net \subseteq Datagram, ServerInit
  PROVE  RegistryInv
<1> USE DEF ServerInit
<1>1. DOMAIN mPlayers = {}
  OBVIOUS
<1>2. IdsInOrder
  BY <1>1, IdBounds DEF IdsInOrder
<1>3. ServerTypeOK
  BY <1>1, IdBounds DEF ServerTypeOK, Phase, PlayerId
<1>4. QED
  BY <1>1, <1>2, <1>3 DEF RegistryInv, OneSessionPerEndpoint

(* With nothing in the network, the replies match it as well.              *)
LEMMA InitIInv ==
  ASSUME FewEndpoints, net = {}, ServerInit
  PROVE  IInv
BY ServerStarts DEF IInv, RepliesMatchRegistry, LoginReplies

(* A step that leaves the registry alone.                                  *)
LEMMA QuietStep ==
  ASSUME RegistryInv, UNCHANGED <<mPlayers, mNextPlayerId>>,
         sPhase' \in Phase, sEvents' \in Seq(Event), net' \subseteq Datagram
  PROVE  RegistryInv' /\ KeepsPlayers
<1>1. ServerTypeOK' /\ IdsInOrder' /\ OneSessionPerEndpoint'
  BY DEF RegistryInv, ServerTypeOK, IdsInOrder, OneSessionPerEndpoint
<1>2. KeepsPlayers
  BY DEF KeepsPlayers, KeepsPlayer, IsRestriction
<1>3. QED
  BY <1>1, <1>2 DEF RegistryInv

(* A step that sends no login reply: the old ones match the registry as    *)
(* long as it keeps its players.                                           *)
LEMMA OldRepliesMatch ==
  ASSUME RepliesMatchRegistry, KeepsPlayers,
         LoginReplies' \subseteq LoginReplies
  PROVE  RepliesMatchRegistry'
BY DEF RepliesMatchRegistry, KeepsPlayers, KeepsPlayer

(* A network that only loses datagrams has only old ones.                  *)
LEMMA LessInFlight ==
  ASSUME net' \subseteq net
  PROVE  LoginReplies' \subseteq LoginReplies
BY DEF LoginReplies

(* Reading a datagram adds nothing to the network.                         *)
LEMMA ReceiveStep ==
  ASSUME RegistryInv, NEW d \in net, ServerReceive(d)
  PROVE  RegistryInv' /\ KeepsPlayers /\ net' \subseteq net
<1>1. net' \subseteq net
  BY DEF ServerReceive, TakeFromNet
<1>2. d.msg \in Message /\ net' \subseteq Datagram
  BY <1>1 DEF RegistryInv, ServerTypeOK, Datagram
<1>3. sEvents' \in Seq(Event)
  BY <1>2, OnMessageQueuesEvents DEF ServerReceive, RegistryInv, ServerTypeOK
<1>4. UNCHANGED <<sPhase, mPlayers, mNextPlayerId>>
  BY DEF ServerReceive
<1>5. QED
  BY <1>1, <1>2, <1>3, <1>4, QuietStep DEF RegistryInv, ServerTypeOK

(* The queue without its first event is still a queue.                     *)
LEMMA PopEvent ==
  ASSUME ServerTypeOK, sEvents # <<>>
  PROVE  Head(sEvents) \in Message /\ Tail(sEvents) \in Seq(Event)
BY FirstEvent DEF ServerTypeOK

(* The player that HandleLogin replies to: its id is valid, its state has  *)
(* the endpoint, and it is either the player that was there or a new one.  *)
LEMMA PlayerForLogin ==
  ASSUME FewEndpoints, RegistryInv, NEW endpoint \in Endpoint,
         NEW id \in PlayerFor(endpoint)
  PROVE  LET state == StateFor(id, endpoint)
         IN  /\ id \in 1 .. Cardinality(Endpoint)
             /\ IsPlayerState(state)
             /\ state.endpoint = endpoint
             /\ \/ /\ id \in DOMAIN mPlayers
                   /\ mPlayers[id].endpoint = endpoint
                   /\ state = mPlayers[id]
                   /\ NextPlayerIdAfter(endpoint) = mNextPlayerId
                \/ /\ id = mNextPlayerId
                   /\ id \notin DOMAIN mPlayers
                   /\ state = PlayerStateOf(endpoint)
                   /\ \A i \in DOMAIN mPlayers :
                        mPlayers[i].endpoint # endpoint
                   /\ NextPlayerIdAfter(endpoint) = mNextPlayerId + 1
<1> DEFINE state == StateFor(id, endpoint)
<1>1. \A i \in DOMAIN mPlayers : mPlayers[i].endpoint \in Endpoint
  BY DEF RegistryInv, ServerTypeOK, IsPlayerState
<1>2. PlayersAt(endpoint) =
        {i \in DOMAIN mPlayers : mPlayers[i].endpoint = endpoint}
  BY <1>1, EndpointFields DEF PlayersAt
<1>3. CASE PlayersAt(endpoint) # {}
  <2>1. id \in DOMAIN mPlayers /\ mPlayers[id].endpoint = endpoint
    BY <1>2, <1>3 DEF PlayerFor
  <2>2. IsPlayerState(mPlayers[id])
    BY <2>1 DEF RegistryInv, ServerTypeOK
  <2>3. state = [mPlayers[id] EXCEPT !.endpoint = endpoint]
    BY <2>1 DEF StateFor
  <2>4. PICK e, n, ms :
          mPlayers[id] = [endpoint |-> e, nextMessage |-> n, messages |-> ms]
    BY <2>2 DEF IsPlayerState
  <2>5. state = mPlayers[id]
    BY <2>1, <2>3, <2>4
  <2>6. id \in 1 .. Cardinality(Endpoint)
    BY <2>1, IdBounds DEF RegistryInv, IdsInOrder
  <2>7. QED
    BY <1>3, <2>1, <2>2, <2>5, <2>6 DEF NextPlayerIdAfter
<1>4. CASE PlayersAt(endpoint) = {}
  <2>1. \A i \in DOMAIN mPlayers : mPlayers[i].endpoint # endpoint
    BY <1>2, <1>4
  <2>2. id = mNextPlayerId /\ id \notin DOMAIN mPlayers
    BY <1>4, IdBounds DEF PlayerFor, RegistryInv, IdsInOrder
  <2>3. state = PlayerStateOf(endpoint)
    BY <2>2 DEF StateFor
  <2>4. IsPlayerState(state) /\ state.endpoint = endpoint
    BY <2>3, WidthAssumption
       DEF PlayerStateOf, IsPlayerState, IsMap, MsgId
  <2>5. mNextPlayerId <= Cardinality(Endpoint)
    <3> DEFINE f == [i \in 1 .. mNextPlayerId |->
                       IF i = mNextPlayerId THEN endpoint
                       ELSE mPlayers[i].endpoint]
    <3>1. mNextPlayerId \in Nat /\ DOMAIN mPlayers = 1 .. mNextPlayerId - 1
      BY IdBounds DEF RegistryInv, IdsInOrder
    <3>2. \A i \in 1 .. mNextPlayerId :
            i = mNextPlayerId \/ i \in DOMAIN mPlayers
      BY <3>1
    <3>3. \A i \in 1 .. mNextPlayerId : f[i] \in Endpoint
      BY <1>1, <3>2
    <3>4. \A i, j \in 1 .. mNextPlayerId : f[i] = f[j] => i = j
      BY <2>1, <3>2 DEF RegistryInv, OneSessionPerEndpoint
    <3> HIDE DEF f
    <3>5. QED
      BY <3>1, <3>3, <3>4, PlayersFit
  <2>6. NextPlayerIdAfter(endpoint) = mNextPlayerId + 1
    BY <1>4, <2>5, IdBounds DEF NextPlayerIdAfter, RegistryInv, IdsInOrder
  <2>7. QED
    BY <2>1, <2>2, <2>3, <2>4, <2>5, <2>6, IdBounds DEF RegistryInv, IdsInOrder
<1>5. QED
  BY <1>3, <1>4

(* HandleLogin keeps the invariant, and every player that is there; what   *)
(* it sends matches the registry.                                          *)
LEMMA LoginStep ==
  ASSUME FewEndpoints, RegistryInv,
         NEW endpoint \in Endpoint, NEW sent \in BOOLEAN,
         ServerHandleLogin(endpoint, sent)
  PROVE  /\ RegistryInv'
         /\ KeepsPlayers
         /\ RepliesMatchRegistry => RepliesMatchRegistry'
<1>1. PICK id \in PlayerFor(endpoint) :
        LET state == StateFor(id, endpoint)
            reply == LoginReply(id, state, endpoint)
        IN  /\ mPlayers' = Put(mPlayers, id, AfterReply(state, reply, sent))
            /\ SendMessage(endpoint, reply, sent)
  BY DEF ServerHandleLogin
<1> DEFINE state == StateFor(id, endpoint)
           reply == LoginReply(id, state, endpoint)
           after == AfterReply(state, reply, sent)
<1>2. /\ id \in 1 .. Cardinality(Endpoint)
      /\ IsPlayerState(state)
      /\ state.endpoint = endpoint
      /\ \/ /\ id \in DOMAIN mPlayers
            /\ mPlayers[id].endpoint = endpoint
            /\ state.messages = mPlayers[id].messages
            /\ mNextPlayerId' = mNextPlayerId
         \/ /\ id = mNextPlayerId
            /\ id \notin DOMAIN mPlayers
            /\ \A i \in DOMAIN mPlayers : mPlayers[i].endpoint # endpoint
            /\ mNextPlayerId' = mNextPlayerId + 1
  BY PlayerForLogin DEF ServerHandleLogin
<1>3. id \in PlayerId /\ id # kInvalidSession
  BY <1>2, IdBounds DEF PlayerId
<1>4. reply \in Message /\ reply.messageId \in MsgId
  BY <1>2, <1>3 DEF LoginReply, Message, LoginMessage, IsPlayerState
<1>5. reply.action = "Login" /\ reply.session = id
  BY DEF LoginReply
<1> HIDE DEF state, reply
<1>6. /\ IsPlayerState(after)
      /\ after.endpoint = endpoint
      /\ IsRestriction(state.messages, after.messages)
  BY <1>2, <1>4, ReplyKeepsPlayer
<1>7. mPlayers' = Put(mPlayers, id, after) /\ SendMessage(endpoint, reply, sent)
  BY <1>1 DEF state, reply
<1> HIDE DEF after
<1>8. /\ DOMAIN mPlayers' = DOMAIN mPlayers \cup {id}
      /\ mPlayers'[id] = after
      /\ \A i \in DOMAIN mPlayers : i # id => mPlayers'[i] = mPlayers[i]
  BY <1>7 DEF Put
<1>9. IdsInOrder'
  BY <1>2, <1>8, IdBounds DEF RegistryInv, IdsInOrder
<1>10. ServerTypeOK'
  <2>1. net' \subseteq Datagram
    <3>1. [to |-> endpoint, msg |-> reply] \in Datagram
      BY <1>4, Destinations DEF Datagram
    <3>2. QED
      BY <1>7, <3>1 DEF RegistryInv, ServerTypeOK, SendMessage
  <2>2. DOMAIN mPlayers' \subseteq PlayerId
    BY <1>3, <1>8 DEF RegistryInv, ServerTypeOK
  <2>3. \A i \in DOMAIN mPlayers' : IsPlayerState(mPlayers'[i])
    BY <1>6, <1>8 DEF RegistryInv, ServerTypeOK
  <2>4. mNextPlayerId' \in PlayerId
    BY <1>9, IdBounds DEF IdsInOrder, PlayerId
  <2>5. sPhase' \in Phase /\ sEvents' \in Seq(Event)
    BY PopEvent DEF ServerHandleLogin, IsNext, RegistryInv, ServerTypeOK
  <2>6. QED
    BY <2>1, <2>2, <2>3, <2>4, <2>5 DEF ServerTypeOK, IsPlayerState
<1>11. OneSessionPerEndpoint'
  BY <1>2, <1>6, <1>8 DEF RegistryInv, OneSessionPerEndpoint
<1>12. ASSUME RepliesMatchRegistry PROVE RepliesMatchRegistry'
  <2>1. LoginReplies' \subseteq
          LoginReplies \cup {[to |-> endpoint, msg |-> reply]}
    BY <1>7 DEF LoginReplies, SendMessage
  <2>2. \A i \in DOMAIN mPlayers : mPlayers'[i].endpoint = mPlayers[i].endpoint
    BY <1>2, <1>6, <1>8
  <2>3. QED
    BY <1>3, <1>5, <1>6, <1>8, <1>12, <2>1, <2>2 DEF RepliesMatchRegistry
<1>13. ASSUME NEW i \in DOMAIN mPlayers PROVE KeepsPlayer(i)
  BY <1>2, <1>6, <1>8 DEF KeepsPlayer, IsRestriction
<1>14. QED
  BY <1>9, <1>10, <1>11, <1>12, <1>13 DEF RegistryInv, KeepsPlayers

(* HandlePing keeps the invariant, and every player that is there, and     *)
(* sends no login.                                                         *)
LEMMA PingStep ==
  ASSUME FewEndpoints, RegistryInv, ServerHandlePing
  PROVE  RegistryInv' /\ KeepsPlayers /\ LoginReplies' \subseteq LoginReplies
<1> DEFINE ping == Head(sEvents)
           id == ping.playerId
           ack == Acknowledgement(ping, mPlayers[id])
           to == AcknowledgeTo(mPlayers[id])
<1>1. ping \in PingMessage /\ Tail(sEvents) \in Seq(Event)
  BY PopEvent, MessageKinds DEF ServerHandlePing, IsNext, RegistryInv
<1>2. /\ sEvents' = Tail(sEvents)
      /\ UNCHANGED <<sPhase, mNextPlayerId>>
  BY DEF ServerHandlePing
<1>3. CASE ~ IsKnownPlayer(id)
  <2>1. UNCHANGED <<net, mPlayers>>
    BY <1>3 DEF ServerHandlePing
  <2>2. QED
    BY <1>1, <1>2, <2>1, QuietStep DEF RegistryInv, ServerTypeOK, LoginReplies
<1>4. CASE IsKnownPlayer(id)
  <2>1. PICK sent \in BOOLEAN :
          /\ mPlayers' = [mPlayers EXCEPT ![id] = AfterReply(@, ack, sent)]
          /\ SendMessage(to, ack, sent)
    BY <1>4 DEF ServerHandlePing
  <2> DEFINE after == AfterReply(mPlayers[id], ack, sent)
  <2>2. id \in DOMAIN mPlayers /\ IsPlayerState(mPlayers[id])
    BY <1>4 DEF IsKnownPlayer, RegistryInv, ServerTypeOK
  <2>3. ack \in Message /\ ack.messageId \in MsgId /\ ack.action # "Login"
    BY <1>1, <2>2
       DEF Acknowledgement, Message, AcknowledgeMessage, PingMessage,
           IsPlayerState
  <2>4. [to |-> to, msg |-> ack] \in Datagram
    <3>1. to \in Destination
      BY <2>2, Destinations DEF AcknowledgeTo, IsPlayerState
    <3>2. QED
      BY <2>3, <3>1 DEF Datagram
  <2> HIDE DEF id, ack, to
  <2>5. /\ IsPlayerState(after)
        /\ after.endpoint = mPlayers[id].endpoint
        /\ IsRestriction(mPlayers[id].messages, after.messages)
    BY <2>2, <2>3, ReplyKeepsPlayer
  <2>6. /\ DOMAIN mPlayers' = DOMAIN mPlayers
        /\ mPlayers'[id] = after
        /\ \A i \in DOMAIN mPlayers : i # id => mPlayers'[i] = mPlayers[i]
    BY <2>1, <2>2
  <2> HIDE DEF after
  <2>7. \A i \in DOMAIN mPlayers :
          /\ mPlayers'[i].endpoint = mPlayers[i].endpoint
          /\ IsPlayerState(mPlayers'[i])
    BY <2>5, <2>6 DEF RegistryInv, ServerTypeOK
  <2>8. LoginReplies' \subseteq LoginReplies
    BY <2>1, <2>3 DEF LoginReplies, SendMessage
  <2>9. ServerTypeOK'
    <3>1. net' \subseteq Datagram
      BY <2>1, <2>4 DEF RegistryInv, ServerTypeOK, SendMessage
    <3>2. QED
      BY <1>1, <1>2, <2>6, <2>7, <3>1
         DEF RegistryInv, ServerTypeOK, IsPlayerState
  <2>10. IdsInOrder'
    BY <1>2, <2>6 DEF RegistryInv, IdsInOrder
  <2>11. OneSessionPerEndpoint'
    BY <2>6, <2>7 DEF RegistryInv, OneSessionPerEndpoint
  <2>12. ASSUME NEW i \in DOMAIN mPlayers PROVE KeepsPlayer(i)
    BY <2>5, <2>6, <2>7 DEF KeepsPlayer, IsRestriction
  <2>13. QED
    BY <2>8, <2>9, <2>10, <2>11, <2>12 DEF RegistryInv, KeepsPlayers
<1>5. QED
  BY <1>3, <1>4

(* Every step of the server keeps the invariant, and every player that is  *)
(* there, and what it sends matches the registry.                          *)
LEMMA ServerStepKeeps ==
  ASSUME FewEndpoints, RegistryInv, ServerStep
  PROVE  /\ RegistryInv'
         /\ KeepsPlayers
         /\ RepliesMatchRegistry => RepliesMatchRegistry'
<1>1. CASE \E d \in net : ServerReceive(d)
  BY <1>1, ReceiveStep, LessInFlight, OldRepliesMatch
<1>2. CASE ServerTick \/ ServerTickEnd \/ ServerHandleAcknowledge
  <2>1. UNCHANGED <<net, mPlayers, mNextPlayerId>>
    BY <1>2 DEF ServerTick, ServerTickEnd, ServerHandleAcknowledge
  <2>2. sPhase' \in Phase /\ sEvents' \in Seq(Event)
    BY <1>2, PopEvent
       DEF ServerTick, ServerTickEnd, ServerHandleAcknowledge, IsNext, Phase,
           RegistryInv, ServerTypeOK
  <2>3. RegistryInv' /\ KeepsPlayers
    BY <2>1, <2>2, QuietStep DEF RegistryInv, ServerTypeOK
  <2>4. QED
    BY <2>1, <2>3, LessInFlight, OldRepliesMatch
<1>3. CASE \E endpoint \in Endpoint, sent \in BOOLEAN :
             ServerHandleLogin(endpoint, sent)
  BY <1>3, LoginStep
<1>4. CASE ServerHandlePing
  BY <1>4, PingStep, OldRepliesMatch
<1>5. QED
  BY <1>1, <1>2, <1>3, <1>4 DEF ServerStep, ServerThread

(* So does a step of the others that sends the server a message, or loses  *)
(* one, and leaves the server's own variables alone.                       *)
LEMMA OthersStepKeeps ==
  ASSUME RegistryInv, UNCHANGED serverVars,
         net' \subseteq Datagram, LoginReplies' \subseteq LoginReplies
  PROVE  /\ RegistryInv'
         /\ KeepsPlayers
         /\ RepliesMatchRegistry => RepliesMatchRegistry'
<1>1. RegistryInv' /\ KeepsPlayers
  BY QuietStep DEF serverVars, RegistryInv, ServerTypeOK
<1>2. QED
  BY <1>1, OldRepliesMatch

-----------------------------------------------------------------------------
(* The buffer to resend from.                                              *)

(* What was sent can be sent again, as long as no player is handed so many *)
(* message ids that they wrap: try_emplace would keep the old message.     *)
IdsDoNotWrap == MaxMessages < MsgSpace

(* No message is buffered yet under the id that the next reply will take.  *)
IdsAreFresh(state) ==
  /\ state.nextMessage <= MaxMessages
  /\ \A id \in DOMAIN state.messages : id < state.nextMessage

BufferInv ==
  /\ RegistryInv
  /\ \A id \in DOMAIN mPlayers : IdsAreFresh(mPlayers[id])
  /\ SentIsBuffered

(* A reply takes a fresh id, is buffered under it, and leaves a fresh one. *)
LEMMA ReplyIsBuffered ==
  ASSUME IdsDoNotWrap, NEW state, IsPlayerState(state), IdsAreFresh(state),
         state.nextMessage < MaxMessages,
         NEW msg, msg.messageId = state.nextMessage, NEW sent \in BOOLEAN
  PROVE  LET after == AfterReply(state, msg, sent)
         IN  /\ IdsAreFresh(after)
             /\ sent => /\ msg.messageId \in DOMAIN after.messages
                        /\ after.messages[msg.messageId] = msg
<1> DEFINE after == AfterReply(state, msg, sent)
           id == state.nextMessage
<1>1. /\ id \in Nat /\ id + 1 <= MaxMessages
      /\ DOMAIN state.messages \subseteq MsgId
      /\ MsgSpace \in Nat /\ MaxMessages \in Nat
  BY BoundAssumption, WidthAssumption DEF IsPlayerState, IsMap, MsgId
<1>2. (id + 1) % MsgSpace = id + 1
  BY <1>1 DEF IdsDoNotWrap
<1>3. /\ after.nextMessage = id + 1
      /\ after.messages = IF sent THEN TryEmplace(state.messages, id, msg)
                          ELSE state.messages
  BY <1>2 DEF AfterReply, IsPlayerState
<1>4. id \notin DOMAIN state.messages
  BY <1>1 DEF IdsAreFresh
<1>5. IdsAreFresh(after)
  BY <1>1, <1>3 DEF IdsAreFresh, TryEmplace, MsgId
<1>6. sent => /\ id \in DOMAIN after.messages
              /\ after.messages[id] = msg
  BY <1>3, <1>4 DEF TryEmplace
<1>7. QED
  BY <1>5, <1>6

(* What is buffered for a player that is kept stays buffered.              *)
LEMMA BufferedStays ==
  ASSUME BufferInv, KeepsPlayers, NEW d \in net, d.to # Server
  PROVE  \E id \in DOMAIN mPlayers' : IsBuffered(d, mPlayers'[id])
<1>1. PICK id \in DOMAIN mPlayers : IsBuffered(d, mPlayers[id])
  BY DEF BufferInv, SentIsBuffered
<1>2. KeepsPlayer(id)
  BY DEF KeepsPlayers
<1>3. IsBuffered(d, mPlayers'[id])
  BY <1>1, <1>2 DEF KeepsPlayer, IsBuffered, IsRestriction
<1>4. QED
  BY <1>2, <1>3 DEF KeepsPlayer

(* A step that replies to nobody.                                          *)
LEMMA SilentStep ==
  ASSUME BufferInv, RegistryInv', KeepsPlayers, UNCHANGED mPlayers,
         \A d \in net' : d \in net \/ d.to = Server
  PROVE  BufferInv'
<1>1. SentIsBuffered'
  BY BufferedStays DEF SentIsBuffered
<1>2. QED
  BY <1>1 DEF BufferInv

(* A step that replies to the player id.                                   *)
LEMMA ReplyStep ==
  ASSUME IdsDoNotWrap, BufferInv, RegistryInv', KeepsPlayers,
         NEW id \in DOMAIN mPlayers', NEW state, NEW msg, NEW to,
         NEW sent \in BOOLEAN,
         IsPlayerState(state), IdsAreFresh(state),
         state.nextMessage < MaxMessages, msg.messageId = state.nextMessage,
         mPlayers'[id] = AfterReply(state, msg, sent),
         \A i \in DOMAIN mPlayers' :
           i # id => i \in DOMAIN mPlayers /\ mPlayers'[i] = mPlayers[i],
         SendMessage(to, msg, sent), to.address = state.endpoint.address
  PROVE  BufferInv'
<1>1. /\ IdsAreFresh(mPlayers'[id])
      /\ sent => /\ msg.messageId \in DOMAIN mPlayers'[id].messages
                 /\ mPlayers'[id].messages[msg.messageId] = msg
  BY ReplyIsBuffered
<1>2. \A i \in DOMAIN mPlayers' : IdsAreFresh(mPlayers'[i])
  BY <1>1 DEF BufferInv
<1>3. mPlayers'[id].endpoint = state.endpoint
  BY DEF AfterReply, IsPlayerState
<1>4. ASSUME NEW d \in net', d.to # Server
      PROVE  \E i \in DOMAIN mPlayers' : IsBuffered(d, mPlayers'[i])
  <2>1. CASE d \in net
    BY <1>4, <2>1, BufferedStays
  <2>2. CASE d \notin net
    <3>1. sent /\ d = [to |-> to, msg |-> msg]
      BY <2>2 DEF SendMessage
    <3>2. IsBuffered(d, mPlayers'[id])
      BY <1>1, <1>3, <3>1 DEF IsBuffered
    <3>3. QED
      BY <3>2
  <2>3. QED
    BY <2>1, <2>2
<1>5. SentIsBuffered'
  BY <1>4 DEF SentIsBuffered
<1>6. QED
  BY <1>2, <1>5 DEF BufferInv

(* HandleLogin replies to the player that is there or to a new one.        *)
LEMMA LoginBuffers ==
  ASSUME FewEndpoints, IdsDoNotWrap, BufferInv, RegistryInv', KeepsPlayers,
         NEW endpoint \in Endpoint, NEW sent \in BOOLEAN,
         ServerHandleLogin(endpoint, sent)
  PROVE  BufferInv'
<1>1. PICK id \in PlayerFor(endpoint) :
        LET state == StateFor(id, endpoint)
            reply == LoginReply(id, state, endpoint)
        IN  /\ state.nextMessage < MaxMessages
            /\ mPlayers' = Put(mPlayers, id, AfterReply(state, reply, sent))
            /\ SendMessage(endpoint, reply, sent)
  BY DEF ServerHandleLogin
<1> DEFINE state == StateFor(id, endpoint)
           reply == LoginReply(id, state, endpoint)
<1>2. /\ IsPlayerState(state)
      /\ state.endpoint = endpoint
      /\ \/ id \in DOMAIN mPlayers /\ state = mPlayers[id]
         \/ state = PlayerStateOf(endpoint)
  BY PlayerForLogin DEF BufferInv
<1>3. IdsAreFresh(state)
  BY <1>2, BoundAssumption DEF BufferInv, IdsAreFresh, PlayerStateOf
<1>4. reply.messageId = state.nextMessage
  BY DEF LoginReply
<1> HIDE DEF state, reply
<1>5. /\ state.nextMessage < MaxMessages
      /\ mPlayers' = Put(mPlayers, id, AfterReply(state, reply, sent))
      /\ SendMessage(endpoint, reply, sent)
  BY <1>1 DEF state, reply
<1>6. /\ id \in DOMAIN mPlayers'
      /\ mPlayers'[id] = AfterReply(state, reply, sent)
      /\ \A i \in DOMAIN mPlayers' :
           i # id => i \in DOMAIN mPlayers /\ mPlayers'[i] = mPlayers[i]
  BY <1>5 DEF Put
<1>7. QED
  BY <1>2, <1>3, <1>4, <1>5, <1>6, ReplyStep

(* HandlePing replies to a known player or to nobody.                      *)
LEMMA PingBuffers ==
  ASSUME IdsDoNotWrap, BufferInv, RegistryInv', KeepsPlayers, ServerHandlePing
  PROVE  BufferInv'
<1> DEFINE id == Head(sEvents).playerId
           ack == Acknowledgement(Head(sEvents), mPlayers[id])
           to == AcknowledgeTo(mPlayers[id])
<1>1. CASE ~ IsKnownPlayer(id)
  BY <1>1, SilentStep DEF ServerHandlePing
<1>2. CASE IsKnownPlayer(id)
  <2>1. mPlayers[id].nextMessage < MaxMessages
    BY <1>2 DEF ServerHandlePing
  <2>2. PICK sent \in BOOLEAN :
          /\ mPlayers' = [mPlayers EXCEPT ![id] = AfterReply(@, ack, sent)]
          /\ SendMessage(to, ack, sent)
    BY <1>2 DEF ServerHandlePing
  <2>3. /\ id \in DOMAIN mPlayers
        /\ IsPlayerState(mPlayers[id])
        /\ IdsAreFresh(mPlayers[id])
    BY <1>2 DEF IsKnownPlayer, BufferInv, RegistryInv, ServerTypeOK
  <2>4. /\ ack.messageId = mPlayers[id].nextMessage
        /\ to.address = mPlayers[id].endpoint.address
    BY DEF Acknowledgement, AcknowledgeTo
  <2> HIDE DEF id, ack, to
  <2>5. /\ id \in DOMAIN mPlayers'
        /\ mPlayers'[id] = AfterReply(mPlayers[id], ack, sent)
        /\ \A i \in DOMAIN mPlayers' :
             i # id => i \in DOMAIN mPlayers /\ mPlayers'[i] = mPlayers[i]
    BY <2>2, <2>3
  <2>6. QED
    BY <2>1, <2>2, <2>3, <2>4, <2>5, ReplyStep
<1>3. QED
  BY <1>1, <1>2

(* Every step of the server keeps what was sent buffered.                  *)
LEMMA ServerStepBuffers ==
  ASSUME FewEndpoints, IdsDoNotWrap, BufferInv, ServerStep
  PROVE  BufferInv'
<1>1. RegistryInv' /\ KeepsPlayers
  BY ServerStepKeeps DEF BufferInv
<1>2. CASE \E endpoint \in Endpoint, sent \in BOOLEAN :
             ServerHandleLogin(endpoint, sent)
  BY <1>1, <1>2, LoginBuffers
<1>3. CASE ServerHandlePing
  BY <1>1, <1>3, PingBuffers
<1>4. CASE \/ ServerTick \/ ServerTickEnd \/ ServerHandleAcknowledge
           \/ \E d \in net : ServerReceive(d)
  <2>1. UNCHANGED mPlayers /\ net' \subseteq net
    BY <1>4
       DEF ServerTick, ServerTickEnd, ServerHandleAcknowledge, ServerReceive,
           TakeFromNet
  <2>2. QED
    BY <1>1, <2>1, SilentStep
<1>5. QED
  BY <1>2, <1>3, <1>4 DEF ServerStep, ServerThread

-----------------------------------------------------------------------------
(* The clients.                                                            *)

(* The inductive invariant: what a client has queued or will read is a     *)
(* message, so that a session it accepts is a player id.                   *)
NetTypeOK == \A d \in net : d.msg \in Message

ClientInv == NetTypeOK /\ ClientTypeOK /\ StateMatchesPlayer

(* What SessionLasts says of one step.                                     *)
KeepsSessions ==
  \A c \in Client :
    mState[c] = "LoggedIn" =>
      \/ /\ mState'[c] = "LoggedIn"
         /\ mThisPlayer'[c] = mThisPlayer[c]
         /\ cPlayers[c] \subseteq cPlayers'[c]
      \/ ClientRestarts(c)

(* The invariant holds when the processes start.                           *)
LEMMA InitClientInv ==
  ASSUME NetTypeOK, ClientInit
  PROVE  ClientInv
BY DEF ClientInit, ClientInv, NetTypeOK, ClientTypeOK, Phase, State,
       StateMatchesPlayer

(* Steps that leave the states and the players of all clients alone.       *)
LEMMA ClientsStayStep ==
  ASSUME ClientInv, NetTypeOK', UNCHANGED <<mState, mThisPlayer, cPlayers>>,
         cPhase' \in [Client -> Phase], cEvents' \in [Client -> Seq(Event)],
         loginRecent' \in [Client -> BOOLEAN]
  PROVE  ClientInv' /\ KeepsSessions
BY DEF ClientInv, ClientTypeOK, StateMatchesPlayer, KeepsSessions

(* The first event of a queue is a message, and so are the others.         *)
LEMMA PopMessage ==
  ASSUME ClientTypeOK, NEW c \in Client, cEvents[c] # <<>>,
         cEvents' = [cEvents EXCEPT ![c] = Tail(@)]
  PROVE  Head(cEvents[c]) \in Message /\ cEvents' \in [Client -> Seq(Event)]
<1>1. cEvents \in [Client -> Seq(Event)] /\ cEvents[c] \in Seq(Event)
  BY DEF ClientTypeOK
<1>2. Head(cEvents[c]) \in Message /\ Tail(cEvents[c]) \in Seq(Event)
  BY <1>1, FirstEvent
<1>3. QED
  BY <1>1, <1>2

(* Reading a datagram queues a message or nothing.                         *)
LEMMA ClientReceiveStep ==
  ASSUME ClientInv, NEW c \in Client, NEW d \in net, ClientReceive(c, d)
  PROVE  ClientInv' /\ KeepsSessions
<1>1. NetTypeOK' /\ d.msg \in Message
  BY DEF ClientReceive, TakeFromNet, ClientInv, NetTypeOK
<1>2. cEvents \in [Client -> Seq(Event)] /\ cEvents[c] \in Seq(Event)
  BY DEF ClientInv, ClientTypeOK
<1>3. OnMessage(cEvents[c], d.msg) \in Seq(Event)
  BY <1>1, <1>2, OnMessageQueuesEvents
<1>4. cEvents' \in [Client -> Seq(Event)]
  BY <1>2, <1>3 DEF ClientReceive
<1>5. QED
  BY <1>1, <1>4, ClientsStayStep DEF ClientReceive, ClientInv, ClientTypeOK

(* HandleLogin: a new client has no player and becomes the one of the      *)
(* session, or stays new; one that is logged in only learns of others.     *)
LEMMA ClientLoginStep ==
  ASSUME ClientInv, NEW c \in Client, ClientHandleLogin(c)
  PROVE  ClientInv' /\ KeepsSessions
<1> DEFINE session == Head(cEvents[c]).session
<1>1. /\ Head(cEvents[c]) \in Message
      /\ cEvents' \in [Client -> Seq(Event)]
  BY PopMessage DEF ClientHandleLogin, IsNext, ClientInv
<1>2. session \in PlayerId
  BY <1>1 DEF ClientHandleLogin, IsNext, Message, LoginMessage, PingMessage,
              AcknowledgeMessage, JunkMessage
<1>3. NetTypeOK' /\ UNCHANGED <<cPhase, loginRecent>>
  BY DEF ClientHandleLogin, ClientInv, NetTypeOK
<1>4. cPlayers' = [cPlayers EXCEPT ![c] = PlayersAfterLogin(c, session)]
  BY DEF ClientHandleLogin
<1> HIDE DEF session
<1>5. CASE AcceptsSession(c, session)
  <2>1. /\ mThisPlayer' = [mThisPlayer EXCEPT ![c] = session]
        /\ mState' = [mState EXCEPT ![c] = "LoggedIn"]
    BY <1>5 DEF ClientHandleLogin, session
  <2>2. /\ mState[c] = "New"
        /\ session # kInvalidSession
        /\ cPlayers' = [cPlayers EXCEPT ![c] = @ \cup {session}]
    BY <1>4, <1>5 DEF AcceptsSession, PlayersAfterLogin, ClientInv, ClientTypeOK
  <2>3. ClientTypeOK'
    BY <1>1, <1>2, <1>3, <2>1, <2>2 DEF ClientInv, ClientTypeOK, State
  <2>4. StateMatchesPlayer'
    BY <2>1, <2>2 DEF ClientInv, ClientTypeOK, StateMatchesPlayer
  <2>5. KeepsSessions
    BY <2>1, <2>2 DEF ClientInv, ClientTypeOK, KeepsSessions
  <2>6. QED
    BY <1>3, <2>3, <2>4, <2>5 DEF ClientInv
<1>6. CASE ~ AcceptsSession(c, session)
  <2>1. UNCHANGED <<mThisPlayer, mState>>
    BY <1>6 DEF ClientHandleLogin, session
  <2>2. CASE mState[c] = "New"
    <3>1. cPlayers' = cPlayers
      BY <1>4, <1>6, <2>2 DEF PlayersAfterLogin, ClientInv, ClientTypeOK
    <3>2. QED
      BY <1>1, <1>3, <2>1, <3>1, ClientsStayStep DEF ClientInv, ClientTypeOK
  <2>3. CASE mState[c] # "New"
    <3>1. cPlayers' = [cPlayers EXCEPT ![c] = @ \cup {session}]
      BY <1>4, <2>3 DEF PlayersAfterLogin, ClientInv, ClientTypeOK
    <3>2. ClientTypeOK'
      BY <1>1, <1>2, <1>3, <2>1, <3>1 DEF ClientInv, ClientTypeOK
    <3>3. StateMatchesPlayer'
      BY <2>1, <2>3, <3>1 DEF ClientInv, ClientTypeOK, StateMatchesPlayer
    <3>4. KeepsSessions
      BY <2>1, <3>1 DEF ClientInv, ClientTypeOK, KeepsSessions
    <3>5. QED
      BY <1>3, <3>2, <3>3, <3>4 DEF ClientInv
  <2>4. QED
    BY <2>2, <2>3
<1>7. QED
  BY <1>5, <1>6

(* A client sends nothing but logins, to the server, and they are messages *)
(* that the server can take apart.                                         *)
LEMMA ClientSendsLogins ==
  ASSUME NEW c \in Client, ClientStep(c)
  PROVE  /\ net' \subseteq net \cup {[to |-> Server, msg |-> Login(c)]}
         /\ Login(c) \in Message
         /\ [to |-> Server, msg |-> Login(c)] \in Datagram
         /\ LoginReplies' \subseteq LoginReplies
<1>1. net' \subseteq net \cup {[to |-> Server, msg |-> Login(c)]}
  <2>1. CASE \E sent \in BOOLEAN : ClientTickEnd(c, sent)
    BY <2>1 DEF ClientTickEnd, PingsSent, LoginsSent, TickCallsTryPing,
                TryPingSends
  <2>2. CASE ~ \E sent \in BOOLEAN : ClientTickEnd(c, sent)
    BY <2>2 DEF ClientStep, ClientThread, ClientTick, ClientHandleLogin,
                ClientHandlesNothing, ClientReceive, LoginExpires, TakeFromNet
  <2>3. QED
    BY <2>1, <2>2
<1>2. Login(c) \in Message
  BY WidthAssumption
     DEF Login, Message, LoginMessage, MsgId, PlayerId, Client
<1>3. [to |-> Server, msg |-> Login(c)] \in Datagram
  BY <1>2 DEF Datagram, Destination
<1>4. LoginReplies' \subseteq LoginReplies
  BY <1>1 DEF LoginReplies
<1>5. QED
  BY <1>1, <1>2, <1>3, <1>4

(* A process that starts again has no player, and the others keep theirs.  *)
LEMMA ClientRestartStep ==
  ASSUME ClientInv, NEW c \in Client, ClientRestarts(c)
  PROVE  ClientInv' /\ KeepsSessions
<1>1. NetTypeOK'
  BY DEF ClientRestarts, ClientInv, NetTypeOK
<1>2. ClientTypeOK' /\ StateMatchesPlayer'
  BY DEF ClientRestarts, ClientInv, ClientTypeOK, Phase, State,
         StateMatchesPlayer
<1>3. KeepsSessions
  <2>1. ASSUME NEW e \in Client, e # c
        PROVE  /\ mState'[e] = mState[e]
               /\ mThisPlayer'[e] = mThisPlayer[e]
               /\ cPlayers'[e] = cPlayers[e]
    BY <2>1 DEF ClientRestarts, ClientInv, ClientTypeOK
  <2>2. ASSUME NEW e \in Client, mState[e] = "LoggedIn"
        PROVE  \/ /\ mState'[e] = "LoggedIn"
                  /\ mThisPlayer'[e] = mThisPlayer[e]
                  /\ cPlayers[e] \subseteq cPlayers'[e]
               \/ ClientRestarts(e)
    <3>1. CASE e = c
      BY <3>1
    <3>2. CASE e # c
      BY <2>1, <2>2, <3>2
    <3>3. QED
      BY <3>1, <3>2
  <2>3. QED
    BY <2>2 DEF KeepsSessions
<1>4. QED
  BY <1>1, <1>2, <1>3 DEF ClientInv

(* Every step of a client keeps the invariant and the sessions.            *)
LEMMA ClientStepKeeps ==
  ASSUME ClientInv, NEW c \in Client, ClientStep(c)
  PROVE  ClientInv' /\ KeepsSessions
<1>1. NetTypeOK'
  <2>1. /\ net' \subseteq net \cup {[to |-> Server, msg |-> Login(c)]}
        /\ Login(c) \in Message
    BY ClientSendsLogins
  <2>2. QED
    BY <2>1 DEF ClientInv, NetTypeOK
<1>2. CASE \E d \in net : ClientReceive(c, d)
  BY <1>2, ClientReceiveStep
<1>3. CASE ClientHandleLogin(c)
  BY <1>3, ClientLoginStep
<1>4. CASE ClientHandlesNothing(c)
  <2>1. cEvents' \in [Client -> Seq(Event)]
    BY <1>4, PopMessage DEF ClientHandlesNothing, IsNext, ClientInv
  <2>2. QED
    BY <1>1, <1>4, <2>1, ClientsStayStep
       DEF ClientHandlesNothing, ClientInv, ClientTypeOK
<1>5. CASE \/ ClientTick(c) \/ LoginExpires(c)
           \/ \E sent \in BOOLEAN : ClientTickEnd(c, sent)
  <2>1. UNCHANGED <<cEvents, mState, mThisPlayer, cPlayers>>
    BY <1>5 DEF ClientTick, LoginExpires, ClientTickEnd
  <2>2. /\ cPhase' \in [Client -> Phase]
        /\ loginRecent' \in [Client -> BOOLEAN]
    BY <1>5 DEF ClientTick, LoginExpires, ClientTickEnd, ClientInv,
                ClientTypeOK, Phase
  <2>3. QED
    BY <1>1, <2>1, <2>2, ClientsStayStep DEF ClientInv, ClientTypeOK
<1>6. QED
  BY <1>2, <1>3, <1>4, <1>5 DEF ClientStep, ClientThread

(* So does a step of the others that leaves the clients' own variables     *)
(* alone.                                                                  *)
LEMMA ClientsStayKeeps ==
  ASSUME ClientInv, NetTypeOK', UNCHANGED clientVars
  PROVE  ClientInv' /\ KeepsSessions
BY ClientsStayStep DEF clientVars, ClientInv, ClientTypeOK

=============================================================================
