--------------------------- MODULE UdpGameProofs ---------------------------
(***************************************************************************)
(* The game as a whole, for any number of clients.  However often the      *)
(* processes of clients and of the server are restarted, each keeps its    *)
(* own invariant.  While the server is up, server and clients agree on the *)
(* sessions, and the game implements the session service.                  *)
(***************************************************************************)
EXTENDS UdpGame, GameProofs

-----------------------------------------------------------------------------
(* Through all restarts.                                                   *)

(* The invariant of each part by itself.                                   *)
PartsInv ==
  /\ RegistryInv
  /\ ClientInv
  /\ clientRestarts \in 0 .. MaxClientRestarts
  /\ serverRestarts \in 0 .. MaxServerRestarts

(* The invariant holds when the processes start.                           *)
LEMMA InitPartsInv ==
  ASSUME FewEndpoints, Init
  PROVE  PartsInv
BY ServerStarts, InitClientInv, RestartAssumption DEF Init, NetTypeOK, PartsInv

(* What a step does to the server's part, unless it restarts the server.   *)
ServerPartStays ==
  /\ RegistryInv'
  /\ KeepsPlayers
  /\ RepliesMatchRegistry => RepliesMatchRegistry'

(* What a step does to the clients' part.                                  *)
ClientPartStays == ClientInv' /\ KeepsSessions

(* The server's steps leave the clients alone.                             *)
LEMMA ServerActsParts ==
  ASSUME FewEndpoints, PartsInv, ServerActs
  PROVE  ServerPartStays /\ ClientPartStays
<1>1. ServerPartStays
  BY ServerStepKeeps DEF PartsInv, ServerActs, ServerPartStays
<1>2. NetTypeOK'
  BY <1>1 DEF ServerPartStays, RegistryInv, ServerTypeOK, NetTypeOK, Datagram
<1>3. ClientPartStays
  BY <1>2, ClientsStayKeeps
     DEF PartsInv, ServerActs, ClientsStay, ClientPartStays
<1>4. QED
  BY <1>1, <1>3

(* A client's steps leave the server's variables alone, and send logins.   *)
LEMMA ClientActsParts ==
  ASSUME PartsInv, NEW c \in Client, ClientActs(c)
  PROVE  ServerPartStays /\ ClientPartStays
<1>1. ClientPartStays
  BY ClientStepKeeps DEF PartsInv, ClientActs, ClientPartStays
<1>2. /\ net' \subseteq net \cup {[to |-> Server, msg |-> Login(c)]}
      /\ [to |-> Server, msg |-> Login(c)] \in Datagram
      /\ LoginReplies' \subseteq LoginReplies
  BY ClientSendsLogins DEF ClientActs
<1>3. net' \subseteq Datagram
  BY <1>2 DEF PartsInv, RegistryInv, ServerTypeOK
<1>4. ServerPartStays
  BY <1>2, <1>3, OthersStepKeeps
     DEF PartsInv, ClientActs, ServerStays, ServerPartStays
<1>5. QED
  BY <1>1, <1>4

(* A client's process starts again, with its queue and its player gone.    *)
LEMMA ClientRestartParts ==
  ASSUME PartsInv, NEW c \in Client, ClientRestart(c)
  PROVE  ServerPartStays /\ ClientPartStays
<1>1. ClientPartStays
  BY ClientRestartStep DEF PartsInv, ClientRestart, ClientPartStays
<1>2. UNCHANGED <<net, serverVars>>
  BY DEF ClientRestart, ClientRestarts
<1>3. net' \subseteq Datagram /\ LoginReplies' \subseteq LoginReplies
  BY <1>2, LessInFlight DEF PartsInv, RegistryInv, ServerTypeOK
<1>4. ServerPartStays
  BY <1>2, <1>3, OthersStepKeeps DEF PartsInv, ServerPartStays
<1>5. QED
  BY <1>1, <1>4

(* The network loses a datagram, or nothing happens.                       *)
LEMMA NetworkParts ==
  ASSUME PartsInv, net' \subseteq net, UNCHANGED <<serverVars, clientVars>>
  PROVE  ServerPartStays /\ ClientPartStays
<1>1. net' \subseteq Datagram /\ LoginReplies' \subseteq LoginReplies
  BY LessInFlight DEF PartsInv, RegistryInv, ServerTypeOK
<1>2. NetTypeOK'
  BY DEF PartsInv, ClientInv, NetTypeOK
<1>3. QED
  BY <1>1, <1>2, OthersStepKeeps, ClientsStayKeeps
     DEF PartsInv, ServerPartStays, ClientPartStays

(* The server starts again: its registry is empty, which is as consistent  *)
(* as the old one, and the clients do not notice.                          *)
LEMMA ServerRestartParts ==
  ASSUME FewEndpoints, PartsInv, ServerRestart
  PROVE  RegistryInv' /\ ClientPartStays
<1>1. net' \subseteq Datagram
  BY DEF ServerRestart, PartsInv, RegistryInv, ServerTypeOK
<1>2. DOMAIN mPlayers' = {} /\ mNextPlayerId' = 1
  BY DEF ServerRestart
<1>3. IdsInOrder'
  BY <1>2, IdBounds DEF IdsInOrder
<1>4. ServerTypeOK'
  BY <1>1, <1>2, IdBounds DEF ServerRestart, ServerTypeOK, Phase, PlayerId
<1>5. RegistryInv'
  BY <1>2, <1>3, <1>4 DEF RegistryInv, OneSessionPerEndpoint
<1>6. ClientPartStays
  BY ClientsStayKeeps
     DEF ServerRestart, PartsInv, ClientInv, NetTypeOK, ClientPartStays
<1>7. QED
  BY <1>5, <1>6

(* Every step of the game keeps both parts.                                *)
LEMMA PartsStep ==
  ASSUME FewEndpoints, PartsInv, [Next]_vars
  PROVE  PartsInv' /\ KeepsSessions /\ (ServerPartStays \/ ServerRestart)
<1>1. CASE ServerActs
  <2>1. UNCHANGED restartVars
    BY <1>1 DEF ServerActs, ClientsStay
  <2>2. QED
    BY <1>1, <2>1, ServerActsParts
       DEF PartsInv, ServerPartStays, ClientPartStays, restartVars
<1>2. CASE \E c \in Client : ClientActs(c)
  <2>1. UNCHANGED restartVars
    BY <1>2 DEF ClientActs, ServerStays
  <2>2. QED
    BY <1>2, <2>1, ClientActsParts
       DEF PartsInv, ServerPartStays, ClientPartStays, restartVars
<1>3. CASE \E c \in Client : ClientRestart(c)
  <2>1. /\ clientRestarts' \in 0 .. MaxClientRestarts
        /\ serverRestarts' = serverRestarts
    BY <1>3, RestartAssumption DEF ClientRestart, PartsInv
  <2>2. QED
    BY <1>3, <2>1, ClientRestartParts
       DEF PartsInv, ServerPartStays, ClientPartStays
<1>4. CASE NetworkLoses \/ UNCHANGED vars
  <2>1. net' \subseteq net /\ UNCHANGED <<serverVars, clientVars, restartVars>>
    BY <1>4 DEF NetworkLoses, Lose, vars
  <2>2. QED
    BY <2>1, NetworkParts
       DEF PartsInv, ServerPartStays, ClientPartStays, restartVars
<1>5. CASE ServerRestart
  <2>1. /\ clientRestarts' = clientRestarts
        /\ serverRestarts' \in 0 .. MaxServerRestarts
    BY <1>5, RestartAssumption DEF ServerRestart, PartsInv
  <2>2. QED
    BY <1>5, <2>1, ServerRestartParts DEF PartsInv, ClientPartStays
<1>6. QED
  BY <1>1, <1>2, <1>3, <1>4, <1>5 DEF Next

(* PartsInv is an invariant.                                               *)
LEMMA PartsInvariant ==
  ASSUME FewEndpoints
  PROVE  Spec => []PartsInv
<1>1. Init => PartsInv
  BY InitPartsInv
<1>2. PartsInv /\ [Next]_vars => PartsInv'
  BY PartsStep
<1>3. QED
  BY <1>1, <1>2, PTL DEF Spec

(* The game keeps its types, whichever processes are restarted.            *)
THEOREM GameTypeCorrect ==
  ASSUME FewEndpoints
  PROVE  Spec => []TypeOK
<1>1. PartsInv => TypeOK
  BY DEF PartsInv, RegistryInv, ClientInv, TypeOK
<1>2. QED
  BY <1>1, PartsInvariant, PTL

(* No server ever has two players for one endpoint, also not one that was  *)
(* restarted and is sent the logins that were meant for the one before.    *)
THEOREM GameSessionsAreUnique ==
  ASSUME FewEndpoints
  PROVE  Spec => []OneSessionPerEndpoint
<1>1. PartsInv => OneSessionPerEndpoint
  BY DEF PartsInv, RegistryInv
<1>2. QED
  BY <1>1, PartsInvariant, PTL

(* In the game as against any server: the state of a client says whether   *)
(* it has a player.                                                        *)
THEOREM GameStateTellsOfPlayer ==
  ASSUME FewEndpoints
  PROVE  Spec => []StateMatchesPlayer
<1>1. PartsInv => StateMatchesPlayer
  BY DEF PartsInv, ClientInv
<1>2. QED
  BY <1>1, PartsInvariant, PTL

(* A session lasts until the client's own process ends: not even a restart *)
(* of the server, and the login replies of the new one, take it away.      *)
THEOREM GameSessionsLast ==
  ASSUME FewEndpoints
  PROVE  Spec => SessionLasts
<1>1. PartsInv /\ [Next]_vars => [KeepsSessions]_clientVars
  BY PartsStep
<1>2. QED
  BY <1>1, PartsInvariant, PTL DEF Spec, SessionLasts, KeepsSessions

(* Only a restart of the server loses a player, its endpoint or what is    *)
(* buffered for it.                                                        *)
THEOREM OnlyRestartsForget ==
  ASSUME FewEndpoints
  PROVE  Spec => [][KeepsPlayers \/ ServerRestart]_vars
<1>1. PartsInv /\ [Next]_vars => [KeepsPlayers \/ ServerRestart]_vars
  BY PartsStep DEF ServerPartStays
<1>2. QED
  BY <1>1, PartsInvariant, PTL DEF Spec

-----------------------------------------------------------------------------
(* The half of the protocol that is never used.                            *)

(* Nothing but logins is on its way or waits at the server.                *)
LoginsOnly ==
  /\ \A d \in net : d.msg.action = "Login"
  /\ \A i \in 1 .. Len(sEvents) : sEvents[i].action = "Login"

(* The server's steps: it handles logins alone, and answers with logins.   *)
LEMMA ServerActsLoginsOnly ==
  ASSUME PartsInv, LoginsOnly, ServerActs
  PROVE  LoginsOnly'
<1>1. sEvents \in Seq(Event) /\ \A d \in net : d.msg \in Message
  BY DEF PartsInv, RegistryInv, ClientInv, NetTypeOK, ServerTypeOK
<1>2. sEvents # <<>> => Head(sEvents).action = "Login"
  BY <1>1 DEF LoginsOnly
<1>3. CASE \E d \in net : ServerReceive(d)
  <2>1. PICK d \in net : ServerReceive(d)
    BY <1>3
  <2>2. net' \subseteq net /\ sEvents' = Append(sEvents, d.msg)
    BY <2>1 DEF ServerReceive, TakeFromNet, OnMessage, LoginsOnly
  <2>3. QED
    BY <1>1, <2>2 DEF LoginsOnly
<1>4. CASE \E endpoint \in Endpoint, sent \in BOOLEAN :
             ServerHandleLogin(endpoint, sent)
  <2>1. sEvents # <<>> /\ sEvents' = Tail(sEvents)
    BY <1>4 DEF ServerHandleLogin, IsNext
  <2>2. \A d \in net' : d.msg.action = "Login"
    BY <1>4 DEF ServerHandleLogin, SendMessage, LoginReply, LoginsOnly
  <2>3. QED
    BY <1>1, <2>1, <2>2 DEF LoginsOnly
<1>5. CASE ServerHandlePing \/ ServerHandleAcknowledge
  BY <1>2, <1>5 DEF ServerHandlePing, ServerHandleAcknowledge, IsNext
<1>6. CASE ServerTick \/ ServerTickEnd
  BY <1>6 DEF ServerTick, ServerTickEnd, LoginsOnly
<1>7. QED
  BY <1>3, <1>4, <1>5, <1>6 DEF ServerActs, ServerStep, ServerThread

(* Every step, with the restarts.                                          *)
LEMMA NextLoginsOnly ==
  ASSUME PartsInv, LoginsOnly, [Next]_vars
  PROVE  LoginsOnly'
<1>1. CASE ServerActs
  BY <1>1, ServerActsLoginsOnly
<1>2. CASE \E c \in Client : ClientActs(c)
  <2>1. PICK c \in Client : ClientActs(c)
    BY <1>2
  <2>2. /\ net' \subseteq net \cup {[to |-> Server, msg |-> Login(c)]}
        /\ UNCHANGED sEvents
    BY <2>1, ClientSendsLogins DEF ClientActs, ServerStays, serverVars
  <2>3. QED
    BY <2>2 DEF LoginsOnly, Login
<1>3. CASE \/ \E c \in Client : ClientRestart(c)
           \/ NetworkLoses \/ UNCHANGED vars
  BY <1>3 DEF ClientRestart, ClientRestarts, NetworkLoses, Lose, vars,
              serverVars, LoginsOnly
<1>4. CASE ServerRestart
  BY <1>4 DEF ServerRestart, LoginsOnly
<1>5. QED
  BY <1>1, <1>2, <1>3, <1>4 DEF Next

(* No client ever sends a ping and the server never acknowledges one:      *)
(* TryPing returns in every state that Tick calls it in.                   *)
THEOREM PingsAreNeverSent ==
  ASSUME FewEndpoints
  PROVE  Spec => [](\A d \in net : d.msg.action = "Login")
<1>1. Init => LoginsOnly
  BY DEF Init, ServerInit, LoginsOnly
<1>2. PartsInv /\ LoginsOnly /\ [Next]_vars => LoginsOnly'
  BY NextLoginsOnly
<1>3. LoginsOnly => \A d \in net : d.msg.action = "Login"
  BY DEF LoginsOnly
<1>4. QED
  BY <1>1, <1>2, <1>3, PartsInvariant, PTL DEF Spec

-----------------------------------------------------------------------------
(* While the server is up.                                                 *)

(* The server process is not restarted: its registry is not on disk.       *)
ServerStaysUp == MaxServerRestarts = 0

(* Login events that wait in a client's queue are as right as the replies  *)
(* that are still on their way.                                            *)
QueuedLogins(c) ==
  {i \in 1 .. Len(cEvents[c]) : cEvents[c][i].action = "Login"}

QueuesMatchRegistry ==
  \A c \in Client : \A i \in QueuedLogins(c) :
    LET session == cEvents[c][i].session
    IN  /\ session \in DOMAIN mPlayers
        /\ session # kInvalidSession
        /\ mPlayers[session].endpoint = c

(* The inductive invariant.  What a client has accepted was in its queue,  *)
(* and before that in the network: each of the three must match the        *)
(* registry for the agreement to be kept.                                  *)
AgreementInv == QueuesMatchRegistry /\ SessionAgreement /\ NoPhantomPlayers

GameInv ==
  /\ PartsInv
  /\ serverRestarts = 0
  /\ RepliesMatchRegistry
  /\ AgreementInv

(* The invariant holds when the processes start.                           *)
LEMMA InitGameInv ==
  ASSUME FewEndpoints, Init
  PROVE  GameInv
<1>1. PartsInv /\ RepliesMatchRegistry
  BY InitPartsInv, InitIInv DEF Init, IInv
<1>2. SessionAgreement /\ NoPhantomPlayers
  BY DEF Init, ClientInit, SessionAgreement, NoPhantomPlayers
<1>3. QueuesMatchRegistry
  BY DEF Init, ClientInit, QueuesMatchRegistry, QueuedLogins
<1>4. QED
  BY <1>1, <1>2, <1>3 DEF GameInv, AgreementInv, Init

(* Steps that touch neither the queues of clients nor what they hold: it   *)
(* stays right while the registry keeps its players.                       *)
LEMMA AgreementStays ==
  ASSUME GameInv, KeepsPlayers,
         UNCHANGED <<cEvents, mState, mThisPlayer, cPlayers>>
  PROVE  AgreementInv'
<1>1. QueuesMatchRegistry'
  BY DEF GameInv, AgreementInv, QueuesMatchRegistry, QueuedLogins,
         KeepsPlayers, KeepsPlayer
<1>2. SessionAgreement'
  BY DEF GameInv, AgreementInv, SessionAgreement, Agrees, KeepsPlayers,
         KeepsPlayer
<1>3. NoPhantomPlayers'
  BY DEF GameInv, AgreementInv, NoPhantomPlayers
<1>4. QED
  BY <1>1, <1>2, <1>3 DEF AgreementInv

(* The first event of a queue, and the queue without it.                   *)
LEMMA PopClientEvent ==
  ASSUME ClientTypeOK, QueuesMatchRegistry, NEW c \in Client,
         cEvents[c] # <<>>, cEvents' = [cEvents EXCEPT ![c] = Tail(@)],
         UNCHANGED mPlayers
  PROVE  /\ Head(cEvents[c]) \in Message
         /\ cEvents' \in [Client -> Seq(Event)]
         /\ QueuesMatchRegistry'
         /\ Head(cEvents[c]).action = "Login" =>
              LET session == Head(cEvents[c]).session
              IN  /\ session \in DOMAIN mPlayers
                  /\ session # kInvalidSession
                  /\ mPlayers[session].endpoint = c
<1>1. cEvents[c] \in Seq(Event) /\ cEvents \in [Client -> Seq(Event)]
  BY DEF ClientTypeOK
<1>2. Head(cEvents[c]) \in Message /\ cEvents' \in [Client -> Seq(Event)]
  BY PopMessage
<1>3. 1 \in 1 .. Len(cEvents[c]) /\ Head(cEvents[c]) = cEvents[c][1]
  BY <1>1
<1>4. ASSUME NEW e \in Client, NEW i \in QueuedLogins(e)'
      PROVE  \E j \in QueuedLogins(e) : cEvents[e][j] = cEvents'[e][i]
  <2>1. CASE e = c
    <3>1. /\ i + 1 \in 1 .. Len(cEvents[c])
          /\ cEvents'[c][i] = cEvents[c][i + 1]
      BY <1>1, <1>4, <2>1 DEF QueuedLogins
    <3>2. QED
      BY <1>4, <2>1, <3>1 DEF QueuedLogins
  <2>2. CASE e # c
    BY <1>1, <1>4, <2>2 DEF QueuedLogins
  <2>3. QED
    BY <2>1, <2>2
<1>5. QueuesMatchRegistry'
  <2>1. ASSUME NEW e \in Client, NEW i \in QueuedLogins(e)'
        PROVE  LET session == cEvents'[e][i].session
               IN  /\ session \in DOMAIN mPlayers'
                   /\ session # kInvalidSession
                   /\ mPlayers'[session].endpoint = e
    <3>1. PICK j \in QueuedLogins(e) : cEvents[e][j] = cEvents'[e][i]
      BY <1>4, <2>1
    <3>2. /\ cEvents[e][j].session \in DOMAIN mPlayers
          /\ cEvents[e][j].session # kInvalidSession
          /\ mPlayers[cEvents[e][j].session].endpoint = e
      BY <3>1 DEF QueuesMatchRegistry
    <3>3. QED
      BY <3>1, <3>2
  <2>2. QED
    BY <2>1 DEF QueuesMatchRegistry
<1>6. QED
  BY <1>2, <1>3, <1>5 DEF QueuesMatchRegistry, QueuedLogins

(* Reading a datagram: it was sent to this client, and is right.           *)
LEMMA ReceiveAgrees ==
  ASSUME GameInv, NEW c \in Client, NEW d \in net, ClientReceive(c, d),
         UNCHANGED mPlayers
  PROVE  AgreementInv'
<1>1. UNCHANGED <<mThisPlayer, mState, cPlayers>>
  BY DEF ClientReceive
<1>2. cEvents \in [Client -> Seq(Event)] /\ d.msg \in Message
  BY DEF GameInv, PartsInv, ClientInv, ClientTypeOK, NetTypeOK
<1>3. /\ \A e \in Client : e # c => cEvents'[e] = cEvents[e]
      /\ cEvents'[c] \in {cEvents[c], Append(cEvents[c], d.msg)}
  BY <1>2 DEF ClientReceive, OnMessage
<1>4. SessionAgreement' /\ NoPhantomPlayers'
  BY <1>1 DEF GameInv, AgreementInv, SessionAgreement, Agrees, NoPhantomPlayers
<1>5. QueuesMatchRegistry'
  <2>1. d.msg.action = "Login" =>
          /\ d.msg.session \in DOMAIN mPlayers
          /\ d.msg.session # kInvalidSession
          /\ mPlayers[d.msg.session].endpoint = c
    BY EndpointIsNotServer
       DEF ClientReceive, Client, GameInv, RepliesMatchRegistry, LoginReplies
  <2>2. ASSUME NEW e \in Client, NEW i \in QueuedLogins(e)'
        PROVE  \/ i \in QueuedLogins(e) /\ cEvents'[e][i] = cEvents[e][i]
               \/ e = c /\ cEvents'[e][i] = d.msg
    BY <1>2, <1>3, <2>2 DEF QueuedLogins
  <2>3. ASSUME NEW e \in Client, NEW i \in QueuedLogins(e)'
        PROVE  cEvents'[e][i].action = "Login"
    BY <2>3 DEF QueuedLogins
  <2>4. QED
    BY <2>1, <2>2, <2>3 DEF GameInv, AgreementInv, QueuesMatchRegistry
<1>6. QED
  BY <1>4, <1>5 DEF AgreementInv

(* HandleLogin: the session accepted is the one registered, and a client   *)
(* that is logged in has it already.                                       *)
LEMMA LoginAgrees ==
  ASSUME GameInv, NEW c \in Client, ClientHandleLogin(c), UNCHANGED mPlayers
  PROVE  AgreementInv'
<1> DEFINE session == Head(cEvents[c]).session
<1> USE DEF GameInv, PartsInv, ClientInv, AgreementInv
<1>1. /\ QueuesMatchRegistry'
      /\ session \in DOMAIN mPlayers
      /\ session # kInvalidSession
      /\ mPlayers[session].endpoint = c
  BY PopClientEvent DEF ClientHandleLogin, IsNext
<1> HIDE DEF session
<1>2. CASE mState[c] = "New"
  <2>1. AcceptsSession(c, session) /\ cPlayers[c] = {}
    BY <1>1, <1>2 DEF AcceptsSession, StateMatchesPlayer
  <2>2. /\ mThisPlayer' = [mThisPlayer EXCEPT ![c] = session]
        /\ mState' = [mState EXCEPT ![c] = "LoggedIn"]
        /\ cPlayers' = [cPlayers EXCEPT ![c] = {session}]
    BY <2>1 DEF ClientHandleLogin, PlayersAfterLogin, session
  <2>3. QED
    BY <1>1, <2>2 DEF ClientTypeOK, SessionAgreement, Agrees, NoPhantomPlayers
<1>3. CASE mState[c] # "New"
  <2>1. mThisPlayer[c] = session
    <3>1. mState[c] = "LoggedIn"
      BY <1>3 DEF ClientTypeOK, State
    <3>2. QED
      BY <1>1, <3>1
         DEF SessionAgreement, Agrees, RegistryInv, OneSessionPerEndpoint
  <2>2. cPlayers[c] = {session}
    BY <1>3, <2>1 DEF StateMatchesPlayer, NoPhantomPlayers
  <2>3. UNCHANGED <<mThisPlayer, mState>> /\ cPlayers' = cPlayers
    BY <1>3, <2>2
       DEF ClientHandleLogin, AcceptsSession, PlayersAfterLogin, session,
           ClientTypeOK
  <2>4. QED
    BY <1>1, <2>3 DEF SessionAgreement, Agrees, NoPhantomPlayers
<1>4. QED
  BY <1>2, <1>3

(* Every step of a client.                                                 *)
LEMMA ClientActsAgree ==
  ASSUME GameInv, KeepsPlayers, NEW c \in Client, ClientActs(c)
  PROVE  AgreementInv'
<1>1. UNCHANGED mPlayers
  BY DEF ClientActs, ServerStays, serverVars
<1>2. CASE \E d \in net : ClientReceive(c, d)
  BY <1>1, <1>2, ReceiveAgrees
<1>3. CASE ClientHandleLogin(c)
  BY <1>1, <1>3, LoginAgrees
<1>4. CASE ClientHandlesNothing(c)
  <2>1. QueuesMatchRegistry'
    BY <1>1, <1>4, PopClientEvent
       DEF ClientHandlesNothing, IsNext, GameInv, PartsInv, ClientInv,
           AgreementInv
  <2>2. UNCHANGED <<mState, mThisPlayer, cPlayers>>
    BY <1>4 DEF ClientHandlesNothing
  <2>3. QED
    BY <1>1, <2>1, <2>2
       DEF GameInv, AgreementInv, SessionAgreement, Agrees, NoPhantomPlayers
<1>5. CASE \/ ClientTick(c) \/ LoginExpires(c)
           \/ \E sent \in BOOLEAN : ClientTickEnd(c, sent)
  BY <1>5, AgreementStays DEF ClientTick, LoginExpires, ClientTickEnd
<1>6. QED
  BY <1>2, <1>3, <1>4, <1>5 DEF ClientActs, ClientStep, ClientThread

(* A client that starts again has neither a player nor events.             *)
LEMMA ClientRestartAgrees ==
  ASSUME GameInv, NEW c \in Client, ClientRestart(c)
  PROVE  AgreementInv'
<1> USE DEF GameInv, PartsInv, ClientInv, AgreementInv, ClientTypeOK
<1>1. UNCHANGED mPlayers
  BY DEF ClientRestart, serverVars
<1>2. SessionAgreement' /\ NoPhantomPlayers'
  BY <1>1 DEF ClientRestart, ClientRestarts, SessionAgreement, Agrees,
              NoPhantomPlayers
<1>3. QueuesMatchRegistry'
  BY <1>1 DEF ClientRestart, ClientRestarts, QueuesMatchRegistry,
              QueuedLogins
<1>4. QED
  BY <1>2, <1>3

(* Every step of the game.                                                 *)
LEMMA GameNextStep ==
  ASSUME FewEndpoints, ServerStaysUp, GameInv, [Next]_vars
  PROVE  GameInv' /\ KeepsPlayers
<1>1. ~ ServerRestart
  BY DEF ServerRestart, GameInv, ServerStaysUp
<1>2. PartsInv' /\ KeepsPlayers /\ RepliesMatchRegistry'
  BY <1>1, PartsStep DEF GameInv, ServerPartStays
<1>3. serverRestarts' = 0
  BY <1>1 DEF Next, ServerActs, ClientsStay, ClientActs, ServerStays,
              ClientRestart, NetworkLoses, restartVars, vars, GameInv
<1>4. CASE ServerActs \/ NetworkLoses \/ UNCHANGED vars
  <2>1. UNCHANGED clientVars
    BY <1>4 DEF ServerActs, ClientsStay, NetworkLoses, vars
  <2>2. AgreementInv'
    BY <1>2, <2>1, AgreementStays DEF clientVars
  <2>3. QED
    BY <1>2, <1>3, <2>2 DEF GameInv
<1>5. CASE \E c \in Client : ClientActs(c) \/ ClientRestart(c)
  <2>1. AgreementInv'
    BY <1>2, <1>5, ClientActsAgree, ClientRestartAgrees
  <2>2. QED
    BY <1>2, <1>3, <2>1 DEF GameInv
<1>6. QED
  BY <1>1, <1>4, <1>5 DEF Next

-----------------------------------------------------------------------------
(* The refinement, step by step.                                           *)

(* HandleLogin adds at most the player of its endpoint to the registry.    *)
LEMMA LoginRegisters ==
  ASSUME FewEndpoints, RegistryInv,
         NEW endpoint \in Endpoint, NEW sent \in BOOLEAN,
         ServerHandleLogin(endpoint, sent)
  PROVE  \/ DOMAIN mPlayers' = DOMAIN mPlayers
         \/ \E id \in PlayerId \ {kInvalidSession} :
              /\ id \notin DOMAIN mPlayers
              /\ DOMAIN mPlayers' = DOMAIN mPlayers \cup {id}
              /\ mPlayers'[id].endpoint = endpoint
              /\ \A i \in DOMAIN mPlayers : mPlayers[i].endpoint # endpoint
<1>1. PICK id \in PlayerFor(endpoint) :
        LET state == StateFor(id, endpoint)
            reply == LoginReply(id, state, endpoint)
        IN  mPlayers' = Put(mPlayers, id, AfterReply(state, reply, sent))
  BY DEF ServerHandleLogin
<1> DEFINE state == StateFor(id, endpoint)
           after == AfterReply(state, LoginReply(id, state, endpoint), sent)
<1>2. /\ id \in 1 .. Cardinality(Endpoint)
      /\ IsPlayerState(state)
      /\ state.endpoint = endpoint
      /\ \/ id \in DOMAIN mPlayers
         \/ /\ id \notin DOMAIN mPlayers
            /\ \A i \in DOMAIN mPlayers : mPlayers[i].endpoint # endpoint
  BY PlayerForLogin
<1>3. id \in PlayerId \ {kInvalidSession}
  BY <1>2, IdBounds DEF PlayerId
<1> HIDE DEF state
<1>4. after.endpoint = endpoint
  BY <1>2 DEF AfterReply, IsPlayerState
<1> HIDE DEF after
<1>5. mPlayers' = Put(mPlayers, id, after)
  BY <1>1 DEF after, state
<1>6. DOMAIN mPlayers' = DOMAIN mPlayers \cup {id} /\ mPlayers'[id] = after
  BY <1>5 DEF Put
<1>7. QED
  BY <1>2, <1>3, <1>4, <1>6

(* A registry with the same players and the same endpoints is the same.    *)
LEMMA SameRegistry ==
  ASSUME KeepsPlayers, DOMAIN mPlayers' = DOMAIN mPlayers
  PROVE  Registry' = Registry
BY DEF KeepsPlayers, KeepsPlayer, Registry

(* The server registers a client, or does nothing that the service sees.   *)
LEMMA ServerActsRefine ==
  ASSUME FewEndpoints, GameInv, ServerActs
  PROVE  Service!Next \/ UNCHANGED Service!vars
<1>1. KeepsPlayers /\ UNCHANGED mThisPlayer
  BY ServerStepKeeps
     DEF ServerActs, GameInv, PartsInv, ClientsStay, clientVars
<1>2. CASE DOMAIN mPlayers' = DOMAIN mPlayers
  BY <1>1, <1>2, SameRegistry DEF Service!vars
<1>3. CASE DOMAIN mPlayers' # DOMAIN mPlayers
  <2>1. PICK endpoint \in Endpoint, sent \in BOOLEAN :
          ServerHandleLogin(endpoint, sent)
    BY <1>3
       DEF ServerActs, ServerStep, ServerThread, ServerReceive, ServerTick,
           ServerTickEnd, ServerHandlePing, ServerHandleAcknowledge
  <2>2. PICK id \in PlayerId \ {kInvalidSession} :
          /\ id \notin DOMAIN mPlayers
          /\ DOMAIN mPlayers' = DOMAIN mPlayers \cup {id}
          /\ mPlayers'[id].endpoint = endpoint
          /\ \A i \in DOMAIN mPlayers : mPlayers[i].endpoint # endpoint
    BY <1>3, <2>1, LoginRegisters DEF GameInv, PartsInv
  <2>3. Registry' = [t \in DOMAIN Registry \cup {id} |->
                       IF t = id THEN endpoint ELSE Registry[t]]
    BY <1>1, <2>2 DEF Registry, KeepsPlayers, KeepsPlayer
  <2>4. Service!Register(endpoint, id)
    BY <1>1, <2>2, <2>3 DEF Service!Register, Service!SessionsOf, Registry
  <2>5. QED
    BY <2>4 DEF Service!Next, Client
<1>4. QED
  BY <1>2, <1>3

(* A client learns its session, or does nothing that the service sees.     *)
LEMMA ClientActsRefine ==
  ASSUME GameInv, NEW c \in Client, ClientActs(c)
  PROVE  Service!Next \/ UNCHANGED Service!vars
<1>1. UNCHANGED mPlayers /\ UNCHANGED Registry
  BY DEF ClientActs, ServerStays, serverVars, Registry
<1>2. CASE UNCHANGED mThisPlayer
  BY <1>1, <1>2 DEF Service!vars
<1>3. CASE ~ UNCHANGED mThisPlayer
  <2> DEFINE session == Head(cEvents[c]).session
  <2>1. ClientHandleLogin(c)
    BY <1>3 DEF ClientActs, ClientStep, ClientThread, ClientReceive, ClientTick,
                ClientHandlesNothing, ClientTickEnd, LoginExpires
  <2>2. AcceptsSession(c, session)
          /\ mThisPlayer' = [mThisPlayer EXCEPT ![c] = session]
    BY <1>3, <2>1 DEF ClientHandleLogin
  <2>3. session \in DOMAIN mPlayers /\ session # kInvalidSession
          /\ mPlayers[session].endpoint = c
    BY <1>1, <2>1, PopClientEvent
       DEF ClientHandleLogin, IsNext, GameInv, PartsInv, ClientInv, AgreementInv
  <2>4. session \in PlayerId
    BY <2>3 DEF GameInv, PartsInv, RegistryInv, ServerTypeOK
  <2>5. mThisPlayer[c] = NoPlayer
    BY <2>2 DEF AcceptsSession, GameInv, PartsInv, ClientInv,
                StateMatchesPlayer
  <2>6. Service!Learn(c, session)
    BY <1>1, <2>2, <2>3, <2>5
       DEF Service!Learn, Service!SessionsOf, Registry
  <2>7. QED
    BY <2>3, <2>4, <2>6 DEF Service!Next
<1>4. QED
  BY <1>2, <1>3

(* Every step of the game is one of the service, or none.                  *)
LEMMA NextRefines ==
  ASSUME FewEndpoints, ServerStaysUp, GameInv, [Next]_vars
  PROVE  [Service!Next]_(Service!vars)
<1>1. CASE ServerActs
  BY <1>1, ServerActsRefine
<1>2. CASE \E c \in Client : ClientActs(c)
  BY <1>2, ClientActsRefine
<1>3. CASE \E c \in Client : ClientRestart(c)
  <2>1. PICK c \in Client : ClientRestart(c)
    BY <1>3
  <2>2. Service!Forget(c)
    BY <2>1 DEF ClientRestart, ClientRestarts, serverVars, Service!Forget,
                Registry
  <2>3. QED
    BY <2>2 DEF Service!Next
<1>4. CASE NetworkLoses \/ UNCHANGED vars
  BY <1>4 DEF NetworkLoses, vars, serverVars, clientVars, Service!vars,
              Registry
<1>5. CASE ServerRestart
  BY <1>5 DEF ServerRestart, GameInv, ServerStaysUp
<1>6. QED
  BY <1>1, <1>2, <1>3, <1>4, <1>5 DEF Next

-----------------------------------------------------------------------------
(* The theorems.                                                           *)

(* GameInv is an invariant.                                                *)
LEMMA GameInvariant ==
  ASSUME FewEndpoints, ServerStaysUp
  PROVE  Spec => []GameInv
<1>1. Init => GameInv
  BY InitGameInv
<1>2. GameInv /\ [Next]_vars => GameInv'
  BY GameNextStep
<1>3. QED
  BY <1>1, <1>2, PTL DEF Spec

(* Whatever the network loses, duplicates or reorders, and however often   *)
(* clients are restarted, the session of a logged-in client is the one     *)
(* that the server has for its endpoint.                                   *)
THEOREM SessionsAgree ==
  ASSUME FewEndpoints, ServerStaysUp
  PROVE  Spec => []SessionAgreement
<1>1. GameInv => SessionAgreement
  BY DEF GameInv, AgreementInv
<1>2. QED
  BY <1>1, GameInvariant, PTL

(* No client takes a reply for the login of another player.                *)
THEOREM PhantomsNeverJoin ==
  ASSUME FewEndpoints, ServerStaysUp
  PROVE  Spec => []NoPhantomPlayers
<1>1. GameInv => NoPhantomPlayers
  BY DEF GameInv, AgreementInv
<1>2. QED
  BY <1>1, GameInvariant, PTL

(* The game implements the session service.                                *)
THEOREM GameImplementsService ==
  ASSUME FewEndpoints, ServerStaysUp
  PROVE  Spec => ImplementsService
<1>1. Init => Service!Init
  BY DEF Init, ServerInit, ClientInit, Service!Init, Registry
<1>2. GameInv /\ [Next]_vars => [Service!Next]_(Service!vars)
  BY NextRefines
<1>3. QED
  BY <1>1, <1>2, GameInvariant, PTL DEF Spec, Service!Spec, ImplementsService

(* Every login reply on its way to a client matches the registry, also one *)
(* that was sent to a process of the client that has ended since.          *)
THEOREM GameRepliesAreRight ==
  ASSUME FewEndpoints, ServerStaysUp
  PROVE  Spec => []RepliesMatchRegistry
<1>1. GameInv => RepliesMatchRegistry
  BY DEF GameInv
<1>2. QED
  BY <1>1, GameInvariant, PTL

(* The real clients take nothing out of the buffer to resend from.         *)
LEMMA GameBuffers ==
  ASSUME FewEndpoints, ServerStaysUp, IdsDoNotWrap, GameInv, BufferInv,
         [Next]_vars
  PROVE  BufferInv'
<1>1. GameInv' /\ KeepsPlayers /\ ~ ServerRestart
  BY GameNextStep DEF ServerRestart, GameInv, ServerStaysUp
<1>2. CASE ServerActs
  BY <1>2, ServerStepBuffers DEF ServerActs
<1>3. CASE ~ ServerActs
  <2>1. UNCHANGED mPlayers
    BY <1>1, <1>3 DEF Next, ClientActs, ServerStays, ClientRestart,
                      NetworkLoses, serverVars, vars
  <2>2. ASSUME NEW d \in net' PROVE d \in net \/ d.to = Server
    <3>1. CASE \E c \in Client : ClientActs(c)
      <4>1. PICK c \in Client :
              net' \subseteq net \cup {[to |-> Server, msg |-> Login(c)]}
        BY <3>1, ClientSendsLogins DEF ClientActs
      <4>2. QED
        BY <2>2, <4>1
    <3>2. CASE ~ \E c \in Client : ClientActs(c)
      BY <1>1, <1>3, <2>2, <3>2
         DEF Next, ClientRestart, ClientRestarts, NetworkLoses, Lose, vars
    <3>3. QED
      BY <3>1, <3>2
  <2>3. QED
    BY <1>1, <2>1, <2>2, SilentStep DEF GameInv, PartsInv
<1>4. QED
  BY <1>2, <1>3

(* What the server has sent to the clients of the game, and is still on    *)
(* its way, can be sent again.                                             *)
THEOREM GameRepliesAreBuffered ==
  ASSUME FewEndpoints, ServerStaysUp, IdsDoNotWrap
  PROVE  Spec => []SentIsBuffered
<1>1. Init => BufferInv
  BY ServerStarts DEF Init, ServerInit, BufferInv, SentIsBuffered
<1>2. GameInv /\ BufferInv /\ [Next]_vars => BufferInv'
  BY GameBuffers
<1>3. BufferInv => SentIsBuffered
  BY DEF BufferInv
<1>4. QED
  BY <1>1, <1>2, <1>3, GameInvariant, PTL DEF Spec

-----------------------------------------------------------------------------
(* What the session service promises, and what the game promises with it.  *)

(* Inductive invariant of the service: TypeOK is in it because Learn and   *)
(* Forget update known at a client, which says nothing unless known is     *)
(* defined there.                                                          *)
ServiceInv ==
  Service!TypeOK /\ Service!OneSessionEach /\ Service!KnownIsRegistered

(* Nobody is registered, and nobody knows a session, at first.             *)
LEMMA InitServiceInv == Service!Init => ServiceInv
  BY DEF Service!Init, ServiceInv, Service!TypeOK, Service!OneSessionEach,
         Service!KnownIsRegistered, Service!SessionsOf

(* What a step must keep of the sessions that were handed out.             *)
SessionsKept ==
  \A s \in DOMAIN Registry :
    s \in DOMAIN Registry' /\ Registry'[s] = Registry[s]

(* A new session is no other client's, and no other session changes.       *)
LEMMA RegisterKeeps ==
  ASSUME ServiceInv, NEW c \in Client,
         NEW s \in PlayerId \ {kInvalidSession}, Service!Register(c, s)
  PROVE  ServiceInv' /\ SessionsKept
<1>1. /\ DOMAIN Registry' = DOMAIN Registry \cup {s}
      /\ \A t \in DOMAIN Registry : Registry'[t] = Registry[t]
      /\ Registry'[s] = c
  BY DEF Service!Register
<1>2. Service!TypeOK'
  BY <1>1 DEF ServiceInv, Service!TypeOK, Service!Register
<1>3. Service!OneSessionEach'
  BY <1>1 DEF ServiceInv, Service!OneSessionEach, Service!Register,
              Service!SessionsOf
<1>4. Service!KnownIsRegistered'
  BY <1>1 DEF ServiceInv, Service!KnownIsRegistered, Service!Register,
              Service!SessionsOf
<1>5. QED
  BY <1>1, <1>2, <1>3, <1>4 DEF ServiceInv, SessionsKept

(* A client learns nothing but the session it is registered under.         *)
LEMMA LearnKeeps ==
  ASSUME ServiceInv, NEW c \in Client,
         NEW s \in PlayerId \ {kInvalidSession}, Service!Learn(c, s)
  PROVE  ServiceInv' /\ SessionsKept
<1>1. Service!TypeOK'
  BY DEF ServiceInv, Service!TypeOK, Service!Learn
<1>2. Service!OneSessionEach'
  BY DEF ServiceInv, Service!OneSessionEach, Service!Learn
<1>3. Service!KnownIsRegistered'
  BY DEF ServiceInv, Service!TypeOK, Service!KnownIsRegistered,
         Service!Learn, Service!SessionsOf
<1>4. SessionsKept
  BY DEF Service!Learn, SessionsKept
<1>5. QED
  BY <1>1, <1>2, <1>3, <1>4 DEF ServiceInv

(* What one client forgets, the registry and the other clients keep.       *)
LEMMA ForgetKeeps ==
  ASSUME ServiceInv, NEW c \in Client, Service!Forget(c)
  PROVE  ServiceInv' /\ SessionsKept
<1>1. Service!TypeOK'
  BY DEF ServiceInv, Service!TypeOK, Service!Forget
<1>2. Service!OneSessionEach'
  BY DEF ServiceInv, Service!OneSessionEach, Service!Forget
<1>3. Service!KnownIsRegistered'
  BY DEF ServiceInv, Service!TypeOK, Service!KnownIsRegistered,
         Service!Forget, Service!SessionsOf
<1>4. SessionsKept
  BY DEF Service!Forget, SessionsKept
<1>5. QED
  BY <1>1, <1>2, <1>3, <1>4 DEF ServiceInv

(* Each step of the service is one of the three, or changes nothing.       *)
LEMMA ServiceStep ==
  ASSUME ServiceInv, [Service!Next]_(Service!vars)
  PROVE  ServiceInv' /\ (SessionsKept \/ UNCHANGED Service!vars)
<1>1. CASE UNCHANGED Service!vars
  BY <1>1 DEF Service!vars, ServiceInv, Service!TypeOK, Service!OneSessionEach,
              Service!KnownIsRegistered, Service!SessionsOf
<1>2. ASSUME NEW c \in Client, NEW s \in PlayerId \ {kInvalidSession},
             Service!Register(c, s)
      PROVE  ServiceInv' /\ SessionsKept
  BY <1>2, RegisterKeeps
<1>3. ASSUME NEW c \in Client, NEW s \in PlayerId \ {kInvalidSession},
             Service!Learn(c, s)
      PROVE  ServiceInv' /\ SessionsKept
  BY <1>3, LearnKeeps
<1>4. ASSUME NEW c \in Client, Service!Forget(c)
      PROVE  ServiceInv' /\ SessionsKept
  BY <1>4, ForgetKeeps
<1>5. QED
  BY <1>1, <1>2, <1>3, <1>4 DEF Service!Next

(* The service hands out one session to each client, and what a client has *)
(* learnt is the session it is registered under, however often it forgets. *)
THEOREM ServiceIsRight ==
  Service!Spec => [](Service!OneSessionEach /\ Service!KnownIsRegistered)
<1>1. ServiceInv => Service!OneSessionEach /\ Service!KnownIsRegistered
  BY DEF ServiceInv
<1>2. ServiceInv /\ [Service!Next]_(Service!vars) => ServiceInv'
  BY ServiceStep
<1>3. QED
  BY <1>1, <1>2, InitServiceInv, PTL DEF Service!Spec

(* No step of the service takes a session from the client that has it.     *)
THEOREM ServiceKeepsSessions == Service!Spec => Service!SessionsAreForGood
<1>1. ServiceInv /\ [Service!Next]_(Service!vars)
        => ServiceInv' /\ [SessionsKept]_(Service!vars)
  BY ServiceStep
<1>2. QED
  BY <1>1, InitServiceInv, PTL
  DEF Service!Spec, Service!SessionsAreForGood, SessionsKept

(* The game keeps what the service promises: in the registry of the server *)
(* no client has two sessions, and what was handed out stays with its      *)
(* client through every loss, duplicate and restart of a client.           *)
COROLLARY GameKeepsPromises ==
  ASSUME FewEndpoints, ServerStaysUp
  PROVE  Spec => /\ [](Service!OneSessionEach /\ Service!KnownIsRegistered)
                 /\ Service!SessionsAreForGood
BY GameImplementsService, ServiceIsRight, ServiceKeepsSessions, PTL
DEF ImplementsService

=============================================================================
