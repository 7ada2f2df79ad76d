------------------------- MODULE ServerAloneProofs -------------------------
(***************************************************************************)
(* The server keeps its promises to any clients, whatever they send, for   *)
(* every number of endpoints, events and messages, as long as there are    *)
(* fewer endpoints than player ids.                                        *)
(***************************************************************************)
EXTENDS ServerAlone, GameProofs

(* Every step keeps the invariant of the server.                           *)
LEMMA NextStep ==
  ASSUME FewEndpoints, RegistryInv, [Next]_vars
  PROVE  /\ RegistryInv'
         /\ KeepsPlayers
         /\ RepliesMatchRegistry => RepliesMatchRegistry'
<1>1. CASE ServerStep
  BY <1>1, ServerStepKeeps
<1>2. CASE ClientSends
  <2>1. PICK msg \in ClientInput :
          net' = net \cup {[to |-> Server, msg |-> msg]}
    BY <1>2 DEF ClientSends, SendMessage
  <2>2. [to |-> Server, msg |-> msg] \in Datagram
    BY InputAssumption DEF Datagram, Destination
  <2>3. net' \subseteq Datagram /\ LoginReplies' \subseteq LoginReplies
    BY <2>1, <2>2 DEF LoginReplies, RegistryInv, ServerTypeOK
  <2>4. QED
    BY <1>2, <2>3, OthersStepKeeps DEF ClientSends
<1>3. CASE NetworkLoses \/ UNCHANGED vars
  <2>1. net' \subseteq net /\ UNCHANGED serverVars
    BY <1>3 DEF NetworkLoses, Lose, vars
  <2>2. net' \subseteq Datagram /\ LoginReplies' \subseteq LoginReplies
    BY <2>1, LessInFlight DEF RegistryInv, ServerTypeOK
  <2>3. QED
    BY <2>1, <2>2, OthersStepKeeps
<1>4. QED
  BY <1>1, <1>2, <1>3 DEF Next

(* Every step keeps what was sent buffered.                                *)
LEMMA NextBuffers ==
  ASSUME FewEndpoints, IdsDoNotWrap, BufferInv, [Next]_vars
  PROVE  BufferInv'
<1>1. CASE ServerStep
  BY <1>1, ServerStepBuffers
<1>2. CASE ClientSends \/ NetworkLoses \/ UNCHANGED vars
  <2>1. UNCHANGED mPlayers /\ \A d \in net' : d \in net \/ d.to = Server
    BY <1>2 DEF ClientSends, SendMessage, NetworkLoses, Lose, serverVars, vars
  <2>2. RegistryInv' /\ KeepsPlayers
    BY NextStep DEF BufferInv
  <2>3. QED
    BY <2>1, <2>2, SilentStep
<1>3. QED
  BY <1>1, <1>2 DEF Next

-----------------------------------------------------------------------------
(* IInv is an invariant.                                                   *)
LEMMA IInvInvariant ==
  ASSUME FewEndpoints
  PROVE  Spec => []IInv
<1>1. Init => IInv
  BY InitIInv DEF Init
<1>2. IInv /\ [Next]_vars => IInv'
  BY NextStep DEF IInv
<1>3. QED
  BY <1>1, <1>2, PTL DEF Spec

(* The server's variables and the network keep their types: every datagram *)
(* that the handlers put together is one a client can take apart.          *)
THEOREM ServerTypeCorrect ==
  ASSUME FewEndpoints
  PROVE  Spec => []ServerTypeOK
<1>1. IInv => ServerTypeOK
  BY DEF IInv, RegistryInv
<1>2. QED
  BY <1>1, IInvInvariant, PTL

(* CreatePlayer never makes a second player for an endpoint.               *)
THEOREM SessionsAreUnique ==
  ASSUME FewEndpoints
  PROVE  Spec => []OneSessionPerEndpoint
<1>1. IInv => OneSessionPerEndpoint
  BY DEF IInv, RegistryInv
<1>2. QED
  BY <1>1, IInvInvariant, PTL

(* No login reply that is on its way, however old, contradicts the         *)
(* registry.                                                               *)
THEOREM RepliesAreRight ==
  ASSUME FewEndpoints
  PROVE  Spec => []RepliesMatchRegistry
<1>1. IInv => RepliesMatchRegistry
  BY DEF IInv
<1>2. QED
  BY <1>1, IInvInvariant, PTL

(* No step of the server takes a player, its endpoint or a message that    *)
(* was buffered for it away.                                               *)
THEOREM RegistryIsForGood ==
  ASSUME FewEndpoints
  PROVE  Spec => PlayersAreKept
<1>1. IInv /\ [Next]_vars => [KeepsPlayers]_serverVars
  BY NextStep DEF IInv
<1>2. QED
  BY <1>1, IInvInvariant, PTL DEF Spec, PlayersAreKept

(* Every reply that is on its way to a client is in the buffer to resend   *)
(* from, under its own id and with its own contents.                       *)
THEOREM RepliesAreBuffered ==
  ASSUME FewEndpoints, IdsDoNotWrap
  PROVE  Spec => []SentIsBuffered
<1>1. Init => BufferInv
  BY ServerStarts DEF Init, ServerInit, BufferInv, SentIsBuffered
<1>2. BufferInv /\ [Next]_vars => BufferInv'
  BY NextBuffers
<1>3. BufferInv => SentIsBuffered
  BY DEF BufferInv
<1>4. QED
  BY <1>1, <1>2, <1>3, PTL DEF Spec

-----------------------------------------------------------------------------
(* No acknowledgement is on its way to a place where a client listens: the *)
(* port of a closed socket is no client's.                                 *)
AcknowledgesGoAstray ==
  \A d \in net : d.msg.action = "Acknowledge" => d.to \notin Endpoint

(* What is sent in a step is an acknowledgement to such a port, or it is a *)
(* login, or it is for the server.                                         *)
LEMMA NextSendsAstray ==
  ASSUME [Next]_vars, NEW d \in net', d \notin net,
         d.msg.action = "Acknowledge"
  PROVE  d.to \notin Endpoint
<1>1. CASE ServerHandlePing
  <2>1. d.to.port = EphemeralPort
    BY <1>1 DEF ServerHandlePing, SendMessage, AcknowledgeTo, SourcePort
  <2>2. QED
    BY <2>1, EndpointAssumption, EphemeralAssumption
<1>2. CASE \E endpoint \in Endpoint, sent \in BOOLEAN :
             ServerHandleLogin(endpoint, sent)
  BY <1>2 DEF ServerHandleLogin, SendMessage, LoginReply
<1>3. CASE ClientSends
  <2>1. d.to = Server
    BY <1>3 DEF ClientSends, SendMessage
  <2>2. QED
    BY <2>1, EndpointIsNotServer
<1>4. CASE \/ ServerTick \/ ServerTickEnd \/ ServerHandleAcknowledge
           \/ \E e \in net : ServerReceive(e)
           \/ NetworkLoses \/ UNCHANGED vars
  BY <1>4
     DEF ServerTick, ServerTickEnd, ServerHandleAcknowledge, ServerReceive,
         TakeFromNet, NetworkLoses, Lose, vars
<1>5. QED
  BY <1>1, <1>2, <1>3, <1>4 DEF Next, ServerStep, ServerThread

(* No acknowledgement ever reaches a client, whoever pings and however     *)
(* many endpoints there are: claim_ack_reaches shows no mere corner case.  *)
THEOREM AcknowledgesAreLost == Spec => []AcknowledgesGoAstray
<1>1. Init => AcknowledgesGoAstray
  BY DEF Init, AcknowledgesGoAstray
<1>2. AcknowledgesGoAstray /\ [Next]_vars => AcknowledgesGoAstray'
  BY NextSendsAstray DEF AcknowledgesGoAstray
<1>3. QED
  BY <1>1, <1>2, PTL DEF Spec

=============================================================================
