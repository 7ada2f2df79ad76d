------------------------------ MODULE UdpGame ------------------------------
(***************************************************************************)
(* The whole game: one server process, the client processes and the        *)
(* network between them.  Processes end and are started again.             *)
(***************************************************************************)
EXTENDS GameServer, GameClient

CONSTANTS
  MaxClientRestarts,  \* bound: how often client processes are restarted
  MaxServerRestarts   \* bound: how often the server process is restarted

ASSUME RestartAssumption ==
  MaxClientRestarts \in Nat /\ MaxServerRestarts \in Nat

VARIABLES
  clientRestarts,     \* how often a client process was restarted
  serverRestarts      \* how often the server process was restarted

restartVars == <<clientRestarts, serverRestarts>>

vars == <<net, serverVars, clientVars, restartVars>>

Init ==
  /\ net = {}
  /\ ServerInit
  /\ ClientInit
  /\ clientRestarts = 0
  /\ serverRestarts = 0

-----------------------------------------------------------------------------
ClientsStay == UNCHANGED <<clientVars, restartVars>>
ServerStays == UNCHANGED <<serverVars, restartVars>>

ServerActs == ServerStep /\ ClientsStay

ClientActs(c) == ClientStep(c) /\ ServerStays

NetworkLoses == Lose /\ UNCHANGED <<serverVars, clientVars, restartVars>>

ClientRestart(c) ==
  /\ clientRestarts < MaxClientRestarts
  /\ clientRestarts' = clientRestarts + 1
  /\ ClientRestarts(c)
  /\ UNCHANGED <<serverVars, serverRestarts>>

(* The server keeps nothing on disk: it starts again with an empty         *)
(* registry and with player id 1.                                          *)
ServerRestart ==
  /\ serverRestarts < MaxServerRestarts
  /\ serverRestarts' = serverRestarts + 1
  /\ sPhase' = "recv"
  /\ sEvents' = <<>>
  /\ mPlayers' = <<>>
  /\ mNextPlayerId' = 1
  /\ UNCHANGED <<net, clientVars, clientRestarts>>

Next ==
  \/ ServerActs
  \/ \E c \in Client : ClientActs(c) \/ ClientRestart(c)
  \/ NetworkLoses
  \/ ServerRestart

Spec == Init /\ [][Next]_vars

-----------------------------------------------------------------------------
(* Fairness.  The threads run, each 500ms end, and SendMessage does not    *)
(* fail for ever.  A datagram that is in flight again and again is also    *)
(* read again and again: the socket keeps it while the thread ticks, so    *)
(* that the network cannot lose it exactly when nobody is reading.         *)
LoginOf(c) == [to |-> Server, msg |-> Login(c)]
RepliesTo(c) == {d \in net : d.to = c /\ d.msg.action = "Login"}

ReadsLoginOf(c) == ClientsStay /\ ServerReceive(LoginOf(c))
ReadsReply(c) == ServerStays /\ \E d \in RepliesTo(c) : ClientReceive(c, d)

Delivery(c) ==
  /\ []<>(LoginOf(c) \in net) => []<><<ReadsLoginOf(c)>>_vars
  /\ []<>(RepliesTo(c) # {}) => []<><<ReadsReply(c)>>_vars

ServerFairness ==
  /\ WF_vars(ClientsStay /\ ServerThread)
  /\ \A c \in Client : SF_vars(ClientsStay /\ ServerHandleLogin(c, TRUE))

ClientFairness(c) ==
  /\ WF_vars(ServerStays /\ ClientThread(c))
  /\ WF_vars(ServerStays /\ LoginExpires(c))
  /\ SF_vars(ServerStays /\ LoginIsDue(c) /\ ClientTickEnd(c, TRUE))

Fairness ==
  /\ ServerFairness
  /\ \A c \in Client : ClientFairness(c) /\ Delivery(c)

FairSpec == Spec /\ Fairness

-----------------------------------------------------------------------------
(* Properties.                                                             *)

TypeOK ==
  /\ ServerTypeOK
  /\ ClientTypeOK
  /\ clientRestarts \in 0 .. MaxClientRestarts
  /\ serverRestarts \in 0 .. MaxServerRestarts

(* The server and every logged-in client agree on the client's session,    *)
(* whatever was lost, duplicated or reordered between HandleLogin on one   *)
(* side and HandleLogin on the other, and however often the client's       *)
(* process was restarted in between.  (Not when the server's was.)         *)
Agrees(c) ==
  /\ mThisPlayer[c] \in DOMAIN mPlayers
  /\ mPlayers[mThisPlayer[c]].endpoint = c

SessionAgreement == \A c \in Client : mState[c] = "LoggedIn" => Agrees(c)

(* A client knows no player but its own: no stale or duplicated reply is   *)
(* taken for the login of a new player (the multi-client branch).          *)
NoPhantomPlayers ==
  \A c \in Client : cPlayers[c] \subseteq {mThisPlayer[c]}

(* The game implements the session service: the registry is who is at the  *)
(* endpoint of each player, and a client knows the id of its own player.   *)
Registry == [id \in DOMAIN mPlayers |-> mPlayers[id].endpoint]

Service == INSTANCE SessionService WITH
  Session <- PlayerId \ {kInvalidSession},
  NoSession <- NoPlayer,
  registry <- Registry,
  known <- mThisPlayer

ImplementsService == Service!Spec

(* Every client is registered by the server and, each time its process has *)
(* started, ends up logged in, also when the server is restarted between   *)
(* its login and the reply: the retries of TryLogin get through.           *)
ClientsGetServed == Service!Served

(* Once the server is not restarted any more, a client that starts when no *)
(* reply of an earlier server is on its way to it gets the session under   *)
(* which that server has it: HandleLogin and the retries of TryLogin bring *)
(* them together, whatever was registered before.                          *)
StartsAfresh(c) ==
  /\ serverRestarts = MaxServerRestarts
  /\ mState[c] = "New"
  /\ cEvents[c] = <<>>
  /\ RepliesTo(c) = {}

ClientsComeBack ==
  \A c \in Client :
    StartsAfresh(c) ~> mState[c] = "LoggedIn" /\ Agrees(c)

=============================================================================
