----------------------------- MODULE GameClient -----------------------------
(***************************************************************************)
(* Client::GameLoop: each client logs in, again and again until a reply    *)
(* comes, and then keeps the player that the reply made it.                *)
(*                                                                         *)
(* A client is identified with the endpoint its process has bound (two     *)
(* processes cannot bind the same one), and every variable of this module  *)
(* is a function on the clients.                                           *)
(***************************************************************************)
EXTENDS Game

Client == Endpoint

(* A mThisPlayer that is still nullptr.                                    *)
NoPlayer == IdSpace

VARIABLES
  cPhase,         \* what the client's thread does: read the socket or tick
  cEvents,        \* mEvents, the queued events
  mState,         \* mState; TimedOut and Disconnected are never assigned
  mThisPlayer,    \* the id of *mThisPlayer, or NoPlayer
  cPlayers,       \* the ids in mPlayers
  loginRecent     \* now < mLoginAttemptTime + 500ms

clientVars == <<cPhase, cEvents, mState, mThisPlayer, cPlayers, loginRecent>>

State == {"New", "LoggedIn"}

ClientInit ==
  /\ cPhase = [c \in Client |-> "recv"]
  /\ cEvents = [c \in Client |-> <<>>]
  /\ mState = [c \in Client |-> "New"]
  /\ mThisPlayer = [c \in Client |-> NoPlayer]
  /\ cPlayers = [c \in Client |-> {}]
  /\ loginRecent = [c \in Client |-> FALSE]

-----------------------------------------------------------------------------
(* The client reads a datagram from its socket.                            *)
ClientReceive(c, d) ==
  /\ cPhase[c] = "recv"
  /\ d.to = c
  /\ Len(cEvents[c]) < MaxEvents
  /\ TakeFromNet(d)
  /\ cEvents' = [cEvents EXCEPT ![c] = OnMessage(@, d.msg)]
  /\ UNCHANGED <<cPhase, mState, mThisPlayer, cPlayers, loginRecent>>

ClientTick(c) ==
  /\ cPhase[c] = "recv"
  /\ cPhase' = [cPhase EXCEPT ![c] = "tick"]
  /\ UNCHANGED <<net, cEvents, mState, mThisPlayer, cPlayers, loginRecent>>

(* Variant of AcceptsSession: the invalid session is not turned down.      *)
AcceptsAnySession(c, session) ==
  mState[c] = "New" /\ session \notin cPlayers[c]

(* Variant of AcceptsSession: the state of the client is not looked at.    *)
AcceptsAnyTime(c, session) ==
  session # kInvalidSession /\ session \notin cPlayers[c]

(* HandleLogin in state New: the first valid session is this client's.     *)
(* mPlayers is empty then, so that CreatePlayer(session) makes the player. *)
AcceptsSession(c, session) ==
  mState[c] = "New" /\ session # kInvalidSession /\ session \notin cPlayers[c]

(* Variant of PlayersAfterLogin: the player is created under the id the    *)
(* client had before.                                                      *)
PlayersBeforeLogin(c, session) == cPlayers[c] \cup {mThisPlayer[c]}

(* CreatePlayer(id).  A logged-in client takes any other login as that of  *)
(* a new player; an id it has already changes nothing.                     *)
PlayersAfterLogin(c, session) ==
  IF AcceptsSession(c, session) \/ mState[c] # "New"
  THEN cPlayers[c] \cup {session}
  ELSE cPlayers[c]

ClientHandleLogin(c) ==
  /\ IsNext(cPhase[c], cEvents[c], "Login")
  /\ LET session == Head(cEvents[c]).session
     IN  /\ cPlayers' = [cPlayers EXCEPT ![c] = PlayersAfterLogin(c, session)]
         /\ IF AcceptsSession(c, session)
            THEN /\ mThisPlayer' = [mThisPlayer EXCEPT ![c] = session]
                 /\ mState' = [mState EXCEPT ![c] = "LoggedIn"]
            ELSE UNCHANGED <<mThisPlayer, mState>>
  /\ cEvents' = [cEvents EXCEPT ![c] = Tail(@)]
  /\ UNCHANGED <<net, cPhase, loginRecent>>

(* HandlePing and HandleAcknowledge do nothing with the event.             *)
ClientHandlesNothing(c) ==
  /\ \/ IsNext(cPhase[c], cEvents[c], "Ping")
     \/ IsNext(cPhase[c], cEvents[c], "Acknowledge")
  /\ cEvents' = [cEvents EXCEPT ![c] = Tail(@)]
  /\ UNCHANGED <<net, cPhase, mState, mThisPlayer, cPlayers, loginRecent>>

-----------------------------------------------------------------------------
(* TryLogin: at most one login each 500ms, from the last that was sent.    *)
Login(c) ==
  [action |-> "Login", messageId |-> 0, session |-> 0, endpoint |-> c]

(* Variant of LoginIsDue: the times are compared the wrong way round.      *)
LoginIsEarly(c) == mState[c] = "New" /\ loginRecent[c]

LoginIsDue(c) == mState[c] = "New" /\ ~ loginRecent[c]

LoginsSent(c, sent) == IF LoginIsDue(c) /\ sent THEN {Login(c)} ELSE {}

(* TryPing.  Tick calls it only in a state other than New, and it returns  *)
(* at once in a state other than New (client/GameLoop.cpp:100, 168), so    *)
(* that nextMessage, ackCount and mLastPing keep their first values.       *)
Ping(c) ==
  [action |-> "Ping", messageId |-> 0, playerId |-> mThisPlayer[c],
   lastAck |-> 0]

TickCallsTryPing(c) == mState[c] # "New"
TryPingSends(c) == mState[c] = "New"

PingsSent(c, sent) ==
  IF TickCallsTryPing(c) /\ TryPingSends(c) /\ sent THEN {Ping(c)} ELSE {}

(* The end of Tick, when the queue is empty.  A login that could not be    *)
(* sent does not count as an attempt: the next tick tries again.           *)
ClientTickEnd(c, sent) ==
  /\ cPhase[c] = "tick"
  /\ cEvents[c] = <<>>
  /\ net' = net \cup {[to |-> Server, msg |-> m] :
                        m \in LoginsSent(c, sent) \cup PingsSent(c, sent)}
  /\ loginRecent' =
       [loginRecent EXCEPT ![c] = @ \/ LoginsSent(c, sent) # {}]
  /\ cPhase' = [cPhase EXCEPT ![c] = "recv"]
  /\ UNCHANGED <<cEvents, mState, mThisPlayer, cPlayers>>

(* Variant of LoginExpires: an attempt counts until the client is in.      *)
LoginExpiresLate(c) ==
  /\ loginRecent[c]
  /\ mState[c] # "New"
  /\ loginRecent' = [loginRecent EXCEPT ![c] = FALSE]
  /\ UNCHANGED <<net, cPhase, cEvents, mState, mThisPlayer, cPlayers>>

(* 500ms pass after the last login.                                        *)
LoginExpires(c) ==
  /\ loginRecent[c]
  /\ loginRecent' = [loginRecent EXCEPT ![c] = FALSE]
  /\ UNCHANGED <<net, cPhase, cEvents, mState, mThisPlayer, cPlayers>>

(* The process of the client ends and is started again.  What it sent, and *)
(* what is sent to its endpoint, stays in the network.                     *)
ClientRestarts(c) ==
  /\ cPhase' = [cPhase EXCEPT ![c] = "recv"]
  /\ cEvents' = [cEvents EXCEPT ![c] = <<>>]
  /\ mState' = [mState EXCEPT ![c] = "New"]
  /\ mThisPlayer' = [mThisPlayer EXCEPT ![c] = NoPlayer]
  /\ cPlayers' = [cPlayers EXCEPT ![c] = {}]
  /\ loginRecent' = [loginRecent EXCEPT ![c] = FALSE]
  /\ UNCHANGED net

(* What the thread does whether or not there is a datagram to read.        *)
ClientThread(c) ==
  \/ ClientTick(c)
  \/ ClientHandleLogin(c)
  \/ ClientHandlesNothing(c)
  \/ \E sent \in BOOLEAN : ClientTickEnd(c, sent)

ClientStep(c) ==
  \/ ClientThread(c)
  \/ \E d \in net : ClientReceive(c, d)
  \/ LoginExpires(c)

-----------------------------------------------------------------------------
(* Properties.                                                             *)

(* Type invariant of the clients.                                          *)
ClientTypeOK ==
  /\ cPhase \in [Client -> Phase]
  /\ cEvents \in [Client -> Seq(Event)]
  /\ mState \in [Client -> State]
  /\ mThisPlayer \in [Client -> PlayerId \cup {NoPlayer}]
  /\ cPlayers \in [Client -> SUBSET PlayerId]
  /\ loginRecent \in [Client -> BOOLEAN]

(* Whatever logins a client receives, its state says whether it has a      *)
(* player: TryPing and the handlers may follow mThisPlayer exactly when    *)
(* the state is not New, and a new client has no player of anyone.         *)
StateMatchesPlayer ==
  \A c \in Client :
    IF mState[c] = "New"
    THEN mThisPlayer[c] = NoPlayer /\ cPlayers[c] = {}
    ELSE mThisPlayer[c] \in cPlayers[c] \ {kInvalidSession}

(* No later login, duplicated, stale or meant for another player, changes  *)
(* the session of a client: it lasts until the client's process ends.      *)
SessionLasts ==
  [][\A c \in Client :
       mState[c] = "LoggedIn" =>
         \/ /\ mState'[c] = "LoggedIn"
            /\ mThisPlayer'[c] = mThisPlayer[c]
            /\ cPlayers[c] \subseteq cPlayers'[c]
         \/ ClientRestarts(c)]_clientVars

=============================================================================
