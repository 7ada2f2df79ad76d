--------------------------- MODULE SessionService ---------------------------
(***************************************************************************)
(* What the game promises its players, with no messages in it: a client is *)
(* registered under one session, learns that session and no other, and     *)
(* after a restart learns the same one again.  UdpGame implements it.      *)
(***************************************************************************)
CONSTANTS Client, Session, NoSession

VARIABLES
  registry,   \* session -> client, for the sessions handed out
  known       \* client -> the session it has learnt, or NoSession

vars == <<registry, known>>

Init ==
  /\ registry = [s \in {} |-> s]
  /\ known = [c \in Client |-> NoSession]

SessionsOf(c) == {s \in DOMAIN registry : registry[s] = c}

(* A client without a session is given a free one, for good.               *)
Register(c, s) ==
  /\ SessionsOf(c) = {}
  /\ s \in Session \ DOMAIN registry
  /\ registry' = [t \in DOMAIN registry \cup {s} |->
                    IF t = s THEN c ELSE registry[t]]
  /\ UNCHANGED known

(* A client that knows no session learns the one it is registered under.   *)
Learn(c, s) ==
  /\ known[c] = NoSession
  /\ s \in SessionsOf(c)
  /\ known' = [known EXCEPT ![c] = s]
  /\ UNCHANGED registry

(* A client that ends forgets its session, and the registry does not.      *)
Forget(c) ==
  /\ known' = [known EXCEPT ![c] = NoSession]
  /\ UNCHANGED registry

Next ==
  \E c \in Client :
    \/ \E s \in Session : Register(c, s) \/ Learn(c, s)
    \/ Forget(c)

Spec == Init /\ [][Next]_vars

-----------------------------------------------------------------------------
(* Properties.                                                             *)

TypeOK ==
  /\ DOMAIN registry \subseteq Session
  /\ registry \in [DOMAIN registry -> Client]
  /\ known \in [Client -> Session \cup {NoSession}]

(* A session belongs to one client and a client has one session.           *)
OneSessionEach ==
  \A s, t \in DOMAIN registry : registry[s] = registry[t] => s = t

(* What a client has learnt is what it is registered under.                *)
KnownIsRegistered ==
  \A c \in Client : known[c] # NoSession => known[c] \in SessionsOf(c)

(* A client that learns its session twice, across any number of restarts,  *)
(* learns the same one: no session is ever taken back.                     *)
SessionsAreForGood ==
  [][\A s \in DOMAIN registry :
       s \in DOMAIN registry' /\ registry'[s] = registry[s]]_vars

(* Every client is registered in the end, and learns its session again     *)
(* each time it has forgotten it.                                          *)
Served ==
  \A c \in Client :
    /\ <>(SessionsOf(c) # {})
    /\ []<>(known[c] # NoSession)

=============================================================================
