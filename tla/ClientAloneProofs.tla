------------------------- MODULE ClientAloneProofs -------------------------
(***************************************************************************)
(* A client keeps its promises against any server at all, whatever that    *)
(* sends and however often processes start again, for every number of      *)
(* clients, events and datagrams.                                          *)
(***************************************************************************)
EXTENDS ClientAlone, GameProofs

(* Every step keeps the invariant and the sessions.                        *)
LEMMA NextStep ==
  ASSUME ClientInv, [Next]_vars
  PROVE  ClientInv' /\ KeepsSessions
<1>1. CASE \E c \in Client : ClientStep(c)
  BY <1>1, ClientStepKeeps
<1>2. CASE \E c \in Client : ClientRestarts(c)
  BY <1>2, ClientRestartStep
<1>3. CASE ServerSends \/ NetworkLoses \/ UNCHANGED vars
  <2>1. NetTypeOK' /\ UNCHANGED clientVars
    BY <1>3, InputAssumption
       DEF ServerSends, SendMessage, NetworkLoses, Lose, vars, ClientInv,
           NetTypeOK
  <2>2. QED
    BY <2>1, ClientsStayKeeps
<1>4. QED
  BY <1>1, <1>2, <1>3 DEF Next

(* ClientInv is an invariant.                                              *)
LEMMA ClientInvInvariant == Spec => []ClientInv
<1>1. Init => ClientInv
  BY InitClientInv DEF Init, NetTypeOK
<1>2. ClientInv /\ [Next]_vars => ClientInv'
  BY NextStep
<1>3. QED
  BY <1>1, <1>2, PTL DEF Spec

-----------------------------------------------------------------------------
(* The clients' variables keep their types, whatever a server sends.       *)
THEOREM ClientTypeCorrect == Spec => []ClientTypeOK
<1>1. ClientInv => ClientTypeOK
  BY DEF ClientInv
<1>2. QED
  BY <1>1, ClientInvInvariant, PTL

(* The state that TryLogin, TryPing and HandleLogin test says at every     *)
(* moment whether mThisPlayer is there to be used.                         *)
THEOREM StateTellsOfPlayer == Spec => []StateMatchesPlayer
<1>1. ClientInv => StateMatchesPlayer
  BY DEF ClientInv
<1>2. QED
  BY <1>1, ClientInvInvariant, PTL

(* No login that comes later takes the session of a client away.           *)
THEOREM SessionsLast == Spec => SessionLasts
<1>1. ClientInv /\ [Next]_vars => [KeepsSessions]_clientVars
  BY NextStep
<1>2. QED
  BY <1>1, ClientInvInvariant, PTL DEF Spec, SessionLasts, KeepsSessions

=============================================================================
