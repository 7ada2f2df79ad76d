---------------------------- MODULE ClientAlone ----------------------------
(***************************************************************************)
(* The clients against any server at all: it sends any messages of         *)
(* ServerInput to any client, at any moment and in any order, and the      *)
(* processes of the clients end and start again.                           *)
(***************************************************************************)
EXTENDS GameClient

CONSTANTS
  ServerInput,    \* the messages that may come from the server
  MaxInFlight     \* bound: datagrams in flight when the server sends one

ASSUME InputAssumption ==
  /\ ServerInput \subseteq Message
  /\ MaxInFlight \in Nat

vars == <<net, clientVars>>

Init == net = {} /\ ClientInit

ServerSends ==
  /\ Cardinality(net) < MaxInFlight
  /\ \E c \in Client, msg \in ServerInput : SendMessage(c, msg, TRUE)
  /\ UNCHANGED clientVars

(* The datagrams of the clients leave: nobody here reads them.             *)
NetworkLoses == Lose /\ UNCHANGED clientVars

Next ==
  \/ \E c \in Client : ClientStep(c) \/ ClientRestarts(c)
  \/ ServerSends
  \/ NetworkLoses

Spec == Init /\ [][Next]_vars

=============================================================================
