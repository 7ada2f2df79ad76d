---------------------------- MODULE ServerAlone ----------------------------
(***************************************************************************)
(* The server against any clients at all: they send any messages of        *)
(* ClientInput, at any moment and in any order, and the network loses,     *)
(* duplicates and reorders what both sides send.                           *)
(***************************************************************************)
EXTENDS GameServer

CONSTANTS
  ClientInput,    \* the messages that clients may send to the server
  MaxInFlight     \* bound: datagrams in flight when a client sends one

ASSUME InputAssumption ==
  /\ ClientInput \subseteq Message
  /\ MaxInFlight \in Nat

vars == <<net, serverVars>>

Init == net = {} /\ ServerInit

ClientSends ==
  /\ Cardinality(net) < MaxInFlight
  /\ \E msg \in ClientInput : SendMessage(Server, msg, TRUE)
  /\ UNCHANGED serverVars

NetworkLoses == Lose /\ UNCHANGED serverVars

Next == ServerStep \/ ClientSends \/ NetworkLoses

Spec == Init /\ [][Next]_vars

=============================================================================
