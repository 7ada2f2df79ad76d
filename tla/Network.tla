------------------------------ MODULE Network ------------------------------
(***************************************************************************)
(* What a process owns through common/Network: blocks of memory and        *)
(* sockets.  The calls on them are made by one thread, and each runs to    *)
(* its end before the next.                                                *)
(***************************************************************************)
EXTENDS Buffers, Sockets

vars == <<bufferVars, socketVars>>

Init == BuffersInit /\ SocketsInit

Next ==
  \/ step = 0 /\ ~ draining /\ BuffersNext /\ UNCHANGED socketVars
  \/ thread = "recv" /\ SocketsNext /\ UNCHANGED bufferVars

Spec == Init /\ [][Next]_vars

(* A thread in DrainSocket runs, and reads faster than the other writes.   *)
DrainKeepsUp == []<>(draining => pending = 0)

Fairness ==
  /\ DrainKeepsUp
  /\ WF_vars(DrainReads /\ UNCHANGED bufferVars)
  /\ SF_vars(DrainEnds /\ UNCHANGED bufferVars)

FairSpec == Spec /\ Fairness

-----------------------------------------------------------------------------
(* Properties.                                                             *)

TypeOK == BuffersTypeOK /\ SocketsTypeOK

(* DrainSocket returns, however the pair came about, as long as the other  *)
(* end is open.                                                            *)
DrainReturns == draining ~> ~ draining \/ ~ PeerIsOpen

=============================================================================
