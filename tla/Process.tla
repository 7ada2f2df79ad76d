------------------------------ MODULE Process ------------------------------
(***************************************************************************)
(* The process of the server, or of the client: main, which owns a         *)
(* UdpServer, and the console's control handler, which Windows calls on a  *)
(* new thread for each event, at any moment and several at once.  Both     *)
(* programs are the same here.                                             *)
(*                                                                         *)
(* The steps of main's thread in Run, of the network and of the clock, and *)
(* those of Shutdown, whoever calls it, are those of UdpServer.  main      *)
(* destroys its UdpServer when it returns, whether or not a handler is     *)
(* still in it.                                                            *)
(***************************************************************************)
EXTENDS UdpServer

CONSTANTS
  Handler,        \* bound: the control events that come, and their threads
  CloseEvent      \* those that are CTRL_CLOSE_EVENT

ASSUME ProcessAssumption == CloseEvent \subseteq Handler

VARIABLES
  main,           \* where main is
  mSocket,        \* the socket of the server, or "none": kInvalidSocket
  openSockets,    \* the sockets that the process has open
  mRecvFn,        \* the server has its callback
  shutdownFn,     \* the global shutdownFn is set
  ctrl            \* where the thread of each control event is

initVars == <<mSocket, openSockets, mRecvFn, shutdownFn>>

processVars == <<vars, main, initVars, ctrl>>

ProcessInit ==
  /\ Init
  /\ main = "begins"
  /\ mSocket = "none"
  /\ openSockets = 0
  /\ mRecvFn = FALSE
  /\ shutdownFn = FALSE
  /\ ctrl = [h \in Handler |-> "none"]

Alive == main # "exited"

(* The UdpServer of main exists, or main has yet to come to it.            *)
ServerExists == main \notin {"returned", "exited"}

-----------------------------------------------------------------------------
(* main, up to the call of Run.                                            *)

(* SetConsoleCtrlHandler and WSAStartup, each of which may fail and end    *)
(* the process.                                                            *)
MainInstallsHandler ==
  /\ main = "begins"
  /\ main' \in {"starts", "exited"}
  /\ UNCHANGED <<vars, initVars, ctrl>>

MainStartsWinSock ==
  /\ main = "starts"
  /\ main' \in {"initializes", "exited"}
  /\ UNCHANGED <<vars, initVars, ctrl>>

(* Initialize, which stops at the first call that fails, or at none.  The  *)
(* socket that is there by then stays in mSocket.                          *)
Failure == {"ToSockAddr", "WSASocketW", "SetNonBlocking", "bind", "none"}

(* Variant of InitializeReturns: the result of bind is not looked at.      *)
InitializeReturnsUnbound(failure) ==
  mSocket # "none" \/ failure \in {"bind", "none"}

InitializeReturns(failure) == mSocket # "none" \/ failure = "none"

(* Variant of SocketAfter: a failure forgets the socket.                   *)
SocketAfterForgets(failure) == IF failure = "none" THEN "bound" ELSE "none"

SocketAfter(failure) ==
  CASE mSocket # "none" -> mSocket
    [] failure \in {"ToSockAddr", "WSASocketW"} -> "none"
    [] failure = "SetNonBlocking" -> "blocking"
    [] failure = "bind" -> "unbound"
    [] OTHER -> "bound"

OpensSocket(failure) ==
  mSocket = "none" /\ failure \notin {"ToSockAddr", "WSASocketW"}

MainInitializes ==
  /\ main = "initializes"
  /\ \E failure \in Failure :
       /\ mSocket' = SocketAfter(failure)
       /\ openSockets' = IF OpensSocket(failure) THEN openSockets + 1
                         ELSE openSockets
       /\ main' = IF InitializeReturns(failure) THEN "registers"
                  ELSE "destroys"
  /\ UNCHANGED <<vars, mRecvFn, shutdownFn, ctrl>>

(* OnRecv.                                                                 *)
MainRegisters ==
  /\ main = "registers"
  /\ main' = "arms"
  /\ mRecvFn' = TRUE
  /\ UNCHANGED <<vars, mSocket, openSockets, shutdownFn, ctrl>>

(* The assignment of shutdownFn, which is not atomic: a handler that tests *)
(* it meanwhile finds it empty or set, as it would before or after.        *)
MainArms ==
  /\ main = "arms"
  /\ main' = "runs"
  /\ shutdownFn' = TRUE
  /\ UNCHANGED <<vars, mSocket, openSockets, mRecvFn, ctrl>>

MainRuns ==
  /\ main = "runs"
  /\ main' = "running"
  /\ RunBegins
  /\ UNCHANGED <<initVars, ctrl>>

-----------------------------------------------------------------------------
(* main in Run, and to its end.                                            *)

MainInRun ==
  /\ main = "running"
  /\ RunStep
  /\ UNCHANGED <<main, initVars, ctrl>>

MainWaitEnds ==
  /\ main = "running"
  /\ WaitEnds
  /\ UNCHANGED <<main, initVars, ctrl>>

(* ~UdpServer, once Run has returned or Initialize has failed, begins with *)
(* a Shutdown of its own.                                                  *)
MainDestroys ==
  /\ main = "destroys" \/ (main = "running" /\ pc = "stopped")
  /\ \/ ShutdownSets /\ main' = "wakes"
     \/ mShutdown /\ main' = "closes" /\ UNCHANGED vars
  /\ UNCHANGED <<initVars, ctrl>>

MainWakes ==
  /\ main = "wakes"
  /\ main' = "closes"
  /\ WakeupNotifies
  /\ UNCHANGED <<initVars, ctrl>>

(* closesocket, and the end of the UdpServer.                              *)
MainCloses ==
  /\ main = "closes"
  /\ main' = "returned"
  /\ openSockets' = IF mSocket # "none" THEN openSockets - 1 ELSE openSockets
  /\ mSocket' = "none"
  /\ UNCHANGED <<vars, mRecvFn, shutdownFn, ctrl>>

(* The game and WinSock go, and with the return of main the process.       *)
MainExits ==
  /\ main = "returned"
  /\ main' = "exited"
  /\ UNCHANGED <<vars, initVars, ctrl>>

MainThread ==
  \/ MainInstallsHandler
  \/ MainStartsWinSock
  \/ MainInitializes
  \/ MainRegisters
  \/ MainArms
  \/ MainRuns
  \/ MainInRun
  \/ MainDestroys
  \/ MainWakes
  \/ MainCloses
  \/ MainExits

-----------------------------------------------------------------------------
(* The threads of the control handler.                                     *)

HandlerGoes(h, from, to) ==
  /\ ctrl[h] = from
  /\ ctrl' = [ctrl EXCEPT ![h] = to]

(* CTRL_C_EVENT, CTRL_BREAK_EVENT or CTRL_CLOSE_EVENT.                     *)
EventComes(h) ==
  /\ main \notin {"begins", "exited"}
  /\ HandlerGoes(h, "none", "tests")
  /\ UNCHANGED <<vars, main, initVars>>

(* if (shutdownFn).  An event that comes before it is set does nothing.    *)
HandlerTests(h) ==
  /\ Alive
  /\ HandlerGoes(h, "tests", IF shutdownFn THEN "calls" ELSE "returned")
  /\ UNCHANGED <<vars, main, initVars>>

(* Variant of HandlerCalls: Shutdown takes mMutex.                         *)
HandlerCallsLocked(h) ==
  /\ ServerExists
  /\ pc \in {"ready", "select", "wait", "stopped"}
  /\ \/ ShutdownSets /\ HandlerGoes(h, "calls", "wakes")
     \/ mShutdown /\ HandlerGoes(h, "calls", "returned") /\ UNCHANGED vars
  /\ UNCHANGED <<main, initVars>>

(* server.Shutdown(): the one that changes mShutdown goes on to Wakeup.    *)
HandlerCalls(h) ==
  /\ ServerExists
  /\ \/ ShutdownSets /\ HandlerGoes(h, "calls", "wakes")
     \/ mShutdown /\ HandlerGoes(h, "calls", "returned") /\ UNCHANGED vars
  /\ UNCHANGED <<main, initVars>>

HandlerWakes(h) ==
  /\ ServerExists
  /\ HandlerGoes(h, "wakes", "returned")
  /\ WakeupNotifies
  /\ UNCHANGED <<main, initVars>>

(* Shutdown or Wakeup of a server that is gone: nothing comes of it, or    *)
(* the process ends there.                                                 *)
HandlerTouchesDestroyed(h) ==
  /\ main = "returned"
  /\ \/ HandlerGoes(h, "calls", "returned") /\ UNCHANGED vars
     \/ HandlerGoes(h, "wakes", "returned") /\ WakeupNotifies
  /\ main' \in {"returned", "exited"}
  /\ UNCHANGED initVars

HandlerThread(h) ==
  \/ HandlerTests(h)
  \/ HandlerCalls(h)
  \/ HandlerWakes(h)
  \/ HandlerTouchesDestroyed(h)

(* When the handler has returned from CTRL_CLOSE_EVENT, Windows ends the   *)
(* process, wherever main is.                                              *)
WindowEnds(h) ==
  /\ h \in CloseEvent
  /\ ctrl[h] = "returned"
  /\ Alive
  /\ main' = "exited"
  /\ UNCHANGED <<vars, initVars, ctrl>>

-----------------------------------------------------------------------------
(* Datagrams come, and errors, once the socket is bound.                   *)
NetworkActs ==
  /\ Alive
  /\ mSocket = "bound"
  /\ Arrives \/ SocketFails
  /\ UNCHANGED <<main, initVars, ctrl>>

ClockTicks ==
  /\ Alive
  /\ TimePasses
  /\ UNCHANGED <<main, initVars, ctrl>>

(* main's thread takes its time, or is kept waiting for the processor.     *)
MainIsLate ==
  /\ Alive
  /\ RunIsLate
  /\ UNCHANGED <<main, initVars, ctrl>>

ProcessNext ==
  \/ MainThread
  \/ MainWaitEnds
  \/ MainIsLate
  \/ \E h \in Handler : EventComes(h) \/ HandlerThread(h) \/ WindowEnds(h)
  \/ NetworkActs
  \/ ClockTicks

ProcessSpec == ProcessInit /\ [][ProcessNext]_processVars

(* The threads run and time passes.                                        *)
ThreadsRun ==
  /\ WF_processVars(MainThread)
  /\ WF_processVars(MainWaitEnds /\ waitFor = 0)
  /\ WF_processVars(ClockTicks)
  /\ \A h \in Handler : WF_processVars(HandlerThread(h))

(* Reading keeps up with the network: recvfrom finds the buffer empty in   *)
(* the end (nothing in the loop that reads ends it otherwise, not even     *)
(* mShutdown).                                                             *)
ReadingKeepsUp ==
  /\ []<>(pc = "drain" => queue = 0 \/ Spinning \/ ~ Alive)
  /\ SF_processVars(MainInRun /\ DrainEnds)

Fairness == ThreadsRun /\ ReadingKeepsUp

FairSpec == ProcessSpec /\ Fairness

-----------------------------------------------------------------------------
(* Properties.                                                             *)

ProcessTypeOK ==
  /\ TypeOK
  /\ main \in {"begins", "starts", "initializes", "registers", "arms", "runs",
               "running", "destroys", "wakes", "closes", "returned", "exited"}
  /\ mSocket \in {"none", "blocking", "unbound", "bound"}
  /\ openSockets \in 0 .. 1
  /\ mRecvFn \in BOOLEAN
  /\ shutdownFn \in BOOLEAN
  /\ ctrl \in [Handler -> {"none", "tests", "calls", "wakes", "returned"}]

(* Run reads a socket that is open, bound and does not block, into a       *)
(* callback that is set, whichever step of Initialize may fail: otherwise  *)
(* recvfrom would wait for ever with the mutex held, or call nothing.      *)
RunsOnBoundSocket ==
  Running => mSocket = "bound" /\ openSockets = 1 /\ mRecvFn

(* Whichever step of Initialize failed and however Run ended, main leaves  *)
(* no socket open when it returns.                                         *)
SocketsReleased == main = "returned" => openSockets = 0

(* Of all handlers and the destructor, which may call Shutdown at once,    *)
(* exactly one goes on to Wakeup, and after mShutdown is set there is one  *)
(* until Run has been notified: none is notified twice, and none never.    *)
Wakers == {h \in Handler : ctrl[h] = "wakes"}

OneThreadWakes ==
  Alive =>
    /\ \A g, h \in Wakers : g = h
    /\ main = "wakes" => Wakers = {}
    /\ main = "wakes" \/ Wakers # {} <=> mShutdown /\ ~ mNotified

(* An event whose handler finds shutdownFn set ends the process, however   *)
(* early it comes, unless Run spins on an error.                           *)
EventStopsProcess ==
  (\E h \in Handler : ctrl[h] = "calls") ~> ~ Alive \/ Spinning

(* The handlers return from all events, though Run may hold mMutex for     *)
(* ever: Shutdown does not wait for it.                                    *)
InHandler == \E h \in Handler : ctrl[h] \in {"tests", "calls", "wakes"}

EventsReturn == InHandler ~> ~ InHandler \/ ~ Alive

=============================================================================
