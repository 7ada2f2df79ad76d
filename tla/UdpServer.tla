----------------------------- MODULE UdpServer -----------------------------
(***************************************************************************)
(* Common::UdpServer: the loop of Run, which waits for datagrams, reads    *)
(* them, ticks the game and waits again, and Shutdown, which the console's *)
(* control handler calls from a thread of its own at any moment.           *)
(*                                                                         *)
(* Run holds mMutex except in select and in wait_for.  Shutdown does not   *)
(* take it, and so runs between any two steps of Run: its notify_all is    *)
(* lost when Run is not waiting yet.                                       *)
(*                                                                         *)
(* Time passes in units, while Run is blocked and while it computes: while *)
(* it reads, ticks or is kept waiting for the processor.  Nothing in the   *)
(* code bounds the latter (the loop that reads looks at neither the clock  *)
(* nor mShutdown), so that a bound on it is a parameter, MaxDelay, and     *)
(* part of every bound that is stated below.                               *)
(***************************************************************************)
EXTENDS Integers

CONSTANTS
  Interval,     \* Run's interval, in units of time
  MaxDelay,     \* bound: for how long one round of the loop computes
  MaxQueue,     \* bound: datagrams in the buffer of the socket
  SocketErrors, \* the errors that the socket may come to report
  TickResults   \* what the tick callback may return

ASSUME UdpServerAssumption ==
  /\ Interval \in Nat \ {0}
  /\ MaxDelay \in Nat
  /\ MaxQueue \in Nat
  /\ SocketErrors \subseteq {"transient", "broken", "select", "interrupt"}
  /\ TickResults \subseteq BOOLEAN

VARIABLES
  pc,             \* where the thread in Run is
  mShutdown,      \* mShutdown
  mNotified,      \* mNotified: Wakeup was called
  queue,          \* datagrams in the buffer of the socket
  socketError,    \* the error the socket reports, or "none"
  selectFor,      \* for how long select has waited: stop - start
  waitFor,        \* for how long wait_for still waits
  delayed,        \* for how long this round of the loop has computed
  ticked,         \* lastTick is no longer its initial value
  sinceTick,      \* now - lastTick, or the time since Run began
  unreadAge,      \* age of the oldest datagram in the buffer
  unhandledAge,   \* age of the oldest datagram read and not ticked
  sinceShutdown,  \* time since mShutdown was set
  lateTicks       \* ticks since mShutdown was set

socketVars == <<queue, socketError, unreadAge>>
clockVars == <<ticked, sinceTick>>
shutdownVars == <<mShutdown, mNotified, sinceShutdown>>
timerVars == <<selectFor, waitFor, delayed>>

vars == <<pc, unhandledAge, lateTicks, timerVars, socketVars, clockVars,
          shutdownVars>>

(* The age of nothing.                                                     *)
NoAge == -1

Init ==
  /\ pc = "ready"
  /\ mShutdown = FALSE
  /\ mNotified = FALSE
  /\ queue = 0
  /\ socketError = "none"
  /\ selectFor = 0
  /\ waitFor = 0
  /\ delayed = 0
  /\ ticked = FALSE
  /\ sinceTick = 0
  /\ unreadAge = NoAge
  /\ unhandledAge = NoAge
  /\ sinceShutdown = 0
  /\ lateTicks = 0

-----------------------------------------------------------------------------
(* The thread in Run.                                                      *)

(* Variant of RunBegins: Run forgets an earlier Shutdown.                  *)
RunBeginsAfresh ==
  /\ pc = "ready"
  /\ pc' = "loop"
  /\ mShutdown' = FALSE
  /\ UNCHANGED <<timerVars, unhandledAge, lateTicks, mNotified,
                 sinceShutdown, socketVars, clockVars>>

(* main calls Run, on a server that Initialize has bound.                  *)
RunBegins ==
  /\ pc = "ready"
  /\ pc' = "loop"
  /\ UNCHANGED <<timerVars, unhandledAge, lateTicks, socketVars, clockVars,
                 shutdownVars>>

(* while (!mShutdown), up to the call of select: a round begins.           *)
LoopTop ==
  /\ pc = "loop"
  /\ pc' = IF mShutdown THEN "stopped" ELSE "select"
  /\ selectFor' = 0
  /\ delayed' = 0
  /\ UNCHANGED <<waitFor, unhandledAge, lateTicks, socketVars, clockVars,
                 shutdownVars>>

(* select returns, the mutex is taken again and mShutdown is looked at.    *)
(* A select that waits may be interrupted (WSAEINTR), which is no error.   *)
Readable == queue > 0 \/ socketError \in {"transient", "broken"}
Interrupted == "interrupt" \in SocketErrors /\ ~ Readable

AfterSelect ==
  {next \in {"drain", "tick", "stopped"} :
     \/ next = "drain" /\ Readable
     \/ next = "tick" /\ (selectFor = Interval \/ Interrupted)
     \/ next = "stopped" /\ socketError = "select"}

(* Variant of SelectReturns: mShutdown is not looked at after select.      *)
SelectReturnsBlindly ==
  /\ pc = "select"
  /\ pc' \in AfterSelect
  /\ UNCHANGED <<timerVars, unhandledAge, lateTicks, socketVars, clockVars,
                 shutdownVars>>

SelectReturns ==
  /\ pc = "select"
  /\ \E next \in AfterSelect : pc' = IF mShutdown THEN "stopped" ELSE next
  /\ UNCHANGED <<timerVars, unhandledAge, lateTicks, socketVars, clockVars,
                 shutdownVars>>

(* recvfrom returns a datagram, and the callback hands it to OnMessage.    *)
Older(a, b) == IF a > b THEN a ELSE b

ReadDatagram ==
  /\ pc = "drain"
  /\ queue > 0
  /\ socketError \notin {"transient", "broken"}
  /\ queue' = queue - 1
  /\ unreadAge' = IF queue = 1 THEN NoAge ELSE unreadAge
  /\ unhandledAge' = Older(unhandledAge, unreadAge)
  /\ UNCHANGED <<pc, timerVars, lateTicks, socketError, clockVars,
                 shutdownVars>>

(* A datagram that is longer than the buffer is lost, and the loop reads   *)
(* on (WSAEMSGSIZE, one of the errors that do not end it).                 *)
SkipDatagram ==
  /\ pc = "drain"
  /\ queue > 0
  /\ socketError \notin {"transient", "broken"}
  /\ queue' = queue - 1
  /\ unreadAge' = IF queue = 1 THEN NoAge ELSE unreadAge
  /\ UNCHANGED <<pc, timerVars, unhandledAge, lateTicks, socketError,
                 clockVars, shutdownVars>>

(* Variant of DrainEnds: the loop begins anew once it has read.            *)
DrainContinues ==
  /\ pc = "drain"
  /\ queue = 0
  /\ socketError \notin {"transient", "broken"}
  /\ pc' = "loop"
  /\ UNCHANGED <<timerVars, unhandledAge, lateTicks, socketVars, clockVars,
                 shutdownVars>>

(* WSAEWOULDBLOCK: nothing more to read.                                   *)
DrainEnds ==
  /\ pc = "drain"
  /\ queue = 0
  /\ socketError \notin {"transient", "broken"}
  /\ pc' = "tick"
  /\ UNCHANGED <<timerVars, unhandledAge, lateTicks, socketVars, clockVars,
                 shutdownVars>>

(* WSAECONNRESET and WSAECONNREFUSED end Run.  After any other error the   *)
(* loop calls recvfrom again; when that error stays ("broken") Run takes   *)
(* no further step.                                                        *)
RecvFails ==
  /\ pc = "drain"
  /\ socketError = "transient"
  /\ socketError' = "none"
  /\ pc' = "stopped"
  /\ UNCHANGED <<timerVars, unhandledAge, lateTicks, queue, unreadAge,
                 clockVars, shutdownVars>>

(* Variant of TickIsDue: lastTick is when the next tick is due.            *)
TickIsLate == ~ ticked \/ sinceTick > 2 * Interval

(* now - lastTick > interval, where lastTick begins as the clock's epoch.  *)
TickIsDue == ~ ticked \/ sinceTick > Interval

(* The tick, if it is due, which handles all that was read.                *)
Tick ==
  /\ pc = "tick"
  /\ TickIsDue
  /\ \E result \in TickResults :
       /\ pc' = IF result THEN "wait" ELSE "stopped"
       /\ ticked' = (ticked \/ result)
       /\ sinceTick' = IF result THEN 0 ELSE sinceTick
  /\ unhandledAge' = NoAge
  /\ waitFor' = Interval
  /\ lateTicks' = IF mShutdown THEN lateTicks + 1 ELSE lateTicks
  /\ UNCHANGED <<selectFor, delayed, socketVars, shutdownVars>>

(* stop - start, which is more than select has waited when Run was late    *)
(* around it.                                                              *)
Measured == selectFor .. selectFor + delayed
Least(a, b) == IF a < b THEN a ELSE b

(* Variant of SkipTick: the round waits for an interval more than select.  *)
SkipTickLong ==
  /\ pc = "tick"
  /\ ~ TickIsDue
  /\ pc' = "wait"
  /\ \E measured \in Measured : waitFor' = measured + Interval
  /\ UNCHANGED <<selectFor, delayed, unhandledAge, lateTicks, socketVars,
                 clockVars, shutdownVars>>

(* No tick is due: wait for as long as select did, at most the interval.   *)
SkipTick ==
  /\ pc = "tick"
  /\ ~ TickIsDue
  /\ pc' = "wait"
  /\ \E measured \in Measured : waitFor' = Least(measured, Interval)
  /\ UNCHANGED <<selectFor, delayed, unhandledAge, lateTicks, socketVars,
                 clockVars, shutdownVars>>

(* Variant of WaitEnds: the next tick follows the wait.                    *)
WaitTicks ==
  /\ pc = "wait"
  /\ pc' = "tick"
  /\ UNCHANGED <<timerVars, unhandledAge, lateTicks, socketVars, clockVars,
                 shutdownVars>>

(* wait_for ends when its time is over, and spuriously at any time.        *)
WaitEnds ==
  /\ pc = "wait"
  /\ pc' = "loop"
  /\ UNCHANGED <<timerVars, unhandledAge, lateTicks, socketVars, clockVars,
                 shutdownVars>>

RunStep ==
  \/ RunBegins
  \/ LoopTop
  \/ SelectReturns
  \/ ReadDatagram
  \/ SkipDatagram
  \/ DrainEnds
  \/ RecvFails
  \/ Tick
  \/ SkipTick

-----------------------------------------------------------------------------
(* Whoever calls Shutdown.                                                 *)

(* Variant of ShutdownSets: mShutdown is set without being looked at.      *)
ShutdownStores ==
  /\ mShutdown' = TRUE
  /\ UNCHANGED <<pc, timerVars, unhandledAge, lateTicks, mNotified,
                 sinceShutdown, socketVars, clockVars>>

(* Shutdown: the first call sets mShutdown, and goes on to Wakeup.         *)
ShutdownSets ==
  /\ ~ mShutdown
  /\ mShutdown' = TRUE
  /\ UNCHANGED <<pc, timerVars, unhandledAge, lateTicks, mNotified,
                 sinceShutdown, socketVars, clockVars>>

(* Wakeup: notify_all reaches Run only if it waits at this very moment.    *)
WakeupNotifies ==
  /\ mNotified' = TRUE
  /\ pc' = IF pc = "wait" THEN "loop" ELSE pc
  /\ UNCHANGED <<timerVars, unhandledAge, lateTicks, socketVars, clockVars,
                 mShutdown, sinceShutdown>>

-----------------------------------------------------------------------------
(* The network and the clock.                                              *)

Arrives ==
  /\ queue < MaxQueue
  /\ queue' = queue + 1
  /\ unreadAge' = Older(unreadAge, 0)
  /\ UNCHANGED <<pc, timerVars, unhandledAge, lateTicks, socketError,
                 clockVars, shutdownVars>>

SocketFails ==
  /\ socketError = "none"
  /\ socketError' \in SocketErrors \ {"interrupt"}
  /\ UNCHANGED <<pc, timerVars, unhandledAge, lateTicks, queue, unreadAge,
                 clockVars, shutdownVars>>

(* recvfrom fails with an error that neither goes away nor ends its loop.  *)
(* From then on Run does nothing else, with mMutex held.                   *)
Spinning == pc = "drain" /\ socketError = "broken"

Running == pc \notin {"ready", "stopped"}

(* Run waits, and its timeout is not over, or it spins.                    *)
Blocked ==
  \/ pc = "select" /\ queue = 0 /\ socketError = "none" /\ selectFor < Interval
  \/ pc = "wait" /\ waitFor > 0
  \/ Spinning

(* Clocks stop counting past what any property looks at, where they are as *)
(* soon as Run spins.                                                      *)
Horizon == 3 * Interval + 3 * MaxDelay + 1
Later(t) == IF t < Horizon /\ ~ Spinning THEN t + 1 ELSE Horizon
LaterAge(age) == IF age = NoAge THEN NoAge ELSE Later(age)

ClocksGoOn ==
  /\ sinceTick' = Later(sinceTick)
  /\ unreadAge' = LaterAge(unreadAge)
  /\ unhandledAge' = LaterAge(unhandledAge)
  /\ sinceShutdown' = IF mShutdown THEN Later(sinceShutdown) ELSE sinceShutdown
  /\ UNCHANGED <<pc, mShutdown, mNotified, queue, socketError, ticked, lateTicks>>

(* Time passes while Run waits.                                            *)
TimePasses ==
  /\ Blocked
  /\ selectFor' = IF pc = "select" THEN selectFor + 1 ELSE selectFor
  /\ waitFor' = IF pc = "wait" THEN waitFor - 1 ELSE waitFor
  /\ UNCHANGED delayed
  /\ ClocksGoOn

(* Time passes while Run is between two calls, reads, ticks, or is late    *)
(* with the end of a wait that is over.                                    *)
RunIsLate ==
  /\ Running /\ ~ Spinning
  /\ delayed < MaxDelay
  /\ delayed' = delayed + 1
  /\ UNCHANGED <<selectFor, waitFor>>
  /\ ClocksGoOn

Next ==
  \/ RunStep
  \/ WaitEnds
  \/ ShutdownSets
  \/ WakeupNotifies
  \/ Arrives
  \/ SocketFails
  \/ TimePasses
  \/ RunIsLate

Spec == Init /\ [][Next]_vars

-----------------------------------------------------------------------------
(* Properties.                                                             *)

Time == 0 .. Horizon

TypeOK ==
  /\ pc \in {"ready", "loop", "select", "drain", "tick", "wait", "stopped"}
  /\ mShutdown \in BOOLEAN
  /\ mNotified \in BOOLEAN
  /\ queue \in 0 .. MaxQueue
  /\ socketError \in SocketErrors \cup {"none"}
  /\ selectFor \in 0 .. Interval
  /\ waitFor \in 0 .. Interval
  /\ delayed \in 0 .. MaxDelay
  /\ ticked \in BOOLEAN
  /\ sinceTick \in Time
  /\ unreadAge \in Time \cup {NoAge}
  /\ unhandledAge \in Time \cup {NoAge}
  /\ sinceShutdown \in Time
  /\ lateTicks \in Nat

(* All bounds hold as long as no round of the loop computes for longer     *)
(* than MaxDelay, and Run does not spin.  A stream of datagrams that comes *)
(* faster than the loop reads makes a round of any length, and then the    *)
(* code keeps none of them.                                                *)

(* Run ends within one interval of Shutdown, and what the round computes,  *)
(* although Shutdown does not take the mutex, its notification may come    *)
(* before Run waits, and nothing wakes select: both waits end by           *)
(* themselves.                                                             *)
StopsInTime == Running /\ ~ Spinning => sinceShutdown <= Interval + MaxDelay

(* At most one tick begins after Shutdown, the one whose round was under   *)
(* way: the game's state is not touched by more than that.                 *)
OneTickAfterShutdown == lateTicks <= 1

(* While Run runs, the game ticks at least every three intervals, and what *)
(* two rounds compute, however often a round comes too early for its tick  *)
(* and however early the waits end.                                        *)
TicksKeepComing ==
  Running /\ ~ Spinning => sinceTick <= 3 * Interval + 2 * MaxDelay

(* A datagram is read within one interval of its arrival, and what two     *)
(* rounds compute, and handled by a tick within three, and what three      *)
(* rounds compute: that of its arrival may just have looked for it.        *)
HandledInTime ==
  Running /\ ~ Spinning =>
    /\ unreadAge <= Interval + 2 * MaxDelay
    /\ unhandledAge <= 3 * Interval + 3 * MaxDelay

=============================================================================
