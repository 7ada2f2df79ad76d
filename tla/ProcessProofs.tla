--------------------------- MODULE ProcessProofs ---------------------------
(***************************************************************************)
(* The bounds of UdpServer hold for every interval, however long a round   *)
(* may compute, for any traffic that lets it end, and any errors of the    *)
(* socket, up to the one of recvfrom that stays for ever.  The process     *)
(* keeps them with any number of control events, of which exactly one      *)
(* wakes Run; it reads a bound socket only and leaves none open.           *)
(***************************************************************************)
EXTENDS Process, TLAPS

(* How long ago Shutdown was called, place by place.  After the look at    *)
(* mShutdown that follows select, only computing delays the wait; select   *)
(* has waited at least as long as it is since Shutdown, but for what the   *)
(* round computes; and what is left of the wait adds up to no more than an *)
(* interval.                                                               *)
ShutdownClock ==
  /\ ~ mShutdown => sinceShutdown = 0
  /\ pc = "ready" => sinceShutdown = 0
  /\ pc \in {"drain", "tick"} => sinceShutdown <= delayed
  /\ pc = "select" => sinceShutdown <= selectFor + delayed
  /\ pc = "wait" => sinceShutdown + waitFor <= Interval + delayed
  /\ pc = "loop" => sinceShutdown <= Interval + delayed

(* A tick after Shutdown is the last thing Run does.                       *)
LateTicks ==
  /\ ~ mShutdown => lateTicks = 0
  /\ pc \in {"ready", "select", "drain", "tick"} => lateTicks = 0
  /\ lateTicks <= 1

(* How long ago the last tick was: two intervals at the end of a wait, and *)
(* a select more when the next round looks at the clock, each with what    *)
(* its round computes.                                                     *)
TickClock ==
  /\ pc = "ready" => sinceTick = 0
  /\ pc = "wait" => sinceTick + waitFor <= 2 * Interval + delayed
  /\ pc = "loop" => sinceTick <= 2 * Interval + delayed
  /\ pc = "select" => sinceTick <= 2 * Interval + MaxDelay + selectFor + delayed
  /\ pc \in {"drain", "tick"} => sinceTick <= 3 * Interval + MaxDelay + delayed

(* How long ago the oldest datagram came.  Select returns for it at once,  *)
(* so that it gets older in a wait and by what the rounds compute, and     *)
(* nothing is older than the last tick but by what that round computed.    *)
AgeClock ==
  /\ queue = 0 => unreadAge = NoAge
  /\ unreadAge <= sinceTick + MaxDelay /\ unhandledAge <= sinceTick + MaxDelay
  /\ pc = "ready" => unreadAge <= 0
  /\ pc = "tick" => unreadAge <= delayed
  /\ pc \in {"select", "drain"} => unreadAge <= Interval + MaxDelay + delayed
  /\ pc = "select" /\ selectFor > 0 => unreadAge <= delayed
  /\ pc = "wait" => unreadAge + waitFor <= Interval + delayed
  /\ pc = "loop" => unreadAge <= Interval + delayed

Clocks == ShutdownClock /\ TickClock /\ AgeClock

LoopInv ==
  /\ TypeOK
  /\ LateTicks
  /\ ~ Spinning => Clocks

USE UdpServerAssumption

(* The invariant holds before Run begins.                                  *)
LEMMA InitLoopInv == Init => LoopInv
<1> SUFFICES ASSUME Init PROVE LoopInv
  OBVIOUS
<1> USE DEF Init, NoAge, Time, Horizon
<1>1. /\ 0 \in 0 .. Horizon /\ 0 \in 0 .. MaxQueue
      /\ 0 \in 0 .. Interval /\ 0 \in 0 .. MaxDelay
  OBVIOUS
<1>2. TypeOK
  BY <1>1 DEF TypeOK
<1>3. Clocks /\ LateTicks
  BY DEF Clocks, ShutdownClock, LateTicks, TickClock, AgeClock
<1>4. QED
  BY <1>2, <1>3 DEF LoopInv

(* The steps of the thread in Run.                                         *)
LEMMA RunKeepsLoopInv ==
  ASSUME LoopInv, RunStep \/ WaitEnds
  PROVE  LoopInv'
<1> USE DEF LoopInv, TypeOK, LateTicks, Clocks, ShutdownClock, TickClock,
            AgeClock, Spinning, timerVars, socketVars, clockVars, shutdownVars,
            NoAge, Time, Horizon
<1>1. CASE RunBegins
  BY <1>1 DEF RunBegins
<1>2. CASE LoopTop
  BY <1>2 DEF LoopTop
<1>3. CASE SelectReturns
  BY <1>3 DEF SelectReturns, AfterSelect, Readable, Interrupted
<1>4. CASE ReadDatagram \/ SkipDatagram
  <2>1. CASE ReadDatagram
    BY <2>1 DEF ReadDatagram, Older
  <2>2. CASE SkipDatagram
    BY <2>2 DEF SkipDatagram
  <2>3. QED
    BY <1>4, <2>1, <2>2
<1>5. CASE DrainEnds
  BY <1>5 DEF DrainEnds
<1>6. CASE RecvFails
  BY <1>6 DEF RecvFails
<1>7. CASE Tick
  BY <1>7 DEF Tick, TickIsDue
<1>8. CASE SkipTick
  BY <1>8 DEF SkipTick, TickIsDue, Measured, Least
<1>9. CASE WaitEnds
  BY <1>9 DEF WaitEnds
<1>10. QED
  BY <1>1, <1>2, <1>3, <1>4, <1>5, <1>6, <1>7, <1>8, <1>9 DEF RunStep

(* The steps of the other thread, of the network and of the clock.         *)
LEMMA OthersKeepLoopInv ==
  ASSUME LoopInv,
         \/ ShutdownSets \/ WakeupNotifies \/ Arrives \/ SocketFails
         \/ TimePasses \/ RunIsLate
  PROVE  LoopInv'
<1> USE DEF LoopInv, TypeOK, LateTicks, Clocks, ShutdownClock, TickClock,
            AgeClock, Spinning, timerVars, socketVars, clockVars, shutdownVars,
            NoAge, Time, Horizon
<1>1. CASE ShutdownSets
  BY <1>1 DEF ShutdownSets
<1>2. CASE WakeupNotifies
  BY <1>2 DEF WakeupNotifies
<1>3. CASE Arrives
  BY <1>3 DEF Arrives, Older
<1>4. CASE SocketFails
  BY <1>4 DEF SocketFails
<1>5. CASE TimePasses
  <2>1. TypeOK'
    BY <1>5 DEF TimePasses, Blocked, ClocksGoOn, Later, LaterAge
  <2>2. LateTicks'
    BY <1>5 DEF TimePasses, Blocked, ClocksGoOn
  <2>3. ASSUME ~ Spinning' PROVE Clocks'
    <3>1. ShutdownClock'
      BY <1>5, <2>3 DEF TimePasses, Blocked, ClocksGoOn, Later
    <3>2. TickClock'
      BY <1>5, <2>3 DEF TimePasses, Blocked, ClocksGoOn, Later
    <3>3. AgeClock'
      BY <1>5, <2>3 DEF TimePasses, Blocked, ClocksGoOn, Later, LaterAge
    <3>4. QED
      BY <3>1, <3>2, <3>3
  <2>4. QED
    BY <2>1, <2>2, <2>3
<1>6. CASE RunIsLate
  <2>1. TypeOK'
    BY <1>6 DEF RunIsLate, Running, ClocksGoOn, Later, LaterAge
  <2>2. LateTicks'
    BY <1>6 DEF RunIsLate, Running, ClocksGoOn
  <2>3. ASSUME ~ Spinning' PROVE Clocks'
    <3>1. ShutdownClock'
      BY <1>6, <2>3 DEF RunIsLate, Running, ClocksGoOn, Later
    <3>2. TickClock'
      BY <1>6, <2>3 DEF RunIsLate, Running, ClocksGoOn, Later
    <3>3. AgeClock'
      BY <1>6, <2>3 DEF RunIsLate, Running, ClocksGoOn, Later, LaterAge
    <3>4. QED
      BY <3>1, <3>2, <3>3
  <2>4. QED
    BY <2>1, <2>2, <2>3
<1>7. QED
  BY <1>1, <1>2, <1>3, <1>4, <1>5, <1>6

-----------------------------------------------------------------------------
(* The theorems.                                                           *)

(* LoopInv is an invariant.                                                *)
LEMMA LoopInvariant == Spec => []LoopInv
<1>1. Init => LoopInv
  BY InitLoopInv
<1>2. LoopInv /\ [Next]_vars => LoopInv'
  <2> SUFFICES ASSUME LoopInv, [Next]_vars PROVE LoopInv'
    OBVIOUS
  <2>1. CASE RunStep \/ WaitEnds
    BY <2>1, RunKeepsLoopInv
  <2>2. CASE \/ ShutdownSets \/ WakeupNotifies \/ Arrives \/ SocketFails
             \/ TimePasses \/ RunIsLate
    BY <2>2, OthersKeepLoopInv
  <2>3. CASE UNCHANGED vars
    BY <2>3 DEF vars, timerVars, socketVars, clockVars, shutdownVars, LoopInv,
                TypeOK, Spinning, LateTicks, Clocks, ShutdownClock, TickClock,
                AgeClock
  <2>4. QED
    BY <2>1, <2>2, <2>3 DEF Next
<1>3. QED
  BY <1>1, <1>2, PTL DEF Spec

(* The variables of the loop and of Shutdown keep their types.             *)
THEOREM LoopTypeCorrect == Spec => []TypeOK
<1>1. LoopInv => TypeOK
  BY DEF LoopInv
<1>2. QED
  BY <1>1, LoopInvariant, PTL

(* Run ends within an interval of Shutdown, and what the round computes,   *)
(* lost notification or not.                                               *)
THEOREM RunStopsInTime == Spec => []StopsInTime
<1>1. LoopInv => StopsInTime
  BY DEF LoopInv, TypeOK, Clocks, ShutdownClock, StopsInTime, Running, Time,
         Horizon
<1>2. QED
  BY <1>1, LoopInvariant, PTL

(* No second tick begins after Shutdown.                                   *)
THEOREM GameRestsAfterShutdown == Spec => []OneTickAfterShutdown
<1>1. LoopInv => OneTickAfterShutdown
  BY DEF LoopInv, LateTicks, OneTickAfterShutdown
<1>2. QED
  BY <1>1, LoopInvariant, PTL

(* While Run runs and does not spin, ticks are at most three intervals     *)
(* apart, and what two rounds compute.                                     *)
THEOREM TicksComeInTime == Spec => []TicksKeepComing
<1>1. LoopInv => TicksKeepComing
  BY DEF LoopInv, TypeOK, Clocks, TickClock, TicksKeepComing, Running, Time,
         Horizon
<1>2. QED
  BY <1>1, LoopInvariant, PTL

(* While Run runs, a datagram is read within an interval, and what two     *)
(* rounds compute, and handled within three, and what three compute.       *)
THEOREM DatagramsHandledInTime == Spec => []HandledInTime
<1>1. LoopInv => HandledInTime
  BY DEF LoopInv, TypeOK, Clocks, TickClock, AgeClock, HandledInTime, Running,
         Time, Horizon, NoAge
<1>2. QED
  BY <1>1, LoopInvariant, PTL

-----------------------------------------------------------------------------
(* The process.                                                            *)

(* What main has set up by the place where it is, and what Run relies on.  *)
MainInv ==
  /\ main \in {"begins", "starts", "initializes", "registers", "arms", "runs",
               "running", "destroys", "wakes", "closes", "returned", "exited"}
  /\ mSocket \in {"none", "blocking", "unbound", "bound"}
  /\ openSockets = IF mSocket = "none" THEN 0 ELSE 1
  /\ mRecvFn \in BOOLEAN /\ shutdownFn \in BOOLEAN
  /\ main \in {"begins", "starts", "initializes", "returned"} =>
       mSocket = "none"
  /\ main \in {"registers", "arms", "runs", "running"} => mSocket = "bound"
  /\ main \in {"arms", "runs", "running"} => mRecvFn
  /\ main = "running" => pc # "ready"
  /\ Running => /\ main \in {"running", "exited"}
                /\ mSocket = "bound"
                /\ mRecvFn

CtrlInv ==
  ctrl \in [Handler -> {"none", "tests", "calls", "wakes", "returned"}]

(* One thread is in Wakeup from the call that sets mShutdown until Run is  *)
(* notified.  Who calls Shutdown then finds mShutdown set.                 *)
WakeInv ==
  /\ OneThreadWakes
  /\ Alive /\ mNotified => mShutdown

(* Every step of the process is a step of UdpServer or leaves it alone.    *)
LEMMA ProcessStepIsLoopStep ==
  ASSUME [ProcessNext]_processVars
  PROVE  [Next]_vars
<1>1. CASE MainThread
  BY <1>1 DEF MainThread, MainInstallsHandler, MainStartsWinSock,
              MainInitializes, MainRegisters, MainArms, MainRuns, MainInRun,
              MainDestroys, MainWakes, MainCloses, MainExits, RunStep, Next
<1>2. CASE MainWaitEnds
  BY <1>2 DEF MainWaitEnds, Next
<1>3. ASSUME NEW h \in Handler,
             EventComes(h) \/ HandlerThread(h) \/ WindowEnds(h)
      PROVE  [Next]_vars
  BY <1>3 DEF EventComes, HandlerThread, HandlerTests, HandlerCalls,
              HandlerWakes, HandlerTouchesDestroyed, WindowEnds, Next
<1>4. CASE NetworkActs
  BY <1>4 DEF NetworkActs, Next
<1>5. CASE ClockTicks
  BY <1>5 DEF ClockTicks, Next
<1>6. CASE MainIsLate
  BY <1>6 DEF MainIsLate, Next
<1>7. CASE UNCHANGED processVars
  BY <1>7 DEF processVars
<1>8. QED
  BY <1>1, <1>2, <1>3, <1>4, <1>5, <1>6, <1>7 DEF ProcessNext

(* Only RunBegins makes Run run.                                           *)
LEMMA OnlyRunBegins ==
  ASSUME [Next]_vars, ~ RunBegins, Running'
  PROVE  Running
<1> USE DEF Running
<1>1. CASE RunStep \/ WaitEnds
  BY <1>1 DEF RunStep, LoopTop, SelectReturns, ReadDatagram, SkipDatagram,
              DrainEnds, RecvFails, Tick, SkipTick, WaitEnds
<1>2. CASE \/ ShutdownSets \/ WakeupNotifies \/ Arrives \/ SocketFails
           \/ TimePasses \/ RunIsLate
  BY <1>2 DEF ShutdownSets, WakeupNotifies, Arrives, SocketFails, TimePasses,
              RunIsLate, ClocksGoOn
<1>3. QED
  BY <1>1, <1>2 DEF Next, vars

(* main, up to the call of Run.                                            *)
LEMMA SetUpKeepsMainInv ==
  ASSUME MainInv,
         \/ MainInstallsHandler \/ MainStartsWinSock \/ MainInitializes
         \/ MainRegisters \/ MainArms \/ MainRuns
  PROVE  MainInv'
<1> USE DEF MainInv, Running, initVars, vars
<1>1. CASE MainInstallsHandler \/ MainStartsWinSock
  BY <1>1 DEF MainInstallsHandler, MainStartsWinSock
<1>2. CASE MainInitializes
  BY <1>2 DEF MainInitializes, SocketAfter, OpensSocket, InitializeReturns,
              Failure
<1>3. CASE MainRegisters \/ MainArms
  BY <1>3 DEF MainRegisters, MainArms
<1>4. CASE MainRuns
  BY <1>4 DEF MainRuns, RunBegins
<1>5. QED
  BY <1>1, <1>2, <1>3, <1>4

(* All other steps.                                                        *)
LEMMA OthersKeepMainInv ==
  ASSUME MainInv, [Next]_vars,
         \/ MainInRun \/ MainDestroys \/ MainWakes \/ MainCloses \/ MainExits
         \/ MainWaitEnds \/ MainIsLate \/ NetworkActs \/ ClockTicks
         \/ UNCHANGED processVars
         \/ \E h \in Handler :
              EventComes(h) \/ HandlerThread(h) \/ WindowEnds(h)
  PROVE  MainInv'
<1>1. CASE MainInRun \/ MainWaitEnds
  <2>1. pc # "ready" /\ pc' # "ready" /\ UNCHANGED <<main, initVars>>
    BY <1>1 DEF MainInv, MainInRun, MainWaitEnds, RunStep, RunBegins, LoopTop,
                SelectReturns, AfterSelect, ReadDatagram, SkipDatagram,
                DrainEnds, RecvFails, Tick, SkipTick, WaitEnds
  <2>2. Running' => Running
    BY <2>1, OnlyRunBegins DEF RunBegins
  <2>3. QED
    BY <2>1, <2>2 DEF MainInv, initVars
<1>2. CASE ~ (MainInRun \/ MainWaitEnds)
  <2>1. pc' = pc \/ WakeupNotifies
    BY <1>2 DEF MainDestroys, MainWakes, MainCloses, MainExits, MainIsLate,
                NetworkActs, ClockTicks, EventComes, HandlerThread,
                HandlerTests, HandlerCalls, HandlerWakes,
                HandlerTouchesDestroyed, WindowEnds, ShutdownSets, Arrives, SocketFails, TimePasses,
                RunIsLate, ClocksGoOn, processVars, vars
  <2>2. (pc' = "ready" <=> pc = "ready") /\ (Running' <=> Running)
    BY <2>1 DEF WakeupNotifies, Running
  <2>3. CASE MainDestroys \/ MainWakes \/ MainCloses \/ MainExits
    BY <2>2, <2>3 DEF MainInv, MainDestroys, MainWakes, MainCloses, MainExits,
                      Running, initVars
  <2>4. CASE ~ (MainDestroys \/ MainWakes \/ MainCloses \/ MainExits)
    <3>1. main' \in {main, "exited"} /\ UNCHANGED initVars
      BY <1>2, <2>4
         DEF MainIsLate, NetworkActs, ClockTicks, EventComes, HandlerThread,
             HandlerTests, HandlerCalls, HandlerWakes, HandlerTouchesDestroyed, WindowEnds,
             processVars
    <3>2. QED
      BY <2>2, <3>1 DEF MainInv, initVars
  <2>5. QED
    BY <2>3, <2>4
<1>3. QED
  BY <1>1, <1>2

(* The threads of the control handler are where the code can be.           *)
LEMMA CtrlStep ==
  ASSUME CtrlInv, [ProcessNext]_processVars
  PROVE  CtrlInv'
<1>1. CASE UNCHANGED ctrl
  BY <1>1 DEF CtrlInv
<1>2. ASSUME NEW h \in Handler,
             EventComes(h) \/ HandlerThread(h) \/ WindowEnds(h)
      PROVE  CtrlInv'
  BY <1>2 DEF CtrlInv, EventComes, HandlerThread, HandlerTests, HandlerCalls,
              HandlerWakes, HandlerTouchesDestroyed, WindowEnds, HandlerGoes
<1>3. QED
  BY <1>1, <1>2
     DEF ProcessNext, MainThread, MainInstallsHandler, MainStartsWinSock,
         MainInitializes, MainRegisters, MainArms, MainRuns, MainInRun,
         MainDestroys, MainWakes, MainCloses, MainExits, MainWaitEnds,
         MainIsLate, NetworkActs, ClockTicks, processVars

(* What a handler's step does to the set of those that are in Wakeup.      *)
LEMMA WakersStep ==
  ASSUME CtrlInv, NEW h \in Handler, NEW from, NEW to, HandlerGoes(h, from, to)
  PROVE  /\ h \in Wakers <=> from = "wakes"
         /\ Wakers' = IF to = "wakes" THEN Wakers \cup {h} ELSE Wakers \ {h}
BY DEF CtrlInv, HandlerGoes, Wakers

(* The steps of main.                                                      *)
LEMMA MainKeepsWakeInv ==
  ASSUME WakeInv, MainThread
  PROVE  WakeInv'
<1> USE DEF WakeInv, OneThreadWakes, Alive, Wakers
<1>1. CASE MainDestroys
  BY <1>1 DEF MainDestroys, ShutdownSets, vars, shutdownVars
<1>2. CASE MainWakes
  BY <1>2 DEF MainWakes, WakeupNotifies
<1>3. CASE MainInRun
  <2>1. UNCHANGED <<mShutdown, mNotified, main, ctrl>>
    BY <1>3 DEF MainInRun, RunStep, RunBegins, LoopTop, SelectReturns,
                ReadDatagram, SkipDatagram, DrainEnds, RecvFails, Tick,
                SkipTick, shutdownVars
  <2>2. QED
    BY <2>1
<1>4. CASE ~ (MainDestroys \/ MainWakes \/ MainInRun)
  <2>1. /\ UNCHANGED <<mShutdown, mNotified, ctrl>>
        /\ main # "wakes" /\ main # "exited" /\ main' # "wakes"
    BY <1>4 DEF MainThread, MainInstallsHandler, MainStartsWinSock,
                MainInitializes, MainRegisters, MainArms, MainRuns, MainCloses,
                MainExits, RunBegins, vars, shutdownVars
  <2>2. QED
    BY <2>1
<1>5. QED
  BY <1>1, <1>2, <1>3, <1>4

(* The steps of the handlers.                                              *)
LEMMA HandlersKeepWakeInv ==
  ASSUME WakeInv, CtrlInv, NEW h \in Handler,
         EventComes(h) \/ HandlerThread(h) \/ WindowEnds(h)
  PROVE  WakeInv'
<1> USE DEF WakeInv, OneThreadWakes, Alive, ServerExists
<1>1. CASE EventComes(h)
  BY <1>1, WakersStep DEF EventComes, vars, shutdownVars
<1>2. CASE HandlerTests(h)
  <2>1. PICK to \in {"calls", "returned"} : HandlerGoes(h, "tests", to)
    BY <1>2 DEF HandlerTests
  <2>2. Wakers' = Wakers
    BY <2>1, WakersStep
  <2>3. QED
    BY <1>2, <2>2 DEF HandlerTests, vars, shutdownVars
<1>3. CASE HandlerCalls(h)
  <2>1. CASE ShutdownSets /\ HandlerGoes(h, "calls", "wakes")
    <3>1. Wakers = {} /\ main # "wakes" /\ ~ mNotified
      BY <1>3, <2>1 DEF HandlerCalls, ShutdownSets
    <3>2. Wakers' = {h}
      BY <2>1, <3>1, WakersStep
    <3>3. QED
      BY <1>3, <2>1, <3>1, <3>2 DEF HandlerCalls, ShutdownSets
  <2>2. CASE mShutdown /\ HandlerGoes(h, "calls", "returned") /\ UNCHANGED vars
    <3>1. Wakers' = Wakers
      BY <2>2, WakersStep
    <3>2. QED
      BY <1>3, <2>2, <3>1 DEF HandlerCalls, vars, shutdownVars
  <2>3. QED
    BY <1>3, <2>1, <2>2 DEF HandlerCalls
<1>4. ASSUME HandlerGoes(h, "wakes", "returned"), WakeupNotifies,
             main # "exited", main' \in {main, "exited"}
      PROVE  WakeInv'
  <2>1. h \in Wakers /\ Wakers' = Wakers \ {h}
    BY <1>4, WakersStep
  <2>2. Wakers' = {} /\ main # "wakes" /\ mShutdown
    BY <1>4, <2>1
  <2>3. QED
    BY <1>4, <2>2 DEF WakeupNotifies
<1>5. CASE HandlerWakes(h)
  BY <1>4, <1>5 DEF HandlerWakes
<1>6. CASE HandlerTouchesDestroyed(h)
  <2>1. CASE HandlerGoes(h, "wakes", "returned") /\ WakeupNotifies
    BY <1>4, <1>6, <2>1 DEF HandlerTouchesDestroyed
  <2>2. CASE HandlerGoes(h, "calls", "returned") /\ UNCHANGED vars
    <3>1. Wakers' = Wakers
      BY <2>2, WakersStep
    <3>2. QED
      BY <1>6, <2>2, <3>1 DEF HandlerTouchesDestroyed, vars, shutdownVars
  <2>3. QED
    BY <1>6, <2>1, <2>2 DEF HandlerTouchesDestroyed
<1>7. CASE WindowEnds(h)
  BY <1>7 DEF WindowEnds
<1>8. QED
  BY <1>1, <1>2, <1>3, <1>5, <1>6, <1>7 DEF HandlerThread

(* All steps.                                                              *)
LEMMA WakeStep ==
  ASSUME WakeInv, CtrlInv, [ProcessNext]_processVars
  PROVE  WakeInv'
<1>1. CASE MainThread
  BY <1>1, MainKeepsWakeInv
<1>2. CASE \E h \in Handler : EventComes(h) \/ HandlerThread(h) \/ WindowEnds(h)
  BY <1>2, HandlersKeepWakeInv
<1>3. CASE \/ MainWaitEnds \/ MainIsLate \/ NetworkActs \/ ClockTicks
           \/ UNCHANGED processVars
  <2>1. UNCHANGED <<mShutdown, mNotified, main, ctrl>>
    BY <1>3 DEF MainWaitEnds, MainIsLate, NetworkActs, ClockTicks, WaitEnds,
                RunIsLate, Arrives, SocketFails, TimePasses, ClocksGoOn,
                processVars, vars, shutdownVars
  <2>2. QED
    BY <2>1 DEF WakeInv, OneThreadWakes, Alive, Wakers
<1>4. QED
  BY <1>1, <1>2, <1>3 DEF ProcessNext

(* To the loop, main is the one thread in Run, and main and the handlers   *)
(* are whoever calls Shutdown.                                             *)
LEMMA ProcessRunsLoop == ProcessSpec => Spec
<1>1. ProcessInit => Init
  BY DEF ProcessInit
<1>2. [ProcessNext]_processVars => [Next]_vars
  BY ProcessStepIsLoopStep
<1>3. QED
  BY <1>1, <1>2, PTL DEF ProcessSpec, Spec

(* What main sets up is an invariant, and so are the types.                *)
LEMMA ProcessInvariant ==
  ProcessSpec => [](LoopInv /\ MainInv /\ CtrlInv /\ WakeInv)
<1>1. ProcessInit => MainInv /\ CtrlInv /\ WakeInv
  BY DEF ProcessInit, Init, MainInv, CtrlInv, Running, WakeInv, OneThreadWakes,
         Wakers
<1>2. MainInv /\ CtrlInv /\ WakeInv /\ [ProcessNext]_processVars
        => (MainInv /\ CtrlInv /\ WakeInv)'
  <2> SUFFICES ASSUME MainInv, CtrlInv, WakeInv, [ProcessNext]_processVars
               PROVE  MainInv'
    BY CtrlStep, WakeStep
  <2>1. [Next]_vars
    BY ProcessStepIsLoopStep
  <2>2. CASE \/ MainInstallsHandler \/ MainStartsWinSock \/ MainInitializes
             \/ MainRegisters \/ MainArms \/ MainRuns
    BY <2>2, SetUpKeepsMainInv
  <2>3. CASE ~ (\/ MainInstallsHandler \/ MainStartsWinSock
                \/ MainInitializes \/ MainRegisters \/ MainArms \/ MainRuns)
    BY <2>1, <2>3, OthersKeepMainInv DEF ProcessNext, MainThread
  <2>4. QED
    BY <2>2, <2>3
<1>3. ProcessSpec => []LoopInv
  BY ProcessRunsLoop, LoopInvariant
<1>4. QED
  BY <1>1, <1>2, <1>3, PTL DEF ProcessSpec

(* The variables of the process keep their types.                          *)
THEOREM ProcessTypeCorrect == ProcessSpec => []ProcessTypeOK
<1>1. LoopInv /\ MainInv /\ CtrlInv => ProcessTypeOK
  BY DEF LoopInv, MainInv, CtrlInv, ProcessTypeOK
<1>2. QED
  BY <1>1, ProcessInvariant, PTL

(* Run only reads a socket that Initialize has bound and made              *)
(* non-blocking, through its whole run, into a callback that is set.       *)
THEOREM RunHasItsSocket == ProcessSpec => []RunsOnBoundSocket
<1>1. MainInv => RunsOnBoundSocket
  BY DEF MainInv, RunsOnBoundSocket
<1>2. QED
  BY <1>1, ProcessInvariant, PTL

(* No path through main leaves a socket open.                              *)
THEOREM NoSocketIsLeft == ProcessSpec => []SocketsReleased
<1>1. MainInv => SocketsReleased
  BY DEF MainInv, SocketsReleased
<1>2. QED
  BY <1>1, ProcessInvariant, PTL

(* From the first call of Shutdown to the notification there is one thread *)
(* in Wakeup, of any number of handlers and the destructor.                *)
THEOREM OneThreadWakesRun == ProcessSpec => []OneThreadWakes
<1>1. WakeInv => OneThreadWakes
  BY DEF WakeInv
<1>2. QED
  BY <1>1, ProcessInvariant, PTL

(* The bounds of the loop hold in the process, whatever its handlers do.   *)
THEOREM BoundsHoldInProcess ==
  ProcessSpec => [](/\ StopsInTime
                    /\ OneTickAfterShutdown
                    /\ TicksKeepComing
                    /\ HandledInTime)
BY ProcessRunsLoop, RunStopsInTime, GameRestsAfterShutdown,
   TicksComeInTime, DatagramsHandledInTime, PTL

=============================================================================
