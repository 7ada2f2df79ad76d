----------------------------- MODULE MCProcess -----------------------------
(***************************************************************************)
(* Process on small instances, and what the comments and the assertions of *)
(* the code say of it and the code does not do.                            *)
(***************************************************************************)
EXTENDS Process

(* "assert(!mShutdown)" (Server.cpp:109): a control handler can call       *)
(* Shutdown once shutdownFn is set, before main calls Run.                 *)
RunBeginsUnshut == [][MainRuns => ~ mShutdown]_processVars

(* "common transient errors that may occur and can be ignored for UDP      *)
(* networking" (Server.cpp:199-201): they end Run.                         *)
TransientErrorsIgnored == [][RecvFails => pc' # "stopped"]_processVars

(* The threads run, and datagrams may come as fast as they are read.       *)
BusySpec == ProcessSpec /\ ThreadsRun

(* "If the amount of time since the last tick has exceeded the interval    *)
(* time we will tick the callback once" (Server.cpp:225-226): a stream of  *)
(* datagrams keeps the loop from looking at that time.  (MaxDelay of the   *)
(* time that it takes is counted, and no more.)                            *)
DueTicksAreTaken == Running /\ TickIsDue ~> ~ TickIsDue \/ ~ Running

=============================================================================
