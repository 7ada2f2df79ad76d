------------------------------ MODULE Sockets ------------------------------
(***************************************************************************)
(* CreateSocketPair and DrainSocket: two connected sockets, one of which   *)
(* wakes a thread that waits for the other.  Each system call may fail,    *)
(* and the scope guards close what is not handed out.  A handle that has   *)
(* been closed is given out again.  Any process of the machine may connect *)
(* to the listener while it listens.                                       *)
(*                                                                         *)
(* No other code of the repository calls them: the callers here are any    *)
(* thread that creates and drains the pair, and any that writes to it.     *)
(***************************************************************************)
EXTENDS Naturals, Functions

CONSTANTS
  Handle,         \* the handles of sockets
  kInvalidSocket,
  Stranger,       \* the socket of another process
  MaxPending      \* bound: reads' worth of bytes that wait to be read

ASSUME HandleAssumption ==
  /\ kInvalidSocket \notin Handle
  /\ Stranger \notin Handle \cup {kInvalidSocket}
ASSUME PendingAssumption == MaxPending \in Nat

VARIABLES
  step,           \* the call CreateSocketPair comes to, 0 outside of it
  listener, client, server,   \* its locals
  first,          \* who connected to the listener first
  reader, writer, \* what its caller has got and not closed yet
  open,           \* the open sockets, with their peers
  pending,        \* what waits in reader
  draining        \* the thread is in DrainSocket

pairVars == <<step, listener, client, server, first, reader, writer>>
socketVars == <<pairVars, open, pending, draining>>

SocketsInit ==
  /\ step = 0
  /\ listener = kInvalidSocket
  /\ client = kInvalidSocket
  /\ server = kInvalidSocket
  /\ first = kInvalidSocket
  /\ reader = kInvalidSocket
  /\ writer = kInvalidSocket
  /\ open = <<>>
  /\ pending = 0
  /\ draining = FALSE

-----------------------------------------------------------------------------
(* socket, accept, and closesocket, which leaves an invalid socket alone.  *)
Opened(socket, peer) ==
  [h \in DOMAIN open \cup {socket} |->
     CASE h = socket -> [nonblocking |-> FALSE, peer |-> peer]
       [] h = peer   -> [open[h] EXCEPT !.peer = socket]
       [] OTHER      -> open[h]]

Closed(sockets) ==
  [h \in DOMAIN open \ sockets |->
     IF open[h].peer \in sockets
     THEN [open[h] EXCEPT !.peer = kInvalidSocket] ELSE open[h]]

(* The calls of CreateSocketPair, in their order.                          *)
Calls == <<"socket listener", "bind", "listen", "getsockname",
           "socket client", "connect", "accept",
           "SetNonBlocking client", "SetNonBlocking server", "hand out">>

At(call) == step # 0 /\ Calls[step] = call

PairBegins ==
  /\ step = 0
  /\ ~ draining
  /\ reader = kInvalidSocket
  /\ writer = kInvalidSocket
  /\ step' = 1
  /\ UNCHANGED <<listener, client, server, first, reader, writer, open,
                 pending, draining>>

PairOpensListener ==
  /\ At("socket listener")
  /\ \E h \in Handle \ DOMAIN open :
       listener' = h /\ open' = Opened(h, kInvalidSocket)
  /\ step' = step + 1
  /\ UNCHANGED <<client, server, first, reader, writer, pending, draining>>

PairOpensClient ==
  /\ At("socket client")
  /\ \E h \in Handle \ DOMAIN open :
       client' = h /\ open' = Opened(h, kInvalidSocket)
  /\ step' = step + 1
  /\ UNCHANGED <<listener, server, first, reader, writer, pending, draining>>

(* The calls that change nothing which is looked at here.                  *)
PairListens ==
  /\ At("bind") \/ At("listen") \/ At("getsockname")
  /\ step' = step + 1
  /\ UNCHANGED <<listener, client, server, first, reader, writer, open,
                 pending, draining>>

(* connect, which succeeds when there is room to wait for accept.          *)
IfNoneCame(socket) == IF first = kInvalidSocket THEN socket ELSE first

PairConnects ==
  /\ At("connect")
  /\ first' = IfNoneCame(client)
  /\ step' = step + 1
  /\ UNCHANGED <<listener, client, server, reader, writer, open, pending,
                 draining>>

(* Once it listens, anybody may come before client does.                   *)
StrangerConnects ==
  /\ At("getsockname") \/ At("socket client") \/ At("connect")
  /\ first' = IfNoneCame(Stranger)
  /\ UNCHANGED <<step, listener, client, server, reader, writer, open,
                 pending, draining>>

(* accept returns the connection that came first, whoever made it.         *)
PairAccepts ==
  /\ At("accept")
  /\ \E h \in Handle \ DOMAIN open : server' = h /\ open' = Opened(h, first)
  /\ step' = step + 1
  /\ UNCHANGED <<listener, client, first, reader, writer, pending, draining>>

(* A stranger that was accepted closes its socket.                         *)
StrangerLeaves ==
  /\ \E h \in DOMAIN open :
       /\ open[h].peer = Stranger
       /\ open' = [open EXCEPT ![h].peer = kInvalidSocket]
  /\ UNCHANGED <<pairVars, pending, draining>>

(* Variant of Unblocked: the same socket is set twice.                     *)
UnblockedServer == server

Unblocked == IF At("SetNonBlocking client") THEN client ELSE server

PairUnblocks ==
  /\ At("SetNonBlocking client") \/ At("SetNonBlocking server")
  /\ open' = [open EXCEPT ![Unblocked].nonblocking = TRUE]
  /\ step' = step + 1
  /\ UNCHANGED <<listener, client, server, first, reader, writer, pending,
                 draining>>

(* What the scope guards close: the locals, as they are when it returns.   *)
(* Connections that nobody has accepted end with the listener.             *)
GuardsClose(locals) ==
  /\ open' = Closed(locals)
  /\ listener' = kInvalidSocket
  /\ client' = kInvalidSocket
  /\ server' = kInvalidSocket
  /\ first' = kInvalidSocket
  /\ step' = 0
  /\ UNCHANGED <<pending, draining>>

(* Variant of PairReturns: the locals keep what is handed out.             *)
PairReturnsCopies ==
  /\ At("hand out")
  /\ reader' = client
  /\ writer' = server
  /\ GuardsClose({listener, client, server})

(* The exchange leaves the locals client and server invalid.               *)
PairReturns ==
  /\ At("hand out")
  /\ reader' = client
  /\ writer' = server
  /\ GuardsClose({listener})

(* Any call may fail.                                                      *)
PairFails ==
  /\ step # 0
  /\ ~ At("hand out")
  /\ GuardsClose({listener, client, server})
  /\ UNCHANGED <<reader, writer>>

-----------------------------------------------------------------------------
(* The callers close their ends, and the one that writes writes (to a      *)
(* stranger nothing that is looked at here).                               *)
ReaderCloses ==
  /\ reader # kInvalidSocket
  /\ ~ draining
  /\ open' = Closed({reader})
  /\ reader' = kInvalidSocket
  /\ pending' = 0
  /\ UNCHANGED <<step, listener, client, server, first, writer, draining>>

WriterCloses ==
  /\ writer # kInvalidSocket
  /\ open' = Closed({writer})
  /\ writer' = kInvalidSocket
  /\ UNCHANGED <<step, listener, client, server, first, reader, pending,
                 draining>>

WriterWrites ==
  /\ writer # kInvalidSocket
  /\ reader # kInvalidSocket
  /\ open[writer].peer = reader
  /\ pending < MaxPending
  /\ pending' = pending + 1
  /\ UNCHANGED <<pairVars, open, draining>>

(* DrainSocket reads until the call would block.  When the other end is    *)
(* closed a call returns nothing and no error, and it reads on for ever.   *)
PeerIsOpen == open[reader].peer # kInvalidSocket

DrainBegins ==
  /\ reader # kInvalidSocket
  /\ ~ draining
  /\ draining' = TRUE
  /\ UNCHANGED <<pairVars, open, pending>>

DrainReads ==
  /\ draining
  /\ pending > 0
  /\ pending' = pending - 1
  /\ UNCHANGED <<pairVars, open, draining>>

DrainEnds ==
  /\ draining
  /\ pending = 0
  /\ open[reader].nonblocking
  /\ PeerIsOpen
  /\ draining' = FALSE
  /\ UNCHANGED <<pairVars, open, pending>>

DrainFails ==
  /\ draining
  /\ draining' = FALSE
  /\ UNCHANGED <<pairVars, open, pending>>

SocketsNext ==
  \/ PairBegins
  \/ PairOpensListener
  \/ PairOpensClient
  \/ PairListens
  \/ PairConnects
  \/ StrangerConnects
  \/ PairAccepts
  \/ StrangerLeaves
  \/ PairUnblocks
  \/ PairReturns
  \/ PairFails
  \/ ReaderCloses
  \/ WriterCloses
  \/ WriterWrites
  \/ DrainBegins
  \/ DrainReads
  \/ DrainEnds
  \/ DrainFails

-----------------------------------------------------------------------------
(* Properties.                                                             *)

Peer == Handle \cup {kInvalidSocket, Stranger}
SocketState == [nonblocking : BOOLEAN, peer : Peer]

SocketsTypeOK ==
  /\ step \in 0 .. 10
  /\ {listener, client, server, reader, writer} \subseteq
       Handle \cup {kInvalidSocket}
  /\ first \in Peer
  /\ DOMAIN open \subseteq Handle
  /\ \A h \in DOMAIN open : open[h] \in SocketState
  /\ pending \in 0 .. MaxPending
  /\ draining \in BOOLEAN

(* Whichever call of CreateSocketPair fails, no socket stays open that     *)
(* nobody has, and those it hands out are open and no one else's.          *)
Holders == <<listener, client, server, reader, writer>>

SocketsAreOwned ==
  /\ DOMAIN open = {Holders[k] : k \in 1 .. 5} \ {kInvalidSocket}
  /\ \A j, k \in 1 .. 5 :
       Holders[j] = Holders[k] => j = k \/ Holders[j] = kInvalidSocket

(* reader hears from writer, or from nobody: writer may have gone, or have *)
(* been accepted from a stranger.                                          *)
Joined(a, b) ==
  \/ open[a].peer = b /\ open[b].peer = a
  \/ open[a].peer = kInvalidSocket /\ open[b].peer \in {Stranger, kInvalidSocket}

(* The sockets that the caller has never block it, and nobody but writer   *)
(* is connected with reader, whoever else connected to the listener, and   *)
(* however early.                                                          *)
PairIsReady ==
  /\ \A h \in {reader, writer} \ {kInvalidSocket} : open[h].nonblocking
  /\ kInvalidSocket \notin {reader, writer} => Joined(reader, writer)

=============================================================================
