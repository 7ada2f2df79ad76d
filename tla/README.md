# A TLA+ model of the UDP game

This directory specifies and verifies the program in `src/`: a UDP game server
and its clients, written in C++17 for Windows. The repository's own README calls
the game incomplete: players log in and nothing moves yet. What there is, is the
part that is hard to get right: sessions over an unreliable network, a loop that
is shared with a thread that stops it, and a message format.

Paths like `common/Server.cpp:109` are relative to `src/`.

## 1. Inventory

### The parts, their state and their operations

| Part | Source | State | Operations |
|---|---|---|---|
| Server game loop | `server/GameLoop.*`, `common/Game.*` | `mEvents`, `mPlayers`, `mNextPlayerId`; per player the endpoint, `nextMessage`, `messages` (sent, to be resent) | `OnMessage`, `Tick`, `CreatePlayer(address, port)`, `HandleLogin`, `HandlePing`, `HandleAcknowledge` |
| Client game loop | `client/GameLoop.*`, `common/Game.*` | `mEvents`, `mPlayers`, `mState`, `mThisPlayer`, `mLoginAttemptTime`, `mLastPing`, ... | `OnMessage`, `Tick` with `TryLogin` and `TryPing`, `CreatePlayer(id)`, the three handlers |
| `UdpServer` | `common/Server.*` | `mSocket`, `mRecvFn`, `mShutdown`, `mNotified`, a mutex and a condition variable | `Initialize`, `OnRecv`, `Run`, `Shutdown`, `Wakeup`, the destructor |
| Message codec | `common/Message.*`, `common/Serializer.h` | none (pure) | `Serialize`, `Deserialize` of three messages, `MemoryReader`, `MemoryWriter`, `FNV1A_64` |
| Game board | `common/Game.cpp:10-23, 98-110` | `mParams`, `mState`: the cells | constructor, `GetPosition`, `IsValidPosition` |
| Buffers | `common/Network.h:45-121` | `NetworkBuffer`: a block of memory, its size, the bytes used; `NetworkMessage` holds one | construct, move, destroy, `SetOffset` |
| Sending | `common/Network.cpp:197-276` | none | `SendMessage`, address conversions |
| Socket pair | `common/Network.cpp:38-195, 247-251`, `ScopeGuard` in `common/Common.h` | locals that hold sockets | `CreateSocketPair`, `DrainSocket`, `SetNonBlocking`; the first two are used by nothing in the repository |
| Main programs | `server/main.cpp`, `client/main.cpp` | `shutdownFn`, a global | control handler, WinSock start-up, `Initialize`, `OnRecv`, `Run`, return |
| Player, Position, strings | `common/Player.*`, `common/Common.*` | an id, a name, a position | accessors |
| Tests | `tests/` | | round trips of the codec |

### How they interact

The server and the client are the same program skeleton. `main` makes a game
loop and a `UdpServer`, binds a socket, and calls `Run` on its only thread.
`Run` alternates: it waits in `select`, reads every datagram there is and hands
each to the `OnRecv` callback, which decodes it and calls `Game::OnMessage` (an
event is queued); then, if an interval has passed, it calls the tick callback,
where `Game::Tick` pops the events, calls a handler for each, and the client's
`Tick` also sends logins. It then waits on the condition variable.
A console control handler, on a thread Windows makes, calls `Shutdown` through
the global `shutdownFn`: `Shutdown` sets the atomic `mShutdown` and notifies the
condition variable, without the mutex.

Messages go from the client to the server (`LoginMessage`, in principle
`PingMessage`) and back (`LoginMessage` with the session,
`AcknowledgeMessage`). `SendMessage` opens a new socket for each one and closes
it, so that the source port of a datagram says nothing about where its sender
listens; a login therefore names the endpoint to reply to.

### What is hard, and what must hold

* **Sessions over UDP** (server and client loops): a login or its reply is lost,
  duplicated, overtaken or answered twice; a client is restarted on the same
  port; a send fails half-way through a handler. There must be one player per
  endpoint, and what a client believes its session to be must be what the
  registry says.
* **Run against Shutdown** (`UdpServer`): the notification can come between the
  look at `mShutdown` and the wait; a wait can end early; ticks are skipped
  by a comparison of clocks; a round may compute for a while. The loop must stop
  in time, tick in time and handle what it has read.
* **Message bytes**: any bytes can come in. The fields of what is accepted must
  be those of the datagram, and what is sent must be read as it was meant.
* **The life of a process** (main programs, `UdpServer`): control events come at
  any moment, also before `main` is ready for them or after it has finished, on
  several threads; `Initialize` fails half-way. An event that is taken must end
  the process, `Run` must have a socket it can read, and none may be left open.
* **Ownership** (buffers, socket pair): buffers are moved from datagrams to
  events and from replies to the messages to resend; `CreateSocketPair` can fail
  at nine calls, and other processes can connect to its listener. Each block and
  each socket must have one owner at all times.
* **Limits**: ids that wrap, buffers that grow, boards of any shape.

`PROJECT.json` lists every hazard with its line and the properties about it.

## 2. The modules

```
Datagrams            messages, endpoints, the network
   Game              event queue, maps
     GameServer      Server::GameLoop      --- ServerAlone (any clients) --- MCServerAlone, MCServerClaims
     GameClient      Client::GameLoop      --- ClientAlone (any server)  --- MCClientAlone
        UdpGame      both, the network, restarts --- MCUdpGame
                     implements SessionService
UdpServer            Run, Shutdown, Wakeup, the clock
   Process           main, the control handler, Initialize, the destructor --- MCProcess
Buffers              NetworkBuffer: blocks of memory and who owns them
Sockets              CreateSocketPair, DrainSocket, the guards
   Network           both, called by one thread --- MCNetwork
Codec -- Wire        the bytes of messages, and what happens to them --- MCWire
Board                the constructor of Game and GetPosition --- MCBoard

GameProofs           the invariants of the server and of the clients, step by step
   ServerAloneProofs, ClientAloneProofs, UdpGameProofs (with those of SessionService)
ProcessProofs, NetworkProofs, WireProofs, BoardProofs
```

**Datagrams.** A message is the record that the receiver's `Deserialize`
returns, with an action; bytes that do not parse are the one message with action
`"None"`. `net` is the set of datagrams in flight: `TakeFromNet` may leave
the datagram there (it is delivered again later), `Lose` removes one, and a set has no
order. `SendMessage(to, msg, sent)` has the result of the C++ function as a
parameter, so that each handler is modelled for both.
`SourcePort` is a port that no process has bound: that of the sender's socket,
which is closed by then.

**Game.** `OnMessage` and the dispatch of `Tick`. An `Event` is a message of a
known action; nothing else is ever queued. A game lives on one thread
which reads (`"recv"`) or ticks (`"tick"`). Handlers are atomic:
nothing else on that machine touches their state. Between two handlers the
network and all other processes move.

**GameServer.** `ServerHandleLogin` is `HandleLogin` with `CreatePlayer`: it
looks for the endpoint in the registry, makes a player with `mNextPlayerId` if
there is none, takes a message id and, if the send succeeded, keeps the reply.
`ServerHandlePing` is `HandlePing` with all its early returns. `connectStart`
and `lastMessage` are written and never read and are not state.

**GameClient.** Every variable is a function on the clients; a client is the
endpoint its process has bound. `ClientHandleLogin` has the two branches of
`HandleLogin` (state `New`, and any other). The end of a tick tries to log in and
to ping. The 500ms between two attempts are the flag `loginRecent`, which
`LoginExpires` clears at any later moment: the model has all delays, not
just 500ms. `TimedOut` and `Disconnected` are never assigned by the code.

**UdpGame.** Interleaves the server, the clients and the network and adds
restarts. A restart of a client gives the first state to a process at the same
endpoint (the port is fixed in `client/main.cpp`), while its old datagrams and
the replies to them stay in the network. A restart of the server empties the
registry.

**SessionService.** The abstract specification: a registry of sessions and what
each client knows; three actions. `UdpGame` implements it with
`registry <- Registry` (the endpoints of `mPlayers`) and `known <- mThisPlayer`.

**UdpServer.** One action for each stretch of `Run` between two places where
another thread or the network can matter: the look at `mShutdown`, the return of
`select`, each `recvfrom`, the tick, the end of `wait_for`. `Run` holds the mutex
except in `select` and in `wait_for`; nobody else takes it, so it is not a variable.
`mNotified` is written and never read; the model has it to tell what Wakeup has done.

Time is a number of units; `Interval` is the interval of `Run`. It passes where
`Run` is blocked (`TimePasses`) and also where it computes or is kept waiting for
the processor (`RunIsLate`): between two calls, while it reads, while it ticks.
Nothing in the code bounds the latter. The reading loop
(`common/Server.cpp:170-221`) looks neither at the clock nor at `mShutdown`, and
goes on while datagrams come. So `MaxDelay`, for how long one round may compute,
is a parameter, and the bounds on time that are checked and proved are stated with it.
A stream of datagrams that comes as fast as it is read makes a round longer than any
`MaxDelay`, and then none of them holds (`claim_tick_due` in section 6).
`stop - start` in the code is measured around `select`, so that it is anything
from what `select` waited to that and the delay (`Measured`).

Errors of the socket: `"transient"` (the two that
line 202 tests), `"broken"` (any other that stays, after which the code calls
`recvfrom` again, for ever), `"select"` (an error of select), `"interrupt"`
(WSAEINTR, no error); a datagram that is too long is `SkipDatagram`. `Spinning`
is the state after an error that stays: `Run` does nothing more, with the mutex
held. The timing properties are about all other states.

**Process.** Extends `UdpServer` with the steps of `main` (one for each call that
may fail or that another thread can come between), the five ways in which
`Initialize` returns, the destructor, which calls `Shutdown` itself, and a thread
for each control event. `ServerExists` says whether the `UdpServer` of `main` is
alive or not constructed yet; only then do the handlers' calls mean what they say.
A handler that is late touches a server that is gone: the model lets that
do nothing or end the process (`HandlerTouchesDestroyed`). `shutdownFn` is
assigned while handlers test it: they see it empty or set. After
`CTRL_CLOSE_EVENT` Windows ends the process when the handler returns
(`WindowEnds`). `OneThreadWakes` is about the race of all those that may call
`Shutdown` at once, the destructor among them: exactly one goes on to `Wakeup`, and
it stays there until `Run` has been notified.

**Buffers.** The heap as a function from allocated blocks to contents, and the
`NetworkBuffer`s that exist, by role: the local of `Run`, the `msg` of each
event, the local of a handler, the entries of `messages`. `MoveConstruct` and
`MoveAssign` return what both operands hold afterwards and what is freed.
`meant` is auxiliary: what was put into an object, wherever it is moved to;
`ContentsStay` compares it with the bytes that are found there.

**Sockets.** `CreateSocketPair` call by call (`Calls`, `step`). Each can fail,
and then the guards close the three locals as they are. A closed handle is free
and is given out again at once. From `listen` on any process of the machine may
connect (`StrangerConnects`); `first` is whose connection came first, and that is
the one that `accept` returns. The callers, of which the repository has none,
are any that create one pair at a time, drain it, write to it and close either end.

**Network.** Interleaves the two: one thread makes all these calls, so
one of them is at rest while the other is in the middle of something.

**Codec** and **Wire.** The format byte by byte, with `Base` values to a byte.
An integer is written as its two halves, and read so, as in the chain of shifts of
the writer: `Put32_BE` is twice `Put16_BE`, `Put64_BE` twice `Put32_BE`. `Message` is
the set of all messages with fields of their widths. The hash multiplies
modulo eight bytes and takes the exclusive or of two bytes from the table
`ByteXor` (a constant, filled in by `MCByteXor` with the operator of the
library), since only the lowest byte of the seed changes.
The size in the header and the hashed span are a header longer than
what was written, as in the code (and in its tests): the span ends in the zeros
of the fresh buffer. `Wire` takes a serialised message and then cuts, extends
or changes bytes. The reader of the model returns 0 for what is not all there.
The code's `Read(offset)` lets one offset more through (`offset <= mSize`,
`common/Message.cpp:59`), and `Read64_BE(offset)` looks for four bytes where it
takes eight (line 143); every caller has looked at the size before, so that
neither is reached past the end. `FieldsAreThere` says so of the offsets that
are read: it writes what was accepted again and compares it, byte by byte, with the
datagram. A field that was read past the end, at a wrong offset or in a wrong
order would differ.

**Board.** The loops of the constructor, one cell at a time, with `uint32_t`
arithmetic modulo `Word`, on boards of any shape. A write past the last cell is
undefined; the model leaves the cells as they are.

Definitions marked *Variant of X* are not used by the specifications. Each is X
with a mistake that the code could have had. With the variant in the place of X
the property it is paired with in `PROJECT.json` must fail, which shows that the property
depends on that piece of the code.

## 3. What is checked

All runs are with all interleavings, and none uses symmetry.

| Run | Instance | What it shows |
|---|---|---|
| `server_alone` | 3 endpoints (two share an address, two a port), 5 ids, 2 message ids per player, 2 datagrams in flight, 1 queued event; 2.2 million states | Against clients that send anything: one player per endpoint; every login reply in flight agrees with the registry; every reply in flight is in the resend buffer; players, their endpoints and what is buffered stay |
| `client_alone` | 2 clients, 2 valid sessions and the invalid one; 0.66 million states | Against a server that sends anything: state and player go together; the session lasts until the process ends |
| `game` | 2 clients of one host, 1 client restart; 139 thousand states | Both sides agree on sessions; no client knows a player but its own; `UdpGame` implements `SessionService` |
| `game_served` | 1 client, 2 queued events, 2 client restarts, 1 server restart, message ids that wrap at 2; 96 thousand states, with fairness | Two logins handled in one tick make one player; the client is registered, and logged in again after every restart of its process; one that starts after the last restart of the server, with no stale reply on its way, is logged in under the session that this server has for it |
| `process` | interval of 1 unit, rounds that compute for up to 1, 1 datagram queued, all errors, 2 control events of which one closes the console; 0.73 million states, with fairness | `Run` ends within one interval of `Shutdown` (and what the round computes), after at most one more tick; ticks are at most 3 intervals apart (and two rounds); a datagram is read within 1 (and two rounds) and handled within 3 (and three rounds); `Run` has a bound socket and `main` leaves none open; one of all callers of `Shutdown` wakes `Run`; an event that finds `shutdownFn` ends the process, and its handler returns |
| `network` | 4 blocks of one byte, 2 contents of which one is junk, 2 queued events, ids that wrap at once, 3 handles, strangers; 0.97 million states, with fairness | Each block and each socket has one owner; nothing leaks; events and kept replies keep their bytes; a pair does not block, and its reader hears from its writer or from nobody; `DrainSocket` returns while the other end is open |
| `wire` | bytes of 4 values, 7 messages with low, high and mixed fields, of which one has hash 0, all datagrams up to 2 changes away; 46 thousand states | What is written is read back, or its hash is 0 and it is turned down; every field of an accepted message is what the datagram has at its place; what is accepted and sent on is read as the same |
| `board` | boards of all shapes up to 7 by 7; 833 states | On square boards and boards of one row every position has a cell of its own |

Four more runs show where the code does not do what it says of itself; see
section 6.

**The bounds, and why they are enough.** `MaxEvents`, `MaxMessages`,
`MaxInFlight`, `MaxClientRestarts`, `MaxServerRestarts`, `MaxQueue`, `MaxQueued`,
`MaxPending`, `MaxFaults`, `MaxSide`, `MaxDelay`, `Handler` and `Handle` are guards or sets of the model and not of the code. The
properties of sessions relate a client and a player, or two players: three
endpoints have a pair that differs in the port only, a pair that differs in the
address only and one more, and three players use all ids from 1 up to the
invalid one.
Two datagrams in flight, each of which can be delivered any number of times, give
all orders of two messages, and a lost or late third is one that was sent
again. `server_alone` stops replying at `MaxMessages`, below the wrap of message
ids; `game` and `game_served` run past the wrap. One queued event is enough where
each property looks at one handler at a time; two in one tick, from one client or
from its earlier process, are in `game_served`. In `process` one unit is
enough for the extremes: each of the four bounds on time is reached exactly (with a
bound one unit lower TLC finds a state that exceeds it), and the theorems say the
same for every interval and every delay. Its clocks stop past three intervals and
three delays, the largest bound that is stated (`Horizon`). Two events give two handlers in `Shutdown`, and the destructor is a
third. In `network` two queued events, the local, a new buffer and a kept reply
have at most four blocks, so that no step is lost for want of one; three
handles are as many as `CreateSocketPair` has open at once; a block or a handle is thus
given out again soon after it is freed.
In `wire` a byte of four values keeps sizes exact (all sizes are below
4^4) and lets every two bytes of a datagram be wrong; the magic bytes and the
parameters of the hash are reduced likewise.
What small instances cannot show is proved for all (section 5).

`CHECK_DEADLOCK FALSE` is used where the system stops: the process ends, a
datagram has no more changes, a board is complete.

## 4. Fairness

Only `game_served`, `process`, `network` and `claim_tick_due` assume any.

In **UdpGame**: the threads take steps (weak fairness: `Run` never blocks for
longer than its interval), each 500ms end, and
`SendMessage` does not fail for ever on a message that is tried again and again (strong
fairness on the send that succeeds, since failures are local and temporary). `Delivery`
says that a datagram which is in flight again and again is also read again and
again: with UDP one cannot assume that any one arrives, and without this the
network could lose all. Nothing is assumed of the order, of duplicates, or of
which copy arrives. The client's retry in `TryLogin` is what turns this into
progress: a client that does not retry fails the property.

In **Process**: `main`'s thread and those of the handlers run, time passes, and a
wait whose time is over ends (`ThreadsRun`). `ReadingKeepsUp` says that
`recvfrom` finds the buffer empty now and then. This is a real assumption: the
reading loop (`common/Server.cpp:170-221`) looks neither at `mShutdown` nor at
the clock, so that a stream of datagrams faster than it reads would keep `Run`
in it. (The strong fairness of `DrainEnds` says that `recvfrom` is called at one
of the moments at which the buffer is empty.) `claim_tick_due` leaves this
assumption out (`BusySpec`), which is all it takes for a tick that is due never to
come. The safety bounds have `MaxDelay` in its place.
A `Run` that spins on an error has left the loop's progress for good, and
`EventStopsProcess` says so: the event ends the process, or `Run` spins.
`EventsReturn` has no such exception, since `Shutdown` does not take the mutex
that the spinning `Run` holds; with a `Shutdown` that locks it the property fails.

In **Network**: a thread in `DrainSocket` reads, and reads faster than the other
end writes (`DrainKeepsUp`, and strong fairness of the read that finds nothing).
Nothing is assumed of `CreateSocketPair`.

## 5. What is proved

All theorems hold for every value of the constants that the modules' named
assumptions allow, and under the hypotheses that they state.

| Theorem | States | Hypotheses |
|---|---|---|
| `ServerAloneProofs!ServerTypeCorrect` | `[]ServerTypeOK` | `FewEndpoints` |
| `...!SessionsAreUnique` | `[]OneSessionPerEndpoint` | `FewEndpoints` |
| `...!RepliesAreRight` | `[]RepliesMatchRegistry` | `FewEndpoints` |
| `...!RegistryIsForGood` | `PlayersAreKept` | `FewEndpoints` |
| `...!RepliesAreBuffered` | `[]SentIsBuffered` | `FewEndpoints`, `IdsDoNotWrap` |
| `...!AcknowledgesAreLost` | `[]AcknowledgesGoAstray`: no acknowledgement is on its way to an endpoint | none |
| `ClientAloneProofs!ClientTypeCorrect`, `StateTellsOfPlayer`, `SessionsLast` | `[]ClientTypeOK`, `[]StateMatchesPlayer`, `SessionLasts` | none |
| `UdpGameProofs!GameTypeCorrect` | `[]TypeOK` | `FewEndpoints` |
| `...!GameSessionsAreUnique` | `[]OneSessionPerEndpoint` | `FewEndpoints` |
| `...!GameStateTellsOfPlayer`, `GameSessionsLast` | `[]StateMatchesPlayer`, `SessionLasts` | `FewEndpoints` |
| `...!OnlyRestartsForget` | `[][KeepsPlayers \/ ServerRestart]_vars` | `FewEndpoints` |
| `...!PingsAreNeverSent` | only logins are ever in flight | `FewEndpoints` |
| `...!SessionsAgree` | `[]SessionAgreement` | `FewEndpoints`, `ServerStaysUp` |
| `...!PhantomsNeverJoin` | `[]NoPhantomPlayers` | the same |
| `...!GameRepliesAreRight` | `[]RepliesMatchRegistry` | the same |
| `...!GameRepliesAreBuffered` | `[]SentIsBuffered` | the same, `IdsDoNotWrap` |
| `...!GameImplementsService` | `Spec => Service!Spec` | `FewEndpoints`, `ServerStaysUp` |
| `...!ServiceIsRight`, `ServiceKeepsSessions` | what the abstract service promises | none |
| `...!GameKeepsPromises` | what the service promises, of the game | `FewEndpoints`, `ServerStaysUp` |
| `ProcessProofs!LoopTypeCorrect`, `RunStopsInTime`, `GameRestsAfterShutdown`, `TicksComeInTime`, `DatagramsHandledInTime` | `[]TypeOK` of `UdpServer`, `[]StopsInTime`, `[]OneTickAfterShutdown`, `[]TicksKeepComing`, `[]HandledInTime`, of the loop alone; the bounds are stated with `MaxDelay` | none |
| `...!OneThreadWakesRun` | `[]OneThreadWakes` | none |
| `...!BoundsHoldInProcess` | the four bounds, of the process | none |
| `...!ProcessTypeCorrect`, `RunHasItsSocket`, `NoSocketIsLeft` | `[]ProcessTypeOK`, `[]RunsOnBoundSocket`, `[]SocketsReleased` | none |
| `NetworkProofs!NetworkTypeCorrect` | `[]TypeOK` of `Network` | none |
| `...!BlocksHaveOneOwner`, `NoBlockLeaks`, `BuffersAlwaysFit`, `BytesStay` | `[]OneOwner`, `[]NothingLeaks`, `[]BuffersFit`, `[]ContentsStay` | none |
| `...!EverySocketIsOwned`, `PairIsAlwaysReady` | `[]SocketsAreOwned`, `[]PairIsReady` | none |
| `WireProofs!WireTypeCorrect`, `AcceptedIsComplete` | `[]TypeOK`, `[]FieldsAreThere`, of `Wire` | none |
| `...!RoundTrips`, `AcceptedIsSentOn` | `[]RoundTrip`, `[]ReadsAsWritten` | none |
| `...!WrittenIsReadBack` | `Deserialize(Serialize(m)) = m` | `HashOf(m) # 0` |
| `...!ZeroHashIsTurnedDown` | `Deserialize(Serialize(m)) = NoMessage` | `HashOf(m) = 0` |
| `...!BytesTellMessages` | `Serialize(m) = Serialize(n) => m = n` | `HashOf(m) # 0` |
| `...!HashStaysInBuffer` | the hashed span ends inside the buffer | none |
| `BoardProofs!BoardsHold` | `[]PositionsAreFound` (square boards and boards of one row) | `CellsAreCounted` |

`FewEndpoints`: there are fewer endpoints than valid ids (2^32 - 2), so that
`mNextPlayerId` never wraps; the code has no check for it. `ServerStaysUp`:
the server process is not restarted; agreement is lost when it is. What does not
depend on it is proved without it, for any number of restarts of both sides.
`IdsDoNotWrap`: no player is sent as many replies as there are message ids
(2^32); past that a reply can be in flight whose id is taken by an older one.
`CellsAreCounted`: height times width is a `uint32_t`. That a board is square or
has one row is part of the property (`RowsFit`); others lose positions (section 6).
`EndpointAssumption`, of `Datagrams`, leaves one input out: a login that names the
endpoint of the server itself, so that the server would send the reply to itself.

**The server** (`RegistryInv` in `GameProofs`). One player per endpoint is not
inductive: a new player could get an id that is in use and overwrite another's
endpoint. `IdsInOrder` closes this: the ids in use are exactly
`1 .. mNextPlayerId - 1`. With it and one player per endpoint the number of
players is at most the number of endpoints (the lemma `PlayersFit`, by
cardinality of an injection), so that under `FewEndpoints` the next id is valid
and new. An empty registry satisfies `RegistryInv` whatever is in flight, so it
survives a restart of the server; that the replies in flight match the registry
(`RepliesMatchRegistry`, with it `IInv`) does not. The step lemmas are stated for
the server's steps alone and used twice, by `ServerAloneProofs` and by
`UdpGameProofs`; those of the clients are in `GameProofs` for the same reason.

For `SentIsBuffered` the invariant adds that every buffered id is below
`nextMessage` (`IdsAreFresh` in `BufferInv`), so that the next reply's id is not
taken.

**The client** (`ClientInv`). What is queued or in flight is a message, so
a session that `HandleLogin` accepts is a player's id, and state and player
change together.

**The game** (`PartsInv`, `GameInv`). `PartsInv` is what server and clients keep by
themselves, through all restarts: each lemma about a step says what it
does to the server's part and to the clients' (`ServerPartStays`, `ClientPartStays`). For the
agreement, a client's session was in its event queue before, and
in the network before that, and all three can be older than the client's
process. `RepliesMatchRegistry` covers the network and `QueuesMatchRegistry` the
queues; both stay true because the registry never changes an entry
(`KeepsPlayers`, which only a restart of the server breaks). The refinement then needs one case for each action:
a login of an unknown endpoint is `Register`, the acceptance of a reply is `Learn`, a restart is
`Forget` (or a stutter), everything else stutters. What the service promises is proved of
the service and holds of the game by the refinement alone.

`PingsAreNeverSent` and `AcknowledgesAreLost` say of every instance what section 6
says of pings and of `claim_ack_reaches`: they are not corner cases.

**The loop** (`LoopInv`). Three clocks, each bounded place by place by intervals
and by what the round has computed so far (`delayed`), unless `Run` spins. For the
stop: `select` has waited at least since Shutdown but for the delays, and the rest of
a wait plus the time since Shutdown is at most an interval and the delays. For the
ticks: a skipped tick waits only as long as `select` was measured to, which leads to
two intervals at the end of a wait and three at the next tick, each round with its
delay. For the datagrams: nothing unhandled is older than the last tick, but for the
round in which it was read. Nothing is assumed of `MaxDelay`.

**The process** (`MainInv`, `WakeInv`). Each step of the process is a step of
`UdpServer` on its variables, or leaves them alone (`ProcessStepIsLoopStep`), so that
the bounds of the loop hold in the process; that alone says nothing about who
calls `Shutdown`. `OneThreadWakes` does: its invariant adds that
whoever is in `Wakeup` has changed `mShutdown` and not yet set `mNotified`, which a
`Shutdown` that stored without comparing would break. That `Run` has its
socket follows from what `main` has done at each of its places.

**The buffers** (`BuffersInv`). `OneOwner` is kept by a lemma for each kind of
change: a new block, a move to a new object, the destruction of some objects
(`AllocKeeps`, `MoveKeeps`, `DestroyKeeps`). `NothingLeaks` speaks of the
moments between calls only; the invariant says for the other moments which
locals are there too.

**The sockets** (`SocketsInv`). `PairStage` says what each of the three locals is
when `CreateSocketPair` comes to each call. With it each failure closes
exactly what was opened, and the two sockets that are handed out were made
non-blocking. If nobody came first they are peers; if a stranger did, the reader's
peer is nobody.

**The codec** (`WireInv`). `Holds(data, offset, part)` says that bytes are at an
offset. What holds two parts in a row holds each (`HoldsBoth`), so that `Layout`
gives every field of a serialised message its offset; what the writer puts at an
offset the reader finds there (`Read16OfPut16`, and the larger ones by halves:
`Halves`, `Whole`). The hash is a recursive function on the lengths of the
prefixes. That there is one, with values of eight bytes, is not by induction but
by the least length for which it would not be so (`LeastNatural`,
`PrefixesHaveHashes`). For changed bytes the invariant says only that they are
bytes, no more than the buffer has room for: all that is then said of what is
read holds of any bytes (`DeserializeIsSafe`). `AcceptedIsComplete` goes the other
way: what is put of a value that was read is the bytes it was read from
(`Put16OfRead16` and the larger ones), so that the parts of an accepted message,
written again, are those of the datagram (`LoginIsThere`, `PingIsThere`,
`AcknowledgeIsThere`). `WrittenIsReadBack` is what
`Datagrams` relies on, where a message is a record and never bytes.

**The board** (`BoardInv`). Rows of `n` cells do not overlap (`RowsInOrder`,
`CellsAreApart`), so a write never touches an earlier position's cell.

**Only model-checked.** Liveness (`ClientsGetServed`, `ClientsComeBack`,
`EventStopsProcess`, `EventsReturn`, `DrainReturns`), which is out of the prover's reach: it needs
`ENABLED` of the fair actions. Every invariant and every action property
that the runs check is a theorem.

## 6. Where the code does not do what it says

Runs that TLC ends with a counterexample:

* `claim_ack_reaches`: `HandlePing` (`server/GameLoop.cpp:94`) sends the
  acknowledgement to the port the ping came from. Its comment says "Sent
  acknowledge message back to client" (line 101), but the ping's socket is
  closed and the client listens elsewhere.
* `claim_run_unshut`: the control handler can call `Shutdown` before `main`
  calls `Run`, which asserts `!mShutdown` (`common/Server.cpp:109`). A build
  without assertions ends at once, as `EventStopsProcess` shows.
* `claim_transient`: `WSAECONNRESET` and `WSAECONNREFUSED` "can be ignored"
  (`common/Server.cpp:199-201`); they end `Run` (lines 202-210). All others, which
  the comment at line 209 says are fatal and exit, are read again, for ever if they
  stay (`Spinning`).
* `claim_tick_due`: "If the amount of time since the last tick has exceeded the
  interval time we will tick the callback once" (`common/Server.cpp:225-226`); while
  datagrams come as fast as they are read, `Run` stays in the loop of lines 170-221
  and does not come to look at that time, or at `mShutdown`.

Others, seen while translating and visible in the definitions:

* a logged-in client never pings: `Tick` calls `TryPing` in every state but `New`,
  and `TryPing` returns in every state but `New` (`client/GameLoop.cpp:100, 168`);
  line 175 says "Only try to ping every 100ms" (`PingsAreNeverSent` is the proof);
* `accept` returns the connection that came first, and `CreateSocketPair` does not
  look whose it is, although it speaks of "the connected sockets"
  (`common/Network.cpp:122, 149`): the writer may be connected with a stranger
  (`PairAccepts`, `Joined`);
* once a player's message ids have wrapped, `try_emplace` keeps the old message
  under an id and the new one cannot be sent again (`server/GameLoop.cpp:51`;
  `AfterReply`, `IdsDoNotWrap`);
* `GetPosition` multiplies by the height where the width is meant
  (`common/Game.cpp:104`): boards that are not square lose positions, although
  the width can be chosen (`common/Game.h:30`). Both programs use the default, a
  square (`Cell`; `RowsFit` is in the property for this reason);
* a control event that comes before `shutdownFn` is set is taken and does
  nothing (`server/main.cpp:33`, `HandlerTests`), and a handler may still be in
  `Shutdown` when `main` destroys the server (`server/main.cpp:93-95`,
  `HandlerTouchesDestroyed`);
* `DrainSocket` does not look at the number of bytes read: when the peer has
  closed, it reads nothing for ever (`common/Network.cpp:167-191`; `DrainReturns`
  excepts it);
* an acknowledgement names `ping.messageId`, the last id that the client has
  acknowledged, and not the id of the ping (`server/GameLoop.cpp:91`;
  `common/Message.h:100-101`) (`Acknowledgement`);
* a reply whose send fails takes a message id that is not buffered, so
  there is nothing to resend for it (`AfterReply`; the plan is in the comment at
  `server/GameLoop.cpp:82-84`);
* the hash is looked at only for being zero; `common/Message.h:45-47` speaks of
  a validated span (`IsHeader`). A message whose hash happens to be zero is
  always turned down;
* `Game::Params::maxPlayers` and `playerTimeout` are not read
  (`common/Game.h:32-37`);
* `TryLogin` waits 500ms where its comment says 100 (`client/GameLoop.cpp:121`).

## 7. What is not modelled, and the plan

Not modelled: text conversion of addresses and of errors (no state that a
property is about), `Player` and `Position` (nothing moves), `Span`, printing, the
tests, the return of 0 by `Serialize` when the output is too small (every caller
passes a whole `NetworkBuffer`), and the deletion of events through a base class
without a virtual destructor (`common/Game.h:50`, undefined behaviour of the
language that no state of the protocol shows; `Buffers` has the base part, which
is the one that owns a block, destroyed).

Not stated: what the server and its clients agree on after the server was
restarted. The code has no recovery: replies of the old server log clients in under
ids that the new one gives to others, and a client that is logged in is not
registered again. What does hold is `ClientsComeBack`: a client process that starts
after the last restart of the server, when no stale reply is on its way to it, is
logged in under the session that this server has for it.

Abstracted: time in the client (`LoginExpires`), what a round of `UdpServer`
computes (any time up to `MaxDelay`), payload contents.

The order of the work, most important first:

1. `Datagrams`, `Game`, `GameServer` with `ServerAlone`, and its proofs.
2. `GameClient` with `ClientAlone`; `UdpGame`, `SessionService`, the refinement
   and its proof; liveness of logins.
3. `UdpServer` and the proof of its bounds.
4. `Codec` and `Wire`; `Board` and its proof.
5. `Process`: the life of a process, its liveness, and its proofs.
6. The proofs for `ClientAlone`, and of `SentIsBuffered`.
7. `Buffers`, `Sockets` and `Network`, and their proofs.
8. The proofs for `Codec` and `Wire`; those of the game through restarts of the
   server, and for the pings and acknowledgements that are never sent or never
   arrive.

What is left to prove more about: the session service under restarts of the server, for
which the code would first need to recover.
