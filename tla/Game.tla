-------------------------------- MODULE Game --------------------------------
(***************************************************************************)
(* Common::Game, the base class of the server's and the client's game      *)
(* loop: the queue of events that OnMessage fills and Tick empties, and    *)
(* the table of players.                                                   *)
(*                                                                         *)
(* A game lives on one thread, the one in UdpServer::Run.  It alternates   *)
(* between reading the socket ("recv": every datagram read goes through    *)
(* OnMessage) and ticking ("tick": the queued events are handled in the    *)
(* order they came).  A handler runs to its end before the next one, but   *)
(* the network and the other processes move between two handlers.          *)
(***************************************************************************)
EXTENDS Datagrams, Sequences, Functions

CONSTANTS
  MaxEvents,      \* bound: events queued between two ticks
  MaxMessages     \* bound: message ids handed out per player

ASSUME BoundAssumption == MaxEvents \in Nat /\ MaxMessages \in Nat

Phase == {"recv", "tick"}

(* Game::Event and those derived from it: what was parsed of a message of  *)
(* a known action.                                                         *)
Event == {msg \in Message : msg.action # "None"}

(* Variant of OnMessage: what does not parse is queued all the same.       *)
OnMessageAlways(events, msg) == Append(events, msg)

(* OnMessage: a message that does not parse, or of no known action, queues *)
(* no event.                                                               *)
OnMessage(events, msg) ==
  IF msg.action = "None" THEN events ELSE Append(events, msg)

(* Tick pops the front event and hands it to the handler of its action.    *)
IsNext(phase, events, action) ==
  /\ phase = "tick"
  /\ events # <<>>
  /\ Head(events).action = action

(* The unordered_maps of the code are functions on some of their keys.     *)
IsMap(map, Key, Value) ==
  /\ DOMAIN map \subseteq Key
  /\ map \in [DOMAIN map -> Value]

(* unordered_map::try_emplace: an entry that is already there stays.       *)
TryEmplace(map, key, value) ==
  [k \in DOMAIN map \cup {key} |->
     IF k \in DOMAIN map THEN map[k] ELSE value]

(* The map with the entry of one key replaced, or added.                   *)
Put(map, key, value) ==
  [k \in DOMAIN map \cup {key} |-> IF k = key THEN value ELSE map[k]]

=============================================================================
