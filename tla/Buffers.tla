------------------------------ MODULE Buffers ------------------------------
(***************************************************************************)
(* The NetworkBuffers of a process and the blocks of memory they own, from *)
(* the datagram that Run reads to the event that a handler has done with,  *)
(* and from the reply that a handler makes to the buffer of messages to    *)
(* resend.  A NetworkBuffer is moved and never copied.                     *)
(*                                                                         *)
(* An object is named by its role and a number.  All of this happens on    *)
(* the one thread in Run.  The messages are those of one player.           *)
(***************************************************************************)
EXTENDS Integers, Sequences, Functions

CONSTANTS
  Block,              \* the blocks that the heap can give out
  NoBlock,            \* nullptr
  kNetworkBufferSize, \* the size of every block
  Contents,           \* what a datagram can contain
  Junk,               \* those of which OnMessage makes no event
  Zeros,              \* what a new block contains
  MsgSpace,           \* message ids are uint32_t: 0 .. MsgSpace-1
  MaxQueued           \* bound: events in the queue

ASSUME BlockAssumption == NoBlock \notin Block
ASSUME SizeAssumption ==
  /\ kNetworkBufferSize \in Nat \ {0}
  /\ MsgSpace \in Nat \ {0}
  /\ MaxQueued \in Nat
ASSUME ContentsAssumption == Zeros \notin Contents

VARIABLES
  thread,         \* where the thread is
  heap,           \* what the blocks contain that are allocated
  objects,        \* the NetworkBuffers that exist
  meant,          \* auxiliary: what has been put into an object, or moved
  mEvents,        \* mEvents: the numbers of the queued events
  ev,             \* the event that Tick has popped
  nextMessage     \* the player's nextMessage

bufferVars == <<thread, heap, objects, meant, mEvents, ev, nextMessage>>

Msg == <<"msg", 0>>             \* the local of Run
Local == <<"buffer", 0>>        \* the local of a handler
Event(i) == <<"event", i>>      \* the msg of an event
Kept(id) == <<"message", id>>   \* an entry of messages

BuffersInit ==
  /\ thread = "recv"
  /\ heap = <<>>
  /\ objects = <<>>
  /\ meant = <<>>
  /\ mEvents = <<>>
  /\ ev = 0
  /\ nextMessage = 0

-----------------------------------------------------------------------------
(* The class NetworkBuffer.                                                *)

With(f, x, value) ==
  [y \in DOMAIN f \cup {x} |-> IF y = x THEN value ELSE f[y]]

Without(f, S) == Restrict(f, DOMAIN f \ S)

Free == Block \ DOMAIN heap

New(block) ==
  [mBuffer |-> block, mSize |-> kNetworkBufferSize, mOffset |-> 0]

SetOffset(buffer, offset) == [buffer EXCEPT !.mOffset = offset]

(* The blocks that a buffer owns and that its destructor frees.            *)
Owns(buffer) == {buffer.mBuffer} \ {NoBlock}

Empty == [mBuffer |-> NoBlock, mSize |-> 0, mOffset |-> 0]

(* A move: what both buffers hold after it, and what it frees.             *)

(* Variant of MoveConstruct: the pointer is copied.                        *)
CopyConstruct(other) == [this |-> other, other |-> other]

MoveConstruct(other) == [this |-> other, other |-> Empty]

(* Variant of MoveAssign: the block that was owned is released, not reset. *)
MoveAssignReleases(this, other) ==
  [this |-> other, other |-> Empty, freed |-> {}]

(* Variant of MoveAssign: the sizes stay behind.                           *)
MoveAssignPointer(this, other) ==
  [this |-> other, other |-> [other EXCEPT !.mBuffer = NoBlock],
   freed |-> Owns(this)]

(* Variant of MoveAssign: the comparison is the wrong way round.           *)
MoveAssignSame(this, other) ==
  IF this.mBuffer = other.mBuffer
  THEN [this |-> other, other |-> Empty, freed |-> Owns(this)]
  ELSE [this |-> this, other |-> other, freed |-> {}]

MoveAssign(this, other) ==
  IF this.mBuffer # other.mBuffer
  THEN [this |-> other, other |-> Empty, freed |-> Owns(this)]
  ELSE [this |-> this, other |-> other, freed |-> {}]

(* The destructors of some of the objects.                                 *)
Destroy(gone) ==
  /\ objects' = Without(objects, gone)
  /\ heap' = Without(heap, UNION {Owns(objects[o]) : o \in gone})
  /\ meant' = Without(meant, gone)

-----------------------------------------------------------------------------
(* What recvfrom returns when there is a datagram, which may be empty.     *)

(* Variant of Received: the offset is set before the error is looked at.   *)
ReceivedOrError == -1 .. kNetworkBufferSize

Received == 0 .. kNetworkBufferSize

(* Run reads a datagram into a new NetworkMessage.                         *)
Reads ==
  /\ thread = "recv"
  /\ Len(mEvents) < MaxQueued
  /\ \E block \in Free, contents \in Contents, result \in Received :
       /\ objects' = With(objects, Msg, SetOffset(New(block), result))
       /\ heap' = With(heap, block, contents)
       /\ meant' = With(meant, Msg, contents)
  /\ thread' = "callback"
  /\ UNCHANGED <<mEvents, ev, nextMessage>>

(* OnMessage makes an event, whose own NetworkMessage has a new block, and *)
(* moves the message into it.                                              *)
OnMessageQueues ==
  /\ thread = "callback"
  /\ heap[objects[Msg].mBuffer] \notin Junk
  /\ \E block \in Free, i \in 1 .. MaxQueued :
       LET moved == MoveAssign(New(block), objects[Msg])
       IN  /\ Event(i) \notin DOMAIN objects
           /\ objects' = With(With(objects, Event(i), moved.this),
                              Msg, moved.other)
           /\ heap' = Without(With(heap, block, Zeros), moved.freed)
           /\ meant' = With(Without(meant, {Msg}), Event(i), meant[Msg])
           /\ mEvents' = Append(mEvents, i)
  /\ thread' = "read"
  /\ UNCHANGED <<ev, nextMessage>>

OnMessageIgnores ==
  /\ thread = "callback"
  /\ heap[objects[Msg].mBuffer] \in Junk
  /\ thread' = "read"
  /\ UNCHANGED <<heap, objects, meant, mEvents, ev, nextMessage>>

(* The message, moved from or not, goes with the round of the loop.        *)
ReadEnds ==
  /\ thread = "read"
  /\ thread' = "recv"
  /\ Destroy({Msg})
  /\ UNCHANGED <<mEvents, ev, nextMessage>>

(* Tick pops an event, and its handler sends a reply.  Only a reply that   *)
(* was sent is moved into messages, and only if its id is not there yet.   *)
HandlerReplies ==
  /\ thread = "recv"
  /\ mEvents # <<>>
  /\ \E block \in Free, contents \in Contents,
        size \in 0 .. kNetworkBufferSize, sent \in BOOLEAN :
       LET built == SetOffset(New(block), size)
           moved == MoveConstruct(built)
           kept == Kept(nextMessage)
       IN  /\ heap' = With(heap, block, contents)
           /\ IF sent /\ kept \notin DOMAIN objects
              THEN /\ objects' = With(With(objects, kept, moved.this),
                                      Local, moved.other)
                   /\ meant' = With(meant, kept, contents)
              ELSE /\ objects' = With(objects, Local, built)
                   /\ meant' = With(meant, Local, contents)
  /\ nextMessage' = (nextMessage + 1) % MsgSpace
  /\ ev' = Head(mEvents)
  /\ mEvents' = Tail(mEvents)
  /\ thread' = "handled"

(* The handlers that have nothing to reply, or no one to reply to.         *)
HandlerIgnores ==
  /\ thread = "recv"
  /\ mEvents # <<>>
  /\ ev' = Head(mEvents)
  /\ mEvents' = Tail(mEvents)
  /\ thread' = "handled"
  /\ UNCHANGED <<heap, objects, meant, nextMessage>>

(* The handler's local, moved from or not, and the event go.               *)
HandlerReturns ==
  /\ thread = "handled"
  /\ thread' = "recv"
  /\ Destroy({Local, Event(ev)} \cap DOMAIN objects)
  /\ UNCHANGED <<mEvents, ev, nextMessage>>

BuffersNext ==
  \/ Reads
  \/ OnMessageQueues
  \/ OnMessageIgnores
  \/ ReadEnds
  \/ HandlerReplies
  \/ HandlerIgnores
  \/ HandlerReturns

-----------------------------------------------------------------------------
(* Properties.                                                             *)

NetworkBuffer ==
  [mBuffer : Block \cup {NoBlock}, mSize : {0, kNetworkBufferSize},
   mOffset : 0 .. kNetworkBufferSize]

BuffersTypeOK ==
  /\ thread \in {"recv", "callback", "read", "handled"}
  /\ DOMAIN heap \subseteq Block
  /\ \A b \in DOMAIN heap : heap[b] \in Contents \cup {Zeros}
  /\ \A o \in DOMAIN objects : objects[o] \in NetworkBuffer
  /\ DOMAIN meant \subseteq DOMAIN objects
  /\ mEvents \in Seq(1 .. MaxQueued)
  /\ ev \in 0 .. MaxQueued
  /\ nextMessage \in 0 .. MsgSpace - 1

(* No block has two owners, and none that has an owner has been freed:     *)
(* what is moved leaves the buffer it was in.                              *)
OneOwner ==
  \A o \in DOMAIN objects :
    /\ Owns(objects[o]) \subseteq DOMAIN heap
    /\ \A p \in DOMAIN objects :
         Owns(objects[o]) \cap Owns(objects[p]) # {} => o = p

(* Between two datagrams or events, every block that is allocated belongs  *)
(* to a queued event or to a reply that is kept to be sent again, and the  *)
(* queued events are there: whether a datagram was junk, a send failed, or *)
(* an id was taken, nothing leaks and nothing goes too early.              *)
Queued == {Event(mEvents[k]) : k \in DOMAIN mEvents}
Resendable == {Kept(id) : id \in 0 .. MsgSpace - 1}

NothingLeaks ==
  thread = "recv" =>
    /\ Queued \subseteq DOMAIN objects
    /\ DOMAIN objects \subseteq Queued \cup Resendable
    /\ DOMAIN heap = UNION {Owns(objects[o]) : o \in DOMAIN objects}

(* A buffer that was moved from says that it is empty, as the code that    *)
(* makes a Span of Data and Size or Capacity needs it to.                  *)
BuffersFit ==
  \A o \in DOMAIN objects :
    /\ objects[o].mBuffer = NoBlock <=> objects[o].mSize = 0
    /\ objects[o].mOffset <= objects[o].mSize

(* An event has the bytes of the datagram it was made of until it has been *)
(* handled, and a kept reply the bytes that were sent first under its id,  *)
(* whatever blocks are freed and given out again meanwhile.                *)
ContentsStay ==
  \A o \in DOMAIN meant :
    /\ Owns(objects[o]) \subseteq DOMAIN heap
    /\ objects[o].mBuffer # NoBlock
    /\ heap[objects[o].mBuffer] = meant[o]

=============================================================================
