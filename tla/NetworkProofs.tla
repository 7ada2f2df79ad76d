---------------------------- MODULE NetworkProofs ----------------------------
(***************************************************************************)
(* Blocks and sockets have one owner each and none is lost, for any number *)
(* of them, any size of a buffer and any order of calls.                   *)
(***************************************************************************)
EXTENDS Network, TLAPS

-----------------------------------------------------------------------------
(* The names of objects.                                                   *)
LEMMA NamesDiffer ==
  ASSUME NEW i, NEW j
  PROVE  /\ Msg # Local /\ Msg # Event(i) /\ Msg # Kept(i)
         /\ Local # Event(i) /\ Local # Kept(i)
         /\ Event(i) # Kept(j)
         /\ Event(i) = Event(j) => i = j
BY DEF Msg, Local, Event, Kept

-----------------------------------------------------------------------------
(* What holds of blocks, buffers and contents h, os and m at every moment: *)
(* the ownership properties, and that no block is without an owner.        *)
Sound(h, os, m) ==
  /\ DOMAIN h \subseteq Block
  /\ \A b \in DOMAIN h : h[b] \in Contents \cup {Zeros}
  /\ \A o \in DOMAIN os :
       /\ os[o] \in NetworkBuffer
       /\ Owns(os[o]) \subseteq DOMAIN h
       /\ os[o].mBuffer = NoBlock <=> os[o].mSize = 0
       /\ os[o].mOffset <= os[o].mSize
  /\ \A o, p \in DOMAIN os :
       os[o].mBuffer = os[p].mBuffer => o = p \/ os[o].mBuffer = NoBlock
  /\ \A b \in DOMAIN h : \E o \in DOMAIN os : os[o].mBuffer = b
  /\ DOMAIN m \subseteq DOMAIN os
  /\ \A o \in DOMAIN m :
       os[o].mBuffer # NoBlock /\ h[os[o].mBuffer] = m[o]

(* A new buffer has a block of its own.                                    *)
LEMMA AllocKeeps ==
  ASSUME NEW h, NEW os, NEW m, Sound(h, os, m),
         NEW block \in Block \ DOMAIN h, NEW contents \in Contents,
         NEW n \in 0 .. kNetworkBufferSize, NEW o, o \notin DOMAIN os
  PROVE  Sound(With(h, block, contents), With(os, o, SetOffset(New(block), n)),
               With(m, o, contents))
<1> DEFINE buffer == SetOffset(New(block), n)
           hh == With(h, block, contents)
           oo == With(os, o, buffer)
           mm == With(m, o, contents)
<1>1. buffer = [mBuffer |-> block, mSize |-> kNetworkBufferSize, mOffset |-> n]
  BY DEF SetOffset, New
<1>2. /\ buffer \in NetworkBuffer /\ buffer.mBuffer = block
      /\ buffer.mSize # 0 /\ buffer.mOffset <= buffer.mSize
      /\ block # NoBlock /\ Owns(buffer) = {block}
  BY <1>1, SizeAssumption, BlockAssumption DEF NetworkBuffer, Owns
<1> HIDE DEF buffer
<1>3. /\ DOMAIN hh = DOMAIN h \cup {block} /\ hh[block] = contents
      /\ \A b \in DOMAIN h : hh[b] = h[b]
  BY DEF With
<1>4. /\ DOMAIN oo = DOMAIN os \cup {o} /\ oo[o] = buffer
      /\ \A p \in DOMAIN os : oo[p] = os[p]
  BY DEF With
<1>5. /\ DOMAIN mm = DOMAIN m \cup {o} /\ mm[o] = contents
      /\ \A p \in DOMAIN m : mm[p] = m[p]
  BY DEF Sound, With
<1> HIDE DEF hh, oo, mm
<1>6. \A p \in DOMAIN os :
        /\ os[p].mBuffer # block
        /\ os[p].mBuffer = NoBlock \/ os[p].mBuffer \in DOMAIN h
  BY <1>2 DEF Sound, Owns
<1>7. \A p \in DOMAIN oo :
        /\ oo[p] \in NetworkBuffer
        /\ Owns(oo[p]) \subseteq DOMAIN hh
        /\ oo[p].mBuffer = NoBlock <=> oo[p].mSize = 0
        /\ oo[p].mOffset <= oo[p].mSize
  BY <1>2, <1>3, <1>4 DEF Sound
<1>8. \A p, q \in DOMAIN oo :
        oo[p].mBuffer = oo[q].mBuffer => p = q \/ oo[p].mBuffer = NoBlock
  BY <1>2, <1>4, <1>6 DEF Sound
<1>9. \A b \in DOMAIN hh : \E p \in DOMAIN oo : oo[p].mBuffer = b
  <2>1. ASSUME NEW b \in DOMAIN h PROVE \E p \in DOMAIN oo : oo[p].mBuffer = b
    BY <1>4 DEF Sound
  <2>2. QED
    BY <1>2, <1>3, <1>4, <2>1
<1>10. \A p \in DOMAIN mm :
         oo[p].mBuffer # NoBlock /\ hh[oo[p].mBuffer] = mm[p]
  <2>1. ASSUME NEW p \in DOMAIN m
        PROVE  oo[p].mBuffer # NoBlock /\ hh[oo[p].mBuffer] = mm[p]
    BY <1>3, <1>4, <1>5, <1>6 DEF Sound
  <2>2. QED
    BY <1>2, <1>3, <1>4, <1>5, <2>1
<1>11. QED
  BY <1>3, <1>4, <1>5, <1>7, <1>8, <1>9, <1>10 DEF Sound, hh, oo, mm, buffer

(* A buffer that was moved from owns nothing.                              *)
LEMMA EmptyKeeps ==
  ASSUME NEW h, NEW os, NEW m, Sound(h, os, m), NEW o, o \notin DOMAIN os
  PROVE  Sound(h, With(os, o, Empty), m)
<1> DEFINE oo == With(os, o, Empty)
<1>1. /\ DOMAIN oo = DOMAIN os \cup {o} /\ oo[o] = Empty
      /\ \A p \in DOMAIN os : oo[p] = os[p]
  BY DEF With
<1> HIDE DEF oo
<1>2. /\ Empty \in NetworkBuffer /\ Owns(Empty) = {}
      /\ Empty.mBuffer = NoBlock /\ Empty.mSize = 0 /\ Empty.mOffset = 0
  BY SizeAssumption DEF Empty, NetworkBuffer, Owns
<1>3. QED
  BY <1>1, <1>2 DEF Sound, oo

(* A block goes from one buffer to a new one with its contents.            *)
LEMMA MoveKeeps ==
  ASSUME NEW h, NEW os, NEW m, Sound(h, os, m), NEW from \in DOMAIN m,
         NEW to, to \notin DOMAIN os
  PROVE  Sound(h, With(With(os, to, os[from]), from, Empty),
               With(Without(m, {from}), to, m[from]))
<1> DEFINE oo == With(With(os, to, os[from]), from, Empty)
           mm == With(Without(m, {from}), to, m[from])
<1>1. from \in DOMAIN os /\ from # to
  BY DEF Sound
<1>2. /\ DOMAIN oo = DOMAIN os \cup {to}
      /\ oo[from] = Empty /\ oo[to] = os[from]
      /\ \A p \in DOMAIN os : p # from => oo[p] = os[p]
  BY <1>1 DEF With
<1>3. /\ DOMAIN mm = (DOMAIN m \ {from}) \cup {to}
      /\ mm[to] = m[from]
      /\ \A p \in DOMAIN m : p # from => mm[p] = m[p]
  <2>1. to \notin DOMAIN m
    BY DEF Sound
  <2>2. QED
    BY <2>1 DEF With, Without, Restrict
<1> HIDE DEF oo, mm
<1>4. /\ Empty \in NetworkBuffer /\ Owns(Empty) = {}
      /\ Empty.mBuffer = NoBlock /\ Empty.mSize = 0 /\ Empty.mOffset = 0
  BY SizeAssumption DEF Empty, NetworkBuffer, Owns
<1>5. \A p \in DOMAIN oo :
        /\ oo[p] \in NetworkBuffer
        /\ Owns(oo[p]) \subseteq DOMAIN h
        /\ oo[p].mBuffer = NoBlock <=> oo[p].mSize = 0
        /\ oo[p].mOffset <= oo[p].mSize
  BY <1>1, <1>2, <1>4 DEF Sound
<1>6. \A p, q \in DOMAIN oo :
        oo[p].mBuffer = oo[q].mBuffer => p = q \/ oo[p].mBuffer = NoBlock
  BY <1>1, <1>2, <1>4 DEF Sound
<1>7. \A b \in DOMAIN h : \E p \in DOMAIN oo : oo[p].mBuffer = b
  <2>1. ASSUME NEW b \in DOMAIN h PROVE \E p \in DOMAIN oo : oo[p].mBuffer = b
    <3>1. PICK p \in DOMAIN os : os[p].mBuffer = b
      BY DEF Sound
    <3>2. CASE p = from
      BY <1>2, <3>1, <3>2
    <3>3. CASE p # from
      BY <1>2, <3>1, <3>3
    <3>4. QED
      BY <3>2, <3>3
  <2>2. QED
    BY <2>1
<1>8. DOMAIN mm \subseteq DOMAIN oo
  BY <1>2, <1>3 DEF Sound
<1>9. \A p \in DOMAIN mm : oo[p].mBuffer # NoBlock /\ h[oo[p].mBuffer] = mm[p]
  BY <1>1, <1>2, <1>3 DEF Sound
<1>10. QED
  BY <1>5, <1>6, <1>7, <1>8, <1>9 DEF Sound, oo, mm

(* What some buffers own goes with them.                                   *)
LEMMA DestroyKeeps ==
  ASSUME NEW h, NEW os, NEW m, Sound(h, os, m), NEW gone \in SUBSET DOMAIN os
  PROVE  Sound(Without(h, UNION {Owns(os[o]) : o \in gone}),
               Without(os, gone), Without(m, gone))
<1> DEFINE freed == UNION {Owns(os[o]) : o \in gone}
           hh == Without(h, freed)
           oo == Without(os, gone)
           mm == Without(m, gone)
<1>1. /\ DOMAIN hh = DOMAIN h \ freed
      /\ \A b \in DOMAIN h \ freed : hh[b] = h[b]
  BY DEF Without, Restrict
<1>2. /\ DOMAIN oo = DOMAIN os \ gone
      /\ \A p \in DOMAIN os \ gone : oo[p] = os[p]
  BY DEF Without, Restrict
<1>3. /\ DOMAIN mm = DOMAIN m \ gone
      /\ \A p \in DOMAIN m \ gone : mm[p] = m[p]
  BY DEF Without, Restrict
<1>4. \A b : b \in freed <=> b # NoBlock /\ \E o \in gone : os[o].mBuffer = b
  BY DEF Owns
<1> HIDE DEF freed, hh, oo, mm
<1>5. \A p \in DOMAIN os \ gone : os[p].mBuffer \notin freed
  BY <1>4 DEF Sound
<1>6. \A p \in DOMAIN oo :
        /\ oo[p] \in NetworkBuffer
        /\ Owns(oo[p]) \subseteq DOMAIN hh
        /\ oo[p].mBuffer = NoBlock <=> oo[p].mSize = 0
        /\ oo[p].mOffset <= oo[p].mSize
  BY <1>1, <1>2, <1>5 DEF Sound, Owns
<1>7. \A p, q \in DOMAIN oo :
        oo[p].mBuffer = oo[q].mBuffer => p = q \/ oo[p].mBuffer = NoBlock
  BY <1>2 DEF Sound
<1>8. \A b \in DOMAIN hh : \E p \in DOMAIN oo : oo[p].mBuffer = b
  <2>1. ASSUME NEW b \in DOMAIN hh
        PROVE  \E p \in DOMAIN oo : oo[p].mBuffer = b
    <3>1. b \in DOMAIN h /\ b \notin freed /\ b # NoBlock
      BY <1>1, BlockAssumption DEF Sound
    <3>2. PICK p \in DOMAIN os : os[p].mBuffer = b
      BY <3>1 DEF Sound
    <3>3. p \notin gone
      BY <1>4, <3>1, <3>2
    <3>4. QED
      BY <1>2, <3>2, <3>3
  <2>2. QED
    BY <2>1
<1>9. DOMAIN mm \subseteq DOMAIN oo
  BY <1>2, <1>3 DEF Sound
<1>10. \A p \in DOMAIN mm : oo[p].mBuffer # NoBlock /\ hh[oo[p].mBuffer] = mm[p]
  <2>1. ASSUME NEW p \in DOMAIN mm
        PROVE  oo[p].mBuffer # NoBlock /\ hh[oo[p].mBuffer] = mm[p]
    <3>1. p \in DOMAIN m \ gone /\ p \in DOMAIN os \ gone
      BY <1>3 DEF Sound
    <3>2. /\ os[p].mBuffer # NoBlock
          /\ os[p].mBuffer \in DOMAIN h \ freed
          /\ h[os[p].mBuffer] = m[p]
      BY <1>5, <3>1 DEF Sound, Owns
    <3>3. QED
      BY <1>1, <1>2, <1>3, <3>1, <3>2
  <2>2. QED
    BY <2>1
<1>11. /\ DOMAIN hh \subseteq Block
       /\ \A b \in DOMAIN hh : hh[b] \in Contents \cup {Zeros}
  BY <1>1 DEF Sound
<1>12. QED
  BY <1>6, <1>7, <1>8, <1>9, <1>10, <1>11 DEF Sound, freed, hh, oo, mm

(* Only what a heap contains counts.                                       *)
LEMMA SameKeeps ==
  ASSUME NEW h, NEW os, NEW m, Sound(h, os, m),
         NEW g, DOMAIN g = DOMAIN h, \A b \in DOMAIN h : g[b] = h[b]
  PROVE  Sound(g, os, m)
BY DEF Sound, Owns

-----------------------------------------------------------------------------
(* The inductive invariant of the buffers: Sound, and which objects there  *)
(* are at each place the thread can be.  An event that has been popped is  *)
(* no longer queued, so that its destructor takes no other's block.        *)
Between == Queued \cup Resendable

BuffersInv ==
  /\ BuffersTypeOK
  /\ Sound(heap, objects, meant)
  /\ Queued \subseteq DOMAIN objects
  /\ \A j, k \in DOMAIN mEvents : mEvents[j] = mEvents[k] => j = k
  /\ thread = "recv" => DOMAIN objects \subseteq Between
  /\ thread = "callback" =>
       Msg \in DOMAIN meant /\ DOMAIN objects \subseteq Between \cup {Msg}
  /\ thread = "read" =>
       Msg \in DOMAIN objects /\ DOMAIN objects \subseteq Between \cup {Msg}
  /\ thread = "handled" =>
       /\ Event(ev) \notin Queued
       /\ DOMAIN objects \subseteq Between \cup {Local, Event(ev)}

(* A thread names each of its buffers in one way.                          *)
LEMMA BetweenNames ==
  /\ Msg \notin Between
  /\ Local \notin Between
  /\ \A i : Event(i) \notin Resendable
  /\ \A id \in 0 .. MsgSpace - 1 :
       Kept(id) \in Between /\ Kept(id) \notin Queued
BY NamesDiffer DEF Between, Queued, Resendable

(* No block is allocated at the start.                                     *)
LEMMA InitBuffers == BuffersInit => BuffersInv
<1> SUFFICES ASSUME BuffersInit PROVE BuffersInv
  OBVIOUS
<1> USE DEF BuffersInit
<1>1. DOMAIN heap = {} /\ DOMAIN objects = {} /\ DOMAIN meant = {}
  OBVIOUS
<1>2. Sound(heap, objects, meant)
  BY <1>1 DEF Sound
<1>3. BuffersTypeOK
  BY <1>1, SizeAssumption DEF BuffersTypeOK
<1>4. DOMAIN mEvents = {} /\ Queued = {}
  BY DEF Queued
<1>5. QED
  BY <1>1, <1>2, <1>3, <1>4 DEF BuffersInv

(* Reading fills the buffer of the datagram.                               *)
LEMMA ReadsStep == ASSUME BuffersInv, Reads PROVE BuffersInv'
<1>1. PICK block \in Free, contents \in Contents, result \in Received :
        /\ objects' = With(objects, Msg, SetOffset(New(block), result))
        /\ heap' = With(heap, block, contents)
        /\ meant' = With(meant, Msg, contents)
  BY DEF Reads
<1>2. /\ thread = "recv" /\ thread' = "callback"
      /\ UNCHANGED <<mEvents, ev, nextMessage>>
  BY DEF Reads
<1>3. Msg \notin DOMAIN objects
  BY <1>2, BetweenNames DEF BuffersInv
<1>4. Sound(heap, objects, meant)'
  BY <1>1, <1>3, AllocKeeps DEF BuffersInv, Free, Received
<1>5. BuffersTypeOK'
  BY <1>2, <1>4 DEF BuffersInv, BuffersTypeOK, Sound
<1>6. Queued' = Queued /\ Between' = Between
  BY <1>2 DEF Queued, Between, Resendable
<1>7. DOMAIN objects' = DOMAIN objects \cup {Msg} /\ Msg \in DOMAIN meant'
  BY <1>1 DEF With
<1>8. QED
  BY <1>2, <1>4, <1>5, <1>6, <1>7 DEF BuffersInv

(* OnMessage moves what was read into an event, or drops it.               *)
LEMMA OnMessageQueuesStep ==
  ASSUME BuffersInv, OnMessageQueues PROVE BuffersInv'
<1>1. PICK block \in Free, i \in 1 .. MaxQueued :
        LET moved == MoveAssign(New(block), objects[Msg])
        IN  /\ Event(i) \notin DOMAIN objects
            /\ objects' = With(With(objects, Event(i), moved.this),
                               Msg, moved.other)
            /\ heap' = Without(With(heap, block, Zeros), moved.freed)
            /\ meant' = With(Without(meant, {Msg}), Event(i), meant[Msg])
            /\ mEvents' = Append(mEvents, i)
  BY DEF OnMessageQueues
<1>2. /\ thread = "callback" /\ thread' = "read"
      /\ UNCHANGED <<ev, nextMessage>>
  BY DEF OnMessageQueues
<1>3. /\ Msg \in DOMAIN meant /\ Msg \in DOMAIN objects
      /\ objects[Msg].mBuffer \in DOMAIN heap
  BY <1>2 DEF BuffersInv, Sound, Owns
<1>4. block \notin DOMAIN heap /\ block # NoBlock
  BY BlockAssumption DEF Free
<1>5. MoveAssign(New(block), objects[Msg]) =
        [this |-> objects[Msg], other |-> Empty, freed |-> {block}]
  BY <1>3, <1>4 DEF MoveAssign, New, Owns
<1>6. /\ Event(i) \notin DOMAIN objects
      /\ objects' = With(With(objects, Event(i), objects[Msg]), Msg, Empty)
      /\ heap' = Without(With(heap, block, Zeros), {block})
      /\ meant' = With(Without(meant, {Msg}), Event(i), meant[Msg])
      /\ mEvents' = Append(mEvents, i)
  BY <1>1, <1>5
<1>7. DOMAIN heap' = DOMAIN heap /\ \A b \in DOMAIN heap : heap'[b] = heap[b]
  BY <1>4, <1>6 DEF With, Without, Restrict
<1>8. Sound(heap, objects', meant')
  BY <1>3, <1>6, MoveKeeps DEF BuffersInv
<1>9. Sound(heap, objects, meant)'
  BY <1>7, <1>8, SameKeeps
<1>10. /\ mEvents \in Seq(1 .. MaxQueued)
       /\ mEvents' \in Seq(1 .. MaxQueued)
       /\ DOMAIN mEvents' = DOMAIN mEvents \cup {Len(mEvents) + 1}
       /\ mEvents'[Len(mEvents) + 1] = i
       /\ \A k \in DOMAIN mEvents : mEvents'[k] = mEvents[k]
  BY <1>6 DEF BuffersInv, BuffersTypeOK
<1>11. BuffersTypeOK'
  BY <1>2, <1>9, <1>10 DEF BuffersInv, BuffersTypeOK, Sound
<1>12. Queued' = Queued \cup {Event(i)}
  BY <1>10 DEF Queued
<1>13. Between' = Between \cup {Event(i)}
  BY <1>12 DEF Between, Resendable
<1>14. DOMAIN objects' = DOMAIN objects \cup {Event(i)}
  BY <1>3, <1>6 DEF With
<1>15. \A k \in DOMAIN mEvents : mEvents[k] # i
  BY <1>6 DEF BuffersInv, Queued
<1>16. \A j, k \in DOMAIN mEvents' : mEvents'[j] = mEvents'[k] => j = k
  BY <1>10, <1>15 DEF BuffersInv
<1>17. QED
  BY <1>2, <1>3, <1>9, <1>11, <1>12, <1>13, <1>14, <1>16 DEF BuffersInv

(* The objects of gone are destroyed, and nothing is queued or taken off.  *)
LEMMA DestroyStep ==
  ASSUME BuffersInv, NEW gone \in SUBSET DOMAIN objects, Destroy(gone),
         UNCHANGED <<mEvents, ev, nextMessage>>, thread' = "recv",
         gone \cap Queued = {}, DOMAIN objects \ gone \subseteq Between
  PROVE  BuffersInv'
<1>1. Sound(heap, objects, meant)'
  BY DestroyKeeps DEF BuffersInv, Destroy
<1>2. BuffersTypeOK'
  BY <1>1 DEF BuffersInv, BuffersTypeOK, Sound
<1>3. Queued' = Queued /\ Between' = Between
  BY DEF Queued, Between, Resendable
<1>4. DOMAIN objects' = DOMAIN objects \ gone
  BY DEF Destroy, Without, Restrict
<1>5. QED
  BY <1>1, <1>2, <1>3, <1>4 DEF BuffersInv

(* Popping an event leaves the others in the queue.                        *)
LEMMA PopStep ==
  ASSUME BuffersInv, mEvents # <<>>, ev' = Head(mEvents),
         mEvents' = Tail(mEvents)
  PROVE  /\ ev' \in 0 .. MaxQueued
         /\ mEvents' \in Seq(1 .. MaxQueued)
         /\ \A j, k \in DOMAIN mEvents' : mEvents'[j] = mEvents'[k] => j = k
         /\ Queued = Queued' \cup {Event(ev')}
         /\ Event(ev') \notin Queued'
<1>1. mEvents \in Seq(1 .. MaxQueued)
  BY DEF BuffersInv, BuffersTypeOK
<1>2. /\ ev' = mEvents[1] /\ 1 \in DOMAIN mEvents
      /\ mEvents' \in Seq(1 .. MaxQueued)
      /\ DOMAIN mEvents' = 1 .. Len(mEvents) - 1
      /\ DOMAIN mEvents = 1 .. Len(mEvents) /\ Len(mEvents) \in Nat
      /\ \A k \in DOMAIN mEvents' : mEvents'[k] = mEvents[k + 1]
  BY <1>1
<1>3. ev' \in 1 .. MaxQueued
  <2> DEFINE Number == 1 .. MaxQueued
  <2>1. mEvents \in Seq(Number)
    BY <1>1
  <2> HIDE DEF Number
  <2>2. Head(mEvents) \in Number
    BY <2>1
  <2>3. QED
    BY <2>2 DEF Number
<1>4. \A j, k \in DOMAIN mEvents : mEvents[j] = mEvents[k] => j = k
  BY DEF BuffersInv
<1>5. \A j, k \in DOMAIN mEvents' : mEvents'[j] = mEvents'[k] => j = k
  BY <1>2, <1>4
<1>6. \A k \in DOMAIN mEvents' : mEvents'[k] # ev'
  BY <1>2, <1>4
<1>7. Queued \subseteq Queued' \cup {Event(ev')}
  <2>1. ASSUME NEW k \in DOMAIN mEvents, k # 1
        PROVE  Event(mEvents[k]) \in Queued'
    <3>1. k - 1 \in DOMAIN mEvents' /\ mEvents'[k - 1] = mEvents[k]
      BY <1>2, <2>1
    <3>2. QED
      BY <3>1 DEF Queued
  <2>2. QED
    BY <1>2, <2>1 DEF Queued
<1>8. Queued' \cup {Event(ev')} \subseteq Queued
  <2>1. ASSUME NEW k \in DOMAIN mEvents'
        PROVE  Event(mEvents'[k]) \in Queued
    <3>1. k + 1 \in DOMAIN mEvents /\ mEvents'[k] = mEvents[k + 1]
      BY <1>2, <2>1
    <3>2. QED
      BY <3>1 DEF Queued
  <2>2. QED
    BY <1>2, <2>1 DEF Queued
<1>9. Event(ev') \notin Queued'
  BY <1>6, NamesDiffer DEF Queued
<1>10. QED
  BY <1>2, <1>3, <1>5, <1>7, <1>8, <1>9

(* The reply is kept to be sent again, or dropped for an older one.        *)
LEMMA HandlerRepliesStep ==
  ASSUME BuffersInv, HandlerReplies PROVE BuffersInv'
<1> DEFINE kept == Kept(nextMessage)
<1>1. PICK block \in Free, contents \in Contents,
           size \in 0 .. kNetworkBufferSize, sent \in BOOLEAN :
        LET built == SetOffset(New(block), size)
        IN  /\ heap' = With(heap, block, contents)
            /\ IF sent /\ kept \notin DOMAIN objects
               THEN /\ objects' = With(With(objects, kept, built), Local, Empty)
                    /\ meant' = With(meant, kept, contents)
               ELSE /\ objects' = With(objects, Local, built)
                    /\ meant' = With(meant, Local, contents)
  BY DEF HandlerReplies, MoveConstruct
<1>2. /\ thread = "recv" /\ thread' = "handled" /\ mEvents # <<>>
      /\ ev' = Head(mEvents) /\ mEvents' = Tail(mEvents)
      /\ nextMessage' = (nextMessage + 1) % MsgSpace
  BY DEF HandlerReplies
<1>3. nextMessage \in 0 .. MsgSpace - 1 /\ nextMessage' \in 0 .. MsgSpace - 1
  BY <1>2, SizeAssumption DEF BuffersInv, BuffersTypeOK
<1>4. Local \notin DOMAIN objects /\ kept \in Between /\ kept \in Resendable
  BY <1>2, <1>3, BetweenNames DEF BuffersInv, Resendable
<1> HIDE DEF kept
<1> DEFINE built == SetOffset(New(block), size)
<1>5. block \in Block \ DOMAIN heap
  BY DEF Free
<1>6. /\ Sound(heap, objects, meant)'
      /\ DOMAIN objects \subseteq DOMAIN objects'
      /\ DOMAIN objects' \subseteq DOMAIN objects \cup {Local, kept}
  <2>1. CASE sent /\ kept \notin DOMAIN objects
    <3> DEFINE oo == With(objects, kept, built)
    <3>1. Sound(heap', oo, meant')
      BY <1>1, <1>5, <2>1, AllocKeeps DEF BuffersInv
    <3>2. DOMAIN oo = DOMAIN objects \cup {kept} /\ Local # kept
      BY NamesDiffer DEF With, kept
    <3>3. objects' = With(oo, Local, Empty)
      BY <1>1, <2>1
    <3> HIDE DEF oo
    <3>4. Sound(heap, objects, meant)'
      BY <1>4, <3>1, <3>2, <3>3, EmptyKeeps
    <3>5. DOMAIN objects' = DOMAIN oo \cup {Local}
      BY <3>3 DEF With
    <3>6. QED
      BY <3>2, <3>4, <3>5
  <2>2. CASE ~ (sent /\ kept \notin DOMAIN objects)
    <3>1. /\ heap' = With(heap, block, contents)
          /\ objects' = With(objects, Local, built)
          /\ meant' = With(meant, Local, contents)
      BY <1>1, <2>2
    <3>2. Sound(heap, objects, meant)'
      BY <1>4, <1>5, <3>1, AllocKeeps DEF BuffersInv
    <3>3. DOMAIN objects' = DOMAIN objects \cup {Local}
      BY <3>1 DEF With
    <3>4. QED
      BY <3>2, <3>3
  <2>3. QED
    BY <2>1, <2>2
<1>7. /\ ev' \in 0 .. MaxQueued
      /\ mEvents' \in Seq(1 .. MaxQueued)
      /\ \A j, k \in DOMAIN mEvents' : mEvents'[j] = mEvents'[k] => j = k
      /\ Queued = Queued' \cup {Event(ev')}
      /\ Event(ev') \notin Queued'
  BY <1>2, PopStep
<1>8. BuffersTypeOK'
  BY <1>2, <1>3, <1>6, <1>7 DEF BuffersTypeOK, Sound
<1>9. /\ DOMAIN objects \subseteq Queued' \cup {Event(ev')} \cup Resendable
      /\ Between' = Queued' \cup Resendable
  BY <1>2, <1>7 DEF BuffersInv, Between, Resendable
<1>10. QED
  BY <1>2, <1>4, <1>6, <1>7, <1>8, <1>9 DEF BuffersInv

(* A handler that does not reply leaves all buffers alone.                 *)
LEMMA HandlerIgnoresStep ==
  ASSUME BuffersInv, HandlerIgnores PROVE BuffersInv'
<1>1. /\ thread = "recv" /\ thread' = "handled" /\ mEvents # <<>>
      /\ ev' = Head(mEvents) /\ mEvents' = Tail(mEvents)
      /\ UNCHANGED <<heap, objects, meant, nextMessage>>
  BY DEF HandlerIgnores
<1>2. /\ ev' \in 0 .. MaxQueued
      /\ mEvents' \in Seq(1 .. MaxQueued)
      /\ \A j, k \in DOMAIN mEvents' : mEvents'[j] = mEvents'[k] => j = k
      /\ Queued = Queued' \cup {Event(ev')}
      /\ Event(ev') \notin Queued'
  BY <1>1, PopStep
<1>3. Sound(heap, objects, meant)'
  BY <1>1 DEF BuffersInv
<1>4. BuffersTypeOK'
  BY <1>1, <1>2, <1>3 DEF BuffersInv, BuffersTypeOK, Sound
<1>5. /\ DOMAIN objects \subseteq Queued' \cup {Event(ev')} \cup Resendable
      /\ Between' = Queued' \cup Resendable
  BY <1>1, <1>2 DEF BuffersInv, Between, Resendable
<1>6. QED
  BY <1>1, <1>2, <1>3, <1>4, <1>5 DEF BuffersInv

(* Every step of the buffers keeps their invariant.                        *)
LEMMA BuffersStep ==
  ASSUME BuffersInv, BuffersNext PROVE BuffersInv'
<1>1. CASE OnMessageIgnores
  <2>1. /\ thread = "callback" /\ thread' = "read"
        /\ UNCHANGED <<heap, objects, meant, mEvents, ev, nextMessage>>
    BY <1>1 DEF OnMessageIgnores
  <2>2. Queued' = Queued /\ Between' = Between
    BY <2>1 DEF Queued, Between, Resendable
  <2>3. Msg \in DOMAIN objects
    BY <2>1 DEF BuffersInv, Sound
  <2>4. BuffersTypeOK'
    BY <2>1 DEF BuffersInv, BuffersTypeOK
  <2>5. QED
    BY <2>1, <2>2, <2>3, <2>4 DEF BuffersInv
<1>2. CASE ReadEnds
  <2>1. /\ thread = "read" /\ thread' = "recv" /\ Destroy({Msg})
        /\ UNCHANGED <<mEvents, ev, nextMessage>>
    BY <1>2 DEF ReadEnds
  <2>2. /\ {Msg} \in SUBSET DOMAIN objects
        /\ {Msg} \cap Queued = {}
        /\ DOMAIN objects \ {Msg} \subseteq Between
    BY <2>1, BetweenNames DEF BuffersInv, Between
  <2>3. QED
    BY <2>1, <2>2, DestroyStep
<1>3. CASE HandlerReturns
  <2> DEFINE gone == {Local, Event(ev)} \cap DOMAIN objects
  <2>1. /\ thread = "handled" /\ thread' = "recv" /\ Destroy(gone)
        /\ UNCHANGED <<mEvents, ev, nextMessage>>
    BY <1>3 DEF HandlerReturns
  <2>2. /\ gone \in SUBSET DOMAIN objects
        /\ gone \cap Queued = {}
        /\ DOMAIN objects \ gone \subseteq Between
    BY <2>1, BetweenNames DEF BuffersInv, Between
  <2> HIDE DEF gone
  <2>3. QED
    BY <2>1, <2>2, DestroyStep
<1>4. QED
  BY <1>1, <1>2, <1>3, ReadsStep, OnMessageQueuesStep, HandlerRepliesStep,
     HandlerIgnoresStep DEF BuffersNext

-----------------------------------------------------------------------------
(* The sockets.                                                            *)

(* What SocketsAreOwned says of five holders, one by one.                  *)
Distinct(a, b) == a = b => a = kInvalidSocket

OwnedBy(f, a, b, c, d, e) ==
  /\ DOMAIN f = {a, b, c, d, e} \ {kInvalidSocket}
  /\ Distinct(a, b) /\ Distinct(a, c) /\ Distinct(a, d) /\ Distinct(a, e)
  /\ Distinct(b, c) /\ Distinct(b, d) /\ Distinct(b, e)
  /\ Distinct(c, d) /\ Distinct(c, e) /\ Distinct(d, e)

(* The owners of sockets, compared two by two.                             *)
LEMMA OwnedOneByOne ==
  ASSUME NEW f, NEW a, NEW b, NEW c, NEW d, NEW e
  PROVE  OwnedBy(f, a, b, c, d, e) <=>
           LET H == <<a, b, c, d, e>>
           IN  /\ DOMAIN f = {H[k] : k \in 1 .. 5} \ {kInvalidSocket}
               /\ \A j, k \in 1 .. 5 :
                    H[j] = H[k] => j = k \/ H[j] = kInvalidSocket
<1> DEFINE H == <<a, b, c, d, e>>
<1>1. H[1] = a /\ H[2] = b /\ H[3] = c /\ H[4] = d /\ H[5] = e
  OBVIOUS
<1> HIDE DEF H
<1>2. {H[k] : k \in 1 .. 5} = {a, b, c, d, e}
  BY <1>1
<1>3. ASSUME OwnedBy(f, a, b, c, d, e), NEW j \in 1 .. 5, NEW k \in 1 .. 5,
             H[j] = H[k]
      PROVE  j = k \/ H[j] = kInvalidSocket
  BY <1>1, <1>3 DEF OwnedBy, Distinct
<1>4. ASSUME \A j, k \in 1 .. 5 :
               H[j] = H[k] => j = k \/ H[j] = kInvalidSocket
      PROVE  /\ Distinct(a, b) /\ Distinct(a, c) /\ Distinct(a, d)
             /\ Distinct(a, e) /\ Distinct(b, c) /\ Distinct(b, d)
             /\ Distinct(b, e) /\ Distinct(c, d) /\ Distinct(c, e)
             /\ Distinct(d, e)
  <2>1. ASSUME NEW j \in 1 .. 5, NEW k \in 1 .. 5, j # k
        PROVE  Distinct(H[j], H[k])
    BY <1>4, <2>1 DEF Distinct
  <2>2. QED
    BY <1>1, <2>1
<1>5. QED
  BY <1>2, <1>3, <1>4 DEF OwnedBy, H

Owned == OwnedBy(open, listener, client, server, reader, writer)

(* The inductive invariant of the sockets: what CreateSocketPair has when  *)
(* it comes to each of its calls.                                          *)
PairStage ==
  /\ listener = kInvalidSocket <=> step \in 0 .. 1
  /\ client = kInvalidSocket <=> step \in 0 .. 5
  /\ server = kInvalidSocket <=> step \in 0 .. 7
  /\ step # 0 =>
       reader = kInvalidSocket /\ writer = kInvalidSocket /\ ~ draining
  /\ first \in {kInvalidSocket, Stranger, client}
  /\ step = 0 => first = kInvalidSocket
  /\ step > 6 => first # kInvalidSocket
  /\ step \in {6, 7} => open[client].peer = kInvalidSocket
  /\ step > 7 => Joined(client, server)
  /\ step > 8 => open[client].nonblocking
  /\ step > 9 => open[server].nonblocking
  /\ draining => reader # kInvalidSocket

SocketsInv == SocketsTypeOK /\ Owned /\ PairIsReady /\ PairStage

(* The calls by number.                                                    *)
LEMMA CallNumbers ==
  ASSUME step \in 0 .. 10
  PROVE  /\ At("socket listener") <=> step = 1
         /\ At("bind") \/ At("listen") \/ At("getsockname")
              <=> step \in {2, 3, 4}
         /\ At("getsockname") <=> step = 4
         /\ At("socket client") <=> step = 5
         /\ At("connect") <=> step = 6
         /\ At("accept") <=> step = 7
         /\ At("SetNonBlocking client") <=> step = 8
         /\ At("SetNonBlocking server") <=> step = 9
         /\ At("hand out") <=> step = 10
<1>1. /\ Calls[1] = "socket listener" /\ Calls[2] = "bind"
      /\ Calls[3] = "listen" /\ Calls[4] = "getsockname"
      /\ Calls[5] = "socket client" /\ Calls[6] = "connect"
      /\ Calls[7] = "accept" /\ Calls[8] = "SetNonBlocking client"
      /\ Calls[9] = "SetNonBlocking server" /\ Calls[10] = "hand out"
  BY DEF Calls
<1>2. step \in {0, 1, 2, 3, 4, 5, 6, 7, 8, 9, 10}
  OBVIOUS
<1>3. At("socket listener") <=> step = 1
  BY <1>1, <1>2 DEF At
<1>4. At("bind") <=> step = 2
  BY <1>1, <1>2 DEF At
<1>5. At("listen") <=> step = 3
  BY <1>1, <1>2 DEF At
<1>6. At("getsockname") <=> step = 4
  BY <1>1, <1>2 DEF At
<1>7. At("socket client") <=> step = 5
  BY <1>1, <1>2 DEF At
<1>8. At("connect") <=> step = 6
  BY <1>1, <1>2 DEF At
<1>9. At("accept") <=> step = 7
  BY <1>1, <1>2 DEF At
<1>10. At("SetNonBlocking client") <=> step = 8
  BY <1>1, <1>2 DEF At
<1>11. At("SetNonBlocking server") <=> step = 9
  BY <1>1, <1>2 DEF At
<1>12. At("hand out") <=> step = 10
  <2>1. ASSUME step = 10 PROVE At("hand out")
    <3>1. Calls[step] = "hand out"
      BY <1>1, <2>1
    <3>2. step # 0
      BY <2>1
    <3>3. QED
      BY <3>1, <3>2 DEF At
  <2>2. ASSUME step # 10 PROVE ~ At("hand out")
    BY <1>1, <1>2, <2>2 DEF At
  <2>3. QED
    BY <2>1, <2>2
<1>13. QED
  BY <1>3, <1>4, <1>5, <1>6, <1>7, <1>8, <1>9, <1>10, <1>11, <1>12

(* No socket is open at the start.                                         *)
LEMMA InitSockets == SocketsInit => SocketsInv
<1> SUFFICES ASSUME SocketsInit PROVE SocketsInv
  OBVIOUS
<1> USE DEF SocketsInit
<1>1. DOMAIN open = {} /\ step = 0
  OBVIOUS
<1>2. draining \in BOOLEAN /\ ~ draining
  OBVIOUS
<1>3. pending \in 0 .. MaxPending
  BY PendingAssumption
<1>4. SocketsTypeOK
  BY <1>1, <1>2, <1>3 DEF SocketsTypeOK, Peer
<1>5. Owned /\ PairIsReady
  BY <1>1 DEF Owned, OwnedBy, Distinct, PairIsReady
<1>6. PairStage
  BY <1>1, <1>2 DEF PairStage
<1>7. QED
  BY <1>4, <1>5, <1>6 DEF SocketsInv

(* What closing does to the table of sockets.                              *)
LEMMA ClosedFacts ==
  ASSUME SocketsTypeOK, NEW sockets
  PROVE  /\ DOMAIN Closed(sockets) = DOMAIN open \ sockets
         /\ \A h \in DOMAIN open \ sockets :
              /\ Closed(sockets)[h] \in SocketState
              /\ Closed(sockets)[h].nonblocking = open[h].nonblocking
              /\ open[h].peer \notin sockets =>
                   Closed(sockets)[h].peer = open[h].peer
<1>1. DOMAIN Closed(sockets) = DOMAIN open \ sockets
  BY DEF Closed
<1>2. ASSUME NEW h \in DOMAIN open \ sockets
      PROVE  /\ Closed(sockets)[h] \in SocketState
             /\ Closed(sockets)[h].nonblocking = open[h].nonblocking
             /\ open[h].peer \notin sockets =>
                  Closed(sockets)[h].peer = open[h].peer
  <2>1. open[h] \in SocketState
    BY DEF SocketsTypeOK
  <2>2. PICK b \in BOOLEAN, p \in Peer :
          open[h] = [nonblocking |-> b, peer |-> p]
    BY <2>1 DEF SocketState
  <2>3. \/ Closed(sockets)[h] = open[h]
        \/ /\ open[h].peer \in sockets
           /\ Closed(sockets)[h] = [open[h] EXCEPT !.peer = kInvalidSocket]
    BY DEF Closed
  <2>4. \/ Closed(sockets)[h] = open[h]
        \/ /\ open[h].peer \in sockets
           /\ Closed(sockets)[h] = [nonblocking |-> b, peer |-> kInvalidSocket]
    BY <2>2, <2>3
  <2>5. QED
    BY <2>1, <2>2, <2>4 DEF SocketState, Peer
<1>3. QED
  BY <1>1, <1>2

(* The calls that open a listener and a socket to connect.                 *)
LEMMA PairOpensStep ==
  ASSUME SocketsInv, PairOpensListener \/ PairOpensClient
  PROVE  SocketsInv'
<1> USE DEF SocketsInv
<1>1. step \in {1, 5}
  BY CallNumbers DEF PairOpensListener, PairOpensClient, SocketsTypeOK
<1>2. PICK h \in Handle \ DOMAIN open :
        /\ open' = Opened(h, kInvalidSocket)
        /\ \/ step = 1 /\ listener' = h /\ client' = client
           \/ step = 5 /\ client' = h /\ listener' = listener
        /\ step' = step + 1
        /\ UNCHANGED <<server, first, reader, writer, pending, draining>>
  BY CallNumbers DEF PairOpensListener, PairOpensClient, SocketsTypeOK
<1>3. h # kInvalidSocket /\ kInvalidSocket \notin DOMAIN open
  BY HandleAssumption DEF SocketsTypeOK
<1>4. /\ DOMAIN open' = DOMAIN open \cup {h}
      /\ open'[h] = [nonblocking |-> FALSE, peer |-> kInvalidSocket]
      /\ \A g \in DOMAIN open : open'[g] = open[g]
  BY <1>2, <1>3 DEF Opened
<1>5. SocketsTypeOK'
  <2>1. step' \in 0 .. 10
    BY <1>1, <1>2
  <2>2. open'[h] \in SocketState
    BY <1>4 DEF SocketState, Peer
  <2>3. QED
    BY <1>2, <1>4, <2>1, <2>2 DEF SocketsTypeOK
<1>6. Owned'
  BY <1>1, <1>2, <1>3, <1>4 DEF Owned, OwnedBy, Distinct, PairStage
<1>7. PairIsReady' /\ PairStage'
  BY <1>1, <1>2, <1>3, <1>4 DEF PairIsReady, PairStage, Joined
<1>8. QED
  BY <1>5, <1>6, <1>7

(* The accepted socket is the peer of the one that connected, or of a      *)
(* stranger.                                                               *)
LEMMA PairAcceptsStep ==
  ASSUME SocketsInv, PairAccepts
  PROVE  SocketsInv'
<1> USE DEF SocketsInv
<1>1. step = 7
  BY CallNumbers DEF PairAccepts, SocketsTypeOK
<1>2. PICK h \in Handle \ DOMAIN open :
        /\ server' = h /\ open' = Opened(h, first) /\ step' = 8
        /\ UNCHANGED <<listener, client, first, reader, writer, pending,
                       draining>>
  BY <1>1 DEF PairAccepts
<1>3. /\ h # kInvalidSocket /\ client # kInvalidSocket
      /\ client \in DOMAIN open
      /\ first \in {Stranger, client}
      /\ Stranger \notin DOMAIN open \cup {h}
  BY <1>1, HandleAssumption DEF Owned, OwnedBy, PairStage, SocketsTypeOK
<1>4. /\ DOMAIN open' = DOMAIN open \cup {h}
      /\ open'[h] = [nonblocking |-> FALSE, peer |-> first]
      /\ open'[client] = IF first = client
                         THEN [open[client] EXCEPT !.peer = h]
                         ELSE open[client]
      /\ \A g \in DOMAIN open : g # client => open'[g] = open[g]
  BY <1>2, <1>3 DEF Opened
<1>5. SocketsTypeOK'
  <2>1. step' \in 0 .. 10
    BY <1>2
  <2>2. open'[h] \in SocketState /\ open'[client] \in SocketState
    BY <1>2, <1>3, <1>4 DEF SocketState, SocketsTypeOK, Peer
  <2>3. QED
    BY <1>2, <1>4, <2>1, <2>2 DEF SocketsTypeOK
<1>6. Owned'
  BY <1>1, <1>2, <1>3, <1>4 DEF Owned, OwnedBy, Distinct, PairStage
<1>7. Joined(client, server)'
  <2>1. CASE first = client
    <3>1. open[client] \in SocketState
      BY <1>3 DEF SocketsTypeOK
    <3>2. open'[client].peer = h
      BY <1>4, <2>1, <3>1 DEF SocketState
    <3>3. QED
      BY <1>2, <1>4, <2>1, <3>2 DEF Joined
  <2>2. CASE first # client
    <3>1. open[client].peer = kInvalidSocket
      BY <1>1 DEF PairStage
    <3>2. QED
      BY <1>2, <1>3, <1>4, <2>2, <3>1 DEF Joined
  <2>3. QED
    BY <2>1, <2>2
<1>8. PairIsReady' /\ PairStage'
  BY <1>1, <1>2, <1>3, <1>7 DEF PairIsReady, PairStage
<1>9. QED
  BY <1>5, <1>6, <1>8

(* What is accepted from a stranger loses its peer.                        *)
LEMMA StrangerLeavesStep ==
  ASSUME SocketsInv, StrangerLeaves
  PROVE  SocketsInv'
<1> USE DEF SocketsInv
<1>1. PICK h \in DOMAIN open :
        /\ open[h].peer = Stranger
        /\ open' = [open EXCEPT ![h].peer = kInvalidSocket]
        /\ UNCHANGED <<step, listener, client, server, first, reader, writer,
                       pending, draining>>
  BY DEF StrangerLeaves, pairVars
<1>2. open[h] \in SocketState
  BY DEF SocketsTypeOK
<1>3. /\ open'[h] \in SocketState
      /\ open'[h].nonblocking = open[h].nonblocking
      /\ open'[h].peer = kInvalidSocket
  <2>1. open'[h] = [open[h] EXCEPT !.peer = kInvalidSocket]
    BY <1>1
  <2>2. QED
    BY <1>2, <2>1 DEF SocketState, Peer
<1>4. /\ DOMAIN open' = DOMAIN open
      /\ \A g \in DOMAIN open : g # h => open'[g] = open[g]
  BY <1>1
<1>5. SocketsTypeOK'
  BY <1>1, <1>3, <1>4 DEF SocketsTypeOK
<1>6. Owned'
  BY <1>1, <1>4 DEF Owned, OwnedBy
<1>7. ASSUME NEW a \in DOMAIN open, NEW b \in DOMAIN open, Joined(a, b)
      PROVE  \/ open'[a].peer = b /\ open'[b].peer = a
             \/ /\ open'[a].peer = kInvalidSocket
                /\ open'[b].peer \in {Stranger, kInvalidSocket}
  <2>1. DOMAIN open \subseteq Handle
    BY DEF SocketsTypeOK
  <2>2. QED
    BY <1>1, <1>3, <1>4, <1>7, <2>1, HandleAssumption DEF Joined
<1>8. PairIsReady'
  <2>1. {reader, writer} \ {kInvalidSocket} \subseteq DOMAIN open
    BY DEF Owned, OwnedBy
  <2>2. QED
    BY <1>1, <1>3, <1>4, <1>7, <2>1 DEF PairIsReady, Joined
<1>9. PairStage'
  <2>1. /\ step > 5 => client \in DOMAIN open
        /\ step > 7 => server \in DOMAIN open
    BY DEF Owned, OwnedBy, PairStage, SocketsTypeOK
  <2>2. /\ step \in {6, 7} => open'[client].peer = kInvalidSocket
        /\ step > 8 => open'[client].nonblocking
        /\ step > 9 => open'[server].nonblocking
    BY <1>1, <1>3, <1>4, <2>1 DEF PairStage, SocketsTypeOK
  <2>3. step > 7 => Joined(client, server)'
    BY <1>1, <1>7, <2>1 DEF PairStage, SocketsTypeOK, Joined
  <2>4. QED
    BY <1>1, <2>2, <2>3 DEF PairStage
<1>10. QED
  BY <1>5, <1>6, <1>8, <1>9

(* Both ends are made non-blocking, one after the other.                   *)
LEMMA PairUnblocksStep ==
  ASSUME SocketsInv, PairUnblocks
  PROVE  SocketsInv'
<1> USE DEF SocketsInv
<1>1. /\ step \in {8, 9} /\ step' = step + 1
      /\ Unblocked = IF step = 8 THEN client ELSE server
      /\ UNCHANGED <<listener, client, server, first, reader, writer,
                     pending, draining>>
  BY CallNumbers DEF PairUnblocks, Unblocked, SocketsTypeOK
<1>2. client \in DOMAIN open /\ server \in DOMAIN open /\ client # server
  BY <1>1 DEF Owned, OwnedBy, Distinct, PairStage
<1>3. /\ DOMAIN open' = DOMAIN open
      /\ open'[Unblocked].nonblocking
      /\ \A h \in DOMAIN open :
           /\ open'[h] \in SocketState
           /\ open'[h].peer = open[h].peer
           /\ h # Unblocked => open'[h] = open[h]
  <2>1. /\ open' = [open EXCEPT ![Unblocked].nonblocking = TRUE]
        /\ Unblocked \in DOMAIN open
    BY <1>1, <1>2 DEF PairUnblocks
  <2>2. \A h \in DOMAIN open : open[h] \in SocketState
    BY DEF SocketsTypeOK
  <2>3. open'[Unblocked] = [open[Unblocked] EXCEPT !.nonblocking = TRUE]
    BY <2>1
  <2>4. open[Unblocked] \in SocketState
    BY <2>1, <2>2
  <2>5. /\ open'[Unblocked] \in SocketState
        /\ open'[Unblocked].nonblocking
        /\ open'[Unblocked].peer = open[Unblocked].peer
    BY <2>3, <2>4 DEF SocketState
  <2>6. \A h \in DOMAIN open : h # Unblocked => open'[h] = open[h]
    BY <2>1
  <2>7. QED
    BY <2>1, <2>2, <2>5, <2>6
<1>4. SocketsTypeOK' /\ Owned'
  <2>1. step' \in 0 .. 10
    BY <1>1
  <2>2. /\ DOMAIN open' = DOMAIN open
        /\ \A h \in DOMAIN open : open'[h] \in SocketState
    BY <1>3
  <2>3. UNCHANGED <<listener, client, server, first, reader, writer, pending,
                    draining>>
    BY <1>1
  <2>4. DOMAIN open' \subseteq Handle
    BY <2>2 DEF SocketsTypeOK
  <2>5. SocketsTypeOK'
    <3>1. {listener, client, server, reader, writer}'
            \subseteq Handle \union {kInvalidSocket}
      BY <2>3, Zenon DEF SocketsTypeOK
    <3>2. /\ pending' \in 0 .. MaxPending /\ draining' \in BOOLEAN
          /\ first' \in Peer
      BY <2>3, Zenon DEF SocketsTypeOK
    <3>3. \A h \in DOMAIN open' : open'[h] \in SocketState
      BY <2>2
    <3>4. QED
      BY <2>1, <2>4, <3>1, <3>2, <3>3, Zenon DEF SocketsTypeOK
  <2>6. Owned'
    BY <2>2, <2>3 DEF Owned, OwnedBy
  <2>7. QED
    BY <2>5, <2>6
<1>5. PairIsReady' /\ PairStage'
  BY <1>1, <1>2, <1>3 DEF PairIsReady, PairStage, Joined
<1>6. QED
  BY <1>4, <1>5

(* The guards close the listener and hand out the two ends.                *)
LEMMA PairReturnsStep ==
  ASSUME SocketsInv, PairReturns
  PROVE  SocketsInv'
<1> USE DEF SocketsInv
<1>1. /\ step = 10 /\ step' = 0
      /\ reader' = client /\ writer' = server
      /\ open' = Closed({listener})
      /\ listener' = kInvalidSocket /\ client' = kInvalidSocket
      /\ server' = kInvalidSocket /\ first' = kInvalidSocket
      /\ UNCHANGED <<pending, draining>>
  BY CallNumbers DEF PairReturns, GuardsClose, SocketsTypeOK
<1>2. /\ client \in DOMAIN open \ {listener}
      /\ server \in DOMAIN open \ {listener}
      /\ client # kInvalidSocket /\ server # kInvalidSocket
  BY <1>1 DEF Owned, OwnedBy, Distinct, PairStage
<1>3. /\ DOMAIN open' = DOMAIN open \ {listener}
      /\ \A h \in DOMAIN open' :
           /\ open'[h] \in SocketState
           /\ open'[h].nonblocking = open[h].nonblocking
           /\ open[h].peer # listener => open'[h].peer = open[h].peer
  <2>1. open' = Closed({listener})
    BY <1>1
  <2>2. DOMAIN open' = DOMAIN open \ {listener}
    BY <2>1, ClosedFacts
  <2>3. ASSUME NEW h \in DOMAIN open \ {listener}
        PROVE  /\ open'[h] \in SocketState
               /\ open'[h].nonblocking = open[h].nonblocking
               /\ open[h].peer # listener => open'[h].peer = open[h].peer
    BY <2>1, ClosedFacts
  <2>4. QED
    BY <2>2, <2>3
<1>4. SocketsTypeOK'
  <2>1. step' \in 0 .. 10
    BY <1>1
  <2>2. /\ DOMAIN open' \subseteq DOMAIN open
        /\ \A h \in DOMAIN open' : open'[h] \in SocketState
    BY <1>3
  <2>3. QED
    BY <1>1, <2>1, <2>2 DEF SocketsTypeOK, Peer
<1>5. Owned'
  <2>1. /\ listener # kInvalidSocket
        /\ reader = kInvalidSocket /\ writer = kInvalidSocket
    BY <1>1 DEF PairStage
  <2>2. QED
    BY <1>1, <1>3, <2>1 DEF Owned, OwnedBy, Distinct
<1>6. PairIsReady'
  <2>1. /\ Joined(client, server)
        /\ open[client].nonblocking /\ open[server].nonblocking
    BY <1>1 DEF PairStage
  <2>2. listener \notin {client, server, kInvalidSocket, Stranger}
    BY <1>1, HandleAssumption
       DEF PairStage, Owned, OwnedBy, Distinct, SocketsTypeOK
  <2>3. /\ open[client].peer # listener /\ open[server].peer # listener
        /\ open'[client].peer = open[client].peer
        /\ open'[server].peer = open[server].peer
    BY <1>2, <1>3, <2>1, <2>2 DEF Joined
  <2>4. QED
    BY <1>1, <1>2, <1>3, <2>1, <2>3 DEF PairIsReady, Joined
<1>7. PairStage'
  BY <1>1, <1>2 DEF PairStage
<1>8. QED
  BY <1>4, <1>5, <1>6, <1>7

(* At a failure the guards close what was opened so far.                   *)
LEMMA PairFailsStep ==
  ASSUME SocketsInv, PairFails
  PROVE  SocketsInv'
<1> USE DEF SocketsInv
<1>1. /\ step # 0 /\ step' = 0
      /\ open' = Closed({listener, client, server})
      /\ listener' = kInvalidSocket /\ client' = kInvalidSocket
      /\ server' = kInvalidSocket /\ first' = kInvalidSocket
      /\ UNCHANGED <<reader, writer, pending, draining>>
  BY DEF PairFails, GuardsClose
<1>2. /\ DOMAIN open' = DOMAIN open \ {listener, client, server}
      /\ \A h \in DOMAIN open' :
           open'[h] \in SocketState
  BY <1>1 DEF Closed, SocketsTypeOK, SocketState, Peer
<1>3. SocketsTypeOK' /\ Owned'
  BY <1>1, <1>2 DEF SocketsTypeOK, Peer, Owned, OwnedBy, Distinct, PairStage
<1>4. PairIsReady' /\ PairStage'
  BY <1>1, <1>2 DEF PairIsReady, PairStage
<1>5. QED
  BY <1>3, <1>4

(* Either end is closed by its owner.                                      *)
LEMMA EndClosesStep ==
  ASSUME SocketsInv, ReaderCloses \/ WriterCloses
  PROVE  SocketsInv'
<1> USE DEF SocketsInv
<1>1. PICK h \in {reader, writer} :
        /\ h # kInvalidSocket
        /\ open' = Closed({h})
        /\ \/ h = reader /\ reader' = kInvalidSocket /\ writer' = writer
              /\ ~ draining
           \/ h = writer /\ writer' = kInvalidSocket /\ reader' = reader
        /\ pending' \in {0, pending}
        /\ UNCHANGED <<step, listener, client, server, first, draining>>
  BY DEF ReaderCloses, WriterCloses
<1>2. step = 0
  BY <1>1 DEF PairStage
<1>3. /\ DOMAIN open' = DOMAIN open \ {h}
      /\ \A g \in DOMAIN open' :
           /\ open'[g] \in SocketState
           /\ open'[g].nonblocking = open[g].nonblocking
  <2>1. open' = Closed({h})
    BY <1>1
  <2>2. SocketsTypeOK
    OBVIOUS
  <2>3. /\ DOMAIN Closed({h}) = DOMAIN open \ {h}
        /\ \A g \in DOMAIN open \ {h} :
             /\ Closed({h})[g] \in SocketState
             /\ Closed({h})[g].nonblocking = open[g].nonblocking
    BY <2>2, ClosedFacts
  <2>4. QED
    BY <2>1, <2>3
<1>4. SocketsTypeOK'
  <2>1. pending' \in 0 .. MaxPending
    BY <1>1, PendingAssumption DEF SocketsTypeOK
  <2>2. QED
    BY <1>1, <1>3, <2>1 DEF SocketsTypeOK
<1>5. Owned'
  BY <1>1, <1>2, <1>3 DEF Owned, OwnedBy, Distinct, PairStage
<1>6. PairIsReady'
  BY <1>1, <1>3, <1>5 DEF PairIsReady, Owned, OwnedBy
<1>7. PairStage'
  BY <1>1, <1>2 DEF PairStage
<1>8. QED
  BY <1>4, <1>5, <1>6, <1>7

(* Every step of the sockets keeps their invariant.                        *)
LEMMA SocketsStep ==
  ASSUME SocketsInv, SocketsNext PROVE SocketsInv'
<1>1. CASE PairBegins
  BY <1>1 DEF PairBegins, SocketsInv, SocketsTypeOK, Owned, PairIsReady,
              PairStage, Joined
<1>2. CASE PairListens \/ PairConnects \/ StrangerConnects
  <2> DEFINE Rest == <<listener, client, server, reader, writer, open,
                       pending, draining>>
             Moves == \/ /\ step \in {2, 3, 4} /\ step' = step + 1
                         /\ first' = first
                      \/ /\ step = 6 /\ step' = 7
                         /\ first' = IfNoneCame(client)
                      \/ /\ step \in {4, 5, 6} /\ step' = step
                         /\ first' = IfNoneCame(Stranger)
  <2>1. UNCHANGED Rest /\ Moves
    <3>1. step \in 0 .. 10
      BY DEF SocketsInv, SocketsTypeOK
    <3>2. CASE PairListens
      BY <3>1, <3>2, CallNumbers DEF PairListens
    <3>3. CASE PairConnects
      <4>1. step = 6
        BY <3>1, <3>3, CallNumbers DEF PairConnects
      <4>2. QED
        BY <3>3, <4>1 DEF PairConnects, IfNoneCame
    <3>4. CASE StrangerConnects
      <4>1. step \in {4, 5, 6}
        BY <3>1, <3>4, CallNumbers DEF StrangerConnects
      <4>2. QED
        BY <3>4, <4>1 DEF StrangerConnects, IfNoneCame
    <3>5. QED
      BY <1>2, <3>2, <3>3, <3>4
  <2>2. first' \in Peer /\ first' \in {kInvalidSocket, Stranger, client}
    BY <2>1 DEF IfNoneCame, SocketsInv, SocketsTypeOK, PairStage, Peer
  <2>3. step = 6 /\ step' = 7 => first' # kInvalidSocket
    BY <2>1 DEF IfNoneCame, SocketsInv, PairStage
  <2>4. QED
    BY <2>1, <2>2, <2>3
       DEF SocketsInv, SocketsTypeOK, Owned, PairIsReady, PairStage, Joined
<1>3. CASE WriterWrites \/ DrainBegins \/ DrainReads \/ DrainEnds \/ DrainFails
  <2>1. UNCHANGED <<step, listener, client, server, first, reader, writer,
                    open>>
    BY <1>3 DEF WriterWrites, DrainBegins, DrainReads, DrainEnds, DrainFails,
                pairVars
  <2>2. pending' \in 0 .. MaxPending
    BY <1>3, PendingAssumption
       DEF WriterWrites, DrainBegins, DrainReads, DrainEnds, DrainFails,
           SocketsInv, SocketsTypeOK
  <2>3. draining' \in BOOLEAN /\ (draining' => reader # kInvalidSocket)
    BY <1>3
       DEF WriterWrites, DrainBegins, DrainReads, DrainEnds, DrainFails,
           SocketsInv, SocketsTypeOK, PairStage
  <2>4. step # 0 => ~ draining'
    BY <2>3 DEF SocketsInv, PairStage
  <2>5. QED
    BY <2>1, <2>2, <2>3, <2>4
       DEF SocketsInv, SocketsTypeOK, Owned, PairIsReady, PairStage, Joined
<1>4. QED
  BY <1>1, <1>2, <1>3, PairOpensStep, PairAcceptsStep, StrangerLeavesStep,
     PairUnblocksStep, PairReturnsStep, PairFailsStep, EndClosesStep
     DEF SocketsNext

-----------------------------------------------------------------------------
(* Blocks and sockets together.                                            *)
NetworkInv == BuffersInv /\ SocketsInv

(* The buffers and the sockets keep their invariants together.             *)
LEMMA NetworkInvariant == Spec => []NetworkInv
<1>1. Init => NetworkInv
  BY InitBuffers, InitSockets DEF Init, NetworkInv
<1>2. NetworkInv /\ [Next]_vars => NetworkInv'
  <2> SUFFICES ASSUME NetworkInv, [Next]_vars PROVE NetworkInv'
    OBVIOUS
  <2>1. CASE BuffersNext /\ UNCHANGED socketVars
    <3>1. BuffersInv'
      BY <2>1, BuffersStep DEF NetworkInv
    <3>2. SocketsInv'
      BY <2>1
         DEF socketVars, pairVars, NetworkInv, SocketsInv, SocketsTypeOK,
             Owned, PairIsReady, PairStage, Joined
    <3>3. QED
      BY <3>1, <3>2 DEF NetworkInv
  <2>2. ASSUME UNCHANGED bufferVars PROVE BuffersInv'
    BY <2>2
       DEF bufferVars, NetworkInv, BuffersInv, BuffersTypeOK, Between, Queued,
           Resendable
  <2>3. CASE SocketsNext /\ UNCHANGED bufferVars
    BY <2>2, <2>3, SocketsStep DEF NetworkInv
  <2>4. CASE UNCHANGED vars
    <3>1. SocketsInv'
      BY <2>4
         DEF vars, socketVars, pairVars, NetworkInv, SocketsInv,
             SocketsTypeOK, Owned, PairIsReady, PairStage, Joined
    <3>2. QED
      BY <2>2, <2>4, <3>1 DEF NetworkInv, vars
  <2>5. QED
    BY <2>1, <2>3, <2>4 DEF Next
<1>3. QED
  BY <1>1, <1>2, PTL DEF Spec

(* The variables keep their types.                                         *)
THEOREM NetworkTypeCorrect == Spec => []TypeOK
<1>1. NetworkInv => TypeOK
  BY DEF NetworkInv, BuffersInv, SocketsInv, TypeOK
<1>2. QED
  BY <1>1, NetworkInvariant, PTL

(* The moves of NetworkBuffer leave each block with one owner.             *)
THEOREM BlocksHaveOneOwner == Spec => []OneOwner
<1>1. NetworkInv => OneOwner
  BY DEF NetworkInv, BuffersInv, Sound, OneOwner, Owns
<1>2. QED
  BY <1>1, NetworkInvariant, PTL

(* Between two datagrams or events, the blocks that are allocated are      *)
(* those of the queued events and of the replies to send again.            *)
THEOREM NoBlockLeaks == Spec => []NothingLeaks
<1>1. NetworkInv => NothingLeaks
  <2>1. ASSUME NetworkInv
        PROVE  DOMAIN heap = UNION {Owns(objects[o]) : o \in DOMAIN objects}
    <3>1. \A b \in DOMAIN heap : b # NoBlock
      BY <2>1, BlockAssumption DEF NetworkInv, BuffersInv, Sound
    <3>2. \A o \in DOMAIN objects : Owns(objects[o]) \subseteq DOMAIN heap
      BY <2>1 DEF NetworkInv, BuffersInv, Sound
    <3>3. \A b \in DOMAIN heap :
            \E o \in DOMAIN objects : b \in Owns(objects[o])
      BY <2>1, <3>1 DEF NetworkInv, BuffersInv, Sound, Owns
    <3>4. QED
      BY <3>2, <3>3
  <2>2. QED
    BY <2>1 DEF NetworkInv, BuffersInv, Between, NothingLeaks
<1>2. QED
  BY <1>1, NetworkInvariant, PTL

(* No buffer says that it has bytes when its block has gone.               *)
THEOREM BuffersAlwaysFit == Spec => []BuffersFit
<1>1. NetworkInv => BuffersFit
  BY DEF NetworkInv, BuffersInv, Sound, BuffersFit
<1>2. QED
  BY <1>1, NetworkInvariant, PTL

(* Events and kept replies have the bytes they were made of.               *)
THEOREM BytesStay == Spec => []ContentsStay
<1>1. NetworkInv => ContentsStay
  BY DEF NetworkInv, BuffersInv, Sound, ContentsStay
<1>2. QED
  BY <1>1, NetworkInvariant, PTL

(* Every open socket is held by one local or one caller, at each failure.  *)
THEOREM EverySocketIsOwned == Spec => []SocketsAreOwned
<1>1. NetworkInv => SocketsAreOwned
  BY OwnedOneByOne DEF NetworkInv, SocketsInv, Owned, SocketsAreOwned, Holders
<1>2. QED
  BY <1>1, NetworkInvariant, PTL

(* Neither end of a pair blocks its thread, and reader hears from writer   *)
(* or from nobody, whoever else connected to the listener.                 *)
THEOREM PairIsAlwaysReady == Spec => []PairIsReady
<1>1. NetworkInv => PairIsReady
  BY DEF NetworkInv, SocketsInv
<1>2. QED
  BY <1>1, NetworkInvariant, PTL

=============================================================================
