-------------------------- MODULE FrameGateProofs --------------------------
(***************************************************************************)
(* Proofs about FrameGate for every stream, buffer limit and delay.        *)
(*                                                                         *)
(* A call of receiver_incoming files a packet and then drains the buffer.  *)
(* WellFormed says what both halves keep of the buffer; the lemmas follow  *)
(* the call: placeholders, the packet's own slot, eviction, the drain.     *)
(***************************************************************************)
EXTENDS FrameGate, FiniteSetTheorems, WellFoundedInduction, TLAPS

(* A buffer of assemblies of epoch e that agree with the sender's labels. *)
WellFormed(buffer, e) ==
    /\ DOMAIN buffer \subseteq Nat \ {0}
    /\ IsFiniteSet(DOMAIN buffer)
    /\ buffer \in [DOMAIN buffer -> Assembly]
    /\ \A m \in DOMAIN buffer :
          /\ buffer[m].epoch = e
          /\ buffer[m].count # 0 =>
                /\ m \in DOMAIN Stream
                /\ Stream[m] = [epoch |-> e, key |-> buffer[m].key,
                                count |-> buffer[m].count]
          /\ buffer[m].count = 0 => ~ buffer[m].key

LEMMA MaxAgeType == MaxAge \in Nat
  BY GateAssumption DEF MaxAge

(* Entries taken out leave a well-formed buffer. *)
LEMMA RestrictWellFormed ==
  ASSUME NEW buffer, NEW e, WellFormed(buffer, e),
         NEW S, S \subseteq DOMAIN buffer
  PROVE  WellFormed(Restrict(buffer, S), e)
<1>1. IsFiniteSet(S)
  BY FS_Subset DEF WellFormed
<1>2. DOMAIN Restrict(buffer, S) = S
  BY DEF Restrict
<1>3. \A m \in S : Restrict(buffer, S)[m] = buffer[m]
  BY DEF Restrict
<1>4. Restrict(buffer, S) \in [S -> Assembly]
  BY DEF Restrict, WellFormed
<1> QED
  BY <1>1, <1>2, <1>3, <1>4 DEF WellFormed

LEMMA EmptyWellFormed ==
  ASSUME NEW buffer, NEW e, DOMAIN buffer = {}
  PROVE  WellFormed(buffer, e)
<1>1. buffer \in [{} -> Assembly]
  OBVIOUS
<1> QED
  BY <1>1, FS_EmptySet DEF WellFormed

(* A complete assembly is a frame of the stream, with its labels. *)
LEMMA CompleteLabelled ==
  ASSUME NEW buffer, NEW e, WellFormed(buffer, e),
         NEW m \in DOMAIN buffer, Complete(buffer[m])
  PROVE  /\ m \in DOMAIN Stream
         /\ Stream[m].epoch = e
         /\ Stream[m].key = buffer[m].key
<1>1. buffer[m].count # 0
  BY DEF Complete
<1>2. /\ m \in DOMAIN Stream
      /\ Stream[m] = [epoch |-> e, key |-> buffer[m].key, count |-> buffer[m].count]
  BY <1>1 DEF WellFormed
<1> QED
  BY <1>2

(* process_receiver_packet, the placeholders *)
LEMMA PlaceholdersWellFormed ==
  ASSUME NEW buffer, NEW f \in DOMAIN Stream,
         WellFormed(buffer, Stream[f].epoch),
         NEW from \in Nat \ {0}
  PROVE  WellFormed(AddPlaceholders(buffer, from, f), Stream[f].epoch)
<1> DEFINE new == Admitted(buffer, from, f)
           padded == AddPlaceholders(buffer, from, f)
<1>1. f \in Nat \ {0} /\ Stream[f] \in Labels
  BY GateAssumption
<1>2. new \subseteq from..(f - 1)
  BY DEF Admitted
<1>3. new \subseteq Nat \ {0} /\ IsFiniteSet(new)
  <2>1. IsFiniteSet(from..(f - 1))
    BY <1>1, FS_Interval
  <2>2. from..(f - 1) \subseteq Nat \ {0}
    BY <1>1
  <2> QED
    BY <1>2, <2>1, <2>2, FS_Subset
<1>4. DOMAIN padded = DOMAIN buffer \cup new
  BY DEF AddPlaceholders
<1>5. \A m \in DOMAIN padded :
        padded[m] = IF m \in new THEN Placeholder(Stream[f].epoch) ELSE buffer[m]
  BY DEF AddPlaceholders
<1>6. Placeholder(Stream[f].epoch) \in Assembly
  BY <1>1, MaxAgeType, GateAssumption DEF Placeholder, Assembly, Labels, Never
<1>7. padded \in [DOMAIN padded -> Assembly]
  BY <1>4, <1>5, <1>6 DEF AddPlaceholders, WellFormed
<1>8. IsFiniteSet(DOMAIN padded)
  BY <1>3, <1>4, FS_Union DEF WellFormed
<1>9. \A m \in new : /\ padded[m].epoch = Stream[f].epoch
                     /\ padded[m].count = 0
                     /\ ~ padded[m].key
  BY <1>4, <1>5 DEF Placeholder
<1>10. \A m \in DOMAIN padded \ new : m \in DOMAIN buffer /\ padded[m] = buffer[m]
  BY <1>4, <1>5
<1> HIDE DEF padded, new
<1> QED
  BY <1>3, <1>4, <1>7, <1>8, <1>9, <1>10 DEF WellFormed, padded

(* process_receiver_packet, the packet's slot *)
LEMMA StoreWellFormed ==
  ASSUME NEW buffer, NEW f \in DOMAIN Stream,
         WellFormed(buffer, Stream[f].epoch),
         ~ Conflict(buffer, f),
         NEW i \in Nat
  PROVE  WellFormed(Store(buffer, f, i), Stream[f].epoch)
<1> DEFINE a == IF f \in DOMAIN buffer THEN buffer[f] ELSE NewAssembly(Stream[f])
           filed == Store(buffer, f, i)
<1>1. f \in Nat \ {0} /\ Stream[f] \in Labels
  BY GateAssumption
<1>2. Stream[f] = [epoch |-> Stream[f].epoch, key |-> Stream[f].key,
                   count |-> Stream[f].count] /\ Stream[f].count # 0
  BY <1>1 DEF Labels
<1>3. /\ a \in Assembly
      /\ a.epoch = Stream[f].epoch
      /\ a.key = Stream[f].key
      /\ a.count = Stream[f].count
  <2>1. CASE f \in DOMAIN buffer
    BY <2>1 DEF WellFormed, Conflict
  <2>2. CASE f \notin DOMAIN buffer
    BY <2>2, <1>1, MaxAgeType, GateAssumption DEF NewAssembly, Assembly, Labels, Never
  <2> QED
    BY <2>1, <2>2
<1> DEFINE b == [a EXCEPT !.got = @ \cup {i}]
<1>4. /\ b \in Assembly
      /\ b.epoch = Stream[f].epoch
      /\ b.key = Stream[f].key
      /\ b.count = Stream[f].count
  BY <1>3 DEF Assembly
<1>5. DOMAIN filed = DOMAIN buffer \cup {f}
  BY DEF Store
<1>6. filed[f] = b /\ \A m \in DOMAIN buffer \ {f} : filed[m] = buffer[m]
  BY DEF Store
<1>7. filed \in [DOMAIN filed -> Assembly]
  BY <1>4, <1>5, <1>6 DEF Store, WellFormed
<1>8. IsFiniteSet(DOMAIN filed)
  BY <1>5, FS_AddElement DEF WellFormed
<1> HIDE DEF a, b, filed
<1> QED
  BY <1>1, <1>2, <1>4, <1>5, <1>6, <1>7, <1>8 DEF WellFormed, filed

(* drain_complete_frames.  Starting from a well-formed buffer, and from a   *)
(* position right after the last released frame if the call still counts as *)
(* synchronized, the drain leaves a well-formed buffer and, if synchronized,*)
(* such a position, and what it releases is a step of the decoder's feed.   *)
Positioned(insync, pos, e) ==
    insync => /\ synced
              /\ last # 0
              /\ pos = last + 1
              /\ e = Stream[last].epoch

Drained(e) ==
    /\ WellFormed(frames', e)
    /\ next' \in Nat
    /\ synced' \in BOOLEAN
    /\ reset' \in BOOLEAN
    /\ ready' \subseteq DOMAIN Stream
    /\ last' \in DOMAIN Stream \cup {0}
    /\ acked' \in DOMAIN Stream \cup {0}
    /\ synced' => /\ last' # 0
                  /\ next' = last' + 1
                  /\ e = Stream[last'].epoch
    /\ [Feed!Next]_Feed!vars

LEMMA DrainInSyncSafe ==
  ASSUME NEW buffer, NEW e, NEW pos \in Nat,
         WellFormed(buffer, e), Positioned(TRUE, pos, e),
         last \in DOMAIN Stream \cup {0}, acked \in DOMAIN Stream \cup {0},
         reset \in BOOLEAN, DrainInSync(buffer, pos)
  PROVE  Drained(e)
<1>1. /\ synced /\ last # 0 /\ last \in DOMAIN Stream
      /\ pos = last + 1 /\ e = Stream[last].epoch
  BY DEF Positioned
<1>2. DOMAIN Stream \subseteq Nat \ {0}
  BY GateAssumption
<1>3. Cardinality(DOMAIN buffer) \in Nat
  BY FS_CardinalityType DEF WellFormed
<1>4. PICK stop \in pos..(pos + Cardinality(DOMAIN buffer)) :
        DrainInSync(buffer, pos)!(stop)
  BY DEF DrainInSync
<1>5. stop \in Nat /\ stop >= pos
  BY <1>3, <1>4
<1>6. \A m \in pos..(stop - 1) :
        m \in DOMAIN Stream /\ Stream[m].epoch = e
  <2> TAKE m \in pos..(stop - 1)
  <2>1. m \in DOMAIN buffer /\ Complete(buffer[m])
    BY <1>4 DEF StopsAt
  <2> QED
    BY <2>1, CompleteLabelled
<1> DEFINE skip == stop \in DOMAIN buffer /\ Expired(buffer[stop])
           after == IF skip THEN stop + 1 ELSE stop
<1>7. /\ frames' = Without(buffer, pos..(after - 1))
      /\ next' = after
      /\ synced' = ~ skip
      /\ ready' = pos..(stop - 1)
      /\ last' = IF stop > pos THEN stop - 1 ELSE last
      /\ UNCHANGED <<acked, reset>>
  BY <1>4
<1>8. WellFormed(frames', e)
  BY <1>7, RestrictWellFormed DEF Without
<1>9. last' \in DOMAIN Stream /\ Stream[last'].epoch = e
  BY <1>1, <1>5, <1>6, <1>7
<1>10. ~ skip => next' = last' + 1
  BY <1>1, <1>2, <1>5, <1>7
<1>11. [Feed!Next]_Feed!vars
  <2>1. CASE stop > pos
    <3>1. last' = stop - 1 /\ last' > last /\ last' \in DOMAIN Stream
      BY <2>1, <1>1, <1>2, <1>5, <1>7, <1>9
    <3>2. \A m \in (last + 1)..last' :
             m \in DOMAIN Stream /\ Stream[m].epoch = Stream[last].epoch
      BY <3>1, <1>1, <1>6
    <3>3. Feed!Continue(last')
      BY <3>1, <3>2, <1>1, <1>7 DEF Feed!Continue
    <3> QED
      BY <3>1, <3>3 DEF Feed!Next
  <2>2. CASE stop = pos
    <3>1. last' = last /\ acked' = acked
      BY <2>2, <1>5, <1>7
    <3>2. CASE skip
      BY <3>1, <3>2, <1>7 DEF Feed!Freeze, Feed!Next
    <3>3. CASE ~ skip
      <4>1. synced' = synced
        BY <3>3, <1>1, <1>7
      <4> QED
        BY <3>1, <4>1 DEF Feed!vars
    <3> QED
      BY <3>2, <3>3
  <2> QED
    BY <2>1, <2>2, <1>5, <1>4
<1>12. next' \in Nat /\ synced' \in BOOLEAN
  BY <1>5, <1>7
<1>13. ready' \subseteq DOMAIN Stream
  BY <1>6, <1>7
<1> QED
  <2>1. last' # 0
    BY <1>2, <1>9
  <2>2. acked' \in DOMAIN Stream \cup {0} /\ reset' \in BOOLEAN
    BY <1>7
  <2>3. synced' => next' = last' + 1
    BY <1>7, <1>10
  <2> QED
    BY <1>8, <1>9, <1>11, <1>12, <1>13, <2>1, <2>2, <2>3 DEF Drained

LEMMA RestartSafe ==
  ASSUME NEW buffer, NEW e, WellFormed(buffer, e), Restart(buffer)
  PROVE  Drained(e)
<1>1. PICK k \in Keyframes(buffer) : Restart(buffer)!(k)
  BY DEF Restart
<1>2. k \in DOMAIN buffer /\ Complete(buffer[k]) /\ buffer[k].key
  BY <1>1 DEF Keyframes
<1>3. k \in DOMAIN Stream /\ Stream[k].epoch = e /\ Stream[k].key
  BY <1>2, CompleteLabelled
<1>4. k \in Nat \ {0}
  BY <1>3, GateAssumption
<1>5. WellFormed(frames', e)
  BY <1>1, RestrictWellFormed
<1>6. Feed!Next
  BY <1>1, <1>3 DEF Feed!Next, Feed!Resync
<1> QED
  BY <1>1, <1>3, <1>4, <1>5, <1>6 DEF Drained, SyncRestored

LEMMA DropUndecodableSafe ==
  ASSUME NEW buffer, NEW e, NEW pos \in Nat, WellFormed(buffer, e),
         last \in DOMAIN Stream \cup {0}, acked \in DOMAIN Stream \cup {0},
         reset \in BOOLEAN, DropUndecodable(buffer, pos)
  PROVE  Drained(e)
<1>1. WellFormed(frames', e)
  BY RestrictWellFormed DEF DropUndecodable
<1>2. Feed!Next
  BY DEF DropUndecodable, Feed!Next, Feed!Freeze
<1> QED
  BY <1>1, <1>2 DEF DropUndecodable, Drained

LEMMA DrainSafe ==
  ASSUME NEW buffer, NEW e, NEW pos \in Nat, NEW insync \in BOOLEAN,
         WellFormed(buffer, e), Positioned(insync, pos, e),
         last \in DOMAIN Stream \cup {0}, acked \in DOMAIN Stream \cup {0},
         reset \in BOOLEAN, Drain(buffer, pos, insync)
  PROVE  Drained(e)
<1>1. CASE insync
  BY <1>1, DrainInSyncSafe DEF Drain, Positioned
<1>2. CASE ~ insync
  BY <1>2, RestartSafe, DropUndecodableSafe DEF Drain
<1> QED
  BY <1>1, <1>2

-----------------------------------------------------------------------------
(* The inductive invariant.  SyncPoint needs the labels of the buffer: the  *)
(* frames a drain releases belong to the epoch of the last one only because *)
(* every assembly in the buffer does.                                       *)
GateInv == TypeOK /\ BufferOfOneEpoch /\ SyncPoint

LEMMA GateInvWellFormed ==
  ASSUME GateInv
  PROVE  WellFormed(frames, epoch)
BY DEF GateInv, TypeOK, BufferOfOneEpoch, WellFormed

(* A drain, and a program counter in range, re-establish the invariant. *)
LEMMA DrainedInv ==
  ASSUME Drained(epoch'), epoch' \in Nat, pc' = "poll"
  PROVE  GateInv'
<1>1. TypeOK'
  BY DEF Drained, WellFormed, TypeOK
<1>2. BufferOfOneEpoch'
  BY DEF Drained, WellFormed, BufferOfOneEpoch
<1>3. SyncPoint'
  BY DEF Drained, SyncPoint
<1> QED
  BY <1>1, <1>2, <1>3 DEF GateInv

(* The buffer that a packet leaves for the drain. *)
Filed(f, i) ==
    LET padded   == AddPlaceholders(Held(f), Position(f), f)
        conflict == Conflict(padded, f)
        filed    == Store(padded, f, i)
    IN  IF conflict THEN Without(padded, {f}) ELSE EvictOldest(filed)

InSync(f, i) ==
    LET padded == AddPlaceholders(Held(f), Position(f), f)
    IN  /\ synced
        /\ ~ Switches(f)
        /\ ~ Conflict(padded, f)
        /\ ~ Overflowing(Store(padded, f, i))

LEMMA PaddedWellFormed ==
  ASSUME GateInv, NEW f \in DOMAIN Stream
  PROVE  WellFormed(AddPlaceholders(Held(f), Position(f), f), Stream[f].epoch)
<1> DEFINE e == Stream[f].epoch
<1>1. f \in Nat \ {0}
  BY GateAssumption
<1>2. WellFormed(frames, epoch)
  BY GateInvWellFormed
<1>3. Position(f) \in Nat \ {0}
  BY <1>1 DEF Position, GateInv, TypeOK
<1>4. WellFormed(Held(f), e)
  <2>1. CASE Switches(f)
    <3>1. Held(f) = Without(frames, DOMAIN frames)
      BY <2>1 DEF Held
    <3>2. DOMAIN Without(frames, DOMAIN frames) = {}
      BY DEF Without, Restrict
    <3> QED
      BY <3>1, <3>2, EmptyWellFormed
  <2>2. CASE ~ Switches(f)
    BY <2>2, <1>2 DEF Held, Switches
  <2> QED
    BY <2>1, <2>2
<1> QED
  BY <1>3, <1>4, PlaceholdersWellFormed

LEMMA IncomingDrains ==
  ASSUME GateInv, NEW f \in DOMAIN Stream, NEW i \in Nat
  PROVE  /\ WellFormed(Filed(f, i), Stream[f].epoch)
         /\ Positioned(InSync(f, i), Position(f), Stream[f].epoch)
         /\ Position(f) \in Nat
         /\ InSync(f, i) \in BOOLEAN
<1> DEFINE e == Stream[f].epoch
           padded == AddPlaceholders(Held(f), Position(f), f)
           conflict == Conflict(padded, f)
           filed == Store(padded, f, i)
           buffer == IF conflict THEN Without(padded, {f}) ELSE EvictOldest(filed)
           insync == synced /\ ~ Switches(f) /\ ~ conflict /\ ~ Overflowing(filed)
<1>1. f \in Nat \ {0} /\ e \in Nat
  BY GateAssumption DEF Labels
<1>2. Position(f) \in Nat \ {0}
  BY <1>1 DEF Position, GateInv, TypeOK
<1>3. WellFormed(padded, e)
  BY PaddedWellFormed
<1>4. WellFormed(buffer, e)
  <2>1. CASE conflict
    BY <2>1, <1>3, RestrictWellFormed DEF Without
  <2>2. CASE ~ conflict
    <3>1. WellFormed(filed, e)
      BY <2>2, <1>3, StoreWellFormed
    <3> QED
      BY <2>2, <3>1, RestrictWellFormed DEF EvictOldest
  <2> QED
    BY <2>1, <2>2
<1>5. Positioned(insync, Position(f), e)
  <2> SUFFICES ASSUME insync
               PROVE  /\ last # 0
                      /\ Position(f) = last + 1
                      /\ e = Stream[last].epoch
    BY DEF Positioned
  <2>1. last # 0 /\ next = last + 1 /\ epoch = Stream[last].epoch
    BY DEF GateInv, SyncPoint
  <2>2. last \in Nat
    BY GateAssumption DEF GateInv, TypeOK
  <2> QED
    BY <2>1, <2>2 DEF Switches, Position
<1>6. insync \in BOOLEAN
  BY DEF GateInv, TypeOK
<1> QED
  BY <1>2, <1>4, <1>5, <1>6 DEF Filed, InSync

LEMMA IncomingDrained ==
  ASSUME GateInv, NEW f \in DOMAIN Stream, NEW i \in Nat, Incoming(f, i)
  PROVE  Drained(epoch') /\ epoch' \in Nat
<1>1. Stream[f].epoch \in Nat
  BY GateAssumption DEF Labels
<1>2. /\ WellFormed(Filed(f, i), Stream[f].epoch)
      /\ Positioned(InSync(f, i), Position(f), Stream[f].epoch)
      /\ Position(f) \in Nat
      /\ InSync(f, i) \in BOOLEAN
  BY IncomingDrains
<1>3. Drain(Filed(f, i), Position(f), InSync(f, i)) /\ epoch' = Stream[f].epoch
  BY DEF Incoming, Filed, InSync
<1>4. /\ last \in DOMAIN Stream \cup {0}
      /\ acked \in DOMAIN Stream \cup {0}
      /\ reset \in BOOLEAN
  BY DEF GateInv, TypeOK
<1>5. Drained(Stream[f].epoch)
  BY <1>2, <1>3, <1>4, DrainSafe
<1> QED
  BY <1>1, <1>3, <1>5

(* receiver_incoming without an RTP packet that could be filed *)
LEMMA EmptyCallDrained ==
  ASSUME GateInv, NEW insync \in BOOLEAN, insync => synced,
         Drain(frames, next, insync), UNCHANGED epoch
  PROVE  Drained(epoch') /\ epoch' \in Nat
<1>1. WellFormed(frames, epoch)
  BY GateInvWellFormed
<1>2. Positioned(insync, next, epoch)
  BY DEF Positioned, GateInv, SyncPoint
<1>3. /\ last \in DOMAIN Stream \cup {0}
      /\ acked \in DOMAIN Stream \cup {0}
      /\ reset \in BOOLEAN
      /\ next \in Nat
      /\ epoch \in Nat
  BY DEF GateInv, TypeOK
<1>4. Drained(epoch)
  BY <1>1, <1>2, <1>3, DrainSafe
<1> QED
  BY <1>3, <1>4

(* receiver_poll and the passing of time change no label. *)
LEMMA RelabelledWellFormed ==
  ASSUME NEW buffer, NEW e, WellFormed(buffer, e), NEW after,
         DOMAIN after = DOMAIN buffer, after \in [DOMAIN after -> Assembly],
         \A m \in DOMAIN buffer : /\ after[m].epoch = buffer[m].epoch
                                 /\ after[m].key = buffer[m].key
                                 /\ after[m].count = buffer[m].count
  PROVE  WellFormed(after, e)
BY DEF WellFormed

Retimed(a, g, n) == [a EXCEPT !.age = g, !.nack = n]

LEMMA RetimedType ==
  ASSUME NEW a \in Assembly, NEW g \in 0..MaxAge, NEW n \in Never..NackRetry
  PROVE  /\ Retimed(a, g, n) \in Assembly
         /\ Retimed(a, g, n).epoch = a.epoch
         /\ Retimed(a, g, n).key = a.key
         /\ Retimed(a, g, n).count = a.count
BY DEF Assembly, Retimed

LEMMA PolledWellFormed ==
  ASSUME NEW buffer, NEW e, WellFormed(buffer, e)
  PROVE  WellFormed(Polled(buffer), e)
<1>1. DOMAIN Polled(buffer) = DOMAIN buffer
  BY DEF Polled
<1>2. \A m \in DOMAIN buffer :
        /\ buffer[m] \in Assembly
        /\ \/ Polled(buffer)[m] = buffer[m]
           \/ Polled(buffer)[m] = [buffer[m] EXCEPT !.nack = 0]
  BY DEF Polled, WellFormed
<1>3. \A m \in DOMAIN buffer :
        /\ Polled(buffer)[m] \in Assembly
        /\ Polled(buffer)[m].epoch = buffer[m].epoch
        /\ Polled(buffer)[m].key = buffer[m].key
        /\ Polled(buffer)[m].count = buffer[m].count
  <2> TAKE m \in DOMAIN buffer
  <2>1. buffer[m] \in Assembly
    BY <1>2
  <2>2. CASE Polled(buffer)[m] = buffer[m]
    BY <2>1, <2>2
  <2>3. CASE Polled(buffer)[m] = [buffer[m] EXCEPT !.nack = 0]
    <3>1. buffer[m].age \in 0..MaxAge
      BY <2>1 DEF Assembly
    <3>2. 0 \in Never..NackRetry
      BY GateAssumption DEF Never
    <3>3. Polled(buffer)[m] = Retimed(buffer[m], buffer[m].age, 0)
      BY <2>1, <2>3 DEF Assembly, Retimed
    <3> QED
      BY <2>1, <3>1, <3>2, <3>3, RetimedType
  <2> QED
    BY <1>2, <2>2, <2>3
<1>4. Polled(buffer) \in [DOMAIN Polled(buffer) -> Assembly]
  BY <1>1, <1>3 DEF Polled
<1> QED
  BY <1>1, <1>3, <1>4, RelabelledWellFormed

LEMMA OlderType ==
  ASSUME NEW a \in Assembly
  PROVE  /\ Older(a) \in Assembly
         /\ Older(a).epoch = a.epoch
         /\ Older(a).key = a.key
         /\ Older(a).count = a.count
<1> DEFINE g == IF a.age < MaxAge THEN a.age + 1 ELSE a.age
           n == IF a.nack \in 0..(NackRetry - 1) THEN a.nack + 1 ELSE a.nack
<1>1. a.age \in 0..MaxAge /\ a.nack \in Never..NackRetry
  BY DEF Assembly
<1>2. g \in 0..MaxAge
  BY <1>1, MaxAgeType
<1>3. n \in Never..NackRetry
  BY <1>1, GateAssumption DEF Never
<1>4. Older(a) = Retimed(a, g, n)
  BY DEF Older, Retimed
<1> HIDE DEF g, n
<1> QED
  BY <1>2, <1>3, <1>4, RetimedType

LEMMA TickWellFormed ==
  ASSUME NEW e, WellFormed(frames, e), Tick
  PROVE  WellFormed(frames', e)
<1>1. DOMAIN frames' = DOMAIN frames
  BY DEF Tick
<1>2. \A m \in DOMAIN frames : frames'[m] = Older(frames[m])
  BY DEF Tick
<1>3. \A m \in DOMAIN frames : frames[m] \in Assembly
  BY DEF WellFormed
<1>4. frames' \in [DOMAIN frames' -> Assembly]
  BY <1>1, <1>2, <1>3, OlderType DEF Tick
<1> QED
  BY <1>1, <1>2, <1>3, <1>4, OlderType, RelabelledWellFormed

(* A step that leaves the position alone and the labels well-formed keeps   *)
(* the invariant and feeds nothing.                                         *)
LEMMA QuietStep ==
  ASSUME GateInv, WellFormed(frames', epoch),
         UNCHANGED <<epoch, next, synced, last, acked>>,
         pc' \in {"idle", "poll", "decode"}, reset' \in BOOLEAN,
         ready' \subseteq DOMAIN Stream, pc' = "decode" => ready' # {}
  PROVE  GateInv' /\ [Feed!Next]_Feed!vars
<1>1. TypeOK'
  BY DEF WellFormed, GateInv, TypeOK
<1>2. BufferOfOneEpoch'
  BY DEF WellFormed, BufferOfOneEpoch
<1>3. SyncPoint'
  BY DEF GateInv, SyncPoint
<1>4. UNCHANGED Feed!vars
  BY DEF Feed!vars
<1> QED
  BY <1>1, <1>2, <1>3, <1>4 DEF GateInv

LEMMA InitInv == Init => GateInv
<1> SUFFICES ASSUME Init
             PROVE  GateInv
  OBVIOUS
<1>1. DOMAIN frames = {}
  BY DEF Init
<1>2. WellFormed(frames, epoch)
  BY <1>1, EmptyWellFormed
<1> QED
  BY <1>1, <1>2 DEF Init, GateInv, TypeOK, BufferOfOneEpoch, SyncPoint, WellFormed

(* Every step keeps the invariant and is a step, or a stutter, of the feed. *)
LEMMA NextInv ==
  ASSUME GateInv, [Next]_vars
  PROVE  GateInv' /\ [Feed!Next]_Feed!vars
<1>1. WellFormed(frames, epoch)
  BY GateInvWellFormed
<1>2. ASSUME NEW f \in DOMAIN Stream, NEW i \in 0..(Stream[f].count - 1),
             Incoming(f, i)
      PROVE  GateInv' /\ [Feed!Next]_Feed!vars
  <2>1. i \in Nat
    BY <1>2
  <2>2. Drained(epoch') /\ epoch' \in Nat
    BY <1>2, <2>1, IncomingDrained
  <2>3. pc' = "poll"
    BY <1>2 DEF Incoming
  <2> QED
    BY <2>2, <2>3, DrainedInv DEF Drained
<1>3. CASE IncomingControl
  <2>1. synced \in BOOLEAN
    BY DEF GateInv, TypeOK
  <2>2. Drained(epoch') /\ epoch' \in Nat
    BY <1>3, <2>1, EmptyCallDrained DEF IncomingControl
  <2> QED
    BY <1>3, <2>2, DrainedInv DEF IncomingControl, Drained
<1>4. CASE IncomingUnlabelled
  <2>1. Drained(epoch') /\ epoch' \in Nat
    BY <1>4, EmptyCallDrained DEF IncomingUnlabelled
  <2> QED
    BY <1>4, <2>1, DrainedInv DEF IncomingUnlabelled, Drained
<1>5. CASE PollAfterIncoming
  BY <1>1, <1>5, PolledWellFormed, QuietStep DEF PollAfterIncoming, GateInv, TypeOK
<1>6. ASSUME NEW f \in DOMAIN Stream, DecodeFrame(f)
      PROVE  GateInv' /\ [Feed!Next]_Feed!vars
  BY <1>1, <1>6, QuietStep DEF DecodeFrame, Handed, gate, GateInv, TypeOK
<1>7. ASSUME NEW f \in DOMAIN Stream, DecodeFails(f)
      PROVE  GateInv' /\ [Feed!Next]_Feed!vars
  <2>1. DOMAIN frames' = {}
    BY <1>7 DEF DecodeFails, Without, Restrict
  <2>2. WellFormed(frames', epoch')
    BY <2>1, EmptyWellFormed
  <2>3. GateInv'
    BY <1>7, <2>1, <2>2
    DEF DecodeFails, Handed, GateInv, TypeOK, BufferOfOneEpoch, SyncPoint, WellFormed
  <2>4. Feed!Next
    BY <1>7 DEF DecodeFails, Feed!Next, Feed!Freeze
  <2> QED
    BY <2>3, <2>4
<1>8. CASE RecoveryPoll
  BY <1>1, <1>8, PolledWellFormed, QuietStep DEF RecoveryPoll, GateInv, TypeOK
<1>9. CASE Tick
  <2>1. WellFormed(frames', epoch)
    BY <1>1, <1>9, TickWellFormed
  <2> QED
    BY <1>9, <2>1, QuietStep DEF Tick, GateInv, TypeOK
<1>10. CASE UNCHANGED vars
  BY <1>1, <1>10, QuietStep DEF vars, GateInv, TypeOK
<1> QED
  BY <1>2, <1>3, <1>4, <1>5, <1>6, <1>7, <1>8, <1>9, <1>10
  DEF Next, Step, IncomingPacket, OnFrame

THEOREM GateInvariant == Spec => []GateInv
BY InitInv, NextInv, PTL DEF Spec

(* The state of the receiving handler keeps its types for every stream.     *)
THEOREM TypeCorrect == Spec => []TypeOK
BY GateInvariant, PTL DEF GateInv

(* No packet of another encoder epoch is ever in the buffer.                *)
THEOREM OneEpoch == Spec => []BufferOfOneEpoch
BY GateInvariant, PTL DEF GateInv

(* While synchronized, the position is right after the last released frame  *)
(* and in its epoch.                                                        *)
THEOREM SyncPointHolds == Spec => []SyncPoint
BY GateInvariant, PTL DEF GateInv

(* The handler implements the decoder's feed: no hole, no mix of epochs, a  *)
(* restart at a keyframe only, whatever the network and the threads do.     *)
THEOREM ImplementsFeed == Spec => FeedsDecoder
<1>1. Init => Feed!Init
  BY DEF Init, Feed!Init
<1> QED
  BY <1>1, NextInv, GateInvariant, PTL DEF Spec, FeedsDecoder, Feed!Spec

-----------------------------------------------------------------------------
(* The buffer limit.  Both bounds count the ids on one side of an extreme   *)
(* element: below the highest placeholder admitted there was room, and      *)
(* above the lowest entry kept there are fewer than the limit.              *)

LEMMA LowestExists ==
  ASSUME NEW S, S \subseteq Nat, S # {}
  PROVE  \E l \in S : \A m \in S : l <= m
<1> DEFINE R == {ss \in Nat \X Nat : ss[1] < ss[2]}
<1>1. IsWellFoundedOn(R, Nat)
  BY NatLessThanWellFounded DEF OpToRel
<1> HIDE DEF R
<1>2. PICK l \in S : \A m \in S : ~ (<<m, l>> \in R)
  BY <1>1, WFMin
<1>3. \A m \in S : ~ (m < l)
  BY <1>2 DEF R
<1> QED
  BY <1>3

LEMMA HighestOfBounded ==
  ASSUME NEW S, S \subseteq Nat, S # {}, NEW top \in Nat, \A m \in S : m <= top
  PROVE  \E h \in S : \A m \in S : m <= h
<1> DEFINE D == {d \in Nat : top - d \in S}
<1>1. PICK s \in S : TRUE
  OBVIOUS
<1>2. D \subseteq Nat /\ D # {}
  <2>1. top - s \in Nat /\ top - (top - s) = s
    BY <1>1
  <2> QED
    BY <2>1
<1>3. PICK d \in D : \A c \in D : d <= c
  BY <1>2, LowestExists
<1>4. \A m \in S : top - m \in D
  <2> TAKE m \in S
  <2>1. top - m \in Nat /\ top - (top - m) = m
    OBVIOUS
  <2> QED
    BY <2>1
<1>5. d \in Nat /\ top - d \in S
  BY <1>3
<1>6. \A m \in S : m <= top - d
  <2> TAKE m \in S
  <2>1. d <= top - m
    BY <1>3, <1>4
  <2> QED
    BY <2>1, <1>5
<1> QED
  BY <1>5, <1>6

LEMMA PlaceholdersBounded ==
  ASSUME NEW buffer, IsFiniteSet(DOMAIN buffer),
         Cardinality(DOMAIN buffer) <= MaxBufferedFrames,
         NEW from \in Nat, NEW f \in Nat
  PROVE  Cardinality(DOMAIN AddPlaceholders(buffer, from, f)) <= MaxBufferedFrames
<1> DEFINE gap == (from..(f - 1)) \ DOMAIN buffer
           new == Admitted(buffer, from, f)
           below(h) == {k \in gap : k < h}
<1>1. DOMAIN AddPlaceholders(buffer, from, f) = DOMAIN buffer \cup new
  BY DEF AddPlaceholders
<1>2. IsFiniteSet(gap) /\ gap \subseteq Nat /\ \A m \in gap : m <= f
  <2>1. IsFiniteSet(from..(f - 1))
    BY FS_Interval
  <2> QED
    BY <2>1, FS_Subset
<1>3. /\ new \subseteq gap
      /\ \A h \in new : Cardinality(DOMAIN buffer) + Cardinality(below(h))
                          < MaxBufferedFrames
  BY DEF Admitted
<1> HIDE DEF gap, new
<1>4. IsFiniteSet(new) /\ new \cap DOMAIN buffer = {}
  BY <1>2, <1>3, FS_Subset DEF gap
<1>5. CASE new = {}
  BY <1>1, <1>5
<1>6. CASE new # {}
  <2>1. PICK h \in new : \A m \in new : m <= h
    BY <1>2, <1>3, <1>6, HighestOfBounded
  <2>2. h \in Nat /\ new \subseteq Nat
    BY <1>2, <1>3
  <2>3. new \ {h} \subseteq below(h)
    BY <1>3, <2>1, <2>2
  <2>4. IsFiniteSet(below(h))
    BY <1>2, FS_Subset
  <2>5. Cardinality(new \ {h}) <= Cardinality(below(h))
    BY <2>3, <2>4, FS_Subset
  <2>6. Cardinality(new \ {h}) = Cardinality(new) - 1
    BY <1>4, <2>1, FS_RemoveElement
  <2>7. Cardinality(DOMAIN buffer \cup new)
           = Cardinality(DOMAIN buffer) + Cardinality(new)
    <3>1. Cardinality(DOMAIN buffer \cap new) = 0
      BY <1>4, FS_EmptySet
    <3>2. /\ Cardinality(DOMAIN buffer) \in Nat
          /\ Cardinality(new) \in Nat
      BY <1>4, FS_CardinalityType
    <3>3. Cardinality(DOMAIN buffer \cup new)
             = Cardinality(DOMAIN buffer) + Cardinality(new)
                 - Cardinality(DOMAIN buffer \cap new)
      BY <1>4, FS_Union
    <3> QED
      BY <3>1, <3>2, <3>3
  <2>8. Cardinality(DOMAIN buffer) + Cardinality(below(h)) < MaxBufferedFrames
    BY <1>3
  <2>9. /\ Cardinality(DOMAIN buffer) \in Nat
        /\ Cardinality(new) \in Nat
        /\ Cardinality(below(h)) \in Nat
    BY <1>4, <2>4, FS_CardinalityType
  <2> HIDE DEF below
  <2> QED
    BY <1>1, <2>5, <2>6, <2>7, <2>8, <2>9, GateAssumption
<1> QED
  BY <1>5, <1>6

LEMMA EvictOldestBounded ==
  ASSUME NEW buffer, IsFiniteSet(DOMAIN buffer), DOMAIN buffer \subseteq Nat
  PROVE  Cardinality(DOMAIN EvictOldest(buffer)) <= MaxBufferedFrames
<1> DEFINE K == DOMAIN EvictOldest(buffer)
           above(l) == {k \in DOMAIN buffer : k > l}
<1>1. /\ K \subseteq DOMAIN buffer
      /\ \A l \in K : Cardinality(above(l)) < MaxBufferedFrames
  BY DEF EvictOldest, Restrict
<1> HIDE DEF K
<1>2. IsFiniteSet(K)
  BY <1>1, FS_Subset
<1>3. CASE K = {}
  BY <1>3, FS_EmptySet, GateAssumption DEF K
<1>4. CASE K # {}
  <2>1. PICK l \in K : \A m \in K : l <= m
    BY <1>1, <1>4, LowestExists
  <2>2. K \ {l} \subseteq above(l)
    BY <1>1, <2>1
  <2>3. IsFiniteSet(above(l))
    BY FS_Subset
  <2>4. Cardinality(K \ {l}) <= Cardinality(above(l))
    BY <2>2, <2>3, FS_Subset
  <2>5. Cardinality(K \ {l}) = Cardinality(K) - 1
    BY <1>2, <2>1, FS_RemoveElement
  <2>6. Cardinality(K) \in Nat /\ Cardinality(above(l)) \in Nat
    BY <1>2, <2>3, FS_CardinalityType
  <2>7. Cardinality(above(l)) < MaxBufferedFrames
    BY <1>1
  <2> HIDE DEF above
  <2>8. Cardinality(K) <= MaxBufferedFrames
    BY <2>4, <2>5, <2>6, <2>7, GateAssumption
  <2> QED
    BY <2>8 DEF K
<1> QED
  BY <1>3, <1>4

LEMMA DrainShrinks ==
  ASSUME NEW buffer, NEW pos, NEW insync, Drain(buffer, pos, insync)
  PROVE  DOMAIN frames' \subseteq DOMAIN buffer
<1>1. CASE DrainInSync(buffer, pos)
  BY <1>1 DEF DrainInSync, Without, Restrict
<1>2. CASE Restart(buffer)
  BY <1>2 DEF Restart, Restrict
<1>3. CASE DropUndecodable(buffer, pos)
  BY <1>3 DEF DropUndecodable, Restrict
<1> QED
  BY <1>1, <1>2, <1>3 DEF Drain

(* A step that adds no entry keeps the bound. *)
LEMMA SmallerBounded ==
  ASSUME NEW S, NEW T, IsFiniteSet(S), T \subseteq S,
         Cardinality(S) <= MaxBufferedFrames
  PROVE  Cardinality(T) <= MaxBufferedFrames
<1>1. /\ Cardinality(T) <= Cardinality(S)
      /\ Cardinality(T) \in Nat /\ Cardinality(S) \in Nat
  BY FS_Subset, FS_CardinalityType
<1> QED
  BY <1>1, GateAssumption

LEMMA IncomingBounded ==
  ASSUME GateInv, BufferBounded,
         NEW f \in DOMAIN Stream, NEW i \in Nat, Incoming(f, i)
  PROVE  BufferBounded'
<1> DEFINE padded == AddPlaceholders(Held(f), Position(f), f)
           conflict == Conflict(padded, f)
           filed == Store(padded, f, i)
           buffer == IF conflict THEN Without(padded, {f}) ELSE EvictOldest(filed)
<1>1. f \in Nat \ {0} /\ IsFiniteSet(DOMAIN frames) /\ DOMAIN frames \subseteq Nat
  BY GateAssumption DEF GateInv, TypeOK
<1>2. Position(f) \in Nat
  BY <1>1 DEF Position, GateInv, TypeOK
<1>3. DOMAIN Held(f) \subseteq DOMAIN frames
  BY DEF Held, Without, Restrict
<1>4. IsFiniteSet(DOMAIN Held(f)) /\ Cardinality(DOMAIN Held(f)) <= MaxBufferedFrames
  BY <1>1, <1>3, FS_Subset, SmallerBounded DEF BufferBounded
<1>5. Cardinality(DOMAIN padded) <= MaxBufferedFrames
  BY <1>1, <1>2, <1>4, PlaceholdersBounded
<1>6. IsFiniteSet(DOMAIN padded) /\ DOMAIN padded \subseteq Nat
  <2>1. Admitted(Held(f), Position(f), f) \subseteq Position(f)..(f - 1)
    BY DEF Admitted
  <2>2. IsFiniteSet(Position(f)..(f - 1)) /\ Position(f)..(f - 1) \subseteq Nat
    <3>1. Position(f) \in Int /\ f - 1 \in Int
      BY <1>1, <1>2
    <3>2. IsFiniteSet(Position(f)..(f - 1))
      BY <3>1, FS_Interval
    <3>3. \A p \in Nat : p..(f - 1) \subseteq Nat
      BY <1>1
    <3> QED
      BY <1>2, <3>2, <3>3
  <2>3. DOMAIN padded = DOMAIN Held(f) \cup Admitted(Held(f), Position(f), f)
    BY DEF AddPlaceholders
  <2>4. IsFiniteSet(Admitted(Held(f), Position(f), f))
    BY <2>1, <2>2, FS_Subset
  <2> QED
    BY <1>1, <1>3, <1>4, <2>1, <2>2, <2>3, <2>4, FS_Union
<1> HIDE DEF padded
<1>7. DOMAIN filed = DOMAIN padded \cup {f}
  BY DEF Store
<1>8. IsFiniteSet(DOMAIN filed) /\ DOMAIN filed \subseteq Nat
  BY <1>1, <1>6, <1>7, FS_AddElement
<1>9. IsFiniteSet(DOMAIN buffer) /\ Cardinality(DOMAIN buffer) <= MaxBufferedFrames
  <2>1. CASE conflict
    <3>1. DOMAIN buffer \subseteq DOMAIN padded
      BY <2>1 DEF Without, Restrict
    <3> HIDE DEF buffer
    <3> QED
      BY <3>1, <1>5, <1>6, FS_Subset, SmallerBounded
  <2>2. CASE ~ conflict
    <3>1. buffer = EvictOldest(filed)
      BY <2>2
    <3>2. DOMAIN EvictOldest(filed) \subseteq DOMAIN filed
      BY DEF EvictOldest, Restrict
    <3> HIDE DEF buffer, filed
    <3> QED
      BY <3>1, <3>2, <1>8, FS_Subset, EvictOldestBounded
  <2> QED
    BY <2>1, <2>2
<1>10. DOMAIN frames' \subseteq DOMAIN buffer
  BY DrainShrinks DEF Incoming, padded
<1> HIDE DEF buffer
<1> QED
  BY <1>9, <1>10, SmallerBounded DEF BufferBounded

LEMMA NextBounded ==
  ASSUME GateInv, BufferBounded, [Next]_vars
  PROVE  BufferBounded'
<1>1. IsFiniteSet(DOMAIN frames)
  BY DEF GateInv, TypeOK
<1>2. ASSUME DOMAIN frames' \subseteq DOMAIN frames
      PROVE  BufferBounded'
  BY <1>1, <1>2, SmallerBounded DEF BufferBounded
<1>3. ASSUME NEW f \in DOMAIN Stream, NEW i \in 0..(Stream[f].count - 1),
             Incoming(f, i)
      PROVE  BufferBounded'
  BY <1>3, IncomingBounded
<1>4. CASE IncomingControl
  BY <1>4, <1>2, DrainShrinks DEF IncomingControl
<1>5. CASE IncomingUnlabelled
  BY <1>5, <1>2, DrainShrinks DEF IncomingUnlabelled
<1>6. CASE PollAfterIncoming
  BY <1>6, <1>2 DEF PollAfterIncoming, Polled
<1>7. ASSUME NEW f \in DOMAIN Stream, DecodeFrame(f)
      PROVE  BufferBounded'
  BY <1>7, <1>2 DEF DecodeFrame, gate
<1>8. ASSUME NEW f \in DOMAIN Stream, DecodeFails(f)
      PROVE  BufferBounded'
  BY <1>8, <1>2 DEF DecodeFails, Without, Restrict
<1>9. CASE RecoveryPoll
  BY <1>9, <1>2 DEF RecoveryPoll, Polled
<1>10. CASE Tick
  BY <1>10, <1>2 DEF Tick
<1>11. CASE UNCHANGED vars
  BY <1>11, <1>2 DEF vars
<1> QED
  BY <1>3, <1>4, <1>5, <1>6, <1>7, <1>8, <1>9, <1>10, <1>11
  DEF Next, Step, IncomingPacket, OnFrame

(* The buffer never holds more than kMaxBufferedFrames entries.             *)
THEOREM BufferLimit == Spec => []BufferBounded
<1>1. Init => BufferBounded
  <2> SUFFICES ASSUME Init
               PROVE  BufferBounded
    OBVIOUS
  <2>1. DOMAIN frames = {}
    BY DEF Init
  <2> QED
    BY <2>1, FS_EmptySet, GateAssumption DEF BufferBounded
<1> QED
  BY <1>1, NextBounded, GateInvariant, PTL DEF Spec

-----------------------------------------------------------------------------
(* What a drain leaves behind and hands to the decoder, and that no frame   *)
(* in part expires unrequested.                                             *)

(* ResetAtRestart is not inductive: it needs that the keyframe acknowledged *)
(* is handed over alone (so no earlier frame of the call consumes the       *)
(* reset), and that a later drain, which releases ids above last, cannot    *)
(* release it again (so it lies at or below last).                          *)
ReleaseInv ==
    /\ HeldOnlyBehindRestart
    /\ acked <= last
    /\ acked \in ready => reset /\ ready = {acked}

LEMMA DrainReleases ==
  ASSUME NEW buffer, NEW e, NEW pos \in Nat, NEW insync \in BOOLEAN,
         WellFormed(buffer, e), Positioned(insync, pos, e),
         last \in DOMAIN Stream \cup {0}, acked \in DOMAIN Stream \cup {0},
         acked <= last, Drain(buffer, pos, insync)
  PROVE  ReleaseInv'
<1>1. DOMAIN Stream \subseteq Nat \ {0} /\ last \in Nat /\ acked \in Nat
  BY GateAssumption
<1>2. ASSUME insync, DrainInSync(buffer, pos)
      PROVE  ReleaseInv'
  <2>1. pos = last + 1
    BY <1>2 DEF Positioned
  <2>2. Cardinality(DOMAIN buffer) \in Nat
    BY FS_CardinalityType DEF WellFormed
  <2>3. PICK stop \in pos..(pos + Cardinality(DOMAIN buffer)) :
          DrainInSync(buffer, pos)!(stop)
    BY <1>2 DEF DrainInSync
  <2>4. stop \in Nat /\ stop >= pos
    BY <2>2, <2>3
  <2> DEFINE skip == stop \in DOMAIN buffer /\ Expired(buffer[stop])
             after == IF skip THEN stop + 1 ELSE stop
  <2>5. /\ StopsAt(buffer, pos, stop)
        /\ frames' = Without(buffer, pos..(after - 1))
        /\ next' = after
        /\ synced' = ~ skip
        /\ ready' = pos..(stop - 1)
        /\ last' = IF stop > pos THEN stop - 1 ELSE last
        /\ UNCHANGED <<acked, reset>>
    BY <2>3
  <2>6. HeldOnlyBehindRestart'
    <3> SUFFICES ASSUME synced', next' \in DOMAIN frames', Complete(frames'[next'])
                 PROVE  FALSE
      BY DEF HeldOnlyBehindRestart, Complete
    <3>1. next' = stop
      BY <2>5
    <3>2. stop \in DOMAIN buffer /\ frames'[stop] = buffer[stop]
      BY <3>1, <2>5 DEF Without, Restrict
    <3>3. Complete(buffer[stop])
      BY <3>1, <3>2
    <3> QED
      BY <2>5, <3>2, <3>3 DEF StopsAt
  <2>7. acked' <= last'
    BY <1>1, <2>1, <2>4, <2>5
  <2>8. acked' \notin ready'
    BY <1>1, <2>1, <2>4, <2>5
  <2> QED
    BY <2>6, <2>7, <2>8 DEF ReleaseInv
<1>3. ASSUME Restart(buffer)
      PROVE  ReleaseInv'
  <2>1. PICK k \in Keyframes(buffer) : Restart(buffer)!(k)
    BY <1>3 DEF Restart
  <2>2. k \in Nat
    BY DEF Keyframes, WellFormed
  <2>3. acked' = next' - 1 /\ acked' <= last' /\ ready' = {acked'} /\ reset' = TRUE
    BY <2>1, <2>2 DEF SyncRestored
  <2> QED
    BY <2>3 DEF ReleaseInv, HeldOnlyBehindRestart
<1>4. ASSUME DropUndecodable(buffer, pos)
      PROVE  ReleaseInv'
  BY <1>4 DEF DropUndecodable, ReleaseInv, HeldOnlyBehindRestart
<1> QED
  BY <1>2, <1>3, <1>4 DEF Drain

(* A step that neither drains nor moves the position *)
LEMMA QuietReleases ==
  ASSUME ReleaseInv, UNCHANGED <<next, synced, last, acked>>,
         DOMAIN frames' = DOMAIN frames,
         \A m \in DOMAIN frames : /\ frames'[m].count = frames[m].count
                                 /\ frames'[m].got = frames[m].got,
         acked' \in ready' => reset' /\ ready' = {acked'}
  PROVE  ReleaseInv'
BY DEF ReleaseInv, HeldOnlyBehindRestart, Complete

(* What Incoming drains is well-formed and positioned (IncomingDrained).    *)
LEMMA IncomingReleases ==
  ASSUME GateInv, ReleaseInv, NEW f \in DOMAIN Stream, NEW i \in Nat, Incoming(f, i)
  PROVE  ReleaseInv'
<1>1. Drain(Filed(f, i), Position(f), InSync(f, i))
  BY DEF Incoming, Filed, InSync
<1>2. /\ WellFormed(Filed(f, i), Stream[f].epoch)
      /\ Positioned(InSync(f, i), Position(f), Stream[f].epoch)
      /\ Position(f) \in Nat
      /\ InSync(f, i) \in BOOLEAN
  BY IncomingDrains
<1>3. /\ last \in DOMAIN Stream \cup {0}
      /\ acked \in DOMAIN Stream \cup {0}
      /\ acked <= last
  BY DEF GateInv, TypeOK, ReleaseInv
<1> QED
  BY <1>1, <1>2, <1>3, DrainReleases

LEMMA EmptyCallReleases ==
  ASSUME GateInv, ReleaseInv, NEW insync \in BOOLEAN, insync => synced,
         Drain(frames, next, insync)
  PROVE  ReleaseInv'
<1>1. WellFormed(frames, epoch)
  BY GateInvWellFormed
<1>2. Positioned(insync, next, epoch)
  BY DEF Positioned, GateInv, SyncPoint
<1>3. /\ last \in DOMAIN Stream \cup {0}
      /\ acked \in DOMAIN Stream \cup {0}
      /\ acked <= last
      /\ next \in Nat
  BY DEF GateInv, TypeOK, ReleaseInv
<1> QED
  BY <1>1, <1>2, <1>3, DrainReleases

LEMMA PolledQuiet ==
  ASSUME NEW buffer
  PROVE  /\ DOMAIN Polled(buffer) = DOMAIN buffer
         /\ \A m \in DOMAIN buffer :
               /\ Polled(buffer)[m].count = buffer[m].count
               /\ Polled(buffer)[m].got = buffer[m].got
BY DEF Polled

LEMMA TickAges ==
  ASSUME GateInv, Tick
  PROVE  /\ DOMAIN frames' = DOMAIN frames
         /\ \A m \in DOMAIN frames :
               /\ frames'[m].count = frames[m].count
               /\ frames'[m].got = frames[m].got
               /\ frames'[m].age = IF frames[m].age < MaxAge
                                   THEN frames[m].age + 1 ELSE frames[m].age
               /\ frames'[m].nack = IF frames[m].nack \in 0..(NackRetry - 1)
                                    THEN frames[m].nack + 1 ELSE frames[m].nack
<1>1. \A m \in DOMAIN frames : frames[m] \in Assembly
  BY DEF GateInv, TypeOK
<1>2. DOMAIN frames' = DOMAIN frames /\ \A m \in DOMAIN frames : frames'[m] = Older(frames[m])
  BY DEF Tick
<1>3. ASSUME NEW a \in Assembly
      PROVE  /\ Older(a).count = a.count
             /\ Older(a).got = a.got
             /\ Older(a).age = IF a.age < MaxAge THEN a.age + 1 ELSE a.age
             /\ Older(a).nack = IF a.nack \in 0..(NackRetry - 1)
                                THEN a.nack + 1 ELSE a.nack
  BY DEF Older, Assembly
<1> QED
  BY <1>1, <1>2, <1>3

LEMMA NextReleases ==
  ASSUME GateInv, ReleaseInv, [Next]_vars
  PROVE  ReleaseInv'
<1>1. ASSUME NEW f \in DOMAIN Stream, NEW i \in 0..(Stream[f].count - 1),
             Incoming(f, i)
      PROVE  ReleaseInv'
  BY <1>1, IncomingReleases
<1>2. CASE IncomingControl
  BY <1>2, EmptyCallReleases DEF IncomingControl, GateInv, TypeOK
<1>3. CASE IncomingUnlabelled
  BY <1>3, EmptyCallReleases DEF IncomingUnlabelled
<1>4. CASE PollAfterIncoming
  BY <1>4, PolledQuiet, QuietReleases DEF PollAfterIncoming, ReleaseInv
<1>5. ASSUME NEW f \in DOMAIN Stream, DecodeFrame(f)
      PROVE  ReleaseInv'
  <2>1. acked' \notin ready'
    BY <1>5 DEF DecodeFrame, Handed, gate, ReleaseInv
  <2> QED
    BY <1>5, <2>1, QuietReleases DEF DecodeFrame, gate
<1>6. ASSUME NEW f \in DOMAIN Stream, DecodeFails(f)
      PROVE  ReleaseInv'
  <2>1. acked' \notin ready' /\ ~ synced' /\ acked' <= last'
    BY <1>6 DEF DecodeFails, Handed, ReleaseInv
  <2> QED
    BY <2>1 DEF ReleaseInv, HeldOnlyBehindRestart
<1>7. CASE RecoveryPoll
  BY <1>7, PolledQuiet, QuietReleases DEF RecoveryPoll, ReleaseInv
<1>8. CASE Tick
  <2>1. \A m \in DOMAIN frames : /\ frames'[m].count = frames[m].count
                                 /\ frames'[m].got = frames[m].got
    BY <1>8, TickAges
  <2> QED
    BY <1>8, <2>1, QuietReleases DEF Tick, ReleaseInv
<1>9. CASE UNCHANGED vars
  BY <1>9, QuietReleases DEF vars, ReleaseInv
<1> QED
  BY <1>1, <1>2, <1>3, <1>4, <1>5, <1>6, <1>7, <1>8, <1>9
  DEF Next, Step, IncomingPacket, OnFrame

LEMMA ReleaseInvariant == Spec => []ReleaseInv
<1>1. Init => ReleaseInv
  BY DEF Init, ReleaseInv, HeldOnlyBehindRestart
<1> QED
  BY <1>1, NextReleases, GateInvariant, PTL DEF Spec

(* A drain leaves a complete frame at the position only behind the keyframe *)
(* that restarted the feed.                                                 *)
THEOREM NothingHeldBack == Spec => []HeldOnlyBehindRestart
BY ReleaseInvariant, PTL DEF ReleaseInv

(* The decoder is reset by the keyframe that restarts the feed, and by no   *)
(* frame before it, for every stream and however the threads interleave.    *)
THEOREM ResetReachesRestart == Spec => []ResetAtRestart
BY ReleaseInvariant, PTL DEF ReleaseInv, ResetAtRestart

-----------------------------------------------------------------------------
(* A frame in part does not expire unrequested.  Every action builds its    *)
(* buffer from the one before by taking entries out, adding placeholders,   *)
(* adding a packet, noting a NACK, or letting a tick pass; none loses the   *)
(* property, the tick because it waits for what is due.                     *)

Requested(a) ==
    (a.count # 0 /\ ~ Complete(a) /\ Expired(a)) => a.nack # Never

AllRequested(buffer) == \A m \in DOMAIN buffer : Requested(buffer[m])

LEMMA RestrictRequested ==
  ASSUME NEW buffer, AllRequested(buffer), NEW S, S \subseteq DOMAIN buffer
  PROVE  AllRequested(Restrict(buffer, S))
BY DEF AllRequested, Restrict

LEMMA DrainRestricts ==
  ASSUME NEW buffer, NEW pos, NEW insync, Drain(buffer, pos, insync)
  PROVE  \E S \in SUBSET DOMAIN buffer : frames' = Restrict(buffer, S)
<1>1. CASE DrainInSync(buffer, pos)
  BY <1>1 DEF DrainInSync, Without
<1>2. CASE Restart(buffer)
  <2>1. PICK k \in Keyframes(buffer) : Restart(buffer)!(k)
    BY <1>2 DEF Restart
  <2> QED
    BY <2>1
<1>3. CASE DropUndecodable(buffer, pos)
  BY <1>3 DEF DropUndecodable
<1> QED
  BY <1>1, <1>2, <1>3 DEF Drain

LEMMA DrainRequested ==
  ASSUME NEW buffer, AllRequested(buffer), NEW pos, NEW insync,
         Drain(buffer, pos, insync)
  PROVE  AllRequested(frames')
BY DrainRestricts, RestrictRequested

LEMMA PlaceholdersRequested ==
  ASSUME NEW buffer, AllRequested(buffer), NEW from, NEW f
  PROVE  AllRequested(AddPlaceholders(buffer, from, f))
<1>1. Requested(Placeholder(Stream[f].epoch))
  BY DEF Requested, Placeholder
<1> QED
  BY <1>1 DEF AllRequested, AddPlaceholders

LEMMA StoreRequested ==
  ASSUME NEW buffer, NEW f \in DOMAIN Stream, NEW i \in 0..(Stream[f].count - 1),
         WellFormed(buffer, Stream[f].epoch), AllRequested(buffer),
         ~ Conflict(buffer, f)
  PROVE  AllRequested(Store(buffer, f, i))
<1> DEFINE a == IF f \in DOMAIN buffer THEN buffer[f] ELSE NewAssembly(Stream[f])
           b == [a EXCEPT !.got = @ \cup {i}]
<1>1. Stream[f] \in Labels
  BY GateAssumption
<1>2. a \in Assembly /\ a.count = Stream[f].count
  <2>1. CASE f \in DOMAIN buffer
    BY <2>1 DEF WellFormed, Conflict
  <2>2. CASE f \notin DOMAIN buffer
    BY <2>2, <1>1, MaxAgeType, GateAssumption DEF NewAssembly, Assembly, Labels, Never
  <2> QED
    BY <2>1, <2>2
<1>3. Requested(a)
  <2>1. CASE f \in DOMAIN buffer
    BY <2>1 DEF AllRequested
  <2>2. CASE f \notin DOMAIN buffer
    BY <2>2, GateAssumption DEF NewAssembly, Requested, Expired
  <2> QED
    BY <2>1, <2>2
<1>4. /\ b.count = a.count
      /\ b.age = a.age
      /\ b.nack = a.nack
      /\ b.got = a.got \cup {i}
  BY <1>2 DEF Assembly
<1>5. Complete(a) => Complete(b)
  BY <1>2, <1>4 DEF Complete
<1>6. Requested(b)
  BY <1>3, <1>4, <1>5 DEF Requested, Expired
<1>7. /\ DOMAIN Store(buffer, f, i) = DOMAIN buffer \cup {f}
      /\ \A m \in DOMAIN buffer \cup {f} :
            Store(buffer, f, i)[m] = IF m = f THEN b ELSE buffer[m]
  BY DEF Store
<1> HIDE DEF b
<1> QED
  BY <1>6, <1>7 DEF AllRequested

LEMMA IncomingRequested ==
  ASSUME GateInv, AllRequested(frames),
         NEW f \in DOMAIN Stream, NEW i \in 0..(Stream[f].count - 1), Incoming(f, i)
  PROVE  AllRequested(frames')
<1> DEFINE padded == AddPlaceholders(Held(f), Position(f), f)
<1>1. AllRequested(Held(f))
  BY RestrictRequested DEF Held, Without
<1>2. AllRequested(padded)
  BY <1>1, PlaceholdersRequested
<1>3. WellFormed(padded, Stream[f].epoch)
  BY PaddedWellFormed
<1>4. AllRequested(Filed(f, i))
  <2>1. CASE Conflict(padded, f)
    BY <2>1, <1>2, RestrictRequested DEF Filed, Without
  <2>2. CASE ~ Conflict(padded, f)
    <3>1. AllRequested(Store(padded, f, i))
      BY <2>2, <1>2, <1>3, StoreRequested
    <3> QED
      BY <2>2, <3>1, RestrictRequested DEF Filed, EvictOldest
  <2> QED
    BY <2>1, <2>2
<1>5. Drain(Filed(f, i), Position(f), InSync(f, i))
  BY DEF Incoming, Filed, InSync
<1> QED
  BY <1>4, <1>5, DrainRequested

LEMMA PolledRequested ==
  ASSUME GateInv, AllRequested(frames)
  PROVE  AllRequested(Polled(frames))
<1> SUFFICES ASSUME NEW m \in DOMAIN frames
             PROVE  Requested(Polled(frames)[m])
  BY DEF AllRequested, Polled
<1>1. frames[m] \in Assembly /\ Requested(frames[m])
  BY DEF GateInv, TypeOK, AllRequested
<1>2. CASE NackDue(frames[m])
  <2>1. Polled(frames)[m].nack = 0
    BY <1>1, <1>2 DEF Polled, Assembly
  <2> QED
    BY <2>1 DEF Requested, Never
<1>3. CASE ~ NackDue(frames[m])
  BY <1>1, <1>3 DEF Polled
<1> QED
  BY <1>2, <1>3

LEMMA TickRequested ==
  ASSUME GateInv, NackDelay < RecoveryTimeout, AllRequested(frames), TimelyTick
  PROVE  AllRequested(frames')
<1>1. Tick /\ \A m \in DOMAIN frames : ~ NackDue(frames[m])
  BY DEF TimelyTick
<1> SUFFICES ASSUME NEW m \in DOMAIN frames
             PROVE  Requested(frames'[m])
  BY <1>1, TickAges DEF AllRequested
<1> DEFINE a == frames[m]
           b == frames'[m]
<1>2. a.age \in Nat /\ a.nack \in Never..NackRetry /\ MaxAge \in Nat
  BY MaxAgeType DEF GateInv, TypeOK, Assembly
<1>3. /\ b.count = a.count
      /\ b.got = a.got
      /\ b.age = IF a.age < MaxAge THEN a.age + 1 ELSE a.age
      /\ b.nack = IF a.nack \in 0..(NackRetry - 1) THEN a.nack + 1 ELSE a.nack
  BY <1>1, TickAges
<1>4. Complete(b) = Complete(a)
  BY <1>3 DEF Complete
<1>5. a.nack # Never => b.nack # Never
  BY <1>2, <1>3, GateAssumption DEF Never
<1>6. Requested(a) /\ ~ NackDue(a)
  BY <1>1 DEF AllRequested
<1>7. SUFFICES ASSUME b.count # 0, ~ Complete(b), Expired(b), a.nack = Never
               PROVE  FALSE
  BY <1>5 DEF Requested
<1> HIDE DEF a, b
<1>8. ~ Expired(a)
  BY <1>3, <1>4, <1>6, <1>7 DEF Requested
<1>9. a.age >= NackDelay
  BY <1>2, <1>3, <1>7, GateAssumption DEF Expired
<1> QED
  BY <1>3, <1>4, <1>6, <1>7, <1>8, <1>9 DEF NackDue, HasHoles

LEMMA NextRequested ==
  ASSUME GateInv, NackDelay < RecoveryTimeout, AllRequested(frames),
         [Step \/ TimelyTick]_vars
  PROVE  AllRequested(frames')
<1>1. ASSUME NEW f \in DOMAIN Stream, NEW i \in 0..(Stream[f].count - 1),
             Incoming(f, i)
      PROVE  AllRequested(frames')
  BY <1>1, IncomingRequested
<1>2. CASE IncomingControl \/ IncomingUnlabelled
  BY <1>2, DrainRequested DEF IncomingControl, IncomingUnlabelled
<1>3. CASE PollAfterIncoming \/ RecoveryPoll
  BY <1>3, PolledRequested DEF PollAfterIncoming, RecoveryPoll
<1>4. ASSUME NEW f \in DOMAIN Stream, DecodeFrame(f) \/ DecodeFails(f)
      PROVE  AllRequested(frames')
  BY <1>4, RestrictRequested DEF DecodeFrame, DecodeFails, gate, Without
<1>5. CASE TimelyTick
  BY <1>5, TickRequested
<1>6. CASE UNCHANGED vars
  BY <1>6 DEF vars
<1> QED
  BY <1>1, <1>2, <1>3, <1>4, <1>5, <1>6 DEF Step, IncomingPacket, OnFrame

(* If the timeout (1 s, 100 ms at least) is longer than the NACK delay of   *)
(* 120 ms, and polls are not delayed past a tick, no frame of which a       *)
(* packet came times out without a NACK for the rest, for every stream.     *)
THEOREM RequestedInTime ==
  ASSUME NackDelay < RecoveryTimeout
  PROVE  TimelySpec => []RequestedBeforeExpiry
<1>1. Init => AllRequested(frames)
  BY DEF Init, AllRequested
<1>2. TimelySpec => Spec
  BY PTL DEF TimelySpec, Spec, Next, TimelyTick
<1>3. AllRequested(frames) => RequestedBeforeExpiry
  BY DEF AllRequested, Requested, RequestedBeforeExpiry
<1>4. GateInv /\ AllRequested(frames) /\ [Step \/ TimelyTick]_vars
        => AllRequested(frames)'
  BY NextRequested
<1> QED
  BY <1>1, <1>2, <1>3, <1>4, GateInvariant, PTL DEF TimelySpec
=============================================================================
