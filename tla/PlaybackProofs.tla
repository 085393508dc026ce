--------------------------- MODULE PlaybackProofs ---------------------------
(***************************************************************************)
(* Proofs about Renderer and Playback for every stream and queue limit.    *)
(*                                                                         *)
(* Every step of Playback is a step of the renderer or leaves it alone, so *)
(* what is proved of RendererSpec holds of the whole.                      *)
(***************************************************************************)
EXTENDS Playback, SequenceTheorems, TLAPS

(* The renderer.  The pictures alive are those in the queue and the one in  *)
(* the render thread's hand; the hand is empty except between Take and the  *)
(* end of the pass; and once joined the render thread stays ended, so that  *)
(* the queue emptied by the destructor stays empty.                         *)
Held == IF hand = None THEN 0 ELSE 1

RendererInv ==
    /\ RendererTypeOK
    /\ live = Len(queue) + Held
    /\ rpc \notin {"events", "draw"} => hand = None
    /\ rpc = "draw" => hand # None
    /\ owner \in {"clear", "stopped", "gone"} => rpc = "ended"
    /\ owner = "gone" => queue = <<>>

LEMMA RendererInitInv == RendererInit => RendererInv
<1> SUFFICES ASSUME RendererInit
             PROVE  RendererInv
  OBVIOUS
<1>1. queue \in Seq(Pictures) /\ Len(queue) = 0 /\ 0 <= MaxQueuedFrames
  BY RendererAssumption DEF RendererInit
<1>2. RendererTypeOK
  BY <1>1 DEF RendererInit, RendererTypeOK
<1> QED
  BY <1>1, <1>2 DEF RendererInit, RendererInv, Held

LEMMA TailType ==
  ASSUME NEW S, NEW s \in Seq(S), s # <<>>
  PROVE  Tail(s) \in Seq(S) /\ Head(s) \in S /\ Len(Tail(s)) = Len(s) - 1 /\ Len(s) \in Nat
OBVIOUS

LEMMA SubmitInv ==
  ASSUME RendererInv, NEW p \in Pictures, Submit(p)
  PROVE  RendererInv'
<1>1. queue \in Seq(Pictures) /\ Len(queue) <= MaxQueuedFrames /\ Len(queue) \in Nat
  BY DEF RendererInv, RendererTypeOK
<1>2. MaxQueuedFrames \in Nat /\ MaxQueuedFrames > 0
  BY RendererAssumption
<1>3. /\ queue' \in Seq(Pictures)
      /\ Len(queue') <= MaxQueuedFrames
      /\ live' = Len(queue') + Held
  <2>1. CASE Len(queue) < MaxQueuedFrames
    BY <1>1, <1>2, <2>1 DEF Submit, RendererInv, RendererTypeOK, Held
  <2>2. CASE ~ (Len(queue) < MaxQueuedFrames)
    <3>1. queue # <<>>
      BY <1>1, <1>2, <2>2
    <3>2. Tail(queue) \in Seq(Pictures) /\ Len(Tail(queue)) = Len(queue) - 1
      BY <1>1, <3>1, TailType
    <3>3. queue' = Append(Tail(queue), p) /\ live' = live
      BY <2>2 DEF Submit
    <3> QED
      BY <1>1, <3>2, <3>3 DEF RendererInv
  <2> QED
    BY <2>1, <2>2
<1>4. live' \in Nat
  BY <1>3 DEF Held
<1> QED
  BY <1>3, <1>4 DEF Submit, RendererInv, RendererTypeOK, Held

LEMMA RenderThreadInv ==
  ASSUME RendererInv, RenderThread
  PROVE  RendererInv'
<1> USE DEF RendererInv, RendererTypeOK, Held
<1>1. CASE InitSdl
  BY <1>1 DEF InitSdl
<1>2. CASE Top
  BY <1>2 DEF Top
<1>3. CASE Take
  <2>1. CASE queue = <<>>
    BY <1>3, <2>1 DEF Take
  <2>2. CASE queue # <<>>
    <3>1. /\ Tail(queue) \in Seq(Pictures)
          /\ Head(queue) \in Pictures
          /\ Len(Tail(queue)) = Len(queue) - 1
          /\ Len(queue) \in Nat
      BY <2>2, TailType
    <3>2. Head(queue) # None
      BY <3>1, RendererAssumption
    <3>3. hand = None /\ live = Len(queue) /\ owner # "gone"
      BY <1>3, <2>2 DEF Take
    <3>4. /\ queue' = Tail(queue) /\ hand' = Head(queue) /\ rpc' = "events"
          /\ UNCHANGED <<live, shown, quit, owner>>
      BY <1>3, <2>2 DEF Take
    <3>5. Len(queue') <= MaxQueuedFrames /\ live' = Len(queue') + 1
      BY <3>1, <3>3, <3>4, RendererAssumption
    <3> QED
      BY <1>3, <3>1, <3>2, <3>4, <3>5 DEF Take
  <2> QED
    BY <2>1, <2>2
<1>4. CASE PollEvents
  BY <1>4 DEF PollEvents
<1>5. CASE NoWindow
  BY <1>5 DEF NoWindow
<1>6. CASE Draw
  BY <1>6 DEF Draw
<1> QED
  BY <1>1, <1>2, <1>3, <1>4, <1>5, <1>6 DEF RenderThread

LEMMA OwnerThreadInv ==
  ASSUME RendererInv, OwnerThread
  PROVE  RendererInv'
<1> USE DEF RendererInv, RendererTypeOK, Held
<1>1. CASE Stop
  BY <1>1 DEF Stop
<1>2. CASE Join
  BY <1>2 DEF Join
<1>3. CASE ClearQueue
  BY <1>3, RendererAssumption DEF ClearQueue
<1>4. CASE Destroy
  BY <1>4, RendererAssumption DEF Destroy
<1> QED
  BY <1>1, <1>2, <1>3, <1>4 DEF OwnerThread

LEMMA RendererNextInv ==
  ASSUME RendererInv, [RendererNext]_rvars
  PROVE  RendererInv'
<1>1. CASE UNCHANGED rvars
  BY <1>1 DEF rvars, RendererInv, RendererTypeOK, Held
<1> QED
  BY <1>1, SubmitInv, RenderThreadInv, OwnerThreadInv DEF RendererNext

LEMMA RendererInvariant == RendererSpec => []RendererInv
BY RendererInitInv, RendererNextInv, PTL DEF RendererSpec

-----------------------------------------------------------------------------
(* The display *)

LEMMA ThinnedItself ==
  ASSUME NEW s \in Seq(Pictures)
  PROVE  Window!Thinned(s, s)
<1> DEFINE place == [i \in 1..Len(s) |-> i]
<1>1. /\ place \in [1..Len(s) -> 1..Len(s)]
      /\ \A i, j \in 1..Len(s) : i < j => place[i] < place[j]
      /\ \A i \in 1..Len(s) : s[i] = s[place[i]]
  OBVIOUS
<1> QED
  BY <1>1 DEF Window!Thinned

(* A queue that loses its second or its first place still is in order. *)
LEMMA ThinnedTail ==
  ASSUME NEW s \in Seq(Pictures), s # <<>>
  PROVE  Window!Thinned(s, Tail(s))
<1> DEFINE place == [i \in 1..Len(Tail(s)) |-> i + 1]
<1>1. Len(Tail(s)) = Len(s) - 1 /\ \A i \in 1..Len(Tail(s)) : Tail(s)[i] = s[i + 1]
  OBVIOUS
<1>2. /\ place \in [1..Len(Tail(s)) -> 1..Len(s)]
      /\ \A i, j \in 1..Len(Tail(s)) : i < j => place[i] < place[j]
      /\ \A i \in 1..Len(Tail(s)) : Tail(s)[i] = s[place[i]]
  BY <1>1
<1> QED
  BY <1>2 DEF Window!Thinned

LEMMA PushType ==
  ASSUME NEW h \in Pictures, NEW s \in Seq(Pictures)
  PROVE  /\ <<h>> \o s \in Seq(Pictures)
         /\ Len(<<h>> \o s) = Len(s) + 1
         /\ (<<h>> \o s)[1] = h
         /\ \A i \in 1..Len(s) : (<<h>> \o s)[i + 1] = s[i]
OBVIOUS

LEMMA ThinnedSecond ==
  ASSUME NEW h \in Pictures, NEW s \in Seq(Pictures), s # <<>>
  PROVE  Window!Thinned(<<h>> \o s, <<h>> \o Tail(s))
<1> DEFINE t == Tail(s)
           place == [i \in 1..(Len(t) + 1) |-> IF i = 1 THEN 1 ELSE i + 1]
<1>1. t \in Seq(Pictures) /\ Len(s) \in Nat /\ Len(t) = Len(s) - 1
      /\ \A i \in 1..Len(t) : t[i] = s[i + 1]
  OBVIOUS
<1> HIDE DEF t
<1>2. /\ Len(<<h>> \o t) = Len(t) + 1
      /\ (<<h>> \o t)[1] = h
      /\ \A i \in 1..Len(t) : (<<h>> \o t)[i + 1] = t[i]
      /\ Len(<<h>> \o s) = Len(s) + 1
      /\ (<<h>> \o s)[1] = h
      /\ \A i \in 1..Len(s) : (<<h>> \o s)[i + 1] = s[i]
  BY <1>1, PushType
<1>3. place \in [1..(Len(t) + 1) -> 1..(Len(s) + 1)]
  BY <1>1
<1>4. \A i, j \in 1..(Len(t) + 1) : i < j => place[i] < place[j]
  BY <1>1
<1>5. ASSUME NEW i \in 1..(Len(t) + 1)
      PROVE  (<<h>> \o t)[i] = (<<h>> \o s)[place[i]]
  <2>1. CASE i = 1
    BY <1>2, <2>1
  <2>2. CASE i # 1
    <3>1. i - 1 \in 1..Len(t) /\ i \in 1..Len(s) /\ i = (i - 1) + 1
      BY <1>1, <2>2
    <3>2. (<<h>> \o t)[i] = t[i - 1]
      BY <1>2, <3>1
    <3>3. t[i - 1] = s[i]
      BY <1>1, <3>1
    <3>4. (<<h>> \o s)[i + 1] = s[i]
      BY <1>2, <3>1
    <3>5. place[i] = i + 1
      BY <2>2, <3>1
    <3> QED
      BY <3>2, <3>3, <3>4, <3>5
  <2> QED
    BY <2>1, <2>2
<1> HIDE DEF place
<1>6. /\ place \in [1..Len(<<h>> \o t) -> 1..Len(<<h>> \o s)]
      /\ \A i, j \in 1..Len(<<h>> \o t) : i < j => place[i] < place[j]
      /\ \A i \in 1..Len(<<h>> \o t) : (<<h>> \o t)[i] = (<<h>> \o s)[place[i]]
  BY <1>1, <1>2, <1>3, <1>4, <1>5
<1> QED
  BY <1>6 DEF Window!Thinned, t

LEMMA AppendLast ==
  ASSUME NEW s \in Seq(Pictures), NEW p \in Pictures
  PROVE  /\ Append(s, p) \in Seq(Pictures)
         /\ Append(s, p) # <<>>
         /\ Append(s, p)[Len(Append(s, p))] = p
         /\ SubSeq(Append(s, p), 1, Len(Append(s, p)) - 1) = s
OBVIOUS

LEMMA PushAppend ==
  ASSUME NEW h \in Pictures, NEW s \in Seq(Pictures), NEW p \in Pictures
  PROVE  <<h>> \o Append(s, p) = Append(<<h>> \o s, p)
OBVIOUS

LEMMA SubmitShows ==
  ASSUME RendererInv, NEW p \in Pictures, Submit(p)
  PROVE  Window!Submit(p)
<1> DEFINE rest == IF Len(queue) < MaxQueuedFrames THEN queue ELSE Tail(queue)
           front == IF hand = None THEN rest ELSE <<hand>> \o rest
<1>1. queue \in Seq(Pictures) /\ Len(queue) \in Nat /\ hand \in Pictures \cup {None}
  BY DEF RendererInv, RendererTypeOK
<1>2. ~ (Len(queue) < MaxQueuedFrames) => queue # <<>>
  BY <1>1, RendererAssumption
<1>3. rest \in Seq(Pictures)
  BY <1>1, <1>2
<1>4. queue' = Append(rest, p) /\ newest' = p /\ UNCHANGED <<hand, shown, rpc>>
  BY DEF Submit
<1>5. front \in Seq(Pictures)
  BY <1>1, <1>3, PushType
<1>6. Pending' = Append(front, p)
  BY <1>1, <1>3, <1>4, PushAppend DEF Pending
<1>7. Pending \in Seq(Pictures)
  BY <1>1, PushType DEF Pending
<1>8. Window!Thinned(Pending, front)
  BY <1>1, <1>2, <1>7, ThinnedItself, ThinnedTail, ThinnedSecond DEF Pending
<1> HIDE DEF front, rest
<1> QED
  BY <1>4, <1>5, <1>6, <1>8, AppendLast DEF Window!Submit

LEMMA RendererShows ==
  ASSUME RendererInv, [RendererNext]_rvars
  PROVE  [Window!Next]_Window!vars
<1>1. queue \in Seq(Pictures) /\ hand \in Pictures \cup {None}
  BY DEF RendererInv, RendererTypeOK
<1>2. hand # None => /\ Pending # <<>>
                     /\ Head(Pending) = hand
                     /\ Tail(Pending) = queue
  BY <1>1 DEF Pending
<1>3. ASSUME NEW p \in Pictures, Submit(p)
      PROVE  Window!Next
  BY <1>3, SubmitShows DEF Window!Next
<1>4. CASE Take
  <2>1. hand = None /\ UNCHANGED <<shown, newest>> /\ rpc = "wait" /\ rpc' = "events"
    BY <1>4 DEF Take, RendererInv
  <2>2. Pending' = Pending
    <3>1. CASE queue = <<>>
      BY <1>4, <2>1, <3>1 DEF Take, Pending
    <3>2. CASE queue # <<>>
      <4>1. Head(queue) # None
        BY <1>1, <3>2, TailType, RendererAssumption
      <4>2. <<Head(queue)>> \o Tail(queue) = queue
        BY <1>1, <3>2
      <4> QED
        BY <1>4, <2>1, <3>2, <4>1, <4>2 DEF Take, Pending
    <3> QED
      BY <3>1, <3>2
  <2> QED
    BY <2>1, <2>2 DEF Window!vars
<1>5. CASE NoWindow
  <2>1. /\ hand # None /\ Pending' = queue /\ shown = None
        /\ rpc = "draw" /\ rpc' = "ended" /\ UNCHANGED <<shown, newest>>
    BY <1>5 DEF NoWindow, RendererInv, Pending
  <2>2. Window!Close
    BY <1>2, <2>1 DEF Window!Close
  <2> QED
    BY <2>2 DEF Window!Next
<1>6. CASE Draw
  <2>1. /\ hand # None /\ Pending' = queue /\ shown' = hand
        /\ rpc = "draw" /\ rpc' = "top" /\ newest' = newest
    BY <1>6 DEF Draw, RendererInv, Pending
  <2>2. Window!Show
    BY <1>2, <2>1 DEF Window!Show
  <2> QED
    BY <2>2 DEF Window!Next
<1>7. CASE ClearQueue \/ Destroy
  <2>1. hand = None /\ Pending' = <<>> /\ UNCHANGED <<shown, newest, rpc>> /\ rpc = "ended"
    BY <1>7 DEF ClearQueue, Destroy, RendererInv, Pending
  <2> QED
    BY <2>1 DEF Window!Discard, Window!Next
<1>8. CASE InitSdl \/ Top
  <2>1. /\ rpc # "ended" /\ Pending' = Pending /\ UNCHANGED <<shown, newest>>
    BY <1>8 DEF InitSdl, Top, Pending
  <2>2. CASE rpc' = "ended"
    BY <2>1, <2>2 DEF Window!Close, Window!Next
  <2>3. CASE rpc' # "ended"
    BY <2>1, <2>3 DEF Window!vars
  <2> QED
    BY <2>2, <2>3
<1>9. CASE PollEvents
  <2>1. rpc = "events" /\ rpc' \in {"top", "draw"}
    BY <1>9 DEF PollEvents
  <2> QED
    BY <1>9, <2>1 DEF PollEvents, Pending, Window!vars
<1>10. CASE Stop \/ Join \/ UNCHANGED rvars
  BY <1>10 DEF Stop, Join, rvars, Window!vars, Pending
<1> QED
  BY <1>3, <1>4, <1>5, <1>6, <1>7, <1>8, <1>9, <1>10
  DEF RendererNext, RenderThread, OwnerThread

LEMMA RendererImplementsDisplay == RendererSpec => ShowsInOrder
<1>1. RendererInit => Window!Init
  BY DEF RendererInit, Window!Init, Pending
<1> QED
  BY <1>1, RendererShows, RendererInvariant, PTL
  DEF RendererSpec, ShowsInOrder, Window!Spec

(* What the display promises keeps the newest picture: it is pending last,  *)
(* or shown.                                                                *)
PromiseInv == Window!NewestKept /\ Pending \in Seq(Pictures)

LEMMA NonEmpty ==
  ASSUME NEW s \in Seq(Pictures)
  PROVE  s # <<>> <=> Len(s) \in Nat \ {0}
<1>1. Len(s) \in Nat /\ (s = <<>> <=> Len(s) = 0)
  BY EmptySeq, LenProperties
<1> QED
  BY <1>1

LEMMA LastOfTail ==
  ASSUME NEW s \in Seq(Pictures), s # <<>>, Tail(s) # <<>>
  PROVE  Tail(s)[Len(Tail(s))] = s[Len(s)]
<1> DEFINE t == Tail(s)
<1>1. t \in Seq(Pictures) /\ Len(t) = Len(s) - 1
      /\ \A i \in 1..Len(t) : t[i] = s[i + 1]
  OBVIOUS
<1>2. Len(t) \in Nat \ {0} /\ Len(s) \in Nat
  BY <1>1, NonEmpty
<1> HIDE DEF t
<1>3. Len(t) \in 1..Len(t) /\ Len(t) + 1 = Len(s)
  BY <1>1, <1>2
<1>4. t[Len(t)] = s[Len(s)]
  BY <1>1, <1>3
<1> QED
  BY <1>4 DEF t

LEMMA LastOfOne ==
  ASSUME NEW s \in Seq(Pictures), s # <<>>, Tail(s) = <<>>
  PROVE  s[Len(s)] = Head(s)
<1>1. Tail(s) \in Seq(Pictures) /\ Len(Tail(s)) = Len(s) - 1 /\ Head(s) = s[1]
  BY TailType
<1>2. Len(Tail(s)) = 0 /\ Len(s) \in Nat
  BY <1>1, NonEmpty, EmptySeq, LenProperties
<1>3. Len(s) = 1
  BY <1>1, <1>2
<1> QED
  BY <1>1, <1>3

LEMMA DisplayKeepsNewest == Window!Spec => []Window!NewestKept
<1>1. Window!Init => PromiseInv
  BY DEF Window!Init, PromiseInv, Window!NewestKept
<1>2. PromiseInv /\ [Window!Next]_Window!vars => PromiseInv'
  <2> SUFFICES ASSUME PromiseInv, [Window!Next]_Window!vars
               PROVE  PromiseInv'
    OBVIOUS
  <2> USE DEF PromiseInv, Window!NewestKept
  <2>1. ASSUME NEW p \in Pictures, Window!Submit(p)
        PROVE  PromiseInv'
    BY <2>1 DEF Window!Submit
  <2>2. CASE Window!Show
    <3>1. Tail(Pending) \in Seq(Pictures) /\ Head(Pending) = Pending[1]
      BY <2>2 DEF Window!Show
    <3> QED
      BY <2>2, <3>1, LastOfTail, LastOfOne DEF Window!Show
  <2>3. CASE Window!Close
    BY <2>3 DEF Window!Close
  <2>4. CASE Window!Discard
    BY <2>4 DEF Window!Discard
  <2>5. CASE UNCHANGED Window!vars
    BY <2>5 DEF Window!vars
  <2> QED
    BY <2>1, <2>2, <2>3, <2>4, <2>5 DEF Window!Next
<1>3. PromiseInv => Window!NewestKept
  BY DEF PromiseInv
<1> QED
  BY <1>1, <1>2, <1>3, PTL DEF Window!Spec

-----------------------------------------------------------------------------
(* The whole chain.  The frames released and not yet decoded are the last   *)
(* ones of the feed, without a hole and of one epoch; unless a reset is     *)
(* pending they follow the decoder's reference, which is the frame written  *)
(* last.  That is what makes every frame written follow the one before.     *)
FeedInv ==
    /\ {last, acked, ref, written} \subseteq Pictures \cup {None}
    /\ {synced, reset, started} \subseteq BOOLEAN
    /\ ready \subseteq Pictures
    /\ synced => last # None
    /\ \A f \in ready : /\ f..last \subseteq ready
                        /\ f <= last
                        /\ Stream[f].epoch = Stream[last].epoch
    /\ ref # None => started /\ written = ref
    /\ ~ reset => /\ ref # None
                  /\ ref <= last
                  /\ ready = (ref + 1)..last
                  /\ Stream[ref].epoch = Stream[last].epoch

LEMMA Naturals == Pictures \subseteq Nat \ {0} /\ DOMAIN Stream = Pictures /\ None = 0
BY RendererAssumption, PlaybackAssumption DEF None

LEMMA FeedTypes ==
  ASSUME FeedInv
  PROVE  last \in Nat /\ ref \in Nat /\ ready \subseteq Nat \ {0}
<1>1. last \in Pictures \cup {None} /\ ref \in Pictures \cup {None} /\ ready \subseteq Pictures
  BY DEF FeedInv
<1> QED
  BY <1>1, Naturals

LEMMA InitFeedInv == Init => FeedInv
BY DEF Init, Feed!Init, FeedInv, None

LEMMA ReleaseInv ==
  ASSUME FeedInv, NEW n \in DOMAIN Stream, Release(n)
  PROVE  FeedInv'
<1>1. /\ synced /\ n > last /\ last' = n /\ synced' \in BOOLEAN /\ acked' = acked
      /\ \A k \in (last + 1)..n : k \in DOMAIN Stream /\ Stream[k].epoch = Stream[last].epoch
      /\ ready = {} /\ ready' = (last + 1)..n
      /\ UNCHANGED <<reset, ref, started, written>>
  BY DEF Release, Feed!Continue, receiver
<1>2. last \in Pictures /\ last \in Nat /\ n \in Nat \ {0}
  BY <1>1, Naturals DEF FeedInv
<1>3. Stream[n].epoch = Stream[last].epoch
  BY <1>1, <1>2
<1>4. ready' \subseteq Pictures
  BY <1>1, Naturals
<1>5. \A f \in ready' : /\ f..last' \subseteq ready'
                        /\ f <= last'
                        /\ Stream[f].epoch = Stream[last'].epoch
  BY <1>1, <1>2, <1>3
<1>6. ASSUME ~ reset
      PROVE  /\ ref <= last'
             /\ ready' = (ref + 1)..last'
             /\ Stream[ref].epoch = Stream[last'].epoch
  <2>1. ref \in Nat /\ ref <= last /\ (ref + 1)..last = {}
    BY <1>1, <1>6, Naturals DEF FeedInv
  <2>2. ref = last
    BY <1>2, <2>1
  <2> QED
    BY <1>1, <1>2, <1>3, <2>2
<1> QED
  BY <1>1, <1>2, <1>4, <1>5, <1>6, Naturals DEF FeedInv

LEMMA RestartInv ==
  ASSUME FeedInv, NEW k \in DOMAIN Stream, Restart(k)
  PROVE  FeedInv'
<1>1. k \in Pictures /\ k \in Nat \ {0}
  BY Naturals
<1>2. /\ last' = k /\ acked' = k /\ synced' = TRUE /\ ready' = {k} /\ reset' = TRUE
      /\ UNCHANGED <<ref, started, written>>
  BY DEF Restart, Feed!Resync
<1>3. k..k = {k}
  BY <1>1
<1> QED
  BY <1>1, <1>2, <1>3, Naturals DEF FeedInv

LEMMA HandedRest ==
  ASSUME FeedInv, NEW f \in DOMAIN Stream, Handed(f)
  PROVE  /\ f \in Nat \ {0} /\ f <= last
         /\ ready' = (f + 1)..last
         /\ Stream[f].epoch = Stream[last].epoch
<1>1. f \in ready /\ ready \subseteq Nat /\ f \in Nat \ {0} /\ last \in Nat
  BY FeedTypes, Naturals DEF Handed
<1>2. f..last \subseteq ready /\ f <= last /\ Stream[f].epoch = Stream[last].epoch
  BY <1>1 DEF FeedInv
<1>3. \A m \in ready : f <= m /\ m <= last
  BY DEF Handed, FeedInv
<1>4. ready = f..last
  <2>1. \A m \in ready : m \in f..last
    BY <1>1, <1>3
  <2> QED
    BY <1>2, <2>1
<1>5. ready' = ready \ {f}
  BY DEF Handed
<1> QED
  BY <1>1, <1>2, <1>4, <1>5

LEMMA DecodedInv ==
  ASSUME FeedInv, NEW f \in DOMAIN Stream, DecodeFrame(f)
  PROVE  FeedInv' /\ (written' # written => Decodable(written, written'))
<1>1. /\ f \in Nat \ {0} /\ f \in Pictures /\ f <= last
      /\ ready' = (f + 1)..last
      /\ Stream[f].epoch = Stream[last].epoch
  BY HandedRest, Naturals DEF DecodeFrame
<1>2. /\ Handed(f) /\ CanDecode(f) /\ reset' = FALSE /\ ref' = f
      /\ started' = (started \/ Stream[f].key)
      /\ written' = IF started' THEN f ELSE written
      /\ UNCHANGED <<last, synced, acked>>
  BY DEF DecodeFrame, Write, gate
<1>3. Stream[f].key \/ (~ reset /\ ref # None)
  BY <1>2 DEF CanDecode, Reference
<1>4. started' /\ written' = f
  BY <1>2, <1>3 DEF FeedInv
<1>5. ready' \subseteq ready
  BY <1>2 DEF Handed
<1>6. \A g \in ready' : /\ g..last \subseteq ready'
                        /\ g <= last
                        /\ Stream[g].epoch = Stream[last].epoch
  <2> TAKE g \in ready'
  <2>1. g \in ready /\ g \in Nat /\ last \in Nat /\ g >= f + 1
    BY <1>1, <1>5, FeedTypes
  <2> QED
    BY <1>1, <2>1 DEF FeedInv
<1>7. FeedInv'
  BY <1>1, <1>2, <1>4, <1>5, <1>6, Naturals DEF FeedInv
<1>8. ASSUME ~ Stream[f].key
      PROVE  f = written + 1 /\ written # None /\ Stream[f].epoch = Stream[written].epoch
  <2>1. /\ ~ reset /\ ref # None /\ written = ref
        /\ ready = (ref + 1)..last /\ ref \in Nat /\ last \in Nat
        /\ Stream[ref].epoch = Stream[last].epoch
    BY <1>3, <1>8, FeedTypes DEF FeedInv
  <2>2. f \in ready /\ \A m \in ready : f <= m
    BY <1>2 DEF Handed
  <2>3. f \in Nat /\ f >= ref + 1 /\ f <= last
    BY <1>1, <2>1, <2>2
  <2>4. ref + 1 \in ready
    BY <2>1, <2>3
  <2>5. f = ref + 1
    BY <2>1, <2>2, <2>3, <2>4
  <2> QED
    BY <1>1, <2>1, <2>5
<1>9. Decodable(written, written')
  BY <1>4, <1>8 DEF Decodable
<1> QED
  BY <1>7, <1>9

LEMMA FailedInv ==
  ASSUME FeedInv, NEW f \in DOMAIN Stream, DecodeFails(f)
  PROVE  FeedInv' /\ written' = written
<1>1. /\ f \in Nat \ {0} /\ f <= last
      /\ ready' = (f + 1)..last
  BY HandedRest DEF DecodeFails
<1>2. /\ Handed(f) /\ reset' = TRUE /\ ref' = Reference /\ synced' = FALSE
      /\ UNCHANGED <<last, acked, started, written>>
  BY DEF DecodeFails
<1>3. ref' \in {None, ref}
  BY <1>2 DEF Reference
<1>4. ready' \subseteq ready
  BY <1>2 DEF Handed
<1>5. \A g \in ready' : /\ g..last \subseteq ready'
                        /\ g <= last
                        /\ Stream[g].epoch = Stream[last].epoch
  <2> TAKE g \in ready'
  <2>1. g \in ready /\ g \in Nat /\ last \in Nat /\ g >= f + 1
    BY <1>1, <1>4, FeedTypes
  <2> QED
    BY <1>1, <2>1 DEF FeedInv
<1> QED
  BY <1>2, <1>3, <1>4, <1>5, Naturals DEF FeedInv

(* Every step keeps the invariant, writes only what can be decoded, and is *)
(* a step or a stutter of the renderer.                                    *)
LEMMA NextFeedInv ==
  ASSUME FeedInv, [Next]_vars
  PROVE  /\ FeedInv'
         /\ written' # written => Decodable(written, written')
         /\ [RendererNext]_rvars
<1>1. ASSUME NEW n \in DOMAIN Stream, Release(n)
      PROVE  FeedInv' /\ written' = written /\ UNCHANGED rvars
  BY <1>1, ReleaseInv DEF Release, receiver
<1>2. ASSUME NEW k \in DOMAIN Stream, Restart(k)
      PROVE  FeedInv' /\ written' = written /\ UNCHANGED rvars
  BY <1>2, RestartInv DEF Restart
<1>3. CASE Freeze
  BY <1>3 DEF Freeze, Feed!Freeze, receiver, FeedInv
<1>4. ASSUME NEW f \in DOMAIN Stream, DecodeFrame(f)
      PROVE  /\ FeedInv'
             /\ written' # written => Decodable(written, written')
             /\ RendererNext
  BY <1>4, DecodedInv, Naturals DEF DecodeFrame, RendererNext
<1>5. ASSUME NEW f \in DOMAIN Stream, DecodeFails(f)
      PROVE  FeedInv' /\ written' = written /\ UNCHANGED rvars
  BY <1>5, FailedInv DEF DecodeFails
<1>6. CASE Screen
  BY <1>6 DEF Screen, gate, receiver, FeedInv, RendererNext
<1>7. CASE UNCHANGED vars
  BY <1>7 DEF vars, gate, receiver, rvars, FeedInv
<1> QED
  BY <1>1, <1>2, <1>3, <1>4, <1>5, <1>6, <1>7 DEF Next, Gate, OnFrame

LEMMA FeedInvariant == Spec => []FeedInv
BY InitFeedInv, NextFeedInv, PTL DEF Spec

LEMMA ImplementsRenderer == Spec => RendererSpec
<1>1. Init => RendererInit
  BY DEF Init
<1> QED
  BY <1>1, NextFeedInv, FeedInvariant, PTL DEF Spec, RendererSpec

(* The types of the renderer, the receiver and the feed, and the bound of   *)
(* the renderer's queue.                                                    *)
THEOREM TypeCorrect == Spec => []TypeOK
<1>1. RendererInv /\ FeedInv => TypeOK
  BY DEF RendererInv, FeedInv, TypeOK
<1> QED
  BY <1>1, FeedInvariant, ImplementsRenderer, RendererInvariant, PTL

(* Every picture cloned for the renderer is freed when the renderer is gone, *)
(* however decoding, drawing and stopping interleave, for every queue limit. *)
THEOREM PicturesFreed == Spec => []NoPictureLeaks
<1>1. RendererInv => NoPictureLeaks
  BY DEF RendererInv, NoPictureLeaks, Held
<1> QED
  BY <1>1, ImplementsRenderer, RendererInvariant, PTL

(* The renderer implements the display: pictures are shown in the order of  *)
(* submission, a new one always comes last, whatever is skipped for it, and *)
(* none is given up but by the end of the render thread.                    *)
THEOREM ImplementsDisplay == Spec => ShowsInOrder
BY ImplementsRenderer, RendererImplementsDisplay, PTL

(* While the render thread lives, the picture submitted last is the last of *)
(* those in its hand and in the queue, or the one in the window.            *)
THEOREM NewestIsKept == Spec => []Window!NewestKept
BY ImplementsDisplay, DisplayKeepsNewest, PTL DEF ShowsInOrder

(* Every frame of the output file is a keyframe or follows, in its epoch,   *)
(* the frame written before it.                                             *)
THEOREM OutputIsDecodable == Spec => OutputDecodable
BY NextFeedInv, FeedInvariant, PTL DEF Spec, OutputDecodable
=============================================================================
