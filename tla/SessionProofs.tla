---------------------------- MODULE SessionProofs ----------------------------
(***************************************************************************)
(* Proofs about Session: its types, and that a process ends with its       *)
(* threads joined, however the main threads, the other threads, the        *)
(* connections and the network interleave.                                 *)
(***************************************************************************)
EXTENDS Session, TLAPS

(* Where the main thread stands tells which threads have been started and   *)
(* which have been joined.                                                  *)
Unstarted  == {"off", "created"}
Unmeasured == Unstarted \cup {"offer", "statistics"}

Threads(r) ==
    /\ signaling[r] = "none" <=> pc[r] \in Unstarted
    /\ statistics[r] = "none" <=> pc[r] \in Unmeasured
    /\ pc[r] \in {"joinSignaling", "joinStatistics", "ended"} => sending[r] # "running"
    /\ pc[r] \in {"joinStatistics", "ended"} => signaling[r] = "done"
    /\ pc[r] = "ended" => statistics[r] = "done"

(* The offer is the sender's and exists once: not yet made, in its hands,   *)
(* on the wire, or taken; the receiver announces nothing before it takes it. *)
OneOffer ==
    /\ pc[Receiver] # "offer"
    /\ pc[Sender] \in {"off", "created", "offer"} =>
           outbox[Sender] = <<>> /\ "offer" \notin wire[Receiver] /\ outbox[Receiver] = <<>>
    /\ outbox[Sender] = <<"offer", "candidate">> =>
           "offer" \notin wire[Receiver] /\ outbox[Receiver] = <<>>
    /\ "offer" \in wire[Receiver] => outbox[Receiver] = <<>>

SessionInv ==
    /\ TypeOK
    /\ \A r \in Role : Threads(r)
    /\ OneOffer

LEMMA Roles == /\ Sender \in Role /\ Receiver \in Role /\ Sender # Receiver
               /\ \A r \in Role : Other(r) \in Role /\ Other(r) # r /\ Other(Other(r)) = r
               /\ Description(Sender) = "offer" /\ Description(Receiver) = "answer"
BY DEF Role, Sender, Receiver, Other, Description

LEMMA InitInv == Init => SessionInv
<1> SUFFICES ASSUME Init
             PROVE  SessionInv
  OBVIOUS
<1>1. TypeOK
  BY DEF Init, TypeOK
<1>2. \A r \in Role : Threads(r)
  BY DEF Init, Threads, Unstarted, Unmeasured
<1>3. OneOffer
  BY Roles DEF Init, OneOffer
<1> QED
  BY <1>1, <1>2, <1>3 DEF SessionInv

(* The main thread: the types, then where the threads stand. *)
LEMMA MainThreadInv ==
  ASSUME SessionInv, NEW r \in Role, MainThread(r)
  PROVE  SessionInv'
<1> USE Roles DEF SessionInv
<1>1. CASE StartSignaling(r)
  BY <1>1 DEF StartSignaling, Goes, flags, link, TypeOK, Threads, Unstarted, Unmeasured, OneOffer
<1>2. CASE Offer(r)
  <2>1. r = Sender
    BY <1>2 DEF Role, Offer, Goes, OneOffer
  <2>2. /\ outbox[Sender] = <<>>
        /\ outbox' = [outbox EXCEPT ![Sender] = <<>> \o <<"offer", "candidate">>]
    BY <1>2, <2>1 DEF Offer, Announce, Goes, OneOffer
  <2>3. outbox' = [outbox EXCEPT ![Sender] = <<"offer", "candidate">>]
    BY <2>2
  <2> QED
    BY <1>2, <2>1, <2>3
    DEF Offer, Goes, threads, flags, TypeOK, Threads, Unstarted, Unmeasured, OneOffer
<1>3. CASE StartStatistics(r)
  BY <1>3 DEF StartStatistics, Goes, flags, link, TypeOK, Threads, Unstarted, Unmeasured, OneOffer
<1>4. CASE StartVideo(r)
  BY <1>4 DEF StartVideo, Goes, link, TypeOK, Threads, Unstarted, Unmeasured, OneOffer
<1>5. CASE LeaveRun(r)
  BY <1>5 DEF LeaveRun, Goes, threads, link, TypeOK, Threads, Unstarted, Unmeasured, OneOffer
<1>6. CASE StopVideo(r)
  BY <1>6 DEF StopVideo, Goes, threads, link, TypeOK, Threads, Unstarted, Unmeasured, OneOffer
<1>7. CASE StopSignaling(r)
  BY <1>7 DEF StopSignaling, Goes, threads, link, TypeOK, Threads, Unstarted, Unmeasured, OneOffer
<1>8. CASE JoinSignaling(r)
  BY <1>8 DEF JoinSignaling, Goes, threads, flags, link, TypeOK, Threads, Unstarted, Unmeasured, OneOffer
<1>9. CASE Destroy(r)
  BY <1>9 DEF Destroy, Goes, threads, flags, TypeOK, Threads, Unstarted, Unmeasured, OneOffer
<1> QED
  BY <1>1, <1>2, <1>3, <1>4, <1>5, <1>6, <1>7, <1>8, <1>9 DEF MainThread

(* A step that starts, ends and moves no thread, and leaves the offer alone *)
LEMMA ThreadsKept ==
  ASSUME SessionInv, UNCHANGED <<pc, threads>>
  PROVE  \A r \in Role : Threads(r)'
BY DEF SessionInv, Threads, threads

(* What the same steps must keep of the types *)
LinkTypes ==
    /\ remote \in [Role -> BOOLEAN] /\ candidate \in [Role -> BOOLEAN]
    /\ peer \in [Role -> {"new", "connected", "down", "closed"}]
    /\ DOMAIN outbox = Role /\ DOMAIN wire = Role /\ DOMAIN disturbed = Role
    /\ \A r \in Role :
           /\ outbox[r] \in {<<>>, <<"candidate">>, <<Description(r), "candidate">>}
           /\ wire[r] \subseteq Messages(Other(r))
           /\ disturbed[r] \subseteq Messages(Other(r))

LEMMA LinkTyped == TypeOK => LinkTypes
BY DEF TypeOK, LinkTypes

LEMMA LinkStep ==
  ASSUME SessionInv, UNCHANGED <<pc, threads, flags>>, LinkTypes', OneOffer'
  PROVE  SessionInv'
<1>1. TypeOK'
  BY DEF SessionInv, TypeOK, LinkTypes, threads, flags
<1> QED
  BY <1>1, ThreadsKept DEF SessionInv

LEMMA OneTaken ==
  ASSUME NEW S, NEW a \in S, NEW b \in S
  PROVE  /\ Head(<<b>>) = b /\ Tail(<<b>>) = <<>>
         /\ Head(<<a, b>>) = a /\ Tail(<<a, b>>) = <<b>>
OBVIOUS

LEMMA SignalingThreadInv ==
  ASSUME SessionInv, NEW r \in Role, SignalingThread(r)
  PROVE  SessionInv'
<1> USE Roles DEF SessionInv
<1>1. CASE SignalingEnds(r)
  BY <1>1 DEF SignalingEnds, flags, link, TypeOK, Threads, Unstarted, Unmeasured, OneOffer
<1>2. ASSUME NEW m \in Messages(Other(r)), Receive(r, m)
      PROVE  SessionInv'
  <2>1. CASE m = "candidate"
    <3>1. /\ wire' = [wire EXCEPT ![r] = @ \ {m}]
          /\ candidate' = candidate \/ candidate' = [candidate EXCEPT ![r] = TRUE]
          /\ \/ disturbed' = disturbed
             \/ disturbed' = [disturbed EXCEPT ![r] = @ \cup {m}]
          /\ UNCHANGED <<pc, threads, flags, peer, remote, outbox>>
      BY <1>2, <2>1 DEF Receive, TakeCandidate
    <3>2. candidate' \in [Role -> BOOLEAN]
      BY <3>1 DEF TypeOK
    <3>3. \A q \in Role : /\ wire'[q] \subseteq Messages(Other(q))
                          /\ disturbed'[q] \subseteq Messages(Other(q))
      BY <1>2, <3>1, LinkTyped DEF LinkTypes
    <3>4. LinkTypes'
      BY <3>1, <3>2, <3>3, LinkTyped DEF LinkTypes
    <3>5. OneOffer'
      BY <3>1 DEF TypeOK, OneOffer
    <3> QED
      BY <3>1, <3>4, <3>5, LinkStep
  <2>2. CASE m # "candidate" /\ r = Sender
    <3>1. /\ wire' = [wire EXCEPT ![r] = @ \ {m}]
          /\ remote' = [remote EXCEPT ![r] = TRUE]
          /\ UNCHANGED <<pc, threads, flags, peer, outbox, candidate, disturbed>>
      BY <1>2, <2>2, Roles DEF Receive, TakeDescription
    <3>2. LinkTypes'
      BY <3>1, LinkTyped DEF LinkTypes
    <3>3. OneOffer'
      BY <3>1 DEF TypeOK, OneOffer
    <3> QED
      BY <3>1, <3>2, <3>3, LinkStep
  <2>3. CASE m # "candidate" /\ r # Sender
    <3>1. r = Receiver /\ m = "offer"
      BY <1>2, <2>3 DEF Role, Messages
    <3>2. /\ outbox[Receiver] = <<>>
          /\ outbox' = [outbox EXCEPT ![Receiver] = <<>> \o <<"answer", "candidate">>]
          /\ outbox[Sender] # <<"offer", "candidate">>
          /\ pc[Sender] \notin {"off", "created", "offer"}
      BY <1>2, <3>1 DEF Receive, TakeDescription, Announce, OneOffer
    <3>3. outbox' = [outbox EXCEPT ![Receiver] = <<"answer", "candidate">>]
      BY <3>2
    <3>4. /\ wire' = [wire EXCEPT ![Receiver] = @ \ {"offer"}]
          /\ remote' = [remote EXCEPT ![Receiver] = TRUE]
          /\ UNCHANGED <<pc, threads, flags, peer, candidate, disturbed>>
      BY <1>2, <3>1 DEF Receive, TakeDescription
    <3>5. TypeOK'
      BY <3>3, <3>4 DEF TypeOK, threads, flags
    <3>6. OneOffer'
      BY <3>2, <3>3, <3>4 DEF TypeOK, OneOffer
    <3> QED
      BY <3>4, <3>5, <3>6, ThreadsKept
  <2> QED
    BY <2>1, <2>2, <2>3
<1> QED
  BY <1>1, <1>2 DEF SignalingThread

LEMMA PeerInv ==
  ASSUME SessionInv, NEW r \in Role, Peer(r)
  PROVE  SessionInv'
<1> USE Roles DEF SessionInv
<1>1. CASE SendSignal(r)
  <2>1. outbox[r] \in {<<"candidate">>, <<Description(r), "candidate">>}
    BY <1>1 DEF SendSignal, TypeOK
  <2>2. /\ outbox[r] = <<"candidate">> => Head(outbox[r]) = "candidate" /\ Tail(outbox[r]) = <<>>
        /\ outbox[r] = <<Description(r), "candidate">> =>
             Head(outbox[r]) = Description(r) /\ Tail(outbox[r]) = <<"candidate">>
    <3> DEFINE S == {"offer", "answer", "candidate"}
    <3>1. Description(r) \in S /\ "candidate" \in S
      BY DEF Description
    <3> HIDE DEF S
    <3>2. /\ Head(<<"candidate">>) = "candidate" /\ Tail(<<"candidate">>) = <<>>
          /\ Head(<<Description(r), "candidate">>) = Description(r)
          /\ Tail(<<Description(r), "candidate">>) = <<"candidate">>
      BY <3>1, OneTaken
    <3> QED
      BY <3>2
  <2>3. /\ Head(outbox[r]) \in Messages(r)
        /\ Tail(outbox[r]) \in {<<>>, <<"candidate">>}
        /\ Head(outbox[r]) = "offer" => r = Sender /\ outbox[r] = <<"offer", "candidate">>
    BY <2>1, <2>2 DEF Messages, Description, Role
  <2> DEFINE m == Head(outbox[r])
             t == Tail(outbox[r])
  <2>4. /\ outbox' = [outbox EXCEPT ![r] = t]
        /\ \/ wire' = [wire EXCEPT ![Other(r)] = @ \cup {m}] /\ UNCHANGED disturbed
           \/ disturbed' = [disturbed EXCEPT ![Other(r)] = @ \cup {m}] /\ UNCHANGED wire
        /\ UNCHANGED <<pc, threads, flags, peer, remote, candidate>>
    BY <1>1 DEF SendSignal
  <2>5. t # <<"offer", "candidate">>
    BY <2>3
  <2> HIDE DEF m, t
  <2>6. TypeOK'
    BY <2>3, <2>4 DEF TypeOK, threads, flags, m, t
  <2>7. \A q \in Role : Threads(q)'
    BY <2>4 DEF Threads, threads
  <2>8. OneOffer'
    BY <2>3, <2>4, <2>5 DEF OneOffer, TypeOK, Messages, m, t, Role
  <2> QED
    BY <2>6, <2>7, <2>8
<1>2. CASE Connect(r)
  <2>1. /\ peer' = [peer EXCEPT ![r] = "connected"]
        /\ UNCHANGED <<pc, threads, flags, remote, candidate, outbox, wire, disturbed>>
    BY <1>2 DEF Connect
  <2> QED
    BY <2>1, ThreadsKept DEF threads, flags, TypeOK, OneOffer
<1>3. CASE PeerDown(r) \/ Outage(r)
  <2>1. /\ peer' = [peer EXCEPT ![r] = "down"]
        /\ stopping' = [stopping EXCEPT ![r] = TRUE]
        /\ UNCHANGED <<pc, threads, interrupted, signalingStop, sendingStop,
                       remote, candidate, outbox, wire, disturbed>>
    BY <1>3 DEF PeerDown, Outage, Reported
  <2>2. stopping' \in [Role -> BOOLEAN] /\ LinkTypes'
    BY <2>1 DEF TypeOK, LinkTypes
  <2>3. TypeOK'
    BY <2>1, <2>2 DEF TypeOK, LinkTypes, threads
  <2>4. OneOffer'
    BY <2>1 DEF OneOffer
  <2> QED
    BY <2>1, <2>3, <2>4, ThreadsKept
<1>4. CASE TrackCloses(r)
  BY <1>4 DEF TrackCloses, threads, link, TypeOK, Threads, OneOffer
<1> QED
  BY <1>1, <1>2, <1>3, <1>4 DEF Peer

LEMMA NextInv ==
  ASSUME SessionInv, [Next]_vars
  PROVE  SessionInv'
<1> USE Roles DEF SessionInv
<1>1. ASSUME NEW r \in Role, Create(r)
      PROVE  SessionInv'
  BY <1>1
  DEF Create, Goes, threads, flags, link, TypeOK, Threads, Unstarted, Unmeasured, OneOffer
<1>2. ASSUME NEW r \in Role, Interrupt(r)
      PROVE  SessionInv'
  BY <1>2 DEF Interrupt, threads, link, TypeOK, Threads, OneOffer
<1>3. ASSUME NEW r \in Role, StatisticsEnds(r)
      PROVE  SessionInv'
  BY <1>3 DEF StatisticsEnds, flags, link, TypeOK, Threads, Unmeasured, OneOffer
<1>4. ASSUME NEW r \in Role, SendingEnds(r)
      PROVE  SessionInv'
  BY <1>4 DEF SendingEnds, flags, link, TypeOK, Threads, OneOffer
<1>5. ASSUME NEW r \in Role, NEW m \in Messages(Other(r)), LoseDatagram(r, m)
      PROVE  SessionInv'
  BY <1>5 DEF LoseDatagram, threads, flags, TypeOK, Threads, OneOffer
<1>6. CASE UNCHANGED vars
  BY <1>6 DEF vars, threads, flags, link, TypeOK, Threads, OneOffer
<1> QED
  BY <1>1, <1>2, <1>3, <1>4, <1>5, <1>6, MainThreadInv, SignalingThreadInv, PeerInv DEF Next

LEMMA SessionInvariant == Spec => []SessionInv
BY InitInv, NextInv, PTL DEF Spec

(* The types; with them, that neither side ever has more to send than one   *)
(* description and one candidate.                                           *)
THEOREM TypeCorrect == Spec => []TypeOK
BY SessionInvariant, PTL DEF SessionInv

(* When a process ends its signaling, statistics and sending threads have   *)
(* ended: whatever closes the track, the connection or the process first.   *)
THEOREM AllThreadsJoined == Spec => []ThreadsJoined
<1>1. SessionInv => ThreadsJoined
  BY DEF SessionInv, Threads, ThreadsJoined
<1> QED
  BY <1>1, SessionInvariant, PTL
=============================================================================
