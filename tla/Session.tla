------------------------------ MODULE Session ------------------------------
(***************************************************************************)
(* The two processes of a call, WebRtcSession over UdpSignaling: start,    *)
(* signaling, connection and shutdown.  Each process has the main thread   *)
(* (run), the signaling thread, the statistics thread, in the sender the   *)
(* send loop, and the callbacks of the PeerConnection.                     *)
(*                                                                         *)
(* Signaling is one datagram for the description and one for the           *)
(* candidate, sent once each.  The constructor binds the socket, so a      *)
(* datagram waits in it until the signaling thread runs; one sent before   *)
(* the socket is bound is lost.  The network loses and reorders.  The      *)
(* PeerConnection is libdatachannel's: it connects once both sides have    *)
(* the other's description and one has the other's candidate, refuses a    *)
(* candidate that comes before the description, and goes down when the     *)
(* other side is gone or no candidate is left to wait for.                 *)
(***************************************************************************)
EXTENDS Sequences

Sender == "sender"
Receiver == "receiver"
Role == {Sender, Receiver}
Other(r) == IF r = Sender THEN Receiver ELSE Sender

Description(r) == IF r = Sender THEN "offer" ELSE "answer"
Messages(r) == {Description(r), "candidate"}     \* what r sends

VARIABLES
    pc,           \* the main thread: "off", then the steps of main and run, "ended"
    signaling,    \* receive_thread_: "none", "running", "done"
    statistics,   \* stats_thread: "none", "running", "done"
    sending,      \* the send loop: "none", "running", "done"
    interrupted,  \* g_stop_requested
    stopping,     \* WebRtcSession::stopping_
    signalingStop,\* UdpSignaling::stopping_
    sendingStop,  \* VideoSender::stopping_
    peer,         \* pc_: "new", "connected", "down" (and reported so), "closed"
    remote,       \* pc_ has the remote description
    candidate,    \* pc_ has a remote candidate
    outbox,       \* what pc_ still has to hand to signaling_.send
    wire,         \* datagrams on their way to, or waiting at, a role's socket
    disturbed     \* history: datagrams to a role lost, or refused as overtaking

threads == <<signaling, statistics, sending>>
flags == <<interrupted, stopping, signalingStop, sendingStop>>
link == <<peer, remote, candidate, outbox, wire, disturbed>>
vars == <<pc, threads, flags, link>>

Bound(r) == pc[r] \notin {"off", "ended"}

-----------------------------------------------------------------------------
(* The main thread *)

Goes(r, from, to) ==
    /\ pc[r] = from
    /\ pc' = [pc EXCEPT ![r] = to]

(* The constructor: the socket is bound, pc_ made, callbacks set. *)
Create(r) ==
    /\ Goes(r, "off", "created")
    /\ UNCHANGED <<threads, flags, link>>

StartSignaling(r) ==
    /\ Goes(r, "created", IF r = Sender THEN "offer" ELSE "statistics")
    /\ signaling' = [signaling EXCEPT ![r] = "running"]
    /\ UNCHANGED <<statistics, sending, flags, link>>

(* setLocalDescription: pc_ reports the description, then the candidate. *)
Announce(r) == outbox' = [outbox EXCEPT ![r] = @ \o <<Description(r), "candidate">>]

Offer(r) ==
    /\ Goes(r, "offer", "statistics")
    /\ Announce(r)
    /\ UNCHANGED <<threads, flags, peer, remote, candidate, wire, disturbed>>

StartStatistics(r) ==
    /\ Goes(r, "statistics", IF r = Sender THEN "video" ELSE "run")
    /\ statistics' = [statistics EXCEPT ![r] = "running"]
    /\ UNCHANGED <<signaling, sending, flags, link>>

(* VideoSender::start: clears a stop that a closed track has already set. *)
StartVideo(r) ==
    /\ Goes(r, "video", "run")
    /\ sendingStop' = [sendingStop EXCEPT ![r] = FALSE]
    /\ sending' = [sending EXCEPT ![r] = "running"]
    /\ UNCHANGED <<signaling, statistics, interrupted, stopping, signalingStop, link>>

LeaveRun(r) ==
    /\ Goes(r, "run", "stopVideo")
    /\ stopping[r] \/ interrupted[r]
    /\ stopping' = [stopping EXCEPT ![r] = TRUE]
    /\ UNCHANGED <<threads, interrupted, signalingStop, sendingStop, link>>

(* Mutant: stop trusts the flag that the closed track has set. *)
StopVideoUnflagged(r) ==
    /\ Goes(r, "stopVideo", "joinVideo")
    /\ sendingStop' = [sendingStop EXCEPT ![r] = @ \/ peer[r] # "down"]
    /\ UNCHANGED <<threads, interrupted, stopping, signalingStop, link>>

(* VideoSender::stop, which the receiver calls too, without a thread. *)
StopVideo(r) ==
    /\ Goes(r, "stopVideo", "joinVideo")
    /\ sendingStop' = [sendingStop EXCEPT ![r] = TRUE]
    /\ UNCHANGED <<threads, interrupted, stopping, signalingStop, link>>

(* The send loop has been joined; UdpSignaling::stop. *)
StopSignaling(r) ==
    /\ Goes(r, "joinVideo", "joinSignaling")
    /\ sending[r] # "running"
    /\ signalingStop' = [signalingStop EXCEPT ![r] = TRUE]
    /\ UNCHANGED <<threads, interrupted, stopping, sendingStop, link>>

JoinSignaling(r) ==
    /\ Goes(r, "joinSignaling", "joinStatistics")
    /\ signaling[r] = "done"
    /\ UNCHANGED <<threads, flags, link>>

(* Mutant: the statistics thread is left to itself. *)
DestroyUnjoined(r) ==
    /\ Goes(r, "joinStatistics", "ended")
    /\ peer' = [peer EXCEPT ![r] = "closed"]
    /\ UNCHANGED <<threads, flags, remote, candidate, outbox, wire, disturbed>>

(* The statistics thread has been joined; ~WebRtcSession, whose stops find *)
(* nothing to do: pc_ is closed.                                           *)
Destroy(r) ==
    /\ Goes(r, "joinStatistics", "ended")
    /\ statistics[r] = "done"
    /\ peer' = [peer EXCEPT ![r] = "closed"]
    /\ UNCHANGED <<threads, flags, remote, candidate, outbox, wire, disturbed>>

MainThread(r) ==
    \/ StartSignaling(r) \/ Offer(r) \/ StartStatistics(r) \/ StartVideo(r) \/ LeaveRun(r)
    \/ StopVideo(r) \/ StopSignaling(r) \/ JoinSignaling(r) \/ Destroy(r)

(* SIGINT or SIGTERM *)
Interrupt(r) ==
    /\ Bound(r)
    /\ interrupted' = [interrupted EXCEPT ![r] = TRUE]
    /\ UNCHANGED <<pc, threads, stopping, signalingStop, sendingStop, link>>

-----------------------------------------------------------------------------
(* The signaling thread: waits in select, 200 ms at a time.  One datagram   *)
(* may still be taken by a select that began before the stop; that it may   *)
(* be several here adds nothing.                                            *)

SignalingEnds(r) ==
    /\ signaling[r] = "running"
    /\ signalingStop[r] \/ interrupted[r]
    /\ signaling' = [signaling EXCEPT ![r] = "done"]
    /\ UNCHANGED <<pc, statistics, sending, flags, link>>

(* Mutant: any description is answered with a description. *)
TakeDescriptionAlwaysAnswering(r) ==
    /\ remote' = [remote EXCEPT ![r] = TRUE]
    /\ Announce(r)
    /\ UNCHANGED <<candidate, disturbed>>

(* Mutant: the receiver does not answer. *)
TakeDescriptionSilently(r) ==
    /\ remote' = [remote EXCEPT ![r] = TRUE]
    /\ UNCHANGED <<outbox, candidate, disturbed>>

(* setRemoteDescription; the receiver answers the offer. *)
TakeDescription(r) ==
    /\ remote' = [remote EXCEPT ![r] = TRUE]
    /\ IF r = Receiver THEN Announce(r) ELSE UNCHANGED outbox
    /\ UNCHANGED <<candidate, disturbed>>

(* addRemoteCandidate: throws, and is caught, before the description. *)
TakeCandidate(r) ==
    /\ IF remote[r]
       THEN candidate' = [candidate EXCEPT ![r] = TRUE] /\ UNCHANGED disturbed
       ELSE disturbed' = [disturbed EXCEPT ![r] = @ \cup {"candidate"}] /\ UNCHANGED candidate
    /\ UNCHANGED <<remote, outbox>>

Receive(r, m) ==
    /\ signaling[r] = "running"
    /\ m \in wire[r]
    /\ wire' = [wire EXCEPT ![r] = @ \ {m}]
    /\ IF m = "candidate" THEN TakeCandidate(r) ELSE TakeDescription(r)
    /\ UNCHANGED <<pc, threads, flags, peer>>

SignalingThread(r) ==
    \/ SignalingEnds(r)
    \/ \E m \in Messages(Other(r)) : Receive(r, m)

-----------------------------------------------------------------------------
(* The statistics thread and the send loop: here, when they end. *)

StatisticsEnds(r) ==
    /\ statistics[r] = "running"
    /\ stopping[r]
    /\ statistics' = [statistics EXCEPT ![r] = "done"]
    /\ UNCHANGED <<pc, signaling, sending, flags, link>>

SendingEnds(r) ==
    /\ sending[r] = "running"
    /\ sendingStop[r]
    /\ sending' = [sending EXCEPT ![r] = "done"]
    /\ UNCHANGED <<pc, signaling, statistics, flags, link>>

-----------------------------------------------------------------------------
(* The PeerConnection and its callbacks *)

(* onLocalDescription, onLocalCandidate: signaling_.send. *)
SendSignal(r) ==
    LET m == Head(outbox[r]) IN
    /\ outbox[r] # <<>>
    /\ peer[r] # "closed"
    /\ outbox' = [outbox EXCEPT ![r] = Tail(@)]
    /\ IF Bound(Other(r))
       THEN wire' = [wire EXCEPT ![Other(r)] = @ \cup {m}] /\ UNCHANGED disturbed
       ELSE disturbed' = [disturbed EXCEPT ![Other(r)] = @ \cup {m}] /\ UNCHANGED wire
    /\ UNCHANGED <<pc, threads, flags, peer, remote, candidate>>

Gone(r) == peer[r] \in {"down", "closed"}

Connect(r) ==
    /\ peer[r] = "new"
    /\ ~ Gone(Other(r))
    /\ \A q \in Role : remote[q]
    /\ \E q \in Role : candidate[q]
    /\ peer' = [peer EXCEPT ![r] = "connected"]
    /\ UNCHANGED <<pc, threads, flags, remote, candidate, outbox, wire, disturbed>>

(* No answer, or no candidate, can still come. *)
Hopeless(r) ==
    /\ remote[r]
    /\ \/ "answer" \in disturbed[Sender]
       \/ \A q \in Role : "candidate" \in disturbed[q]

Reported(r) ==
    /\ peer' = [peer EXCEPT ![r] = "down"]
    /\ stopping' = [stopping EXCEPT ![r] = TRUE]
    /\ UNCHANGED <<pc, threads, interrupted, signalingStop, sendingStop,
                   remote, candidate, outbox, wire, disturbed>>

(* Mutant: onStateChange heeds a connection that failed, not one that ended. *)
PeerDownIfNew(r) ==
    /\ peer[r] = "new" /\ (Hopeless(r) \/ (remote[r] /\ Gone(Other(r))))
    /\ Reported(r)

(* onStateChange: Disconnected, Failed or Closed, found out by timeouts. *)
PeerDown(r) ==
    /\ \/ peer[r] = "new" /\ (Hopeless(r) \/ (remote[r] /\ Gone(Other(r))))
       \/ peer[r] = "connected" /\ Gone(Other(r))
    /\ Reported(r)

(* The media path fails for long enough. *)
Outage(r) ==
    /\ \A q \in Role : peer[q] = "connected"
    /\ Reported(r)

(* onClosed of the sender's track: stops the send loop. *)
TrackCloses(r) ==
    /\ r = Sender
    /\ peer[r] = "down" \/ (peer[r] = "connected" /\ Gone(Other(r)))
    /\ sendingStop' = [sendingStop EXCEPT ![r] = TRUE]
    /\ UNCHANGED <<pc, threads, interrupted, stopping, signalingStop, link>>

Peer(r) == SendSignal(r) \/ Connect(r) \/ PeerDown(r) \/ Outage(r) \/ TrackCloses(r)

LoseDatagram(r, m) ==
    /\ m \in wire[r]
    /\ wire' = [wire EXCEPT ![r] = @ \ {m}]
    /\ disturbed' = [disturbed EXCEPT ![r] = @ \cup {m}]
    /\ UNCHANGED <<pc, threads, flags, peer, remote, candidate, outbox>>

-----------------------------------------------------------------------------
Init ==
    /\ pc = [r \in Role |-> "off"]
    /\ signaling = [r \in Role |-> "none"]
    /\ statistics = [r \in Role |-> "none"]
    /\ sending = [r \in Role |-> "none"]
    /\ interrupted = [r \in Role |-> FALSE]
    /\ stopping = [r \in Role |-> FALSE]
    /\ signalingStop = [r \in Role |-> FALSE]
    /\ sendingStop = [r \in Role |-> FALSE]
    /\ peer = [r \in Role |-> "new"]
    /\ remote = [r \in Role |-> FALSE]
    /\ candidate = [r \in Role |-> FALSE]
    /\ outbox = [r \in Role |-> <<>>]
    /\ wire = [r \in Role |-> {}]
    /\ disturbed = [r \in Role |-> {}]

Next ==
    \E r \in Role :
        \/ Create(r) \/ MainThread(r) \/ Interrupt(r)
        \/ SignalingThread(r) \/ StatisticsEnds(r) \/ SendingEnds(r)
        \/ Peer(r)
        \/ \E m \in Messages(Other(r)) : LoseDatagram(r, m)

Spec == Init /\ [][Next]_vars

(* Threads run, a wait in select ends with a datagram or after 200 ms, and  *)
(* the connection's timeouts end.                                           *)
FairSpec ==
    /\ Spec
    /\ \A r \in Role :
           /\ WF_vars(MainThread(r))
           /\ WF_vars(SignalingThread(r))
           /\ WF_vars(StatisticsEnds(r)) /\ WF_vars(SendingEnds(r))
           /\ WF_vars(SendSignal(r)) /\ WF_vars(Connect(r)) /\ WF_vars(PeerDown(r))

-----------------------------------------------------------------------------
(* Types; a side never has more to send than one description and one       *)
(* candidate after it: it does not negotiate twice.                        *)
TypeOK ==
    /\ pc \in [Role -> {"off", "created", "offer", "statistics", "video", "run", "stopVideo",
                        "joinVideo", "joinSignaling", "joinStatistics", "ended"}]
    /\ signaling \in [Role -> {"none", "running", "done"}]
    /\ statistics \in [Role -> {"none", "running", "done"}]
    /\ sending \in [Role -> {"none", "running", "done"}]
    /\ {interrupted, stopping, signalingStop, sendingStop, remote, candidate}
           \subseteq [Role -> BOOLEAN]
    /\ peer \in [Role -> {"new", "connected", "down", "closed"}]
    /\ DOMAIN outbox = Role /\ DOMAIN wire = Role /\ DOMAIN disturbed = Role
    /\ \A r \in Role :
           /\ outbox[r] \in {<<>>, <<"candidate">>, <<Description(r), "candidate">>}
           /\ wire[r] \subseteq Messages(Other(r))
           /\ disturbed[r] \subseteq Messages(Other(r))

(* When a process ends, none of its threads is left running: the program   *)
(* would be terminated by the destructor of a thread never joined, or the  *)
(* thread would use a session that is gone.                                *)
ThreadsJoined ==
    \A r \in Role : pc[r] = "ended" =>
        /\ signaling[r] = "done"
        /\ statistics[r] = "done"
        /\ sending[r] # "running"

Undisturbed == \A r \in Role : ~ interrupted[r] /\ disturbed[r] = {}

(* "Start the receiver first" (README): an offer about to be sent is       *)
(* followed by a connection on both sides, unless somebody is interrupted, *)
(* or the network loses or reorders a datagram or finds no socket for it.  *)
Connects ==
    outbox[Sender] = <<"offer", "candidate">>
        ~> ((\A r \in Role : peer[r] = "connected") \/ ~ Undisturbed)

(* A process asked to stop, at whatever step, or whose connection went     *)
(* down, ends with its threads joined, whatever the other one does.        *)
Shutdown ==
    \A r \in Role : (Bound(r) /\ (interrupted[r] \/ stopping[r])) ~> pc[r] = "ended"

(* Once connected, neither process outlives the other for ever.            *)
PeerFollows ==
    \A r \in Role :
        (peer[r] = "connected" /\ pc[Other(r)] = "ended") ~> pc[r] = "ended"
=============================================================================
