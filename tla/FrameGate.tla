----------------------------- MODULE FrameGate -----------------------------
(***************************************************************************)
(* The receiving half of VideoTransportHandler and the calls VideoReceiver *)
(* makes into it.  The handler sits in the media chain before the H264     *)
(* depacketizer: it collects RTP packets by frame, passes on only complete *)
(* frames in order, asks for missing packets (NACK), and after a frame     *)
(* times out passes nothing until a complete keyframe.                     *)
(*                                                                         *)
(* Three threads meet here.  The RTC thread runs receiver_incoming, then   *)
(* receiver_poll, then the decoder callback for each frame it released     *)
(* (pc tells where it is).  The recovery thread polls for due NACKs at any *)
(* moment.  Time passes between any two steps.  Everything inside one hold *)
(* of mutex_ is one action.                                                *)
(*                                                                         *)
(* The network is the environment: any packet of any frame of the sender's *)
(* stream may arrive, at any moment and any number of times.  That covers  *)
(* loss, reordering, duplicates, and packets retransmitted as RTX, which   *)
(* RtxReceivingHandler turns back into the original packet.                *)
(***************************************************************************)
EXTENDS Integers, FiniteSets, Functions

CONSTANTS
    Stream,             \* frame id -> [epoch, key, count]: the sender's labels
    MaxBufferedFrames,  \* kMaxBufferedFrames
    RecoveryTimeout,    \* recovery_timeout_us_, in ticks
    NackDelay,          \* kNackDelayUs, in ticks
    NackRetry,          \* kNackRetryUs, in ticks
    PlainRtp            \* whether RTP without frame metadata may arrive

Labels == [epoch : Nat \ {0}, key : BOOLEAN, count : Nat \ {0}]

(* Frame ids and epochs start at 1: next_frame_id_ is 1 and               *)
(* set_outgoing_frame keeps the epoch at 1 or more.                        *)
ASSUME GateAssumption ==
    /\ DOMAIN Stream \subseteq Nat \ {0}
    /\ Stream \in [DOMAIN Stream -> Labels]
    /\ MaxBufferedFrames \in Nat \ {0}
    /\ RecoveryTimeout \in Nat \ {0}
    /\ NackDelay \in Nat
    /\ NackRetry \in Nat \ {0}
    /\ PlainRtp \in BOOLEAN

VARIABLES
    epoch,    \* receiver_epoch_, 0 while unset
    next,     \* next_output_frame_id_, 0 while unset
    frames,   \* frames_: frame id -> assembly
    synced,   \* stats_.synchronized
    pc,       \* the RTC thread: "idle", "poll" or "decode"
    ready,    \* ids of the frames released and not yet given to the decoder
    reset,    \* VideoReceiver::reset_decoder_
    last,     \* id of the frame released most recently, 0 before the first
    acked     \* the keyframe last acknowledged, 0 before the first

gate == <<epoch, next, frames, synced, last, acked>>
vars == <<epoch, next, frames, synced, pc, ready, reset, last, acked>>

-----------------------------------------------------------------------------
(* Frame assemblies.  An assembly's packet slots are the set got of the    *)
(* indices received; ages count ticks and saturate, since the code only    *)
(* compares them with its three delays.                                    *)

MaxAge == IF RecoveryTimeout > NackDelay THEN RecoveryTimeout ELSE NackDelay
Never  == -1

Assembly == [epoch : Nat \ {0}, key : BOOLEAN, count : Nat,
             got : SUBSET Nat, age : 0..MaxAge, nack : Never..NackRetry]

(* The assembly of a frame whose first packet carries label l. *)
NewAssembly(l) ==
    [epoch |-> l.epoch, key |-> l.key, count |-> l.count,
     got |-> {}, age |-> 0, nack |-> Never]

(* Mutant: the entry made for a missing frame is not given its epoch. *)
PlaceholderUnlabelled(e) ==
    [epoch |-> 0, key |-> FALSE, count |-> 0,
     got |-> {}, age |-> 0, nack |-> Never]

(* The entry made for a frame of which nothing has arrived: a higher id has *)
(* been seen, so the frame is missing; its packet count is not known.       *)
Placeholder(e) ==
    [epoch |-> e, key |-> FALSE, count |-> 0,
     got |-> {}, age |-> 0, nack |-> Never]

Complete(a) == a.count # 0 /\ a.got = 0..(a.count - 1)
MarkerSeen(a) == a.count - 1 \in a.got

(* Mutant: the timeout spares a frame of which nothing arrived. *)
ExpiredInPart(a) == a.count # 0 /\ a.age >= RecoveryTimeout

Expired(a) == a.age >= RecoveryTimeout

(* Mutant: only a frame whose last packet arrived has its holes requested. *)
MarkerOnly(a) == MarkerSeen(a)

(* Its remaining packets are late: its last one came, or it waited enough. *)
HasHoles(a) == MarkerSeen(a) \/ a.age >= NackDelay

NackDue(a) ==
    /\ a.count # 0
    /\ ~ Complete(a)
    /\ HasHoles(a)
    /\ a.nack = Never \/ a.nack >= NackRetry
    /\ ~ Expired(a)

Without(buffer, S) == Restrict(buffer, DOMAIN buffer \ S)

-----------------------------------------------------------------------------
(* process_receiver_packet                                                 *)

(* The ids between the position and the frame that just showed up, admitted *)
(* in order as long as there is room.                                       *)
Admitted(buffer, from, f) ==
    LET gap == (from..(f - 1)) \ DOMAIN buffer
    IN  {m \in gap : Cardinality(DOMAIN buffer)
                       + Cardinality({k \in gap : k < m}) < MaxBufferedFrames}

AddPlaceholders(buffer, from, f) ==
    LET new == Admitted(buffer, from, f)
    IN  [m \in DOMAIN buffer \cup new |->
            IF m \in new THEN Placeholder(Stream[f].epoch) ELSE buffer[m]]

(* The buffer holds an assembly for f that disagrees with the packet. *)
Conflict(buffer, f) ==
    /\ f \in DOMAIN buffer
    /\ \/ buffer[f].count # Stream[f].count
       \/ buffer[f].epoch # Stream[f].epoch
       \/ buffer[f].key # Stream[f].key

Store(buffer, f, i) ==
    LET a == IF f \in DOMAIN buffer THEN buffer[f] ELSE NewAssembly(Stream[f])
    IN  [m \in DOMAIN buffer \cup {f} |->
            IF m = f THEN [a EXCEPT !.got = @ \cup {i}] ELSE buffer[m]]

(* Over the limit the oldest ids are evicted. *)
Overflowing(buffer) == Cardinality(DOMAIN buffer) > MaxBufferedFrames

(* Mutant: one entry too many survives. *)
EvictLate(buffer) ==
    Restrict(buffer, {m \in DOMAIN buffer :
        Cardinality({k \in DOMAIN buffer : k > m}) <= MaxBufferedFrames})

EvictOldest(buffer) ==
    Restrict(buffer, {m \in DOMAIN buffer :
        Cardinality({k \in DOMAIN buffer : k > m}) < MaxBufferedFrames})

-----------------------------------------------------------------------------
(* drain_complete_frames, on the buffer, the position and the sync flag    *)
(* left by the packets of this call.                                       *)

(* Mutant: a frame is released and the complete ones after it stay. *)
StopsEarly(buffer, pos, stop) ==
    /\ \A m \in pos..(stop - 1) : m \in DOMAIN buffer /\ Complete(buffer[m])

(* The run of complete frames from the position on ends before stop. *)
StopsAt(buffer, pos, stop) ==
    /\ \A m \in pos..(stop - 1) : m \in DOMAIN buffer /\ Complete(buffer[m])
    /\ ~ (stop \in DOMAIN buffer /\ Complete(buffer[stop]))

(* Synchronized: release the complete frames from the position on; if the  *)
(* frame that stops the run has timed out, skip it and lose sync.          *)
DrainInSync(buffer, pos) ==
    \E stop \in pos..(pos + Cardinality(DOMAIN buffer)) :
        /\ StopsAt(buffer, pos, stop)
        /\ LET skip == stop \in DOMAIN buffer /\ Expired(buffer[stop])
               after == IF skip THEN stop + 1 ELSE stop
           IN  /\ frames' = Without(buffer, pos..(after - 1))
               /\ next' = after
               /\ synced' = ~ skip
        /\ ready' = pos..(stop - 1)
        /\ last' = IF stop > pos THEN stop - 1 ELSE last
        /\ UNCHANGED <<acked, reset>>

(* Mutant: any complete frame restarts the feed. *)
WholeFrames(buffer) == {m \in DOMAIN buffer : Complete(buffer[m])}

Keyframes(buffer) == {m \in DOMAIN buffer : Complete(buffer[m]) /\ buffer[m].key}

(* Mutant: the callback is not called. *)
NoSyncRestored == UNCHANGED reset

(* The callback VideoReceiver registers: the decoder is to be reset. *)
SyncRestored == reset' = TRUE

(* Not synchronized: the first complete keyframe restarts the feed, tells  *)
(* the decoder to reset and is acknowledged; everything up to it goes.     *)
Restart(buffer) ==
    \E k \in Keyframes(buffer) :
        /\ \A m \in Keyframes(buffer) : k <= m
        /\ frames' = Restrict(buffer, {m \in DOMAIN buffer : m > k})
        /\ next' = k + 1
        /\ synced' = TRUE
        /\ SyncRestored
        /\ ready' = {k}
        /\ last' = k
        /\ acked' = k

(* Not synchronized and no keyframe: complete or timed-out frames go. *)
DropUndecodable(buffer, pos) ==
    /\ Keyframes(buffer) = {}
    /\ frames' = Restrict(buffer, {m \in DOMAIN buffer :
                                     ~ Complete(buffer[m]) /\ ~ Expired(buffer[m])})
    /\ next' = pos
    /\ synced' = FALSE
    /\ ready' = {}
    /\ UNCHANGED <<last, acked, reset>>

Drain(buffer, pos, insync) ==
    \/ insync /\ DrainInSync(buffer, pos)
    \/ ~ insync /\ (Restart(buffer) \/ DropUndecodable(buffer, pos))

-----------------------------------------------------------------------------
(* The RTC thread *)

(* A packet of another epoch empties the buffer and restarts at its frame. *)
Switches(f) == epoch # Stream[f].epoch

(* Mutant: the assemblies of the old epoch stay. *)
HeldAcrossEpochs(f) == frames

Held(f) == IF Switches(f) THEN Without(frames, DOMAIN frames) ELSE frames

Position(f) == IF Switches(f) \/ next = 0 THEN f ELSE next

(* receiver_incoming with packet i of frame f: the packet is filed, then    *)
(* the buffer is drained, under one hold of the lock.                       *)
Incoming(f, i) ==
    /\ pc = "idle"
    /\ LET padded   == AddPlaceholders(Held(f), Position(f), f)
           conflict == Conflict(padded, f)
           filed    == Store(padded, f, i)
       IN  Drain(IF conflict THEN Without(padded, {f}) ELSE EvictOldest(filed),
                 Position(f),
                 /\ synced
                 /\ ~ Switches(f)
                 /\ ~ conflict
                 /\ ~ Overflowing(filed))
    /\ epoch' = Stream[f].epoch
    /\ pc' = "poll"

(* receiver_incoming with no RTP packet (RTCP, such as the sender's        *)
(* reports): the buffer is drained all the same.                           *)
IncomingControl ==
    /\ pc = "idle"
    /\ Drain(frames, next, synced)
    /\ pc' = "poll"
    /\ UNCHANGED epoch

(* receiver_incoming with an RTP packet whose frame metadata is missing or *)
(* inconsistent.                                                           *)
IncomingUnlabelled ==
    /\ PlainRtp
    /\ pc = "idle"
    /\ Drain(frames, next, FALSE)
    /\ pc' = "poll"
    /\ UNCHANGED epoch

(* receiver_poll: every due NACK is sent and its frame notes the moment. *)
Polled(buffer) ==
    [m \in DOMAIN buffer |->
        IF NackDue(buffer[m]) THEN [buffer[m] EXCEPT !.nack = 0] ELSE buffer[m]]

PollAfterIncoming ==
    /\ pc = "poll"
    /\ frames' = Polled(frames)
    /\ pc' = IF ready = {} THEN "idle" ELSE "decode"
    /\ UNCHANGED <<epoch, next, synced, ready, reset, last, acked>>

(* The onFrame callback decodes the oldest frame released by this call. *)
Handed(f) ==
    /\ pc = "decode"
    /\ f \in ready
    /\ \A m \in ready : f <= m
    /\ ready' = ready \ {f}
    /\ pc' = IF ready = {f} THEN "idle" ELSE "decode"

DecodeFrame(f) ==
    /\ Handed(f)
    /\ reset' = FALSE
    /\ UNCHANGED gate

(* Mutant: a decoder error empties the gate but keeps it synchronized. *)
DecodeFailsInSync(f) ==
    /\ Handed(f)
    /\ frames' = Without(frames, DOMAIN frames)
    /\ next' = 0
    /\ reset' = TRUE
    /\ UNCHANGED <<epoch, synced, last, acked>>

(* A decoder error: invalidate_sync empties the gate. *)
DecodeFails(f) ==
    /\ Handed(f)
    /\ frames' = Without(frames, DOMAIN frames)
    /\ next' = 0
    /\ synced' = FALSE
    /\ reset' = TRUE
    /\ UNCHANGED <<epoch, last, acked>>

-----------------------------------------------------------------------------
(* The recovery thread: VideoTransportHandler::poll *)
RecoveryPoll ==
    /\ frames' = Polled(frames)
    /\ UNCHANGED <<epoch, next, synced, pc, ready, reset, last, acked>>

(* Time *)
Older(a) ==
    [a EXCEPT !.age  = IF @ < MaxAge THEN @ + 1 ELSE @,
              !.nack = IF @ \in 0..(NackRetry - 1) THEN @ + 1 ELSE @]

Tick ==
    /\ frames' = [m \in DOMAIN frames |-> Older(frames[m])]
    /\ UNCHANGED <<epoch, next, synced, pc, ready, reset, last, acked>>

-----------------------------------------------------------------------------
Init ==
    /\ epoch = 0
    /\ next = 0
    /\ frames = [m \in {} |-> Placeholder(1)]
    /\ synced = FALSE
    /\ pc = "idle"
    /\ ready = {}
    /\ reset = TRUE
    /\ last = 0
    /\ acked = 0

IncomingPacket == \E f \in DOMAIN Stream : \E i \in 0..(Stream[f].count - 1) : Incoming(f, i)
OnFrame == \E f \in DOMAIN Stream : DecodeFrame(f) \/ DecodeFails(f)

Step ==
    \/ IncomingPacket
    \/ IncomingControl
    \/ IncomingUnlabelled
    \/ PollAfterIncoming
    \/ OnFrame
    \/ RecoveryPoll

Next == Step \/ Tick

Spec == Init /\ [][Next]_vars

(* The recovery thread polls every 20 ms, several times in a tick of 50 ms: *)
(* no tick passes over a NACK that is due.                                  *)
TimelyTick == Tick /\ \A m \in DOMAIN frames : ~ NackDue(frames[m])
TimelySpec == Init /\ [][Step \/ TimelyTick]_vars

(* Fairness.  The sender's RTCP reports keep arriving (libdatachannel's    *)
(* reporter sends them with the media), the RTC thread finishes what it     *)
(* started, the recovery thread polls, and time passes.  No media packet is *)
(* promised to arrive.                                                      *)
FairSpec ==
    /\ TimelySpec
    /\ WF_vars(IncomingControl)
    /\ WF_vars(PollAfterIncoming)
    /\ WF_vars(OnFrame)
    /\ WF_vars(RecoveryPoll)
    /\ WF_vars(TimelyTick)

-----------------------------------------------------------------------------
(* Properties *)

(* Type invariant of the gate's state. *)
TypeOK ==
    /\ epoch \in Nat
    /\ next \in Nat
    /\ DOMAIN frames \subseteq Nat \ {0}
    /\ IsFiniteSet(DOMAIN frames)
    /\ frames \in [DOMAIN frames -> Assembly]
    /\ synced \in BOOLEAN
    /\ pc \in {"idle", "poll", "decode"}
    /\ ready \subseteq DOMAIN Stream
    /\ (pc = "decode") => (ready # {})
    /\ reset \in BOOLEAN
    /\ last \in DOMAIN Stream \cup {0}
    /\ acked \in DOMAIN Stream \cup {0}

(* The buffer never outgrows kMaxBufferedFrames, whatever mix of missing    *)
(* ids, late packets and conflicting entries the network produces: the      *)
(* placeholders of process_receiver_packet stop at the limit and the one    *)
(* entry that may still be added is evicted again.                          *)
BufferBounded == Cardinality(DOMAIN frames) <= MaxBufferedFrames

(* Every buffered assembly belongs to the receiver's current epoch, and one *)
(* that holds packets carries the sender's labels for its id: packets of    *)
(* different encoder configurations are never assembled together.           *)
BufferOfOneEpoch ==
    \A m \in DOMAIN frames :
        /\ frames[m].epoch = epoch
        /\ frames[m].count # 0 =>
              /\ m \in DOMAIN Stream
              /\ Stream[m] = [epoch |-> epoch, key |-> frames[m].key,
                              count |-> frames[m].count]
        /\ frames[m].count = 0 => ~ frames[m].key

(* While the receiver says it is synchronized, its position is the frame    *)
(* after the last one released and the encoder epoch has not changed since: *)
(* nothing that moves the position (a skipped frame, an epoch switch, a     *)
(* decoder error, an eviction) leaves the sync flag set.                    *)
SyncPoint ==
    synced =>
        /\ last # 0
        /\ next = last + 1
        /\ epoch = Stream[last].epoch

(* A complete frame at the position waits only behind the keyframe that     *)
(* restarted the feed (drain_complete_frames returns after releasing it):   *)
(* otherwise every drain releases all that is complete.                     *)
HeldOnlyBehindRestart ==
    (synced /\ next \in DOMAIN frames /\ Complete(frames[next])) => acked = next - 1

(* The keyframe that restarts the feed reaches the decoder with the reset   *)
(* still pending: no earlier frame's onFrame consumes reset_decoder_.       *)
ResetAtRestart == acked \in ready => reset

(* What reaches the decoder is the feed of DecoderFeed: the buffer, the     *)
(* packets, the position and time are all hidden behind these three.        *)
Feed == INSTANCE DecoderFeed WITH last <- last, synced <- synced, acked <- acked
FeedsDecoder == Feed!Spec

(* A frame of which some packet arrived does not time out without a NACK    *)
(* for the rest having been sent, however its packets, the polls and the    *)
(* drains interleave.                                                       *)
RequestedBeforeExpiry ==
    \A m \in DOMAIN frames :
        (frames[m].count # 0 /\ ~ Complete(frames[m]) /\ Expired(frames[m]))
            => frames[m].nack # Never

(* The same of every frame known to be missing, as README.md:11 has it      *)
(* ("RTCP NACK requests missing packets"): also of a frame of which nothing *)
(* arrived, here the one that a synchronized receiver waits for.            *)
MissingFramesAreRequested ==
    (/\ synced
     /\ next \in DOMAIN frames
     /\ ~ Complete(frames[next])
     /\ Expired(frames[next])) => frames[next].nack # Never

(* A frame at the position, whole, in part or missing, does not block the   *)
(* feed for ever, even if no media packet ever arrives again: the feed      *)
(* moves past it, or stops, or restarts at a keyframe (that a late copy of  *)
(* an old keyframe can put the position back to where it was is why the     *)
(* last case is named).                                                     *)
Restarted == ready = {acked}
HeadOfLineReleased ==
    \A n \in DOMAIN Stream :
        (synced /\ next = n /\ n \in DOMAIN frames)
            ~> (~ (synced /\ next = n) \/ Restarted)

(* README.md:17-19: playback freezes "after an incomplete frame times out". *)
(* While the epoch stays, the buffer has room and the decoder is content,   *)
(* a packet makes the receiver lose sync only if a frame has timed out.     *)
FreezeOnlyAfterTimeout ==
    [][(/\ pc = "idle" /\ pc' = "poll"
        /\ synced /\ ~ synced'
        /\ epoch' = epoch
        /\ Cardinality(DOMAIN frames) < MaxBufferedFrames)
            => \E m \in DOMAIN frames : Expired(frames[m])]_vars
=============================================================================
