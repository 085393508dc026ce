---------------------------- MODULE DecoderFeed ----------------------------
(***************************************************************************)
(* What the receiving side promises the H264 decoder, without buffers,     *)
(* packets or time: a feed of whole frames.  While the receiver is         *)
(* synchronized the decoder is given the frames of one encoder epoch one   *)
(* after the other, with no hole; after a hole it is given nothing until a *)
(* keyframe, and a restart at a keyframe is the only event acknowledged to *)
(* the sender.                                                             *)
(*                                                                         *)
(* VideoTransportHandler's receiving half (module FrameGate) implements    *)
(* this feed.                                                              *)
(***************************************************************************)
EXTENDS Integers

CONSTANT Stream       \* the labels the sender gave each frame, by frame id

VARIABLES
    last,             \* id of the frame most recently fed, 0 before the first
    synced,           \* the receiver believes the next frame can be decoded
    acked             \* the keyframe last acknowledged, 0 before the first

vars == <<last, synced, acked>>

Init ==
    /\ last = 0
    /\ synced = FALSE
    /\ acked = 0

(* The frames that follow the last one, all of its epoch, up to frame n.   *)
(* The step that feeds them may already have met the next hole.            *)
Continue(n) ==
    /\ synced
    /\ n > last
    /\ \A k \in (last + 1)..n :
          k \in DOMAIN Stream /\ Stream[k].epoch = Stream[last].epoch
    /\ last' = n
    /\ synced' \in BOOLEAN
    /\ acked' = acked

(* A restart at keyframe k.  The keyframe may be older than the last frame *)
(* fed: the receiver keeps late packets of frames it has already passed.   *)
(* A packet that makes the receiver give up its position and completes a   *)
(* keyframe restarts the feed in one step, so synced is no guard.          *)
Resync(k) ==
    /\ Stream[k].key
    /\ last' = k
    /\ synced' = TRUE
    /\ acked' = k

(* The receiver gives up its position and feeds nothing. *)
Freeze ==
    /\ synced' = FALSE
    /\ UNCHANGED <<last, acked>>

Next ==
    \/ \E n \in DOMAIN Stream : Continue(n) \/ Resync(n)
    \/ Freeze

Spec == Init /\ [][Next]_vars
=============================================================================
