------------------------------ MODULE Playback ------------------------------
(***************************************************************************)
(* From the frame gate to the screen and the output file: VideoReceiver's  *)
(* onFrame callback, the H264 decoder, and the renderer (module Renderer). *)
(* The gate is what module DecoderFeed says of it, with the frames it has  *)
(* released and the RTC thread has not yet handed to the decoder.          *)
(*                                                                         *)
(* The decoder is FFmpeg's: asked to take errors seriously, it refuses a   *)
(* delta frame when it has seen no keyframe since it was opened, it may    *)
(* refuse any frame, and with a reference at hand it may make a picture of *)
(* a delta frame that does not follow it.                                  *)
(***************************************************************************)
EXTENDS Renderer, FiniteSets

CONSTANT Stream       \* the labels the sender gave each frame, by frame id

ASSUME PlaybackAssumption ==
    /\ DOMAIN Stream = Pictures
    /\ Stream \in [DOMAIN Stream -> [epoch : Nat \ {0}, key : BOOLEAN]]

VARIABLES
    \* the gate
    last, synced, acked,
    ready,            \* ids released and not yet decoded
    \* VideoReceiver and its decoder
    reset,            \* reset_decoder_
    ref,              \* the frame decoded last by this decoder, None when fresh
    started,          \* output_started_
    written           \* the frame written last to the output file

gate     == <<last, synced, acked>>
receiver == <<reset, ref, started, written>>
vars     == <<gate, ready, receiver, rvars>>

Feed == INSTANCE DecoderFeed WITH last <- last, synced <- synced, acked <- acked

-----------------------------------------------------------------------------
(* The gate, on the RTC thread: it takes packets only when the frames it    *)
(* released before have been through the decoder.                           *)

Release(n) ==
    /\ ready = {}
    /\ Feed!Continue(n)
    /\ ready' = (last + 1)..n
    /\ UNCHANGED <<receiver, rvars>>

(* The keyframe that restores sync, with the callback that asks for a reset. *)
Restart(k) ==
    /\ ready = {}
    /\ Feed!Resync(k)
    /\ ready' = {k}
    /\ reset' = TRUE
    /\ UNCHANGED <<ref, started, written, rvars>>

Freeze ==
    /\ ready = {}
    /\ synced
    /\ Feed!Freeze
    /\ UNCHANGED <<ready, receiver, rvars>>

-----------------------------------------------------------------------------
(* The onFrame callback *)

Handed(f) ==
    /\ f \in ready
    /\ \A m \in ready : f <= m
    /\ ready' = ready \ {f}

(* The decoder's reference once a reset asked for has been carried out. *)
Reference == IF reset THEN None ELSE ref

CanDecode(f) == Stream[f].key \/ Reference # None

(* The output file begins at the first keyframe decoded. *)
Write(f) ==
    /\ started' = (started \/ Stream[f].key)
    /\ written' = IF started' THEN f ELSE written

DecodeFrame(f) ==
    /\ Handed(f)
    /\ CanDecode(f)
    /\ reset' = FALSE
    /\ ref' = f
    /\ Submit(f)
    /\ Write(f)
    /\ UNCHANGED gate

(* Mutant: the decoder goes on with the frames it has. *)
DecodeFailsWithoutReset(f) ==
    /\ Handed(f)
    /\ ref' = Reference
    /\ synced' = FALSE
    /\ reset' = FALSE
    /\ UNCHANGED <<last, acked, started, written, rvars>>

(* The decoder refuses the frame, or the picture is marked corrupt: the gate *)
(* gives up its position, and the decoder is reset before the next frame.    *)
DecodeFails(f) ==
    /\ Handed(f)
    /\ ref' = Reference
    /\ synced' = FALSE
    /\ reset' = TRUE
    /\ UNCHANGED <<last, acked, started, written, rvars>>

-----------------------------------------------------------------------------
Init ==
    /\ Feed!Init
    /\ ready = {}
    /\ reset = TRUE
    /\ ref = None
    /\ started = FALSE
    /\ written = None
    /\ RendererInit

(* What the callbacks do to a receiver that is gone is undefined: left out. *)
Gate ==
    /\ owner # "gone"
    /\ (\E f \in DOMAIN Stream : Release(f) \/ Restart(f)) \/ Freeze

OnFrame ==
    /\ owner # "gone"
    /\ \E f \in DOMAIN Stream : DecodeFrame(f) \/ DecodeFails(f)

Screen == (RenderThread \/ OwnerThread) /\ UNCHANGED <<gate, ready, receiver>>

Next == Gate \/ OnFrame \/ Screen

Spec == Init /\ [][Next]_vars

(* The RTC thread finishes what it began (a decoder that can decode a frame *)
(* is not promised to, nor to fail), the render thread keeps running, and a *)
(* stop that was begun goes on.                                             *)
FairSpec ==
    /\ Spec
    /\ WF_vars(\E f \in DOMAIN Stream : DecodeFrame(f))
    /\ WF_vars(\E f \in DOMAIN Stream : ~ CanDecode(f) /\ DecodeFails(f))
    /\ WF_vars(RenderThread /\ UNCHANGED <<gate, ready, receiver>>)
    /\ WF_vars((Join \/ ClearQueue) /\ UNCHANGED <<gate, ready, receiver>>)

-----------------------------------------------------------------------------
(* Properties *)

(* Type invariant. *)
TypeOK ==
    /\ RendererTypeOK
    /\ {last, acked, ref, written} \subseteq Pictures \cup {None}
    /\ {synced, reset, started} \subseteq BOOLEAN
    /\ ready \subseteq Pictures

(* The output file can be decoded from its first byte on (README.md:168-173 *)
(* has a reader check it with -err_detect explode): what is written after   *)
(* frame f is either the frame that follows f in the same encoder epoch, or *)
(* a keyframe.  Frames of a batch handed on after one of them failed,       *)
(* resets still pending, and restarts at older keyframes do not break it.   *)
Decodable(f, g) ==
    Stream[g].key \/ (g = f + 1 /\ f # None /\ Stream[g].epoch = Stream[f].epoch)
OutputDecodable == [][written' # written => Decodable(written, written')]_vars

(* README.md:17-18: playback freezes "on the last good image".  The picture *)
(* decoded last is the one that ends up in the window, however far the      *)
(* screen was behind, unless the display ended.                             *)
LastGoodImage ==
    \A p \in Pictures :
        (written = p) ~> (shown = p \/ written # p \/ quit \/ rpc = "ended")

(* Decoding never waits for the screen, not even when the window has been   *)
(* closed or could not be made and no thread takes pictures any more.       *)
NeverBlocked == (ready # {}) ~> (ready = {} \/ owner = "gone")
=============================================================================
