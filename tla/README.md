# Verification of the weak-network video demo

TLA+ models, TLC runs and TLAPS proofs for the WebRTC weak-network video demo.
Source paths are relative to the repository. `PROJECT.json` lists the runs, the
lines each definition models, the mutants each property was tried against, the
hazards and the findings.

## 1. The system

A sender process encodes a video file in real time and sends it over one WebRTC
video track; a receiver process plays it. Both link libdatachannel, which calls
a chain of media handlers for every message in and out.

```
 sender                                                    receiver
 VideoFileReader -> VideoSender.send_loop                  RtxReceivingHandler
   -> H264 packetizer                                        -> RtcpReceivingSession
   -> MediaStatisticsHandler                                 -> MediaStatisticsHandler
   -> VideoTransportHandler (labels packets)    == UDP ==>   -> VideoTransportHandler (frame gate)
   -> SR reporter -> NACK responder -> pacer                 -> H264 depacketizer
                                                             -> onFrame: H264Decoder -> VideoRenderer
            <== RTCP: NACK, PLI, keyframe ack, RR, TWCC ==   recovery_loop (NACK poll, PLI)
 stats_loop: estimator -> VideoAdaptationController -> VideoSender (profile, pacer)
```

### Components

| Component | State | Operations | Interacts with | What makes it correct |
|---|---|---|---|---|
| `VideoTransportHandler`, receiving half | `receiver_epoch_`, `next_output_frame_id_`, `frames_`, `stats_.synchronized` | `receiver_incoming` (file a packet, drain), `receiver_poll` (NACK), `poll`, `invalidate_sync`, `needs_keyframe` | RTC thread, recovery thread, decoder callback | bounded buffer of one epoch; whole frames only; no hole inside a synchronized run; restart only at a keyframe; every hole requested; no frame blocks for ever |
| `VideoTransportHandler`, sending half | `epoch_`, `next_frame_keyframe_`, `next_frame_id_` | `set_outgoing_frame`, `sender_outgoing`, `sender_incoming` | send loop, RTC thread | every packet labelled with its frame, other extensions kept; a PLI and an ack reach the sender |
| `RtxReceivingHandler` | none | `incoming` | receiving chain | a retransmission becomes the original packet |
| `VideoReceiver` | `reset_decoder_`, output file | `attach_track`, `onFrame`, `recovery_loop`, destruction | gate, decoder, renderer | decoder reset exactly at restarts; output file decodable; PLI repeated until sync |
| `VideoRenderer` | bounded picture queue, `stopping_` | `submit`, `stop`, `render_loop` | decoder thread, display thread, user closing the window | never blocks the decoder; pictures in order, the newest never lost; stop returns and frees everything |
| `H264Decoder` | codec context | `decode`, `reset` | `onFrame`, renderer | a picture only of what can be decoded |
| `VideoSender` | `profile_`, `force_keyframe_`, `recovery_mode_`, `last_recovery_frame_us_`, `stopping_` | `send_loop`, `update_profile`, `update_network_quality`, PLI and ack callbacks, `start`, `stop` | file reader, stats thread, RTC thread | no keyframe request lost; recovery mode entered and left; a stop ends the loop |
| `VideoFileReader` | encoder, `encoder_profile_`, `epoch_` | `next_frame`, `reset`, `configure_encoder` | send loop | a new encoder means a new epoch and a keyframe |
| `VideoAdaptationController` | `level_`, `recovery_windows_` | `update`, `profile_for_level` | stats thread | level fits the network; no flapping; no trap; maximum kept |
| `MediaStatisticsHandler` | TWCC numbers and arrivals | `incoming`, `outgoing` | both chains | a feedback says what arrived |
| `NetworkQualityEstimator` | the two remote reports, windows of counters | `on_*`, `snapshot` | statistics handler, stats thread | a report is used while it is fresh, and not longer |
| `WebRtcSession`, `UdpSignaling` | `stopping_`, socket, threads | constructor, `run`, `stats_loop`, `handle_signaling_message`, `send`, `stop` | everything | both peers get offer, answer, candidates; shutdown ends every thread |
| `VideoReceiveStats`, `utils`, `main`, `netem_loss.sh` | counters, the signal's flag | | | counters, parsing, process start |

### What is hard

Three kinds of threads share the gate (the RTC thread, the recovery thread, and
on the other side the send and stats threads with their flags). Packets are
lost, reordered, sent again as RTX and arrive after their frame was given up.
Numbers of 16 bits wrap inside a frame, a NACK and a feedback. The screen has a
thread of its own that may end at any time. A session is stopped by a signal, by
its peer or by its connection, at any step of its start.
Three delays (NACK delay, NACK retry, recovery window) and two 250 ms cooldowns
are compared separately. PLI and acknowledgements are single datagrams. The
hazards are listed at their lines in `PROJECT.json`, with the properties that
would catch each.

## 2. Modules

| Module | What it is | Source |
|---|---|---|
| `DecoderFeed` | abstract specification: what the receiving side promises the decoder | |
| `FrameGate` | the receiving half of `VideoTransportHandler` with the calls of `VideoReceiver` | `video_transport_handler.cpp:123-180, 305-546`, `video_receiver.cpp:84-138` |
| `FrameGateProofs` | theorems about `FrameGate`: the buffer, the sync point and the refinement; what is released, reset and requested | |
| `Renderer` | the picture queue, the render thread and the owner that stops it | `video_renderer.cpp` |
| `Display` | abstract specification: what the renderer promises the decoder | |
| `Playback` | composes the gate (as `DecoderFeed`), the `onFrame` callback with the decoder and the output file, and `Renderer` | `video_receiver.cpp:42-60, 111-138`, `h264_decoder.cpp:19-82` |
| `PlaybackProofs` | theorems about `Playback` | |
| `Retransmission` | labels, NACKs, RTX: one packet from its label to its place in a frame | `video_transport_handler.cpp:66-117, 216-240, 359-386, 454-520, 548-638`, `media_statistics_handler.cpp:137-217` |
| `RetransmissionProofs` | theorems about `Retransmission` | |
| `KeyframeRecovery` | PLI, forced keyframes, recovery mode, acknowledgement, end to end | `video_sender.cpp:23-63, 84-90, 133-232`, `video_file_reader.cpp:44-260`, `video_receiver.cpp:159-185`, `video_transport_handler.cpp:242-303` |
| `KeyframeRecoveryProofs` | theorems about `KeyframeRecovery` | |
| `VideoAdaptation` | the adaptation controller | `video_adaptation.cpp` |
| `NetworkReports` | extends the controller with the reports its samples are made of, and their freshness | `network_quality_estimator.cpp:72-94, 108-162`, `webrtc_session.cpp:172-180` |
| `AdaptiveSender` | extends the controller with the stats thread and the send loop | `webrtc_session.cpp:172-187`, `video_sender.cpp:84-113, 133-141` |
| `AdaptationProofs` | theorems about `VideoAdaptation`, `NetworkReports` and `AdaptiveSender` | |
| `TransportFeedback` | transport loss: packet numbers, the receiver's feedback, the sender's reading | `media_statistics_handler.cpp:34-85, 137-443`, `network_quality_estimator.cpp:108-162` |
| `TransportFeedbackProofs` | theorems about `TransportFeedback` | |
| `Session` | the two processes: threads, signaling, connection, shutdown | `webrtc_session.cpp:26-187`, `udp_signaling.cpp`, `video_sender.cpp:27-31, 120-134` |
| `SessionProofs` | theorems about `Session` | |
| `Lemmas` | facts the proofs share: numbers that wrap, quotients, loops | |
| `MC...` | small instances for TLC (`Session` has no constants and needs none) | |

### DecoderFeed

Keeps `last` (frame last fed), `synced` and `acked`. `Continue(n)` feeds the
frames that follow `last`, all of its epoch and without a hole; `Resync(k)`
restarts at keyframe `k`; `Freeze` gives up the position. `k` may be older than
`last`: the code keeps late packets of frames it has passed, and a keyframe
completed by retransmissions restarts the feed there
(`video_transport_handler.cpp:359, 399-416`).

### FrameGate

One action per hold of `mutex_`. `Incoming(f, i)` is the whole of
`receiver_incoming` up to the drain: the epoch switch, the placeholders of the
missing ids, the conflict check, the filing of the packet, the eviction, and
`drain_complete_frames`. `IncomingControl` is the same call with RTCP only,
`IncomingUnlabelled` with RTP that carries no usable metadata.
`PollAfterIncoming` is the `receiver_poll` that ends the call, `RecoveryPoll`
that of the recovery thread; `DecodeFrame` and `DecodeFails` are the `onFrame`
callback, run on the RTC thread after the call returned (libdatachannel hands
one datagram at a time through the chain). `Tick` is time.

* `Stream` is the labelling done by the sender: frame id to epoch, keyframe
  flag, packet count. The network is the environment: any packet of any frame,
  any number of times, in any order. This covers loss, reordering, duplicates
  and RTX.
* A frame's packet slots are the set of indices received. The marker is on the
  last packet. Ages saturate at the largest delay, since the code only compares
  them.
* `last` and `acked` are what the decoder and the sender have been told; they
  are history for the refinement and for two invariants.
* Left out: 32-bit wrap of frame ids (four years at 30 frames a second),
  counters; the NACK's contents and `first_sequence` are in `Retransmission`.

### Renderer, Display and Playback

`Renderer`: a step is one hold of `mutex_` or one step outside it. `Submit` is
the whole of `submit`; `Take` is the wait, which ends within 50 ms with or without a
picture, so that notifications (and lost ones) add no behaviour; `NoWindow` and
`Draw` are the two ways through the rest of the loop. The owner's steps are those
of `stop`, as `~VideoReceiver` calls it; `Destroy` is the second `stop`, of
`~VideoRenderer`. `live` counts the clones not yet freed. `newest` is history, the
picture submitted last. `Display` is the same without threads: `pending` holds pictures
submitted; `Submit` puts the new one last, and some before it may be skipped for it; `Show`
takes the first; nothing else takes a picture away while the display is `open`. `Close`
is the end of the render thread, after which `Discard` empties what is left. As `newest`
is part of it, a picture dropped on submission is no stutter of the display.

`Playback` puts `DecoderFeed` in front (what `FrameGate` implements: `last`,
`synced`, `acked`, and `ready`, the frames released and not yet decoded) and models
the callback: `DecodeFrame` resets the decoder if asked to, decodes, submits the
picture and writes the file; `DecodeFails` gives up the sync point and asks for a
reset. FFmpeg may refuse anything, must refuse a delta frame when it holds no
reference (`AV_EF_EXPLODE`, `h264_decoder.cpp:29`), and is not assumed to notice a delta
frame that does not follow its reference. A picture is the id of its frame. Left out:
failing allocations, and callbacks after the receiver is gone (undefined).

### Retransmission

A packet is a record of stream, number, extensions and payload (a sequence of
items, the original number being one in RTX). `SendFrame` labels the packets of a
frame as `sender_outgoing` does, on top of the extension of `MediaStatisticsHandler`;
`ReceiveMedia` and `ReceiveRtx` file a packet, the second after `Restore`; `Poll` makes
the NACK with the groups of `send_nack`. `ReceiveNack` is libdatachannel's responder,
which keeps the packets as they were sent and answers with RTX. When a NACK is
due, and when a frame is given up, is `FrameGate`'s matter: `Poll` and `GiveUp` may
happen at any time here. The two loops of `send_nack` are functions from the rounds done
to what has been built so far.

### KeyframeRecovery

Whole frames; the gate is reduced to `synced` and `epochSeen`. The send loop's
steps are the copy of the profile, the wait in recovery mode, the encoding
(exchange of `force_keyframe_`, read of `recovery_mode_` and `next_frame` are one
step: the exchange comes first and a store between the two reads has the same
outcome as one of the two orders with the whole step), and the sending. The PLI
callback's two stores are two steps. `EndOfFile` is `next_frame` returning false
and `reset`: it closes the encoder, so every pass over the file starts a new
epoch. It needs a configured encoder, that is, a file with at least one frame.
`CheckNeed` and `RequestKeyframe` are the two halves of `recovery_loop`'s
condition and action. `ReceiveOldKeyframe` and `SwitchEpoch` are what
`FrameGate` shows that late packets can do. Frames, PLIs and acknowledgements
are lost at any time; a full wire loses its oldest frame.

### VideoAdaptation and AdaptiveSender

`Update(q)` is one call of `update`; its three alternatives are the branches of
the `if`. Whole percentages and milliseconds stand for the doubles: the code
compares them with whole thresholds only. `held` counts updates since the level
changed. `NetworkReports` extends it with time in windows of the stats loop:
`OnReceiverReport` and `OnTransportLossReport` store a report of age 0, `StatsWindow` takes
the snapshot, updates the controller, and ages the reports by one. Windows are a second of
sleep and some work apart (`webrtc_session.cpp:174`), and a report comes anywhere between two of
them. So a report is less than 3 s old in its first two windows, if these are less than
1.5 s apart, and at least 3 s old in its fourth; in the third it is one or the other, and
`Read` leaves it open. The work is a few short locks and a printed line. The sample is the controller's `q`, the bitrates of the
snapshot being only printed. `AdaptiveSender` extends the controller too: its step
`Window(q)` is an update of the controller and its others leave the controller alone. It splits the stats loop's body in its three calls and
the send loop in the copy under the lock and the encoding; `pace` is the pacer's
rate, computed in whole bits per second.

### TransportFeedback

A packet is its position in the order of sending; the code sees it modulo 2^16.
`Send` writes the number, `Receive(p)` is the whole of the receiver's `incoming`
(collect, drop the oldest sample at the limit, perhaps send), `ReceiveControl` the
same with RTCP only, `ReceiveFeedback` the sender's reading of the runs of statuses.
`Receive` may take any packet in play, again and again: loss, reordering and RTX.
A feedback still under way when the next one leaves is lost. `about` is history:
the packets a feedback was made from. `Reach` bounds how far apart the packets
collected, reported or sent again are: the NACK responder keeps 4096 packets, a
window lasts 200 ms, and numbers are compared within 32767. The loops over
samples, statuses and chunks are functions from the rounds done to what has been computed
so far. Left out: the RTP header extension's bytes (packets the code refuses to number are not produced by this sender), receiver
reports, and the receiver's own loss counters, which nobody reads.

What a feedback does not say: packets between the newest of one window and the first of
the next are in neither, and packets that arrive before an older one are before the
first of their window. `ReportsTheWindow` is about what the feedback covers.

### Session

Both processes, indexed by role. `pc` is the main thread through the constructor,
`run` and the destructor, one step per call that another thread can see; each
other thread is "none", "running" or "done". `SendSignal` is a PeerConnection callback
handing a description or the candidate to `sendto`; `wire` holds the datagrams at
or on the way to the other socket, which exists from the constructor on (what is sent
earlier is lost). `Receive` is one datagram through `handle_signaling_message`. One
candidate stands for all. libdatachannel is external: it connects when both
descriptions and a candidate have arrived, throws at a candidate that comes first,
and goes down when the other side is gone, when nothing it waits for can still
come, or when the path fails (`Outage`). `TrackCloses` is the sender's `onClosed`, before or
after `onStateChange`. `disturbed` is history: datagrams lost or refused.
A second call of `onTrack` is not modelled (the track is the one both sides added),
nor are a socket that cannot be opened or callbacks during destruction.

## 3. Runs

Times are in ticks of 50 ms in the gate (NACK delay 3 for 120 ms rounded up,
retry 1, recovery window 4), and of the whole cooldown in the recovery loop.

| Run | Configuration | Checks |
|---|---|---|
| `gate` | `MCFrameGate.cfg`: 6 frames of 2 epochs, frames of 1 and 2 packets, 2 buffer entries, decoder errors, unlabelled RTP, polls in time | type, bounded buffer, one epoch, sync point, held frames, decoder reset, requests before expiry, refinement of `DecoderFeed`; liveness `HeadOfLineReleased` |
| `gate_wholly_lost` | `FrameGateWhollyLost.cfg` | finding 1 |
| `gate_short_window` | `FrameGateShortWindow.cfg`: recovery window of 100 ms | finding 2 |
| `gate_reordered` | `FrameGateReordered.cfg`: one epoch of 4 frames, room for all | finding 3 |
| `playback` | `MCPlayback.cfg`: 6 frames of 2 epochs, 3 of them keyframes, 2 queue entries | output file decodable, refinement of `Display` (order, newest never skipped), pictures freed; liveness: last picture shown, stop returns, decoder never blocked |
| `retransmission` | `MCRetransmission.cfg`: frames of 1 and 3 packets, numbers modulo 8 from 6, masks of 1 bit | restored packets, NACKs name the missing; liveness: frames repaired or given up |
| `adaptation` | `MCNetworkReports.cfg`: 8 receiver reports, 2 transport losses, a maximum of 1000 kbit/s | level fits the sample, slow steps down, silence holds the level for six windows, no trap |
| `sender` | `MCAdaptiveSender.cfg`: losses for every level and 99%, a maximum of 700 kbit/s | pacer carries the encoder, maximum kept, encoder follows the controller |
| `recovery` | `MCKeyframeRecovery.cfg`: 1 profile, 2 epochs, one message of each kind on the wire | no keyframe request swallowed; lost sync is regained |
| `recovery_lost_ack` | `RecoveryLostAck.cfg` | finding 4 |
| `feedback` | `MCTransportFeedback.cfg`: numbers modulo 8, 4 packets in play, windows and feedbacks of 3 | the loss read is the truth about one window; windows close |
| `session` | `Session.cfg` | no thread left behind; liveness: connection, shutdown, the other side follows |

Why the bounds are enough. The gate's buffer limit (64 in the code) is 2 in the
run `gate`: a frame received in part, a missing one and a third overflow it, a gap
of two does not fit, and a full buffer can be at any position. Frames of two packets
can be half received, with or without their marker; the two epochs make switches in
both directions. All ages up to the largest delay occur. The invariants of the gate
are also proved for every stream and limit. A picture queue of 2 (3 in the code)
overflows while the render thread holds a third picture; its safety is proved for every limit
and stream. In `retransmission` the numbers wrap inside the second frame, and losses of its
first and last packet need two groups, as the mask has one bit; `Restored` and
`RequestsTheMissing` are proved for any frames, modulus and mask. `session` has no bound:
each side has one negotiation. With two epochs the epoch counter
wraps, and with one message of each kind on the wire, any of which may be lost,
acknowledgements of old keyframes meet new PLIs; with one profile new epochs come from the
end of the file only, and `NoRequestSwallowed` is proved for any profiles and any wire. The reports of
`adaptation` include both sides of the loss that ends level 2, losses that set levels 2 to 4, and
a delay and a jitter that hold any level; `Adequate`, `HeldBeforeStepDown`, `PacerCarriesEncoder`
and `MaximumKept` are proved for any samples and any maximum the command line admits. In
`feedback` the 8 packets wrap the numbers, four packets in play overrun both the limit on
samples and the limit on statuses, and half of the modulus is what the code's signed
difference can tell apart; `ReportsTheWindow` is proved for any modulus and limits, and any reach
up to half of the modulus.

### Fairness

* Gate: `IncomingControl` (the sender's RTCP reports keep arriving; they are
  libdatachannel's), the RTC thread finishes what it began, time passes. No
  media packet is promised. `HeadOfLineReleased` names the restart at a keyframe
  as a way out of a position because endless copies of an old keyframe could
  put the position back; that is what the code does.
* `TimelyTick` (all runs of the gate): the recovery thread polls every 20 ms, so a
  tick of 50 ms does not pass over a due NACK. The proofs other than
  `RequestedInTime` are about `Spec`, without it.
* Playback: the RTC thread decodes a frame it can decode and refuses one it cannot,
  the render thread keeps running, a stop that was begun goes on. Nothing makes the
  owner stop, or the user close the window.
* Retransmission: the poll comes round every 20 ms; a NACK, or a retransmission, sent
  again and again is received again and again (strong fairness). A first
  transmission may never arrive.
* Recovery loop: every thread keeps running; PLIs, acknowledgements and
  keyframes that are sent again and again are received again and again (strong
  fairness: the network is lossy, not cut).
* Stats and send threads: each keeps running. Reports may cease for ever.
* Session: threads keep running, the wait in `select` lasts 200 ms at most, a
  connection that can be made is made, and one that cannot, or whose other side is
  gone, times out. No datagram need arrive in time or in order, but one that waits in
  the socket of a running thread is received or lost.
* Feedback: time passes and `ReceiveControl` (the sender's RTCP reports, as in the gate).

## 4. Findings

1. A frame of which every packet was lost is never NACKed
   (`video_transport_handler.cpp:461`); README.md:11 says missing packets are
   requested. For frames of one packet, this is every loss.
2. With `--recovery-timeout-ms` 100 to 120 a frame that lost its last packet is
   dropped before its NACK is due (`video_transport_handler.cpp:465-469`).
3. A reordered packet freezes playback without a timeout: the placeholder of its
   frame has `packet_count` 0 and disagrees with it
   (`video_transport_handler.cpp:373`); README.md:16-18 has a freeze only after a
   timeout.
4. If the one keyframe acknowledgement is lost, or a PLI crossed the keyframe, the
   sender stays in recovery mode (keyframes only, four a second) while the receiver
   is synchronized (`video_sender.cpp:61-63`, `video_receiver.cpp:171-175`);
   README.md:96-101 gives other frame rates.

Before the first statistics window the encoder runs at 2000 kbit/s whatever
`--max-video-kbps` says (`video_sender.hpp:44`); `MaximumKept` therefore begins
with the first profile stored.

## 5. Proofs

All theorems hold for every value of the constants that satisfies the modules'
named assumptions. Every type invariant, safety invariant, action property and
refinement that a passing run checks is the subject of one.

* `FrameGateProofs`. Assumption `GateAssumption`: frame ids and epochs from 1,
  frames of at least one packet, a limit and delays of at least 1. The inductive
  invariant is the type, `BufferOfOneEpoch` and `SyncPoint` together. `SyncPoint`
  alone is not inductive: a restart takes epoch and id from a buffered assembly, so
  that its epoch is the receiver's must be known, which is `BufferOfOneEpoch`;
  that in turn needs the buffer's type. The lemmas follow a packet through
  `AddPlaceholders`, `Store` and `EvictOldest` (a well-formed buffer stays
  well-formed), then through the drain. From the invariant follow `TypeCorrect`,
  `OneEpoch`, `SyncPointHolds`, `BufferLimit` (cardinalities of the placeholders
  and of what eviction leaves) and `ImplementsFeed`: initial states map to initial
  states, `DrainInSync` to `Continue` (or a stutter, or `Freeze`), `Restart` to
  `Resync`, and every step that drops sync to `Freeze`.
* In the same module, on the same invariant: `ResetAtRestart` is not inductive:
  it needs that the keyframe acknowledged is handed over alone (so that no earlier
  frame of the call consumes the reset) and that it lies at or below `last` (so that
  a later drain cannot release it again). `RequestedInTime` assumes in addition
  `NackDelay < RecoveryTimeout` and timely ticks, and shows that every partial frame
  that is due has been requested whenever time passes; finding 2 is what happens
  without the assumption.
* `PlaybackProofs`. Of the renderer: the pictures alive are those in the queue and the
  one in the render thread's hand, the hand is empty except between `Take` and the
  end of the pass, and a joined thread stays ended; so destruction leaves nothing
  (`PicturesFreed`). `ImplementsDisplay` maps `Submit` to the display's (what the
  full queue drops is its first picture), `Draw` to `Show`, the end of the render thread,
  with or without a picture it could not show, to `Close`, and the emptied queue to
  `Discard`, which needs that the thread has ended. `NewestIsKept` follows from the display's
  specification alone. `OutputIsDecodable` needs to know, frame by
  frame, that what is next to be decoded follows the reference, or a reset is
  pending, or a keyframe comes first.
* `AdaptationProofs`, the controller: `Adequate` needs the two threshold tables to agree
  (lemma `CleanAllowsStepDown`); `HeldBeforeStepDown` needs that the clean windows
  counted are at most the updates since the level changed. Its samples: assumption
  `ReportsAssumption`, samples made of reports are
  among the controller's samples. `ImplementsAdaptation`: every window is an update of
  the controller and every report a stutter, so that the theorems above hold of it.
  `SilenceHolds`: while a report asks for the level, the windows counted as clean are at
  most those that have seen it but for the first two. The bound of six windows is exact:
  with seven, TLC finds a step down. Its sender: `SenderImplementsAdaptation` in the same way;
  `PacerCarriesEncoder` is not inductive, because it speaks of the stats thread
  between two windows only: `SenderInv` adds
  what the stats thread has done at each of its steps (`PaceInv`: after `UpdateProfile` the
  target is the level's profile; after `UpdatePacer` the pace carries it). `MaximumKept`
  needs that a profile within the maximum never has one beyond it upstream (`MaximumInv`:
  from the target to the copy taken to the encoder), and that every rung of the ladder
  is cut to the maximum (`ProfileRate`).
* `RetransmissionProofs`. Assumption `RetransmissionAssumption`: a frame has at most as
  many packets as there are numbers. The inductive invariant: what is in the air or in an
  RTX packet is a packet as it was sent (`WireInv`), and an assembly of frame f has the
  number of f's first packet and at place i nothing or packet i (`AssemblyInv`). The
  first number is worked out from whichever packet came first, modulo 2^16
  (`FirstOfAny`), and `Restore` undoes what the responder did to a packet
  (`RestoreRetransmitted`). `RequestsTheMissing`: the loop over the places lists the
  numbers of the empty ones, in order and all different (`MissingLists`: this is where
  the assumption is needed); the loop over the list makes groups that together ask
  for exactly these (`GroupsAsk`, from `AddNumberAsks`, one round), also when a
  group spans the wrap.
* `TransportFeedbackProofs`. Assumption `FeedbackAssumption`: packets in play are less
  than half of the modulus apart, and a feedback has fewer statuses than there are
  numbers. `DeltaIsDistance`: the signed 16-bit difference of two numbers is then the
  distance of their packets; so the loop over the samples finds the newest
  (`NewestIsNewest`), the statuses span first to newest (`StatusCountIsSpan`), and
  a status is that of its packet and of no other with the same number (`CollectedIs`). The
  chunks built cover the statuses without gap or overlap (`ChunksCover`), and reading them
  adds up to the statuses and to those not received (`ReadingCounts`). The inductive
  invariant says that samples pending are in play and that a feedback on the wire is the
  one made from its window, for `ReportsTheWindow`, and that a fresh report expects at least one
  packet, which the loss divides by.
* `Lemmas`. The loops of the models are recursive functions. `LoopRuns` shows that such a
  function exists, by well-founded minimality over the rounds; `LoopInvariant` is
  induction over the rounds stated with a set (the rounds after which a fact holds) where the
  library's theorem has an operator. The rest is arithmetic of `%` and `\div`.
* `SessionProofs`. Where the main thread stands tells which threads have been started
  and which joined; for the types, the offer exists once: not made, in the sender's
  hands, on the wire, or taken.
* `KeyframeRecoveryProofs`. A request owed has its flag up, and a configured
  encoder has an epoch; with the type these are inductive, and `OwedKeyframe`
  follows.

Only model-checked: the liveness properties, as fairness and ENABLED are out of the
prover's reach. These are `HeadOfLineReleased`,
`StopReturns`, `LastGoodImage`, `NeverBlocked`, `Repaired`, `Recovers`,
`EncoderFollows`, `Resyncs`, `WindowCloses`, `Connects`, `Shutdown` and `PeerFollows`.

## 6. Plan

Done: `FrameGate` with `DecoderFeed`, `Playback` with `Renderer` and `Display`,
`Retransmission`, `KeyframeRecovery`, `VideoAdaptation` with `NetworkReports`,
`AdaptiveSender`, `TransportFeedback`, `Session`, and the proofs listed above. Left, in
this order:

1. Transport feedback over several windows: the abstract specification that every
   packet is counted once, and where it fails (losses between windows, old numbers
   sent again).
2. Composition: `KeyframeRecovery` with its gate replaced by `FrameGate`'s
   abstraction, showing the reduced gate implements `DecoderFeed`, with the proof of
   that refinement.

## 7. Not modelled

* FFmpeg calls (decoding and encoding the file, scaling, the thinning of frames by
  source time in `should_output_decoded_frame`) and their failures: an exception
  from the file reader ends the sender's process, as nothing in the send thread
  catches it. SDL drawing is one step.
* libdatachannel: the order of its chain, SR reports, NACK responder, pacer and
  connection states appear only as the environment's behaviour.
* Whether the clocks behind a report's round-trip time agree
  (`network_quality_estimator.cpp:80`): in `NetworkReports` the delay of a report is
  any of a set.
* Callbacks of a PeerConnection that outlives the sender or receiver object they use
  (`webrtc_session.hpp:45-51` declares `pc_` first): undefined behaviour, at the end
  of the process.
* What is computed and only printed, or not read at all: `VideoReceiveStats`, bitrates,
  the receiver's own loss and jitter (`network_quality_estimator.cpp:171-273`),
  `transport_loss_report`, `twcc_report_`, the count of retransmitted packets.
* SDP and candidate text with its hex coding, command-line parsing, and
  `netem_loss.sh`.
