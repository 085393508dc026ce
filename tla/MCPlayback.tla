----------------------------- MODULE MCPlayback -----------------------------
(***************************************************************************)
(* A small stream for Playback: two epochs, the first with a second        *)
(* keyframe at its end (the encoder makes one every second).               *)
(***************************************************************************)
EXTENDS Playback

TwoEpochs ==
    <<[epoch |-> 1, key |-> TRUE],
      [epoch |-> 1, key |-> FALSE],
      [epoch |-> 1, key |-> FALSE],
      [epoch |-> 1, key |-> TRUE],
      [epoch |-> 2, key |-> TRUE],
      [epoch |-> 2, key |-> FALSE]>>
=============================================================================
