---------------------------- MODULE MCFrameGate ----------------------------
(***************************************************************************)
(* Small streams for FrameGate.                                            *)
(***************************************************************************)
EXTENDS FrameGate

(* A keyframe and its delta frames; the second frame has two packets, so    *)
(* it can be partly received, and its marker can be early or missing.       *)
OneEpoch ==
    <<[epoch |-> 1, key |-> TRUE,  count |-> 1],
      [epoch |-> 1, key |-> FALSE, count |-> 2],
      [epoch |-> 1, key |-> FALSE, count |-> 1],
      [epoch |-> 1, key |-> FALSE, count |-> 1]>>

(* A profile change between the second and third frames: the encoder is     *)
(* reconfigured and starts a new epoch with a keyframe of two packets.      *)
(* With room for two, a frame in part, a missing one and a third overflow   *)
(* the buffer, and a gap of two does not fit.                               *)
TwoEpochs ==
    <<[epoch |-> 1, key |-> TRUE,  count |-> 1],
      [epoch |-> 1, key |-> FALSE, count |-> 2],
      [epoch |-> 2, key |-> TRUE,  count |-> 2],
      [epoch |-> 2, key |-> FALSE, count |-> 1],
      [epoch |-> 2, key |-> FALSE, count |-> 2],
      [epoch |-> 2, key |-> FALSE, count |-> 1]>>
=============================================================================
