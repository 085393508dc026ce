-------------------------- MODULE MCAdaptiveSender -------------------------
(***************************************************************************)
(* A calm network, the losses that ask for each level, and near-total loss. *)
(***************************************************************************)
EXTENDS AdaptiveSender

Samples ==
    [media : {0, 5, 20, 40, 70, 99}, transport : {0}, rtt : {0}, jitter : {0}]
=============================================================================
