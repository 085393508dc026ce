-------------------------- MODULE MCRetransmission --------------------------
(* Two frames; the numbers wrap inside the second, which needs two groups  *)
(* for some of its losses.                                                 *)
EXTENDS Retransmission

TwoFrames ==
    <<[epoch |-> 1, key |-> TRUE, count |-> 1],
      [epoch |-> 1, key |-> FALSE, count |-> 3]>>
=============================================================================
