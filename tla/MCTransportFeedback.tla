------------------------ MODULE MCTransportFeedback ------------------------
(***************************************************************************)
(* Numbers modulo 8, which wrap within the packets sent; four packets in   *)
(* play, of which a feedback covers at most three and a window keeps three; *)
(* a report is used until the next tick.                                   *)
(***************************************************************************)
EXTENDS TransportFeedback
=============================================================================
