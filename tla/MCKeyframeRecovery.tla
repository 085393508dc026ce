------------------------- MODULE MCKeyframeRecovery ------------------------
(***************************************************************************)
(* Small instances of KeyframeRecovery: the constants are set in the       *)
(* configurations.                                                         *)
(***************************************************************************)
EXTENDS KeyframeRecovery
=============================================================================
