-------------------------- MODULE MCNetworkReports --------------------------
(***************************************************************************)
(* Receiver reports: calm, losses on both sides of the one that ends       *)
(* level 2, losses that set levels 2 to 4, and a delay and a jitter that   *)
(* hold any level; calm and lossy transport feedback.                      *)
(***************************************************************************)
EXTENDS NetworkReports

Reports ==
    [media : {0, 6, 7, 24, 31, 61}, rtt : {0}, jitter : {0}]
      \cup [media : {0}, rtt : {351}, jitter : {0}]
      \cup [media : {0}, rtt : {0}, jitter : {40}]

Losses == {0, 11}

Samples == {Sample(r, loss) : r \in Reports, loss \in Losses}
=============================================================================
