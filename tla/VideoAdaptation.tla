-------------------------- MODULE VideoAdaptation --------------------------
(***************************************************************************)
(* VideoAdaptationController: once per statistics window (every second, on *)
(* the sender's stats thread) the network quality picks a level of the     *)
(* encoding ladder.  A worse network is followed at once; a better one only *)
(* after five clean windows, one level at a time.                          *)
(*                                                                         *)
(* The code compares doubles with whole thresholds only, so whole numbers  *)
(* stand for every class of values it can tell apart.                      *)
(***************************************************************************)
EXTENDS Integers

CONSTANTS
    Qualities,        \* the quality samples that may be measured
    MaxVideoKbps      \* max_video_kbps_

Quality == [media : Nat, transport : Nat, rtt : Nat, jitter : Nat]

ASSUME AdaptationAssumption ==
    /\ Qualities \subseteq Quality
    /\ MaxVideoKbps \in 150..2000

VARIABLES
    level,            \* level_
    recovery,         \* recovery_windows_
    quality,          \* the sample of the last update
    held              \* updates since the level last changed, up to Windows

vars == <<level, recovery, quality, held>>

Windows == 5          \* clean windows before a step down
Levels  == 0..4

Larger(a, b)  == IF a > b THEN a ELSE b
Smaller(a, b) == IF a < b THEN a ELSE b

-----------------------------------------------------------------------------
(* The tables *)

Ladder ==
    [l \in Levels |->
        CASE l = 0 -> [level |-> 0, kbps |-> 2000, fps |-> 30, width |-> 1280, height |-> 720]
          [] l = 1 -> [level |-> 1, kbps |-> 1200, fps |-> 24, width |-> 960,  height |-> 540]
          [] l = 2 -> [level |-> 2, kbps |-> 600,  fps |-> 15, width |-> 640,  height |-> 360]
          [] l = 3 -> [level |-> 3, kbps |-> 300,  fps |-> 10, width |-> 426,  height |-> 240]
          [] l = 4 -> [level |-> 4, kbps |-> 150,  fps |-> 5,  width |-> 320,  height |-> 180]]

(* Mutant: only the top of the ladder is limited. *)
ProfileForLevelAtTheTop(l) ==
    [Ladder[l] EXCEPT !.kbps = IF l = 0 THEN Smaller(@, MaxVideoKbps) ELSE @]

(* The profile a level stands for; after every update profile_ is that of  *)
(* the level, so the model keeps the level only.                            *)
ProfileForLevel(l) ==
    [Ladder[l] EXCEPT !.kbps = Smaller(@, MaxVideoKbps)]

(* Mutant: the threshold of level 2 is that of level 3. *)
RecoveryLossLoose(l) ==
    CASE l = 0 -> 0 [] l = 1 -> 1 [] l = 2 -> 25 [] l = 3 -> 25 [] l = 4 -> 50

(* Below this loss a window counts towards leaving level l. *)
RecoveryLoss(l) ==
    CASE l = 0 -> 0 [] l = 1 -> 1 [] l = 2 -> 7 [] l = 3 -> 25 [] l = 4 -> 50

-----------------------------------------------------------------------------
(* update *)

Loss(q) == Larger(q.media, q.transport)

RequiredByLoss(q) ==
    CASE Loss(q) > 60 -> 4
      [] Loss(q) > 30 /\ Loss(q) <= 60 -> 3
      [] Loss(q) > 10 /\ Loss(q) <= 30 -> 2
      [] Loss(q) > 3  /\ Loss(q) <= 10 -> 1
      [] Loss(q) <= 3 -> 0

RequiredByDelay(q) ==
    CASE q.rtt > 350 -> 3
      [] q.rtt > 180 /\ q.rtt <= 350 -> 2
      [] q.rtt <= 180 -> 0

RequiredByJitter(q) == IF q.jitter > 50 THEN 1 ELSE 0

Required(q) ==
    Larger(RequiredByLoss(q), Larger(RequiredByDelay(q), RequiredByJitter(q)))

(* Mutant: level 1 is taken for the top of the ladder. *)
CleanAtTheTop(q, l) ==
    /\ l > 1
    /\ Loss(q) < RecoveryLoss(l)
    /\ q.rtt < 150
    /\ q.jitter < 40

Clean(q, l) ==
    /\ l > 0
    /\ Loss(q) < RecoveryLoss(l)
    /\ q.rtt < 150
    /\ q.jitter < 40

(* Mutant: the clean windows counted so far survive a raise. *)
RaiseKeepsWindows(q) ==
    /\ Required(q) > level
    /\ level' = Required(q)
    /\ recovery' = recovery

Raise(q) ==
    /\ Required(q) > level
    /\ level' = Required(q)
    /\ recovery' = 0

(* Mutant: the sixth clean window steps down, not the fifth. *)
CleanWindowLate(q) ==
    /\ Required(q) <= level
    /\ Clean(q, level)
    /\ IF recovery + 1 > Windows
       THEN level' = level - 1 /\ recovery' = 0
       ELSE level' = level /\ recovery' = recovery + 1

CleanWindow(q) ==
    /\ Required(q) <= level
    /\ Clean(q, level)
    /\ IF recovery + 1 >= Windows
       THEN level' = level - 1 /\ recovery' = 0
       ELSE level' = level /\ recovery' = recovery + 1

Hold(q) ==
    /\ Required(q) <= level
    /\ ~ Clean(q, level)
    /\ level' = level
    /\ recovery' = 0

Update(q) ==
    /\ Raise(q) \/ CleanWindow(q) \/ Hold(q)
    /\ quality' = q
    /\ held' = IF level' # level THEN 0 ELSE Smaller(held + 1, Windows)

-----------------------------------------------------------------------------
(* Nothing was measured yet: every field of the sample is 0. *)
NoQuality == [media |-> 0, transport |-> 0, rtt |-> 0, jitter |-> 0]

Init ==
    /\ level = 0
    /\ recovery = 0
    /\ quality = NoQuality
    /\ held = 0

Next == \E q \in Qualities : Update(q)

Spec == Init /\ [][Next]_vars

(* The stats loop updates the controller in every window. *)
FairSpec == Spec /\ WF_vars(Next)

-----------------------------------------------------------------------------
(* Properties *)

(* Type invariant of the controller. *)
TypeOK ==
    /\ level \in Levels
    /\ recovery \in 0..(Windows - 1)
    /\ quality \in Quality
    /\ held \in 0..Windows

(* After every update the level is at least the one the sample just used    *)
(* asks for.  Steps down obey the recovery table, raises the required one:  *)
(* the two tables agree, so a step down never lands on a level that the     *)
(* same sample would raise again, and a steady network cannot make the      *)
(* ladder oscillate.                                                        *)
Adequate == level >= Required(quality)

(* The ladder is climbed slowly: between any change of level and the next   *)
(* step down there are at least four updates that keep the level, whatever  *)
(* raises interrupt the count of clean windows.                             *)
HeldBeforeStepDown == [][level' < level => (level' = level - 1 /\ held >= Windows - 1)]_vars

(* When loss, delay and jitter stay low for good, the top of the ladder is  *)
(* reached again and kept: no level is a trap.                              *)
Calm(q) == Loss(q) < 1 /\ q.rtt < 150 /\ q.jitter < 40
Recovers == <>[]Calm(quality) => <>[](level = 0)
=============================================================================
