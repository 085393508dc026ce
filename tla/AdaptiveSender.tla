--------------------------- MODULE AdaptiveSender --------------------------
(***************************************************************************)
(* The sender's stats thread and its send loop around the adaptation       *)
(* controller (module VideoAdaptation).  Once a second the stats thread    *)
(* updates the controller, stores the profile in VideoSender, and then     *)
(* sets the pacer's rate; the send loop copies the profile and encodes     *)
(* with the copy.  The three steps of the one and the two of the other     *)
(* interleave: only the profile itself is under VideoSender's lock.        *)
(***************************************************************************)
EXTENDS VideoAdaptation

VARIABLES
    \* the stats thread
    stats,            \* "window", "profile", "pacer": what it does next
    target,           \* VideoSender::profile_
    pace,             \* the pacer's rate, bits per second
    \* the send loop
    loop,             \* "copy", "encode": what it does next
    taken,            \* the profile copied under the lock
    encoding          \* the encoder's profile, NoProfile before the first

sender == <<stats, target, pace, loop, taken, encoding>>

(* What VideoProfile's member initializers say, and the rate with which     *)
(* set_track makes the pacer.                                               *)
DefaultProfile == Ladder[0]
DefaultPace    == 2300000
NoProfile      == [Ladder[0] EXCEPT !.level = -1]

Profiles == {ProfileForLevel(l) : l \in Levels}

-----------------------------------------------------------------------------
(* The stats thread: stats_loop *)

Window(q) ==
    /\ stats = "window"
    /\ Update(q)
    /\ stats' = "profile"
    /\ UNCHANGED <<target, pace, loop, taken, encoding>>

UpdateProfile ==
    /\ stats = "profile"
    /\ target' = ProfileForLevel(level)
    /\ stats' = "pacer"
    /\ UNCHANGED <<vars, pace, loop, taken, encoding>>

(* Mutant: no floor under the share of packets that survive. *)
SurvivalUnbounded(q) == Larger(1, 100 - Loss(q))

(* The share of packets that survive, in percent, taken as 20 at least. *)
Survival(q) == Larger(20, 100 - Loss(q))

(* The profile's rate and 15 percent, grown by what will be sent again. *)
PaceFor(p, q) ==
    Smaller((p.kbps * 115000) \div Survival(q), 8000000)

(* Mutant: the rate is computed from the profile the encoder took last. *)
UpdatePacerFromEncoder ==
    /\ stats = "pacer"
    /\ pace' = PaceFor(taken, quality)
    /\ stats' = "window"
    /\ UNCHANGED <<vars, target, loop, taken, encoding>>

UpdatePacer ==
    /\ stats = "pacer"
    /\ pace' = PaceFor(target, quality)
    /\ stats' = "window"
    /\ UNCHANGED <<vars, target, loop, taken, encoding>>

-----------------------------------------------------------------------------
(* The send loop, with the track open *)

CopyProfile ==
    /\ loop = "copy"
    /\ taken' = target
    /\ loop' = "encode"
    /\ UNCHANGED <<vars, stats, target, pace, encoding>>

(* Mutant: an encoder once made is kept. *)
EncodeKeepingEncoder ==
    /\ loop = "encode"
    /\ encoding' = IF encoding = NoProfile THEN taken ELSE encoding
    /\ loop' = "copy"
    /\ UNCHANGED <<vars, stats, target, pace, taken>>

(* next_frame: an encoder of another profile is replaced first. *)
Encode ==
    /\ loop = "encode"
    /\ encoding' = taken
    /\ loop' = "copy"
    /\ UNCHANGED <<vars, stats, target, pace, taken>>

-----------------------------------------------------------------------------
SenderInit ==
    /\ Init
    /\ stats = "window"
    /\ target = DefaultProfile
    /\ pace = DefaultPace
    /\ loop = "copy"
    /\ taken = DefaultProfile
    /\ encoding = NoProfile

StatsLoop == (\E q \in Qualities : Window(q)) \/ UpdateProfile \/ UpdatePacer
SendLoop  == CopyProfile \/ Encode

SenderNext == StatsLoop \/ SendLoop

SenderSpec == SenderInit /\ [][SenderNext]_<<vars, sender>>

(* Each thread keeps running. *)
FairSenderSpec ==
    SenderSpec /\ WF_<<vars, sender>>(StatsLoop) /\ WF_<<vars, sender>>(SendLoop)

-----------------------------------------------------------------------------
(* Properties *)

(* What the least and the greatest of the rates come to. *)
LowestPace  == 172500
HighestPace == 2400000

(* Type invariant.  That the pacer's rate stays near the top profile's, and *)
(* the 8 Mbit/s cap is never reached, is part of it: heavy loss raises the  *)
(* rate through survival but lowers it through the level.                   *)
SenderTypeOK ==
    /\ TypeOK
    /\ stats \in {"window", "profile", "pacer"}
    /\ loop \in {"copy", "encode"}
    /\ {target, taken} \subseteq Profiles \cup {DefaultProfile}
    /\ encoding \in Profiles \cup {DefaultProfile, NoProfile}
    /\ pace \in LowestPace..HighestPace

(* Between two windows the pacer carries what the encoder makes: once the   *)
(* encoder has followed the target, the pacer's rate is at least 115% of    *)
(* the encoder's, whatever order the two threads' steps took.               *)
PacerCarriesEncoder ==
    (stats = "window" /\ encoding = target) => pace >= encoding.kbps * 1150

(* The encoder follows the controller: at a level that is kept, it ends up  *)
(* with that level's profile.                                               *)
EncoderFollows ==
    \A l \in Levels :
        <>[](level = l) => <>[](encoding = ProfileForLevel(l))

(* --max-video-kbps, once heard, is kept: before the first window the       *)
(* encoder runs at the default 2000 kbit/s, but from its first profile      *)
(* within the maximum on, no later one is above it.                         *)
MaximumKept ==
    [][encoding # NoProfile /\ encoding.kbps <= MaxVideoKbps
           => encoding'.kbps <= MaxVideoKbps]_<<vars, sender>>
=============================================================================
