-------------------------- MODULE KeyframeRecovery -------------------------
(***************************************************************************)
(* How a receiver that lost sync gets a keyframe: the loop that runs       *)
(* through VideoReceiver's recovery thread (which sends PLI), the sender's *)
(* RTC thread (which handles PLI and the keyframe acknowledgement), the    *)
(* sender's send loop (which encodes, and in recovery mode sends only      *)
(* keyframes, at most one per 250 ms), and the receiver's gate.            *)
(*                                                                         *)
(* A step is what a thread does under one lock or with one atomic.  Frames *)
(* are whole here: the gate is reduced to what module FrameGate shows of   *)
(* it, a sync flag that a keyframe raises when it is down, an epoch, and   *)
(* the loss of sync at any moment.                                         *)
(*                                                                         *)
(* PLIs, acknowledgements and frames travel over UDP: each may be lost.    *)
(***************************************************************************)
EXTENDS Integers, Sequences

CONSTANTS
    Profiles,         \* the encoder profiles the adaptation may choose
    MaxEpoch,         \* the largest epoch before the counter wraps
    Cooldown,         \* 250 ms, in ticks
    InFlight          \* frames, PLIs, acks on the wire at a time; more are lost

ASSUME RecoveryAssumption ==
    /\ Profiles # {}
    /\ MaxEpoch \in Nat \ {0}
    /\ Cooldown \in Nat \ {0}
    /\ InFlight \in Nat \ {0}

Epochs == 1..MaxEpoch
Frames == [epoch : Epochs, key : BOOLEAN]
NoFrame == [epoch |-> 0, key |-> FALSE]   \* frame, before the first and after each

VARIABLES
    \* VideoSender and its VideoFileReader
    profile,          \* profile_
    force,            \* force_keyframe_
    recovery,         \* recovery_mode_
    sinceRecovery,    \* age of last_recovery_frame_us_, Cooldown while unset
    configured,       \* encoder_configured_
    encoding,         \* encoder_profile_
    epoch,            \* epoch_, 0 before the first configuration
    open,             \* the track is open, at both ends
    \* the send loop: where it is, and its locals
    spc,              \* "copy", "gate", "encode", "send", "stopped"
    taken,            \* profile, copied under the lock
    clock,            \* age of at_us
    frame,            \* the encoded frame
    \* the sender's RTC thread
    rtc,              \* "idle", or "force" between the two stores of a PLI
    \* the receiver: the gate, and the recovery thread
    synced,           \* stats_.synchronized
    epochSeen,        \* receiver_epoch_, 0 while unset
    rpc,              \* "check", or "request" once a keyframe was found needed
    asked,            \* age of the at_us of this pass
    sincePli,         \* age of last_pli_us
    \* the wires
    air,              \* frames on their way
    plis, acks,       \* numbers of PLIs and acknowledgements on their way
    sent,             \* epochs of which a late packet may still turn up
    \* history
    owed              \* a keyframe was asked for and none was encoded since

sender   == <<profile, force, recovery, sinceRecovery, configured, encoding, epoch, open>>
loop     == <<spc, taken, clock, frame>>
receiver == <<synced, epochSeen, rpc, asked, sincePli>>
wires    == <<air, plis, acks, sent>>
vars     == <<sender, loop, rtc, receiver, wires, owed>>

Older(age) == IF age < Cooldown THEN age + 1 ELSE age
Sent(n)    == IF n < InFlight THEN n + 1 ELSE n

-----------------------------------------------------------------------------
(* The sender's stats thread: VideoSender::update_profile *)
UpdateProfile(p) ==
    /\ profile' = p
    /\ force' = (force \/ p # profile)
    /\ owed' = (owed \/ p # profile)
    /\ UNCHANGED <<recovery, sinceRecovery, configured, encoding, epoch, open,
                   loop, rtc, receiver, wires>>

(* The sender's RTC thread: on_keyframe_requested stores two flags, one     *)
(* after the other; on_keyframe_acknowledged stores one.                    *)
ReceivePli ==
    /\ rtc = "idle"
    /\ plis > 0
    /\ plis' = plis - 1
    /\ recovery' = TRUE
    /\ rtc' = "force"
    /\ UNCHANGED <<profile, force, sinceRecovery, configured, encoding, epoch, open,
                   loop, receiver, air, acks, sent, owed>>

ForceKeyframe ==
    /\ rtc = "force"
    /\ force' = TRUE
    /\ owed' = TRUE
    /\ rtc' = "idle"
    /\ UNCHANGED <<profile, recovery, sinceRecovery, configured, encoding, epoch, open,
                   loop, receiver, wires>>

(* Mutant: an acknowledgement also withdraws the request for a keyframe. *)
ReceiveAckWithdraws ==
    /\ rtc = "idle"
    /\ acks > 0
    /\ acks' = acks - 1
    /\ recovery' = FALSE
    /\ force' = FALSE
    /\ UNCHANGED <<profile, sinceRecovery, configured, encoding, epoch, open,
                   loop, rtc, receiver, air, plis, sent, owed>>

(* The acknowledgement's epoch and frame id are not looked at. *)
ReceiveAck ==
    /\ rtc = "idle"
    /\ acks > 0
    /\ acks' = acks - 1
    /\ recovery' = FALSE
    /\ UNCHANGED <<profile, force, sinceRecovery, configured, encoding, epoch, open,
                   loop, rtc, receiver, air, plis, sent, owed>>

(* onClosed: the send loop is told to stop. *)
TrackCloses ==
    /\ open
    /\ open' = FALSE
    /\ UNCHANGED <<profile, force, recovery, sinceRecovery, configured, encoding, epoch,
                   loop, rtc, receiver, wires, owed>>

-----------------------------------------------------------------------------
(* The send loop *)

(* The top of the loop, and the copy of the profile under the lock. *)
CopyProfile ==
    /\ spc = "copy"
    /\ open
    /\ taken' = profile
    /\ spc' = "gate"
    /\ UNCHANGED <<sender, clock, frame, rtc, receiver, wires, owed>>

StopLoop ==
    /\ spc = "copy"
    /\ ~ open
    /\ spc' = "stopped"
    /\ UNCHANGED <<sender, taken, clock, frame, rtc, receiver, wires, owed>>

(* In recovery mode the loop waits until the last frame sent in that mode   *)
(* is 250 ms old.                                                           *)
Gate ==
    /\ spc = "gate"
    /\ spc' = IF recovery /\ sinceRecovery < Cooldown THEN "copy" ELSE "encode"
    /\ clock' = 0
    /\ UNCHANGED <<sender, taken, frame, rtc, receiver, wires, owed>>

(* next_frame: a profile other than the encoder's, or an encoder closed at  *)
(* the end of the file, means a new encoder and a new epoch.                *)
Reconfigures == ~ configured \/ encoding # taken

(* Mutant: a counter that does not wrap. *)
NextEpochUnbounded == epoch + 1

NextEpoch    == IF epoch = MaxEpoch THEN 1 ELSE epoch + 1
EncodeEpoch  == IF Reconfigures THEN NextEpoch ELSE epoch

(* The exchange of the flag, or recovery mode. *)
Forced == force \/ recovery

(* A frame comes out: a keyframe if it was forced, if the encoder is new,   *)
(* or when the encoder's own interval says so.                              *)
Encode ==
    /\ spc = "encode"
    /\ \E natural \in BOOLEAN :
          frame' = [epoch |-> EncodeEpoch, key |-> Forced \/ Reconfigures \/ natural]
    /\ force' = FALSE
    /\ owed' = (owed /\ ~ frame'.key)
    /\ configured' = TRUE
    /\ encoding' = taken
    /\ epoch' = EncodeEpoch
    /\ spc' = "send"
    /\ UNCHANGED <<profile, recovery, sinceRecovery, open, taken, clock, rtc, receiver, wires>>

(* The file is at its end (after at least one frame): it is opened again,   *)
(* the encoder is closed, and a keyframe is asked for.                      *)
EndOfFile ==
    /\ spc = "encode"
    /\ configured
    /\ force' = TRUE
    /\ configured' = FALSE
    /\ encoding' = taken
    /\ epoch' = EncodeEpoch
    /\ spc' = "copy"
    /\ clock' = 0
    /\ UNCHANGED <<profile, recovery, sinceRecovery, open, taken, frame,
                   rtc, receiver, wires, owed>>

(* send_frame, which fails on a closed track: a frame sent in recovery mode *)
(* starts a new wait.  A full wire loses its oldest frame.                  *)
Send ==
    /\ spc = "send"
    /\ IF open
       THEN /\ air' = Append(IF Len(air) < InFlight THEN air ELSE Tail(air), frame)
            /\ sent' = sent \cup {frame.epoch}
            /\ sinceRecovery' = IF recovery THEN clock ELSE sinceRecovery
       ELSE UNCHANGED <<air, sent, sinceRecovery>>
    /\ spc' = "copy"
    /\ clock' = 0
    /\ frame' = NoFrame
    /\ UNCHANGED <<profile, force, recovery, configured, encoding, epoch, open,
                   taken, rtc, receiver, plis, acks, owed>>

SendLoop == CopyProfile \/ StopLoop \/ Gate \/ Encode \/ EndOfFile \/ Send

-----------------------------------------------------------------------------
(* The receiver *)

(* Mutant: a keyframe of the epoch already seen does not restore sync. *)
RestoresOnSwitch(f) == f.key /\ epochSeen # f.epoch

(* A keyframe restores sync unless it is just the next frame. *)
Restores(f) == f.key /\ (~ synced \/ epochSeen # f.epoch)

(* A whole frame reaches the gate. *)
Delivered(f) ==
    /\ synced' = (Restores(f) \/ (synced /\ epochSeen = f.epoch))
    /\ acks' = IF Restores(f) THEN Sent(acks) ELSE acks
    /\ epochSeen' = f.epoch
    /\ UNCHANGED <<sender, loop, rtc, rpc, asked, sincePli, plis, sent, owed>>

ReceiveFrame ==
    /\ air # <<>>
    /\ air' = Tail(air)
    /\ Delivered(Head(air))

(* Retransmitted packets complete a keyframe of long ago: to a gate that is *)
(* out of sync it is a keyframe like any other.                             *)
ReceiveOldKeyframe(e) ==
    /\ e \in sent
    /\ ~ (synced /\ epochSeen = e)
    /\ air' = air
    /\ Delivered([epoch |-> e, key |-> TRUE])

(* A timeout, an inconsistent or overflowing buffer, a decoder error. *)
LoseSync ==
    /\ synced
    /\ synced' = FALSE
    /\ UNCHANGED <<sender, loop, rtc, epochSeen, rpc, asked, sincePli, wires, owed>>

(* A packet of another epoch, without the rest of its frame. *)
SwitchEpoch(e) ==
    /\ e \in sent \ {epochSeen}
    /\ epochSeen' = e
    /\ synced' = FALSE
    /\ UNCHANGED <<sender, loop, rtc, rpc, asked, sincePli, wires, owed>>

(* recovery_loop asks whether a keyframe is needed, and then, the lock      *)
(* released, asks for one.                                                  *)
CheckNeed ==
    /\ rpc = "check"
    /\ open
    /\ ~ synced
    /\ sincePli >= Cooldown
    /\ asked' = 0
    /\ rpc' = "request"
    /\ UNCHANGED <<sender, loop, rtc, synced, epochSeen, sincePli, wires, owed>>

RequestKeyframe ==
    /\ rpc = "request"
    /\ plis' = IF open THEN Sent(plis) ELSE plis
    /\ sincePli' = asked
    /\ asked' = 0
    /\ rpc' = "check"
    /\ UNCHANGED <<sender, loop, rtc, synced, epochSeen, air, acks, sent, owed>>

-----------------------------------------------------------------------------
(* The network and time *)
LoseFrame ==
    /\ air # <<>>
    /\ air' = Tail(air)
    /\ UNCHANGED <<sender, loop, rtc, receiver, plis, acks, sent, owed>>

LosePli ==
    /\ plis > 0
    /\ plis' = plis - 1
    /\ UNCHANGED <<sender, loop, rtc, receiver, air, acks, sent, owed>>

LoseAck ==
    /\ acks > 0
    /\ acks' = acks - 1
    /\ UNCHANGED <<sender, loop, rtc, receiver, air, plis, sent, owed>>

Tick ==
    /\ sinceRecovery' = Older(sinceRecovery)
    /\ sincePli' = Older(sincePli)
    /\ clock' = IF spc \in {"encode", "send"} THEN Older(clock) ELSE clock
    /\ asked' = IF rpc = "request" THEN Older(asked) ELSE asked
    /\ UNCHANGED <<profile, force, recovery, configured, encoding, epoch, open,
                   spc, taken, frame, rtc, synced, epochSeen, rpc, wires, owed>>

-----------------------------------------------------------------------------
Init ==
    /\ profile \in Profiles
    /\ force = TRUE
    /\ recovery = FALSE
    /\ sinceRecovery = Cooldown
    /\ configured = FALSE
    /\ encoding = profile
    /\ epoch = 0
    /\ open = TRUE
    /\ spc = "copy"
    /\ taken = profile
    /\ clock = 0
    /\ frame = NoFrame
    /\ rtc = "idle"
    /\ synced = FALSE
    /\ epochSeen = 0
    /\ rpc = "check"
    /\ asked = 0
    /\ sincePli = Cooldown
    /\ air = <<>>
    /\ plis = 0
    /\ acks = 0
    /\ sent = {}
    /\ owed = FALSE

RtcThread == ReceivePli \/ ForceKeyframe \/ ReceiveAck
RecoveryThread == CheckNeed \/ RequestKeyframe
Network == LoseFrame \/ LosePli \/ LoseAck \/ TrackCloses
Gateway == ReceiveFrame \/ LoseSync \/ (\E e \in Epochs : ReceiveOldKeyframe(e) \/ SwitchEpoch(e))

Next ==
    \/ \E p \in Profiles : UpdateProfile(p)
    \/ RtcThread
    \/ SendLoop
    \/ Gateway
    \/ RecoveryThread
    \/ Network
    \/ Tick

Spec == Init /\ [][Next]_vars

(* Every thread keeps running and time passes.  The network is lossy but    *)
(* not dead: what is sent again and again is received again and again.      *)
FairSpec ==
    /\ Spec
    /\ WF_vars(SendLoop)
    /\ WF_vars(ForceKeyframe)
    /\ WF_vars(RecoveryThread)
    /\ WF_vars(Tick)
    /\ SF_vars(ReceivePli)
    /\ SF_vars(ReceiveAck)
    /\ SF_vars(ReceiveFrame /\ Head(air).key)

-----------------------------------------------------------------------------
(* Properties *)

(* Type invariant of the loop's state. *)
TypeOK ==
    /\ {profile, encoding, taken} \subseteq Profiles
    /\ {force, recovery, configured, open, synced, owed} \subseteq BOOLEAN
    /\ {sinceRecovery, clock, asked, sincePli} \subseteq 0..Cooldown
    /\ {epoch, epochSeen} \subseteq Epochs \cup {0}
    /\ spc \in {"copy", "gate", "encode", "send", "stopped"}
    /\ frame \in (IF spc = "send" THEN Frames ELSE {NoFrame})
    /\ rtc \in {"idle", "force"}
    /\ rpc \in {"check", "request"}
    /\ air \in Seq(Frames) /\ Len(air) <= InFlight
    /\ {plis, acks} \subseteq 0..InFlight
    /\ sent \subseteq Epochs

(* No request for a keyframe is swallowed: once the PLI callback or a       *)
(* change of profile has asked for one, the next frame encoded is a         *)
(* keyframe, whatever the order of the flags' stores, the loop's exchange,  *)
(* an acknowledgement, or the end of the file.                              *)
OwedKeyframe == [][(spc = "encode" /\ spc' = "send" /\ owed) => frame'.key]_vars

(* A receiver that lost sync gets it back as long as the sender's track is  *)
(* open: a lost PLI is repeated, and an acknowledgement of an earlier       *)
(* keyframe does not cancel the recovery for good.                          *)
Resyncs == ~ synced ~> (synced \/ ~ open)

(* README.md:94-101: the ladder gives each level its frame rate.  A sender  *)
(* whose receiver stays synchronized returns to it: recovery mode, four     *)
(* keyframes a second, ends.                                                *)
RecoveryEnds == <>[](synced /\ open) => <>[](~ recovery \/ ~ open)
=============================================================================
