----------------------- MODULE KeyframeRecoveryProofs ----------------------
(***************************************************************************)
(* Theorems about KeyframeRecovery, for any profiles, epoch width,         *)
(* cooldown and wire: its state keeps its type, and no request for a       *)
(* keyframe is swallowed.                                                  *)
(*                                                                         *)
(* The inductive invariant adds to the type that a request still owed has  *)
(* its flag up: whoever records a request raises the flag, and only the    *)
(* step that encodes a frame takes it down.                                *)
(***************************************************************************)
EXTENDS KeyframeRecovery, SequenceTheorems, TLAPS

FlagUp == owed => force
Started == configured => epoch # 0
RecoveryInv == TypeOK /\ FlagUp /\ Started

(* The wire: what goes on and off it is a short sequence of frames. *)
LEMMA WireTail ==
    ASSUME NEW S, NEW s \in Seq(S), Len(s) <= InFlight, s # <<>>
    PROVE  /\ Tail(s) \in Seq(S)
           /\ Len(Tail(s)) < InFlight
           /\ Head(s) \in S
<1>1. Len(Tail(s)) = Len(s) - 1 /\ Tail(s) \in Seq(S) /\ Head(s) \in S
  BY HeadTailProperties
<1>2. Len(s) \in Nat /\ InFlight \in Nat
  BY RecoveryAssumption, LenProperties
<1>. QED
  BY <1>1, <1>2

LEMMA WireAppend ==
    ASSUME NEW S, NEW s \in Seq(S), Len(s) <= InFlight, NEW f \in S
    PROVE  LET t == Append(IF Len(s) < InFlight THEN s ELSE Tail(s), f)
           IN  t \in Seq(S) /\ Len(t) <= InFlight
<1>. DEFINE r == IF Len(s) < InFlight THEN s ELSE Tail(s)
<1>1. InFlight \in Nat /\ InFlight > 0 /\ Len(s) \in Nat
  BY RecoveryAssumption, LenProperties
<1>2. r \in Seq(S) /\ Len(r) < InFlight
  <2>1. CASE Len(s) < InFlight
    BY <2>1
  <2>2. CASE ~ (Len(s) < InFlight)
    <3>1. s # <<>>
      BY <1>1, <2>2
    <3>. QED
      BY <2>2, <3>1, WireTail
  <2>. QED
    BY <2>1, <2>2
<1>3. Append(r, f) \in Seq(S) /\ Len(Append(r, f)) = Len(r) + 1
  BY <1>2, AppendProperties
<1>. QED
  BY <1>1, <1>2, <1>3, LenProperties

(* Ages and counts stay within their bounds, epochs within theirs. *)
LEMMA AgeBounded == ASSUME NEW age \in 0..Cooldown PROVE Older(age) \in 0..Cooldown
BY RecoveryAssumption DEF Older

LEMMA CountBounded == ASSUME NEW n \in 0..InFlight PROVE Sent(n) \in 0..InFlight
BY RecoveryAssumption DEF Sent

LEMMA EpochBounded == ASSUME TypeOK, Started PROVE EncodeEpoch \in Epochs
BY RecoveryAssumption DEF TypeOK, Started, EncodeEpoch, Reconfigures, NextEpoch, Epochs


(* A keyframe owed is the next frame. *)
OwedStep == (spc = "encode" /\ spc' = "send" /\ owed) => frame'.key

LEMMA InitInv == Init => RecoveryInv
<1>. SUFFICES ASSUME Init PROVE RecoveryInv
  OBVIOUS
<1>1. 0 \in 0..Cooldown /\ Cooldown \in 0..Cooldown /\ 0 \in 0..InFlight /\ 0 <= InFlight
  BY RecoveryAssumption
<1>2. air \in Seq(Frames) /\ Len(air) = 0
  BY DEF Init
<1>. QED
  BY <1>1, <1>2 DEF Init, RecoveryInv, TypeOK, FlagUp, Started

(* The steps that change no sequence and no age. *)
LEMMA FlagSteps ==
    ASSUME RecoveryInv,
           \/ \E p \in Profiles : UpdateProfile(p)
           \/ ForceKeyframe \/ TrackCloses \/ CopyProfile \/ StopLoop \/ LoseSync
           \/ \E e \in Epochs : SwitchEpoch(e)
    PROVE  RecoveryInv' /\ OwedStep
<1>. USE DEF sender, loop, receiver, wires, RecoveryInv, TypeOK, FlagUp, Started, OwedStep
<1>1. ASSUME NEW p \in Profiles, UpdateProfile(p) PROVE RecoveryInv' /\ OwedStep
  BY <1>1 DEF UpdateProfile
<1>2. CASE ForceKeyframe
  BY <1>2 DEF ForceKeyframe
<1>3. CASE TrackCloses
  BY <1>3 DEF TrackCloses
<1>4. CASE CopyProfile
  BY <1>4 DEF CopyProfile
<1>5. CASE StopLoop
  BY <1>5 DEF StopLoop
<1>6. CASE LoseSync
  BY <1>6 DEF LoseSync
<1>7. ASSUME NEW e \in Epochs, SwitchEpoch(e) PROVE RecoveryInv' /\ OwedStep
  BY <1>7 DEF SwitchEpoch
<1>. QED
  BY <1>1, <1>2, <1>3, <1>4, <1>5, <1>6, <1>7

(* The steps that take a PLI or an acknowledgement off the wire, or put one *)
(* on it.                                                                   *)
LEMMA CountSteps ==
    ASSUME RecoveryInv,
           \/ ReceivePli \/ ReceiveAck \/ CheckNeed \/ RequestKeyframe
           \/ LosePli \/ LoseAck
    PROVE  RecoveryInv' /\ OwedStep
<1>. USE DEF sender, loop, receiver, wires, RecoveryInv, TypeOK, FlagUp, Started, OwedStep
<1>1. CASE ReceivePli
  <2>1. plis - 1 \in 0..InFlight
    BY <1>1, RecoveryAssumption DEF ReceivePli
  <2>. QED
    BY <1>1, <2>1 DEF ReceivePli
<1>2. CASE ReceiveAck
  <2>1. acks - 1 \in 0..InFlight
    BY <1>2, RecoveryAssumption DEF ReceiveAck
  <2>. QED
    BY <1>2, <2>1 DEF ReceiveAck
<1>3. CASE CheckNeed
  <2>1. 0 \in 0..Cooldown
    BY RecoveryAssumption
  <2>. QED
    BY <1>3, <2>1 DEF CheckNeed
<1>4. CASE RequestKeyframe
  <2>1. 0 \in 0..Cooldown /\ Sent(plis) \in 0..InFlight
    BY RecoveryAssumption, CountBounded
  <2>. QED
    BY <1>4, <2>1 DEF RequestKeyframe
<1>5. CASE LosePli
  <2>1. plis - 1 \in 0..InFlight
    BY <1>5, RecoveryAssumption DEF LosePli
  <2>. QED
    BY <1>5, <2>1 DEF LosePli
<1>6. CASE LoseAck
  <2>1. acks - 1 \in 0..InFlight
    BY <1>6, RecoveryAssumption DEF LoseAck
  <2>. QED
    BY <1>6, <2>1 DEF LoseAck
<1>. QED
  BY <1>1, <1>2, <1>3, <1>4, <1>5, <1>6

(* The send loop from the gate to the wire. *)
LEMMA LoopSteps ==
    ASSUME RecoveryInv, Gate \/ Encode \/ EndOfFile \/ Send
    PROVE  RecoveryInv' /\ OwedStep
<1>. USE DEF sender, loop, receiver, wires, RecoveryInv, TypeOK, FlagUp, Started, OwedStep
<1>1. 0 \in 0..Cooldown
  BY RecoveryAssumption
<1>2. CASE Gate
  BY <1>1, <1>2 DEF Gate
<1>3. CASE Encode
  <2>1. EncodeEpoch \in Epochs /\ EncodeEpoch # 0
    BY EpochBounded DEF Epochs
  <2>2. PICK natural \in BOOLEAN :
           frame' = [epoch |-> EncodeEpoch, key |-> Forced \/ Reconfigures \/ natural]
    BY <1>3 DEF Encode
  <2>3. frame' \in Frames
    BY <2>1, <2>2 DEF Frames, Forced, Reconfigures
  <2>4. owed => frame'.key
    BY <2>2 DEF Forced
  <2>. QED
    BY <1>3, <2>1, <2>3, <2>4 DEF Encode, Frames
<1>4. CASE EndOfFile
  <2>1. EncodeEpoch \in Epochs
    BY EpochBounded
  <2>. QED
    BY <1>1, <1>4, <2>1 DEF EndOfFile
<1>5. CASE Send
  <2>1. CASE open
    <3>. DEFINE sentAir == Append(IF Len(air) < InFlight THEN air ELSE Tail(air), frame)
    <3>1. frame \in Frames
      BY <1>5 DEF Send
    <3>2. sentAir \in Seq(Frames) /\ Len(sentAir) <= InFlight
      BY <3>1, WireAppend
    <3>3. frame.epoch \in Epochs
      BY <3>1 DEF Frames
    <3>4. air' \in Seq(Frames) /\ Len(air') <= InFlight
      BY <1>5, <2>1, <3>2 DEF Send
    <3>. QED
      BY <1>1, <1>5, <2>1, <3>3, <3>4 DEF Send
  <2>2. CASE ~ open
    BY <1>1, <1>5, <2>2 DEF Send
  <2>. QED
    BY <2>1, <2>2
<1>. QED
  BY <1>2, <1>3, <1>4, <1>5

(* The frames that reach the receiver, the frames lost, and time. *)
LEMMA WireSteps ==
    ASSUME RecoveryInv,
           \/ ReceiveFrame \/ LoseFrame \/ Tick
           \/ \E e \in Epochs : ReceiveOldKeyframe(e)
    PROVE  RecoveryInv' /\ OwedStep
<1>. USE DEF sender, loop, receiver, wires, RecoveryInv, TypeOK, FlagUp, Started, OwedStep
<1>1. ASSUME NEW f \in Frames, Delivered(f),
             air' \in Seq(Frames), Len(air') <= InFlight
      PROVE  RecoveryInv' /\ OwedStep
  <2>1. acks' \in 0..InFlight
    BY <1>1, CountBounded DEF Delivered
  <2>2. epochSeen' \in Epochs
    BY <1>1 DEF Delivered, Frames
  <2>3. synced' \in BOOLEAN
    BY <1>1 DEF Delivered, Restores, Frames
  <2>. QED
    BY <1>1, <2>1, <2>2, <2>3 DEF Delivered
<1>2. CASE ReceiveFrame
  <2>1. /\ Tail(air) \in Seq(Frames)
        /\ Len(Tail(air)) < InFlight
        /\ Head(air) \in Frames
    BY <1>2, WireTail DEF ReceiveFrame
  <2>2. Len(Tail(air)) <= InFlight
    BY <2>1, LenProperties, RecoveryAssumption
  <2>. QED
    BY <1>1, <1>2, <2>1, <2>2 DEF ReceiveFrame
<1>3. ASSUME NEW e \in Epochs, ReceiveOldKeyframe(e) PROVE RecoveryInv' /\ OwedStep
  <2>1. [epoch |-> e, key |-> TRUE] \in Frames
    BY DEF Frames
  <2>. QED
    BY <1>1, <1>3, <2>1 DEF ReceiveOldKeyframe
<1>4. CASE LoseFrame
  <2>1. Tail(air) \in Seq(Frames) /\ Len(Tail(air)) < InFlight
    BY <1>4, WireTail DEF LoseFrame
  <2>2. Len(Tail(air)) <= InFlight
    BY <2>1, LenProperties, RecoveryAssumption
  <2>. QED
    BY <1>4, <2>1, <2>2 DEF LoseFrame
<1>5. CASE Tick
  BY <1>5, AgeBounded DEF Tick
<1>. QED
  BY <1>2, <1>3, <1>4, <1>5

LEMMA StepInv ==
    ASSUME RecoveryInv, [Next]_vars
    PROVE  RecoveryInv' /\ (OwedStep \/ UNCHANGED vars)
<1>1. CASE UNCHANGED vars
  BY <1>1 DEF vars, sender, loop, receiver, wires, RecoveryInv, TypeOK, FlagUp, Started
<1>2. CASE Next
  BY <1>2, FlagSteps, CountSteps, LoopSteps, WireSteps
     DEF Next, RtcThread, SendLoop, Gateway, RecoveryThread, Network
<1>. QED
  BY <1>1, <1>2

(* The inductive invariant. *)
THEOREM RecoveryInvariant == Spec => []RecoveryInv
<1>1. Init => RecoveryInv
  BY InitInv
<1>2. RecoveryInv /\ [Next]_vars => RecoveryInv'
  BY StepInv
<1>. QED
  BY <1>1, <1>2, PTL DEF Spec

(* The loop's state keeps its type: the epoch wraps past 0, ages saturate,  *)
(* and a frame is at hand exactly while the send loop sends it.             *)
THEOREM TypeCorrect == Spec => []TypeOK
<1>1. RecoveryInv => TypeOK
  BY DEF RecoveryInv
<1>. QED
  BY <1>1, RecoveryInvariant, PTL

(* No request for a keyframe is swallowed by the exchange of the flag       *)
(* (video_sender.cpp:168-170), by an acknowledgement, or at the end of the  *)
(* file: the next frame encoded is a keyframe.                              *)
THEOREM NoRequestSwallowed == Spec => OwedKeyframe
<1>1. RecoveryInv /\ [Next]_vars
         => [(spc = "encode" /\ spc' = "send" /\ owed) => frame'.key]_vars
  BY StepInv DEF OwedStep
<1>. QED
  BY <1>1, RecoveryInvariant, PTL DEF Spec, OwedKeyframe

=============================================================================
