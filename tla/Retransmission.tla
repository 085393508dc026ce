--------------------------- MODULE Retransmission ---------------------------
(***************************************************************************)
(* One packet, from its label to its place in a frame, and what is asked   *)
(* for when it is missing: the sending half of VideoTransportHandler, the  *)
(* NACK messages of its receiving half, and RtxReceivingHandler.  The      *)
(* sender's rtc::RtcpNackResponder, which keeps the packets sent and       *)
(* answers a NACK with RTX packets, is external.                           *)
(*                                                                         *)
(* The receiver asks for numbers it works out from one packet of the       *)
(* frame, grouped as a first number and a mask of those after it; numbers  *)
(* wrap.  When a NACK is due, and when a frame is given up, is FrameGate's *)
(* matter: here both may happen at any time.                               *)
(***************************************************************************)
EXTENDS Integers, Sequences, FiniteSets, SequencesExt

CONSTANTS
    Frames,        \* the frames encoded: records of epoch, key and count of packets
    FirstNumber,   \* the RTP sequence number of the first packet, random in RTP
    Modulus,       \* of RTP sequence numbers, 2^16
    MaskBits       \* of a NACK's mask, 16

ASSUME RetransmissionAssumption ==
    /\ Frames \in Seq([epoch : Nat, key : BOOLEAN, count : Nat \ {0}])
    /\ Modulus \in Nat \ {0}
    /\ FirstNumber \in 0 .. Modulus - 1
    /\ MaskBits \in Nat \ {0}
    /\ \A f \in DOMAIN Frames : Frames[f].count <= Modulus

FrameIds == DOMAIN Frames
Numbers == 0 .. Modulus - 1
Nothing == <<>>                  \* no packet, no NACK, no assembly

VARIABLES
    sent,       \* next_frame_id_ - 1
    air,        \* media packets under way
    rtx,        \* RTX packets under way
    nacks,      \* by frame, the NACK for it under way
    frames,     \* frames_: by frame id, the assembly
    given       \* history: frames given up

vars == <<sent, air, rtx, nacks, frames, given>>

-----------------------------------------------------------------------------
(* Sending *)

(* How many packets were sent before frame f. *)
Before ==
    [f \in FrameIds |->
        Cardinality(UNION {{g} \X (0 .. Frames[g].count - 1) : g \in 1 .. f - 1})]

Number(n) == (FirstNumber + n) % Modulus

(* write_twcc_extension, by MediaStatisticsHandler: the n-th packet. *)
TwccExtension(n) == [twcc |-> n]

(* add_frame_metadata: the extensions already there are kept. *)
AddFrameMetadata(p, metadata) ==
    [p EXCEPT !.ext = [twcc |-> p.ext.twcc, frame |-> metadata]]

Metadata(f, index) ==
    [epoch |-> Frames[f].epoch, frame |-> f, index |-> index,
     count |-> Frames[f].count, key |-> Frames[f].key]

(* What the packetizer and MediaStatisticsHandler hand over. *)
Packetized(f, index) ==
    [stream |-> "video", seq |-> Number(Before[f] + index),
     ext |-> TwccExtension(Before[f] + index), payload |-> <<<<f, index>>>>]

Packet(f, index) == AddFrameMetadata(Packetized(f, index), Metadata(f, index))
Packets == [f \in FrameIds |-> {Packet(f, index) : index \in 0 .. Frames[f].count - 1}]

(* set_outgoing_frame, then sender_outgoing on the packets of the frame. *)
SendFrame ==
    /\ sent < Len(Frames)
    /\ sent' = sent + 1
    /\ air' = air \cup Packets[sent + 1]
    /\ UNCHANGED <<rtx, nacks, frames, given>>

-----------------------------------------------------------------------------
(* Receiving *)

(* Mutant: the number of the packet at hand is taken for the first one. *)
FirstSequenceOfAny(p) == p.seq

(* Mutant: the difference is not brought back to 16 bits. *)
FirstSequenceUnwrapped(p) == p.seq - p.ext.frame.index

FirstSequence(p) == (p.seq - p.ext.frame.index) % Modulus

NewAssembly(p) ==
    [first |-> FirstSequence(p), count |-> p.ext.frame.count,
     packets |-> [index \in 0 .. p.ext.frame.count - 1 |-> Nothing]]

(* process_receiver_packet, when the labels agree: a packet already there  *)
(* is kept.                                                                *)
Stored(p) ==
    LET f == p.ext.frame.frame
        assembly == IF frames[f] = Nothing THEN NewAssembly(p) ELSE frames[f]
    IN IF assembly.packets[p.ext.frame.index] # Nothing THEN frames
       ELSE [frames EXCEPT ![f] =
                [assembly EXCEPT !.packets[p.ext.frame.index] = p]]

ReceiveMedia(p) ==
    /\ p \in air
    /\ air' = air \ {p}
    /\ frames' = Stored(p)
    /\ UNCHANGED <<sent, rtx, nacks, given>>

(* Mutant: the original number stays at the front of the payload. *)
RestoreWithNumber(p) ==
    [stream |-> "video", seq |-> Head(p.payload), ext |-> p.ext, payload |-> p.payload]

(* RtxReceivingHandler::incoming *)
Restore(p) ==
    [stream |-> "video", seq |-> Head(p.payload), ext |-> p.ext, payload |-> Tail(p.payload)]

ReceiveRtx(p) ==
    /\ p \in rtx
    /\ rtx' = rtx \ {p}
    /\ frames' = Stored(Restore(p))
    /\ UNCHANGED <<sent, air, nacks, given>>

-----------------------------------------------------------------------------
(* NACKs *)

(* The numbers of the packets missing, in order: of the first k, in turn.  *)
Missing(assembly) ==
    LET missing[k \in 0 .. assembly.count] ==
            IF k = 0 THEN <<>>
            ELSE IF assembly.packets[k - 1] # Nothing THEN missing[k - 1]
            ELSE Append(missing[k - 1], (assembly.first + k - 1) % Modulus)
    IN missing[assembly.count]

(* Mutant: a group takes one number more than its mask has bits. *)
FitsGroupLoose(group, n) == (n - group.pid) % Modulus <= MaskBits + 1

FitsGroup(group, n) == (n - group.pid) % Modulus <= MaskBits

(* A mask has no bit beyond its width. *)
AddToGroup(group, n) ==
    [pid |-> group.pid,
     blp |-> group.blp \cup ({(n - group.pid - 1) % Modulus} \cap 0 .. MaskBits - 1)]

AddNumber(groups, n) ==
    IF groups = <<>> \/ ~ FitsGroup(Last(groups), n)
    THEN Append(groups, [pid |-> n, blp |-> {}])
    ELSE [groups EXCEPT ![Len(groups)] = AddToGroup(@, n)]

(* send_nack: the groups of a list of missing numbers. *)
Groups(missing) ==
    LET groups[k \in 0 .. Len(missing)] ==
            IF k = 0 THEN <<>> ELSE AddNumber(groups[k - 1], missing[k])
    IN groups[Len(missing)]

(* rtc::RtcpNackPart::getSequenceNumbers *)
Asked(group) == {group.pid} \cup {(group.pid + 1 + bit) % Modulus : bit \in group.blp}
Requested(nack) == UNION {Asked(nack[k]) : k \in DOMAIN nack}

Incomplete(f) ==
    frames[f] # Nothing /\ \E i \in DOMAIN frames[f].packets : frames[f].packets[i] = Nothing

(* receiver_poll, for one frame.  Bound: one NACK for a frame under way. *)
Poll(f) ==
    /\ Incomplete(f)
    /\ nacks[f] = Nothing
    /\ nacks' = [nacks EXCEPT ![f] = Groups(Missing(frames[f]))]
    /\ UNCHANGED <<sent, air, rtx, frames, given>>

(* rtc::RtcpNackResponder: the packets asked for, of those sent, as RTX:   *)
(* another stream and number (0 stands for any), the number in front.      *)
Retransmitted(p) ==
    [stream |-> "rtx", seq |-> 0, ext |-> p.ext, payload |-> <<p.seq>> \o p.payload]

Kept == UNION {Packets[f] : f \in 1 .. sent}

ReceiveNack(f) ==
    /\ nacks[f] # Nothing
    /\ nacks' = [nacks EXCEPT ![f] = Nothing]
    /\ rtx' = rtx \cup {Retransmitted(p) : p \in {q \in Kept : q.seq \in Requested(nacks[f])}}
    /\ UNCHANGED <<sent, air, frames, given>>

(* The frame is timed out, evicted, or thrown away with the buffer. *)
GiveUp(f) ==
    /\ Incomplete(f)
    /\ frames' = [frames EXCEPT ![f] = Nothing]
    /\ given' = given \cup {f}
    /\ UNCHANGED <<sent, air, rtx, nacks>>

-----------------------------------------------------------------------------
(* The network loses NACKs and RTX packets; a media packet under way for   *)
(* ever is one lost.                                                        *)
LoseRtx(p) ==
    /\ p \in rtx
    /\ rtx' = rtx \ {p}
    /\ UNCHANGED <<sent, air, nacks, frames, given>>

LoseNack(f) ==
    /\ nacks[f] # Nothing
    /\ nacks' = [nacks EXCEPT ![f] = Nothing]
    /\ UNCHANGED <<sent, air, rtx, frames, given>>

Init ==
    /\ sent = 0
    /\ air = {}
    /\ rtx = {}
    /\ nacks = [f \in FrameIds |-> Nothing]
    /\ frames = [f \in FrameIds |-> Nothing]
    /\ given = {}

Next ==
    \/ SendFrame
    \/ \E p \in air : ReceiveMedia(p)
    \/ \E p \in rtx : ReceiveRtx(p) \/ LoseRtx(p)
    \/ \E f \in FrameIds : Poll(f) \/ ReceiveNack(f) \/ LoseNack(f) \/ GiveUp(f)

Spec == Init /\ [][Next]_vars

(* The poll comes round every 20 ms; the network does not lose every NACK, *)
(* nor every retransmission of a packet.                                   *)
FairSpec ==
    /\ Spec
    /\ \A f \in FrameIds :
           /\ WF_vars(Poll(f))
           /\ SF_vars(ReceiveNack(f))
           /\ \A p \in Packets[f] : SF_vars(ReceiveRtx(Retransmitted(p)))

-----------------------------------------------------------------------------
(* Types; the numbers of an assembly and of a NACK are 16-bit ones. *)
TypeOK ==
    /\ sent \in 0 .. Len(Frames)
    /\ air \subseteq Kept
    /\ rtx \subseteq {Retransmitted(p) : p \in Kept}
    /\ \A f \in FrameIds : nacks[f] # Nothing =>
           nacks[f] \in Seq([pid : Numbers, blp : SUBSET (0 .. MaskBits - 1)])
    /\ \A f \in FrameIds : frames[f] # Nothing =>
           /\ frames[f].first \in Numbers
           /\ frames[f].count = Frames[f].count
    /\ given \subseteq FrameIds

(* What stands at a place of a frame is the packet sent for that place,    *)
(* whether it came at once or was sent again: its number, its payload and  *)
(* the extensions of every handler that wrote one.                         *)
Restored ==
    \A f \in FrameIds : frames[f] # Nothing =>
        \A i \in DOMAIN frames[f].packets :
            LET p == frames[f].packets[i] IN p # Nothing =>
                /\ p.stream = "video"
                /\ p.seq = Number(Before[f] + i)
                /\ p.payload = <<<<f, i>>>>
                /\ p.ext.twcc = Before[f] + i

(* A NACK asks for exactly the packets of the frame that are missing when  *)
(* it is made, although it is worked out from one packet received, in      *)
(* numbers that wrap, and packed into groups.                              *)
RequestsTheMissing ==
    [][\A f \in FrameIds : nacks[f] = Nothing /\ nacks'[f] # Nothing =>
           Requested(nacks'[f]) =
               {Number(Before[f] + i) : i \in {j \in 0 .. Frames[f].count - 1 :
                                                 frames[f].packets[j] = Nothing}}]_vars

(* A frame of which a packet arrived is completed or given up. *)
Repaired ==
    \A f \in FrameIds :
        frames[f] # Nothing ~> (f \in given \/ (frames[f] # Nothing /\ ~ Incomplete(f)))
=============================================================================
