--------------------------- MODULE TransportFeedback ------------------------
(***************************************************************************)
(* Transport loss from the receiver's packets to the sender's adaptation.  *)
(* MediaStatisticsHandler numbers every RTP packet at the sender; at the   *)
(* receiver it collects the numbers that arrive and, at most every 200 ms, *)
(* sends a feedback packet with a status for each number from the first    *)
(* collected to the newest; the sender's handler counts the statuses and   *)
(* gives the counts to its NetworkQualityEstimator.                        *)
(*                                                                         *)
(* A packet is its position 1, 2, ... in the order of sending; the code    *)
(* sees only Number(p): the numbers it writes start at 1 and wrap.         *)
(***************************************************************************)
EXTENDS Integers, FiniteSets, SequencesExt

CONSTANTS
    Modulus,          \* of the packet numbers: 2^16
    MaxPending,       \* samples kept for the next feedback: 4096
    MaxStatuses,      \* statuses a feedback may carry: 4096
    Fresh,            \* for how long a report is used, in ticks
    Reach,            \* bound: packets collected, reported or resent at a time
    MaxPackets        \* bound: packets sent

(* Reach is what the NACK responder (4096 packets) and the 200 ms of one    *)
(* window leave in play of the numbers; half of them can be told apart.     *)
ASSUME FeedbackAssumption ==
    /\ {Modulus, MaxPending, MaxStatuses, Fresh, Reach, MaxPackets}
         \subseteq Nat \ {0}
    /\ 2 * Reach <= Modulus
    /\ MaxStatuses < Modulus

VARIABLES
    sent,             \* packets sent: next_twcc_sequence_ is Number(sent + 1)
    pending,          \* pending_twcc_samples_
    due,              \* 200 ms have passed since the last feedback
    wire,             \* the feedback packet under way
    remote            \* remote_transport_loss_ at the sender

vars == <<sent, pending, due, wire, remote>>

NoFeedback == [base |-> 0, count |-> 0, chunks |-> <<>>, about |-> <<>>]
NoReport   == [expected |-> 0, lost |-> 0, age |-> Fresh]

-----------------------------------------------------------------------------
(* Packet numbers *)

Number(p) == p % Modulus

(* The difference of two numbers, read as a signed integer. *)
Delta(n, m) ==
    LET d == (n - m) % Modulus
    IN  IF 2 * d < Modulus THEN d ELSE d - Modulus

(* Mutant: numbers are compared as they are. *)
FollowsUnsigned(n, m) == n > m

Follows(n, m) == Delta(n, m) > 0

-----------------------------------------------------------------------------
(* The receiver's handler *)

(* Mutant: nothing is dropped. *)
CollectUnbounded(p) == Append(pending, p)

Collect(p) ==
    LET all == Append(pending, p)
    IN  IF Len(all) > MaxPending THEN Tail(all) ELSE all

(* The newest number collected, from the first on. *)
NewestNumber(ps) ==
    LET newest[i \in 0 .. Len(ps)] ==
            IF i = 0 THEN Number(ps[1])
            ELSE IF Follows(Number(ps[i]), newest[i - 1]) THEN Number(ps[i])
            ELSE newest[i - 1]
    IN  newest[Len(ps)]

StatusCount(ps) == ((NewestNumber(ps) - Number(ps[1])) % Modulus) + 1

(* Whether the i-th number of the feedback, from 0, was collected. *)
Collected(ps, i) == \E p \in Range(ps) : Number(p) = Number(ps[1] + i)

(* One chunk per run of equal statuses; the limit of 8191 on a run exceeds  *)
(* MaxStatuses.                                                             *)
AddStatus(chunks, received) ==
    IF chunks # <<>> /\ Last(chunks).received = received
    THEN [chunks EXCEPT ![Len(chunks)] =
              [received |-> received, run |-> Last(chunks).run + 1]]
    ELSE Append(chunks, [received |-> received, run |-> 1])

Chunks(ps, count) ==
    LET chunks[i \in 0 .. count] ==
            IF i = 0 THEN <<>> ELSE AddStatus(chunks[i - 1], Collected(ps, i - 1))
    IN  chunks[count]

Feedback(ps, count) ==
    [base |-> Number(ps[1]), count |-> count, chunks |-> Chunks(ps, count),
     about |-> ps]

(* Mutant: a window too wide for one feedback is left as it is. *)
MaybeSendFitting(ps) ==
    IF due /\ ps # <<>> /\ StatusCount(ps) <= MaxStatuses
    THEN /\ pending' = <<>>
         /\ due' = FALSE
         /\ wire' = Feedback(ps, StatusCount(ps))
    ELSE /\ pending' = ps
         /\ UNCHANGED <<due, wire>>

(* maybe_send_twcc_feedback, with ps the samples then collected: a window   *)
(* too wide for one feedback is forgotten.                                  *)
MaybeSend(ps) ==
    IF due /\ ps # <<>>
    THEN /\ pending' = <<>>
         /\ due' = FALSE
         /\ wire' = LET count == StatusCount(ps)
                    IN  IF count <= MaxStatuses THEN Feedback(ps, count) ELSE wire
    ELSE /\ pending' = ps
         /\ UNCHANGED <<due, wire>>

-----------------------------------------------------------------------------
(* The sender's handler and estimator *)

(* What the statuses of a feedback add up to; a run is cut at the count.    *)
AddChunk(acc, chunk, count) ==
    LET left == count - acc.expected
        n == IF chunk.run < left THEN chunk.run ELSE left
    IN  [expected |-> acc.expected + n,
         lost |-> acc.lost + IF chunk.received THEN 0 ELSE n]

Counts(f) ==
    LET counts[k \in 0 .. Len(f.chunks)] ==
            IF k = 0 THEN [expected |-> 0, lost |-> 0]
            ELSE AddChunk(counts[k - 1], f.chunks[k], f.count)
    IN  counts[Len(f.chunks)]

OnTransportLossReport(f) ==
    LET c == Counts(f)
    IN  remote' = IF c.expected > 0
                  THEN [expected |-> c.expected,
                        lost |-> IF c.lost < c.expected THEN c.lost ELSE c.expected,
                        age |-> 0]
                  ELSE remote

(* snapshot().transport_loss_percent: the last report while it is fresh.  A *)
(* sender receives no RTP, so its own window is empty.                      *)
TransportLoss ==
    IF remote.age < Fresh THEN (remote.lost * 100) \div remote.expected ELSE 0

-----------------------------------------------------------------------------
Init ==
    /\ sent = 0
    /\ pending = <<>>
    /\ due = TRUE
    /\ wire = NoFeedback
    /\ remote = NoReport

(* The sender's outgoing: write_twcc_extension. *)
Send ==
    /\ sent < MaxPackets
    /\ \A q \in Range(pending) \cup Range(wire.about) : sent + 1 - q < Reach
    /\ sent' = sent + 1
    /\ UNCHANGED <<pending, due, wire, remote>>

(* The receiver's incoming with an RTP packet: lost ones never come, others *)
(* come in any order, and again as retransmissions.                         *)
Receive(p) ==
    /\ sent - p < Reach
    /\ MaybeSend(Collect(p))
    /\ UNCHANGED <<sent, remote>>

(* The receiver's incoming with RTCP only. *)
ReceiveControl ==
    /\ MaybeSend(pending)
    /\ UNCHANGED <<sent, remote>>

(* The sender's incoming with the feedback: observe_twcc_feedback. *)
ReceiveFeedback ==
    /\ wire # NoFeedback
    /\ OnTransportLossReport(wire)
    /\ wire' = NoFeedback
    /\ UNCHANGED <<sent, pending, due>>

LoseFeedback ==
    /\ wire # NoFeedback
    /\ wire' = NoFeedback
    /\ UNCHANGED <<sent, pending, due, remote>>

(* A tick is at least 200 ms; a report no longer fresh is not used again. *)
Tick ==
    /\ due' = TRUE
    /\ remote' = IF remote.age + 1 < Fresh
                 THEN [expected |-> remote.expected, lost |-> remote.lost,
                       age |-> remote.age + 1]
                 ELSE NoReport
    /\ UNCHANGED <<sent, pending, wire>>

Next ==
    \/ Send
    \/ \E p \in 1..sent : Receive(p)
    \/ ReceiveControl
    \/ ReceiveFeedback
    \/ LoseFeedback
    \/ Tick

Spec == Init /\ [][Next]_vars

(* Time passes, and the sender's RTCP reports keep arriving. *)
FairSpec == Spec /\ WF_vars(Tick) /\ WF_vars(ReceiveControl)

-----------------------------------------------------------------------------
(* Properties *)

Packets == 1..MaxPackets

(* Type invariant: the samples collected are bounded, a feedback never      *)
(* carries too many statuses, and the loss given to the adaptation          *)
(* controller is a percentage.                                              *)
TypeOK ==
    /\ sent \in 0..MaxPackets
    /\ Range(pending) \subseteq 1..sent /\ Len(pending) <= MaxPending
    /\ due \in BOOLEAN
    /\ wire.base \in 0..(Modulus - 1) /\ wire.count \in 0..MaxStatuses
    /\ remote.age \in 0..Fresh
    /\ TransportLoss \in 0..100

(* What a feedback about the packets ps should say: of the packets from the *)
(* first collected to the newest, how many there are and how many of them   *)
(* were not collected.                                                      *)
Truth(ps) ==
    LET span == {q \in Packets : ps[1] <= q /\ \E p \in Range(ps) : q <= p}
    IN  [expected |-> Cardinality(span),
         lost |-> Cardinality(span \ Range(ps))]

(* What the sender reads from a feedback is the truth about one window of   *)
(* the receiver: through numbers that wrap, reordering and repetition,      *)
(* samples dropped at the limit, the runs of statuses and their reading.    *)
ReportsTheWindow ==
    wire # NoFeedback => Counts(wire) = Truth(wire.about)

(* No window stays open for ever, whatever was lost in it and however wide  *)
(* it is: what was collected is reported or forgotten.                      *)
WindowCloses == (pending # <<>>) ~> (pending = <<>>)
=============================================================================
