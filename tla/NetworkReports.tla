--------------------------- MODULE NetworkReports ---------------------------
(***************************************************************************)
(* What the adaptation controller is told: the sender's half of            *)
(* NetworkQualityEstimator around VideoAdaptation.  Two reports of the     *)
(* receiver arrive by RTCP, each on its own: the receiver report (media    *)
(* loss, delay, jitter) and the transport feedback (transport loss).  The  *)
(* snapshot that the stats loop takes uses each while it is less than      *)
(* three seconds old; one too old counts as no loss, no delay, no jitter.  *)
(*                                                                         *)
(* Time is counted in windows of the stats loop, which sleeps for a second *)
(* and then works: windows are a little more than a second apart, and less *)
(* than one and a half.  A report arrives at any time between two windows, *)
(* so the next two windows find it fresh, the third may or may not, and    *)
(* the fourth does not.  The bitrates of the snapshot are only printed and *)
(* are left out.                                                           *)
(***************************************************************************)
EXTENDS VideoAdaptation

CONSTANTS
    ReceiverReports,  \* what a receiver report may say: media, rtt, jitter
    TransportLosses   \* what a transport feedback may say, in percent

None == [media |-> 0, rtt |-> 0, jitter |-> 0]

(* The sample made of what a receiver report and a feedback say. *)
Sample(r, loss) ==
    [media |-> r.media, rtt |-> r.rtt, jitter |-> r.jitter, transport |-> loss]

ASSUME ReportsAssumption ==
    /\ ReceiverReports \subseteq [media : Nat, rtt : Nat, jitter : Nat]
    /\ TransportLosses \subseteq Nat
    /\ \A r \in ReceiverReports \cup {None}, loss \in TransportLosses \cup {0} :
           Sample(r, loss) \in Qualities

VARIABLES
    remoteReport,         \* remote_report_, and the windows that have seen it
    remoteTransportLoss   \* remote_transport_loss_, and the same

reports == <<remoteReport, remoteTransportLoss>>

Fresh == 3              \* seconds: kRemoteReportFreshUs, kTransportLossReportFreshUs
Oldest == Fresh + Windows   \* bound: ages beyond this are not told apart

-----------------------------------------------------------------------------
(* The sender's incoming RTCP: on_receiver_report *)
OnReceiverReport(r) ==
    /\ remoteReport' = [said |-> r, age |-> 0]
    /\ UNCHANGED <<vars, remoteTransportLoss>>

(* observe_twcc_feedback, on_transport_loss_report *)
OnTransportLossReport(loss) ==
    /\ remoteTransportLoss' = [said |-> loss, age |-> 0]
    /\ UNCHANGED <<vars, remoteReport>>

(* Mutant: a report is kept for a second less. *)
ReadBriefly(report, nothing) ==
    {x \in {report.said, nothing} :
        /\ report.age + 2 < Fresh => x = report.said
        /\ report.age + 1 >= Fresh => x = nothing}

(* What the next window reads of a report: what it says while it is fresh,  *)
(* and nothing when it is not.  A report seen by age windows is at least    *)
(* age seconds old in the next one.                                         *)
Read(report, nothing) ==
    {x \in {report.said, nothing} :
        /\ report.age + 1 < Fresh => x = report.said
        /\ report.age >= Fresh => x = nothing}

(* snapshot: the sender receives no media, its own measurements are 0. *)
Snapshots ==
    {Sample(r, loss) : r \in Read(remoteReport, None), loss \in Read(remoteTransportLoss, 0)}

Aged(report) == [report EXCEPT !.age = Smaller(@ + 1, Oldest)]

(* One window of stats_loop: the snapshot, then the controller's update. *)
StatsWindow ==
    /\ \E q \in Snapshots : Update(q)
    /\ remoteReport' = Aged(remoteReport)
    /\ remoteTransportLoss' = Aged(remoteTransportLoss)

-----------------------------------------------------------------------------
(* No report yet. *)
ReportsInit ==
    /\ Init
    /\ remoteReport = [said |-> None, age |-> Oldest]
    /\ remoteTransportLoss = [said |-> 0, age |-> Oldest]

ReportsNext ==
    \/ \E r \in ReceiverReports : OnReceiverReport(r)
    \/ \E loss \in TransportLosses : OnTransportLossReport(loss)
    \/ StatsWindow

ReportsSpec == ReportsInit /\ [][ReportsNext]_<<vars, reports>>

(* The stats loop goes on; reports may cease. *)
FairReportsSpec == ReportsSpec /\ WF_<<vars, reports>>(StatsWindow)

-----------------------------------------------------------------------------
(* Types, of the controller and of the reports. *)
ReportsTypeOK ==
    /\ TypeOK
    /\ remoteReport \in [said : ReceiverReports \cup {None}, age : 0 .. Oldest]
    /\ remoteTransportLoss \in [said : TransportLosses \cup {0}, age : 0 .. Oldest]

(* What each report asks for by itself. *)
ReportRequires == Required(Sample(remoteReport.said, 0))
TransportRequires == Required(Sample(None, remoteTransportLoss.said))

(* Silence is read as a calm network, but not at once: as long as nothing   *)
(* newer of its kind is heard, a report that asked for the present level or *)
(* a worse one holds the level for the two windows in which it is certainly *)
(* used and four more, whatever the other kind of report says.  A third     *)
(* window of use, which depends on when the report came, is not counted on. *)
HeldThroughSilence ==
    [][level' < level =>
           /\ ReportRequires >= level => remoteReport.age >= Fresh + Windows - 2
           /\ TransportRequires >= level => remoteTransportLoss.age >= Fresh + Windows - 2
      ]_<<vars, reports>>
=============================================================================
