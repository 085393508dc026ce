-------------------------- MODULE AdaptationProofs --------------------------
(***************************************************************************)
(* Proofs about the adaptation: the controller (VideoAdaptation) for every *)
(* set of quality samples, the estimator that feeds it (NetworkReports)    *)
(* for every set of reports, and the stats thread and send loop that carry *)
(* its profile to the encoder and the pacer (AdaptiveSender).              *)
(***************************************************************************)
EXTENDS NetworkReports, AdaptiveSender, Lemmas

-----------------------------------------------------------------------------
(* VideoAdaptation *)

LEMMA RequiredType ==
  ASSUME NEW q \in Quality
  PROVE  Loss(q) \in Nat /\ Required(q) \in Levels
BY DEF Quality, Loss, Larger, Required, RequiredByLoss, RequiredByDelay,
       RequiredByJitter, Levels

(* The two tables agree: a sample clean for a level above the top asks for  *)
(* no more than the level below it.                                         *)
LEMMA CleanAllowsStepDown ==
  ASSUME NEW q \in Quality, NEW l \in Levels, Clean(q, l)
  PROVE  l > 0 /\ Required(q) <= l - 1
<1>1. /\ l \in 1..4
      /\ Loss(q) < RecoveryLoss(l)
      /\ q.rtt < 150
      /\ q.jitter < 40
  BY DEF Clean, Levels
<1>2. Loss(q) \in Nat /\ q.rtt \in Nat /\ q.jitter \in Nat
  BY RequiredType DEF Quality
<1>3. RequiredByDelay(q) = 0 /\ RequiredByJitter(q) = 0
  BY <1>1, <1>2 DEF RequiredByDelay, RequiredByJitter
<1>4. RequiredByLoss(q) \in Levels /\ RequiredByLoss(q) <= l - 1
  <2>1. CASE l = 1
    BY <2>1, <1>1, <1>2 DEF RecoveryLoss, RequiredByLoss, Levels
  <2>2. CASE l = 2
    BY <2>2, <1>1, <1>2 DEF RecoveryLoss, RequiredByLoss, Levels
  <2>3. CASE l = 3
    BY <2>3, <1>1, <1>2 DEF RecoveryLoss, RequiredByLoss, Levels
  <2>4. CASE l = 4
    BY <2>4, <1>1, <1>2 DEF RecoveryLoss, RequiredByLoss, Levels
  <2> QED
    BY <1>1, <2>1, <2>2, <2>3, <2>4
<1>5. Required(q) = RequiredByLoss(q)
  BY <1>3, <1>4 DEF Required, Larger, Levels
<1> QED
  BY <1>1, <1>4, <1>5

(* The inductive invariant: the clean windows counted all passed since the  *)
(* level last changed.                                                      *)
CountedSinceChange == recovery <= held
AdaptationInv == TypeOK /\ Adequate /\ CountedSinceChange

LEMMA InitInv == Init => AdaptationInv
<1>1. Required(NoQuality) = 0 /\ NoQuality \in Quality
  BY DEF NoQuality, Quality, Required, RequiredByLoss, RequiredByDelay,
         RequiredByJitter, Loss, Larger
<1> QED
  BY <1>1 DEF Init, AdaptationInv, TypeOK, Adequate, CountedSinceChange, Levels, Windows

LEMMA UpdateInv ==
  ASSUME AdaptationInv, NEW q \in Qualities, Update(q)
  PROVE  /\ AdaptationInv'
         /\ level' < level => (level' = level - 1 /\ held >= Windows - 1)
<1>1. q \in Quality
  BY AdaptationAssumption
<1>2. Required(q) \in Levels
  BY <1>1, RequiredType
<1>3. /\ level \in 0..4 /\ recovery \in 0..4 /\ held \in 0..5 /\ recovery <= held
      /\ quality' = q
      /\ held' = IF level' # level THEN 0 ELSE Smaller(held + 1, 5)
  BY DEF AdaptationInv, TypeOK, CountedSinceChange, Levels, Windows, Update
<1>4. /\ level' \in 0..4 /\ recovery' \in 0..4
      /\ level' >= Required(q)
      /\ \/ recovery' = 0
         \/ level' = level /\ recovery' = recovery + 1
      /\ level' < level => (level' = level - 1 /\ recovery >= 4)
  <2>1. CASE Raise(q)
    BY <2>1, <1>2, <1>3 DEF Raise, Levels
  <2>2. CASE CleanWindow(q)
    <3>1. level > 0 /\ Required(q) <= level - 1
      BY <2>2, <1>1, <1>3, CleanAllowsStepDown DEF CleanWindow, Levels
    <3> QED
      BY <3>1, <2>2, <1>2, <1>3 DEF CleanWindow, Windows, Levels
  <2>3. CASE Hold(q)
    BY <2>3, <1>2, <1>3 DEF Hold, Levels
  <2> QED
    BY <2>1, <2>2, <2>3 DEF Update
<1>5. held' \in 0..5 /\ recovery' <= held'
  BY <1>3, <1>4 DEF Smaller
<1>6. AdaptationInv'
  BY <1>1, <1>3, <1>4, <1>5
  DEF AdaptationInv, TypeOK, Adequate, CountedSinceChange, Levels, Windows
<1> QED
  BY <1>3, <1>4, <1>6 DEF Windows

LEMMA StutterInv ==
  ASSUME AdaptationInv, UNCHANGED vars
  PROVE  AdaptationInv'
BY DEF AdaptationInv, TypeOK, Adequate, CountedSinceChange, vars

LEMMA NextInv == AdaptationInv /\ [Next]_vars => AdaptationInv'
BY UpdateInv, StutterInv DEF Next

THEOREM AdaptationInvariant == Spec => []AdaptationInv
BY InitInv, NextInv, PTL DEF Spec

(* The controller's state keeps its types whatever is measured.             *)
THEOREM TypeCorrect == Spec => []TypeOK
BY AdaptationInvariant, PTL DEF AdaptationInv

(* The level is never below what the last sample asks for, so a step down   *)
(* is never undone by a sample like the one that caused it.                 *)
THEOREM AlwaysAdequate == Spec => []Adequate
BY AdaptationInvariant, PTL DEF AdaptationInv

(* No step down within four updates of the previous change of level.        *)
THEOREM StepsDownSlowly == Spec => HeldBeforeStepDown
<1>1. AdaptationInv /\ [Next]_vars
        => [level' < level => (level' = level - 1 /\ held >= Windows - 1)]_vars
  BY UpdateInv DEF Next
<1> QED
  BY <1>1, AdaptationInvariant, PTL DEF Spec, HeldBeforeStepDown

-----------------------------------------------------------------------------
(* NetworkReports: the estimator feeds the controller what VideoAdaptation  *)
(* assumes, and a report that asked for a level holds it through a silence. *)

Report == [media : Nat, rtt : Nat, jitter : Nat]

LEMMA ReportsInQuality ==
  /\ ReceiverReports \cup {None} \subseteq Report
  /\ TransportLosses \cup {0} \subseteq Nat
  /\ Qualities \subseteq Quality
BY ReportsAssumption, AdaptationAssumption DEF Report, None

(* A sample clean for a level is made of reports each clean for it.         *)
LEMMA PartsClean ==
  ASSUME NEW r \in Report, NEW loss \in Nat, NEW l \in Levels, Clean(Sample(r, loss), l)
  PROVE  Clean(Sample(r, 0), l) /\ Clean(Sample(None, loss), l)
<1>1. RecoveryLoss(l) \in Nat
  BY DEF RecoveryLoss, Levels
<1>2. r.media \in Nat /\ r.rtt \in Nat /\ r.jitter \in Nat
  BY DEF Report
<1> QED
  BY <1>1, <1>2 DEF Clean, Loss, Larger, Sample, None

(* Silence: while a report asks for the level, windows that read it count   *)
(* nothing, so the clean windows counted are at most those that have seen   *)
(* the report but for the first two.  A report just heard may meet a count  *)
(* that the next window will drop.                                          *)
IsFresh(report) == report.age + 1 < Fresh
Silent(report) == report.age = 0 \/ recovery <= Larger(0, report.age + 1 - Fresh)

SilenceInv ==
  /\ ReportRequires >= level => Silent(remoteReport)
  /\ TransportRequires >= level => Silent(remoteTransportLoss)

ReportsInv == ReportsTypeOK /\ AdaptationInv /\ SilenceInv

LEMMA SnapshotParts ==
  ASSUME ReportsTypeOK, NEW q \in Snapshots
  PROVE  \E r \in ReceiverReports \cup {None}, loss \in TransportLosses \cup {0} :
            /\ q = Sample(r, loss)
            /\ IsFresh(remoteReport) => r = remoteReport.said
            /\ IsFresh(remoteTransportLoss) => loss = remoteTransportLoss.said
<1>1. PICK r \in Read(remoteReport, None), loss \in Read(remoteTransportLoss, 0) :
        q = Sample(r, loss)
  BY DEF Snapshots
<1>2. r \in ReceiverReports \cup {None} /\ loss \in TransportLosses \cup {0}
  BY DEF ReportsTypeOK, Read
<1>3. /\ IsFresh(remoteReport) => r = remoteReport.said
      /\ IsFresh(remoteTransportLoss) => loss = remoteTransportLoss.said
  BY DEF Read, IsFresh
<1> QED
  BY <1>1, <1>2, <1>3

LEMMA SnapshotMeasured ==
  ASSUME ReportsTypeOK
  PROVE  Snapshots \subseteq Qualities
BY SnapshotParts, ReportsAssumption

(* A window that is clean for the level finds no fresh report that asks for *)
(* it.                                                                      *)
LEMMA FreshIsHeeded ==
  ASSUME ReportsTypeOK, NEW q \in Snapshots, Clean(q, level)
  PROVE  /\ ReportRequires >= level => ~ IsFresh(remoteReport)
         /\ TransportRequires >= level => ~ IsFresh(remoteTransportLoss)
<1>1. PICK r \in ReceiverReports \cup {None}, loss \in TransportLosses \cup {0} :
        /\ q = Sample(r, loss)
        /\ IsFresh(remoteReport) => r = remoteReport.said
        /\ IsFresh(remoteTransportLoss) => loss = remoteTransportLoss.said
  BY SnapshotParts
<1>2. r \in Report /\ loss \in Nat /\ level \in Levels /\ None \in Report
  BY ReportsInQuality DEF ReportsTypeOK, TypeOK, None, Report
<1>3. Clean(Sample(r, 0), level) /\ Clean(Sample(None, loss), level)
  BY <1>1, <1>2, PartsClean
<1>4. Sample(r, 0) \in Quality /\ Sample(None, loss) \in Quality
  BY <1>2 DEF Sample, Quality, Report
<1>5. /\ Required(Sample(r, 0)) <= level - 1
      /\ Required(Sample(None, loss)) <= level - 1
  BY <1>2, <1>3, <1>4, CleanAllowsStepDown
<1>6. /\ Required(Sample(r, 0)) \in Levels
      /\ Required(Sample(None, loss)) \in Levels
  BY <1>4, RequiredType
<1>7. /\ ~ (Required(Sample(r, 0)) >= level)
      /\ ~ (Required(Sample(None, loss)) >= level)
  BY <1>2, <1>5, <1>6 DEF Levels
<1>8. ReportRequires >= level => ~ IsFresh(remoteReport)
  BY <1>1, <1>7 DEF ReportRequires
<1>9. TransportRequires >= level => ~ IsFresh(remoteTransportLoss)
  BY <1>1, <1>7 DEF TransportRequires
<1> QED
  BY <1>8, <1>9

LEMMA WindowSilence ==
  ASSUME ReportsInv, StatsWindow
  PROVE  /\ SilenceInv'
         /\ level' < level =>
              /\ ReportRequires >= level => remoteReport.age >= Fresh + Windows - 2
              /\ TransportRequires >= level => remoteTransportLoss.age >= Fresh + Windows - 2
<1>1. /\ level \in 0 .. 4 /\ recovery \in 0 .. 4
      /\ remoteReport.age \in 0 .. 8 /\ remoteTransportLoss.age \in 0 .. 8
  BY DEF ReportsInv, ReportsTypeOK, TypeOK, Levels, Windows, Oldest, Fresh
<1>2. /\ remoteReport'.said = remoteReport.said
      /\ remoteReport'.age = Smaller(remoteReport.age + 1, 8)
      /\ remoteTransportLoss'.said = remoteTransportLoss.said
      /\ remoteTransportLoss'.age = Smaller(remoteTransportLoss.age + 1, 8)
  BY DEF ReportsInv, ReportsTypeOK, StatsWindow, Aged, Oldest, Fresh, Windows
<1>3. ReportRequires' = ReportRequires /\ TransportRequires' = TransportRequires
  BY <1>2 DEF ReportRequires, TransportRequires
<1>4. PICK q \in Snapshots : Update(q)
  BY DEF StatsWindow
<1>5. CASE recovery' = 0 /\ level' >= level
  <2>1. Silent(remoteReport)' /\ Silent(remoteTransportLoss)'
    BY <1>1, <1>2, <1>5 DEF Silent, Larger, Smaller, Fresh
  <2>2. level' \in 0 .. 4
    BY <1>4, UpdateInv, SnapshotMeasured DEF ReportsInv, AdaptationInv, TypeOK, Levels
  <2> QED
    BY <1>1, <1>5, <2>1, <2>2 DEF SilenceInv
<1>6. CASE CleanWindow(q)
  <2>1. /\ ReportRequires >= level => ~ IsFresh(remoteReport)
        /\ TransportRequires >= level => ~ IsFresh(remoteTransportLoss)
    BY <1>6, FreshIsHeeded DEF CleanWindow, ReportsInv
  <2>2. /\ ReportRequires >= level =>
             remoteReport.age >= 2 /\ recovery <= remoteReport.age - 2
        /\ TransportRequires >= level =>
             remoteTransportLoss.age >= 2 /\ recovery <= remoteTransportLoss.age - 2
    BY <1>1, <2>1 DEF ReportsInv, SilenceInv, Silent, IsFresh, Fresh, Larger
  <2>3. CASE recovery + 1 >= 5
    <3>1. level' = level - 1 /\ recovery' = 0 /\ recovery = 4
      BY <1>1, <1>6, <2>3 DEF CleanWindow, Windows
    <3>2. Silent(remoteReport)' /\ Silent(remoteTransportLoss)'
      BY <1>1, <1>2, <3>1 DEF Silent, Larger, Smaller, Fresh
    <3> QED
      BY <1>1, <2>2, <3>1, <3>2 DEF SilenceInv, Fresh, Windows
  <2>4. CASE ~ (recovery + 1 >= 5)
    <3>1. level' = level /\ recovery' = recovery + 1 /\ recovery' <= 4
      BY <1>1, <1>6, <2>4 DEF CleanWindow, Windows
    <3>2. ReportRequires' >= level' => Silent(remoteReport)'
      BY <1>1, <1>2, <1>3, <2>2, <3>1 DEF Silent, Larger, Smaller, Fresh
    <3>3. TransportRequires' >= level' => Silent(remoteTransportLoss)'
      BY <1>1, <1>2, <1>3, <2>2, <3>1 DEF Silent, Larger, Smaller, Fresh
    <3> QED
      BY <1>1, <3>1, <3>2, <3>3 DEF SilenceInv
  <2> QED
    BY <2>3, <2>4
<1>7. Raise(q) \/ Hold(q) => recovery' = 0 /\ level' >= level
  <2>1. q \in Quality
    BY SnapshotMeasured, ReportsInQuality DEF ReportsInv
  <2>2. Required(q) \in 0 .. 4
    BY <2>1, RequiredType DEF Levels
  <2> QED
    BY <1>1, <2>2 DEF Raise, Hold
<1> QED
  BY <1>4, <1>5, <1>6, <1>7 DEF Update

LEMMA ReportsInitInv == ReportsInit => ReportsInv
<1> SUFFICES ASSUME ReportsInit
             PROVE  ReportsInv
  OBVIOUS
<1>1. AdaptationInv
  BY InitInv DEF ReportsInit
<1>2. ReportsTypeOK
  BY <1>1 DEF ReportsInit, ReportsTypeOK, AdaptationInv, Oldest, Fresh, Windows
<1>3. SilenceInv
  BY DEF ReportsInit, Init, SilenceInv, Silent, Larger, Oldest, Fresh, Windows
<1> QED
  BY <1>1, <1>2, <1>3 DEF ReportsInv

LEMMA ReportsNextInv == ReportsInv /\ [ReportsNext]_<<vars, reports>> => ReportsInv'
<1> SUFFICES ASSUME ReportsInv, [ReportsNext]_<<vars, reports>>
             PROVE  ReportsInv'
  OBVIOUS
<1>1. CASE StatsWindow
  <2>1. AdaptationInv'
    BY <1>1, UpdateInv, SnapshotMeasured DEF StatsWindow, ReportsInv
  <2>2. ReportsTypeOK'
    BY <1>1, <2>1
    DEF StatsWindow, ReportsInv, ReportsTypeOK, AdaptationInv, Aged, Smaller, Oldest,
        Fresh, Windows
  <2> QED
    BY <1>1, <2>1, <2>2, WindowSilence DEF ReportsInv
<1>2. CASE \E r \in ReceiverReports : OnReceiverReport(r)
  <2>1. PICK r \in ReceiverReports : OnReceiverReport(r)
    BY <1>2
  <2>2. AdaptationInv'
    BY <2>1, StutterInv DEF OnReceiverReport, ReportsInv
  <2>3. ReportsTypeOK'
    BY <2>1, <2>2 DEF OnReceiverReport, ReportsInv, ReportsTypeOK, AdaptationInv,
                      Oldest, Fresh, Windows
  <2>4. SilenceInv'
    BY <2>1 DEF OnReceiverReport, ReportsInv, SilenceInv, Silent, TransportRequires, vars
  <2> QED
    BY <2>2, <2>3, <2>4 DEF ReportsInv
<1>3. CASE \E loss \in TransportLosses : OnTransportLossReport(loss)
  <2>1. PICK loss \in TransportLosses : OnTransportLossReport(loss)
    BY <1>3
  <2>2. AdaptationInv'
    BY <2>1, StutterInv DEF OnTransportLossReport, ReportsInv
  <2>3. ReportsTypeOK'
    BY <2>1, <2>2 DEF OnTransportLossReport, ReportsInv, ReportsTypeOK, AdaptationInv,
                      Oldest, Fresh, Windows
  <2>4. SilenceInv'
    BY <2>1 DEF OnTransportLossReport, ReportsInv, SilenceInv, Silent, ReportRequires, vars
  <2> QED
    BY <2>2, <2>3, <2>4 DEF ReportsInv
<1>4. CASE UNCHANGED <<vars, reports>>
  BY <1>4, StutterInv
  DEF ReportsInv, ReportsTypeOK, AdaptationInv, SilenceInv, Silent, ReportRequires,
      TransportRequires, vars, reports
<1> QED
  BY <1>1, <1>2, <1>3, <1>4 DEF ReportsNext

THEOREM ReportsInvariant == ReportsSpec => []ReportsInv
BY ReportsInitInv, ReportsNextInv, PTL DEF ReportsSpec

(* The reports and the controller keep their types.                         *)
THEOREM ReportsTypeCorrect == ReportsSpec => []ReportsTypeOK
BY ReportsInvariant, PTL DEF ReportsInv

(* Every sample of the estimator is one that the controller's specification *)
(* admits: the composition implements VideoAdaptation, whose theorems hold  *)
(* of it.                                                                   *)
THEOREM ImplementsAdaptation == ReportsSpec => Spec
<1>1. ReportsInit => Init
  BY DEF ReportsInit
<1>2. ReportsInv /\ [ReportsNext]_<<vars, reports>> => [Next]_vars
  BY SnapshotMeasured
  DEF ReportsInv, ReportsNext, StatsWindow, OnReceiverReport, OnTransportLossReport, Next, vars
<1> QED
  BY <1>1, <1>2, ReportsInvariant, PTL DEF ReportsSpec, Spec

(* A report that asked for the present level holds it for the two windows   *)
(* that are sure to use it and four more, whatever the other kind of report *)
(* says and whenever it came between two windows.                           *)
THEOREM SilenceHolds == ReportsSpec => HeldThroughSilence
<1>1. ReportsInv /\ [ReportsNext]_<<vars, reports>> =>
        [level' < level =>
           /\ ReportRequires >= level => remoteReport.age >= Fresh + Windows - 2
           /\ TransportRequires >= level => remoteTransportLoss.age >= Fresh + Windows - 2
        ]_<<vars, reports>>
  <2> SUFFICES ASSUME ReportsInv, ReportsNext, level' < level
               PROVE  /\ ReportRequires >= level => remoteReport.age >= Fresh + Windows - 2
                      /\ TransportRequires >= level =>
                           remoteTransportLoss.age >= Fresh + Windows - 2
    BY DEF vars, reports
  <2>1. level \in 0 .. 4
    BY DEF ReportsInv, ReportsTypeOK, TypeOK, Levels
  <2>2. StatsWindow
    BY <2>1 DEF ReportsNext, OnReceiverReport, OnTransportLossReport, vars
  <2> QED
    BY <2>2, WindowSilence
<1> QED
  BY <1>1, ReportsInvariant, PTL DEF ReportsSpec, HeldThroughSilence

-----------------------------------------------------------------------------
(* AdaptiveSender *)

(* The ladder, level by level. *)
LEMMA LadderRates ==
  ASSUME NEW l \in Levels
  PROVE  /\ Ladder[l] \in [level : Int, kbps : Int, fps : Int, width : Int, height : Int]
         /\ Ladder[l].level = l
         /\ Ladder[l].kbps = CASE l = 0 -> 2000 [] l = 1 -> 1200 [] l = 2 -> 600
                               [] l = 3 -> 300 [] l = 4 -> 150
<1>0. l \in 0 .. 4
  BY DEF Levels
<1>1. CASE l = 0
  BY <1>0, <1>1, SMT DEF Ladder, Levels
<1>2. CASE l = 1
  BY <1>0, <1>2, SMT DEF Ladder, Levels
<1>3. CASE l = 2
  BY <1>0, <1>3, SMT DEF Ladder, Levels
<1>4. CASE l = 3
  BY <1>0, <1>4, SMT DEF Ladder, Levels
<1>5. CASE l = 4
  BY <1>0, <1>5, SMT DEF Ladder, Levels
<1> QED
  BY <1>0, <1>1, <1>2, <1>3, <1>4, <1>5

LEMMA SmallerBounds ==
  ASSUME NEW a \in Int, NEW b \in Int
  PROVE  /\ Smaller(a, b) \in {a, b}
         /\ Smaller(a, b) <= a /\ Smaller(a, b) <= b
BY SMT DEF Smaller

(* A profile's rate: the ladder's up to the maximum. *)
LEMMA ProfileRate ==
  ASSUME NEW l \in Levels
  PROVE  /\ ProfileForLevel(l).kbps = Smaller(Ladder[l].kbps, MaxVideoKbps)
         /\ ProfileForLevel(l).kbps \in Int
         /\ 150 <= ProfileForLevel(l).kbps /\ ProfileForLevel(l).kbps <= 2000
         /\ ProfileForLevel(l).kbps <= MaxVideoKbps
         /\ ProfileForLevel(l).kbps <= Ladder[l].kbps
<1>1. ProfileForLevel(l).kbps = Smaller(Ladder[l].kbps, MaxVideoKbps)
  BY LadderRates, SMT DEF ProfileForLevel
<1>2. Ladder[l].kbps \in Int /\ Ladder[l].kbps >= 150 /\ Ladder[l].kbps <= 2000
  BY LadderRates, SMT DEF Levels
<1> QED
  <2> DEFINE a == Ladder[l].kbps
             k == ProfileForLevel(l).kbps
  <2>1. a \in Int /\ a >= 150 /\ a <= 2000 /\ k = Smaller(a, MaxVideoKbps)
    BY <1>1, <1>2
  <2> HIDE DEF a, k
  <2>2. k \in Int /\ k >= 150 /\ k <= 2000 /\ k <= MaxVideoKbps /\ k <= a
    BY <2>1, SmallerBounds, AdaptationAssumption, SMT
  <2> QED
    BY <1>1, <2>2 DEF k, a

LEMMA ScaledBounds ==
  ASSUME NEW k \in Nat, NEW s \in 0 .. 100
  PROVE  (k * 1150) * s <= k * 115000
<1>1. k * s <= k * 100
  BY SMT
<1>2. (k * 1150) * s = 1150 * (k * s) /\ k * 115000 = 1150 * (k * 100)
  BY SMT
<1> QED
  BY <1>1, <1>2, SMT

LEMMA RequiredByLossLeast ==
  ASSUME NEW q \in Quality
  PROVE  RequiredByLoss(q) \in Levels /\ RequiredByLoss(q) <= Required(q)
BY SMT DEF Quality, Loss, Larger, Required, RequiredByLoss, RequiredByDelay,
           RequiredByJitter, Levels

(* A rate of k kbit/s needs no more than the highest pace when s percent of *)
(* the packets survive.                                                     *)
Affordable(k, s) == k * 115000 <= HighestPace * s

LEMMA PaceOf ==
  ASSUME NEW p, NEW q, p.kbps \in Int, 150 <= p.kbps, p.kbps <= 2000,
         Survival(q) \in 20 .. 100, Affordable(p.kbps, Survival(q))
  PROVE  /\ PaceFor(p, q) \in LowestPace .. HighestPace
         /\ PaceFor(p, q) >= p.kbps * 1150
<1> DEFINE k == p.kbps
           s == Survival(q)
           n == k * 115000
           lo == k * 1150
           r == n \div s
<1>1. PaceFor(p, q) = Smaller(r, 8000000)
  BY SMT DEF PaceFor
<1>2. k \in Int /\ 150 <= k /\ k <= 2000 /\ s \in 20 .. 100 /\ n <= HighestPace * s
  BY DEF Affordable
<1> HIDE DEF k, s
<1>3. n \in Nat /\ lo \in Nat /\ s \in Nat \ {0} /\ lo >= LowestPace
  BY <1>2, SMT DEF LowestPace
<1>4. lo * s <= n /\ HighestPace \in Nat /\ LowestPace \in Nat
  BY <1>2, ScaledBounds, SMT DEF HighestPace, LowestPace
<1> HIDE DEF n, lo
<1>5. r \in Int /\ lo <= r /\ r <= HighestPace
  BY <1>2, <1>3, <1>4, DivBounds
<1> HIDE DEF r
<1>6. Smaller(r, 8000000) = r
  BY <1>5, SMT DEF Smaller, HighestPace
<1> QED
  BY <1>1, <1>3, <1>4, <1>5, <1>6, SMT DEF lo, k

(* At a level that answers the loss, what heavy loss adds to the pacer's    *)
(* rate is less than what the level takes from it: in bit/s 2,300,000 over  *)
(* 97%, 1,380,000 over 90%, 690,000 over 70%, 345,000 over 40% and 172,500  *)
(* over 20%.                                                                *)
LEMMA SurvivalAtLevel ==
  ASSUME NEW l \in Levels, NEW q \in Quality, l >= Required(q)
  PROVE  /\ Survival(q) \in 20 .. 100
         /\ Affordable(ProfileForLevel(l).kbps, Survival(q))
<1> DEFINE k == ProfileForLevel(l).kbps
           s == Survival(q)
<1>1. Loss(q) \in Nat
  BY DEF Quality, Loss, Larger
<1>2. RequiredByLoss(q) <= l
  BY RequiredByLossLeast, RequiredType, SMT DEF Levels
<1>3. s \in 20 .. 100
  BY <1>1, SMT DEF Survival, Larger
<1>4. /\ k \in Int /\ k >= 150 /\ k <= 2000
      /\ k <= CASE l = 0 -> 2000 [] l = 1 -> 1200 [] l = 2 -> 600
               [] l = 3 -> 300 [] l = 4 -> 150
  BY ProfileRate, LadderRates, SMT DEF Levels
<1>5. /\ l = 0 => s >= 97
      /\ l = 1 => s >= 90
      /\ l = 2 => s >= 70
      /\ l = 3 => s >= 40
  BY <1>1, <1>2, SMT DEF RequiredByLoss, Survival, Larger
<1> HIDE DEF k, s
<1>6. Affordable(k, s)
  BY <1>3, <1>4, <1>5, SMT DEF Levels, Affordable, HighestPace
<1> QED
  BY <1>3, <1>6 DEF k, s

LEMMA PaceBounds ==
  ASSUME NEW l \in Levels, NEW q \in Quality, l >= Required(q)
  PROVE  /\ PaceFor(ProfileForLevel(l), q) \in LowestPace .. HighestPace
         /\ PaceFor(ProfileForLevel(l), q) >= ProfileForLevel(l).kbps * 1150
BY ProfileRate, SurvivalAtLevel, PaceOf

(* Between two windows the pacer carries the target; after the stats        *)
(* thread's second step the target is the level's profile, for which the    *)
(* third computes a rate.                                                   *)
PaceInv ==
    /\ stats = "pacer" => target = ProfileForLevel(level)
    /\ stats = "window" => pace >= target.kbps * 1150

(* A profile within the maximum reaches the encoder only behind a target    *)
(* that is within it.                                                       *)
MaximumInv ==
    /\ taken.kbps <= MaxVideoKbps => target.kbps <= MaxVideoKbps
    /\ encoding.kbps <= MaxVideoKbps => taken.kbps <= MaxVideoKbps

SenderInv == SenderTypeOK /\ AdaptationInv /\ PaceInv /\ MaximumInv

LEMMA DefaultRate == DefaultProfile.kbps = 2000 /\ NoProfile.kbps = 2000
<1>1. /\ Ladder[0] \in [level : Int, kbps : Int, fps : Int, width : Int, height : Int]
      /\ Ladder[0].kbps = 2000
  BY LadderRates, SMT DEF Levels
<1> QED
  BY <1>1, SMT DEF DefaultProfile, NoProfile

LEMMA SenderInitInv == SenderInit => SenderInv
<1> SUFFICES ASSUME SenderInit
             PROVE  SenderInv
  OBVIOUS
<1>1. AdaptationInv
  BY InitInv DEF SenderInit
<1>2. SenderTypeOK
  <2>1. DefaultPace \in LowestPace .. HighestPace
    <3>1. /\ DefaultPace \in Int /\ LowestPace \in Int /\ HighestPace \in Int
          /\ LowestPace <= DefaultPace /\ DefaultPace <= HighestPace
      BY SMT DEF DefaultPace, LowestPace, HighestPace
    <3> QED
      BY <3>1
  <2> QED
    BY <1>1, <2>1 DEF SenderInit, SenderTypeOK, AdaptationInv
<1>3. PaceInv
  <2>1. DefaultPace >= DefaultProfile.kbps * 1150
    BY DefaultRate, SMT DEF DefaultPace
  <2> QED
    BY <2>1 DEF SenderInit, PaceInv
<1>4. MaximumInv
  BY DefaultRate DEF SenderInit, MaximumInv
<1> QED
  BY <1>1, <1>2, <1>3, <1>4 DEF SenderInv

LEMMA WindowInv ==
  ASSUME SenderInv, NEW q \in Qualities, Window(q)
  PROVE  SenderInv'
<1>1. AdaptationInv'
  BY UpdateInv DEF Window, SenderInv
<1>2. SenderTypeOK'
  BY <1>1 DEF Window, SenderInv, SenderTypeOK, AdaptationInv
<1>3. PaceInv' /\ MaximumInv'
  BY DEF Window, SenderInv, PaceInv, MaximumInv
<1> QED
  BY <1>1, <1>2, <1>3 DEF SenderInv

LEMMA UpdateProfileInv ==
  ASSUME SenderInv, UpdateProfile
  PROVE  SenderInv'
<1>1. AdaptationInv'
  BY StutterInv DEF UpdateProfile, SenderInv
<1>2. level \in Levels /\ level' = level
  BY DEF UpdateProfile, vars, SenderInv, SenderTypeOK, TypeOK
<1>3. SenderTypeOK'
  BY <1>1, <1>2 DEF UpdateProfile, SenderInv, SenderTypeOK, AdaptationInv, Profiles
<1>4. PaceInv'
  BY <1>2 DEF UpdateProfile, PaceInv
<1>5. MaximumInv'
  BY <1>2, ProfileRate DEF UpdateProfile, SenderInv, MaximumInv
<1> QED
  BY <1>1, <1>3, <1>4, <1>5 DEF SenderInv

LEMMA UpdatePacerInv ==
  ASSUME SenderInv, UpdatePacer
  PROVE  SenderInv'
<1>1. AdaptationInv'
  BY StutterInv DEF UpdatePacer, SenderInv
<1>2. level \in Levels /\ quality \in Quality /\ level >= Required(quality)
  BY DEF SenderInv, AdaptationInv, TypeOK, Adequate
<1>3. /\ PaceFor(target, quality) \in LowestPace .. HighestPace
      /\ PaceFor(target, quality) >= target.kbps * 1150
  BY <1>2, PaceBounds DEF UpdatePacer, SenderInv, PaceInv
<1>4. SenderTypeOK'
  BY <1>1, <1>3 DEF UpdatePacer, SenderInv, SenderTypeOK, AdaptationInv
<1>5. PaceInv'
  BY <1>3 DEF UpdatePacer, PaceInv
<1>6. MaximumInv'
  BY DEF UpdatePacer, SenderInv, MaximumInv
<1> QED
  BY <1>1, <1>4, <1>5, <1>6 DEF SenderInv

LEMMA SendLoopInv ==
  ASSUME SenderInv, SendLoop
  PROVE  SenderInv'
<1>1. AdaptationInv'
  BY StutterInv DEF SendLoop, CopyProfile, Encode, SenderInv
<1>2. SenderTypeOK'
  BY <1>1 DEF SendLoop, CopyProfile, Encode, SenderInv, SenderTypeOK, AdaptationInv
<1>3. PaceInv'
  BY DEF SendLoop, CopyProfile, Encode, SenderInv, PaceInv, vars
<1>4. MaximumInv'
  BY DEF SendLoop, CopyProfile, Encode, SenderInv, MaximumInv
<1> QED
  BY <1>1, <1>2, <1>3, <1>4 DEF SenderInv

LEMMA SenderNextInv == SenderInv /\ [SenderNext]_<<vars, sender>> => SenderInv'
<1> SUFFICES ASSUME SenderInv, [SenderNext]_<<vars, sender>>
             PROVE  SenderInv'
  OBVIOUS
<1>1. CASE UNCHANGED <<vars, sender>>
  <2>1. AdaptationInv'
    BY <1>1, StutterInv DEF SenderInv
  <2> QED
    BY <1>1, <2>1
    DEF SenderInv, SenderTypeOK, AdaptationInv, PaceInv, MaximumInv, vars, sender
<1> QED
  BY <1>1, WindowInv, UpdateProfileInv, UpdatePacerInv, SendLoopInv DEF SenderNext, StatsLoop

THEOREM SenderInvariant == SenderSpec => []SenderInv
BY SenderInitInv, SenderNextInv, PTL DEF SenderSpec

(* Types, with the pacer's rate between 115% of the least profile's and a   *)
(* little above 115% of the top one's, whatever the losses and the maximum. *)
THEOREM SenderTypeCorrect == SenderSpec => []SenderTypeOK
BY SenderInvariant, PTL DEF SenderInv

(* Between two windows the pacer has room for the encoder that has followed *)
(* its target, in any order of the two threads' steps.                      *)
THEOREM PacerCarries == SenderSpec => []PacerCarriesEncoder
<1>1. SenderInv => PacerCarriesEncoder
  BY DEF SenderInv, PaceInv, PacerCarriesEncoder
<1> QED
  BY <1>1, SenderInvariant, PTL

(* Once the encoder runs within --max-video-kbps it is never above it.      *)
THEOREM KeepsTheMaximum == SenderSpec => MaximumKept
<1>1. SenderInv /\ [SenderNext]_<<vars, sender>>
        => [encoding # NoProfile /\ encoding.kbps <= MaxVideoKbps
              => encoding'.kbps <= MaxVideoKbps]_<<vars, sender>>
  <2> SUFFICES ASSUME SenderInv, SenderNext, encoding.kbps <= MaxVideoKbps
               PROVE  encoding'.kbps <= MaxVideoKbps
    BY DEF sender
  <2>1. encoding' = encoding \/ encoding' = taken
    BY DEF SenderNext, StatsLoop, SendLoop, Window, UpdateProfile, UpdatePacer,
           CopyProfile, Encode
  <2> QED
    BY <2>1 DEF SenderInv, MaximumInv
<1> QED
  BY <1>1, SenderInvariant, PTL DEF SenderSpec, MaximumKept

(* The threads around the controller leave it alone: what is proved of      *)
(* VideoAdaptation holds of it in the sender.                               *)
THEOREM SenderImplementsAdaptation == SenderSpec => Spec
<1>1. SenderInit => Init
  BY DEF SenderInit
<1>2. [SenderNext]_<<vars, sender>> => [Next]_vars
  BY DEF SenderNext, StatsLoop, SendLoop, Window, UpdateProfile, UpdatePacer,
         CopyProfile, Encode, Next, vars
<1> QED
  BY <1>1, <1>2, PTL DEF SenderSpec, Spec
=============================================================================
