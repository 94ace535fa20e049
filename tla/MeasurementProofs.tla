-------------------------- MODULE MeasurementProofs --------------------------
(***************************************************************************)
(* Theorems about a measurement, for any number of ports and tries and for *)
(* both settings of the evidence: what each verdict rests on, that the     *)
(* throughput test is skipped only when it could not matter, and that a    *)
(* direction is given up only after all tries.                             *)
(***************************************************************************)
EXTENDS Measurement, FiniteSetTheorems, TLAPS

-----------------------------------------------------------------------------
(* The inductive invariant.                                                *)

(* Nothing of an earlier measurement is left when one begins. *)
StartsClean ==
    /\ step \in {"ping", "ping again"} => gateway = "unknown"
    /\ step \in {"ping", "ping again", "plc"} => plc = NoPlcResult
    /\ step \in {"ping", "ping again", "plc", "upload"} => wan = NoWanResult
    /\ step \in {"ping", "ping again", "plc"} => tried = {}

(* Each probe runs only when the one before it let it. *)
InTurn ==
    /\ step \in {"plc", "upload", "download"} => gateway = "reachable"
    /\ step \in {"upload", "download"} => ~PlcPhyIsDegraded(plc) /\ ~wan.error
    /\ step = "download" => /\ wan.run
                            /\ wan.upload # "none"
                            /\ wan.download = "none"
    /\ step = "evaluate" => gateway # "unknown"
    /\ step # "done" => verdict = "none"

(* What a report that is to be evaluated, or was, consists of. *)
ReportComplete ==
    /\ gateway # "reachable" => ~wan.run
    /\ wan.run => gateway = "reachable" /\ ~PlcPhyIsDegraded(plc)
    /\ wan.error => wan.run
    /\ step = "evaluate" /\ gateway = "reachable" => wan.run \/ PlcPhyIsDegraded(plc)
    /\ step = "evaluate" /\ wan.run /\ ~wan.error => "none" \notin {wan.upload, wan.download}
    /\ step = "evaluate" /\ wan.error => "none" \in {wan.upload, wan.download}

(* A verdict is that of the report, or of no report at all. *)
VerdictGiven ==
    verdict \notin {"none", "UNAVAILABLE"} =>
        /\ gateway # "unknown"
        /\ verdict = EvaluateReport(gateway, plc, wan)
        /\ gateway = "reachable" => wan.run \/ PlcPhyIsDegraded(plc)
        /\ wan.run /\ ~wan.error => "none" \notin {wan.upload, wan.download}

(* The ports tried so far are the first ones of the list for the direction. *)
TriedInOrder ==
    /\ step \in {"upload", "download"} =>
          /\ Cardinality(tried) < Tries
          /\ \A port \in tried : \E i \in 0 .. Cardinality(tried) - 1 :
                 port = CandidatePort(step = "download", i)
    /\ wan.error => Cardinality(tried) = Tries

MeasurementInv ==
    /\ TypeOK
    /\ StartsClean
    /\ InTurn
    /\ ReportComplete
    /\ VerdictGiven
    /\ TriedInOrder

-----------------------------------------------------------------------------
(* The rotation of the ports.                                              *)

(* Less than a full turn apart means different ports. *)
LEMMA TurnsApart ==
    ASSUME NEW n \in Nat \ {0}, NEW a \in Nat, NEW b \in Nat, a < b, b < a + n
    PROVE  a % n # b % n
<1>1. a = n * (a \div n) + (a % n) /\ b = n * (b \div n) + (b % n)
  OBVIOUS
<1>2. a \div n \in Int /\ b \div n \in Int /\ a % n \in Int /\ b % n \in Int
  OBVIOUS
<1> DEFINE d == (b \div n) - (a \div n)
<1>3. SUFFICES ASSUME a % n = b % n PROVE FALSE
  OBVIOUS
<1>4. d \in Int /\ b - a = n * d
  BY <1>1, <1>2, <1>3
<1>5. CASE d <= 0
  <2>1. n * d <= 0
    BY <1>4, <1>5
  <2> QED
    BY <1>4, <2>1
<1>6. CASE d >= 1
  <2>1. n * d >= n
    BY <1>4, <1>6
  <2> QED
    BY <1>4, <2>1
<1> QED
  BY <1>4, <1>5, <1>6

LEMMA PortsDiffer ==
    ASSUME slot \in Nat, NEW reverse \in BOOLEAN,
           NEW i \in Nat, NEW j \in Nat, i < j, j < PortCount
    PROVE  CandidatePort(reverse, i) # CandidatePort(reverse, j)
<1> DEFINE start == slot + (IF reverse /\ PortCount > 1 THEN PortCount \div 2 ELSE 0)
<1>1. start \in Nat
  BY MeasurementAssumption
<1>2. /\ CandidatePort(reverse, i) = (start + i) % PortCount
      /\ CandidatePort(reverse, j) = (start + j) % PortCount
  BY DEF CandidatePort
<1> HIDE DEF start
<1>3. /\ start + i \in Nat /\ start + j \in Nat
      /\ start + i < start + j /\ start + j < (start + i) + PortCount
  BY <1>1, MeasurementAssumption
<1>4. (start + i) % PortCount # (start + j) % PortCount
  BY <1>3, TurnsApart, MeasurementAssumption
<1> QED
  BY <1>2, <1>4

LEMMA PortInList ==
    ASSUME slot \in Nat, NEW reverse \in BOOLEAN, NEW i \in Nat
    PROVE  CandidatePort(reverse, i) \in 0 .. PortCount - 1
<1> DEFINE start == slot + (IF reverse /\ PortCount > 1 THEN PortCount \div 2 ELSE 0)
<1>1. start \in Nat
  BY MeasurementAssumption
<1>2. (start + i) % PortCount \in 0 .. PortCount - 1
  BY <1>1, MeasurementAssumption
<1> QED
  BY <1>2 DEF CandidatePort

(* The next port of the list has not been tried: there is one try more. *)
LEMMA OneMoreTried ==
    ASSUME TypeOK, TriedInOrder, step \in {"upload", "download"},
           NEW port, port = CandidatePort(step = "download", Cardinality(tried))
    PROVE  /\ port \in 0 .. PortCount - 1
           /\ Cardinality(tried) \in Nat
           /\ Cardinality(tried \union {port}) = Cardinality(tried) + 1
           /\ \A q \in tried \union {port} : \E i \in 0 .. Cardinality(tried) :
                  q = CandidatePort(step = "download", i)
<1> DEFINE reverse == step = "download"
           n == Cardinality(tried)
<1>1. IsFiniteSet(tried) /\ n \in Nat
  <2>1. IsFiniteSet(0 .. PortCount - 1)
    BY FS_Interval, MeasurementAssumption
  <2>2. IsFiniteSet(tried)
    BY <2>1, FS_Subset DEF TypeOK
  <2> QED
    BY <2>2, FS_CardinalityType
<1>2. port \in 0 .. PortCount - 1
  BY <1>1, PortInList DEF TypeOK
<1>3. n < Tries /\ n < PortCount
  BY <1>1, MeasurementAssumption DEF TriedInOrder
<1>4. port \notin tried
  <2> SUFFICES ASSUME port \in tried PROVE FALSE
    OBVIOUS
  <2>1. PICK i \in 0 .. n - 1 : port = CandidatePort(reverse, i)
    BY DEF TriedInOrder
  <2>2. i \in Nat /\ i < n
    BY <1>1, <2>1
  <2>3. CandidatePort(reverse, i) # CandidatePort(reverse, n)
    BY <1>1, <1>3, <2>2, PortsDiffer DEF TypeOK
  <2> QED
    BY <2>1, <2>3
<1>5. Cardinality(tried \union {port}) = n + 1
  BY <1>1, <1>4, FS_AddElement
<1>6. \A q \in tried \union {port} : \E i \in 0 .. n : q = CandidatePort(reverse, i)
  BY <1>1 DEF TriedInOrder
<1> QED
  BY <1>1, <1>2, <1>5, <1>6

-----------------------------------------------------------------------------
(* Every step keeps the invariant.                                         *)

LEMMA InitInv == Init => MeasurementInv
<1> SUFFICES ASSUME Init PROVE MeasurementInv
  OBVIOUS
<1>1. TypeOK
  BY MeasurementAssumption
     DEF Init, TypeOK, NoPlcResult, NoWanResult, PlcPhyResult, WanIperfResult, Rate, Gateway
<1> QED
  BY <1>1 DEF Init, MeasurementInv, StartsClean, InTurn, ReportComplete, VerdictGiven,
              TriedInOrder, NoPlcResult, NoWanResult

LEMMA PingStep ==
    ASSUME MeasurementInv,
           \/ \E o \in {"reachable", "unreachable", "ping missing", "exit 2"} : Ping(o)
           \/ \E o \in {"reachable", "unreachable", "ping missing"} : PingAgain(o)
    PROVE  MeasurementInv'
<1> USE DEF MeasurementInv
<1>1. TypeOK'
  BY DEF TypeOK, Ping, PingAgain, Gateway
<1>2. StartsClean' /\ InTurn' /\ TriedInOrder'
  BY DEF StartsClean, InTurn, TriedInOrder, Ping, PingAgain, NoWanResult
<1>3. ReportComplete' /\ VerdictGiven'
  BY DEF StartsClean, InTurn, ReportComplete, VerdictGiven, Ping, PingAgain, NoWanResult
<1> QED
  BY <1>1, <1>2, <1>3

LEMMA PlcStep ==
    ASSUME MeasurementInv, NEW o \in PlcOutcomes, QueryPlc(o)
    PROVE  MeasurementInv'
<1> USE DEF MeasurementInv
<1>1. o \in PlcPhyResult
  <2>1. NoPlcResult \in PlcPhyResult
    BY DEF NoPlcResult, PlcPhyResult, Rate
  <2> QED
    BY <2>1 DEF PlcOutcomes
<1>2. TypeOK'
  BY <1>1 DEF TypeOK, QueryPlc
<1>3. StartsClean' /\ InTurn'
  BY DEF StartsClean, InTurn, QueryPlc, NoWanResult
<1>4. ReportComplete' /\ VerdictGiven'
  BY DEF StartsClean, InTurn, ReportComplete, VerdictGiven, QueryPlc, NoWanResult
<1>5. TriedInOrder'
  <2>1. Cardinality({}) = 0
    BY FS_EmptySet
  <2> QED
    BY <2>1, MeasurementAssumption DEF StartsClean, TriedInOrder, QueryPlc, NoWanResult
<1> QED
  BY <1>2, <1>3, <1>4, <1>5

LEMMA TransferStep ==
    ASSUME MeasurementInv, NEW d \in {"upload", "download"}, NEW r \in {"low", "ok"},
           Transfer(d, r)
    PROVE  MeasurementInv'
<1> USE DEF MeasurementInv
<1>1. /\ wan' \in WanIperfResult
      /\ wan'.run /\ wan'.error = wan.error
      /\ wan'.upload = (IF d = "upload" THEN r ELSE wan.upload)
      /\ wan'.download = (IF d = "download" THEN r ELSE wan.download)
  <2>1. wan \in WanIperfResult /\ r \in Rate
    BY DEF TypeOK, Rate
  <2>2. CASE d = "upload"
    <3>1. wan' = [wan EXCEPT !.run = TRUE, !.upload = r]
      BY <2>2 DEF Transfer
    <3> QED
      BY <2>1, <2>2, <3>1 DEF WanIperfResult
  <2>3. CASE d = "download"
    <3>1. wan' = [wan EXCEPT !.run = TRUE, !.download = r]
      BY <2>3 DEF Transfer
    <3> QED
      BY <2>1, <2>3, <3>1 DEF WanIperfResult
  <2> QED
    BY <2>2, <2>3
<1>2. TypeOK'
  BY <1>1 DEF TypeOK, Transfer
<1>3. StartsClean'
  BY DEF StartsClean, Transfer
<1>4. /\ step = d /\ gateway' = "reachable" /\ verdict' = "none"
      /\ ~PlcPhyIsDegraded(plc') /\ ~wan'.error
      /\ step' = (IF d = "upload" THEN "download" ELSE "evaluate")
  BY <1>1 DEF InTurn, Transfer
<1>5. ASSUME d = "upload" PROVE InTurn' /\ ReportComplete' /\ VerdictGiven'
  <2>1. wan'.upload # "none" /\ wan'.download = "none"
    BY <1>1, <1>4, <1>5 DEF StartsClean, NoWanResult
  <2> QED
    BY <1>1, <1>4, <1>5, <2>1 DEF InTurn, ReportComplete, VerdictGiven
<1>6. ASSUME d = "download" PROVE InTurn' /\ ReportComplete' /\ VerdictGiven'
  <2>1. wan'.upload # "none" /\ wan'.download # "none"
    BY <1>1, <1>4, <1>6 DEF InTurn
  <2> QED
    BY <1>1, <1>4, <1>6, <2>1 DEF InTurn, ReportComplete, VerdictGiven
<1>7. TriedInOrder'
  <2>1. Cardinality({}) = 0
    BY FS_EmptySet
  <2> QED
    BY <1>1, <1>4, <2>1, MeasurementAssumption DEF TriedInOrder, Transfer
<1>8. InTurn' /\ ReportComplete' /\ VerdictGiven'
  BY <1>5, <1>6
<1> QED
  BY <1>2, <1>3, <1>7, <1>8

LEMMA TransferFailsStep ==
    ASSUME MeasurementInv, NEW d \in {"upload", "download"}, TransferFails(d)
    PROVE  MeasurementInv'
<1> USE DEF MeasurementInv
<1> DEFINE port == CandidatePort(d = "download", Cardinality(tried))
<1>1. step = d /\ tried' = tried \union {port}
  BY DEF TransferFails
<1>2. /\ port \in 0 .. PortCount - 1
      /\ Cardinality(tried) \in Nat
      /\ Cardinality(tried') = Cardinality(tried) + 1
      /\ \A q \in tried' : \E i \in 0 .. Cardinality(tried) : q = CandidatePort(d = "download", i)
  BY <1>1, OneMoreTried
<1>3. Cardinality(tried) < Tries
  BY <1>1 DEF TriedInOrder
<1> HIDE DEF port
<1>4. CASE Cardinality(tried) + 1 < Tries
  <2>1. UNCHANGED <<step, slot, iperfInstalled, gateway, plc, wan, verdict>>
    BY <1>4 DEF TransferFails
  <2>2. TypeOK'
    BY <1>1, <1>2, <2>1 DEF TypeOK
  <2>3. StartsClean' /\ InTurn' /\ ReportComplete' /\ VerdictGiven'
    BY <1>1, <2>1 DEF StartsClean, InTurn, ReportComplete, VerdictGiven
  <2>4. TriedInOrder'
    <3>1. Cardinality(tried') - 1 = Cardinality(tried)
      BY <1>2
    <3>2. \A reverse, i : CandidatePort(reverse, i)' = CandidatePort(reverse, i)
      BY <2>1 DEF CandidatePort
    <3>3. ~wan.error
      BY <1>1 DEF InTurn
    <3> QED
      BY <1>1, <1>2, <1>4, <2>1, <3>1, <3>2, <3>3 DEF TriedInOrder
  <2> QED
    BY <2>2, <2>3, <2>4
<1>5. CASE ~(Cardinality(tried) + 1 < Tries)
  <2>1. /\ wan' = [wan EXCEPT !.run = TRUE, !.error = TRUE]
        /\ step' = "evaluate"
        /\ UNCHANGED <<slot, iperfInstalled, gateway, plc, verdict>>
    BY <1>5 DEF TransferFails
  <2>2. /\ wan'.run /\ wan'.error
        /\ wan'.upload = wan.upload /\ wan'.download = wan.download
        /\ wan' \in WanIperfResult
    BY <2>1 DEF TypeOK, WanIperfResult
  <2>3. TypeOK'
    BY <1>1, <1>2, <2>1, <2>2 DEF TypeOK
  <2>4. StartsClean' /\ InTurn'
    BY <1>1, <2>1 DEF StartsClean, InTurn
  <2>5. "none" \in {wan'.upload, wan'.download}
    <3>1. step = "upload" => wan.upload = "none"
      BY DEF StartsClean, NoWanResult
    <3>2. step = "download" => wan.download = "none"
      BY DEF InTurn
    <3> QED
      BY <1>1, <2>2, <3>1, <3>2
  <2>6. gateway' = "reachable" /\ ~PlcPhyIsDegraded(plc') /\ verdict' = "none"
    BY <1>1, <2>1 DEF InTurn
  <2>7. ReportComplete' /\ VerdictGiven'
    BY <2>1, <2>2, <2>5, <2>6 DEF ReportComplete, VerdictGiven
  <2>8. TriedInOrder'
    BY <1>2, <1>3, <1>5, <2>1, MeasurementAssumption DEF TriedInOrder
  <2> QED
    BY <2>3, <2>4, <2>7, <2>8
<1> QED
  BY <1>4, <1>5

LEMMA RaisesStep ==
    ASSUME MeasurementInv, NEW d \in {"upload", "download"}, TransferRaises(d)
    PROVE  MeasurementInv'
<1> USE DEF MeasurementInv
<1>1. TypeOK'
  BY DEF TypeOK, TransferRaises
<1>2. StartsClean' /\ InTurn' /\ ReportComplete' /\ VerdictGiven' /\ TriedInOrder'
  BY DEF StartsClean, InTurn, ReportComplete, VerdictGiven, TriedInOrder, TransferRaises
<1> QED
  BY <1>1, <1>2

LEMMA EvaluateStep ==
    ASSUME MeasurementInv, Evaluate
    PROVE  MeasurementInv'
<1> USE DEF MeasurementInv
<1>1. TypeOK'
  <2>1. WanResult(plc, wan) \in {"HEALTHY", "DEGRADED", "UNAVAILABLE"}
    BY DEF WanResult
  <2>2. EvaluateReport(gateway, plc, wan)
           \in {"HEALTHY", "DEGRADED", "UNAVAILABLE", "MISCONFIGURED"}
    BY <2>1 DEF EvaluateReport
  <2> QED
    BY <2>2 DEF TypeOK, Evaluate
<1>2. StartsClean' /\ InTurn' /\ ReportComplete' /\ TriedInOrder'
  BY DEF StartsClean, InTurn, ReportComplete, TriedInOrder, Evaluate
<1>3. VerdictGiven'
  BY DEF InTurn, ReportComplete, VerdictGiven, Evaluate
<1> QED
  BY <1>1, <1>2, <1>3

LEMMA NextCycleStep ==
    ASSUME MeasurementInv, NextCycle
    PROVE  MeasurementInv'
<1> USE DEF MeasurementInv, NextCycle, Fresh
<1>1. TypeOK'
  <2>1. NoPlcResult \in PlcPhyResult /\ NoWanResult \in WanIperfResult
    BY DEF NoPlcResult, NoWanResult, PlcPhyResult, WanIperfResult, Rate
  <2>2. slot' \in Nat
    BY MeasurementAssumption
  <2> QED
    BY <2>1, <2>2 DEF TypeOK, Gateway
<1>2. StartsClean' /\ InTurn' /\ ReportComplete' /\ VerdictGiven' /\ TriedInOrder'
  BY DEF StartsClean, InTurn, ReportComplete, VerdictGiven, TriedInOrder, NoPlcResult,
         NoWanResult
<1> QED
  BY <1>1, <1>2

LEMMA InvStep == MeasurementInv /\ [Next]_vars => MeasurementInv'
<1> SUFFICES ASSUME MeasurementInv, [Next]_vars PROVE MeasurementInv'
  OBVIOUS
<1>1. CASE Measure
  BY <1>1, PingStep, PlcStep, TransferStep, TransferFailsStep, RaisesStep, EvaluateStep
     DEF Measure
<1>2. CASE NextCycle
  BY <1>2, NextCycleStep
<1>3. CASE UNCHANGED vars
  BY <1>3 DEF vars, MeasurementInv, TypeOK, StartsClean, InTurn, ReportComplete,
              VerdictGiven, TriedInOrder, CandidatePort
<1> QED
  BY <1>1, <1>2, <1>3 DEF Next

LEMMA Invariance == Spec => []MeasurementInv
BY InitInv, InvStep, PTL DEF Spec

-----------------------------------------------------------------------------
(* The theorems.                                                           *)

(* Every report has the types the code declares, and the ports tried are   *)
(* ports of the list.                                                      *)
THEOREM TypeCorrect == Spec => []TypeOK
<1>1. MeasurementInv => TypeOK
  BY DEF MeasurementInv
<1> QED
  BY <1>1, Invariance, PTL

(* A DEGRADED verdict rests on the link itself, or on throughput measured  *)
(* low in both-way tests where the operator has waived that.               *)
THEOREM DegradedRestsOnEvidence == Spec => []DegradedIsProven
<1>1. ASSUME MeasurementInv, verdict = "DEGRADED"
      PROVE  /\ gateway = "reachable"
             /\ \/ PlcKnown(plc) /\ "low" \in {plc.rx, plc.tx}
                \/ /\ ~RequireEvidence
                   /\ ~PlcKnown(plc)
                   /\ Low(wan) /\ "none" \notin {wan.upload, wan.download}
  <2>1. /\ EvaluateReport(gateway, plc, wan) = "DEGRADED"
        /\ wan.run /\ ~wan.error => "none" \notin {wan.upload, wan.download}
        /\ gateway # "unknown"
    BY <1>1 DEF MeasurementInv, VerdictGiven
  <2>2. /\ {plc.rx, plc.tx} \subseteq Rate /\ {wan.upload, wan.download} \subseteq Rate
        /\ gateway \in Gateway
    BY <1>1 DEF MeasurementInv, TypeOK, PlcPhyResult, WanIperfResult
  <2>3. gateway = "reachable"
    BY <2>1, <2>2 DEF EvaluateReport, Gateway
  <2>4. CASE PlcKnown(plc) /\ ~PlcPhyHealthy(plc)
    BY <2>2, <2>3, <2>4 DEF PlcPhyHealthy, PlcKnown, Rate
  <2>5. CASE ~(PlcKnown(plc) /\ ~PlcPhyHealthy(plc))
    <3>1. wan.run /\ WanResult(plc, wan) = "DEGRADED"
      BY <2>1, <2>3, <2>5 DEF EvaluateReport
    <3>2. /\ ~(wan.error /\ "none" \in {wan.upload, wan.download})
          /\ ~(wan.upload = "ok" /\ wan.download = "ok")
          /\ ~PlcPhyHealthy(plc) /\ ~RequireEvidence
      BY <3>1 DEF WanResult
    <3>3. "none" \notin {wan.upload, wan.download}
      BY <2>1, <3>1, <3>2
    <3> QED
      BY <2>2, <2>3, <2>5, <3>2, <3>3 DEF Low, Rate
  <2> QED
    BY <2>4, <2>5
<1>2. MeasurementInv => DegradedIsProven
  BY <1>1 DEF DegradedIsProven
<1> QED
  BY <1>2, Invariance, PTL

(* A HEALTHY verdict is never given for want of a test. *)
THEOREM HealthyRestsOnTests == Spec => []HealthyIsMeasured
<1>1. ASSUME MeasurementInv, verdict = "HEALTHY"
      PROVE  /\ gateway = "reachable"
             /\ wan.upload = "ok" /\ wan.download = "ok"
             /\ ~(PlcKnown(plc) /\ "low" \in {plc.rx, plc.tx})
  <2>1. /\ EvaluateReport(gateway, plc, wan) = "HEALTHY"
        /\ gateway = "reachable" => wan.run \/ PlcPhyIsDegraded(plc)
        /\ gateway \in Gateway \ {"unknown"}
    BY <1>1 DEF MeasurementInv, TypeOK, VerdictGiven
  <2>2. gateway = "reachable" /\ ~(PlcKnown(plc) /\ ~PlcPhyHealthy(plc))
    BY <2>1 DEF EvaluateReport, Gateway
  <2>3. wan.run
    BY <2>1, <2>2 DEF PlcPhyIsDegraded, PlcPhyHealthy
  <2>4. WanResult(plc, wan) = "HEALTHY"
    BY <2>1, <2>2, <2>3 DEF EvaluateReport
  <2> QED
    BY <2>2, <2>4 DEF WanResult, PlcPhyHealthy
<1>2. MeasurementInv => HealthyIsMeasured
  BY <1>1 DEF HealthyIsMeasured
<1> QED
  BY <1>2, Invariance, PTL

(* The throughput test is skipped exactly when its result could not change *)
(* the verdict.                                                            *)
THEOREM SkippingIsSound == Spec => []ShortCircuitSound
<1>1. ASSUME MeasurementInv PROVE ShortCircuitSound
  <2> DEFINE Conclusive == \A w \in {x \in WanIperfResult : x.run} :
                              EvaluateReport(gateway, plc, w) = "DEGRADED"
             good == [run |-> TRUE, upload |-> "ok", download |-> "ok", error |-> FALSE]
  <2> USE <1>1 DEF MeasurementInv
  <2>1. step = "upload" => ~Conclusive
    <3> SUFFICES ASSUME step = "upload" PROVE ~Conclusive
      OBVIOUS
    <3>1. good \in {x \in WanIperfResult : x.run}
      BY DEF WanIperfResult, Rate
    <3>2. ~PlcPhyIsDegraded(plc) /\ gateway = "reachable"
      BY DEF InTurn
    <3>3. EvaluateReport(gateway, plc, good) # "DEGRADED"
      BY <3>2 DEF TypeOK, EvaluateReport, WanResult, PlcPhyIsDegraded, PlcPhyHealthy, PlcKnown,
                  PlcPhyResult, Rate
    <3> QED
      BY <3>1, <3>3
  <2>2. step = "evaluate" /\ gateway = "reachable" /\ ~wan.run => Conclusive
    <3> SUFFICES ASSUME step = "evaluate", gateway = "reachable", ~wan.run PROVE Conclusive
      OBVIOUS
    <3>1. PlcPhyIsDegraded(plc)
      BY DEF ReportComplete
    <3>2. PlcKnown(plc) /\ ~PlcPhyHealthy(plc)
      BY <3>1 DEF PlcPhyIsDegraded, PlcPhyHealthy
    <3> QED
      BY <3>2 DEF EvaluateReport
  <2> QED
    BY <2>1, <2>2 DEF ShortCircuitSound
<1> QED
  BY <1>1, Invariance, PTL

(* A direction is given up only after DW_IPERF_TRIES different ports. *)
THEOREM FailoverTriesAll == Spec => []FailoverExhausted
<1>1. MeasurementInv => FailoverExhausted
  BY DEF MeasurementInv, TriedInOrder, FailoverExhausted
<1> QED
  BY <1>1, Invariance, PTL
=============================================================================
