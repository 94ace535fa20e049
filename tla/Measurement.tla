----------------------------- MODULE Measurement -----------------------------
(***************************************************************************)
(* One measurement: collect_measurement_report of runner.py with the       *)
(* probes it calls in turn (probes.py) and the evaluation of the report    *)
(* (policy.py).  Each probe is an action whose outcome is any the device,  *)
(* the network or the host may produce; measurements follow one another.   *)
(*                                                                         *)
(* A rate is only compared with its threshold, so it is "low", "ok", or    *)
(* "none" when there is no value.  A PLC query that raises (None in the    *)
(* code) and one that returns an unreachable result are read alike         *)
(* everywhere and are one outcome here.                                    *)
(***************************************************************************)
EXTENDS Integers, FiniteSets

CONSTANTS
    PortCount,         \* number of ports in DW_IPERF_PORTS, all distinct
    Tries,             \* DW_IPERF_TRIES
    RequireEvidence    \* DW_REQUIRE_PLC_EVIDENCE_FOR_REBOOT

(* What Settings.validate accepts. *)
ASSUME MeasurementAssumption ==
    /\ PortCount \in Nat \ {0}
    /\ Tries \in 1 .. PortCount
    /\ RequireEvidence \in BOOLEAN

VARIABLES
    step,            \* the probe to run next
    slot,            \* int(now // interval_seconds): which port is first
    iperfInstalled,  \* whether the host has the iperf3 binary
    gateway,         \* GatewayProbeResult
    plc,             \* PlcPhyResult
    wan,             \* WanIperfResult
    tried,           \* ports that failed so far in the running direction
    verdict          \* CycleResult.status, "none" until there is one

vars == <<step, slot, iperfInstalled, gateway, plc, wan, tried, verdict>>

Gateway == {"unknown", "reachable", "unreachable", "ping missing"}

Rate == {"none", "low", "ok"}

PlcPhyResult == [reachable : BOOLEAN, rx : Rate, tx : Rate]

NoPlcResult == [reachable |-> FALSE, rx |-> "none", tx |-> "none"]

(* Each of the two rates may be missing from the telemetry by itself. *)
PlcOutcomes == {p \in PlcPhyResult : p.reachable} \union {NoPlcResult}

WanIperfResult == [run : BOOLEAN, upload : Rate, download : Rate, error : BOOLEAN]

NoWanResult == [run |-> FALSE, upload |-> "none", download |-> "none", error |-> FALSE]

(* The types of the reports; the ports tried are ports of the list. *)
TypeOK ==
    /\ step \in {"ping", "ping again", "plc", "upload", "download", "evaluate", "done"}
    /\ slot \in Nat
    /\ iperfInstalled \in BOOLEAN
    /\ gateway \in Gateway
    /\ plc \in PlcPhyResult
    /\ wan \in WanIperfResult
    /\ tried \in SUBSET (0 .. PortCount - 1)
    /\ verdict \in {"none", "HEALTHY", "DEGRADED", "UNAVAILABLE", "MISCONFIGURED"}

-----------------------------------------------------------------------------
(* Evaluation.                                                             *)

PlcKnown(p) == p.reachable /\ p.rx # "none" /\ p.tx # "none"

(* Faulty: telemetry of one direction is enough. *)
PlcPhyIsDegradedPartial(p) == p.reachable /\ "low" \in {p.rx, p.tx}

PlcPhyIsDegraded(p) == PlcKnown(p) /\ (p.rx = "low" \/ p.tx = "low")

(* Faulty: one good direction passes for a healthy link. *)
PlcPhyHealthyEither(p) == PlcKnown(p) /\ (p.rx = "ok" \/ p.tx = "ok")

PlcPhyHealthy(p) == PlcKnown(p) /\ p.rx = "ok" /\ p.tx = "ok"

(* Faulty: a healthy link does not excuse low throughput. *)
WanResultBlamesLink(p, w) ==
    IF      w.error /\ "none" \in {w.upload, w.download} THEN "UNAVAILABLE"
    ELSE IF w.upload = "ok" /\ w.download = "ok"         THEN "HEALTHY"
    ELSE IF RequireEvidence                              THEN "UNAVAILABLE"
    ELSE "DEGRADED"

WanResult(p, w) ==
    IF      w.error /\ "none" \in {w.upload, w.download} THEN "UNAVAILABLE"
    ELSE IF w.upload = "ok" /\ w.download = "ok"         THEN "HEALTHY"
    ELSE IF PlcPhyHealthy(p) \/ RequireEvidence          THEN "UNAVAILABLE"
    ELSE "DEGRADED"

EvaluateReport(g, p, w) ==
    IF      g = "ping missing"               THEN "MISCONFIGURED"
    ELSE IF g = "unreachable"                THEN "UNAVAILABLE"
    ELSE IF PlcKnown(p) /\ ~PlcPhyHealthy(p) THEN "DEGRADED"
    ELSE IF w.run                            THEN WanResult(p, w)
    ELSE IF PlcPhyHealthy(p)                 THEN "HEALTHY"
    ELSE "UNAVAILABLE"

-----------------------------------------------------------------------------
(* Probes.                                                                 *)

(* Faulty: the rotation runs past the end of the list. *)
CandidatePortUnwrapped(reverse, i) ==
    ((slot + (IF reverse /\ PortCount > 1 THEN PortCount \div 2 ELSE 0)) % PortCount) + i

(* The i-th port candidate_ports returns, counted from 0. *)
CandidatePort(reverse, i) ==
    (slot + (IF reverse /\ PortCount > 1 THEN PortCount \div 2 ELSE 0) + i) % PortCount

(* ping with -W; exit status 2 asks for another attempt without it. *)
Ping(outcome) ==
    /\ step = "ping"
    /\ IF outcome = "exit 2"
       THEN step' = "ping again" /\ gateway' = gateway
       ELSE /\ gateway' = outcome
            /\ step' = IF outcome = "reachable" THEN "plc" ELSE "evaluate"
    /\ UNCHANGED <<slot, iperfInstalled, plc, wan, tried, verdict>>

PingAgain(outcome) ==
    /\ step = "ping again"
    /\ gateway' = outcome
    /\ step' = IF outcome = "reachable" THEN "plc" ELSE "evaluate"
    /\ UNCHANGED <<slot, iperfInstalled, plc, wan, tried, verdict>>

(* A degraded link is conclusive: the throughput test is skipped. *)
QueryPlc(outcome) ==
    /\ step = "plc"
    /\ plc' = outcome
    /\ step' = IF PlcPhyIsDegraded(outcome) THEN "evaluate" ELSE "upload"
    /\ UNCHANGED <<slot, iperfInstalled, gateway, wan, tried, verdict>>

(* run_single_iperf on the next candidate port measures a rate. *)
Transfer(direction, rate) ==
    /\ step = direction
    /\ iperfInstalled
    /\ wan' = [wan EXCEPT !.run = TRUE, ![direction] = rate]
    /\ step' = IF direction = "upload" THEN "download" ELSE "evaluate"
    /\ tried' = {}
    /\ UNCHANGED <<slot, iperfInstalled, gateway, plc, verdict>>

(* Faulty: the last candidate port is never tried. *)
TransferFailsEarly(direction) ==
    LET port == CandidatePort(direction = "download", Cardinality(tried)) IN
    /\ step = direction
    /\ tried' = tried \union {port}
    /\ IF Cardinality(tried) + 2 < Tries
       THEN UNCHANGED <<step, wan>>
       ELSE /\ wan' = [wan EXCEPT !.run = TRUE, !.error = TRUE]
            /\ step' = "evaluate"
    /\ UNCHANGED <<slot, iperfInstalled, gateway, plc, verdict>>

(* Faulty: the list of candidate ports is started again without end. *)
TransferFailsForever(direction) ==
    /\ step = direction
    /\ tried' = tried \union {CandidatePort(direction = "download", 0)}
    /\ UNCHANGED <<step, slot, iperfInstalled, gateway, plc, wan, verdict>>

(* It raises IperfError: the next port is tried, and after the last one    *)
(* probe_wan_iperf gives the measurement up with what it has.              *)
TransferFails(direction) ==
    LET port == CandidatePort(direction = "download", Cardinality(tried)) IN
    /\ step = direction
    /\ tried' = tried \union {port}
    /\ IF Cardinality(tried) + 1 < Tries
       THEN UNCHANGED <<step, wan>>
       ELSE /\ wan' = [wan EXCEPT !.run = TRUE, !.error = TRUE]
            /\ step' = "evaluate"
    /\ UNCHANGED <<slot, iperfInstalled, gateway, plc, verdict>>

(* Any other exception leaves the measurement without a report, and the    *)
(* cycle goes on as UNAVAILABLE.                                           *)
TransferRaises(direction) ==
    /\ step = direction
    /\ iperfInstalled
    /\ verdict' = "UNAVAILABLE"
    /\ step' = "done"
    /\ UNCHANGED <<slot, iperfInstalled, gateway, plc, wan, tried>>

Evaluate ==
    /\ step = "evaluate"
    /\ verdict' = EvaluateReport(gateway, plc, wan)
    /\ step' = "done"
    /\ UNCHANGED <<slot, iperfInstalled, gateway, plc, wan, tried>>

Fresh ==
    /\ step' = "ping"
    /\ gateway' = "unknown"
    /\ plc' = NoPlcResult
    /\ wan' = NoWanResult
    /\ tried' = {}
    /\ verdict' = "none"

(* The next cycle, at any later time and after any change of the host. *)
NextCycle ==
    /\ step = "done"
    /\ slot' \in 0 .. PortCount - 1
    /\ iperfInstalled' \in BOOLEAN
    /\ Fresh

-----------------------------------------------------------------------------
Init ==
    /\ step = "ping"
    /\ slot \in 0 .. PortCount - 1
    /\ iperfInstalled \in BOOLEAN
    /\ gateway = "unknown"
    /\ plc = NoPlcResult
    /\ wan = NoWanResult
    /\ tried = {}
    /\ verdict = "none"

Measure ==
    \/ \E o \in {"reachable", "unreachable", "ping missing", "exit 2"} : Ping(o)
    \/ \E o \in {"reachable", "unreachable", "ping missing"} : PingAgain(o)
    \/ \E o \in PlcOutcomes : QueryPlc(o)
    \/ \E d \in {"upload", "download"}, r \in {"low", "ok"} : Transfer(d, r)
    \/ \E d \in {"upload", "download"} : TransferFails(d)
    \/ \E d \in {"upload", "download"} : TransferRaises(d)
    \/ Evaluate

Next == Measure \/ NextCycle

(* Every probe has a timeout, so a measurement does not stand still. *)
Spec == Init /\ [][Next]_vars /\ WF_vars(Measure)

-----------------------------------------------------------------------------
(* Properties.                                                             *)

Low(w) == w.upload = "low" \/ w.download = "low"

(* A DEGRADED verdict, which counts towards a reboot, rests on the link    *)
(* itself: a complete PLC reading below the threshold; or, once the        *)
(* operator has waived that, throughput measured low in both-way tests     *)
(* while no PLC reading speaks for the link.                               *)
DegradedIsProven ==
    verdict = "DEGRADED" =>
        /\ gateway = "reachable"
        /\ \/ PlcKnown(plc) /\ "low" \in {plc.rx, plc.tx}
           \/ /\ ~RequireEvidence
              /\ ~PlcKnown(plc)
              /\ Low(wan) /\ "none" \notin {wan.upload, wan.download}

(* A HEALTHY verdict, which wipes the observation window and ends an       *)
(* episode, is never given for want of a test: both directions were        *)
(* measured and passed, although the policy alone would accept less.       *)
HealthyIsMeasured ==
    verdict = "HEALTHY" =>
        /\ gateway = "reachable"
        /\ wan.upload = "ok" /\ wan.download = "ok"
        /\ ~(PlcKnown(plc) /\ "low" \in {plc.rx, plc.tx})

(* The throughput test is skipped exactly when it could not change the     *)
(* verdict: the predicate that skips it and the one that evaluates the     *)
(* link are written twice in the code, and agree whatever is measured.     *)
ShortCircuitSound ==
    LET Conclusive == \A w \in {x \in WanIperfResult : x.run} :
                         EvaluateReport(gateway, plc, w) = "DEGRADED"
    IN  /\ step = "upload" => ~Conclusive
        /\ step = "evaluate" /\ gateway = "reachable" /\ ~wan.run => Conclusive

(* A direction is given up only after DW_IPERF_TRIES different ports. *)
FailoverExhausted == wan.error => Cardinality(tried) = Tries

(* Every measurement reaches a verdict. *)
Concludes == []<>(verdict # "none")

(* README.md, Decision Matrix: a missing system binary is misconfigured. *)
MissingBinaryIsMisconfigured ==
    /\ gateway = "ping missing" /\ verdict # "none" => verdict = "MISCONFIGURED"
    /\ wan.error /\ ~iperfInstalled /\ verdict # "none" => verdict = "MISCONFIGURED"
=============================================================================
