---------------------------- MODULE CommandsProofs ----------------------------
(***************************************************************************)
(* Theorems about an invocation, for all configurations, whatever the      *)
(* tables say the texts read as: what is never done, what an exit code     *)
(* tells, what a calibration recommends and which ports are tried.         *)
(***************************************************************************)
EXTENDS CommandsProperties, FiniteSetTheorems, TLAPS

(* The steps that come after an accepted configuration only. *)
Configured ==
    {"daemon", "cycle", "act", "record", "call", "password", "pings", "doctor password",
     "doctor state", "doctor pings", "doctor API", "discover", "calibrate"}

(* Where an invocation is says what it was told and how it was configured. *)
StepInv ==
    /\ call \in Scenarios
    /\ pc \in {"start", "configure", "doctor", "healthcheck"} => done = {}
    /\ pc # "exited" => code = Running
    /\ pc = "healthcheck" => command \in Healthchecks
    /\ pc \in Configured => Accepted(env)
    /\ pc = "cycle" => command \in Once /\ done = {}
    /\ pc = "act" =>
           command \in Once /\ (asked => Get(env, "DW_ACTION") = "reboot" /\ verdict # "HEALTHY")
    /\ pc \in {"record", "call"} => ConsentGiven
    /\ pc = "call" => "record" \in done
    /\ pc = "doctor report" /\ ~Accepted(env) => "configuration" \in failed /\ done = {}

CommandsInv == StepInv /\ FailClosed /\ RestartNeedsConsent

(* The exit codes are different. *)
LEMMA CodesDiffer ==
    /\ Running # 0 /\ 1 # 0 /\ 2 # 0 /\ 3 # 0
    /\ 2 # 1 /\ 3 # 1 /\ 3 # 2
BY DEF Running

(* An invocation begins with nothing done. *)
LEMMA InitCommands == Init => CommandsInv
BY DEF Init, CommandsInv, StepInv, FailClosed, RestartNeedsConsent, Configured, command

(* Up to the first step of the command. *)
LEMMA MainKeeps ==
    ASSUME CommandsInv,
           \/ \E readable \in BOOLEAN : LoadEnvironment(readable)
           \/ StartHealthcheck \/ RejectConfiguration \/ Dispatch
    PROVE  CommandsInv'
<1> USE DEF CommandsInv, FailClosed, RestartNeedsConsent
<1>1. call.command \in Command
    BY CommandsAssumption DEF StepInv
<1>2. CASE \E readable \in BOOLEAN : LoadEnvironment(readable)
    <2>1. /\ pc' = "configure" /\ code' = Running /\ done' = {} /\ call' = call
        BY <1>2 DEF LoadEnvironment, Goto, StepInv
    <2>2. StepInv'
        BY <2>1 DEF StepInv, Configured
    <2>3. FailClosed'
        <3>1. ~(done' # {} \/ pc' = "daemon" \/ code' = 0)
            BY <2>1, CodesDiffer, Zenon
        <3>2. QED
            BY <3>1, Zenon
    <2>4. RestartNeedsConsent'
        BY <2>1
    <2>5. QED
        BY <2>2, <2>3, <2>4
<1>3. CASE StartHealthcheck
    BY <1>3 DEF StartHealthcheck, Goto, StepInv, Configured, checks, cycle, samples, command
<1>4. CASE RejectConfiguration
    <2>1. /\ \/ pc' = "doctor" /\ code' = Running
             \/ pc' = "exited" /\ code' = 3
          /\ done' = {} /\ call' = call
        BY <1>4 DEF RejectConfiguration, Goto, Exit, StepInv
    <2>2. StepInv'
        BY <2>1 DEF StepInv, Configured
    <2>3. FailClosed'
        <3>1. ~(done' # {} \/ pc' = "daemon" \/ code' = 0)
            BY <2>1, CodesDiffer, Zenon
        <3>2. QED
            BY <3>1, Zenon
    <2>4. RestartNeedsConsent'
        BY <2>1
    <2>5. QED
        BY <2>2, <2>3, <2>4
<1>5. CASE Dispatch
    <2>1. /\ pc' = FirstStep /\ code' = code /\ Accepted(env) /\ pc = "configure"
          /\ UNCHANGED <<call, env, passed, failed, done, verdict, asked>>
        BY <1>5 DEF Dispatch, Goto, checks, cycle
    <2>2. done = {} /\ code = Running
        BY <2>1 DEF StepInv
    <2>3. /\ Accepted(env)' /\ ConsentGiven' = ConsentGiven
          /\ command' = command
        BY <2>1 DEF command, ConsentGiven
    <2>4. command \notin Healthchecks
        BY <1>5 DEF Dispatch
    <2>5. /\ pc' \notin {"start", "configure", "healthcheck", "exited", "act", "call",
                         "doctor report"}
          /\ pc' = "cycle" => command \in Once
          /\ pc' = "record" => command = "restart"
        BY <1>1, <2>1, <2>4 DEF FirstStep, Command, Once, Healthchecks, command
    <2>6. StepInv'
        BY <2>1, <2>2, <2>3, <2>5 DEF StepInv, ConsentGiven
    <2>7. QED
        BY <2>1, <2>2, <2>3, <2>6
<1>6. QED
    BY <1>2, <1>3, <1>4, <1>5

(* run --once and restart. *)
LEMMA RestartKeeps ==
    ASSUME CommandsInv,
           \/ StopBeforeCycle
           \/ \E status \in Verdict, reboot, due \in BOOLEAN : RunCycle(status, reboot, due)
           \/ HandleAction
           \/ \E saved \in BOOLEAN : RecordRequest(saved)
           \/ \E outcome \in Answer : RequestRestart(outcome)
    PROVE  CommandsInv'
<1> USE DEF CommandsInv, StepInv, FailClosed, RestartNeedsConsent, ConsentGiven, Configured,
            command, checks, cycle, samples, Goto, Exit
<1>1. CASE StopBeforeCycle
    BY <1>1 DEF StopBeforeCycle
<1>2. CASE \E status \in Verdict, reboot, due \in BOOLEAN : RunCycle(status, reboot, due)
    <2>1. PICK status \in Verdict, reboot, due \in BOOLEAN : RunCycle(status, reboot, due)
        BY <1>2
    <2>2. QED
        BY <2>1 DEF RunCycle, Once
<1>3. CASE HandleAction
    BY <1>3 DEF HandleAction, Once
<1>4. CASE \E saved \in BOOLEAN : RecordRequest(saved)
    BY <1>4 DEF RecordRequest, EndRequest
<1>5. CASE \E outcome \in Answer : RequestRestart(outcome)
    BY <1>5 DEF RequestRestart, EndRequest
<1>6. QED
    BY <1>1, <1>2, <1>3, <1>4, <1>5

(* The other commands. *)
LEMMA ChecksKeep ==
    ASSUME CommandsInv,
           \/ \E ok \in BOOLEAN :
                  \/ CheckPassword(ok) \/ CheckHeartbeat(ok) \/ DoctorRuntime(ok)
                  \/ DoctorPassword(ok) \/ DoctorStateDirectory(ok) \/ DoctorApi(ok)
           \/ \E one, other \in BOOLEAN :
                  CheckHosts(one, other) \/ DoctorPings(one, other) \/ Discover(one, other)
           \/ DoctorReport
           \/ \E upload, download \in Rates \union {NoRate} : TakeSample(upload, download)
           \/ FinishCalibration
    PROVE  CommandsInv'
<1> USE DEF CommandsInv, StepInv, FailClosed, RestartNeedsConsent, ConsentGiven, Configured,
            command, cycle, Goto, Exit
<1>1. CASE \E ok \in BOOLEAN : CheckPassword(ok)
    BY <1>1 DEF CheckPassword
<1>2. CASE \E ok \in BOOLEAN : CheckHeartbeat(ok)
    BY <1>2 DEF CheckHeartbeat
<1>3. CASE \E ok \in BOOLEAN : DoctorRuntime(ok)
    <2>1. PICK ok \in BOOLEAN : DoctorRuntime(ok)
        BY <1>3
    <2>2. ~Accepted(env) => "configuration" \in failed'
        BY <2>1 DEF DoctorRuntime, Note, Passing
    <2>3. QED
        BY <2>1, <2>2 DEF DoctorRuntime
<1>4. CASE \E ok \in BOOLEAN : DoctorPassword(ok)
    BY <1>4 DEF DoctorPassword
<1>5. CASE \E ok \in BOOLEAN : DoctorStateDirectory(ok)
    BY <1>5 DEF DoctorStateDirectory
<1>6. CASE \E ok \in BOOLEAN : DoctorApi(ok)
    BY <1>6 DEF DoctorApi
<1>7. CASE \E one, other \in BOOLEAN : CheckHosts(one, other)
    BY <1>7 DEF CheckHosts
<1>8. CASE \E one, other \in BOOLEAN : DoctorPings(one, other)
    BY <1>8 DEF DoctorPings
<1>9. CASE \E one, other \in BOOLEAN : Discover(one, other)
    BY <1>9 DEF Discover
<1>10. CASE DoctorReport
    <2>1. /\ pc = "doctor report" /\ pc' = "exited"
          /\ failed # {} => code' = 1
          /\ UNCHANGED <<call, env, done, verdict, asked>>
        BY <1>10 DEF DoctorReport
    <2>2. ~Accepted(env) => failed # {} /\ done = {}
        BY <2>1
    <2>3. StepInv'
        BY <2>1
    <2>4. FailClosed'
        <3>1. CASE Accepted(env)
            BY <2>1, <3>1
        <3>2. CASE ~Accepted(env)
            <4>1. ~(done' # {} \/ pc' = "daemon" \/ code' = 0)
                BY <2>1, <2>2, <3>2, CodesDiffer, Zenon
            <4>2. QED
                BY <4>1, Zenon
        <3>3. QED
            BY <3>1, <3>2
    <2>5. RestartNeedsConsent'
        BY <2>1
    <2>6. QED
        BY <2>3, <2>4, <2>5
<1>11. CASE \E upload, download \in Rates \union {NoRate} : TakeSample(upload, download)
    BY <1>11 DEF TakeSample, checks
<1>12. CASE FinishCalibration
    BY <1>12 DEF FinishCalibration, checks
<1>13. QED
    BY <1>1, <1>2, <1>3, <1>4, <1>5, <1>6, <1>7, <1>8, <1>9, <1>10, <1>11, <1>12

(* The strengthening holds in every state of every invocation. *)
LEMMA CommandsInvariant == Spec => []CommandsInv
<1>1. ASSUME CommandsInv, UNCHANGED vars
      PROVE  CommandsInv'
    BY <1>1 DEF vars, checks, cycle, samples, CommandsInv, StepInv, FailClosed,
                RestartNeedsConsent, ConsentGiven, command
<1>2. CommandsInv /\ [Next]_vars => CommandsInv'
    BY <1>1, MainKeeps, RestartKeeps, ChecksKeep DEF Next
<1>3. QED
    BY InitCommands, <1>2, PTL DEF Spec

(* Nothing is done under a configuration that is not accepted. *)
THEOREM RejectedMeansUntouched == Spec => []FailClosed
<1>1. CommandsInv => FailClosed
    BY DEF CommandsInv
<1>2. QED
    BY <1>1, CommandsInvariant, PTL

(* The device is restarted only where that was asked for, after the attempt *)
(* was put down.                                                            *)
THEOREM RestartIsAskedFor == Spec => []RestartNeedsConsent
<1>1. CommandsInv => RestartNeedsConsent
    BY DEF CommandsInv
<1>2. QED
    BY <1>1, CommandsInvariant, PTL

(* The daemon and the healthcheck agree on the limit in every environment. *)
THEOREM LimitsAgree == Spec => []SameLimit
<1>1. SameLimit
    BY DEF SameLimit, Accepted, NumbersAccepted, MaxAgeAccepted, HealthcheckConfigured,
           HealthcheckMaxAge, EffectiveMaxAge, PositiveIntegers, Interval
<1>2. QED
    BY <1>1, PTL
-----------------------------------------------------------------------------
(* Counting samples.                                                        *)

(* What is counted is finite. *)
LEMMA NumberedFinite ==
    ASSUME NEW rates, NEW S \in SUBSET Rates
    PROVE  /\ IsFiniteSet(Numbered(rates, S))
           /\ CountIn(rates, S) \in Nat
<1>1. IsFiniteSet(S)
    BY CommandsAssumption, FS_Subset
<1>2. IsFiniteSet(S \X (1 .. Samples))
    <2>1. IsFiniteSet(1 .. Samples)
        BY CommandsAssumption, FS_Interval
    <2>2. QED
        BY <1>1, <2>1, FS_Product
<1>3. Numbered(rates, S) \subseteq S \X (1 .. Samples)
    BY DEF Numbered
<1>4. IsFiniteSet(Numbered(rates, S))
    BY <1>2, <1>3, FS_Subset
<1>5. QED
    BY <1>4, FS_CardinalityType DEF CountIn

(* Fewer rates, fewer samples. *)
LEMMA CountMonotone ==
    ASSUME NEW rates, NEW S \in SUBSET Rates, NEW T \in SUBSET S
    PROVE  CountIn(rates, T) <= CountIn(rates, S)
<1>1. Numbered(rates, T) \subseteq Numbered(rates, S)
    BY DEF Numbered
<1>2. QED
    BY <1>1, NumberedFinite, FS_Subset DEF CountIn

(* One more sample makes one more. *)
LEMMA CountStep ==
    ASSUME NEW n \in Nat, n < Samples, NEW rates \in [Rates -> 0 .. n], NEW r \in Rates
    PROVE  /\ [rates EXCEPT ![r] = @ + 1] \in [Rates -> 0 .. (n + 1)]
           /\ Valid([rates EXCEPT ![r] = @ + 1]) = Valid(rates) + 1
<1> DEFINE more == [rates EXCEPT ![r] = @ + 1]
           x    == <<r, rates[r] + 1>>
<1>1. Samples \in Nat /\ rates[r] \in 0 .. n
    BY CommandsAssumption
<1>2. more \in [Rates -> 0 .. (n + 1)]
    BY <1>1
<1>3. Numbered(more, Rates) = Numbered(rates, Rates) \union {x}
    <2>1. ASSUME NEW y \in Rates \X (1 .. Samples)
          PROVE  y[2] <= more[y[1]] <=> y[2] <= rates[y[1]] \/ y = x
        <3>1. /\ y[1] \in Rates /\ y[2] \in 1 .. Samples /\ y = <<y[1], y[2]>>
              /\ rates[y[1]] \in 0 .. n
            BY <2>1
        <3>2. CASE y[1] = r
            BY <1>1, <3>1, <3>2
        <3>3. CASE y[1] # r
            BY <3>1, <3>3
        <3>4. QED
            BY <3>2, <3>3
    <2>2. x \in Rates \X (1 .. Samples)
        BY <1>1
    <2>3. QED
        BY <2>1, <2>2 DEF Numbered
<1>4. x \notin Numbered(rates, Rates)
    BY <1>1 DEF Numbered
<1>5. QED
    BY <1>2, <1>3, <1>4, NumberedFinite, FS_AddElement DEF Valid, CountIn

-----------------------------------------------------------------------------
(* The exit codes.                                                          *)

DoctorSteps == {"doctor", "doctor password", "doctor state", "doctor pings", "doctor API",
                "doctor report"}

(* A sample counts in both directions or in none. *)
SamplesInv ==
    /\ taken \in 0 .. Samples
    /\ up \in [Rates -> 0 .. taken] /\ down \in [Rates -> 0 .. taken]
    /\ Valid(up) = Valid(down)

(* Which command is at which step, and which checks it has behind it. *)
ChecksInv ==
    /\ pc = "start" => verdict = "none"
    /\ pc \notin DoctorSteps \union {"exited"} => failed = {}
    /\ pc # "exited" => "restart call" \notin done
    /\ pc \in {"configure", "cycle"} => verdict = "none"
    /\ pc \in {"password", "pings"} => command = "check-config"
    /\ pc \in DoctorSteps => command = "doctor"
    /\ pc \in {"discover", "calibrate"} => command = pc
    /\ pc \in DoctorSteps \ {"doctor", "doctor report"} =>
           {"runtime", "configuration"} \subseteq passed \union failed
    /\ pc = "doctor API" => {"gateway", "device"} \subseteq passed \union failed
    /\ pc = "doctor report" /\ "configuration" \notin failed =>
           {"runtime", "configuration", "gateway", "device", "PLC API"}
               \subseteq passed \union failed

ExitInv == SamplesInv /\ ChecksInv /\ ExitCodeTells

LEMMA InitExit == Init => ExitInv
<1> SUFFICES ASSUME Init PROVE ExitInv
    OBVIOUS
<1>1. Valid(up) = Valid(down)
    BY DEF Init
<1>2. SamplesInv
    BY <1>1, CommandsAssumption DEF Init, SamplesInv
<1>3. ChecksInv /\ ExitCodeTells
    BY DEF Init, ChecksInv, ExitCodeTells, Exited, DoctorSteps
<1>4. QED
    BY <1>2, <1>3 DEF ExitInv

(* Everything but a sample leaves the samples alone. *)
LEMMA SamplesKeep ==
    ASSUME SamplesInv, [Next]_vars
    PROVE  SamplesInv'
<1>1. CASE \E upload, download \in Rates \union {NoRate} : TakeSample(upload, download)
    <2>1. PICK upload \in Rates \union {NoRate}, download \in Rates \union {NoRate} :
              TakeSample(upload, download)
        BY <1>1
    <2>2. /\ taken \in Nat /\ taken < Samples /\ taken' = taken + 1
          /\ taken' \in 0 .. Samples
        BY <2>1, CommandsAssumption DEF TakeSample, SamplesInv
    <2>3. CASE NoRate \in {upload, download}
        <3>1. up' = up /\ down' = down
            BY <2>1, <2>3 DEF TakeSample
        <3>2. up \in [Rates -> 0 .. taken'] /\ down \in [Rates -> 0 .. taken']
            BY <2>2 DEF SamplesInv
        <3>3. QED
            BY <2>2, <3>1, <3>2 DEF SamplesInv
    <2>4. CASE NoRate \notin {upload, download}
        <3>1. /\ up' = [up EXCEPT ![upload] = @ + 1]
              /\ down' = [down EXCEPT ![download] = @ + 1]
              /\ upload \in Rates /\ download \in Rates
            BY <2>1, <2>4 DEF TakeSample
        <3>2. /\ up' \in [Rates -> 0 .. taken'] /\ Valid(up') = Valid(up) + 1
              /\ down' \in [Rates -> 0 .. taken'] /\ Valid(down') = Valid(down) + 1
            BY <2>2, <3>1, CountStep DEF SamplesInv
        <3>3. Valid(up)' = Valid(up') /\ Valid(down)' = Valid(down')
            BY DEF Valid, CountIn, Numbered
        <3>4. QED
            BY <2>2, <3>2, <3>3 DEF SamplesInv
    <2>5. QED
        BY <2>3, <2>4
<1>2. CASE UNCHANGED samples
    BY <1>2 DEF samples, SamplesInv, Valid, CountIn, Numbered
<1>3. QED
    BY <1>1, <1>2 DEF Next, vars, LoadEnvironment, RecordRequest, CheckPassword, CheckHeartbeat,
       DoctorRuntime, DoctorPassword, DoctorStateDirectory, DoctorApi, CheckHosts, DoctorPings,
       Discover, StartHealthcheck, RejectConfiguration, Dispatch, StopBeforeCycle, RunCycle,
       HandleAction, RequestRestart, DoctorReport, FinishCalibration
(* A calibration exits with 0 when it has a sample. *)
LEMMA ZeroMeansSome ==
    ASSUME NEW n \in Nat, NEW c, c = (IF n = 0 THEN 1 ELSE 0)
    PROVE  c = 0 => n > 0
OBVIOUS

(* main, run --once and restart. *)
LEMMA ExitsOfRuns ==
    ASSUME CommandsInv, ChecksInv, call \in Scenarios,
           \/ \E readable \in BOOLEAN : LoadEnvironment(readable)
           \/ StartHealthcheck \/ RejectConfiguration \/ Dispatch
           \/ StopBeforeCycle
           \/ \E status \in Verdict, reboot, due \in BOOLEAN : RunCycle(status, reboot, due)
           \/ HandleAction
           \/ \E saved \in BOOLEAN : RecordRequest(saved)
           \/ \E outcome \in Answer : RequestRestart(outcome)
    PROVE  ChecksInv' /\ ExitCodeTells'
<1> USE DEF ChecksInv, ExitCodeTells, Exited, DoctorSteps, Goto, Exit, command, checks, cycle,
            samples
<1>1. command \in Command
    BY CommandsAssumption
<1>2. CASE \E readable \in BOOLEAN : LoadEnvironment(readable)
    BY <1>2 DEF LoadEnvironment
<1>3. CASE StartHealthcheck
    BY <1>3 DEF StartHealthcheck
<1>4. CASE RejectConfiguration
    BY <1>4, CodesDiffer DEF RejectConfiguration
<1>5. CASE Dispatch
    <2>1. /\ pc' \in {"daemon", "cycle", "password", "record", "doctor", "discover", "calibrate"}
          /\ pc' \in {"doctor", "discover", "calibrate"} => command = pc'
          /\ pc' = "password" => command = "check-config"
        BY <1>1, <1>5 DEF Dispatch, FirstStep, Command, Once, Healthchecks
    <2>2. pc = "configure" /\ UNCHANGED <<call, checks, done, cycle>>
        BY <1>5 DEF Dispatch
    <2>3. QED
        BY <2>1, <2>2
<1>6. CASE StopBeforeCycle
    BY <1>6 DEF StopBeforeCycle, CommandsInv, StepInv, Once, Required, Healthchecks
<1>7. CASE \E status \in Verdict, reboot, due \in BOOLEAN : RunCycle(status, reboot, due)
    BY <1>7 DEF RunCycle
<1>8. CASE HandleAction
    BY <1>8, CodesDiffer DEF HandleAction, OnceExitCode, CommandsInv, StepInv, Once, Required, Healthchecks
<1>9. CASE \E saved \in BOOLEAN : RecordRequest(saved)
    BY <1>9, CodesDiffer DEF RecordRequest, EndRequest, RestartExitCode, OnceExitCode, CommandsInv, StepInv,
                ConsentGiven, Configured, Required, Once, Healthchecks
<1>10. CASE \E outcome \in Answer : RequestRestart(outcome)
    <2>1. PICK outcome \in Answer : RequestRestart(outcome)
        BY <1>10
    <2>2. /\ \/ command = "restart"
             \/ command = "once-allow" /\ verdict # "HEALTHY"
          /\ failed = {} /\ "restart call" \notin done
        <3>1. pc = "call"
            BY <2>1 DEF RequestRestart
        <3>2. ConsentGiven
            BY <3>1 DEF CommandsInv, StepInv
        <3>3. failed = {} /\ "restart call" \notin done
            BY <3>1
        <3>4. QED
            BY <3>2, <3>3, Zenon DEF ConsentGiven
    <2>3. /\ pc' = "exited" /\ answer' = outcome
          /\ outcome = "unavailable" => "restart call" \notin done'
          /\ UNCHANGED <<call, checks, cycle>>
        BY <2>1, <2>2 DEF RequestRestart, EndRequest
    <2>4. /\ command = "restart" /\ code' = 0 => outcome = "accepted"
          /\ command = "restart" /\ code' = 1 => outcome = "rejected"
          /\ command = "restart" /\ code' = 3 => outcome = "unavailable"
          /\ command = "once-allow" => code' # 0
        BY <2>1, <2>2, CodesDiffer DEF RequestRestart, EndRequest, RestartExitCode, OnceExitCode
    <2>5. Required' = {}
        BY <2>2, <2>3 DEF Required, Healthchecks
    <2>6. QED
        BY <2>2, <2>3, <2>4, <2>5 DEF Once
<1>11. QED
    BY <1>2, <1>3, <1>4, <1>5, <1>6, <1>7, <1>8, <1>9, <1>10

(* The other commands. *)
LEMMA ExitsOfChecks ==
    ASSUME CommandsInv, ChecksInv, SamplesInv,
           \/ \E ok \in BOOLEAN :
                  \/ CheckPassword(ok) \/ CheckHeartbeat(ok) \/ DoctorRuntime(ok)
                  \/ DoctorPassword(ok) \/ DoctorStateDirectory(ok) \/ DoctorApi(ok)
           \/ \E one, other \in BOOLEAN :
                  CheckHosts(one, other) \/ DoctorPings(one, other) \/ Discover(one, other)
           \/ DoctorReport
           \/ \E upload, download \in Rates \union {NoRate} : TakeSample(upload, download)
           \/ FinishCalibration
    PROVE  ChecksInv' /\ ExitCodeTells'
<1> USE DEF ChecksInv, ExitCodeTells, Exited, DoctorSteps, Goto, Exit, command, checks, cycle
<1>1. CASE \E ok \in BOOLEAN : CheckPassword(ok)
    <2>1. PICK ok \in BOOLEAN : CheckPassword(ok)
        BY <1>1
    <2>2. /\ ok => pc' = "pings" /\ failed' = {}
          /\ ~ok => pc' = "exited" /\ code' = 3
          /\ command = "check-config" /\ UNCHANGED <<call, done, cycle>>
          /\ "restart call" \notin done
        BY <2>1 DEF CheckPassword, Note, Passing
    <2>3. QED
        BY <2>2, CodesDiffer
<1>2. CASE \E ok \in BOOLEAN : CheckHeartbeat(ok)
    <2>1. PICK ok \in BOOLEAN : CheckHeartbeat(ok)
        BY <1>2
    <2>2. /\ pc' = "exited" /\ command \in Healthchecks
          /\ code' = 0 => "heartbeat" \in passed' /\ failed' = {}
          /\ UNCHANGED <<call, done, cycle>>
        BY <2>1, CodesDiffer DEF CheckHeartbeat, Note, Passing, CommandsInv, StepInv
    <2>3. Required' = {"heartbeat"}
        BY <2>2 DEF Required, Healthchecks
    <2>4. QED
        BY <2>2, <2>3 DEF Healthchecks, Once
<1>3. CASE \E ok \in BOOLEAN : DoctorRuntime(ok)
    <2>1. PICK ok \in BOOLEAN : DoctorRuntime(ok)
        BY <1>3
    <2>2. /\ {"runtime", "configuration"} \subseteq passed' \union failed'
          /\ pc' \in {"doctor password", "doctor report"}
          /\ pc' = "doctor report" => "configuration" \in failed'
          /\ command = "doctor" /\ UNCHANGED <<call, done, cycle>> /\ "restart call" \notin done
        BY <2>1 DEF DoctorRuntime, Note, Passing
    <2>3. QED
        BY <2>2
<1>4. CASE \E ok \in BOOLEAN : DoctorPassword(ok)
    <2>1. PICK ok \in BOOLEAN : DoctorPassword(ok)
        BY <1>4
    <2>2. /\ passed \subseteq passed' /\ failed \subseteq failed' /\ pc' = "doctor state"
          /\ command = "doctor" /\ UNCHANGED <<call, done, cycle>> /\ "restart call" \notin done
        BY <2>1 DEF DoctorPassword, Note
    <2>3. {"runtime", "configuration"} \subseteq passed \union failed
        BY <2>1 DEF DoctorPassword
    <2>4. QED
        BY <2>2, <2>3
<1>5. CASE \E ok \in BOOLEAN : DoctorStateDirectory(ok)
    <2>1. PICK ok \in BOOLEAN : DoctorStateDirectory(ok)
        BY <1>5
    <2>2. /\ passed \subseteq passed' /\ failed \subseteq failed' /\ pc' = "doctor pings"
          /\ command = "doctor" /\ UNCHANGED <<call, cycle>> /\ "restart call" \notin done'
        BY <2>1 DEF DoctorStateDirectory, Note
    <2>3. {"runtime", "configuration"} \subseteq passed \union failed
        BY <2>1 DEF DoctorStateDirectory
    <2>4. QED
        BY <2>2, <2>3
<1>6. CASE \E ok \in BOOLEAN : DoctorApi(ok)
    <2>1. PICK ok \in BOOLEAN : DoctorApi(ok)
        BY <1>6
    <2>2. /\ passed \subseteq passed' /\ failed \subseteq failed' /\ pc' = "doctor report"
          /\ command = "doctor" /\ UNCHANGED <<call, cycle>> /\ "restart call" \notin done'
          /\ "PLC API" \in passed' \union failed'
        BY <2>1 DEF DoctorApi, Note, Passing
    <2>3. {"runtime", "configuration", "gateway", "device"} \subseteq passed \union failed
        BY <2>1 DEF DoctorApi
    <2>4. QED
        BY <2>2, <2>3
<1>7. CASE \E one, other \in BOOLEAN : CheckHosts(one, other)
    <2>1. PICK one \in BOOLEAN, other \in BOOLEAN : CheckHosts(one, other)
        BY <1>7
    <2>2. /\ pc' = "exited" /\ command = "check-config" /\ code' \in {0, 2}
          /\ code' = 0 => {"gateway", "device"} \subseteq passed' /\ failed' = {}
          /\ UNCHANGED <<call, cycle>>
        BY <2>1, CodesDiffer DEF CheckHosts, Pings, Note, Passing
    <2>3. Required' = {"gateway", "device"}
        BY <2>2 DEF Required, Healthchecks
    <2>4. QED
        BY <2>2, <2>3 DEF Once
<1>8. CASE \E one, other \in BOOLEAN : DoctorPings(one, other)
    <2>1. PICK one \in BOOLEAN, other \in BOOLEAN : DoctorPings(one, other)
        BY <1>8
    <2>2. /\ passed \subseteq passed' /\ failed \subseteq failed' /\ pc' = "doctor API"
          /\ command = "doctor" /\ UNCHANGED <<call, cycle>> /\ "restart call" \notin done'
          /\ {"gateway", "device"} \subseteq passed' \union failed'
        BY <2>1 DEF DoctorPings, Pings, Note, Passing
    <2>3. {"runtime", "configuration"} \subseteq passed \union failed
        BY <2>1 DEF DoctorPings
    <2>4. QED
        BY <2>2, <2>3
<1>9. CASE \E one, other \in BOOLEAN : Discover(one, other)
    <2>1. PICK one \in BOOLEAN, other \in BOOLEAN : Discover(one, other)
        BY <1>9
    <2>2. /\ pc' = "exited" /\ command = "discover" /\ code' \in {0, 2}
          /\ code' = 0 => "device" \in passed' /\ failed' = {}
          /\ UNCHANGED <<call, cycle>>
        BY <2>1, CodesDiffer DEF Discover, Note, Passing
    <2>3. Required' = {"device"}
        BY <2>2 DEF Required, Healthchecks
    <2>4. QED
        BY <2>2, <2>3 DEF Once
<1>10. CASE DoctorReport
    <2>1. /\ pc' = "exited" /\ command = "doctor" /\ code' \in {0, 1}
          /\ code' = 0 => failed = {}
          /\ UNCHANGED <<call, checks, cycle>>
        BY <1>10, CodesDiffer DEF DoctorReport
    <2>2. failed = {} => {"runtime", "configuration", "gateway", "device", "PLC API"}
                             \subseteq passed
        BY <1>10 DEF DoctorReport
    <2>3. Required' = {"runtime", "configuration", "gateway", "device", "PLC API"}
        BY <2>1 DEF Required, Healthchecks
    <2>4. QED
        BY <2>1, <2>2, <2>3 DEF Once
<1>11. CASE \E upload, download \in Rates \union {NoRate} : TakeSample(upload, download)
    BY <1>11 DEF TakeSample
<1>12. CASE FinishCalibration
    <2> DEFINE n == Valid(up)
    <2>1. /\ Valid(up)' = n /\ Valid(down)' = n /\ n \in Nat
        BY <1>12, NumberedFinite DEF FinishCalibration, Valid, CountIn, Numbered, samples,
                                     SamplesInv
    <2>2. /\ pc' = "exited" /\ command = "calibrate" /\ code' = (IF n = 0 THEN 1 ELSE 0)
          /\ failed = {} /\ UNCHANGED <<call, checks, cycle>>
        BY <1>12 DEF FinishCalibration
    <2>3. code' = 0 => Valid(up)' > 0 /\ Valid(down)' > 0
        <3>1. code' = 0 => n > 0
            BY <2>1, <2>2, ZeroMeansSome, Zenon
        <3>2. QED
            BY <2>1, <3>1, Zenon
    <2>4. Required' = {} /\ code' \in {0, 1}
        BY <2>2 DEF Required, Healthchecks
    <2>5. QED
        BY <2>2, <2>3, <2>4, CodesDiffer DEF Once
<1>13. QED
    BY <1>1, <1>2, <1>3, <1>4, <1>5, <1>6, <1>7, <1>8, <1>9, <1>10, <1>11, <1>12

(* What the exit codes say is so, for every command, environment and answer. *)
THEOREM ExitCodesTell == Spec => []ExitCodeTells
<1>1. ASSUME ExitInv, UNCHANGED vars
      PROVE  ChecksInv' /\ ExitCodeTells'
    BY <1>1 DEF ExitInv, vars, checks, cycle, samples, ChecksInv, ExitCodeTells, Exited, command,
                DoctorSteps, Valid, CountIn, Numbered, Required, Once
<1>2. CommandsInv /\ ExitInv /\ [Next]_vars => ExitInv'
    <2> SUFFICES ASSUME CommandsInv, ExitInv, [Next]_vars PROVE ExitInv'
        OBVIOUS
    <2>1. SamplesInv'
        BY SamplesKeep DEF ExitInv
    <2>2. ChecksInv' /\ ExitCodeTells'
        BY <1>1, ExitsOfRuns, ExitsOfChecks DEF Next, ExitInv, CommandsInv, StepInv
    <2>3. QED
        BY <2>1, <2>2 DEF ExitInv
<1>3. ExitInv => ExitCodeTells
    BY DEF ExitInv
<1>4. QED
    BY InitExit, <1>2, <1>3, CommandsInvariant, PTL DEF Spec
-----------------------------------------------------------------------------
(* The recommended thresholds.                                              *)

LEMMA LeastElement ==
    ASSUME NEW S \in SUBSET Nat, S # {}
    PROVE  \E m \in S : \A n \in S : m <= n
<1> DEFINE Less == {x \in Nat \X Nat : x[1] < x[2]}
<1>1. IsWellFoundedOn(Less, Nat)
    BY NatLessThanWellFounded, Zenon DEF OpToRel
<1> HIDE DEF Less
<1>2. PICK m \in S : \A n \in S : ~(<<n, m>> \in Less)
    BY <1>1, WFMin, Zenon
<1>3. ASSUME NEW n \in S
      PROVE  m <= n
    <2>1. m \in Nat /\ n \in Nat /\ <<n, m>> \notin Less
        BY <1>2
    <2>2. QED
        BY <2>1 DEF Less
<1>4. QED
    BY <1>3

LEMMA FiniteIsBounded ==
    ASSUME NEW S \in SUBSET Nat, IsFiniteSet(S)
    PROVE  \E bound \in Nat : \A n \in S : n <= bound
<1> DEFINE Bounded(T) == \E bound \in Nat : \A n \in T : n <= bound
           unbounded  == {T \in SUBSET S : ~Bounded(T)}
<1>1. SUFFICES ASSUME unbounded # {} PROVE FALSE
    OBVIOUS
<1>2. unbounded \subseteq FiniteSubsetsOf(S)
    BY FS_Subset DEF FiniteSubsetsOf
<1>3. PICK T \in unbounded : \A U \in unbounded : ~(<<U, T>> \in StrictSubsetOrdering(S))
    BY <1>1, <1>2, FS_StrictSubsetOrderingWellFounded, WFMin
<1>4. PICK x \in T : TRUE
    BY <1>3
<1>5. Bounded(T \ {x})
    <2>1. T \ {x} \in SUBSET S /\ T \ {x} \subseteq T /\ T \ {x} # T
        BY <1>3, <1>4
    <2>2. <<T \ {x}, T>> \in StrictSubsetOrdering(S)
        BY <1>3, <2>1 DEF StrictSubsetOrdering
    <2>3. QED
        BY <1>3, <2>1, <2>2
<1>6. PICK b \in Nat : \A n \in T \ {x} : n <= b
    BY <1>5
<1>7. \A n \in T : n <= b + x
    BY <1>3, <1>4, <1>6
<1>8. b + x \in Nat
    BY <1>3, <1>4
<1>9. QED
    BY <1>3, <1>7, <1>8

(* There is a sample at each rank. *)
LEMMA RankedIsThere ==
    ASSUME NEW rates, NEW k \in Nat, k < Valid(rates)
    PROVE  /\ Ranked(rates, k) \in Rates
           /\ CountIn(rates, {s \in Rates : s < Ranked(rates, k)}) <= k
<1> DEFINE Upto(n)   == {s \in Rates : s <= n}
           Before(n) == {s \in Rates : s < n}
           enough    == {n \in Nat : CountIn(rates, Upto(n)) > k}
<1>1. Rates \subseteq Nat /\ IsFiniteSet(Rates)
    BY CommandsAssumption
<1>2. PICK b \in Nat : \A r \in Rates : r <= b
    BY <1>1, FiniteIsBounded
<1>3. Upto(b) = Rates
    BY <1>2
<1>4. b \in enough
    BY <1>3 DEF Valid
<1>5. PICK m \in enough : \A n \in enough : m <= n
    BY <1>4, LeastElement
<1>6. CountIn(rates, Before(m)) <= k
    <2>1. CASE m = 0
        <3>1. Before(m) = {}
            <4>1. \A s \in Rates : ~(s < m)
                BY <1>1, <2>1
            <4>2. QED
                BY <4>1
        <3>2. CountIn(rates, {}) = 0
            <4>1. Numbered(rates, {}) = {}
                BY DEF Numbered
            <4>2. QED
                BY <4>1, FS_EmptySet DEF CountIn
        <3>3. QED
            BY <3>1, <3>2
    <2>2. CASE m # 0
        <3>1. m - 1 \in Nat /\ m - 1 \notin enough
            BY <1>5, <2>2
        <3>2. Upto(m - 1) = Before(m)
            <4>1. \A s \in Rates : s <= m - 1 <=> s < m
                BY <1>1, <1>5
            <4>2. QED
                BY <4>1, Zenon
        <3>3. CountIn(rates, Upto(m - 1)) \in Nat
            BY NumberedFinite
        <3>4. QED
            BY <3>1, <3>2, <3>3
    <2>3. QED
        BY <2>1, <2>2
<1>7. m \in Rates
    <2>1. SUFFICES ASSUME m \notin Rates PROVE FALSE
        OBVIOUS
    <2>2. Upto(m) = Before(m)
        <3>1. \A s \in Rates : s <= m <=> s < m
            BY <1>1, <1>5, <2>1
        <3>2. QED
            BY <3>1, Zenon
    <2>3. CountIn(rates, Upto(m)) \in Nat /\ CountIn(rates, Upto(m)) > k
        BY <1>5, NumberedFinite
    <2>4. QED
        BY <1>6, <2>2, <2>3
<1>8. QED
    BY <1>5, <1>6, <1>7 DEF Ranked

(* A recommended threshold is above 0 and not above the sample it is made   *)
(* from.                                                                    *)
LEMMA RecommendedIsBelow ==
    ASSUME NEW q \in Nat, q >= 10
    PROVE  /\ (q * 7 + 50) \div 100 > 0
           /\ 10 * ((q * 7 + 50) \div 100) <= q
OBVIOUS

(* At most a tenth of the samples lie below a recommended threshold, which  *)
(* is one that Settings accepts, for rates of at least 0.1 Mbit/s.          *)
THEOREM ThresholdsFit ==
    ASSUME \A r \in Rates : r >= 10
    PROVE  Spec => []CalibrationFits
<1>1. ASSUME NEW rates, Valid(rates) > 0
      PROVE  /\ Recommended(rates) > 0
             /\ 10 * CountIn(rates, {r \in Rates : r < 10 * Recommended(rates)}) <= Valid(rates)
    <2> DEFINE n == Valid(rates)
               q == Ranked(rates, Rank(n))
               below == {r \in Rates : r < 10 * Recommended(rates)}
               before == {r \in Rates : r < q}
    <2>1. n \in Nat
        BY NumberedFinite DEF Valid
    <2>2. Rank(n) \in Nat /\ Rank(n) < n /\ 10 * Rank(n) <= n
        BY <1>1, <2>1 DEF Rank
    <2>3. q \in Rates /\ CountIn(rates, before) <= Rank(n)
        BY <2>2, RankedIsThere
    <2>4. q \in Nat /\ q >= 10
        BY <2>3, CommandsAssumption
    <2>5. Recommended(rates) > 0 /\ 10 * Recommended(rates) <= q /\ Recommended(rates) \in Int
        BY <2>4, RecommendedIsBelow DEF Recommended
    <2>6. below \subseteq before
        <3>1. \A r \in Rates : r < 10 * Recommended(rates) => r < q
            BY <2>4, <2>5, CommandsAssumption
        <3>2. QED
            BY <3>1, Zenon
    <2>7. CountIn(rates, below) <= CountIn(rates, before)
        BY <2>6, CountMonotone
    <2>8. CountIn(rates, below) \in Nat /\ CountIn(rates, before) \in Nat
        BY NumberedFinite
    <2>9. QED
        BY <2>1, <2>2, <2>3, <2>5, <2>7, <2>8
<1>2. ExitCodeTells => CalibrationFits
    BY <1>1 DEF ExitCodeTells, CalibrationFits
<1>3. QED
    BY <1>2, ExitCodesTell, PTL
-----------------------------------------------------------------------------
(* The ports.                                                               *)

(* Induction up to n, for a set of numbers. *)
LEMMA UpTo ==
    ASSUME NEW n \in Nat, NEW T, 0 \in T, \A k \in 0 .. (n - 1) : k \in T => k + 1 \in T
    PROVE  0 .. n \subseteq T
<1> DEFINE missing == {k \in 0 .. n : k \notin T}
<1>1. SUFFICES ASSUME missing # {} PROVE FALSE
    OBVIOUS
<1>2. missing \subseteq Nat
    OBVIOUS
<1>3. PICK m \in missing : \A k \in missing : m <= k
    BY <1>1, <1>2, LeastElement
<1>4. m # 0 /\ m - 1 \in 0 .. (n - 1) /\ m - 1 \notin missing
    BY <1>3
<1>5. m - 1 \in T /\ (m - 1) + 1 = m
    BY <1>4
<1>6. QED
    BY <1>3, <1>4, <1>5

(* The parts of a list, put together, are a list. *)
LEMMA FlattenType ==
    ASSUME NEW S, NEW seqs \in Seq(Seq(S))
    PROVE  FlattenSeq(seqs) \in Seq(S)
<1> DEFINE n == Len(seqs)
           Flattens(k, f) == f = [i \in 1 .. k |-> IF i = 1 THEN seqs[i] ELSE f[i - 1] \o seqs[i]]
           there == {k \in Nat : \E f : Flattens(k, f)}
<1>1. n \in Nat /\ \A i \in 1 .. n : seqs[i] \in Seq(S)
    OBVIOUS
<1>2. 0 \in there
    <2>1. Flattens(0, [i \in 1 .. 0 |-> {}])
        OBVIOUS
    <2>2. QED
        BY <2>1
<1>3. ASSUME NEW k \in 0 .. (n - 1), k \in there
      PROVE  k + 1 \in there
    <2>1. PICK f : Flattens(k, f)
        BY <1>3
    <2>2. \A i \in 1 .. k : f[i] = IF i = 1 THEN seqs[i] ELSE f[i - 1] \o seqs[i]
        <3>1. f = [i \in 1 .. k |-> IF i = 1 THEN seqs[i] ELSE f[i - 1] \o seqs[i]]
            BY <2>1
        <3>2. QED
            BY <3>1, Zenon
    <2> DEFINE g == [i \in 1 .. (k + 1) |->
                        IF i <= k THEN f[i] ELSE IF i = 1 THEN seqs[i] ELSE f[i - 1] \o seqs[i]]
    <2>3. ASSUME NEW i \in 1 .. (k + 1)
          PROVE  g[i] = IF i = 1 THEN seqs[i] ELSE g[i - 1] \o seqs[i]
        <3>1. i # 1 => i - 1 \in 1 .. (k + 1) /\ i - 1 <= k
            OBVIOUS
        <3>2. i # 1 => g[i - 1] = f[i - 1]
            BY <3>1
        <3>3. i <= k => f[i] = IF i = 1 THEN seqs[i] ELSE f[i - 1] \o seqs[i]
            BY <2>2
        <3>4. QED
            BY <3>2, <3>3
    <2>4. Flattens(k + 1, g)
        BY <2>3
    <2>5. \E h : Flattens(k + 1, h)
        <3> HIDE DEF g, Flattens
        <3>1. QED
            BY <2>4
    <2>6. k + 1 \in Nat
        BY <1>1
    <2>7. QED
        BY <2>5, <2>6
<1>4. n \in there
    <2> HIDE DEF there
    <2>1. 0 .. n \subseteq there
        BY <1>1, <1>2, <1>3, UpTo
    <2>2. QED
        BY <1>1, <2>1
<1> DEFINE F == CHOOSE f : Flattens(n, f)
<1>5. Flattens(n, F)
    BY <1>4
<1>6. \A i \in 1 .. n : F[i] = IF i = 1 THEN seqs[i] ELSE F[i - 1] \o seqs[i]
    <2> HIDE DEF F
    <2>1. F = [i \in 1 .. n |-> IF i = 1 THEN seqs[i] ELSE F[i - 1] \o seqs[i]]
        BY <1>5
    <2>2. QED
        BY <2>1, Zenon
<1>7. CASE n = 0
    BY <1>7 DEF FlattenSeq
<1>8. CASE n # 0
    <2>1. FlattenSeq(seqs) = F[n]
        BY <1>8 DEF FlattenSeq
    <2> HIDE DEF F
    <2> DEFINE typed == {k \in 0 .. n : k # 0 => F[k] \in Seq(S)}
    <2>2. 0 \in typed
        BY <1>1
    <2>3. ASSUME NEW k \in 0 .. (n - 1), k \in typed
          PROVE  k + 1 \in typed
        <3>1. k + 1 \in 1 .. n /\ seqs[k + 1] \in Seq(S)
            BY <1>1
        <3>2. F[k + 1] = IF k + 1 = 1 THEN seqs[k + 1] ELSE F[k] \o seqs[k + 1]
            BY <1>1, <1>6, <3>1
        <3>3. F[k + 1] \in Seq(S)
            BY <1>1, <2>3, <3>1, <3>2
        <3>4. QED
            BY <1>1, <3>1, <3>3
    <2>4. n \in typed
        <3> HIDE DEF typed
        <3>1. 0 .. n \subseteq typed
            BY <1>1, <2>2, <2>3, UpTo
        <3>2. QED
            BY <1>1, <3>1
    <2>5. QED
        BY <1>8, <2>1, <2>4
<1>9. QED
    BY <1>7, <1>8

(* Without its repetitions a list is a list of the same elements, each at   *)
(* one place.                                                               *)
LEMMA UniqueOnce ==
    ASSUME NEW S, NEW s \in Seq(S)
    PROVE  /\ Unique(s) \in Seq(S)
           /\ IsInjective(Unique(s))
           /\ ToSet(Unique(s)) = ToSet(s)
<1> DEFINE n == Len(s)
           Next1(before, e) == IF e \in ToSet(before) THEN before ELSE Append(before, e)
           Keeps(k, f) == f = [i \in 0 .. k |-> IF i = 0 THEN <<>> ELSE Next1(f[i - 1], s[i])]
           there == {k \in Nat : \E f : Keeps(k, f)}
<1>1. n \in Nat /\ \A i \in 1 .. n : s[i] \in S
    OBVIOUS
<1> HIDE DEF Next1
<1>2. 0 \in there
    <2>1. Keeps(0, [i \in 0 .. 0 |-> <<>>])
        OBVIOUS
    <2>2. QED
        BY <2>1
<1>3. ASSUME NEW k \in 0 .. (n - 1), k \in there
      PROVE  k + 1 \in there
    <2>1. PICK f : Keeps(k, f)
        BY <1>3
    <2>2. \A i \in 0 .. k : f[i] = IF i = 0 THEN <<>> ELSE Next1(f[i - 1], s[i])
        <3>1. f = [i \in 0 .. k |-> IF i = 0 THEN <<>> ELSE Next1(f[i - 1], s[i])]
            BY <2>1
        <3>2. QED
            BY <3>1, Zenon
    <2> DEFINE g == [i \in 0 .. (k + 1) |->
                        IF i <= k THEN f[i] ELSE Next1(f[i - 1], s[i])]
    <2>3. ASSUME NEW i \in 0 .. (k + 1)
          PROVE  g[i] = IF i = 0 THEN <<>> ELSE Next1(g[i - 1], s[i])
        <3>1. i # 0 => i - 1 \in 0 .. (k + 1) /\ i - 1 <= k
            OBVIOUS
        <3>2. i # 0 => g[i - 1] = f[i - 1]
            BY <3>1
        <3>3. i <= k => f[i] = IF i = 0 THEN <<>> ELSE Next1(f[i - 1], s[i])
            BY <2>2
        <3>4. QED
            BY <3>2, <3>3
    <2>4. Keeps(k + 1, g)
        BY <2>3
    <2>5. \E h : Keeps(k + 1, h)
        <3> HIDE DEF g, Keeps
        <3>1. QED
            BY <2>4
    <2>6. k + 1 \in Nat
        BY <1>1
    <2>7. QED
        BY <2>5, <2>6
<1>4. n \in there
    <2> HIDE DEF there
    <2>1. 0 .. n \subseteq there
        BY <1>1, <1>2, <1>3, UpTo
    <2>2. QED
        BY <1>1, <2>1
<1> DEFINE F == CHOOSE f : Keeps(n, f)
<1>5. Keeps(n, F)
    BY <1>4
<1>6. Unique(s) = F[n]
    BY DEF Unique, Next1
<1> HIDE DEF F
<1>7. \A i \in 0 .. n : F[i] = IF i = 0 THEN <<>> ELSE Next1(F[i - 1], s[i])
    <2>1. F = [i \in 0 .. n |-> IF i = 0 THEN <<>> ELSE Next1(F[i - 1], s[i])]
        BY <1>5
    <2>2. QED
        BY <2>1, Zenon
<1> DEFINE Once1(k) == /\ F[k] \in Seq(S)
                       /\ IsInjective(F[k])
                       /\ \A e : e \in ToSet(F[k]) <=> \E i \in 1 .. k : e = s[i]
           good == {k \in 0 .. n : Once1(k)}
<1>8. 0 \in good
    <2>1. F[0] = <<>>
        BY <1>1, <1>7
    <2>2. <<>> \in Seq(S) /\ IsInjective(<<>>)
        BY DEF IsInjective
    <2>3. \A e : e \notin ToSet(<<>>)
        BY DEF ToSet
    <2>4. \A i : i \notin 1 .. 0
        OBVIOUS
    <2>5. 0 \in 0 .. n
        BY <1>1
    <2>6. Once1(0)
        BY <2>1, <2>2, <2>3, <2>4
    <2> HIDE DEF Once1
    <2>7. QED
        BY <2>5, <2>6
<1>9. ASSUME NEW k \in 0 .. (n - 1), k \in good
      PROVE  k + 1 \in good
    <2> DEFINE before == F[k]
               e == s[k + 1]
    <2>1. k + 1 \in 1 .. n /\ k + 1 \in 0 .. n /\ e \in S
        BY <1>1
    <2>2. F[k + 1] = Next1(before, e)
        BY <1>1, <1>7, <2>1
    <2>3. before \in Seq(S) /\ IsInjective(before) /\ \A x : x \in ToSet(before) <=> \E i \in 1 .. k : x = s[i]
        BY <1>9
    <2>4. \A i : i \in 1 .. (k + 1) <=> i \in 1 .. k \/ i = k + 1
        BY <1>1
    <2> HIDE DEF e, before
    <2>5. CASE e \in ToSet(before)
        <3>1. F[k + 1] = before
            BY <2>2, <2>5 DEF Next1
        <3>2. QED
            BY <2>1, <2>3, <2>4, <2>5, <3>1 DEF e
    <2>6. CASE e \notin ToSet(before)
        <3>1. F[k + 1] = Append(before, e)
            BY <2>2, <2>6 DEF Next1
        <3>2. F[k + 1] \in Seq(S)
            BY <2>1, <2>3, <3>1
        <3>3. \A x : x \in ToSet(F[k + 1]) <=> x \in ToSet(before) \/ x = e
            BY <2>1, <2>3, <3>1 DEF ToSet
        <3>4. IsInjective(F[k + 1])
            BY <2>1, <2>3, <2>6, <3>1 DEF IsInjective, ToSet
        <3>5. \A x : x \in ToSet(F[k + 1]) <=> \E i \in 1 .. (k + 1) : x = s[i]
            BY <2>3, <2>4, <3>3 DEF e
        <3>6. QED
            BY <2>1, <3>2, <3>4, <3>5
    <2>7. QED
        BY <2>5, <2>6
<1>10. n \in good
    <2> HIDE DEF good
    <2>1. 0 .. n \subseteq good
        BY <1>1, <1>8, <1>9, UpTo
    <2>2. QED
        BY <1>1, <2>1
<1>11. Once1(n)
    BY <1>10
<1>12. ToSet(F[n]) = ToSet(s)
    <2>1. DOMAIN s = 1 .. n
        OBVIOUS
    <2>2. \A e : e \in ToSet(s) <=> \E i \in 1 .. n : e = s[i]
        BY <2>1, Zenon DEF ToSet
    <2>3. \A e : e \in ToSet(F[n]) <=> e \in ToSet(s)
        BY <1>11, <2>2
    <2>4. QED
        BY <2>3
<1>13. QED
    BY <1>6, <1>11, <1>12

(* An item stands for a list of numbers.                                    *)
LEMMA ItemPortsType ==
    ASSUME NEW item \in Seq(Int)
    PROVE  ItemPorts(item) \in Seq(Int)
<1> DEFINE width == item[2] - item[1] + 1
<1>1. CASE Len(item) = 0 \/ Len(item) = 1
    BY <1>1 DEF ItemPorts
<1>2. CASE Len(item) # 0 /\ Len(item) # 1
    <2>1. Len(item) \in Nat /\ item[1] \in Int /\ item[2] \in Int
        <3> DEFINE length == Len(item)
        <3>1. length \in Nat /\ length # 0 /\ length # 1
            BY <1>2
        <3>2. length \in Nat /\ length >= 2
            <4> HIDE DEF length
            <4>1. QED
                BY <3>1
        <3>3. 1 \in 1 .. Len(item) /\ 2 \in 1 .. Len(item)
            BY <3>2
        <3>4. QED
            BY <3>2, <3>3
    <2>2. ItemPorts(item) = [i \in 1 .. width |-> item[1] + i - 1]
        BY <1>2, <2>1 DEF ItemPorts
    <2>3. width \in Int
        BY <2>1
    <2>4. CASE width >= 0
        BY <2>1, <2>2, <2>3, <2>4
    <2>5. CASE width < 0
        <3>1. 1 .. width = 1 .. 0
            BY <2>3, <2>5
        <3>2. ItemPorts(item) = [i \in 1 .. 0 |-> item[1] + i - 1]
            BY <2>2, <3>1
        <3>3. QED
            BY <2>1, <3>2
    <2>6. QED
        BY <2>3, <2>4, <2>5
<1>3. QED
    BY <1>1, <1>2

(* A list with all its elements in a set.                                   *)
LEMMA ListOf ==
    ASSUME NEW S, NEW T, NEW s \in Seq(S), \A i \in 1 .. Len(s) : s[i] \in T
    PROVE  s \in Seq(T)
OBVIOUS

(* The ports of an accepted configuration are different ports, at least     *)
(* one, and no more are tried than there are.                               *)
LEMMA PortsOfAccepted ==
    ASSUME NEW e, Accepted(e)
    PROVE  /\ Ports(e) \in Seq(1 .. MaxPort)
           /\ IsInjective(Ports(e))
           /\ Tries(e) \in Nat \ {0} /\ Tries(e) <= Len(Ports(e))
           /\ Interval(e) \in Nat \ {0}
<1> DEFINE raw == Get(e, "DW_IPERF_PORTS")
           items == PortItems[raw]
<1>1. /\ raw \in DOMAIN PortItems /\ Ports(e) # <<>>
      /\ ToSet(Ports(e)) \subseteq 1 .. MaxPort
    BY DEF Accepted, PortsAccepted, Ports
<1>2. items \in Seq(Seq(Int))
    BY <1>1, ConfigurationAssumption
<1> HIDE DEF items
<1>3. [i \in DOMAIN items |-> ItemPorts(items[i])] \in Seq(Seq(Int))
    <2>1. Len(items) \in Nat /\ DOMAIN items = 1 .. Len(items)
        BY <1>2
    <2>2. \A i \in DOMAIN items : ItemPorts(items[i]) \in Seq(Int)
        BY <1>2, ItemPortsType
    <2>3. QED
        BY <2>1, <2>2
<1>4. Concatenated(items) \in Seq(Int)
    BY <1>3, FlattenType DEF Concatenated
<1>5. Ports(e) = Unique(Concatenated(items))
    BY DEF Ports, ParsePorts, items
<1>6. Ports(e) \in Seq(Int) /\ IsInjective(Ports(e))
    BY <1>4, <1>5, UniqueOnce
<1>7. Ports(e) \in Seq(1 .. MaxPort)
    <2>1. \A i \in 1 .. Len(Ports(e)) : Ports(e)[i] \in 1 .. MaxPort
        <3>1. \A i \in DOMAIN Ports(e) : Ports(e)[i] \in ToSet(Ports(e))
            BY Zenon DEF ToSet
        <3>2. DOMAIN Ports(e) = 1 .. Len(Ports(e))
            BY <1>6
        <3>3. QED
            BY <1>1, <3>1, <3>2
    <2>2. QED
        BY <1>6, <2>1, ListOf
<1>8. /\ Get(e, "DW_IPERF_TRIES") \in DOMAIN Integer /\ Tries(e) > 0
      /\ Get(e, "DW_INTERVAL_SECONDS") \in DOMAIN Integer /\ Interval(e) > 0
      /\ Tries(e) <= Len(Ports(e))
    BY DEF Accepted, NumbersAccepted, PositiveIntegers, Tries, Interval
<1>9. Tries(e) \in Int /\ Interval(e) \in Int
    BY <1>8, ConfigurationAssumption DEF Tries, Interval
<1>10. QED
    BY <1>6, <1>7, <1>8, <1>9

(* Less than a full turn apart means different ports.                       *)
LEMMA LessThanATurn ==
    ASSUME NEW n \in Nat \ {0}, NEW a \in Nat, NEW b \in Nat, a < b, b < a + n
    PROVE  a % n # b % n
<1>1. a = n * (a \div n) + (a % n) /\ b = n * (b \div n) + (b % n)
    OBVIOUS
<1>2. a \div n \in Int /\ b \div n \in Int /\ a % n \in Int /\ b % n \in Int
    OBVIOUS
<1> DEFINE d == (b \div n) - (a \div n)
<1>3. SUFFICES ASSUME a % n = b % n PROVE FALSE
    OBVIOUS
<1>4. d \in Int /\ b - a = n * d
    BY <1>1, <1>2, <1>3
<1>5. CASE d <= 0
    <2>1. n * d <= 0
        BY <1>4, <1>5
    <2>2. QED
        BY <1>4, <2>1
<1>6. CASE d >= 1
    <2>1. n * d >= n
        BY <1>4, <1>6
    <2>2. QED
        BY <1>4, <2>1
<1>7. QED
    BY <1>4, <1>5, <1>6

(* The place of a port in the list, some places after the first one.        *)
LEMMA PlaceInList ==
    ASSUME NEW n \in Nat \ {0}, NEW a \in Nat
    PROVE  (a % n) + 1 \in 1 .. n
OBVIOUS

(* Time interval * k is in slot k.                                          *)
LEMMA SlotOfTime ==
    ASSUME NEW interval \in Nat \ {0}, NEW count \in Nat, NEW k \in 0 .. (count - 1)
    PROVE  /\ interval * k \in 0 .. (interval * count - 1)
           /\ (interval * k) \div interval = k
           /\ k % count = k
<1>1. interval * k <= interval * (count - 1)
    OBVIOUS
<1>2. interval * (count - 1) = interval * count - interval
    OBVIOUS
<1>3. interval * k \in Nat /\ interval * count \in Nat
    OBVIOUS
<1>4. (interval * k) \div interval = k
    OBVIOUS
<1>5. QED
    BY <1>1, <1>2, <1>3, <1>4

(* Where the ports of a measurement start in the list.                      *)
Start(e, reverse, time) ==
    (time \div Interval(e))
    + (IF reverse /\ Len(Ports(e)) > 1 THEN Len(Ports(e)) \div 2 ELSE 0)

(* A measurement tries ports of the list, none of them twice.               *)
LEMMA CandidatesDiffer ==
    ASSUME NEW e, Accepted(e), NEW reverse \in BOOLEAN, NEW time \in Nat
    PROVE  LET ports == CandidatePorts(e, reverse, time)
               count == Len(Ports(e))
           IN  /\ IsInjective(ports)
               /\ ToSet(ports) \subseteq 1 .. MaxPort
               /\ Start(e, reverse, time) \in Nat
               /\ ports[1] = Ports(e)[(Start(e, reverse, time) % count) + 1]
<1> DEFINE ports == CandidatePorts(e, reverse, time)
           list == Ports(e)
           count == Len(list)
           tries == Tries(e)
           start == Start(e, reverse, time)
<1>1. /\ list \in Seq(1 .. MaxPort) /\ IsInjective(list)
      /\ tries \in Nat \ {0} /\ tries <= count
      /\ Interval(e) \in Nat \ {0}
    BY PortsOfAccepted
<1>2. /\ count \in Nat \ {0} /\ DOMAIN list = 1 .. count
      /\ \A i \in 1 .. count : list[i] \in 1 .. MaxPort
    <2>1. count \in Nat /\ DOMAIN list = 1 .. count
        BY <1>1
    <2>2. \A i \in 1 .. count : list[i] \in 1 .. MaxPort
        <3> DEFINE T == 1 .. MaxPort
        <3>1. list \in Seq(T)
            BY <1>1
        <3> HIDE DEF T, list
        <3>2. \A i \in 1 .. count : list[i] \in T
            BY <3>1
        <3>3. QED
            BY <3>2 DEF T
    <2> HIDE DEF count, list, tries
    <2>3. QED
        BY <1>1, <2>1, <2>2
<1>3. start \in Nat
    <2>1. time \div Interval(e) \in Nat
        BY <1>1
    <2>2. count \div 2 \in Nat
        BY <1>2
    <2>3. QED
        BY <2>1, <2>2 DEF Start
<1>4. ports = [i \in 1 .. tries |-> list[((start + i - 1) % count) + 1]]
    BY Zenon DEF CandidatePorts, Start
<1> HIDE DEF ports, list, count, tries, start
<1>5. DOMAIN ports = 1 .. tries
    BY <1>4
<1>6. ASSUME NEW i \in 1 .. tries
      PROVE  /\ ports[i] = list[((start + i - 1) % count) + 1]
             /\ ((start + i - 1) % count) + 1 \in 1 .. count
    <2>1. start + i - 1 \in Nat
        BY <1>1, <1>3
    <2>2. QED
        BY <1>2, <1>4, <2>1, PlaceInList
<1>7. ASSUME NEW i \in 1 .. tries, NEW j \in 1 .. tries, i < j
      PROVE  ports[i] # ports[j]
    <2> DEFINE a == start + i - 1
               b == start + j - 1
    <2>1. a \in Nat /\ b \in Nat /\ a < b /\ b < a + count
        BY <1>1, <1>2, <1>3, <1>7
    <2>2. a % count # b % count
        <3> HIDE DEF a, b
        <3>1. QED
            BY <1>2, <2>1, LessThanATurn
    <2>3. (a % count) + 1 # (b % count) + 1
        <3> HIDE DEF a, b
        <3>1. a % count \in Int /\ b % count \in Int
            BY <1>2, <2>1
        <3>2. QED
            BY <2>2, <3>1
    <2>4. QED
        BY <1>1, <1>2, <1>6, <2>3 DEF IsInjective
<1>8. IsInjective(ports)
    <2>1. SUFFICES ASSUME NEW i \in 1 .. tries, NEW j \in 1 .. tries, ports[i] = ports[j]
                   PROVE  i = j
        BY <1>5 DEF IsInjective
    <2>2. ~(i < j) /\ ~(j < i)
        BY <1>7, <2>1
    <2>3. i \in Int /\ j \in Int
        BY <1>1
    <2>4. QED
        BY <2>2, <2>3
<1>9. ToSet(ports) \subseteq 1 .. MaxPort
    <2>1. \A i \in 1 .. tries : ports[i] \in 1 .. MaxPort
        BY <1>2, <1>6
    <2>2. QED
        BY <1>5, <2>1 DEF ToSet
<1>10. ports[1] = list[(start % count) + 1]
    <2>1. 1 \in 1 .. tries /\ start + 1 - 1 = start
        BY <1>1, <1>3
    <2>2. QED
        BY <1>6, <2>1
<1>11. QED
    BY <1>3, <1>8, <1>9, <1>10 DEF ports, list, count, start

(* The two directions of a measurement begin with different ports.          *)
LEMMA DirectionsApart ==
    ASSUME NEW e, Accepted(e), NEW time \in Nat, Len(Ports(e)) > 1
    PROVE  CandidatePorts(e, FALSE, time)[1] # CandidatePorts(e, TRUE, time)[1]
<1> DEFINE list == Ports(e)
           count == Len(list)
           slot == time \div Interval(e)
           half == count \div 2
<1>1. /\ list \in Seq(1 .. MaxPort) /\ IsInjective(list)
      /\ Interval(e) \in Nat \ {0}
    BY PortsOfAccepted
<1>2. count \in Nat /\ DOMAIN list = 1 .. count
    BY <1>1
<1>3. slot \in Nat
    BY <1>1
<1>4. Start(e, FALSE, time) = slot /\ Start(e, TRUE, time) = slot + half
    <2>1. Start(e, FALSE, time) = slot + 0 /\ Start(e, TRUE, time) = slot + half
        BY DEF Start
    <2>2. slot + 0 = slot
        <3> HIDE DEF slot
        <3>1. QED
            BY <1>3
    <2>3. QED
        BY <2>1, <2>2, Zenon
<1>5. /\ CandidatePorts(e, FALSE, time)[1] = list[(slot % count) + 1]
      /\ CandidatePorts(e, TRUE, time)[1] = list[((slot + half) % count) + 1]
    BY <1>4, CandidatesDiffer
<1>6. count > 1
    OBVIOUS
<1> HIDE DEF list, count, slot
<1>7. half \in Nat /\ 0 < half /\ half < count
    BY <1>2, <1>6
<1> HIDE DEF half
<1>8. slot % count # (slot + half) % count
    <2>1. count \in Nat \ {0} /\ slot + half \in Nat /\ slot < slot + half /\ slot + half < slot + count
        BY <1>2, <1>3, <1>6, <1>7
    <2>2. QED
        BY <1>3, <2>1, LessThanATurn
<1>9. (slot % count) + 1 \in 1 .. count /\ ((slot + half) % count) + 1 \in 1 .. count
    BY <1>2, <1>3, <1>6, <1>7, PlaceInList
<1>10. slot % count \in Int /\ (slot + half) % count \in Int
    BY <1>2, <1>3, <1>6, <1>7
<1>11. (slot % count) + 1 # ((slot + half) % count) + 1
    BY <1>8, <1>10
<1>12. QED
    BY <1>1, <1>2, <1>5, <1>9, <1>11 DEF IsInjective

(* Every port is the first one at some time of a full turn, and no other    *)
(* number is.                                                               *)
LEMMA EachIsFirst ==
    ASSUME NEW e, Accepted(e)
    PROVE  {CandidatePorts(e, FALSE, time)[1] : time \in 0 .. (Interval(e) * Len(Ports(e)) - 1)}
               = ToSet(Ports(e))
<1> DEFINE list == Ports(e)
           count == Len(list)
           times == 0 .. (Interval(e) * count - 1)
           First(time) == CandidatePorts(e, FALSE, time)[1]
<1>1. /\ list \in Seq(1 .. MaxPort)
      /\ Tries(e) \in Nat \ {0} /\ Tries(e) <= count
      /\ Interval(e) \in Nat \ {0}
    BY PortsOfAccepted
<1>2. count \in Nat /\ DOMAIN list = 1 .. count
    BY <1>1
<1>3. count \in Nat \ {0}
    <2> HIDE DEF count
    <2>1. QED
        BY <1>1, <1>2
<1>4. Interval(e) * count \in Int /\ times \subseteq Nat
    BY <1>1, <1>2
<1>5. ASSUME NEW time \in Nat
      PROVE  First(time) = list[((time \div Interval(e)) % count) + 1]
    <2>1. Start(e, FALSE, time) = time \div Interval(e)
        <3>1. Start(e, FALSE, time) = (time \div Interval(e)) + 0
            BY DEF Start
        <3>2. time \div Interval(e) \in Nat
            BY <1>1
        <3>3. (time \div Interval(e)) + 0 = time \div Interval(e)
            BY <3>2
        <3>4. QED
            BY <3>1, <3>3, Zenon
    <2>2. QED
        BY <2>1, CandidatesDiffer
<1> HIDE DEF First, list, count, times
<1>6. \A time \in times : First(time) \in ToSet(list)
    <2>1. SUFFICES ASSUME NEW time \in times PROVE First(time) \in ToSet(list)
        OBVIOUS
    <2>2. time \in Nat
        BY <1>4
    <2>3. time \div Interval(e) \in Nat
        BY <1>1, <2>2
    <2>4. ((time \div Interval(e)) % count) + 1 \in DOMAIN list
        BY <1>2, <1>3, <2>3, PlaceInList
    <2>5. QED
        BY <1>5, <2>2, <2>4 DEF ToSet
<1>7. ASSUME NEW port \in ToSet(list)
      PROVE  \E time \in times : First(time) = port
    <2>1. PICK i \in 1 .. count : port = list[i]
        BY <1>2 DEF ToSet
    <2>2. i - 1 \in 0 .. (count - 1) /\ (i - 1) + 1 = i
        BY <1>2
    <2> DEFINE k == i - 1
               time == Interval(e) * k
    <2>3. time \in times /\ time \div Interval(e) = k /\ k % count = k
        <3> HIDE DEF k
        <3>1. QED
            BY <1>1, <1>2, <2>2, SlotOfTime DEF times, k
    <2>4. time \in Nat
        BY <1>4, <2>3
    <2> HIDE DEF time
    <2>5. First(time) = list[k + 1]
        BY <1>5, <2>3, <2>4
    <2>6. QED
        BY <2>1, <2>2, <2>3, <2>5
<1>8. {First(time) : time \in times} = ToSet(list)
    BY <1>6, <1>7
<1>9. QED
    BY <1>8 DEF First, list, count, times

(* With any accepted configuration, a measurement tries valid ports, none   *)
(* of them twice in a direction, begins with different ports in the two     *)
(* directions when there are two, and begins with each port in its turn.    *)
THEOREM PortsAreApart == Spec => []PortsApart
<1>1. PortsApart
    <2>1. SUFFICES ASSUME Accepted(env)
                   PROVE  LET count == Len(Ports(env))
                              times == 0 .. (Interval(env) * count - 1)
                          IN  /\ \A time \in times, reverse \in BOOLEAN :
                                     /\ IsInjective(CandidatePorts(env, reverse, time))
                                     /\ ToSet(CandidatePorts(env, reverse, time)) \subseteq 1 .. MaxPort
                              /\ count > 1 => \A time \in times :
                                     CandidatePorts(env, FALSE, time)[1] # CandidatePorts(env, TRUE, time)[1]
                              /\ {CandidatePorts(env, FALSE, time)[1] : time \in times} = ToSet(Ports(env))
        BY DEF PortsApart
    <2> DEFINE count == Len(Ports(env))
               times == 0 .. (Interval(env) * count - 1)
    <2>2. times \subseteq Nat
        OBVIOUS
    <2>3. \A time \in times, reverse \in BOOLEAN :
              /\ IsInjective(CandidatePorts(env, reverse, time))
              /\ ToSet(CandidatePorts(env, reverse, time)) \subseteq 1 .. MaxPort
        BY <2>1, <2>2, CandidatesDiffer
    <2>4. count > 1 => \A time \in times :
              CandidatePorts(env, FALSE, time)[1] # CandidatePorts(env, TRUE, time)[1]
        BY <2>1, <2>2, DirectionsApart
    <2>5. {CandidatePorts(env, FALSE, time)[1] : time \in times} = ToSet(Ports(env))
        BY <2>1, EachIsFirst
    <2>6. QED
        BY <2>3, <2>4, <2>5
<1>2. QED
    BY <1>1, PTL
=============================================================================
