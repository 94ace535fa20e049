------------------------------- MODULE Commands -------------------------------
(***************************************************************************)
(* The command line (__main__.py): one invocation, from the environment it *)
(* finds to its exit code, with everything it does to the network, the     *)
(* device and the file system on the way.  What the hosts, the device and  *)
(* the files answer is free at every step.                                 *)
(*                                                                         *)
(* `run` without --once is handed over to module Watchdog once the         *)
(* configuration is accepted.  The cycle of `run --once` is one step here: *)
(* its measurement is module Measurement's, its verdict and decision are   *)
(* module Policy's.                                                        *)
(***************************************************************************)
EXTENDS Configuration, FiniteSets

CONSTANTS
    Scenarios,   \* the invocations: the command, the environment of the
                 \* process, and what the environment file holds
    Samples,     \* calibrate --samples
    Rates        \* the rates a calibration may measure, in 0.01 Mbit/s

Healthchecks == {"healthcheck", "healthcheck-age"}  \* without and with --max-age-seconds

Once == {"once", "once-allow"}                      \* without and with --allow-action

Command == Healthchecks \union Once \union
           {"run", "check-config", "doctor", "discover", "restart", "calibrate"}

(* What the parser and _positive_int accept, and what iperf3 reports. *)
ASSUME CommandsAssumption ==
    /\ Scenarios \subseteq [command : Command, process : [Variables -> STRING],
                            file : [Variables -> STRING]]
    /\ Samples \in Nat \ {0}
    /\ Rates \subseteq Nat /\ IsFiniteSet(Rates)

VARIABLES
    call,      \* the invocation
    env,       \* os.environ
    pc,        \* what comes next; "exited", or "daemon" when `run` took over
    code,      \* the exit code; Running before there is one
    passed,    \* the checks that passed
    failed,    \* those that failed
    done,      \* what was done outside the process
    verdict,   \* the status of the cycle of `run --once`
    asked,     \* whether that cycle asks for a restart
    answer,    \* what became of the restart request
    taken,     \* the calibration samples taken
    up, down   \* the valid ones: how many there are of each rate

checks  == <<passed, failed>>
cycle   == <<verdict, asked>>
samples == <<taken, up, down>>
vars    == <<call, env, pc, code, checks, done, cycle, answer, samples>>

Running == -1
NoRate  == -1

command == call.command

Effect == {"ping", "measure", "PLC query", "write test", "heartbeat", "save", "status alert",
           "record", "alert", "restart call", "mark"}

Check == {"runtime", "configuration", "password", "state directory", "gateway", "device",
          "PLC API", "heartbeat"}

Answer == {"none", "unsaved", "accepted", "rejected", "error", "unreached", "unavailable"}

Verdict == {"HEALTHY", "DEGRADED", "UNAVAILABLE", "MISCONFIGURED"}

(* The types of the variables. *)
TypeOK ==
    /\ call \in Scenarios
    /\ env \in [Variables -> STRING]
    /\ code \in Running .. 3
    /\ passed \subseteq Check /\ failed \subseteq Check
    /\ done \subseteq Effect
    /\ verdict \in Verdict \union {"none"}
    /\ asked \in BOOLEAN
    /\ answer \in Answer
    /\ taken \in 0 .. Samples
    /\ up \in [Rates -> Nat] /\ down \in [Rates -> Nat]

Goto(label) == pc' = label /\ code' = code

Exit(c) == pc' = "exited" /\ code' = c

Passing(results) == {c \in DOMAIN results : results[c]}

(* Takes down the outcomes of some checks. *)
Note(results) ==
    /\ passed' = passed \union Passing(results)
    /\ failed' = failed \union (DOMAIN results \ Passing(results))

HasPassword  == Given(env, "DW_PASSWORD_FILE")
HasStateFile == Given(env, "DW_STATE_FILE")
HasHeartbeat == Given(env, "DW_HEARTBEAT_FILE")
HasNtfy      == Given(env, "DW_NTFY_URL")

(* read_password: without a file there is nothing that could fail. *)
PasswordResults == IF HasPassword THEN BOOLEAN ELSE {TRUE}

-----------------------------------------------------------------------------
(* main.                                                                   *)

(* The environment file is loaded when it can be read. *)
LoadEnvironment(readable) ==
    /\ pc = "start"
    /\ env' = LoadEnvFile(call.process, IF readable THEN call.file ELSE Empty)
    /\ Goto("configure")
    /\ UNCHANGED <<call, checks, done, cycle, answer, samples>>

StartHealthcheck ==
    /\ pc = "configure"
    /\ command \in Healthchecks
    /\ Goto("healthcheck")
    /\ UNCHANGED <<call, env, checks, done, cycle, answer, samples>>

(* Faulty: doctor goes on to its pings. *)
RejectConfigurationOpen ==
    /\ pc = "configure"
    /\ command \notin Healthchecks
    /\ ~Accepted(env)
    /\ IF command = "doctor" THEN Goto("doctor pings") ELSE Exit(3)
    /\ UNCHANGED <<call, env, checks, done, cycle, answer, samples>>

(* doctor goes on, to report this among its checks. *)
RejectConfiguration ==
    /\ pc = "configure"
    /\ command \notin Healthchecks
    /\ ~Accepted(env)
    /\ IF command = "doctor" THEN Goto("doctor") ELSE Exit(3)
    /\ UNCHANGED <<call, env, checks, done, cycle, answer, samples>>

FirstStep ==
    CASE command = "run"          -> "daemon"
      [] command \in Once         -> "cycle"
      [] command = "check-config" -> "password"
      [] command = "restart"      -> "record"
      [] OTHER                    -> command

(* _run_configured_command *)
Dispatch ==
    /\ pc = "configure"
    /\ command \notin Healthchecks
    /\ Accepted(env)
    /\ Goto(FirstStep)
    /\ UNCHANGED <<call, env, checks, done, cycle, answer, samples>>

-----------------------------------------------------------------------------
(* run --once and restart.                                                 *)

(* A signal that arrives before the loop begins: no cycle is run. *)
StopBeforeCycle ==
    /\ pc = "cycle"
    /\ Exit(0)
    /\ UNCHANGED <<call, env, checks, done, cycle, answer, samples>>

(* The cycle, up to the decision.  A restart is asked for only with        *)
(* DW_ACTION=reboot, and never by a healthy cycle.  Whether an alert of    *)
(* degradation or recovery is due depends on the state that was loaded; in *)
(* a dry run it is sent as well.                                           *)
RunCycle(status, reboot, due) ==
    /\ pc = "cycle"
    /\ reboot => Get(env, "DW_ACTION") = "reboot" /\ status # "HEALTHY"
    /\ verdict' = status
    /\ asked' = reboot
    /\ done' = done \union {"measure", "save"}
                    \union (IF HasHeartbeat THEN {"heartbeat"} ELSE {})
                    \union (IF due /\ HasNtfy THEN {"status alert"} ELSE {})
    /\ Goto("act")
    /\ UNCHANGED <<call, env, checks, answer, samples>>

(* _once_exit_code *)
OnceExitCode ==
    CASE verdict = "HEALTHY"  -> 0
      [] verdict = "DEGRADED" -> 1
      [] OTHER                -> 2

(* Faulty: --allow-action is not asked for. *)
HandleActionAlways ==
    /\ pc = "act"
    /\ IF asked THEN Goto("record") ELSE Exit(OnceExitCode)
    /\ UNCHANGED <<call, env, checks, done, cycle, answer, samples>>

(* _handle_action *)
HandleAction ==
    /\ pc = "act"
    /\ IF asked /\ command = "once-allow" THEN Goto("record") ELSE Exit(OnceExitCode)
    /\ UNCHANGED <<call, env, checks, done, cycle, answer, samples>>

RestartExitCode(outcome) ==
    CASE outcome = "accepted"    -> 0
      [] outcome = "rejected"    -> 1
      [] outcome = "unavailable" -> 3
      [] OTHER                   -> 2

(* Both commands end with the outcome of the request, which only restart's *)
(* exit code is about.                                                     *)
EndRequest(outcome) ==
    /\ answer' = outcome
    /\ Exit(IF command = "restart" THEN RestartExitCode(outcome) ELSE OnceExitCode)

(* request_restart, up to the alert it sends; without a state file the     *)
(* save succeeds and is of no effect beyond the process.                   *)
RecordRequest(saved) ==
    /\ pc = "record"
    /\ ~HasStateFile => saved
    /\ IF saved THEN answer' = answer /\ Goto("call") ELSE EndRequest("unsaved")
    /\ done' = IF saved THEN done \union {"record"} \union (IF HasNtfy THEN {"alert"} ELSE {})
                        ELSE done
    /\ UNCHANGED <<call, env, checks, cycle, samples>>

(* restart_devolo: the password is read before the device is reached, and  *)
(* an error is raised before or after the request went out.                *)
RequestRestart(outcome) ==
    /\ pc = "call"
    /\ outcome \in {"accepted", "rejected", "error", "unreached"}
          \union (IF HasPassword THEN {"unavailable"} ELSE {})
    /\ EndRequest(outcome)
    /\ done' = done \union (IF outcome \in {"unreached", "unavailable"} THEN {}
                                                                       ELSE {"restart call"})
                    \union (IF outcome = "accepted" THEN {"mark"} ELSE {})
    /\ UNCHANGED <<call, env, checks, cycle, samples>>

-----------------------------------------------------------------------------
(* run --check-config, doctor and discover.                                *)

CheckPassword(ok) ==
    /\ pc = "password"
    /\ ok \in PasswordResults
    /\ Note([c \in {"password"} |-> ok])
    /\ IF ok THEN Goto("pings") ELSE Exit(3)
    /\ UNCHANGED <<call, env, done, cycle, answer, samples>>

Pings(gateway, device) ==
    Note([c \in {"gateway", "device"} |-> IF c = "gateway" THEN gateway ELSE device])

(* Faulty: the device is not looked at. *)
CheckHostsGateway(gateway, device) ==
    /\ pc = "pings"
    /\ Pings(gateway, device)
    /\ done' = done \union {"ping"}
    /\ Exit(IF gateway THEN 0 ELSE 2)
    /\ UNCHANGED <<call, env, cycle, answer, samples>>

CheckHosts(gateway, device) ==
    /\ pc = "pings"
    /\ Pings(gateway, device)
    /\ done' = done \union {"ping"}
    /\ Exit(IF gateway /\ device THEN 0 ELSE 2)
    /\ UNCHANGED <<call, env, cycle, answer, samples>>

(* The interpreter, iperf3 and ping, then the configuration. *)
DoctorRuntime(ok) ==
    /\ pc = "doctor"
    /\ Note([c \in {"runtime", "configuration"} |->
                 IF c = "runtime" THEN ok ELSE Accepted(env)])
    /\ Goto(IF Accepted(env) THEN "doctor password" ELSE "doctor report")
    /\ UNCHANGED <<call, env, done, cycle, answer, samples>>

DoctorPassword(ok) ==
    /\ pc = "doctor password"
    /\ ok \in PasswordResults
    /\ Note([c \in (IF HasPassword THEN {"password"} ELSE {}) |-> ok])
    /\ Goto("doctor state")
    /\ UNCHANGED <<call, env, done, cycle, answer, samples>>

DoctorStateDirectory(ok) ==
    /\ pc = "doctor state"
    /\ Note([c \in (IF HasStateFile THEN {"state directory"} ELSE {}) |-> ok])
    /\ done' = IF HasStateFile THEN done \union {"write test"} ELSE done
    /\ Goto("doctor pings")
    /\ UNCHANGED <<call, env, cycle, answer, samples>>

DoctorPings(gateway, device) ==
    /\ pc = "doctor pings"
    /\ Pings(gateway, device)
    /\ done' = done \union {"ping"}
    /\ Goto("doctor API")
    /\ UNCHANGED <<call, env, cycle, answer, samples>>

(* With an unreadable password the device is not asked, which counts as    *)
(* a failure.                                                              *)
DoctorApi(ok) ==
    /\ pc = "doctor API"
    /\ ok => "password" \notin failed
    /\ Note([c \in {"PLC API"} |-> ok])
    /\ done' = IF "password" \in failed THEN done ELSE done \union {"PLC query"}
    /\ Goto("doctor report")
    /\ UNCHANGED <<call, env, cycle, answer, samples>>

(* _render_doctor_results *)
DoctorReport ==
    /\ pc = "doctor report"
    /\ Exit(IF failed = {} THEN 0 ELSE 1)
    /\ UNCHANGED <<call, env, checks, done, cycle, answer, samples>>

(* A topology that cannot be read is an entry of the report, not a failure. *)
Discover(ok, reached) ==
    /\ pc = "discover"
    /\ ok \in PasswordResults
    /\ reached => ok
    /\ Note([c \in {"password", "device"} |-> IF c = "password" THEN ok ELSE reached])
    /\ done' = IF ok THEN done \union {"PLC query"} ELSE done
    /\ Exit(IF reached THEN 0 ELSE 2)
    /\ UNCHANGED <<call, env, cycle, answer, samples>>

-----------------------------------------------------------------------------
(* calibrate and healthcheck.                                              *)

(* A sample counts when there is a rate for both directions. *)
TakeSample(upload, download) ==
    /\ pc = "calibrate"
    /\ taken < Samples
    /\ taken' = taken + 1
    /\ IF NoRate \in {upload, download}
       THEN UNCHANGED <<up, down>>
       ELSE /\ up' = [up EXCEPT ![upload] = @ + 1]
            /\ down' = [down EXCEPT ![download] = @ + 1]
    /\ done' = done \union {"measure"}
    /\ Goto("calibrate")
    /\ UNCHANGED <<call, env, checks, cycle, answer>>

(* The samples with a rate in S, those of one rate numbered. *)
Numbered(rates, S) == {x \in S \X (1 .. Samples) : x[2] <= rates[x[1]]}

CountIn(rates, S) == Cardinality(Numbered(rates, S))

Valid(rates) == CountIn(rates, Rates)

(* Faulty: the median. *)
RankMedian(n) == n \div 2

(* The tenth of the samples that may lie below. *)
Rank(n) == n \div 10

(* The sample at a rank, counted from 0, in ascending order. *)
Ranked(rates, k) ==
    CHOOSE r \in Rates : /\ CountIn(rates, {s \in Rates : s < r}) <= k
                         /\ CountIn(rates, {s \in Rates : s <= r}) > k

(* The threshold recommended: 0.7 of that sample, in 0.1 Mbit/s. *)
Recommended(rates) == (Ranked(rates, Rank(Valid(rates))) * 7 + 50) \div 100

FinishCalibration ==
    /\ pc = "calibrate"
    /\ taken = Samples
    /\ Exit(IF Valid(up) = 0 THEN 1 ELSE 0)
    /\ UNCHANGED <<call, env, checks, done, cycle, answer, samples>>

(* _run_healthcheck; what makes a heartbeat fresh is module Timekeeping's. *)
CheckHeartbeat(fresh) ==
    /\ pc = "healthcheck"
    /\ IF command = "healthcheck-age" \/ HealthcheckConfigured(env)
       THEN Note([c \in {"heartbeat"} |-> fresh]) /\ Exit(IF fresh THEN 0 ELSE 1)
       ELSE UNCHANGED checks /\ Exit(2)
    /\ UNCHANGED <<call, env, done, cycle, answer, samples>>

-----------------------------------------------------------------------------
Init ==
    /\ call \in Scenarios
    /\ env = call.process
    /\ pc = "start"
    /\ code = Running
    /\ passed = {} /\ failed = {}
    /\ done = {}
    /\ verdict = "none" /\ asked = FALSE
    /\ answer = "none"
    /\ taken = 0
    /\ up = [r \in Rates |-> 0] /\ down = [r \in Rates |-> 0]

Next ==
    \/ \E ok \in BOOLEAN :
           \/ LoadEnvironment(ok) \/ RecordRequest(ok)
           \/ CheckPassword(ok) \/ CheckHeartbeat(ok)
           \/ DoctorRuntime(ok) \/ DoctorPassword(ok) \/ DoctorStateDirectory(ok) \/ DoctorApi(ok)
    \/ \E one, other \in BOOLEAN :
           CheckHosts(one, other) \/ DoctorPings(one, other) \/ Discover(one, other)
    \/ StartHealthcheck \/ RejectConfiguration \/ Dispatch
    \/ StopBeforeCycle
    \/ \E status \in Verdict, reboot, due \in BOOLEAN : RunCycle(status, reboot, due)
    \/ HandleAction
    \/ \E outcome \in Answer : RequestRestart(outcome)
    \/ DoctorReport
    \/ \E upload, download \in Rates \union {NoRate} : TakeSample(upload, download)
    \/ FinishCalibration

Spec == Init /\ [][Next]_vars
=============================================================================
