-------------------------- MODULE CommandsProperties --------------------------
(* What an invocation may do and what its exit code says. *)
EXTENDS Commands

Exited == pc = "exited"

(* CONTRIBUTING.md, safety invariant 5, as far as all commands keep it:    *)
(* with a configuration that is not accepted nothing outside the process   *)
(* is touched, the daemon does not run, and the exit code is not 0.  The   *)
(* healthcheck has no use for most of the configuration.                   *)
FailClosed ==
    /\ pc # "start" /\ command \notin Healthchecks
    /\ done # {} \/ pc = "daemon" \/ code = 0
    => Accepted(env)

(* CONTRIBUTING.md, safety invariants 1 and 3: the device is restarted     *)
(* only by the command for it, or by a check that was allowed to under a   *)
(* configuration that says so, and only after the attempt was put down.    *)
(* The alert and the record are for such commands, too.                    *)
ConsentGiven ==
    /\ Accepted(env)
    /\ \/ command = "restart"
       \/ command = "once-allow" /\ Get(env, "DW_ACTION") = "reboot" /\ verdict # "HEALTHY"

RestartNeedsConsent ==
    /\ done \intersect {"record", "alert", "restart call", "mark"} # {} => ConsentGiven
    /\ "restart call" \in done => "record" \in done

(* README.md, Exit Codes: what must hold for a command to exit with 0, and *)
(* what 1 and 3 say of a restart: the device was asked and declined, or it *)
(* was not asked.  A check that was told to stop before it began says 0.   *)
Required ==
    CASE command = "check-config" -> {"gateway", "device"}
      [] command = "doctor"       -> {"runtime", "configuration", "gateway", "device", "PLC API"}
      [] command = "discover"     -> {"device"}
      [] command \in Healthchecks -> {"heartbeat"}
      [] OTHER                    -> {}

ExitCodeTells ==
    Exited =>
        /\ code = 0 => /\ Required \subseteq passed
                       /\ failed = {}
                       /\ command = "restart" => answer = "accepted"
                       /\ command \in Once => verdict \in {"HEALTHY", "none"}
                       /\ command = "calibrate" => Valid(up) > 0 /\ Valid(down) > 0
        /\ command = "restart" /\ code = 1 => answer = "rejected"
        /\ command = "restart" /\ code = 3 => "restart call" \notin done

(* A daemon and the healthcheck beside it read the same environment, each  *)
(* in its own way: what the one accepts the other does, and they agree on  *)
(* the age at which a heartbeat is stale.                                  *)
SameLimit ==
    pc = "configure" /\ Accepted(env) => /\ HealthcheckConfigured(env)
                     /\ HealthcheckMaxAge(env) = EffectiveMaxAge(env)

(* With an accepted configuration a measurement never tries a port twice   *)
(* in a direction, tries valid ports only, and begins with different ports *)
(* in the two directions when there are two; and each port is the first    *)
(* one in some cycle.                                                      *)
PortsApart ==
    pc = "configure" /\ Accepted(env) =>
        LET count == Len(Ports(env))
            times == 0 .. (Interval(env) * count - 1)
        IN  /\ \A time \in times, reverse \in BOOLEAN :
                   /\ IsInjective(CandidatePorts(env, reverse, time))
                   /\ ToSet(CandidatePorts(env, reverse, time)) \subseteq 1 .. MaxPort
            /\ count > 1 => \A time \in times :
                   CandidatePorts(env, FALSE, time)[1] # CandidatePorts(env, TRUE, time)[1]
            /\ {CandidatePorts(env, FALSE, time)[1] : time \in times} = ToSet(Ports(env))

(* calibrate recommends thresholds under which at most a tenth of its      *)
(* samples lie, in either direction, and which Settings accepts, as long   *)
(* as no rate is below 0.1 Mbit/s.                                         *)
CalibrationFits ==
    command = "calibrate" /\ Exited /\ code = 0 =>
        \A rates \in {up, down} :
            /\ Recommended(rates) > 0
            /\ 10 * CountIn(rates, {r \in Rates : r < 10 * Recommended(rates)}) <= Valid(rates)

(* README.md, Exit Codes: an invalid configuration, as far as the command  *)
(* reads it, is told by 3.                                                 *)
Misconfigured == IF command = "healthcheck" THEN ~HealthcheckConfigured(env) ELSE ~Accepted(env)

InvalidConfigurationExits3 ==
    Exited /\ command # "healthcheck-age" /\ Misconfigured => code = 3
=============================================================================
