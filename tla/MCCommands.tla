------------------------------ MODULE MCCommands ------------------------------
(* Texts, defaults and invocations for the configurations of Commands. *)
EXTENDS CommandsProperties

MCInteger == ("-1" :> -1) @@ ("0" :> 0) @@ ("1" :> 1) @@ ("2" :> 2) @@ ("3" :> 3)
             @@ ("4" :> 4) @@ ("10" :> 10)

MCOtherNumber == ("-0.5" :> 0) @@ ("0.5" :> 1) @@ ("4.5" :> 5)

MCPortItems == ("5-7" :> <<<<5, 7>>>>) @@ ("9,7-9" :> <<<<9>>, <<7, 9>>>>)
               @@ ("8,,8" :> <<<<8>>, <<>>, <<8>>>>) @@ ("7-5" :> <<<<7, 5>>>>)
               @@ ("8-10" :> <<<<8, 10>>>>) @@ ("5-x" :> <<<<5, NoDigits>>>>)
               @@ (" " :> <<<<>>>>)

MCDefault ==
    [v \in Variables \ (RequiredRates \union RequiredHosts \union Optional) |->
        CASE v \in {"DW_INTERVAL_SECONDS", "DW_IPERF_TRIES"} -> "2"
          [] v = "DW_IPERF_PORTS"                      -> "5-7"
          [] v = "DW_IPERF_SERVER"                     -> "host"
          [] v = "DW_TEST_BYTES"                       -> "64M"
          [] v = "DW_ACTION"                           -> "log"
          [] v = "DW_LOG_FORMAT"                       -> "json"
          [] v = "DW_REQUIRE_PLC_EVIDENCE_FOR_REBOOT"  -> "true"
          [] v = "DW_REBOOT_WINDOW_HOURS"              -> "4.5"
          [] OTHER                                     -> "1"]

Base == [v \in Variables |-> CASE v \in RequiredHosts -> "host"
                               [] v \in RequiredRates -> "0.5"
                               [] OTHER               -> Unset]

(* Each variable with texts of all kinds that are told apart. *)
Texts(v) ==
    CASE v \in RequiredHosts              -> {Unset, "", "host"}
      [] v \in RequiredRates              -> {Unset, "inf"}
      [] v = "DW_IPERF_TRIES"             -> {"3", "0"}
      [] v = "DW_INTERVAL_SECONDS"        -> {"3", "0", "4.5"}
      [] v \in PositiveIntegers \ {"DW_IPERF_TRIES", "DW_INTERVAL_SECONDS"} -> {"0"}
      [] v \in Delays                     -> {"0", "-1"}
      [] v \in PositiveNumbers \ RequiredRates -> {"-0.5"}
      [] v = "DW_HEARTBEAT_MAX_AGE_SECONDS" -> {"", "0", "0.5", "4.5"}
      [] v = "DW_HTTP_PORT"               -> {"", "0", "10", "3"}
      [] v \in {"DW_PASSWORD_FILE", "DW_STATE_FILE"} -> {"", "file"}
      [] v = "DW_NTFY_TOKEN_FILE"         -> {"file"}
      [] v = "DW_NTFY_URL"                -> {"url", "word"}
      [] v = "DW_IPERF_PORTS"             -> DOMAIN MCPortItems \union {"x"}
      [] v = "DW_ACTION"                  -> {"reboot", "word"}
      [] v = "DW_HEARTBEAT_FILE"          -> {"file"}
      [] OTHER                            -> {"word"}

Changed(e, which) == UNION {{[e EXCEPT ![v] = text] : text \in Texts(v)} : v \in which}

(* The variables whose texts are read together with that of another. *)
Related == {"DW_IPERF_TRIES", "DW_IPERF_PORTS", "DW_INTERVAL_SECONDS",
            "DW_HEARTBEAT_MAX_AGE_SECONDS", "DW_ACTION", "DW_PASSWORD_FILE",
            "DW_STATE_FILE", "DW_NTFY_URL", "DW_NTFY_TOKEN_FILE", "DW_DEVOLO_IP"}

(* Each command with any variable set in the process, and with two related *)
(* ones, or the same one, set in the process and in the file; a            *)
(* calibration is about its samples.                                       *)
MCScenarios ==
    LET commands == Command \ {"calibrate"} IN
    [command : commands, process : Changed(Base, Variables), file : {Empty}]
    \union [command : commands, process : {Base} \union Changed(Base, Related),
            file : {Empty} \union Changed(Empty, Related)]
    \union {[command |-> "calibrate", process |-> Base, file |-> Empty]}
=============================================================================
