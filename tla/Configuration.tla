---------------------------- MODULE Configuration ----------------------------
(***************************************************************************)
(* The environment the program is configured with (config.py): which       *)
(* environments Settings.from_env accepts, what the accepted ones mean for *)
(* the ports that are tried and the age of a heartbeat, and the            *)
(* environment file that is loaded before (__main__.py).                   *)
(*                                                                         *)
(* A variable holds a text.  What a text reads as is given by tables: the  *)
(* integers and the other numbers among them, and the items a list of      *)
(* ports splits into.  An item is the sequence of the parts around its     *)
(* first hyphen, NoDigits for a part that is not a number; a blank item    *)
(* has none.                                                               *)
(***************************************************************************)
EXTENDS Integers, Sequences, SequencesExt

CONSTANTS
    Integer,       \* the texts that read as integers, with their values
    OtherNumber,   \* the texts that read as finite numbers but not integers,
                   \* with their values rounded up
    PortItems,     \* the texts of port lists, with their items
    AbsoluteUrls,  \* the texts that are absolute HTTP URLs
    ByteSizes,     \* the texts that look like 64M
    Truths,        \* the texts that read as a boolean
    Default,       \* the defaults of the variables that have one
    LeastMaxAge,   \* 90, what a derived heartbeat limit is at least
    MaxPort        \* 65535

Unset    == "unset"
NoDigits == -1

PositiveIntegers ==
    {"DW_IPERF_TRIES", "DW_IPERF_TIMEOUT_SECONDS", "DW_IPERF_CONNECT_TIMEOUT_MS",
     "DW_INTERVAL_SECONDS", "DW_PARALLEL_STREAMS", "DW_FAIL_LIMIT",
     "DW_FAIL_WINDOW_SECONDS", "DW_COOLDOWN_SECONDS", "DW_PING_COUNT",
     "DW_PING_TIMEOUT_SECONDS", "DW_MAX_REBOOTS_IN_WINDOW"}

Delays == {"DW_INITIAL_DELAY_SECONDS", "DW_POST_REBOOT_DELAY_SECONDS"}

RequiredRates == {"DW_MIN_UPLOAD_MBPS", "DW_MIN_DOWNLOAD_MBPS"}

RequiredHosts == {"DW_REMOTE_PROBE", "DW_DEVOLO_IP"}

PositiveNumbers ==
    RequiredRates \union
    {"DW_REBOOT_WINDOW_HOURS", "DW_MIN_PLC_PHY_RATE_MBPS", "DW_NTFY_TIMEOUT_SECONDS"}

(* Those that are None when they are not set. *)
Optional == {"DW_PASSWORD_FILE", "DW_STATE_FILE", "DW_HEARTBEAT_FILE",
             "DW_HEARTBEAT_MAX_AGE_SECONDS", "DW_NTFY_URL", "DW_NTFY_TOKEN_FILE",
             "DW_HTTP_PORT"}

Variables ==
    PositiveIntegers \union Delays \union PositiveNumbers \union RequiredHosts \union Optional
    \union {"DW_IPERF_SERVER", "DW_IPERF_PORTS", "DW_TEST_BYTES", "DW_ACTION",
            "DW_LOG_FORMAT", "DW_REQUIRE_PLC_EVIDENCE_FOR_REBOOT"}

Empty == [v \in Variables |-> Unset]

(* What the reading of a port list and of the limits rests on. *)
ASSUME ConfigurationAssumption ==
    /\ \A raw \in DOMAIN Integer : Integer[raw] \in Int
    /\ \A raw \in DOMAIN OtherNumber : OtherNumber[raw] \in Int
    /\ DOMAIN Integer \intersect DOMAIN OtherNumber = {}
    /\ \A raw \in DOMAIN PortItems : PortItems[raw] \in Seq(Seq(Int))
    /\ DOMAIN Default = Variables \ (RequiredRates \union RequiredHosts \union Optional)
    /\ LeastMaxAge \in Nat \ {0}
    /\ MaxPort \in Nat \ {0}

-----------------------------------------------------------------------------
(* Reading a variable.                                                     *)

(* load_env_file_if_present: what the process has is not replaced. *)
LoadEnvFile(process, file) ==
    [v \in Variables |-> IF process[v] # Unset THEN process[v] ELSE file[v]]

(* os.getenv with its default, if it has one. *)
Get(env, v) == IF env[v] = Unset /\ v \in DOMAIN Default THEN Default[v] ELSE env[v]

(* Given, for those an empty text leaves at None and those that must be given. *)
Given(env, v) == env[v] \notin {Unset, ""}

IsPositive(raw) ==
    \/ raw \in DOMAIN Integer /\ Integer[raw] > 0
    \/ raw \in DOMAIN OtherNumber /\ OtherNumber[raw] > 0

(* The value of a finite number. *)
NumberOf(raw) == IF raw \in DOMAIN Integer THEN Integer[raw] ELSE OtherNumber[raw]

-----------------------------------------------------------------------------
(* Ports.                                                                  *)

(* The ports of an item of the list, and whether it is one. *)
ItemPorts(item) ==
    CASE Len(item) = 0 -> <<>>
      [] Len(item) = 1 -> item
      [] OTHER         -> [i \in 1 .. (item[2] - item[1] + 1) |-> item[1] + i - 1]

ItemReads(item) ==
    /\ NoDigits \notin ToSet(item)
    /\ Len(item) = 2 => item[1] <= item[2]

Concatenated(items) == FlattenSeq([i \in DOMAIN items |-> ItemPorts(items[i])])

(* tuple(dict.fromkeys(s)): the elements of s, each at its first place. *)
Unique(s) ==
    LET unique[n \in 0 .. Len(s)] ==
            IF n = 0
            THEN <<>>
            ELSE LET before == unique[n - 1]
                 IN  IF s[n] \in ToSet(before) THEN before ELSE Append(before, s[n])
    IN  unique[Len(s)]

(* Faulty: a port given twice stays in the list twice. *)
ParsePortsRepeated(raw) == Concatenated(PortItems[raw])

(* parse_ports *)
ParsePorts(raw) == Unique(Concatenated(PortItems[raw]))

PortsAccepted(raw) ==
    /\ raw \in DOMAIN PortItems
    /\ \A i \in DOMAIN PortItems[raw] : ItemReads(PortItems[raw][i])
    /\ ParsePorts(raw) # <<>>
    /\ ToSet(ParsePorts(raw)) \subseteq 1 .. MaxPort

Ports(env) == ParsePorts(Get(env, "DW_IPERF_PORTS"))

Tries(env) == Integer[Get(env, "DW_IPERF_TRIES")]

Interval(env) == Integer[Get(env, "DW_INTERVAL_SECONDS")]

(* candidate_ports, for a measurement at a time. *)
CandidatePorts(env, reverse, time) ==
    LET count == Len(Ports(env))
        start == (time \div Interval(env)) + (IF reverse /\ count > 1 THEN count \div 2 ELSE 0)
    IN  [i \in 1 .. Tries(env) |-> Ports(env)[((start + i - 1) % count) + 1]]

-----------------------------------------------------------------------------
(* Settings.from_env and Settings.validate: every failure is a ValueError. *)

NumbersAccepted(env) ==
    /\ \A v \in PositiveIntegers :
           Get(env, v) \in DOMAIN Integer /\ Integer[Get(env, v)] > 0
    /\ \A v \in Delays : Get(env, v) \in DOMAIN Integer /\ Integer[Get(env, v)] >= 0
    /\ \A v \in PositiveNumbers : IsPositive(Get(env, v))

ChoicesAccepted(env) ==
    /\ Get(env, "DW_ACTION") \in {"log", "reboot"}
    /\ Get(env, "DW_LOG_FORMAT") \in {"text", "json"}
    /\ Get(env, "DW_REQUIRE_PLC_EVIDENCE_FOR_REBOOT") \in Truths
    /\ Get(env, "DW_TEST_BYTES") \in ByteSizes
    /\ Get(env, "DW_IPERF_SERVER") # ""

NtfyAccepted(env) ==
    IF Given(env, "DW_NTFY_URL") THEN env["DW_NTFY_URL"] \in AbsoluteUrls
                                 ELSE ~Given(env, "DW_NTFY_TOKEN_FILE")

(* Faulty: an empty limit is taken for one that is not set. *)
MaxAgeAcceptedEmpty(env) ==
    Given(env, "DW_HEARTBEAT_MAX_AGE_SECONDS") =>
        IsPositive(env["DW_HEARTBEAT_MAX_AGE_SECONDS"])

MaxAgeAccepted(env) ==
    env["DW_HEARTBEAT_MAX_AGE_SECONDS"] # Unset =>
        IsPositive(env["DW_HEARTBEAT_MAX_AGE_SECONDS"])

HttpPortAccepted(env) ==
    Given(env, "DW_HTTP_PORT") =>
        env["DW_HTTP_PORT"] \in DOMAIN Integer /\ Integer[env["DW_HTTP_PORT"]] \in 1 .. MaxPort

Accepted(env) ==
    /\ \A v \in RequiredHosts \union RequiredRates : Given(env, v)
    /\ NumbersAccepted(env)
    /\ ChoicesAccepted(env)
    /\ NtfyAccepted(env)
    /\ MaxAgeAccepted(env)
    /\ HttpPortAccepted(env)
    /\ PortsAccepted(Get(env, "DW_IPERF_PORTS"))
    /\ Tries(env) <= Len(Ports(env))

-----------------------------------------------------------------------------
(* The age at which a heartbeat is stale, for the settings and for the     *)
(* healthcheck, which reads the environment by itself.                     *)

Larger(a, b) == IF a >= b THEN a ELSE b

(* Settings.effective_heartbeat_max_age_seconds *)
EffectiveMaxAge(env) ==
    IF env["DW_HEARTBEAT_MAX_AGE_SECONDS"] # Unset
    THEN NumberOf(env["DW_HEARTBEAT_MAX_AGE_SECONDS"])
    ELSE Larger(LeastMaxAge, 2 * Interval(env))

(* heartbeat_max_age_seconds_from_env, and whether it raises a ValueError. *)
HealthcheckConfigured(env) ==
    /\ Get(env, "DW_INTERVAL_SECONDS") \in DOMAIN Integer
    /\ Interval(env) > 0
    /\ env["DW_HEARTBEAT_MAX_AGE_SECONDS"] # Unset =>
           IsPositive(env["DW_HEARTBEAT_MAX_AGE_SECONDS"])

HealthcheckMaxAge(env) ==
    IF env["DW_HEARTBEAT_MAX_AGE_SECONDS"] = Unset
    THEN Larger(LeastMaxAge, 2 * Interval(env))
    ELSE NumberOf(env["DW_HEARTBEAT_MAX_AGE_SECONDS"])
=============================================================================
