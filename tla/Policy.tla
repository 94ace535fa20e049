------------------------------- MODULE Policy -------------------------------
(***************************************************************************)
(* The pure decision policy of the watchdog: the state machine step        *)
(* `transition` of policy.py on the persisted record WatchdogState of      *)
(* models.py.  Everything here is an operator on values; the processes     *)
(* that call it, and the file it is saved to, are in module Watchdog.      *)
(*                                                                         *)
(* Data kept of WatchdogState: the four fields a decision reads.  The      *)
(* fields last_status, last_reason, last_check_timestamp and               *)
(* last_reboot_timestamp are only reported, never read by the code, and    *)
(* are left out.  No two cycles of the program share a timestamp (module   *)
(* Watchdog), so the list of attempts and the list of degraded timestamps  *)
(* are sets.                                                               *)
(***************************************************************************)
EXTENDS Integers, FiniteSets

CONSTANTS
    FailLimit,      \* DW_FAIL_LIMIT
    FailWindow,     \* DW_FAIL_WINDOW_SECONDS
    MaxReboots,     \* DW_MAX_REBOOTS_IN_WINDOW
    RebootWindow,   \* DW_REBOOT_WINDOW_HOURS, as a duration
    KeepHistory,    \* the seven days attempts are kept for at least
    ActionSetting   \* DW_ACTION

(* What Settings.validate accepts. *)
ASSUME PolicyAssumption ==
    /\ FailLimit \in Nat \ {0}
    /\ FailWindow \in Nat \ {0}
    /\ MaxReboots \in Nat \ {0}
    /\ RebootWindow \in Nat \ {0}
    /\ KeepHistory \in Nat
    /\ ActionSetting \in {"log", "reboot"}

Status == {"HEALTHY", "DEGRADED", "UNAVAILABLE", "MISCONFIGURED"}

ActionType == {"NONE", "LOG", "REBOOT"}

(* One entry of reboot_history; its reason text is left out. *)
RebootAttempt == [timestamp : Nat, accepted : BOOLEAN]

WatchdogState ==
    [degradation_notification_sent : BOOLEAN,
     reboot_history                : SUBSET RebootAttempt,
     breaker_tripped               : BOOLEAN,
     degraded_timestamps           : SUBSET Nat]

FreshState ==
    [degradation_notification_sent |-> FALSE,
     reboot_history                |-> {},
     breaker_tripped               |-> FALSE,
     degraded_timestamps           |-> {}]

-----------------------------------------------------------------------------
(* How long an attempt is remembered: never less than the window that      *)
(* counts it.                                                              *)
Retention == IF RebootWindow > KeepHistory THEN RebootWindow ELSE KeepHistory

PruneHistory(history, now) == {a \in history : a.timestamp >= now - Retention}

(* Faulty: an attempt that fails or is refused does not count. *)
RecentAcceptedAttempts(history, now) ==
    {a \in history : a.accepted /\ a.timestamp >= now - RebootWindow}

(* Faulty: the oldest instant of the window is left out. *)
RecentAttemptsOpen(history, now) == {a \in history : a.timestamp > now - RebootWindow}

RecentAttempts(history, now) == {a \in history : a.timestamp >= now - RebootWindow}

(* Faulty: an attempt is recorded as accepted before it is made. *)
RecordRebootAccepted(state, now) ==
    [state EXCEPT !.reboot_history = @ \union {[timestamp |-> now, accepted |-> TRUE]}]

RecordReboot(state, now) ==
    [state EXCEPT !.reboot_history = @ \union {[timestamp |-> now, accepted |-> FALSE]}]

(* reboot_history[-1].accepted = True: the last entry is the one appended  *)
(* at `now` by the same call of request_restart.                           *)
AcceptLast(state, now) ==
    [state EXCEPT !.reboot_history =
        {IF a.timestamp = now THEN [a EXCEPT !.accepted = TRUE] ELSE a : a \in @}]

(* Faulty: a healthy verdict leaves the window as it is. *)
NotedTimestampsKept(timestamps, status, now) ==
    IF status = "DEGRADED" THEN timestamps \union {now} ELSE timestamps

(* The observation window after a verdict: extended, cleared or kept.      *)
NotedTimestamps(timestamps, status, now) ==
    CASE status = "DEGRADED" -> timestamps \union {now}
      [] status = "HEALTHY"  -> {}
      [] OTHER               -> timestamps

(* Faulty: what the state file brought back is not cut to the window. *)
InFailWindowUncut(timestamps, now) == timestamps

InFailWindow(timestamps, now) == {t \in timestamps : t >= now - FailWindow}

(* The action for a cycle: whether the window holds enough degraded        *)
(* cycles, and whether the budget of reboots is used up.                   *)
Decision(limit, exhausted) ==
    CASE ~limit                                            -> "NONE"
      [] limit /\ ActionSetting = "log"                    -> "LOG"
      [] limit /\ ActionSetting = "reboot" /\ exhausted    -> "NONE"
      [] limit /\ ActionSetting = "reboot" /\ ~exhausted   -> "REBOOT"

(* Faulty: the breaker, once tripped, is a latch that only a healthy       *)
(* verdict opens.                                                          *)
TransitionLatched(state, status, now) ==
    LET history   == PruneHistory(state.reboot_history, now)
        exhausted == Cardinality(RecentAttempts(history, now)) >= MaxReboots
        window    == InFailWindow(NotedTimestamps(state.degraded_timestamps, status, now), now)
        limit     == Cardinality(window) >= FailLimit
        refused   == limit /\ ActionSetting = "reboot" /\ exhausted
    IN  [state  |-> [degradation_notification_sent |->
                        status = "DEGRADED" /\ state.degradation_notification_sent,
                     reboot_history      |-> history,
                     breaker_tripped     |-> refused \/ (state.breaker_tripped /\ status # "HEALTHY"),
                     degraded_timestamps |-> window],
         action |-> Decision(limit, exhausted)]

(* The state after a cycle with verdict `status`, and the action decided.  *)
Transition(state, status, now) ==
    LET history   == PruneHistory(state.reboot_history, now)
        exhausted == Cardinality(RecentAttempts(history, now)) >= MaxReboots
        window    == InFailWindow(NotedTimestamps(state.degraded_timestamps, status, now), now)
        limit     == Cardinality(window) >= FailLimit
        refused   == limit /\ ActionSetting = "reboot" /\ exhausted
        kept      == state.breaker_tripped /\ exhausted /\ status # "HEALTHY"
    IN  [state  |-> [degradation_notification_sent |->
                        status = "DEGRADED" /\ state.degradation_notification_sent,
                     reboot_history      |-> history,
                     breaker_tripped     |-> refused \/ kept,
                     degraded_timestamps |-> window],
         action |-> Decision(limit, exhausted)]

(* Post-reboot verification with verdict `status` (_execute_reboot): only  *)
(* a HEALTHY one changes what a later decision reads.                      *)
Verified(state, status) ==
    IF status = "HEALTHY"
    THEN [state EXCEPT !.breaker_tripped = FALSE, !.degraded_timestamps = {}]
    ELSE state
=============================================================================
