------------------------------ MODULE Watchdog ------------------------------
(***************************************************************************)
(* The watchdog process and its state file: run_daemon with everything it  *)
(* calls (runner.py), the file-backed StateStore (state.py), and the       *)
(* `restart` command (__main__.py), which issues a request through the     *)
(* same request_restart.  One process runs at a time; it may crash at any  *)
(* step, be told to stop by a signal at any step, and be started again in  *)
(* any of the modes of the command line.  Time passes between any two      *)
(* steps.                                                                  *)
(***************************************************************************)
EXTENDS Policy

CONSTANTS
    Interval,       \* DW_INTERVAL_SECONDS
    Cooldown,       \* DW_COOLDOWN_SECONDS
    InitialDelay,   \* DW_INITIAL_DELAY_SECONDS
    PostDelay,      \* DW_POST_REBOOT_DELAY_SECONDS
    HasStateFile,   \* DW_STATE_FILE is set
    HasNtfy,        \* DW_NTFY_URL is set
    Modes,          \* the commands the operator starts
    Grain,          \* clock units in the millisecond the state file keeps
    SaveFaults,     \* a write of the state file may fail
    LoadFaults,     \* the state file may be unreadable at a start
    MaxClock        \* bound of the clock in a model

ASSUME WatchdogAssumption ==
    /\ Interval \in Nat \ {0}
    /\ Cooldown \in Nat \ {0}
    /\ InitialDelay \in Nat
    /\ PostDelay \in Nat
    /\ HasStateFile \in BOOLEAN
    /\ HasNtfy \in BOOLEAN
    /\ Modes \subseteq {"daemon", "once", "once-allow", "restart"}
    /\ Grain \in Nat \ {0}
    /\ SaveFaults \in BOOLEAN
    /\ LoadFaults \in BOOLEAN
    /\ MaxClock \in Nat /\ Grain <= MaxClock

VARIABLES
    clock,      \* the wall clock, which does not jump
    pc,         \* where the process is; "down" when there is none
    mode,       \* the command it runs
    stop,       \* the event set by SIGTERM and SIGINT
    mem,        \* its WatchdogState
    disk,       \* the WatchdogState the file holds; fresh while there is no file
    now,        \* time.time() of the current, else of the latest, cycle
    result,     \* the cycle's CycleResult.status
    action,     \* the ActionType decided
    wakeAt,     \* end of the wait in progress, else 0
    calls,      \* history: the management API calls issued so far
    own,        \* history: the times of those this process has issued
    alert,      \* history: the alert of the current degraded episode; "ghost"
                \* while the file still shows the one of an earlier episode
    evidence    \* history: degraded cycles since the latest HEALTHY verdict
                \* that was saved

process == <<mode, stop, mem, now, result, action, wakeAt>>
history == <<calls, own, alert, evidence>>
vars    == <<clock, pc, process, disk, history>>

PcLabel == {"down", "delay", "loop", "measure", "alert", "alert_save", "recover",
            "act", "record", "call", "mark", "settle", "verify", "rest", "sleep"}

Call == [at : Nat, auto : BOOLEAN, accepted : BOOLEAN]

AlertState == {"none", "sent", "durable", "lost", "closed", "ghost"}

(* The types of the process, its file and the history; timestamps are never *)
(* negative, the end of a wait included (max(0, ...) in run_daemon).         *)
TypeOK ==
    /\ clock \in Nat
    /\ pc \in PcLabel
    /\ mode \in {"none", "daemon", "once", "once-allow", "restart"}
    /\ stop \in BOOLEAN
    /\ mem \in WatchdogState
    /\ disk \in WatchdogState
    /\ now \in Nat
    /\ result \in Status \union {"none"}
    /\ action \in ActionType
    /\ wakeAt \in Nat
    /\ calls \in SUBSET Call
    /\ own \in SUBSET Nat
    /\ alert \in AlertState
    /\ evidence \in SUBSET Nat

-----------------------------------------------------------------------------
(* The state file.                                                         *)

(* to_dict writes timestamps with three decimals, cutting off the rest;    *)
(* from_dict reads back what was written.                                  *)
Stored(t) == t - (t % Grain)

Persisted(state) ==
    [state EXCEPT
        !.reboot_history      = {[a EXCEPT !.timestamp = Stored(@)] : a \in @},
        !.degraded_timestamps = {Stored(t) : t \in @}]

(* What StateStore.save may return. *)
SaveResults == IF HasStateFile /\ SaveFaults THEN BOOLEAN ELSE {TRUE}

(* os.replace makes the new file visible at once; a failed save leaves the *)
(* old one.  Without a state file, save succeeds and writes nothing.       *)
Save(state, saved) ==
    disk' = IF HasStateFile /\ saved THEN Persisted(state) ELSE disk

(* StateStore.load: any failure to read the file gives a fresh state. *)
LoadResults == IF LoadFaults THEN {disk, FreshState} ELSE {disk}

(* History: what a save makes of the alert of this episode, or of the one  *)
(* the file still shows.                                                   *)
AlertAfterSave(state, saved) ==
    CASE alert = "sent" /\ HasStateFile /\ saved /\ state.degradation_notification_sent ->
            "durable"
      [] alert = "ghost" /\ saved /\ ~state.degradation_notification_sent -> "none"
      [] OTHER -> alert

(* History: an alerted episode is over; the file may not know.             *)
EpisodeOver(state) == IF state.degradation_notification_sent THEN "ghost" ELSE "none"

Goto(label) == pc' = label

-----------------------------------------------------------------------------
(* Start and end of a process.                                             *)

(* main, run_daemon up to its loop, run_restart up to its request. *)
Start ==
    /\ pc = "down"
    /\ mode' \in Modes
    /\ mem' \in LoadResults
    /\ IF mode' = "daemon" /\ InitialDelay > 0
       THEN Goto("delay") /\ wakeAt' = clock + InitialDelay
       ELSE Goto("loop") /\ wakeAt' = wakeAt
    /\ UNCHANGED <<clock, stop, disk, now, result, action, history>>

(* Nothing in memory outlives the process.  `now` does not matter any more, *)
(* it stays as a mark of the latest cycle.                                  *)
Vanish ==
    /\ Goto("down")
    /\ mode' = "none"
    /\ stop' = FALSE
    /\ mem' = FreshState
    /\ result' = "none"
    /\ action' = "NONE"
    /\ wakeAt' = 0
    /\ alert' = CASE alert = "sent" ->
                        IF disk.degradation_notification_sent THEN "durable" ELSE "lost"
                  [] alert = "closed" -> EpisodeOver(disk)
                  [] OTHER            -> alert
    /\ own' = {}
    /\ UNCHANGED <<clock, disk, now, calls, evidence>>

Crash == pc # "down" /\ Vanish

(* handle_signal; the restart command installs no handler. *)
Signal ==
    /\ pc # "down"
    /\ mode # "restart"
    /\ ~stop
    /\ stop' = TRUE
    /\ UNCHANGED <<clock, pc, mode, mem, disk, now, result, action, wakeAt, history>>

Tick ==
    /\ clock < MaxClock
    /\ clock' = clock + 1
    /\ UNCHANGED <<pc, process, disk, history>>

(* Faulty: time.sleep(...) does not notice stop. *)
SleepOver == clock >= wakeAt

(* stop.wait(...): returns when the time has passed or stop is set. *)
WaitOver == stop \/ clock >= wakeAt

InitialDelayOver ==
    /\ pc = "delay"
    /\ WaitOver
    /\ Goto("loop")
    /\ wakeAt' = 0
    /\ UNCHANGED <<clock, mode, stop, mem, disk, now, result, action, history>>

(* The loop condition is false: run_daemon returns. *)
LeaveLoop ==
    /\ pc = "loop"
    /\ stop
    /\ Vanish

-----------------------------------------------------------------------------
(* One monitoring cycle.                                                   *)

(* A cycle begins, or the restart command reads the time.  At least a      *)
(* millisecond has passed since the latest one: a cycle runs ping.         *)
Begin(label) ==
    /\ pc = "loop"
    /\ ~stop
    /\ clock >= now + Grain
    /\ now' = clock
    /\ Goto(label)
    /\ UNCHANGED <<clock, mode, stop, mem, disk, result, action, wakeAt, history>>

BeginCycle == mode # "restart" /\ Begin("measure")

BeginRestartCommand == mode = "restart" /\ Begin("record")

(* History: a verdict that is not DEGRADED ends the episode. *)
AlertAfterVerdict(status, state, saved) ==
    CASE status = "DEGRADED" -> AlertAfterSave(state, saved)
      [] status # "DEGRADED" /\ alert \in {"sent", "durable"} -> "closed"
      [] status # "DEGRADED" /\ alert \in {"ghost", "closed"} ->
            IF mem.degradation_notification_sent THEN "ghost" ELSE EpisodeOver(disk')
      [] OTHER -> "none"

(* Faulty: the flag of the alert is read after the transition. *)
EvaluateLateFlag(status, saved) ==
    LET next == Transition(mem, status, now) IN
    /\ pc = "measure"
    /\ result' = status
    /\ mem' = next.state
    /\ action' = next.action
    /\ Save(next.state, saved)
    /\ Goto(CASE status = "DEGRADED" /\ ~next.state.degradation_notification_sent -> "alert"
              [] status # "DEGRADED" /\ next.state.degradation_notification_sent -> "recover"
              [] OTHER -> "act")
    /\ alert' = AlertAfterVerdict(status, next.state, saved)
    /\ evidence' = CASE status = "DEGRADED" -> {t \in evidence : t >= now - FailWindow} \union {now}
                     [] status = "HEALTHY" /\ saved -> {}
                     [] OTHER -> {t \in evidence : t >= now - FailWindow}
    /\ UNCHANGED <<clock, mode, stop, now, wakeAt, calls, own>>

(* The verdict is in: transition and the save that follows it, whose       *)
(* result is not looked at.                                                *)
Evaluate(status, saved) ==
    LET next == Transition(mem, status, now) IN
    /\ pc = "measure"
    /\ result' = status
    /\ mem' = next.state
    /\ action' = next.action
    /\ Save(next.state, saved)
    /\ Goto(CASE status = "DEGRADED" /\ ~next.state.degradation_notification_sent -> "alert"
              [] status # "DEGRADED" /\ mem.degradation_notification_sent -> "recover"
              [] OTHER -> "act")
    /\ alert' = AlertAfterVerdict(status, next.state, saved)
    /\ evidence' = CASE status = "DEGRADED" -> {t \in evidence : t >= now - FailWindow} \union {now}
                     [] status = "HEALTHY" /\ saved -> {}
                     [] OTHER -> {t \in evidence : t >= now - FailWindow}
    /\ UNCHANGED <<clock, mode, stop, now, wakeAt, calls, own>>

(* Faulty: the result of the delivery is not kept. *)
SendAlertForgotten(sent) ==
    /\ pc = "alert"
    /\ sent => HasNtfy
    /\ alert' = IF sent THEN "sent" ELSE alert
    /\ Goto(IF sent THEN "alert_save" ELSE "act")
    /\ UNCHANGED <<clock, process, disk, calls, own, evidence>>

(* Faulty: the flag is set whether or not the alert was delivered. *)
SendAlertPresumed(sent) ==
    /\ pc = "alert"
    /\ sent => HasNtfy
    /\ mem' = [mem EXCEPT !.degradation_notification_sent = TRUE]
    /\ alert' = IF sent THEN "sent" ELSE alert
    /\ Goto("alert_save")
    /\ UNCHANGED <<clock, mode, stop, disk, now, result, action, wakeAt, calls, own, evidence>>

(* The degradation alert; the flag becomes what the delivery returned. *)
SendAlert(sent) ==
    /\ pc = "alert"
    /\ sent => HasNtfy
    /\ mem' = [mem EXCEPT !.degradation_notification_sent = sent]
    /\ alert' = IF sent THEN "sent" ELSE alert
    /\ Goto(IF sent THEN "alert_save" ELSE "act")
    /\ UNCHANGED <<clock, mode, stop, disk, now, result, action, wakeAt, calls, own, evidence>>

SaveAlertFlag(saved) ==
    /\ pc = "alert_save"
    /\ Save(mem, saved)
    /\ alert' = AlertAfterSave(mem, saved)
    /\ Goto("act")
    /\ UNCHANGED <<clock, process, calls, own, evidence>>

(* The recovery alert, whether or not it is delivered. *)
SendRecovery ==
    /\ pc = "recover"
    /\ alert' = EpisodeOver(disk)
    /\ Goto("act")
    /\ UNCHANGED <<clock, process, disk, calls, own, evidence>>

(* Faulty: a reboot the breaker refuses is recorded as an attempt. *)
HandleActionRecordsRefusal ==
    /\ pc = "act"
    /\ mem' = IF mem.breaker_tripped THEN RecordReboot(mem, now) ELSE mem
    /\ Goto(IF action = "REBOOT" /\ mode # "once" THEN "record" ELSE "rest")
    /\ UNCHANGED <<clock, mode, stop, disk, now, result, action, wakeAt, history>>

(* _handle_action: a dry run stops short of the request. *)
HandleAction ==
    /\ pc = "act"
    /\ Goto(IF action = "REBOOT" /\ mode # "once" THEN "record" ELSE "rest")
    /\ UNCHANGED <<clock, process, disk, history>>

-----------------------------------------------------------------------------
(* One restart request: request_restart and _execute_reboot around it.     *)

(* Faulty: the result of the save is not looked at. *)
RecordAttemptAnyway(saved) ==
    /\ pc = "record"
    /\ mem' = RecordReboot(mem, now)
    /\ Save(mem', saved)
    /\ alert' = AlertAfterSave(mem', saved)
    /\ Goto("call")
    /\ UNCHANGED <<clock, mode, stop, now, result, action, wakeAt, calls, own, evidence>>

(* The attempt is recorded and must be saved, else the request is dropped. *)
RecordAttempt(saved) ==
    /\ pc = "record"
    /\ mem' = RecordReboot(mem, now)
    /\ Save(mem', saved)
    /\ alert' = AlertAfterSave(mem', saved)
    /\ Goto(IF saved THEN "call" ELSE "rest")
    /\ UNCHANGED <<clock, mode, stop, now, result, action, wakeAt, calls, own, evidence>>

(* The pre-reboot notification and restart_devolo: accepted, refused or    *)
(* failed, the device has been called.                                     *)
CallDevice(accepted) ==
    /\ pc = "call"
    /\ calls' = calls \union {[at |-> now, auto |-> mode # "restart", accepted |-> accepted]}
    /\ own' = own \union {now}
    /\ Goto(IF accepted THEN "mark" ELSE "rest")
    /\ UNCHANGED <<clock, process, disk, alert, evidence>>

(* restart_devolo fails before the call: the password file is unreadable   *)
(* or the device cannot be reached.                                        *)
CallFails ==
    /\ pc = "call"
    /\ Goto("rest")
    /\ UNCHANGED <<clock, process, disk, history>>

(* The accepted flag of the attempt is set and saved, best effort; the     *)
(* restart command then returns, a cycle goes on to verify.                *)
MarkAccepted(saved) ==
    /\ pc = "mark"
    /\ mem' = AcceptLast(mem, now)
    /\ Save(mem', saved)
    /\ alert' = AlertAfterSave(mem', saved)
    /\ IF mode = "restart"
       THEN Goto("rest") /\ wakeAt' = wakeAt
       ELSE Goto("settle") /\ wakeAt' = clock + PostDelay
    /\ UNCHANGED <<clock, mode, stop, now, result, action, calls, own, evidence>>

(* The post-reboot delay; there is no verification once stop is set. *)
SettleOver ==
    /\ pc = "settle"
    /\ WaitOver
    /\ Goto(IF stop THEN "rest" ELSE "verify")
    /\ wakeAt' = 0
    /\ UNCHANGED <<clock, mode, stop, mem, disk, now, result, action, history>>

Verify(status, saved) ==
    /\ pc = "verify"
    /\ mem' = Verified(mem, status)
    /\ Save(mem', saved)
    /\ alert' = AlertAfterSave(mem', saved)
    /\ evidence' = IF status = "HEALTHY" /\ saved THEN {} ELSE evidence
    /\ Goto("rest")
    /\ UNCHANGED <<clock, mode, stop, now, result, action, wakeAt, calls, own>>

(* An exception of the verification is logged, and nothing is saved. *)
VerifyFails ==
    /\ pc = "verify"
    /\ Goto("rest")
    /\ UNCHANGED <<clock, process, disk, history>>

-----------------------------------------------------------------------------
(* End of a cycle.                                                         *)

(* run --once and the restart command return. *)
Return ==
    /\ pc = "rest"
    /\ mode # "daemon"
    /\ Vanish

(* Faulty: only an accepted reboot is followed by the cooldown. *)
WaitTargetAccepted ==
    IF action = "REBOOT" /\ \E a \in mem.reboot_history : a.timestamp = now /\ a.accepted
    THEN Cooldown ELSE Interval

(* The wait is counted from the start of the cycle. *)
WaitTarget == IF action = "REBOOT" THEN Cooldown ELSE Interval

(* Faulty: the time left may be negative when the cycle took longer. *)
GoToSleepNegative ==
    /\ pc = "rest"
    /\ mode = "daemon"
    /\ wakeAt' = (now + WaitTarget) - clock
    /\ Goto("sleep")
    /\ UNCHANGED <<clock, mode, stop, mem, disk, now, result, action, history>>

GoToSleep ==
    /\ pc = "rest"
    /\ mode = "daemon"
    /\ wakeAt' = now + WaitTarget
    /\ Goto("sleep")
    /\ UNCHANGED <<clock, mode, stop, mem, disk, now, result, action, history>>

WakeUp ==
    /\ pc = "sleep"
    /\ WaitOver
    /\ Goto("loop")
    /\ wakeAt' = 0
    /\ UNCHANGED <<clock, mode, stop, mem, disk, now, result, action, history>>

-----------------------------------------------------------------------------
Init ==
    /\ clock = Grain
    /\ pc = "down"
    /\ mode = "none"
    /\ stop = FALSE
    /\ mem = FreshState
    /\ disk = FreshState
    /\ now = 0
    /\ result = "none"
    /\ action = "NONE"
    /\ wakeAt = 0
    /\ calls = {}
    /\ own = {}
    /\ alert = "none"
    /\ evidence = {}

(* The steps the process takes by itself. *)
Work ==
    \/ InitialDelayOver
    \/ LeaveLoop
    \/ BeginCycle
    \/ BeginRestartCommand
    \/ \E status \in Status, saved \in SaveResults : Evaluate(status, saved)
    \/ \E sent \in BOOLEAN : SendAlert(sent)
    \/ \E saved \in SaveResults : SaveAlertFlag(saved)
    \/ SendRecovery
    \/ HandleAction
    \/ \E saved \in SaveResults : RecordAttempt(saved)
    \/ \E accepted \in BOOLEAN : CallDevice(accepted)
    \/ CallFails
    \/ \E saved \in SaveResults : MarkAccepted(saved)
    \/ SettleOver
    \/ \E status \in Status, saved \in SaveResults : Verify(status, saved)
    \/ VerifyFails
    \/ Return
    \/ GoToSleep
    \/ WakeUp

(* What happens to it. *)
Environment == Start \/ Crash \/ Signal \/ Tick

Next == Work \/ Environment

Spec == Init /\ [][Next]_vars

(* The probes, the notification and the device API all carry timeouts, so  *)
(* a running process takes its next step; nothing is assumed of the clock. *)
FairSpec == Spec /\ WF_vars(Work)
=============================================================================
