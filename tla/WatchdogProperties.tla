------------------------- MODULE WatchdogProperties -------------------------
(***************************************************************************)
(* What must be true of the process and its state file (module Watchdog).  *)
(***************************************************************************)
EXTENDS Watchdog

Alive == pc # "down"

-----------------------------------------------------------------------------
(* Accounting of the calls.                                                *)

(* The attempts that stand for a call accounted at time t, whether or not  *)
(* they have been through the file.                                        *)
Accounted(attempts, t) == \E a \in attempts : Stored(a.timestamp) = Stored(t)

(* A call issued by this program, whatever its answer and whatever crashed *)
(* or failed to be saved since, is in the state file and in the memory of  *)
(* the process until it is past retention: the reason why request_restart  *)
(* saves the attempt before it calls the device, and skips the call when   *)
(* the save fails.                                                         *)
AttemptsAccounted ==
    \A c \in calls :
        Stored(c.at) >= now - Retention =>
            /\ Accounted(disk.reboot_history, c.at)
            /\ Alive => Accounted(mem.reboot_history, c.at)

(* A timestamp loses up to Grain - 1 in the file, and so does the window   *)
(* the limit is kept for.                                                  *)
BudgetSpan == RebootWindow - (Grain - 1)

(* The calls, as the abstract specification of the rate limit sees them.   *)
Spent == {[at |-> c.at, auto |-> c.auto] : c \in calls}

Budget == INSTANCE RebootBudget WITH
    Limit <- MaxReboots,
    Span  <- BudgetSpan,
    Times <- 0 .. MaxClock,
    spent <- Spent

(* The moving-window limit holds across crashes, restarts, failed saves    *)
(* and operator requests: the watchdog implements RebootBudget.            *)
ImplementsBudget == Budget!Spec

(* What RebootBudget promises, said of the calls: no window that ends with *)
(* an automated call holds more than DW_MAX_REBOOTS_IN_WINDOW calls.       *)
RateLimit ==
    \A c \in calls :
        c.auto => Cardinality({d \in calls :
                      /\ d.at >= c.at - BudgetSpan
                      /\ d.at <= c.at}) <= MaxReboots

(* What is left of the limit without a state file, which is the default,   *)
(* or after a file that could not be read: every process keeps it for the  *)
(* calls it issues itself.  Its memory loses no precision, so this one is  *)
(* for the whole window.                                                   *)
ProcessLimit ==
    \A t \in own :
        Cardinality({u \in own : u >= t - RebootWindow /\ u <= t}) <= MaxReboots

(* The converse of AttemptsAccounted.  An attempt may be on record without *)
(* a call: its save failed, the process died, or the call did.  But what   *)
(* the limit refuses is not recorded, and what was dropped counts once: as *)
(* long as no operator asks for more, no window of the record holds more   *)
(* than DW_MAX_REBOOTS_IN_WINDOW attempts, made or not, so that a refusal  *)
(* never prolongs itself.                                                  *)
RecordWithinLimit ==
    "restart" \notin Modes =>
        \A attempts \in {mem.reboot_history, disk.reboot_history} :
        \A a \in attempts :
            Cardinality({b \in attempts :
                /\ b.timestamp >= a.timestamp - BudgetSpan
                /\ b.timestamp <= a.timestamp}) <= MaxReboots

(* An attempt the file shows as accepted is a call the device accepted. *)
AcceptedIsTrue ==
    \A a \in disk.reboot_history :
        a.accepted => \E c \in calls : c.accepted /\ Stored(c.at) = a.timestamp

-----------------------------------------------------------------------------
(* Why a call is made.                                                     *)

(* An automated call is about to be made only by a process that may act,   *)
(* and only when DW_FAIL_LIMIT cycles of the observation window really     *)
(* were degraded, whichever process measured them, with no healthy verdict *)
(* since; but one whose save failed may be forgotten with its process.     *)
AutomatedCallJustified ==
    pc = "call" /\ mode # "restart" =>
        /\ mode \in {"daemon", "once-allow"}
        /\ ActionSetting = "reboot"
        /\ Cardinality({t \in evidence : t >= now - FailWindow}) >= FailLimit

(* The breaker says what it says: it is up after a decision only when the  *)
(* budget is used up, then no reboot is decided, and it is up whenever the *)
(* calls of the window alone have used the budget up and the degraded      *)
(* cycles ask for a reboot.                                                *)
BreakerTruthful ==
    pc \in {"alert", "alert_save", "recover", "act"} =>
        /\ mem.breaker_tripped =>
              /\ Cardinality(RecentAttempts(mem.reboot_history, now)) >= MaxReboots
              /\ action # "REBOOT"
        /\ /\ ActionSetting = "reboot"
           /\ Cardinality(mem.degraded_timestamps) >= FailLimit
           /\ Cardinality({c \in calls : Stored(c.at) >= now - RebootWindow}) >= MaxReboots
           => mem.breaker_tripped

(* After a cycle that decided a reboot the daemon leaves the device alone  *)
(* for the cooldown, dropped and refused requests included; after any      *)
(* other it waits for the interval.  That a request whose verification was *)
(* HEALTHY is followed by the cooldown, too, is what README.md's table of  *)
(* settings says, and not its workflow (RecoveredWaitsInterval, below).    *)
CyclesPaced ==
    [][pc = "loop" /\ pc' = "measure" /\ result # "none" =>
           now' - now >= (IF action = "REBOOT" THEN Cooldown ELSE Interval)]_vars

-----------------------------------------------------------------------------
(* Alerts.                                                                 *)

(* A delivered degradation alert is repeated within its episode only by a  *)
(* process started after one that died before the flag was in the file.    *)
AlertNotRepeated == pc = "alert" => alert \in {"none", "lost", "ghost"}

(* The flag stands for a delivered alert: of the episode that is still     *)
(* open, or of one that is over when the save that cleared the flag failed *)
(* and its process died.  A recovery alert closes an episode that was      *)
(* alerted, or tells of that one again.                                    *)
AlertFlagTrue ==
    /\ Alive /\ mem.degradation_notification_sent => alert \in {"sent", "durable", "ghost"}
    /\ pc = "recover" => alert \in {"closed", "ghost"}

(* An alerted episode never ends without its recovery alert, unless the    *)
(* process dies just then: the flag is read before transition clears it,   *)
(* and a process that starts within the episode finds it in the file.      *)
RecoveryNotLost == ~LoadFaults /\ alert = "closed" => pc = "recover"

-----------------------------------------------------------------------------
(* What the documents say and the code does not.                           *)

(* README.md, workflow: a neutral result leads to the wait, only a         *)
(* DEGRADED cycle to the reboot.                                           *)
RebootOnlyWhenDegraded == pc = "call" /\ mode # "restart" => result = "DEGRADED"

(* README.md, workflow: while the breaker is tripped the daemon waits for  *)
(* the cooldown.                                                           *)
BreakerWaitsCooldown ==
    [][pc = "loop" /\ pc' = "measure" /\ result = "DEGRADED" /\ mem.breaker_tripped =>
           now' - now >= Cooldown]_vars

(* README.md, workflow: a verification that is HEALTHY leads to the reset  *)
(* and then to the wait for the interval.  The code waits for the cooldown *)
(* after any reboot it has decided.                                        *)
RecoveredWaitsInterval ==
    pc = "sleep" /\ action = "REBOOT" /\ mem.degraded_timestamps = {} =>
        wakeAt = now + Interval

-----------------------------------------------------------------------------
(* Termination.                                                            *)

(* Once told to stop the process ends, and waits for no timer on the way:  *)
(* FairSpec assumes nothing of the clock.                                  *)
StopEnds == stop ~> pc = "down"

-----------------------------------------------------------------------------
(* The inductive invariant behind AttemptsAccounted, RateLimit and          *)
(* ImplementsBudget, for a process with a state file it can read back.      *)

BeforeCall == {"measure", "alert", "alert_save", "recover", "act", "record", "call"}

(* Calls are accounted one after the other; before its own call, a cycle   *)
(* is later than all of them by the grain of the file.                     *)
CallsOrdered ==
    /\ \A c \in calls :
          /\ c.at <= now
          /\ pc \in BeforeCall => Stored(c.at) < Stored(now)
    /\ \A c, d \in calls : Stored(c.at) = Stored(d.at) => c = d

(* The attempt of the call about to be made is on record. *)
AttemptOnRecord ==
    pc = "call" => /\ Accounted(disk.reboot_history, now)
                   /\ Accounted(mem.reboot_history, now)

(* From the decision to the call the budget is not used up: no call comes  *)
(* in between.                                                             *)
DecisionPending ==
    \/ pc \in {"alert", "alert_save", "recover", "act"} /\ action = "REBOOT"
    \/ pc \in {"record", "call"} /\ mode # "restart"

BudgetLeft ==
    DecisionPending => Cardinality({c \in calls : c.at >= now - BudgetSpan}) < MaxReboots

FiniteOK ==
    /\ IsFiniteSet(calls)
    /\ IsFiniteSet(mem.reboot_history)
    /\ IsFiniteSet(disk.reboot_history)

AccountingInv ==
    /\ TypeOK
    /\ FiniteOK
    /\ CallsOrdered
    /\ AttemptOnRecord
    /\ AttemptsAccounted
    /\ BudgetLeft
    /\ RateLimit

-----------------------------------------------------------------------------
(* The inductive invariant behind ProcessLimit, whatever becomes of the     *)
(* file.                                                                    *)

Remembered(attempts, t) == \E a \in attempts : a.timestamp = t

(* The calls of a process end with it, and are not later than its cycle.   *)
OwnCallsPast ==
    /\ ~Alive => own = {}
    /\ \A t \in own : t <= now /\ (pc \in BeforeCall => t < now)

(* A restart command issues one call, and only a daemon sleeps. *)
OneOfCommand ==
    /\ mode = "restart" /\ pc \in {"delay", "loop"} \union BeforeCall => own = {}
    /\ pc = "sleep" => mode = "daemon"

(* The process remembers its calls as they were. *)
OwnRemembered ==
    /\ \A t \in own : t >= now - Retention => Remembered(mem.reboot_history, t)
    /\ pc = "call" => Remembered(mem.reboot_history, now)

OwnBudgetLeft ==
    DecisionPending => Cardinality({t \in own : t >= now - RebootWindow}) < MaxReboots

OwnInv ==
    /\ TypeOK
    /\ FiniteOK
    /\ OwnCallsPast
    /\ OneOfCommand
    /\ OwnRemembered
    /\ OwnBudgetLeft
    /\ ProcessLimit
=============================================================================
