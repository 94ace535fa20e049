--------------------------- MODULE DecisionProofs ---------------------------
(***************************************************************************)
(* Theorems about what the watchdog decides and tells: that an attempt     *)
(* marked accepted was accepted, that an alert is not repeated and its     *)
(* flag stands for a delivery, that an automated call rests on degraded    *)
(* cycles, that the breaker says what it says, and that cycles keep their  *)
(* distance.  Each under the faults it survives; types and accounting are  *)
(* taken from WatchdogProofs.                                              *)
(***************************************************************************)
EXTENDS WatchdogProofs

USE DEF Goto

-----------------------------------------------------------------------------
(* Alerts.                                                                 *)

Flag(state) == state.degradation_notification_sent

(* Once an alert is delivered, the process and, after a save, the file     *)
(* know of it until the episode ends.                                      *)
DeliveryKnown ==
    /\ alert = "durable" => Flag(disk)
    /\ Alive /\ alert \in {"sent", "durable"} => Flag(mem)
    /\ alert = "closed" => pc = "recover"
    /\ ~Alive => alert # "sent"
    /\ AlertNotRepeated

(* The flag, in memory and in the file, has a delivery behind it. *)
FlagHonest ==
    /\ Flag(disk) => alert \in {"sent", "durable", "closed", "ghost"}
    /\ ~Alive => alert \notin {"sent", "closed"}
    /\ pc = "recover" => ~Flag(mem)
    /\ AlertFlagTrue

(* A step that has nothing to do with alerts. *)
QuietStep ==
    /\ disk' = disk /\ alert' = alert /\ Flag(mem') = Flag(mem)
    /\ pc' = "down" <=> pc = "down"
    /\ pc' = "alert" => pc = "alert"
    /\ pc' = "recover" <=> pc = "recover"

(* A step that saves a state whose flag it leaves alone. *)
SavingStep ==
    /\ \E saved \in SaveResults : Save(mem', saved) /\ alert' = AlertAfterSave(mem', saved)
    /\ Flag(mem') = Flag(mem)
    /\ pc \notin {"down", "alert", "recover"}
    /\ pc' \notin {"down", "alert", "recover"}

LEMMA AlertSteps ==
    ASSUME TypeOK, [Next]_vars
    PROVE  \/ QuietStep
           \/ SavingStep
           \/ \E status \in Status, saved \in SaveResults : Evaluate(status, saved)
           \/ \E sent \in BOOLEAN : SendAlert(sent)
           \/ SendRecovery
           \/ Vanish
           \/ Start
<1>1. CASE \/ InitialDelayOver \/ BeginCycle \/ BeginRestartCommand \/ HandleAction
           \/ CallFails \/ SettleOver \/ VerifyFails \/ GoToSleep \/ WakeUp
           \/ Signal \/ Tick \/ UNCHANGED vars
  BY <1>1 DEF QuietStep, InitialDelayOver, BeginCycle, BeginRestartCommand, Begin, HandleAction,
     CallFails, SettleOver, VerifyFails, GoToSleep, WakeUp, Signal, Tick, vars, process, history
<1>2. ASSUME NEW accepted \in BOOLEAN, CallDevice(accepted)
      PROVE  QuietStep
  BY <1>2 DEF QuietStep, CallDevice, process
<1>3. ASSUME NEW saved \in SaveResults, SaveAlertFlag(saved)
      PROVE  SavingStep
  <2>1. mem' = mem /\ Save(mem', saved) /\ alert' = AlertAfterSave(mem', saved)
    BY <1>3 DEF SaveAlertFlag, process
  <2> QED
    BY <1>3, <2>1 DEF SavingStep, SaveAlertFlag
<1>4. ASSUME NEW saved \in SaveResults, RecordAttempt(saved) \/ MarkAccepted(saved)
      PROVE  SavingStep
  <2>1. Flag(mem') = Flag(mem)
    BY <1>4 DEF RecordAttempt, MarkAccepted, RecordReboot, AcceptLast, Flag, TypeOK, WatchdogState
  <2>2. Save(mem', saved) /\ alert' = AlertAfterSave(mem', saved)
    BY <1>4 DEF RecordAttempt, MarkAccepted
  <2>3. pc \in {"record", "mark"} /\ pc' \in {"call", "rest", "settle"}
    BY <1>4 DEF RecordAttempt, MarkAccepted
  <2> QED
    BY <2>1, <2>2, <2>3 DEF SavingStep
<1>5. ASSUME NEW status \in Status, NEW saved \in SaveResults, Verify(status, saved)
      PROVE  SavingStep
  <2>1. Flag(mem') = Flag(mem)
    BY <1>5 DEF Verify, Verified, Flag, TypeOK, WatchdogState
  <2>2. Save(mem', saved) /\ alert' = AlertAfterSave(mem', saved)
    BY <1>5 DEF Verify
  <2> QED
    BY <1>5, <2>1, <2>2 DEF SavingStep, Verify
<1>6. CASE LeaveLoop \/ Return \/ Crash
  BY <1>6 DEF LeaveLoop, Return, Crash
<1> QED
  BY <1>1, <1>2, <1>3, <1>4, <1>5, <1>6 DEF Next, Work, Environment

(* What a save makes of the alert, by the flag that is saved. *)
NextAlert(flag, saved) ==
    IF alert = "sent" /\ HasStateFile /\ saved /\ flag THEN "durable"
    ELSE IF alert = "ghost" /\ saved /\ ~flag THEN "none"
    ELSE alert

(* What a save does to the flag of the file and to the alert. *)
LEMMA SavedFlag ==
    ASSUME NEW state \in WatchdogState, NEW saved \in SaveResults, Save(state, saved)
    PROVE  /\ Flag(disk') = (IF HasStateFile /\ saved THEN Flag(state) ELSE Flag(disk))
           /\ AlertAfterSave(state, saved) = NextAlert(Flag(state), saved)
BY DEF Save, Persisted, Flag, AlertAfterSave, NextAlert, WatchdogState

(* What an evaluation does to the flag of the memory. *)
LEMMA EvaluatedFlag ==
    ASSUME TypeOK, NEW status \in Status, NEW saved \in SaveResults, Evaluate(status, saved)
    PROVE  /\ Flag(mem') <=> status = "DEGRADED" /\ Flag(mem)
           /\ mem' \in WatchdogState /\ Save(mem', saved)
           /\ pc = "measure" /\ pc' \in {"alert", "recover", "act"}
           /\ pc' = "alert" => status = "DEGRADED" /\ ~Flag(mem)
           /\ pc' = "recover" <=> status # "DEGRADED" /\ Flag(mem)
           /\ status = "DEGRADED" => alert' = AlertAfterSave(mem', saved)
           /\ status # "DEGRADED" /\ alert \in {"none", "lost"} => alert' = "none"
           /\ status # "DEGRADED" /\ alert \in {"sent", "durable"} => alert' = "closed"
           /\ status # "DEGRADED" /\ alert \in {"ghost", "closed"} =>
                 alert' = IF Flag(mem) \/ Flag(disk') THEN "ghost" ELSE "none"
<1>1. mem' = Transition(mem, status, now).state
  BY DEF Evaluate
<1>2. mem' \in WatchdogState
  BY <1>1, TransitionType DEF TypeOK
<1>3. Flag(mem') <=> status = "DEGRADED" /\ Flag(mem)
  BY <1>1 DEF Transition, Flag
<1>4. Save(mem', saved) /\ (status = "DEGRADED" => alert' = AlertAfterSave(mem', saved))
  BY <1>1 DEF Evaluate, AlertAfterVerdict
<1>5. pc' = (CASE status = "DEGRADED" /\ ~Flag(mem') -> "alert"
               [] status # "DEGRADED" /\ Flag(mem) -> "recover"
               [] OTHER -> "act")
  BY <1>1 DEF Evaluate, Flag
<1>6. /\ pc = "measure" /\ pc' \in {"alert", "recover", "act"}
      /\ pc' = "alert" => status = "DEGRADED" /\ ~Flag(mem')
      /\ pc' = "recover" <=> status # "DEGRADED" /\ Flag(mem)
  BY <1>5 DEF Evaluate
<1>7. /\ status # "DEGRADED" /\ alert \in {"none", "lost"} => alert' = "none"
      /\ status # "DEGRADED" /\ alert \in {"sent", "durable"} => alert' = "closed"
      /\ status # "DEGRADED" /\ alert \in {"ghost", "closed"} =>
            alert' = IF Flag(mem) \/ Flag(disk') THEN "ghost" ELSE "none"
  BY DEF Evaluate, AlertAfterVerdict, EpisodeOver, Flag
<1> QED
  BY <1>2, <1>3, <1>4, <1>6, <1>7

LEMMA DeliveryKnownStep ==
    ASSUME ~LoadFaults, TypeOK, DeliveryKnown, [Next]_vars
    PROVE  DeliveryKnown'
<1> USE DEF DeliveryKnown, AlertNotRepeated, Alive
<1>1. CASE QuietStep
  BY <1>1 DEF QuietStep
<1>2. CASE SavingStep
  <2>1. PICK saved \in SaveResults : Save(mem', saved) /\ alert' = AlertAfterSave(mem', saved)
    BY <1>2 DEF SavingStep
  <2>2. mem' \in WatchdogState
    BY TypeStep DEF TypeOK
  <2>3. /\ Flag(disk') = (IF HasStateFile /\ saved THEN Flag(mem') ELSE Flag(disk))
        /\ alert' = NextAlert(Flag(mem'), saved)
    BY <2>1, <2>2, SavedFlag
  <2> QED
    BY <1>2, <2>3 DEF SavingStep, NextAlert
<1>3. ASSUME NEW status \in Status, NEW saved \in SaveResults, Evaluate(status, saved)
      PROVE  DeliveryKnown'
  <2>1. /\ Flag(disk') = (IF HasStateFile /\ saved THEN Flag(mem') ELSE Flag(disk))
        /\ AlertAfterSave(mem', saved) = NextAlert(Flag(mem'), saved)
    BY <1>3, EvaluatedFlag, SavedFlag
  <2>2. alert # "closed" /\ alert \in AlertState
    BY <1>3 DEF Evaluate, TypeOK
  <2> QED
    BY <1>3, <2>1, <2>2, EvaluatedFlag DEF AlertState, NextAlert
<1>4. ASSUME NEW sent \in BOOLEAN, SendAlert(sent)
      PROVE  DeliveryKnown'
  BY <1>4 DEF SendAlert, Flag, TypeOK, WatchdogState
<1>5. CASE SendRecovery
  BY <1>5 DEF SendRecovery, EpisodeOver, process
<1>6. CASE Vanish
  BY <1>6 DEF Vanish, EpisodeOver, TypeOK, AlertState, Flag
<1>7. CASE Start
  BY <1>7 DEF Start, LoadResults, history, TypeOK
<1> QED
  BY <1>1, <1>2, <1>3, <1>4, <1>5, <1>6, <1>7, AlertSteps

LEMMA FlagHonestStep ==
    ASSUME TypeOK, FlagHonest, HasStateFile \/ disk = FreshState, [Next]_vars
    PROVE  FlagHonest'
<1> USE DEF FlagHonest, AlertFlagTrue, Alive
<1>1. CASE QuietStep
  BY <1>1 DEF QuietStep, Flag
<1>2. CASE SavingStep
  <2>1. PICK saved \in SaveResults : Save(mem', saved) /\ alert' = AlertAfterSave(mem', saved)
    BY <1>2 DEF SavingStep
  <2>2. mem' \in WatchdogState
    BY TypeStep DEF TypeOK
  <2>3. /\ Flag(disk') = (IF HasStateFile /\ saved THEN Flag(mem') ELSE Flag(disk))
        /\ alert' = NextAlert(Flag(mem'), saved)
    BY <2>1, <2>2, SavedFlag
  <2>4. HasStateFile \/ ~Flag(disk)
    BY DEF Flag, FreshState
  <2>5. /\ Flag(mem) \in BOOLEAN /\ Flag(disk) \in BOOLEAN /\ saved \in BOOLEAN
        /\ alert \in AlertState
    BY DEF Flag, TypeOK, WatchdogState, SaveResults
  <2>6. Flag(mem) => pc = "down" \/ alert \in {"sent", "durable", "ghost"}
    BY DEF Flag
  <2>7. /\ Flag(mem') = Flag(mem)
        /\ pc \notin {"down", "alert", "recover"}
        /\ pc' \notin {"down", "alert", "recover"}
    BY <1>2 DEF SavingStep
  <2>8. Flag(mem') => alert' \in {"sent", "durable", "ghost"}
    BY <2>3, <2>5, <2>7, <2>6 DEF NextAlert
  <2>9. Flag(disk') => alert' \in {"sent", "durable", "closed", "ghost"}
    BY <2>3, <2>4, <2>5, <2>7, <2>6 DEF NextAlert
  <2> QED
    BY <2>7, <2>8, <2>9 DEF Flag
<1>3. ASSUME NEW status \in Status, NEW saved \in SaveResults, Evaluate(status, saved)
      PROVE  FlagHonest'
  <2>1. /\ Flag(disk') = (IF HasStateFile /\ saved THEN Flag(mem') ELSE Flag(disk))
        /\ AlertAfterSave(mem', saved) = NextAlert(Flag(mem'), saved)
    BY <1>3, EvaluatedFlag, SavedFlag
  <2>2. HasStateFile \/ ~Flag(disk)
    BY DEF Flag, FreshState
  <2>3. pc \notin {"down", "recover"} /\ pc' \notin {"down"} /\ alert \in AlertState
    BY <1>3 DEF Evaluate, TypeOK
  <2>4. /\ Flag(mem) \in BOOLEAN /\ Flag(disk) \in BOOLEAN /\ saved \in BOOLEAN
        /\ Flag(mem) => alert \in {"sent", "durable", "ghost"}
    BY <2>3 DEF Flag, TypeOK, WatchdogState, SaveResults
  <2>5. pc' # "recover" \/ ~Flag(mem')
    BY <1>3, EvaluatedFlag
  <2>6. Flag(disk') => alert' \in {"sent", "durable", "closed", "ghost"}
    <3>1. CASE status = "DEGRADED" /\ Flag(mem)
      BY <1>3, <2>1, <2>3, <2>4, <3>1, EvaluatedFlag DEF NextAlert
    <3>2. CASE status = "DEGRADED" /\ ~Flag(mem)
      BY <1>3, <2>1, <2>2, <2>3, <2>4, <3>2, EvaluatedFlag DEF NextAlert
    <3>3. CASE status # "DEGRADED"
      BY <1>3, <2>1, <2>2, <2>3, <2>4, <3>3, EvaluatedFlag DEF AlertState
    <3> QED
      BY <3>1, <3>2, <3>3
  <2>7. Flag(mem') => alert' \in {"sent", "durable", "ghost"}
    BY <1>3, <2>1, <2>3, <2>4, EvaluatedFlag DEF NextAlert
  <2>8. pc' = "recover" => alert' \in {"closed", "ghost"}
    BY <1>3, <2>3, <2>4, EvaluatedFlag DEF AlertState
  <2> QED
    BY <2>3, <2>5, <2>6, <2>7, <2>8 DEF Flag
<1>4. ASSUME NEW sent \in BOOLEAN, SendAlert(sent)
      PROVE  FlagHonest'
  BY <1>4 DEF SendAlert, Flag, TypeOK, WatchdogState
<1>5. CASE SendRecovery
  BY <1>5 DEF SendRecovery, EpisodeOver, Flag, process
<1>6. CASE Vanish
  BY <1>6 DEF Vanish, EpisodeOver, Flag, FreshState, TypeOK, AlertState
<1>7. CASE Start
  BY <1>7 DEF Start, LoadResults, history, Flag, FreshState
<1> QED
  BY <1>1, <1>2, <1>3, <1>4, <1>5, <1>6, <1>7, AlertSteps

(* Without a state file nothing is ever written to one. *)
FileOrFresh == HasStateFile \/ disk = FreshState

LEMMA FileOrFreshInvariance == Spec => []FileOrFresh
<1>1. Init => FileOrFresh
  BY DEF Init, FileOrFresh
<1>2. FileOrFresh /\ [Next]_vars => FileOrFresh'
  BY DEF FileOrFresh, Next, Work, Environment, InitialDelayOver, LeaveLoop, BeginCycle,
     BeginRestartCommand, Begin, Evaluate, SendAlert, SaveAlertFlag, SendRecovery, HandleAction,
     RecordAttempt, CallDevice, CallFails, MarkAccepted, SettleOver, Verify, VerifyFails, Return,
     GoToSleep, WakeUp, Start, Crash, Signal, Tick, Vanish, Save, vars, process, history
<1> QED
  BY <1>1, <1>2, PTL DEF Spec

(* A delivered alert is repeated within its episode only by a process      *)
(* started after one that died before the flag was in the file; saves and  *)
(* deliveries may fail, and there may be no state file at all.             *)
THEOREM AlertIsNotRepeated ==
    ASSUME ~LoadFaults
    PROVE  Spec => []AlertNotRepeated
<1>1. Init => DeliveryKnown
  BY DEF Init, DeliveryKnown, AlertNotRepeated, Alive
<1>2. TypeOK /\ DeliveryKnown /\ [Next]_vars => DeliveryKnown'
  BY DeliveryKnownStep
<1>3. DeliveryKnown => AlertNotRepeated
  BY DEF DeliveryKnown
<1> QED
  BY <1>1, <1>2, <1>3, TypeCorrect, PTL DEF Spec

(* An alerted episode never ends without its recovery alert, unless the    *)
(* process dies just then; saves may fail.                                 *)
THEOREM RecoveryIsNotLost ==
    Spec => []RecoveryNotLost
<1>1. CASE LoadFaults
  <2>1. RecoveryNotLost
    BY <1>1 DEF RecoveryNotLost
  <2> QED
    BY <2>1, PTL
<1>2. CASE ~LoadFaults
  <2>1. Init => DeliveryKnown
    BY DEF Init, DeliveryKnown, AlertNotRepeated, Alive
  <2>2. TypeOK /\ DeliveryKnown /\ [Next]_vars => DeliveryKnown'
    BY <1>2, DeliveryKnownStep
  <2>3. DeliveryKnown => RecoveryNotLost
    BY DEF DeliveryKnown, RecoveryNotLost
  <2> QED
    BY <2>1, <2>2, <2>3, TypeCorrect, PTL DEF Spec
<1> QED
  BY <1>1, <1>2

(* The flag stands for a delivered alert, and so does a recovery alert,    *)
(* whichever saves, loads and deliveries fail.                             *)
THEOREM AlertFlagIsTrue == Spec => []AlertFlagTrue
<1>1. Init => FlagHonest
  BY DEF Init, FlagHonest, AlertFlagTrue, Alive, Flag, FreshState
<1>2. TypeOK /\ FileOrFresh /\ FlagHonest /\ [Next]_vars => FlagHonest'
  BY FlagHonestStep DEF FileOrFresh
<1>3. FlagHonest => AlertFlagTrue
  BY DEF FlagHonest
<1> QED
  BY <1>1, <1>2, <1>3, TypeCorrect, FileOrFreshInvariance, PTL DEF Spec

-----------------------------------------------------------------------------
(* Accepted attempts.                                                      *)

(* Every attempt of a history marked accepted stands for an accepted call. *)
OnlyTrue(attempts) ==
    \A a \in attempts :
        a.accepted => \E c \in calls : c.accepted /\ Stored(c.at) = Stored(a.timestamp)

MarksTrue ==
    /\ OnlyTrue(mem.reboot_history)
    /\ OnlyTrue(disk.reboot_history)
    /\ \A a \in disk.reboot_history : Stored(a.timestamp) = a.timestamp
    /\ pc = "mark" => \E c \in calls : c.accepted /\ c.at = now

(* A save writes true marks, at times the file can hold. *)
LEMMA SavedMarks ==
    ASSUME NEW state \in WatchdogState, NEW saved, Save(state, saved),
           OnlyTrue(state.reboot_history), OnlyTrue(disk.reboot_history),
           \A a \in disk.reboot_history : Stored(a.timestamp) = a.timestamp
    PROVE  /\ \A a \in disk'.reboot_history :
                 a.accepted => \E c \in calls : c.accepted /\ Stored(c.at) = Stored(a.timestamp)
           /\ \A a \in disk'.reboot_history : Stored(a.timestamp) = a.timestamp
<1>1. CASE disk' = disk
  BY <1>1 DEF OnlyTrue
<1>2. CASE disk' = Persisted(state)
  <2> SUFFICES ASSUME NEW a \in Persisted(state).reboot_history
               PROVE  /\ a.accepted => \E c \in calls :
                             c.accepted /\ Stored(c.at) = Stored(a.timestamp)
                      /\ Stored(a.timestamp) = a.timestamp
    BY <1>2
  <2>1. PICK b \in state.reboot_history : a = [b EXCEPT !.timestamp = Stored(@)]
    BY DEF Persisted, WatchdogState
  <2>2. b \in RebootAttempt /\ b.timestamp \in Nat
    BY <2>1 DEF WatchdogState, RebootAttempt
  <2>3. a.timestamp = Stored(b.timestamp) /\ a.accepted = b.accepted
    BY <2>1, <2>2 DEF RebootAttempt
  <2>4. Stored(a.timestamp) = Stored(b.timestamp) /\ Stored(a.timestamp) = a.timestamp
    BY <2>2, <2>3, StoredBounds
  <2> QED
    BY <2>1, <2>3, <2>4 DEF OnlyTrue
<1> QED
  BY <1>1, <1>2 DEF Save

(* A step that keeps the calls and the histories, or saves such a memory. *)
LEMMA SameMarks ==
    ASSUME TypeOK, TypeOK', MarksTrue, calls' = calls,
           mem'.reboot_history \subseteq mem.reboot_history
              \/ \A a \in mem'.reboot_history :
                    a.accepted => \E c \in calls : c.accepted /\ Stored(c.at) = Stored(a.timestamp),
           pc' # "mark" \/ (pc = "mark" /\ now' = now),
           disk' = disk \/ \E saved \in SaveResults : Save(mem', saved)
    PROVE  MarksTrue'
<1>1. \A a \in mem'.reboot_history :
         a.accepted => \E c \in calls : c.accepted /\ Stored(c.at) = Stored(a.timestamp)
  BY DEF MarksTrue, OnlyTrue
<1>2. /\ \A a \in disk'.reboot_history :
            a.accepted => \E c \in calls : c.accepted /\ Stored(c.at) = Stored(a.timestamp)
      /\ \A a \in disk'.reboot_history : Stored(a.timestamp) = a.timestamp
  <2>1. CASE disk' = disk
    BY <2>1 DEF MarksTrue, OnlyTrue
  <2>2. ASSUME NEW saved \in SaveResults, Save(mem', saved)
        PROVE  /\ \A a \in disk'.reboot_history :
                     a.accepted => \E c \in calls : c.accepted /\ Stored(c.at) = Stored(a.timestamp)
               /\ \A a \in disk'.reboot_history : Stored(a.timestamp) = a.timestamp
    <3>1. mem' \in WatchdogState /\ OnlyTrue(mem'.reboot_history)
      BY <1>1 DEF TypeOK, OnlyTrue
    <3> QED
      BY <2>2, <3>1, SavedMarks DEF MarksTrue
  <2> QED
    BY <2>1, <2>2
<1> QED
  BY <1>1, <1>2 DEF MarksTrue, OnlyTrue, Stored

LEMMA MarksStep ==
    ASSUME TypeOK, MarksTrue, [Next]_vars
    PROVE  MarksTrue'
<1> DEFINE True(a) == a.accepted => \E c \in calls : c.accepted /\ Stored(c.at) = Stored(a.timestamp)
<1>0. TypeOK'
  BY TypeStep
<1>1. CASE \/ InitialDelayOver \/ BeginCycle \/ BeginRestartCommand \/ SendRecovery
           \/ HandleAction \/ CallFails \/ SettleOver \/ VerifyFails \/ GoToSleep \/ WakeUp
           \/ Signal \/ Tick \/ UNCHANGED vars
  <2>1. /\ calls' = calls /\ mem' = mem /\ disk' = disk
        /\ pc' # "mark" \/ (pc = "mark" /\ now' = now)
    BY <1>1 DEF InitialDelayOver, BeginCycle, BeginRestartCommand, Begin, SendRecovery,
       HandleAction, CallFails, SettleOver, VerifyFails, GoToSleep, WakeUp, Signal, Tick, vars,
       process, history
  <2> QED
    BY <1>0, <2>1, SameMarks
<1>2. CASE LeaveLoop \/ Return \/ Crash \/ Start
  <2>1. calls' = calls /\ disk' = disk /\ pc' # "mark"
    BY <1>2 DEF LeaveLoop, Return, Crash, Start, Vanish, history
  <2>2. mem' \in {FreshState, disk}
    BY <1>2 DEF LeaveLoop, Return, Crash, Start, Vanish, LoadResults
  <2>3. \A a \in mem'.reboot_history : True(a)
    BY <2>2 DEF MarksTrue, OnlyTrue, FreshState
  <2> QED
    BY <1>0, <2>1, <2>3, SameMarks
<1>3. ASSUME NEW status \in Status, NEW saved \in SaveResults,
             Evaluate(status, saved) \/ Verify(status, saved)
      PROVE  MarksTrue'
  <2>1. calls' = calls /\ pc' # "mark" /\ Save(mem', saved)
    BY <1>3 DEF Evaluate, Verify
  <2>2. mem'.reboot_history \subseteq mem.reboot_history
    <3>1. CASE Evaluate(status, saved)
      <4>1. mem'.reboot_history = PruneHistory(mem.reboot_history, now)
        BY <3>1 DEF Evaluate, Transition
      <4> QED
        BY <4>1 DEF PruneHistory
    <3>2. CASE Verify(status, saved)
      BY <3>2 DEF Verify, Verified, TypeOK, WatchdogState
    <3> QED
      BY <1>3, <3>1, <3>2
  <2> QED
    BY <1>0, <2>1, <2>2, SameMarks
<1>4. ASSUME NEW sent \in BOOLEAN, SendAlert(sent)
      PROVE  MarksTrue'
  <2>1. calls' = calls /\ pc' # "mark" /\ disk' = disk
    BY <1>4 DEF SendAlert
  <2>2. mem'.reboot_history = mem.reboot_history
    BY <1>4 DEF SendAlert, TypeOK, WatchdogState
  <2> QED
    BY <1>0, <2>1, <2>2, SameMarks
<1>5. ASSUME NEW saved \in SaveResults, SaveAlertFlag(saved)
      PROVE  MarksTrue'
  <2>1. calls' = calls /\ pc' # "mark" /\ mem' = mem /\ Save(mem', saved)
    BY <1>5 DEF SaveAlertFlag, process
  <2> QED
    BY <1>0, <2>1, SameMarks
<1>6. ASSUME NEW saved \in SaveResults, RecordAttempt(saved)
      PROVE  MarksTrue'
  <2>1. calls' = calls /\ pc' # "mark" /\ Save(mem', saved)
    BY <1>6 DEF RecordAttempt
  <2>2. mem'.reboot_history = mem.reboot_history \union {[timestamp |-> now, accepted |-> FALSE]}
    BY <1>6 DEF RecordAttempt, RecordReboot, TypeOK, WatchdogState
  <2>3. \A a \in mem'.reboot_history : True(a)
    BY <2>2 DEF MarksTrue, OnlyTrue
  <2> QED
    BY <1>0, <2>1, <2>3, SameMarks
<1>7. ASSUME NEW saved \in SaveResults, MarkAccepted(saved)
      PROVE  MarksTrue'
  <2>1. calls' = calls /\ pc' # "mark" /\ Save(mem', saved) /\ pc = "mark"
    BY <1>7 DEF MarkAccepted
  <2>2. \A a \in mem'.reboot_history : True(a)
    <3> SUFFICES ASSUME NEW a \in mem'.reboot_history PROVE True(a)
      OBVIOUS
    <3>1. PICK b \in mem.reboot_history :
             a = IF b.timestamp = now THEN [b EXCEPT !.accepted = TRUE] ELSE b
      BY <1>7 DEF MarkAccepted, AcceptLast, TypeOK, WatchdogState
    <3>2. b \in RebootAttempt
      BY <3>1 DEF TypeOK, WatchdogState
    <3>3. CASE b.timestamp = now
      <4>1. a.timestamp = now
        BY <3>1, <3>2, <3>3 DEF RebootAttempt
      <4> QED
        BY <2>1, <4>1 DEF MarksTrue
    <3>4. CASE b.timestamp # now
      BY <3>1, <3>4 DEF MarksTrue, OnlyTrue
    <3> QED
      BY <3>3, <3>4
  <2> QED
    BY <1>0, <2>1, <2>2, SameMarks
<1>8. ASSUME NEW accepted \in BOOLEAN, CallDevice(accepted)
      PROVE  MarksTrue'
  <2> DEFINE new == [at |-> now, auto |-> mode # "restart", accepted |-> accepted]
  <2>1. /\ calls' = calls \union {new} /\ mem' = mem /\ disk' = disk /\ now' = now
        /\ pc' = "mark" => accepted
    BY <1>8 DEF CallDevice, process
  <2>2. new.at = now /\ new.accepted = accepted
    OBVIOUS
  <2> HIDE DEF new
  <2>3. pc' = "mark" => \E c \in calls' : c.accepted /\ c.at = now'
    BY <2>1, <2>2
  <2> QED
    BY <2>1, <2>3 DEF MarksTrue, OnlyTrue, Stored
<1> QED
  BY <1>1, <1>2, <1>3, <1>4, <1>5, <1>6, <1>7, <1>8 DEF Next, Work, Environment

(* An attempt the file shows as accepted is one the device accepted,       *)
(* whatever fails.                                                         *)
THEOREM AcceptedMarksAreTrue == Spec => []AcceptedIsTrue
<1>1. Init => MarksTrue
  BY DEF Init, MarksTrue, OnlyTrue, FreshState
<1>2. TypeOK /\ MarksTrue /\ [Next]_vars => MarksTrue'
  BY MarksStep
<1>3. MarksTrue => AcceptedIsTrue
  BY DEF MarksTrue, OnlyTrue, AcceptedIsTrue
<1> QED
  BY <1>1, <1>2, <1>3, TypeCorrect, PTL DEF Spec

-----------------------------------------------------------------------------
(* The evidence of an automated call.                                      *)

(* What a window holds was measured: each of its entries is a degraded     *)
(* cycle since the latest healthy verdict, each cycle is in it once.       *)
Measured(window, cycles, n) ==
    /\ IsFiniteSet(window)
    /\ \A t \in window : /\ t <= n
                         /\ t >= n - FailWindow =>
                               \E e \in cycles : Stored(e) = Stored(t) /\ t <= e
    /\ \A t, u \in window : Stored(t) = Stored(u) => t = u

Recent(cycles, n) == {e \in cycles : e >= n - FailWindow}

(* Until its verdict is in, a cycle is later than all of the window. *)
CycleIsNew ==
    pc = "measure" =>
        \A t \in mem.degraded_timestamps : Stored(t) < Stored(now)

DecisionGrounded ==
    DecisionPending => /\ ActionSetting = "reboot"
                       /\ Cardinality(Recent(evidence, now)) >= FailLimit

MayAct ==
    /\ Alive => mode # "none"
    /\ pc \in {"record", "call"} => mode # "once"

EvidenceInv ==
    /\ IsFiniteSet(evidence)
    /\ Measured(mem.degraded_timestamps, evidence, now)
    /\ Measured(disk.degraded_timestamps, evidence, now)
    /\ CycleIsNew
    /\ DecisionGrounded
    /\ MayAct

(* A window of measured cycles holds no more of them than there were. *)
LEMMA EvidenceCounted ==
    ASSUME NEW n \in Nat, NEW cycles \in SUBSET Nat, IsFiniteSet(cycles),
           NEW window \in SUBSET Nat, Measured(window, cycles, n),
           \A t \in window : t >= n - FailWindow
    PROVE  Cardinality(window) <= Cardinality(Recent(cycles, n))
<1> DEFINE f == [t \in window |-> CHOOSE e \in Recent(cycles, n) : Stored(e) = Stored(t)]
<1>1. ASSUME NEW t \in window
      PROVE  \E e \in Recent(cycles, n) : Stored(e) = Stored(t)
  <2>1. PICK e \in cycles : Stored(e) = Stored(t) /\ t <= e
    BY DEF Measured
  <2>2. e \in Nat /\ t \in Nat /\ e >= n - FailWindow
    BY <2>1, PolicyAssumption
  <2> QED
    BY <2>1, <2>2 DEF Recent
<1>2. \A t \in window : f[t] \in Recent(cycles, n) /\ Stored(f[t]) = Stored(t)
  BY <1>1
<1>3. f \in Injection(window, Recent(cycles, n))
  <2>1. \A t, u \in window : f[t] = f[u] => t = u
    BY <1>2 DEF Measured
  <2> QED
    BY <1>2, <2>1 DEF Injection, IsInjective
<1>4. IsFiniteSet(Recent(cycles, n))
  BY FS_Subset DEF Recent
<1> HIDE DEF f
<1> QED
  BY <1>3, <1>4, FS_Injection

(* Cutting the timestamps of a measured window leaves it measured. *)
LEMMA PersistedMeasured ==
    ASSUME NEW n \in Nat, NEW cycles \in SUBSET Nat,
           NEW window \in SUBSET Nat, Measured(window, cycles, n)
    PROVE  Measured({Stored(t) : t \in window}, cycles, n)
<1> DEFINE S == {Stored(t) : t \in window}
           f == [t \in window |-> Stored(t)]
<1>1. IsFiniteSet(S)
  <2>1. f \in Surjection(window, S)
    BY DEF Surjection
  <2> HIDE DEF f, S
  <2> QED
    BY <2>1, FS_Surjection DEF Measured
<1>2. ASSUME NEW s \in S
      PROVE  /\ s <= n
             /\ s >= n - FailWindow => \E e \in cycles : Stored(e) = Stored(s) /\ s <= e
  <2>1. PICK t \in window : s = Stored(t)
    OBVIOUS
  <2>2. t \in Nat /\ s \in Nat /\ s <= t /\ Stored(s) = Stored(t)
    BY <2>1, StoredBounds
  <2>3. t <= n
    BY DEF Measured
  <2>4. ASSUME s >= n - FailWindow
        PROVE  \E e \in cycles : Stored(e) = Stored(s) /\ s <= e
    <3>1. t >= n - FailWindow
      BY <2>2, <2>4, PolicyAssumption
    <3>2. PICK e \in cycles : Stored(e) = Stored(t) /\ t <= e
      BY <3>1 DEF Measured
    <3> QED
      BY <2>2, <3>2
  <2> QED
    BY <2>2, <2>3, <2>4
<1>3. \A s, u \in S : Stored(s) = Stored(u) => s = u
  BY StoredBounds DEF Measured
<1> QED
  BY <1>1, <1>2, <1>3 DEF Measured

(* Evidence may grow, and lose what is out of the window. *)
LEMMA MeasuredStill ==
    ASSUME NEW n \in Nat, NEW cycles \in SUBSET Nat, NEW later \in SUBSET Nat,
           NEW window \in SUBSET Nat, Measured(window, cycles, n),
           Recent(cycles, n) \subseteq later
    PROVE  Measured(window, later, n)
<1>1. ASSUME NEW t \in window, t >= n - FailWindow
      PROVE  \E e \in later : Stored(e) = Stored(t) /\ t <= e
  <2>1. PICK e \in cycles : Stored(e) = Stored(t) /\ t <= e
    BY <1>1 DEF Measured
  <2>2. e \in Recent(cycles, n)
    BY <1>1, <2>1, PolicyAssumption DEF Recent
  <2> QED
    BY <2>1, <2>2
<1> QED
  BY <1>1 DEF Measured

(* The window after a verdict, and the evidence after it. *)
LEMMA NotedMeasured ==
    ASSUME NEW n \in Nat, NEW cycles \in SUBSET Nat, NEW status \in Status,
           NEW window \in SUBSET Nat, Measured(window, cycles, n),
           \A t \in window : Stored(t) < Stored(n),
           NEW later \in SUBSET Nat,
           status # "HEALTHY" => Recent(cycles, n) \subseteq later,
           status = "DEGRADED" => n \in later
    PROVE  Measured(InFailWindow(NotedTimestamps(window, status, n), n), later, n)
<1> DEFINE W == InFailWindow(NotedTimestamps(window, status, n), n)
<1>1. W \subseteq window \union {n} /\ (n \in W /\ n \notin window => status = "DEGRADED")
      /\ (status = "HEALTHY" => W = {}) /\ \A t \in W : t >= n - FailWindow
  BY DEF InFailWindow, NotedTimestamps
<1> HIDE DEF W
<1>2. IsFiniteSet(W)
  BY <1>1, FS_AddElement, FS_Subset DEF Measured
<1>3. n \notin window
  BY StoredBounds
<1>4. ASSUME NEW t \in W
      PROVE  t <= n /\ \E e \in later : Stored(e) = Stored(t) /\ t <= e
  <2>1. CASE t = n
    BY <1>1, <1>3, <2>1
  <2>2. CASE t # n
    <3>1. t \in window /\ t \in Nat /\ t >= n - FailWindow /\ status # "HEALTHY"
      BY <1>1, <2>2
    <3>2. PICK e \in cycles : Stored(e) = Stored(t) /\ t <= e
      BY <3>1 DEF Measured
    <3>3. e \in Recent(cycles, n)
      BY <3>1, <3>2, PolicyAssumption DEF Recent
    <3> QED
      BY <3>1, <3>2, <3>3 DEF Measured
  <2> QED
    BY <2>1, <2>2
<1>5. \A t, u \in W : Stored(t) = Stored(u) => t = u
  <2> SUFFICES ASSUME NEW t \in W, NEW u \in W, Stored(t) = Stored(u) PROVE t = u
    OBVIOUS
  <2>1. CASE t \in window /\ u \in window
    BY <2>1 DEF Measured
  <2>2. ASSUME NEW v \in window PROVE Stored(v) # Stored(n)
    BY StoredBounds
  <2> QED
    BY <1>1, <2>1, <2>2
<1>6. Measured(W, later, n)
  BY <1>2, <1>4, <1>5 DEF Measured
<1> QED
  BY <1>6 DEF W

LEMMA NothingMeasured ==
    ASSUME NEW cycles, NEW n
    PROVE  Measured({}, cycles, n)
BY FS_EmptySet DEF Measured

(* The file after a save holds the cut timestamps of the state. *)
LEMMA SavedWindow ==
    ASSUME NEW state \in WatchdogState, NEW saved, Save(state, saved)
    PROVE  /\ disk' = disk \/ disk'.degraded_timestamps = {Stored(t) : t \in state.degraded_timestamps}
           /\ HasStateFile /\ saved =>
                disk'.degraded_timestamps = {Stored(t) : t \in state.degraded_timestamps}
BY DEF Save, Persisted, WatchdogState

(* A step that measures nothing and begins no cycle. *)
LEMMA SameEvidence ==
    ASSUME TypeOK, TypeOK', EvidenceInv, evidence' = evidence, now' = now,
           \/ mem'.degraded_timestamps = mem.degraded_timestamps
           \/ mem' \in {disk, FreshState} /\ pc' # "measure",
           \/ disk' = disk
           \/ disk'.degraded_timestamps = {Stored(t) : t \in mem'.degraded_timestamps},
           pc' = "measure" => pc = "measure",
           DecisionPending' => DecisionPending,
           MayAct'
    PROVE  EvidenceInv'
<1>1. Measured(mem'.degraded_timestamps, evidence, now)
  BY NothingMeasured DEF EvidenceInv, FreshState
<1>2. Measured(disk'.degraded_timestamps, evidence, now)
  <2>1. /\ mem'.degraded_timestamps \in SUBSET Nat
        /\ now \in Nat /\ evidence \in SUBSET Nat
    BY DEF TypeOK, WatchdogState
  <2> QED
    BY <1>1, <2>1, PersistedMeasured DEF EvidenceInv
<1>3. CycleIsNew'
  BY DEF EvidenceInv, CycleIsNew, Stored
<1>4. DecisionGrounded'
  BY DEF EvidenceInv, DecisionGrounded
<1> QED
  BY <1>1, <1>2, <1>3, <1>4 DEF EvidenceInv

LEMMA EvidenceBegin ==
    ASSUME TypeOK, TypeOK', EvidenceInv,
           NEW label \in {"measure", "record"}, Begin(label),
           label = "record" => mode = "restart"
    PROVE  EvidenceInv'
<1>1. /\ now' = clock /\ mem' = mem /\ disk' = disk /\ evidence' = evidence /\ mode' = mode
      /\ pc = "loop" /\ pc' = label /\ clock >= now + Grain
  BY DEF Begin, history
<1>2. now \in Nat /\ clock \in Nat /\ now <= clock
  BY <1>1, WatchdogAssumption DEF TypeOK
<1>3. ASSUME NEW window \in SUBSET Nat, Measured(window, evidence, now)
      PROVE  Measured(window, evidence, clock) /\ \A t \in window : Stored(t) < Stored(clock)
  <2>1. ASSUME NEW t \in window
        PROVE  t \in Nat /\ t <= now
    BY <1>3 DEF Measured
  <2>2. ASSUME NEW t \in window
        PROVE  /\ t <= clock /\ Stored(t) < Stored(clock)
               /\ t >= clock - FailWindow => t >= now - FailWindow
    <3>1. t + Grain <= clock
      BY <1>1, <1>2, <2>1, WatchdogAssumption
    <3> QED
      BY <1>2, <2>1, <3>1, StoredBounds, PolicyAssumption
  <2> QED
    BY <1>3, <2>2 DEF Measured
<1>4. mem.degraded_timestamps \in SUBSET Nat /\ disk.degraded_timestamps \in SUBSET Nat
  BY DEF TypeOK, WatchdogState
<1>5. CycleIsNew'
  BY <1>1, <1>3, <1>4 DEF EvidenceInv, CycleIsNew, Stored
<1>6. DecisionGrounded' /\ MayAct'
  BY <1>1 DEF EvidenceInv, DecisionGrounded, DecisionPending, MayAct, Alive
<1> QED
  BY <1>1, <1>3, <1>4, <1>5, <1>6 DEF EvidenceInv

LEMMA EvidenceEvaluate ==
    ASSUME TypeOK, TypeOK', FileOrFresh, EvidenceInv,
           NEW status \in Status, NEW saved \in SaveResults, Evaluate(status, saved)
    PROVE  EvidenceInv'
<1> DEFINE next == Transition(mem, status, now)
           window == InFailWindow(NotedTimestamps(mem.degraded_timestamps, status, now), now)
<1>1. /\ pc = "measure" /\ pc' \in {"alert", "recover", "act"} /\ now' = now /\ mode' = mode
      /\ mem' = next.state /\ action' = next.action /\ Save(mem', saved)
      /\ status = "DEGRADED" => evidence' = Recent(evidence, now) \union {now}
      /\ status # "DEGRADED" /\ ~(status = "HEALTHY" /\ saved) => evidence' = Recent(evidence, now)
      /\ status = "HEALTHY" /\ saved => evidence' = {}
      /\ saved \in BOOLEAN
  BY DEF Evaluate, Recent, SaveResults
<1>2. /\ now \in Nat /\ evidence \in SUBSET Nat /\ evidence' \in SUBSET Nat
      /\ mem.degraded_timestamps \in SUBSET Nat /\ mem' \in WatchdogState
      /\ mem'.degraded_timestamps \in SUBSET Nat
  BY DEF TypeOK, WatchdogState
<1>3. mem'.degraded_timestamps = window
  BY <1>1 DEF Transition
<1>4. Measured(window, evidence', now)
  <2>1. status # "HEALTHY" => Recent(evidence, now) \subseteq evidence'
    BY <1>1 DEF Status
  <2>2. status = "DEGRADED" => now \in evidence'
    BY <1>1
  <2>3. \A t \in mem.degraded_timestamps : Stored(t) < Stored(now)
    BY <1>1 DEF EvidenceInv, CycleIsNew
  <2> QED
    BY <1>2, <2>1, <2>2, <2>3, NotedMeasured DEF EvidenceInv
<1>5. Measured(disk'.degraded_timestamps, evidence', now)
  <2>1. CASE HasStateFile /\ saved
    <3>1. disk'.degraded_timestamps = {Stored(t) : t \in window}
      BY <1>1, <1>2, <1>3, <2>1, SavedWindow
    <3>2. window \in SUBSET Nat
      BY <1>2, <1>3
    <3> QED
      BY <1>2, <1>4, <3>1, <3>2, PersistedMeasured
  <2>2. CASE ~HasStateFile
    BY <1>1, <2>2, NothingMeasured DEF Save, FileOrFresh, FreshState
  <2>3. CASE ~saved
    <3>1. disk' = disk /\ disk.degraded_timestamps \in SUBSET Nat
      BY <1>1, <2>3 DEF Save, TypeOK, WatchdogState
    <3>2. Recent(evidence, now) \subseteq evidence'
      BY <1>1, <2>3
    <3> QED
      BY <1>2, <3>1, <3>2, MeasuredStill DEF EvidenceInv
  <2> QED
    BY <1>1, <2>1, <2>2, <2>3
<1>6. IsFiniteSet(evidence')
  <2>1. IsFiniteSet(Recent(evidence, now))
    BY FS_Subset DEF EvidenceInv, Recent
  <2>2. IsFiniteSet(Recent(evidence, now) \union {now})
    BY <2>1, FS_AddElement
  <2>3. \/ evidence' = Recent(evidence, now) \union {now}
        \/ evidence' = Recent(evidence, now)
        \/ evidence' = {}
    BY <1>1
  <2> QED
    BY <2>1, <2>2, <2>3, FS_EmptySet
<1>7. DecisionGrounded'
  <2> SUFFICES ASSUME action' = "REBOOT"
               PROVE  ActionSetting = "reboot" /\ Cardinality(Recent(evidence', now)) >= FailLimit
    BY <1>1 DEF DecisionGrounded, DecisionPending
  <2> DEFINE limit == Cardinality(window) >= FailLimit
             exhausted == Cardinality(RecentAttempts(PruneHistory(mem.reboot_history, now), now))
                            >= MaxReboots
  <2>1. Decision(limit, exhausted) = "REBOOT"
    BY <1>1 DEF Transition
  <2>2. limit \in BOOLEAN /\ exhausted \in BOOLEAN
    OBVIOUS
  <2>3. limit /\ ActionSetting = "reboot"
    <3> HIDE DEF limit, exhausted
    <3> QED
      BY <2>1, <2>2, PolicyAssumption DEF Decision
  <2>4. Cardinality(window) <= Cardinality(Recent(evidence', now))
    <3>1. \A t \in window : t >= now - FailWindow
      BY DEF InFailWindow
    <3>2. window \in SUBSET Nat
      BY <1>2, <1>3
    <3> HIDE DEF window
    <3> QED
      BY <1>2, <1>4, <1>6, <3>1, <3>2, EvidenceCounted
  <2>5. Cardinality(window) \in Nat /\ Cardinality(Recent(evidence', now)) \in Nat
    BY <1>4, <1>6, FS_CardinalityType, FS_Subset DEF Measured, Recent
  <2> QED
    BY <2>3, <2>4, <2>5, PolicyAssumption
<1>8. CycleIsNew' /\ MayAct'
  BY <1>1 DEF EvidenceInv, CycleIsNew, MayAct, Alive
<1> HIDE DEF window
<1> QED
  BY <1>1, <1>3, <1>4, <1>5, <1>6, <1>7, <1>8 DEF EvidenceInv

LEMMA EvidenceVerify ==
    ASSUME TypeOK, TypeOK', FileOrFresh, EvidenceInv,
           NEW status \in Status, NEW saved \in SaveResults, Verify(status, saved)
    PROVE  EvidenceInv'
<1>1. /\ pc' = "rest" /\ mode' = mode /\ now' = now /\ Save(mem', saved)
      /\ mem' = Verified(mem, status) /\ mem' \in WatchdogState
      /\ evidence' = IF status = "HEALTHY" /\ saved THEN {} ELSE evidence
      /\ saved \in BOOLEAN
  BY DEF Verify, TypeOK, SaveResults
<1>2. MayAct' /\ CycleIsNew' /\ DecisionGrounded'
  BY <1>1 DEF EvidenceInv, MayAct, Alive, CycleIsNew, DecisionGrounded, DecisionPending, Verify
<1>3. CASE status = "HEALTHY" /\ saved
  <2>1. mem'.degraded_timestamps = {}
    BY <1>1, <1>3 DEF Verified, TypeOK, WatchdogState
  <2>2. disk'.degraded_timestamps = {}
    <3>1. CASE HasStateFile
      BY <1>1, <1>3, <2>1, <3>1, SavedWindow
    <3>2. CASE ~HasStateFile
      BY <1>1, <3>2 DEF Save, FileOrFresh, FreshState
    <3> QED
      BY <3>1, <3>2
  <2>3. evidence' = {} /\ IsFiniteSet(evidence')
    BY <1>1, <1>3, FS_EmptySet
  <2> QED
    BY <1>2, <2>1, <2>2, <2>3, NothingMeasured DEF EvidenceInv
<1>4. CASE status # "HEALTHY"
  <2>1. mem' = mem /\ evidence' = evidence
    BY <1>1, <1>4 DEF Verified
  <2>2. \/ disk' = disk
        \/ disk'.degraded_timestamps = {Stored(t) : t \in mem'.degraded_timestamps}
    BY <1>1, SavedWindow
  <2> QED
    BY <1>1, <1>2, <2>1, <2>2, SameEvidence DEF DecisionPending
<1>5. CASE status = "HEALTHY" /\ ~saved
  <2>1. mem'.degraded_timestamps = {} /\ evidence' = evidence /\ disk' = disk
    BY <1>1, <1>5 DEF Verified, TypeOK, WatchdogState, Save
  <2> QED
    BY <1>1, <1>2, <2>1, NothingMeasured DEF EvidenceInv
<1> QED
  BY <1>1, <1>3, <1>4, <1>5

LEMMA EvidenceStep ==
    ASSUME TypeOK, FileOrFresh, EvidenceInv, [Next]_vars
    PROVE  EvidenceInv'
<1>0. TypeOK'
  BY TypeStep
<1>1. CASE \/ InitialDelayOver \/ SendRecovery \/ HandleAction \/ CallFails \/ SettleOver
           \/ VerifyFails \/ GoToSleep \/ WakeUp \/ Signal \/ Tick \/ UNCHANGED vars
           \/ \E accepted \in BOOLEAN : CallDevice(accepted)
  <2>1. /\ evidence' = evidence /\ now' = now /\ mem' = mem /\ disk' = disk
        /\ pc' = "measure" => pc = "measure"
    BY <1>1 DEF InitialDelayOver, SendRecovery, HandleAction, CallFails, CallDevice, SettleOver,
       VerifyFails, GoToSleep, WakeUp, Signal, Tick, vars, process, history
  <2>2. DecisionPending' => DecisionPending
    BY <1>1 DEF DecisionPending, InitialDelayOver, SendRecovery, HandleAction, CallFails,
       CallDevice, SettleOver, VerifyFails, GoToSleep, WakeUp, Signal, Tick, vars, process
  <2>3. MayAct'
    BY <1>1 DEF EvidenceInv, MayAct, Alive, InitialDelayOver, SendRecovery, HandleAction,
       CallFails, CallDevice, SettleOver, VerifyFails, GoToSleep, WakeUp, Signal, Tick, vars,
       process
  <2> QED
    BY <1>0, <2>1, <2>2, <2>3, SameEvidence
<1>2. CASE LeaveLoop \/ Return \/ Crash
  <2>1. Vanish
    BY <1>2 DEF LeaveLoop, Return, Crash
  <2>2. /\ evidence' = evidence /\ now' = now /\ disk' = disk /\ mem' = FreshState
        /\ pc' = "down"
    BY <2>1 DEF Vanish
  <2> QED
    BY <1>0, <2>2, SameEvidence DEF DecisionPending, MayAct, Alive
<1>3. CASE Start
  <2>1. /\ evidence' = evidence /\ now' = now /\ disk' = disk /\ mem' \in {disk, FreshState}
        /\ pc' \in {"delay", "loop"} /\ mode' \in Modes
    BY <1>3 DEF Start, LoadResults, history
  <2>2. MayAct' /\ ~DecisionPending'
    BY <2>1, WatchdogAssumption DEF MayAct, Alive, DecisionPending
  <2> QED
    BY <1>0, <2>1, <2>2, SameEvidence
<1>4. ASSUME NEW sent \in BOOLEAN, SendAlert(sent)
      PROVE  EvidenceInv'
  <2>1. /\ evidence' = evidence /\ now' = now /\ disk' = disk /\ action' = action
        /\ mode' = mode /\ pc = "alert" /\ pc' \in {"alert_save", "act"}
    BY <1>4 DEF SendAlert
  <2>2. mem'.degraded_timestamps = mem.degraded_timestamps
    BY <1>4 DEF SendAlert, TypeOK, WatchdogState
  <2>3. MayAct' /\ (DecisionPending' => DecisionPending)
    BY <2>1 DEF EvidenceInv, MayAct, Alive, DecisionPending
  <2> QED
    BY <1>0, <2>1, <2>2, <2>3, SameEvidence
<1>5. ASSUME NEW saved \in SaveResults,
             SaveAlertFlag(saved) \/ RecordAttempt(saved) \/ MarkAccepted(saved)
      PROVE  EvidenceInv'
  <2>1. /\ evidence' = evidence /\ now' = now /\ action' = action /\ mode' = mode
        /\ \/ pc = "alert_save" /\ pc' = "act"
           \/ pc = "record" /\ pc' \in {"call", "rest"}
           \/ pc = "mark" /\ pc' \in {"rest", "settle"}
    BY <1>5 DEF SaveAlertFlag, RecordAttempt, MarkAccepted, process
  <2>2. mem'.degraded_timestamps = mem.degraded_timestamps
    BY <1>5 DEF SaveAlertFlag, RecordAttempt, MarkAccepted, RecordReboot, AcceptLast, process,
       TypeOK, WatchdogState
  <2>3. Save(mem', saved)
    BY <1>5 DEF SaveAlertFlag, RecordAttempt, MarkAccepted, process
  <2>4. \/ disk' = disk
        \/ disk'.degraded_timestamps = {Stored(t) : t \in mem'.degraded_timestamps}
    BY <1>0, <2>3, SavedWindow DEF TypeOK
  <2>5. MayAct' /\ (DecisionPending' => DecisionPending)
    BY <2>1 DEF EvidenceInv, MayAct, Alive, DecisionPending
  <2> QED
    BY <1>0, <2>1, <2>2, <2>4, <2>5, SameEvidence
<1>6. CASE BeginCycle \/ BeginRestartCommand
  BY <1>0, <1>6, EvidenceBegin DEF BeginCycle, BeginRestartCommand
<1>7. ASSUME NEW status \in Status, NEW saved \in SaveResults,
             Evaluate(status, saved) \/ Verify(status, saved)
      PROVE  EvidenceInv'
  BY <1>0, <1>7, EvidenceEvaluate, EvidenceVerify
<1> QED
  BY <1>0, <1>1, <1>2, <1>3, <1>4, <1>5, <1>6, <1>7 DEF Next, Work, Environment

(* An automated call is made only by a process that may act, and rests on  *)
(* DW_FAIL_LIMIT cycles that really were degraded, no healthy verdict that *)
(* was saved since, across processes, whichever saves and loads fail.      *)
THEOREM CallsAreJustified == Spec => []AutomatedCallJustified
<1>1. Init => EvidenceInv
  BY FS_EmptySet, NothingMeasured
     DEF Init, EvidenceInv, FreshState, CycleIsNew, DecisionGrounded, DecisionPending, MayAct,
         Alive
<1>2. TypeOK /\ FileOrFresh /\ EvidenceInv /\ [Next]_vars => EvidenceInv'
  BY EvidenceStep
<1>3. TypeOK /\ EvidenceInv => AutomatedCallJustified
  BY DEF TypeOK, EvidenceInv, DecisionGrounded, DecisionPending, MayAct, Alive, Recent,
     AutomatedCallJustified
<1> QED
  BY <1>1, <1>2, <1>3, TypeCorrect, FileOrFreshInvariance, PTL DEF Spec

-----------------------------------------------------------------------------
(* The breaker.                                                            *)

LEMMA BreakerEvaluate ==
    ASSUME AccountingInv, NEW status \in Status, NEW saved, Evaluate(status, saved)
    PROVE  BreakerTruthful'
<1> DEFINE pruned    == PruneHistory(mem.reboot_history, now)
           R         == RecentAttempts(pruned, now)
           W         == {c \in calls : Stored(c.at) >= now - RebootWindow}
           window    == InFailWindow(NotedTimestamps(mem.degraded_timestamps, status, now), now)
           exhausted == Cardinality(R) >= MaxReboots
           limit     == Cardinality(window) >= FailLimit
           refused   == limit /\ ActionSetting = "reboot" /\ exhausted
           kept      == mem.breaker_tripped /\ exhausted /\ status # "HEALTHY"
<1>1. /\ pc = "measure" /\ calls' = calls /\ now' = now
      /\ mem' = Transition(mem, status, now).state
      /\ action' = Transition(mem, status, now).action
  BY DEF Evaluate
<1>2. /\ mem'.reboot_history = pruned
      /\ mem'.degraded_timestamps = window
      /\ mem'.breaker_tripped = (refused \/ kept)
      /\ action' = Decision(limit, exhausted)
  BY <1>1 DEF Transition
<1>3. exhausted => Decision(limit, exhausted) # "REBOOT"
  <2>1. limit \in BOOLEAN /\ exhausted \in BOOLEAN
    OBVIOUS
  <2> HIDE DEF limit, exhausted
  <2> QED
    BY <2>1, PolicyAssumption DEF Decision
<1>4. Cardinality(W) >= MaxReboots => exhausted
  <2>1. Cardinality(W) <= Cardinality(R)
    BY <1>1, WindowCounted DEF AccountingInv, Alive
  <2>2. IsFiniteSet(W) /\ IsFiniteSet(R)
    BY FS_Subset, HistoryFinite DEF AccountingInv, TypeOK, FiniteOK
  <2>3. Cardinality(W) \in Nat /\ Cardinality(R) \in Nat
    BY <2>2, FS_CardinalityType
  <2> QED
    BY <2>1, <2>3, PolicyAssumption
<1>5. /\ RecentAttempts(mem'.reboot_history, now') = R
      /\ {c \in calls' : Stored(c.at)' >= now' - RebootWindow} = W
  BY <1>1, <1>2 DEF Stored
<1>6. mem'.breaker_tripped => exhausted /\ action' # "REBOOT"
  BY <1>2, <1>3
<1>7. limit /\ ActionSetting = "reboot" /\ exhausted => mem'.breaker_tripped
  BY <1>2
<1> HIDE DEF R, W, window
<1> QED
  BY <1>2, <1>4, <1>5, <1>6, <1>7 DEF BreakerTruthful, Stored

LEMMA BreakerStep ==
    ASSUME AccountingInv, BreakerTruthful, [Next]_vars
    PROVE  BreakerTruthful'
<1>1. CASE \E status \in Status, saved \in SaveResults : Evaluate(status, saved)
  BY <1>1, BreakerEvaluate
<1>2. CASE \/ SendRecovery \/ Signal \/ Tick \/ UNCHANGED vars
           \/ \E sent \in BOOLEAN : SendAlert(sent)
           \/ \E saved \in SaveResults : SaveAlertFlag(saved)
  <2>1. /\ calls' = calls /\ now' = now /\ action' = action
        /\ mem'.reboot_history = mem.reboot_history
        /\ mem'.degraded_timestamps = mem.degraded_timestamps
        /\ mem'.breaker_tripped = mem.breaker_tripped
    BY <1>2 DEF SendRecovery, Signal, Tick, SendAlert, SaveAlertFlag, vars, process, history,
       AccountingInv, TypeOK, WatchdogState
  <2>2. pc' \in {"alert", "alert_save", "recover", "act"}
           => pc \in {"alert", "alert_save", "recover", "act"}
    BY <1>2 DEF SendRecovery, Signal, Tick, SendAlert, SaveAlertFlag, vars
  <2>3. {c \in calls' : Stored(c.at)' >= now' - RebootWindow}
           = {c \in calls : Stored(c.at) >= now - RebootWindow}
    BY <2>1 DEF Stored
  <2> QED
    BY <2>1, <2>2, <2>3 DEF BreakerTruthful, Stored
<1>3. CASE pc' \notin {"alert", "alert_save", "recover", "act"}
  BY <1>3 DEF BreakerTruthful
<1>4. CASE ~\E status \in Status, saved \in SaveResults : Evaluate(status, saved)
  <2>1. CASE \/ InitialDelayOver \/ LeaveLoop \/ BeginCycle \/ BeginRestartCommand
             \/ HandleAction \/ CallFails \/ SettleOver \/ VerifyFails \/ Return
             \/ GoToSleep \/ WakeUp \/ Start \/ Crash
    BY <1>3, <2>1 DEF InitialDelayOver, LeaveLoop, BeginCycle, BeginRestartCommand, Begin,
       HandleAction, CallFails, SettleOver, VerifyFails, Return, GoToSleep, WakeUp, Start,
       Crash, Vanish
  <2>2. CASE \/ \E saved \in SaveResults : RecordAttempt(saved) \/ MarkAccepted(saved)
             \/ \E accepted \in BOOLEAN : CallDevice(accepted)
             \/ \E status \in Status, saved \in SaveResults : Verify(status, saved)
    BY <1>3, <2>2 DEF RecordAttempt, MarkAccepted, CallDevice, Verify
  <2> QED
    BY <1>2, <1>4, <2>1, <2>2 DEF Next, Work, Environment
<1> QED
  BY <1>1, <1>4

(* The breaker is up after a decision only when the budget is used up, and *)
(* whenever the calls of the window have used it up and a reboot is asked  *)
(* for, for a state file that can be read back, whatever else fails.       *)
THEOREM BreakerIsTruthful ==
    ASSUME HasStateFile, ~LoadFaults
    PROVE  Spec => []BreakerTruthful
<1>1. Init => BreakerTruthful
  BY DEF Init, BreakerTruthful
<1>2. AccountingInv /\ BreakerTruthful /\ [Next]_vars => BreakerTruthful'
  BY BreakerStep
<1> QED
  BY <1>1, <1>2, AccountingInvariance, PTL DEF Spec

-----------------------------------------------------------------------------
(* The distance of cycles.                                                 *)

(* A wait ends when the time of the decision before it has passed, and a   *)
(* process that has decided nothing yet is in its first cycle.             *)
PaceInv ==
    /\ pc \in {"down", "delay"} => result = "none"
    /\ pc = "sleep" => wakeAt = now + WaitTarget
    /\ pc = "loop" /\ result # "none" => stop \/ clock >= now + WaitTarget

(* A step that is no part of a wait. *)
Busy(label) == label \notin {"down", "delay", "sleep", "loop"}

LEMMA PaceStep ==
    ASSUME TypeOK, PaceInv, [Next]_vars
    PROVE  PaceInv'
<1> USE DEF PaceInv, WaitTarget
<1>1. CASE Tick \/ Signal \/ UNCHANGED vars
  <2>1. /\ pc' = pc /\ now' = now /\ action' = action /\ result' = result /\ wakeAt' = wakeAt
        /\ stop => stop'
        /\ clock' = clock \/ clock' = clock + 1
    BY <1>1 DEF Tick, Signal, vars, process, history
  <2>2. clock \in Nat /\ now \in Nat
    BY DEF TypeOK
  <2> QED
    BY <2>1, <2>2, WatchdogAssumption
<1>2. CASE LeaveLoop \/ Return \/ Crash
  BY <1>2 DEF LeaveLoop, Return, Crash, Vanish
<1>3. CASE Start \/ InitialDelayOver
  BY <1>3 DEF Start, InitialDelayOver
<1>4. CASE GoToSleep \/ WakeUp
  BY <1>4 DEF GoToSleep, WakeUp, WaitOver
<1>5. Busy(pc') => PaceInv'
  BY DEF Busy
<1>6. CASE \/ BeginCycle \/ BeginRestartCommand \/ SendRecovery \/ HandleAction
           \/ CallFails \/ SettleOver \/ VerifyFails
  BY <1>5, <1>6 DEF Busy, BeginCycle, BeginRestartCommand, Begin, SendRecovery, HandleAction,
     CallFails, SettleOver, VerifyFails
<1>7. CASE \/ \E status \in Status, saved \in SaveResults : Evaluate(status, saved)
           \/ \E sent \in BOOLEAN : SendAlert(sent)
           \/ \E accepted \in BOOLEAN : CallDevice(accepted)
  <2>1. Busy(pc')
    BY <1>7 DEF Busy, Evaluate, SendAlert, CallDevice
  <2> QED
    BY <1>5, <2>1
<1>8. CASE \/ \E saved \in SaveResults :
                 SaveAlertFlag(saved) \/ RecordAttempt(saved) \/ MarkAccepted(saved)
           \/ \E status \in Status, saved \in SaveResults : Verify(status, saved)
  <2>1. Busy(pc')
    BY <1>8 DEF Busy, SaveAlertFlag, RecordAttempt, MarkAccepted, Verify
  <2> QED
    BY <1>5, <2>1
<1> QED
  BY <1>1, <1>2, <1>3, <1>4, <1>6, <1>7, <1>8 DEF Next, Work, Environment

(* Only the start of a cycle leads from the loop to a measurement, and it  *)
(* reads the clock.                                                        *)
LEMMA CycleBegins ==
    ASSUME Next, pc = "loop", pc' = "measure"
    PROVE  BeginCycle
BY DEF Next, Work, Environment, InitialDelayOver, LeaveLoop, BeginRestartCommand, Begin, Evaluate,
   SendAlert, SaveAlertFlag, SendRecovery, HandleAction, RecordAttempt, CallDevice, CallFails,
   MarkAccepted, SettleOver, Verify, VerifyFails, Return, GoToSleep, WakeUp, Vanish,
   Start, Crash, Signal, Tick

(* Cycles of one process keep the cooldown after a decision to reboot,     *)
(* whatever became of the request, and the interval otherwise.             *)
THEOREM CyclesArePaced == Spec => CyclesPaced
<1>1. Init => PaceInv
  BY DEF Init, PaceInv
<1>2. TypeOK /\ PaceInv /\ [Next]_vars => PaceInv'
  BY PaceStep
<1>3. TypeOK /\ PaceInv /\ [Next]_vars =>
         [pc = "loop" /\ pc' = "measure" /\ result # "none" =>
              now' - now >= (IF action = "REBOOT" THEN Cooldown ELSE Interval)]_vars
  <2> SUFFICES ASSUME TypeOK, PaceInv, Next, pc = "loop", pc' = "measure", result # "none"
               PROVE  now' - now >= (IF action = "REBOOT" THEN Cooldown ELSE Interval)
    OBVIOUS
  <2>1. now' = clock /\ ~stop
    BY CycleBegins DEF BeginCycle, Begin
  <2>2. clock \in Nat /\ now \in Nat /\ clock >= now + WaitTarget
    BY <2>1 DEF PaceInv, TypeOK
  <2> QED
    BY <2>1, <2>2, WatchdogAssumption DEF WaitTarget
<1> QED
  BY <1>1, <1>2, <1>3, TypeCorrect, PTL DEF Spec, CyclesPaced
=============================================================================
