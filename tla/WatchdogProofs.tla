--------------------------- MODULE WatchdogProofs ---------------------------
(***************************************************************************)
(* Theorems about the watchdog process for all values of its constants,    *)
(* checked with TLAPS: type correctness; for a process with a state file   *)
(* it can read back, that no call is lost from the accounting and that the *)
(* rate limit holds; and that the process implements RebootBudget.         *)
(***************************************************************************)
EXTENDS WatchdogProperties, FiniteSetTheorems, TLAPS

USE DEF Goto

-----------------------------------------------------------------------------
(* Types.                                                                  *)

(* Truncation gives a time back, earlier by less than a grain; doing it    *)
(* again changes nothing; times a grain apart stay apart and in order.     *)
LEMMA StoredBounds ==
    /\ \A t \in Nat : /\ Stored(t) \in Nat
                      /\ Stored(t) <= t
                      /\ t - Stored(t) <= Grain - 1
                      /\ Stored(Stored(t)) = Stored(t)
    /\ \A t, u \in Nat : t + Grain <= u => Stored(t) < Stored(u)
<1>1. \A t \in Nat : t % Grain \in Nat /\ t % Grain < Grain /\ t % Grain <= t
  BY WatchdogAssumption
<1>2. \A t \in Nat : /\ Stored(t) \in Nat
                     /\ Stored(t) <= t
                     /\ t - Stored(t) <= Grain - 1
  BY <1>1, WatchdogAssumption DEF Stored
<1>3. \A t \in Nat : Stored(Stored(t)) = Stored(t)
  BY <1>1, WatchdogAssumption, SMTT(30) DEF Stored
<1>4. \A t, u \in Nat : t + Grain <= u => Stored(t) < Stored(u)
  BY <1>2, WatchdogAssumption
<1> QED
  BY <1>2, <1>3, <1>4

LEMMA FreshType == FreshState \in WatchdogState
BY DEF FreshState, WatchdogState

LEMMA PersistedType ==
    ASSUME NEW state \in WatchdogState
    PROVE  Persisted(state) \in WatchdogState
<1>1. \A t \in Nat : Stored(t) \in Nat
  BY StoredBounds
<1>2. {[a EXCEPT !.timestamp = Stored(@)] : a \in state.reboot_history} \in SUBSET RebootAttempt
  BY <1>1 DEF WatchdogState, RebootAttempt
<1>3. {Stored(t) : t \in state.degraded_timestamps} \in SUBSET Nat
  BY <1>1 DEF WatchdogState
<1> QED
  BY <1>2, <1>3 DEF Persisted, WatchdogState

LEMMA SaveType ==
    ASSUME NEW state \in WatchdogState, NEW saved, disk \in WatchdogState, Save(state, saved)
    PROVE  disk' \in WatchdogState
BY PersistedType DEF Save

LEMMA TransitionType ==
    ASSUME NEW state \in WatchdogState, NEW status \in Status, NEW t \in Nat
    PROVE  /\ Transition(state, status, t).state \in WatchdogState
           /\ Transition(state, status, t).action \in ActionType
<1>1. PruneHistory(state.reboot_history, t) \in SUBSET RebootAttempt
  BY DEF PruneHistory, WatchdogState
<1>2. NotedTimestamps(state.degraded_timestamps, status, t) \in SUBSET Nat
  BY DEF NotedTimestamps, WatchdogState
<1>3. InFailWindow(NotedTimestamps(state.degraded_timestamps, status, t), t) \in SUBSET Nat
  BY <1>2 DEF InFailWindow
<1>4. \A limit, exhausted \in BOOLEAN : Decision(limit, exhausted) \in ActionType
  BY PolicyAssumption DEF Decision, ActionType
<1> DEFINE pruned   == PruneHistory(state.reboot_history, t)
           window    == InFailWindow(NotedTimestamps(state.degraded_timestamps, status, t), t)
           exhausted == Cardinality(RecentAttempts(pruned, t)) >= MaxReboots
           limit     == Cardinality(window) >= FailLimit
<1>5. Transition(state, status, t).action = Decision(limit, exhausted)
  BY DEF Transition
<1>6. limit \in BOOLEAN /\ exhausted \in BOOLEAN
  OBVIOUS
<1>7. Transition(state, status, t).action \in ActionType
  BY <1>4, <1>5, <1>6
<1>8. Transition(state, status, t).state \in WatchdogState
  BY <1>1, <1>3 DEF Transition, WatchdogState
<1> QED
  BY <1>7, <1>8

LEMMA RequestType ==
    ASSUME NEW state \in WatchdogState, NEW t \in Nat, NEW status
    PROVE  /\ RecordReboot(state, t) \in WatchdogState
           /\ AcceptLast(state, t) \in WatchdogState
           /\ Verified(state, status) \in WatchdogState
<1>1. RecordReboot(state, t) \in WatchdogState
  <2>1. [timestamp |-> t, accepted |-> FALSE] \in RebootAttempt
    BY DEF RebootAttempt
  <2>2. state.reboot_history \union {[timestamp |-> t, accepted |-> FALSE]} \in SUBSET RebootAttempt
    BY <2>1 DEF WatchdogState
  <2> QED
    BY <2>2 DEF RecordReboot, WatchdogState
<1>2. {IF a.timestamp = t THEN [a EXCEPT !.accepted = TRUE] ELSE a : a \in state.reboot_history}
         \in SUBSET RebootAttempt
  BY DEF WatchdogState, RebootAttempt
<1>3. AcceptLast(state, t) \in WatchdogState
  BY <1>2 DEF AcceptLast, WatchdogState
<1>4. Verified(state, status) \in WatchdogState
  BY DEF Verified, WatchdogState
<1> QED
  BY <1>1, <1>3, <1>4

LEMMA AlertAfterSaveType ==
    ASSUME NEW state, NEW saved, alert \in AlertState
    PROVE  AlertAfterSave(state, saved) \in AlertState
BY DEF AlertAfterSave, AlertState

LEMMA VanishType ==
    ASSUME TypeOK, Vanish
    PROVE  TypeOK'
BY FreshType DEF TypeOK, Vanish, EpisodeOver, AlertState, PcLabel, ActionType

LEMMA TypeStep == TypeOK /\ [Next]_vars => TypeOK'
<1> SUFFICES ASSUME TypeOK, [Next]_vars PROVE TypeOK'
  OBVIOUS
<1> USE DEF TypeOK
<1>1. CASE Work
  <2>1. CASE InitialDelayOver
    BY <2>1 DEF InitialDelayOver, PcLabel, process, history
  <2>2. CASE LeaveLoop
    BY <2>2, VanishType DEF LeaveLoop
  <2>3. CASE BeginCycle
    BY <2>3 DEF BeginCycle, Begin, PcLabel, history
  <2>4. CASE BeginRestartCommand
    BY <2>4 DEF BeginRestartCommand, Begin, PcLabel, history
  <2>5. ASSUME NEW status \in Status, NEW saved \in SaveResults, Evaluate(status, saved)
        PROVE  TypeOK'
    <3> DEFINE next == Transition(mem, status, now)
    <3>1. next.state \in WatchdogState /\ next.action \in ActionType
      BY TransitionType
    <3>2. mem' = next.state /\ action' = next.action /\ Save(next.state, saved)
      BY <2>5 DEF Evaluate
    <3>3. disk' \in WatchdogState
      BY <3>1, <3>2, SaveType
    <3>4. pc' \in PcLabel
      BY <2>5 DEF Evaluate, PcLabel
    <3>5. alert' \in AlertState
      BY <2>5, AlertAfterSaveType DEF Evaluate, AlertAfterVerdict, EpisodeOver, AlertState
    <3>6. evidence' \in SUBSET Nat
      BY <2>5 DEF Evaluate
    <3> QED
      BY <2>5, <3>1, <3>2, <3>3, <3>4, <3>5, <3>6 DEF Evaluate
  <2>6. ASSUME NEW sent \in BOOLEAN, SendAlert(sent)
        PROVE  TypeOK'
    BY <2>6 DEF SendAlert, WatchdogState, AlertState, PcLabel
  <2>7. ASSUME NEW saved \in SaveResults, SaveAlertFlag(saved)
        PROVE  TypeOK'
    BY <2>7, SaveType, AlertAfterSaveType DEF SaveAlertFlag, PcLabel, process
  <2>8. CASE SendRecovery
    BY <2>8 DEF SendRecovery, EpisodeOver, PcLabel, AlertState, process
  <2>9. CASE HandleAction
    BY <2>9 DEF HandleAction, PcLabel, process, history
  <2>10. ASSUME NEW saved \in SaveResults, RecordAttempt(saved)
         PROVE  TypeOK'
    <3>1. mem' \in WatchdogState
      BY <2>10, RequestType DEF RecordAttempt
    <3>2. disk' \in WatchdogState
      BY <2>10, <3>1, SaveType DEF RecordAttempt
    <3> QED
      BY <2>10, <3>1, <3>2, AlertAfterSaveType DEF RecordAttempt, PcLabel
  <2>11. ASSUME NEW accepted \in BOOLEAN, CallDevice(accepted)
         PROVE  TypeOK'
    <3>1. [at |-> now, auto |-> mode # "restart", accepted |-> accepted] \in Call
      BY DEF Call
    <3> QED
      BY <2>11, <3>1 DEF CallDevice, PcLabel, process
  <2>12. CASE CallFails
    BY <2>12 DEF CallFails, PcLabel, process, history
  <2>13. ASSUME NEW saved \in SaveResults, MarkAccepted(saved)
         PROVE  TypeOK'
    <3>1. mem' \in WatchdogState
      BY <2>13, RequestType DEF MarkAccepted
    <3>2. disk' \in WatchdogState
      BY <2>13, <3>1, SaveType DEF MarkAccepted
    <3>3. pc' \in PcLabel /\ wakeAt' \in Nat
      BY <2>13, WatchdogAssumption DEF MarkAccepted, PcLabel
    <3> QED
      BY <2>13, <3>1, <3>2, <3>3, AlertAfterSaveType DEF MarkAccepted
  <2>14. CASE SettleOver
    BY <2>14 DEF SettleOver, PcLabel, history
  <2>15. ASSUME NEW status \in Status, NEW saved \in SaveResults, Verify(status, saved)
         PROVE  TypeOK'
    <3>1. mem' \in WatchdogState
      BY <2>15, RequestType DEF Verify
    <3>2. disk' \in WatchdogState
      BY <2>15, <3>1, SaveType DEF Verify
    <3> QED
      BY <2>15, <3>1, <3>2, AlertAfterSaveType DEF Verify, PcLabel
  <2>16. CASE VerifyFails
    BY <2>16 DEF VerifyFails, PcLabel, process, history
  <2>17. CASE Return
    BY <2>17, VanishType DEF Return
  <2>18. CASE GoToSleep
    BY <2>18, WatchdogAssumption DEF GoToSleep, WaitTarget, PcLabel, history
  <2>19. CASE WakeUp
    BY <2>19 DEF WakeUp, PcLabel, history
  <2> QED
    BY <1>1, <2>1, <2>2, <2>3, <2>4, <2>5, <2>6, <2>7, <2>8, <2>9, <2>10, <2>11, <2>12,
       <2>13, <2>14, <2>15, <2>16, <2>17, <2>18, <2>19 DEF Work
<1>2. CASE Start
  <2>1. mem' \in WatchdogState
    BY <1>2, FreshType DEF Start, LoadResults
  <2>2. pc' \in PcLabel /\ wakeAt' \in Nat
    BY <1>2, WatchdogAssumption DEF Start, PcLabel
  <2>3. mode' \in {"none", "daemon", "once", "once-allow", "restart"}
    BY <1>2, WatchdogAssumption DEF Start
  <2> QED
    BY <1>2, <2>1, <2>2, <2>3 DEF Start, history
<1>3. CASE Crash
  BY <1>3, VanishType DEF Crash
<1>4. CASE Signal
  BY <1>4 DEF Signal, history
<1>5. CASE Tick
  BY <1>5 DEF Tick, process, history
<1>6. CASE UNCHANGED vars
  BY <1>6 DEF vars, process, history
<1> QED
  BY <1>1, <1>2, <1>3, <1>4, <1>5, <1>6 DEF Next, Environment

LEMMA InitTypeOK == Init => TypeOK
<1> SUFFICES ASSUME Init PROVE TypeOK
  OBVIOUS
<1>1. clock \in Nat /\ now \in Nat /\ wakeAt \in Nat
  BY WatchdogAssumption DEF Init
<1>2. mem \in WatchdogState /\ disk \in WatchdogState
  BY FreshType DEF Init
<1> QED
  BY <1>1, <1>2 DEF Init, TypeOK, PcLabel, AlertState, ActionType

(* Every variable of the process, the file and the histories keeps its     *)
(* type, with or without faults of the file.                               *)
THEOREM TypeCorrect == Spec => []TypeOK
BY InitTypeOK, TypeStep, PTL DEF Spec

-----------------------------------------------------------------------------
(* Accounting: what the operators of the policy and of the file keep.       *)

(* Recording, accepting and writing to the file lose no attempt, and keep  *)
(* the history finite.                                                     *)
LEMMA HistoryKept ==
    ASSUME NEW state \in WatchdogState, NEW n \in Nat,
           NEW t \in Nat, Accounted(state.reboot_history, t)
    PROVE  /\ Accounted(Persisted(state).reboot_history, t)
           /\ Accounted(RecordReboot(state, n).reboot_history, t)
           /\ Accounted(AcceptLast(state, n).reboot_history, t)
<1>1. PICK a \in state.reboot_history : Stored(a.timestamp) = Stored(t)
  BY DEF Accounted
<1>2. a \in RebootAttempt /\ a.timestamp \in Nat
  BY DEF WatchdogState, RebootAttempt
<1>3. Accounted(Persisted(state).reboot_history, t)
  <2> DEFINE b == [a EXCEPT !.timestamp = Stored(@)]
  <2>1. b \in Persisted(state).reboot_history
    BY DEF Persisted, WatchdogState
  <2>2. b.timestamp = Stored(a.timestamp)
    BY <1>2 DEF RebootAttempt
  <2>3. Stored(b.timestamp) = Stored(t)
    BY <1>1, <1>2, <2>2, StoredBounds
  <2> QED
    BY <2>1, <2>3 DEF Accounted
<1>4. Accounted(RecordReboot(state, n).reboot_history, t)
  BY <1>1 DEF Accounted, RecordReboot, WatchdogState
<1>5. Accounted(AcceptLast(state, n).reboot_history, t)
  <2> DEFINE b == IF a.timestamp = n THEN [a EXCEPT !.accepted = TRUE] ELSE a
  <2>1. b \in AcceptLast(state, n).reboot_history
    BY DEF AcceptLast, WatchdogState
  <2>2. b.timestamp = a.timestamp
    BY <1>2 DEF RebootAttempt
  <2> QED
    BY <1>1, <2>1, <2>2 DEF Accounted
<1> QED
  BY <1>3, <1>4, <1>5

LEMMA HistoryFinite ==
    ASSUME NEW state \in WatchdogState, NEW n \in Nat, IsFiniteSet(state.reboot_history)
    PROVE  /\ IsFiniteSet(Persisted(state).reboot_history)
           /\ IsFiniteSet(RecordReboot(state, n).reboot_history)
           /\ IsFiniteSet(AcceptLast(state, n).reboot_history)
           /\ IsFiniteSet(PruneHistory(state.reboot_history, n))
           /\ IsFiniteSet(RecentAttempts(PruneHistory(state.reboot_history, n), n))
<1> DEFINE H == state.reboot_history
<1>1. IsFiniteSet(Persisted(state).reboot_history)
  <2> DEFINE T == Persisted(state).reboot_history
             f == [a \in H |-> [a EXCEPT !.timestamp = Stored(@)]]
  <2>1. T = {[a EXCEPT !.timestamp = Stored(@)] : a \in H}
    BY DEF Persisted, WatchdogState
  <2>2. f \in Surjection(H, T)
    BY <2>1 DEF Surjection
  <2>3. IsFiniteSet(T)
    <3> HIDE DEF f, T
    <3> QED
      BY <2>2, FS_Surjection
  <2> QED
    BY <2>3
<1>2. IsFiniteSet(RecordReboot(state, n).reboot_history)
  BY FS_AddElement DEF RecordReboot, WatchdogState
<1>3. IsFiniteSet(AcceptLast(state, n).reboot_history)
  <2> DEFINE T == AcceptLast(state, n).reboot_history
             f == [a \in H |-> IF a.timestamp = n THEN [a EXCEPT !.accepted = TRUE] ELSE a]
  <2>1. T = {IF a.timestamp = n THEN [a EXCEPT !.accepted = TRUE] ELSE a : a \in H}
    BY DEF AcceptLast, WatchdogState
  <2>2. f \in Surjection(H, T)
    BY <2>1 DEF Surjection
  <2>3. IsFiniteSet(T)
    <3> HIDE DEF f, T
    <3> QED
      BY <2>2, FS_Surjection
  <2> QED
    BY <2>3
<1>4. IsFiniteSet(PruneHistory(state.reboot_history, n))
  BY FS_Subset DEF PruneHistory
<1>5. IsFiniteSet(RecentAttempts(PruneHistory(state.reboot_history, n), n))
  BY <1>4, FS_Subset DEF RecentAttempts
<1> QED
  BY <1>1, <1>2, <1>3, <1>4, <1>5

(* Pruning keeps what is within retention. *)
LEMMA PruneKeeps ==
    ASSUME NEW attempts \in SUBSET RebootAttempt, NEW n \in Nat, NEW t \in Nat,
           Accounted(attempts, t), Stored(t) >= n - Retention
    PROVE  Accounted(PruneHistory(attempts, n), t)
<1>1. PICK a \in attempts : Stored(a.timestamp) = Stored(t)
  BY DEF Accounted
<1>2. a.timestamp \in Nat /\ Retention \in Int
  BY PolicyAssumption DEF RebootAttempt, Retention
<1>3. a.timestamp >= Stored(t)
  BY <1>1, <1>2, StoredBounds
<1>4. a.timestamp >= n - Retention
  BY <1>2, <1>3, StoredBounds
<1> QED
  BY <1>1, <1>4 DEF Accounted, PruneHistory

(* A save of a state that lost no attempt leaves a file that lost none. *)
LEMMA SaveKeeps ==
    ASSUME NEW state \in WatchdogState, NEW saved, disk \in WatchdogState, Save(state, saved)
    PROVE  /\ \A t \in Nat : Accounted(disk.reboot_history, t) /\ Accounted(state.reboot_history, t)
                              => Accounted(disk'.reboot_history, t)
           /\ HasStateFile /\ saved =>
                \A t \in Nat : Accounted(state.reboot_history, t) => Accounted(disk'.reboot_history, t)
           /\ IsFiniteSet(disk.reboot_history) /\ IsFiniteSet(state.reboot_history)
                => IsFiniteSet(disk'.reboot_history)
<1>1. disk' = disk \/ disk' = Persisted(state)
  BY DEF Save
<1>2. HasStateFile /\ saved => disk' = Persisted(state)
  BY DEF Save
<1>3. 0 \in Nat
  OBVIOUS
<1>4. \A t \in Nat : Accounted(state.reboot_history, t) => Accounted(Persisted(state).reboot_history, t)
  BY <1>3, HistoryKept
<1>5. IsFiniteSet(state.reboot_history) => IsFiniteSet(Persisted(state).reboot_history)
  BY <1>3, HistoryFinite
<1> QED
  BY <1>1, <1>2, <1>4, <1>5
-----------------------------------------------------------------------------
(* Accounting: every step keeps the invariant.                             *)

LEMMA BudgetSpanType == BudgetSpan \in Int /\ Retention \in Nat /\ RebootWindow <= Retention
BY PolicyAssumption, WatchdogAssumption DEF BudgetSpan, Retention

(* The calls of the window are no more than the attempts the decision      *)
(* counts: each has an attempt of its own in memory, recent enough even if *)
(* the file has cut its timestamp.                                         *)
LEMMA WindowCounted ==
    ASSUME TypeOK, FiniteOK, CallsOrdered, AttemptsAccounted, Alive
    PROVE  Cardinality({c \in calls : Stored(c.at) >= now - RebootWindow})
              <= Cardinality(RecentAttempts(PruneHistory(mem.reboot_history, now), now))
<1> DEFINE C == {c \in calls : Stored(c.at) >= now - RebootWindow}
           R == RecentAttempts(PruneHistory(mem.reboot_history, now), now)
           f == [c \in C |-> CHOOSE a \in R : Stored(a.timestamp) = Stored(c.at)]
<1>1. \A c \in calls : c \in Call /\ c.at \in Nat
  BY DEF TypeOK, Call
<1>2. mem.reboot_history \in SUBSET RebootAttempt /\ now \in Nat
  BY DEF TypeOK, WatchdogState
<1>3. ASSUME NEW c \in C
      PROVE  \E a \in R : Stored(a.timestamp) = Stored(c.at)
  <2>1. c \in calls /\ c.at \in Nat
    BY <1>1
  <2>2. Stored(c.at) \in Nat
    BY <2>1, StoredBounds
  <2>3. Stored(c.at) >= now - RebootWindow
    OBVIOUS
  <2>4. Stored(c.at) >= now - Retention
    BY <1>2, <2>2, <2>3, BudgetSpanType, PolicyAssumption
  <2>5. Accounted(mem.reboot_history, c.at)
    BY <2>1, <2>4 DEF AttemptsAccounted
  <2>6. Accounted(PruneHistory(mem.reboot_history, now), c.at)
    BY <1>2, <2>1, <2>4, <2>5, PruneKeeps
  <2>7. PICK a \in PruneHistory(mem.reboot_history, now) : Stored(a.timestamp) = Stored(c.at)
    BY <2>6 DEF Accounted
  <2>8. a.timestamp \in Nat
    BY <1>2, <2>7 DEF PruneHistory, RebootAttempt
  <2>9. a.timestamp >= Stored(c.at)
    BY <2>7, <2>8, StoredBounds
  <2>10. a.timestamp >= now - RebootWindow
    BY <1>2, <2>2, <2>3, <2>8, <2>9, PolicyAssumption
  <2> QED
    BY <2>7, <2>10 DEF RecentAttempts
<1>4. \A c \in C : f[c] \in R /\ Stored(f[c].timestamp) = Stored(c.at)
  BY <1>3
<1>5. f \in Injection(C, R)
  <2>1. f \in [C -> R]
    BY <1>4
  <2>2. \A c, d \in C : f[c] = f[d] => c = d
    BY <1>4 DEF CallsOrdered
  <2> QED
    BY <2>1, <2>2 DEF Injection, IsInjective
<1>6. IsFiniteSet(R)
  BY HistoryFinite DEF TypeOK, FiniteOK
<1> QED
  <2> HIDE DEF C, R, f
  <2>1. Cardinality(C) <= Cardinality(R)
    BY <1>5, <1>6, FS_Injection
  <2> QED
    BY <2>1 DEF C, R

(* So are those of the span the limit is kept for. *)
LEMMA CallsCounted ==
    ASSUME TypeOK, FiniteOK, CallsOrdered, AttemptsAccounted, Alive
    PROVE  Cardinality({c \in calls : c.at >= now - BudgetSpan})
              <= Cardinality(RecentAttempts(PruneHistory(mem.reboot_history, now), now))
<1> DEFINE C == {c \in calls : c.at >= now - BudgetSpan}
           W == {c \in calls : Stored(c.at) >= now - RebootWindow}
           R == RecentAttempts(PruneHistory(mem.reboot_history, now), now)
<1>1. C \subseteq W
  <2> SUFFICES ASSUME NEW c \in calls, c.at >= now - BudgetSpan
               PROVE  Stored(c.at) >= now - RebootWindow
    OBVIOUS
  <2>1. c.at \in Nat /\ now \in Nat
    BY DEF TypeOK, Call
  <2>2. Stored(c.at) \in Nat /\ c.at - Stored(c.at) <= Grain - 1
    BY <2>1, StoredBounds
  <2> QED
    BY <2>1, <2>2, PolicyAssumption, WatchdogAssumption DEF BudgetSpan
<1>2. IsFiniteSet(W) /\ IsFiniteSet(R)
  BY FS_Subset, HistoryFinite DEF TypeOK, FiniteOK
<1>3. Cardinality(W) <= Cardinality(R)
  BY WindowCounted
<1> HIDE DEF C, W, R
<1>4. Cardinality(C) <= Cardinality(W)
  BY <1>1, <1>2, FS_Subset
<1>5. Cardinality(C) \in Nat /\ Cardinality(W) \in Nat /\ Cardinality(R) \in Nat
  BY <1>1, <1>2, FS_Subset, FS_CardinalityType
<1> QED
  BY <1>3, <1>4, <1>5 DEF C, R

-----------------------------------------------------------------------------
(* A step after which the file and the process account for all they did.   *)
NoAttemptLost ==
    \A t \in Nat :
        /\ Stored(t) >= now - Retention
        /\ Accounted(disk.reboot_history, t)
        /\ Alive => Accounted(mem.reboot_history, t)
        => /\ Accounted(disk'.reboot_history, t)
           /\ Alive' => Accounted(mem'.reboot_history, t)

(* What a step that issues no call and begins no cycle has to keep.        *)
LEMMA SameCalls ==
    ASSUME AccountingInv, TypeOK', calls' = calls, now' = now,
           pc' \in BeforeCall => pc \in BeforeCall,
           FiniteOK', NoAttemptLost, AttemptOnRecord', BudgetLeft'
    PROVE  AccountingInv'
<1>1. CallsOrdered'
  BY DEF AccountingInv, CallsOrdered
<1>2. AttemptsAccounted'
  <2>1. \A c \in calls : c.at \in Nat
    BY DEF AccountingInv, TypeOK, Call
  <2> QED
    BY <2>1 DEF AccountingInv, AttemptsAccounted, NoAttemptLost
<1>3. RateLimit'
  BY DEF AccountingInv, RateLimit
<1> QED
  BY <1>1, <1>2, <1>3 DEF AccountingInv

(* The same for a step that leaves both histories alone.                   *)
LEMMA SameHistories ==
    ASSUME AccountingInv, TypeOK', calls' = calls, now' = now,
           mem'.reboot_history = mem.reboot_history,
           disk'.reboot_history = disk.reboot_history,
           pc' \in BeforeCall => pc \in BeforeCall,
           pc' = "call" => pc = "call",
           Alive' => Alive,
           DecisionPending' => DecisionPending
    PROVE  AccountingInv'
<1>1. FiniteOK'
  BY DEF AccountingInv, FiniteOK
<1>2. NoAttemptLost
  BY DEF NoAttemptLost
<1>3. AttemptOnRecord'
  BY DEF AccountingInv, AttemptOnRecord, Accounted
<1>4. BudgetLeft'
  BY DEF AccountingInv, BudgetLeft
<1> QED
  BY <1>1, <1>2, <1>3, <1>4, SameCalls

(* The same for a save of a memory whose history did not change.           *)
LEMMA SavedHistories ==
    ASSUME AccountingInv, TypeOK', calls' = calls, now' = now, Alive,
           NEW saved, Save(mem', saved),
           mem'.reboot_history = mem.reboot_history,
           pc' \in BeforeCall => pc \in BeforeCall,
           pc' # "call",
           DecisionPending' => DecisionPending
    PROVE  AccountingInv'
<1>1. mem' \in WatchdogState /\ disk \in WatchdogState
  BY DEF AccountingInv, TypeOK
<1>2. FiniteOK'
  <2>1. IsFiniteSet(disk.reboot_history) /\ IsFiniteSet(mem'.reboot_history) /\ IsFiniteSet(calls')
    BY DEF AccountingInv, FiniteOK
  <2>2. IsFiniteSet(disk'.reboot_history)
    BY <1>1, <2>1, SaveKeeps
  <2> QED
    BY <2>1, <2>2 DEF FiniteOK
<1>3. NoAttemptLost
  <2>1. \A t \in Nat : Accounted(disk.reboot_history, t) /\ Accounted(mem'.reboot_history, t)
                       => Accounted(disk'.reboot_history, t)
    BY <1>1, SaveKeeps
  <2> QED
    BY <2>1 DEF NoAttemptLost
<1>4. AttemptOnRecord'
  BY DEF AttemptOnRecord
<1>5. BudgetLeft'
  BY DEF AccountingInv, BudgetLeft
<1> QED
  BY <1>2, <1>3, <1>4, <1>5, SameCalls

(* The end of a process, by return or by crash. *)
LEMMA AccountingVanish ==
    ASSUME AccountingInv, TypeOK', Vanish
    PROVE  AccountingInv'
<1>1. FiniteOK'
  BY FS_EmptySet DEF AccountingInv, FiniteOK, Vanish, FreshState
<1>2. NoAttemptLost
  BY DEF NoAttemptLost, Vanish, Alive
<1>3. AttemptOnRecord' /\ BudgetLeft'
  BY DEF Vanish, AttemptOnRecord, BudgetLeft, DecisionPending
<1>4. calls' = calls /\ now' = now /\ pc' \notin BeforeCall
  BY DEF Vanish, BeforeCall
<1> QED
  BY <1>1, <1>2, <1>3, <1>4, SameCalls

LEMMA AccountingStart ==
    ASSUME ~LoadFaults, AccountingInv, TypeOK', Start
    PROVE  AccountingInv'
<1>1. mem' = disk /\ disk' = disk /\ calls' = calls /\ now' = now
  BY DEF Start, LoadResults, history
<1>2. pc = "down" /\ pc' \in {"delay", "loop"}
  BY DEF Start
<1>3. FiniteOK'
  BY <1>1 DEF AccountingInv, FiniteOK
<1>4. NoAttemptLost
  BY <1>1, <1>2 DEF NoAttemptLost
<1>5. AttemptOnRecord' /\ BudgetLeft'
  BY <1>2 DEF AttemptOnRecord, BudgetLeft, DecisionPending
<1>6. pc' \notin BeforeCall
  BY <1>2 DEF BeforeCall
<1> QED
  BY <1>1, <1>3, <1>4, <1>5, <1>6, SameCalls
(* A new cycle is later than every call by the grain of the file. *)
LEMMA AccountingBegin ==
    ASSUME AccountingInv, TypeOK', NEW label \in {"measure", "record"}, Begin(label),
           label = "record" => mode = "restart"
    PROVE  AccountingInv'
<1>1. /\ pc = "loop" /\ pc' = label /\ mode' = mode
      /\ mem' = mem /\ disk' = disk /\ calls' = calls
      /\ now + Grain <= now'
  BY DEF Begin, history, AccountingInv, TypeOK
<1>2. /\ now \in Nat /\ now' \in Nat /\ \A c \in calls : c.at \in Nat
  BY DEF AccountingInv, TypeOK, Call
<1>3. now < now' /\ Stored(now) < Stored(now')
  BY <1>1, <1>2, StoredBounds, WatchdogAssumption
<1>4. \A c \in calls : c.at <= now' /\ Stored(c.at) < Stored(now')
  <2> SUFFICES ASSUME NEW c \in calls PROVE c.at <= now' /\ Stored(c.at) < Stored(now')
    OBVIOUS
  <2>1. c.at <= now
    BY DEF AccountingInv, CallsOrdered
  <2> QED
    BY <1>1, <1>2, <2>1, <1>3, StoredBounds, WatchdogAssumption
<1>5. CallsOrdered'
  BY <1>1, <1>4 DEF AccountingInv, CallsOrdered
<1>6. AttemptsAccounted'
  <2> SUFFICES ASSUME NEW c \in calls, Stored(c.at) >= now' - Retention
               PROVE  /\ Accounted(disk.reboot_history, c.at)
                      /\ Accounted(mem.reboot_history, c.at)
    BY <1>1 DEF AttemptsAccounted
  <2>1. Stored(c.at) \in Nat
    BY <1>2, StoredBounds
  <2>2. Stored(c.at) >= now - Retention
    BY <1>2, <1>3, <2>1, BudgetSpanType
  <2> QED
    BY <1>1, <2>2 DEF AccountingInv, AttemptsAccounted, Alive
<1>7. FiniteOK'
  BY <1>1 DEF AccountingInv, FiniteOK
<1>8. AttemptOnRecord' /\ BudgetLeft'
  BY <1>1 DEF AttemptOnRecord, BudgetLeft, DecisionPending
<1>9. RateLimit'
  BY <1>1 DEF AccountingInv, RateLimit
<1> QED
  BY <1>5, <1>6, <1>7, <1>8, <1>9 DEF AccountingInv

(* The verdict: pruning forgets only what is past retention, and a reboot  *)
(* is decided only while the budget is not used up.                        *)
LEMMA AccountingEvaluate ==
    ASSUME AccountingInv, TypeOK', NEW status \in Status, NEW saved, Evaluate(status, saved)
    PROVE  AccountingInv'
<1> DEFINE next == Transition(mem, status, now)
<1>1. /\ pc = "measure" /\ pc' \in {"alert", "recover", "act"}
      /\ calls' = calls /\ now' = now /\ mem' = next.state /\ action' = next.action
      /\ Save(mem', saved)
  BY DEF Evaluate
<1>2. mem'.reboot_history = PruneHistory(mem.reboot_history, now)
  BY <1>1 DEF Transition
<1>3. /\ mem \in WatchdogState /\ mem' \in WatchdogState /\ disk \in WatchdogState
      /\ now \in Nat /\ mem.reboot_history \in SUBSET RebootAttempt
  BY DEF AccountingInv, TypeOK, WatchdogState
<1>4. FiniteOK'
  <2>1. IsFiniteSet(mem'.reboot_history)
    BY <1>2, <1>3, HistoryFinite DEF AccountingInv, FiniteOK
  <2>2. IsFiniteSet(disk'.reboot_history)
    BY <1>1, <1>3, <2>1, SaveKeeps DEF AccountingInv, FiniteOK
  <2> QED
    BY <1>1, <2>1, <2>2 DEF AccountingInv, FiniteOK
<1>5. NoAttemptLost
  <2> SUFFICES ASSUME NEW t \in Nat, Stored(t) >= now - Retention,
                      Accounted(disk.reboot_history, t), Accounted(mem.reboot_history, t)
               PROVE  Accounted(disk'.reboot_history, t) /\ Accounted(mem'.reboot_history, t)
    BY <1>1 DEF NoAttemptLost, Alive
  <2>1. Accounted(mem'.reboot_history, t)
    BY <1>2, <1>3, PruneKeeps
  <2>2. Accounted(disk'.reboot_history, t)
    BY <1>1, <1>3, <2>1, SaveKeeps
  <2> QED
    BY <2>1, <2>2
<1>6. AttemptOnRecord'
  BY <1>1 DEF AttemptOnRecord
<1>7. BudgetLeft'
  <2> DEFINE R == RecentAttempts(PruneHistory(mem.reboot_history, now), now)
             C == {c \in calls : c.at >= now - BudgetSpan}
  <2> SUFFICES ASSUME action' = "REBOOT" PROVE Cardinality(C) < MaxReboots
    BY <1>1 DEF BudgetLeft, DecisionPending
  <2>1. next.action = Decision(Cardinality(InFailWindow(
              NotedTimestamps(mem.degraded_timestamps, status, now), now)) >= FailLimit,
            Cardinality(R) >= MaxReboots)
    BY DEF Transition
  <2>2. \A limit, exhausted \in BOOLEAN : Decision(limit, exhausted) = "REBOOT" => ~exhausted
    BY PolicyAssumption DEF Decision
  <2>3. ~(Cardinality(R) >= MaxReboots)
    <3> DEFINE limit == Cardinality(InFailWindow(
                          NotedTimestamps(mem.degraded_timestamps, status, now), now)) >= FailLimit
               exhausted == Cardinality(R) >= MaxReboots
    <3>1. limit \in BOOLEAN /\ exhausted \in BOOLEAN
      OBVIOUS
    <3>2. Decision(limit, exhausted) = "REBOOT"
      BY <1>1, <2>1
    <3> HIDE DEF limit, exhausted
    <3>3. ~exhausted
      BY <2>2, <3>1, <3>2
    <3> QED
      BY <3>3 DEF exhausted
  <2>4. Cardinality(C) <= Cardinality(R)
    BY <1>1, CallsCounted DEF AccountingInv, Alive
  <2>5. Cardinality(R) \in Nat /\ Cardinality(C) \in Nat
    <3>1. IsFiniteSet(R)
      BY <1>3, HistoryFinite DEF AccountingInv, FiniteOK
    <3>2. IsFiniteSet(C)
      BY FS_Subset DEF AccountingInv, FiniteOK
    <3> QED
      BY <3>1, <3>2, FS_CardinalityType
  <2> QED
    BY <2>3, <2>4, <2>5, PolicyAssumption
<1>8. pc' \in BeforeCall => pc \in BeforeCall
  BY <1>1 DEF BeforeCall
<1> QED
  BY <1>1, <1>4, <1>5, <1>6, <1>7, <1>8, SameCalls

(* The attempt is in the file before there is a call to account for. *)
LEMMA AccountingRecord ==
    ASSUME HasStateFile, AccountingInv, TypeOK', NEW saved \in BOOLEAN, RecordAttempt(saved)
    PROVE  AccountingInv'
<1>1. /\ pc = "record" /\ pc' = (IF saved THEN "call" ELSE "rest")
      /\ mem' = RecordReboot(mem, now) /\ Save(mem', saved)
      /\ calls' = calls /\ now' = now /\ mode' = mode /\ action' = action
  BY DEF RecordAttempt
<1>2. /\ mem \in WatchdogState /\ mem' \in WatchdogState /\ disk \in WatchdogState /\ now \in Nat
  BY DEF AccountingInv, TypeOK
<1>3. FiniteOK'
  <2>1. IsFiniteSet(mem'.reboot_history)
    BY <1>1, <1>2, HistoryFinite DEF AccountingInv, FiniteOK
  <2>2. IsFiniteSet(disk'.reboot_history)
    BY <1>1, <1>2, <2>1, SaveKeeps DEF AccountingInv, FiniteOK
  <2> QED
    BY <1>1, <2>1, <2>2 DEF AccountingInv, FiniteOK
<1>4. NoAttemptLost
  <2>1. \A t \in Nat : Accounted(mem.reboot_history, t) => Accounted(mem'.reboot_history, t)
    BY <1>1, <1>2, HistoryKept
  <2>2. \A t \in Nat : Accounted(disk.reboot_history, t) /\ Accounted(mem'.reboot_history, t)
                       => Accounted(disk'.reboot_history, t)
    BY <1>1, <1>2, SaveKeeps
  <2> QED
    BY <1>1, <2>1, <2>2 DEF NoAttemptLost, Alive
<1>5. AttemptOnRecord'
  <2> SUFFICES ASSUME saved
               PROVE  Accounted(disk'.reboot_history, now) /\ Accounted(mem'.reboot_history, now)
    BY <1>1 DEF AttemptOnRecord
  <2>1. Accounted(mem'.reboot_history, now)
    <3> DEFINE a == [timestamp |-> now, accepted |-> FALSE]
    <3>1. a \in mem'.reboot_history
      BY <1>1, <1>2 DEF RecordReboot, WatchdogState
    <3>2. Stored(a.timestamp) = Stored(now)
      OBVIOUS
    <3> QED
      BY <3>1, <3>2 DEF Accounted
  <2>2. Accounted(disk'.reboot_history, now)
    BY <1>1, <1>2, <2>1, SaveKeeps
  <2> QED
    BY <2>1, <2>2
<1>6. BudgetLeft'
  BY <1>1 DEF AccountingInv, BudgetLeft, DecisionPending
<1>7. pc' \in BeforeCall => pc \in BeforeCall
  BY <1>1 DEF BeforeCall
<1> QED
  BY <1>1, <1>3, <1>4, <1>5, <1>6, <1>7, SameCalls
(* The call itself: its attempt is on record, and it is the latest of all. *)
LEMMA AccountingCall ==
    ASSUME AccountingInv, TypeOK', NEW accepted \in BOOLEAN, CallDevice(accepted)
    PROVE  AccountingInv'
<1> DEFINE new == [at |-> now, auto |-> mode # "restart", accepted |-> accepted]
<1>1. /\ pc = "call" /\ pc' \in {"mark", "rest"}
      /\ calls' = calls \union {new}
      /\ now' = now /\ mem' = mem /\ disk' = disk /\ mode' = mode
  BY DEF CallDevice, process
<1>2. /\ now \in Nat /\ BudgetSpan \in Int
      /\ \A c \in calls : c.at \in Nat /\ c.at <= now /\ Stored(c.at) < Stored(now)
  BY <1>1, BudgetSpanType DEF AccountingInv, TypeOK, Call, CallsOrdered, BeforeCall
<1>3. /\ new.at = now /\ new.auto = (mode # "restart")
      /\ \A c \in calls : Stored(c.at) \in Nat /\ c.at # now
  BY <1>2, StoredBounds
<1>4. CallsOrdered'
  <2>1. \A c \in calls' : c.at <= now'
    BY <1>1, <1>2
  <2>2. \A c, d \in calls' : Stored(c.at) = Stored(d.at) => c = d
    BY <1>1, <1>2, <1>3, StoredBounds DEF AccountingInv, CallsOrdered
  <2>3. pc' \notin BeforeCall
    BY <1>1 DEF BeforeCall
  <2> QED
    BY <2>1, <2>2, <2>3 DEF CallsOrdered
<1>5. AttemptsAccounted'
  BY <1>1, <1>3 DEF AccountingInv, AttemptsAccounted, AttemptOnRecord, Alive
<1>6. FiniteOK'
  BY <1>1, FS_AddElement DEF AccountingInv, FiniteOK
<1>7. RateLimit'
  <2> SUFFICES ASSUME NEW c \in calls', c.auto
               PROVE  Cardinality({d \in calls' : d.at >= c.at - BudgetSpan /\ d.at <= c.at}) <= MaxReboots
    BY DEF RateLimit
  <2>1. CASE c \in calls
    <3>1. {d \in calls' : d.at >= c.at - BudgetSpan /\ d.at <= c.at}
             = {d \in calls : d.at >= c.at - BudgetSpan /\ d.at <= c.at}
      BY <1>1, <1>2, <1>3, <2>1
    <3> QED
      BY <2>1, <3>1 DEF AccountingInv, RateLimit
  <2>2. CASE c = new
    <3> DEFINE C == {d \in calls : d.at >= now - BudgetSpan}
               D == {d \in calls' : d.at >= c.at - BudgetSpan /\ d.at <= c.at}
    <3>1. Cardinality(C) < MaxReboots
      BY <1>1, <1>3, <2>2 DEF AccountingInv, BudgetLeft, DecisionPending
    <3>2. D \subseteq C \union {new}
      BY <1>1, <1>3, <2>2
    <3>3. IsFiniteSet(C)
      BY FS_Subset DEF AccountingInv, FiniteOK
    <3> HIDE DEF C, D, new
    <3>4. /\ IsFiniteSet(C \union {new})
          /\ Cardinality(C \union {new}) <= Cardinality(C) + 1
      <4>1. Cardinality(C) \in Nat
        BY <3>3, FS_CardinalityType
      <4>2. /\ IsFiniteSet(C \union {new})
            /\ Cardinality(C \union {new}) = IF new \in C THEN Cardinality(C) ELSE Cardinality(C) + 1
        BY <3>3, FS_AddElement
      <4> QED
        BY <4>1, <4>2
    <3>5. Cardinality(D) <= Cardinality(C \union {new}) /\ IsFiniteSet(D)
      BY <3>2, <3>4, FS_Subset
    <3>6. /\ Cardinality(C) \in Nat /\ Cardinality(D) \in Nat
          /\ Cardinality(C \union {new}) \in Nat
      BY <3>3, <3>4, <3>5, FS_CardinalityType
    <3>7. Cardinality(D) <= MaxReboots
      BY <3>1, <3>4, <3>5, <3>6, PolicyAssumption
    <3> QED
      BY <3>7 DEF D
  <2> QED
    BY <1>1, <2>1, <2>2
<1>8. AttemptOnRecord' /\ BudgetLeft'
  BY <1>1 DEF AttemptOnRecord, BudgetLeft, DecisionPending
<1> QED
  BY <1>4, <1>5, <1>6, <1>7, <1>8 DEF AccountingInv

LEMMA AccountingMark ==
    ASSUME AccountingInv, TypeOK', NEW saved, MarkAccepted(saved)
    PROVE  AccountingInv'
<1>1. /\ pc = "mark" /\ pc' \in {"rest", "settle"}
      /\ mem' = AcceptLast(mem, now) /\ Save(mem', saved)
      /\ calls' = calls /\ now' = now
  BY DEF MarkAccepted
<1>2. /\ mem \in WatchdogState /\ mem' \in WatchdogState /\ disk \in WatchdogState /\ now \in Nat
  BY DEF AccountingInv, TypeOK
<1>3. FiniteOK'
  <2>1. IsFiniteSet(mem'.reboot_history)
    BY <1>1, <1>2, HistoryFinite DEF AccountingInv, FiniteOK
  <2>2. IsFiniteSet(disk'.reboot_history)
    BY <1>1, <1>2, <2>1, SaveKeeps DEF AccountingInv, FiniteOK
  <2> QED
    BY <1>1, <2>1, <2>2 DEF AccountingInv, FiniteOK
<1>4. NoAttemptLost
  <2>1. \A t \in Nat : Accounted(mem.reboot_history, t) => Accounted(mem'.reboot_history, t)
    BY <1>1, <1>2, HistoryKept
  <2>2. \A t \in Nat : Accounted(disk.reboot_history, t) /\ Accounted(mem'.reboot_history, t)
                       => Accounted(disk'.reboot_history, t)
    BY <1>1, <1>2, SaveKeeps
  <2> QED
    BY <1>1, <2>1, <2>2 DEF NoAttemptLost, Alive
<1>5. AttemptOnRecord' /\ BudgetLeft'
  BY <1>1 DEF AttemptOnRecord, BudgetLeft, DecisionPending
<1>6. pc' \notin BeforeCall
  BY <1>1 DEF BeforeCall
<1> QED
  BY <1>1, <1>3, <1>4, <1>5, <1>6, SameCalls

LEMMA AccountingStep ==
    ASSUME HasStateFile, ~LoadFaults, AccountingInv, [Next]_vars
    PROVE  AccountingInv'
<1>0. TypeOK' /\ mem \in WatchdogState
  BY TypeStep DEF AccountingInv, TypeOK
<1> USE DEF BeforeCall, DecisionPending, Alive
<1>1. CASE Work
  <2>1. CASE InitialDelayOver
    BY <1>0, <2>1, SameHistories DEF InitialDelayOver, history
  <2>2. CASE LeaveLoop
    BY <1>0, <2>2, AccountingVanish DEF LeaveLoop
  <2>3. CASE BeginCycle
    BY <1>0, <2>3, AccountingBegin DEF BeginCycle
  <2>4. CASE BeginRestartCommand
    BY <1>0, <2>4, AccountingBegin DEF BeginRestartCommand
  <2>5. ASSUME NEW status \in Status, NEW saved \in SaveResults, Evaluate(status, saved)
        PROVE  AccountingInv'
    BY <1>0, <2>5, AccountingEvaluate
  <2>6. ASSUME NEW sent \in BOOLEAN, SendAlert(sent)
        PROVE  AccountingInv'
    <3>1. mem'.reboot_history = mem.reboot_history
      BY <1>0, <2>6 DEF SendAlert, WatchdogState
    <3> QED
      BY <1>0, <2>6, <3>1, SameHistories DEF SendAlert
  <2>7. ASSUME NEW saved \in SaveResults, SaveAlertFlag(saved)
        PROVE  AccountingInv'
    <3>1. Save(mem', saved)
      BY <2>7 DEF SaveAlertFlag, Save, process
    <3> QED
      BY <1>0, <2>7, <3>1, SavedHistories DEF SaveAlertFlag, process
  <2>8. CASE SendRecovery
    BY <1>0, <2>8, SameHistories DEF SendRecovery, process
  <2>9. CASE HandleAction
    BY <1>0, <2>9, SameHistories DEF HandleAction, process, history
  <2>10. ASSUME NEW saved \in SaveResults, RecordAttempt(saved)
         PROVE  AccountingInv'
    <3>1. saved \in BOOLEAN
      BY DEF SaveResults
    <3> QED
      BY <1>0, <2>10, <3>1, AccountingRecord
  <2>11. ASSUME NEW accepted \in BOOLEAN, CallDevice(accepted)
         PROVE  AccountingInv'
    BY <1>0, <2>11, AccountingCall
  <2>12. CASE CallFails
    BY <1>0, <2>12, SameHistories DEF CallFails, process, history
  <2>13. ASSUME NEW saved \in SaveResults, MarkAccepted(saved)
         PROVE  AccountingInv'
    BY <1>0, <2>13, AccountingMark
  <2>14. CASE SettleOver
    BY <1>0, <2>14, SameHistories DEF SettleOver, history
  <2>15. ASSUME NEW status \in Status, NEW saved \in SaveResults, Verify(status, saved)
         PROVE  AccountingInv'
    <3>1. mem'.reboot_history = mem.reboot_history
      BY <1>0, <2>15 DEF Verify, Verified, WatchdogState
    <3> QED
      BY <1>0, <2>15, <3>1, SavedHistories DEF Verify
  <2>16. CASE VerifyFails
    BY <1>0, <2>16, SameHistories DEF VerifyFails, process, history
  <2>17. CASE Return
    BY <1>0, <2>17, AccountingVanish DEF Return
  <2>18. CASE GoToSleep
    BY <1>0, <2>18, SameHistories DEF GoToSleep, history
  <2>19. CASE WakeUp
    BY <1>0, <2>19, SameHistories DEF WakeUp, history
  <2> QED
    BY <1>1, <2>1, <2>2, <2>3, <2>4, <2>5, <2>6, <2>7, <2>8, <2>9, <2>10, <2>11, <2>12,
       <2>13, <2>14, <2>15, <2>16, <2>17, <2>18, <2>19 DEF Work
<1>2. CASE Start
  BY <1>0, <1>2, AccountingStart
<1>3. CASE Crash
  BY <1>0, <1>3, AccountingVanish DEF Crash
<1>4. CASE Signal
  BY <1>0, <1>4, SameHistories DEF Signal, history
<1>5. CASE Tick
  BY <1>0, <1>5, SameHistories DEF Tick, process, history
<1>6. CASE UNCHANGED vars
  BY <1>0, <1>6, SameHistories DEF vars, process, history
<1> QED
  BY <1>1, <1>2, <1>3, <1>4, <1>5, <1>6 DEF Next, Environment

LEMMA AccountingInit == Init => AccountingInv
<1> SUFFICES ASSUME Init PROVE AccountingInv
  OBVIOUS
<1>1. TypeOK
  BY InitTypeOK
<1>2. FiniteOK
  BY FS_EmptySet DEF Init, FiniteOK, FreshState
<1> QED
  BY <1>1, <1>2 DEF Init, AccountingInv, CallsOrdered, AttemptOnRecord, AttemptsAccounted,
     BudgetLeft, DecisionPending, RateLimit, BeforeCall

-----------------------------------------------------------------------------
(* The theorems.                                                           *)

(* The inductive invariant holds of a process with a state file that can   *)
(* be read back, whatever else fails.                                      *)
LEMMA AccountingInvariance ==
    ASSUME HasStateFile, ~LoadFaults
    PROVE  Spec => []AccountingInv
<1>1. AccountingInv /\ [Next]_vars => AccountingInv'
  BY AccountingStep
<1> QED
  BY <1>1, AccountingInit, PTL DEF Spec

(* No call is lost from the accounting: not by a crash between any two     *)
(* steps, not by a failed save, not by the truncation of timestamps.       *)
THEOREM CallsAreAccounted ==
    ASSUME HasStateFile, ~LoadFaults
    PROVE  Spec => []AttemptsAccounted
<1>1. AccountingInv => AttemptsAccounted
  BY DEF AccountingInv
<1> QED
  BY <1>1, AccountingInvariance, PTL

(* No window that ends with an automated call holds more calls than the    *)
(* operator allowed, across all processes that ran one after the other.    *)
THEOREM RateLimitHolds ==
    ASSUME HasStateFile, ~LoadFaults
    PROVE  Spec => []RateLimit
<1>1. AccountingInv => RateLimit
  BY DEF AccountingInv
<1> QED
  BY <1>1, AccountingInvariance, PTL
-----------------------------------------------------------------------------
(* The watchdog implements RebootBudget.                                   *)

(* The time of a cycle has passed, and the clock is within its bound. *)
ClockOK == now \in Nat /\ clock \in Nat /\ now <= clock /\ clock <= MaxClock

LEMMA OtherSteps ==
    ASSUME [Next]_vars
    PROVE  /\ \/ now' = now /\ clock' = clock
              \/ clock < MaxClock /\ clock' = clock + 1 /\ now' = now
              \/ clock' = clock /\ now' = clock
           /\ \/ calls' = calls
              \/ \E accepted \in BOOLEAN : CallDevice(accepted)
<1>1. CASE Work
  BY <1>1 DEF Work, InitialDelayOver, LeaveLoop, BeginCycle, BeginRestartCommand, Begin, Evaluate,
     SendAlert, SaveAlertFlag, SendRecovery, HandleAction, RecordAttempt, CallDevice, CallFails,
     MarkAccepted, SettleOver, Verify, VerifyFails, Return, GoToSleep, WakeUp, Vanish,
     process, history
<1>2. CASE Environment
  BY <1>2 DEF Environment, Start, Crash, Signal, Tick, Vanish, process, history
<1>3. CASE UNCHANGED vars
  BY <1>3 DEF vars, process, history
<1> QED
  BY <1>1, <1>2, <1>3 DEF Next

LEMMA ClockInvariance == Spec => []ClockOK
<1>1. Init => ClockOK
  BY WatchdogAssumption DEF Init, ClockOK
<1>2. ClockOK /\ [Next]_vars => ClockOK'
  BY OtherSteps, WatchdogAssumption DEF ClockOK
<1> QED
  BY <1>1, <1>2, PTL DEF Spec

(* A call is a request of RebootBudget; every other step is a stutter. *)
LEMMA BudgetStep ==
    ASSUME AccountingInv, ClockOK, [Next]_vars
    PROVE  [Budget!Next]_Spent
<1>1. CASE calls' = calls
  BY <1>1 DEF Spent
<1>2. ASSUME NEW accepted \in BOOLEAN, CallDevice(accepted)
      PROVE  Budget!Next
  <2> DEFINE q   == mode # "restart"
             new == [at |-> now, auto |-> q, accepted |-> accepted]
             r   == [at |-> now, auto |-> q]
             C   == {c \in calls : c.at >= now - BudgetSpan}
             W   == {s \in Spent : s.at >= now - BudgetSpan}
             f   == [c \in C |-> [at |-> c.at, auto |-> c.auto]]
  <2>1. pc = "call" /\ calls' = calls \union {new}
    BY <1>2 DEF CallDevice
  <2>2. \A c \in calls : c.at \in Nat /\ c.at < now
    BY <2>1, StoredBounds DEF AccountingInv, CallsOrdered, BeforeCall, TypeOK, Call
  <2>3. r \in [at : 0 .. MaxClock, auto : BOOLEAN]
    <3>1. q \in BOOLEAN
      OBVIOUS
    <3>2. now \in 0 .. MaxClock
      BY WatchdogAssumption DEF ClockOK
    <3> HIDE DEF q
    <3> QED
      BY <3>1, <3>2
  <2>4. \A s \in Spent : s.at < r.at
    BY <2>2 DEF Spent
  <2>5. Spent' = Spent \union {r}
    <3> HIDE DEF q
    <3>1. new.at = now /\ new.auto = q
      OBVIOUS
    <3> HIDE DEF new
    <3>2. Spent' = {[at |-> c.at, auto |-> c.auto] : c \in calls \union {new}}
      BY <2>1 DEF Spent
    <3> QED
      BY <3>1, <3>2, Zenon DEF Spent
  <2>6. Cardinality(W) <= Cardinality(C)
    <3>1. f \in Surjection(C, W)
      BY DEF Surjection, Spent
    <3>2. IsFiniteSet(C)
      BY FS_Subset DEF AccountingInv, FiniteOK
    <3> HIDE DEF C, W, f
    <3> QED
      BY <3>1, <3>2, FS_Surjection
  <2>7. r.auto => Cardinality(W) < MaxReboots
    <3> SUFFICES ASSUME mode # "restart" PROVE Cardinality(W) < MaxReboots
      OBVIOUS
    <3>1. Cardinality(C) < MaxReboots
      BY <2>1 DEF AccountingInv, BudgetLeft, DecisionPending
    <3>2. Cardinality(C) \in Nat /\ Cardinality(W) \in Nat
      <4>1. IsFiniteSet(C)
        BY FS_Subset DEF AccountingInv, FiniteOK
      <4>2. f \in Surjection(C, W)
        BY DEF Surjection, Spent
      <4> HIDE DEF C, W, f
      <4> QED
        BY <4>1, <4>2, FS_Surjection, FS_CardinalityType
    <3> HIDE DEF C, W
    <3> QED
      BY <2>6, <3>1, <3>2, PolicyAssumption
  <2> QED
    <3>1. Budget!InWindow(now) = W
      BY DEF Budget!InWindow
    <3>2. Budget!Issue(r)
      <4>1. r.at = now /\ r.auto = q
        OBVIOUS
      <4>2. Budget!Cardinality(W) = Cardinality(W)
        BY Zenon DEF Cardinality, Budget!Cardinality
      <4> HIDE DEF q, r, W
      <4> QED
        BY <2>4, <2>5, <2>7, <3>1, <4>1, <4>2 DEF Budget!Issue
    <3>3. r \in Budget!Request
      BY <2>3 DEF Budget!Request
    <3> HIDE DEF r
    <3> QED
      BY <3>2, <3>3 DEF Budget!Next
<1> QED
  BY <1>1, <1>2, OtherSteps

(* The watchdog, with crashes, restarts, failed saves, notifications and   *)
(* operator requests, implements the specification of the rate limit.      *)
THEOREM WatchdogImplementsBudget ==
    ASSUME HasStateFile, ~LoadFaults
    PROVE  Spec => ImplementsBudget
<1>1. Init => Budget!Init
  BY DEF Init, Budget!Init, Spent
<1>2. AccountingInv /\ ClockOK /\ [Next]_vars => [Budget!Next]_Spent
  BY BudgetStep
<1> QED
  BY <1>1, <1>2, AccountingInvariance, ClockInvariance, PTL DEF Spec, ImplementsBudget, Budget!Spec
=============================================================================
