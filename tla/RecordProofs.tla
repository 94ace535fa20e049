---------------------------- MODULE RecordProofs ----------------------------
(***************************************************************************)
(* Theorems about what is recorded, for all settings, whichever saves and  *)
(* loads fail and whether there is a state file or not.  Requests that     *)
(* were refused or dropped never use up more of the budget than its limit, *)
(* as long as no operator asks for restarts.  And every process keeps the  *)
(* limit for the calls it makes itself, whatever others made.              *)
(***************************************************************************)
EXTENDS WatchdogProofs

USE DEF Goto

(* The latest time that is stored like t. *)
Ceiling(t) == Stored(t) + (Grain - 1)

Before(attempts, a) ==
    {b \in attempts : b.timestamp <= a.timestamp /\ b.timestamp >= Ceiling(a.timestamp) - RebootWindow}

(* A history that the limit admits: attempts are recorded one after the    *)
(* other, a grain apart, and when one was recorded those before it left    *)
(* room for it.                                                            *)
Admissible(attempts, n) ==
    /\ IsFiniteSet(attempts)
    /\ \A a \in attempts : a.timestamp <= n
    /\ \A a, b \in attempts :
          /\ a.timestamp = b.timestamp => a = b
          /\ a.timestamp < b.timestamp => Stored(a.timestamp) < Stored(b.timestamp)
    /\ \A a \in attempts : Cardinality(Before(attempts, a)) <= MaxReboots

-----------------------------------------------------------------------------
(* Operations on histories.                                                *)

LEMMA CeilingBounds ==
    ASSUME NEW t \in Nat
    PROVE  /\ Ceiling(t) \in Int /\ Ceiling(t) >= t /\ Ceiling(t) <= t + (Grain - 1)
           /\ Ceiling(Stored(t)) = Ceiling(t)
BY StoredBounds, WatchdogAssumption DEF Ceiling

LEMMA AdmissibleSubset ==
    ASSUME NEW S, NEW T \in SUBSET S, NEW n, Admissible(S, n)
    PROVE  Admissible(T, n)
<1>1. IsFiniteSet(S) /\ IsFiniteSet(T)
  BY FS_Subset DEF Admissible
<1>2. ASSUME NEW a \in T
      PROVE  Cardinality(Before(T, a)) <= MaxReboots
  <2>1. Before(T, a) \subseteq Before(S, a) /\ IsFiniteSet(Before(S, a))
    BY <1>1, FS_Subset DEF Before
  <2>2. Cardinality(Before(T, a)) <= Cardinality(Before(S, a)) /\ IsFiniteSet(Before(T, a))
    BY <2>1, FS_Subset
  <2>3. Cardinality(Before(T, a)) \in Nat /\ Cardinality(Before(S, a)) \in Nat
    BY <2>1, <2>2, FS_CardinalityType
  <2>4. Cardinality(Before(S, a)) <= MaxReboots
    BY DEF Admissible
  <2> QED
    BY <2>2, <2>3, <2>4, PolicyAssumption
<1> QED
  BY <1>1, <1>2 DEF Admissible

LEMMA AdmissibleLater ==
    ASSUME NEW S \in SUBSET RebootAttempt, NEW n \in Nat, NEW m \in Nat, n <= m, Admissible(S, n)
    PROVE  Admissible(S, m)
BY DEF Admissible, RebootAttempt

(* Marking an attempt leaves its time, the file cuts all times alike.      *)
LEMMA AdmissibleImage ==
    ASSUME NEW S \in SUBSET RebootAttempt, NEW T \in SUBSET RebootAttempt, NEW n \in Nat,
           Admissible(S, n),
           NEW g \in [S -> T], \A x \in T : \E y \in S : x = g[y],
           \/ \A y \in S : g[y].timestamp = y.timestamp
           \/ \A y \in S : g[y].timestamp = Stored(y.timestamp)
    PROVE  Admissible(T, n)
<1> DEFINE f == [x \in T |-> CHOOSE y \in S : x = g[y]]
<1>1. \A x \in T : f[x] \in S /\ x = g[f[x]]
  OBVIOUS
<1>2. \A y \in S : y.timestamp \in Nat
  BY DEF RebootAttempt
<1> HIDE DEF f
<1>3. IsFiniteSet(T)
  <2>1. g \in Surjection(S, T)
    BY DEF Surjection
  <2> QED
    BY <2>1, FS_Surjection DEF Admissible
<1>4. ASSUME NEW y \in S
      PROVE  /\ g[y].timestamp \in Nat /\ g[y].timestamp <= y.timestamp
             /\ Stored(g[y].timestamp) = Stored(y.timestamp)
             /\ Ceiling(g[y].timestamp) = Ceiling(y.timestamp)
  BY <1>2, StoredBounds, CeilingBounds
<1>5. ASSUME NEW y \in S, NEW z \in S
      PROVE  /\ g[y].timestamp = g[z].timestamp => y = z
             /\ g[y].timestamp < g[z].timestamp => y.timestamp < z.timestamp
  <2>1. /\ y.timestamp \in Nat /\ z.timestamp \in Nat
        /\ Stored(y.timestamp) \in Nat /\ Stored(z.timestamp) \in Nat
    BY <1>2, StoredBounds
  <2>2. /\ y.timestamp = z.timestamp => y = z
        /\ y.timestamp < z.timestamp => Stored(y.timestamp) < Stored(z.timestamp)
        /\ z.timestamp < y.timestamp => Stored(z.timestamp) < Stored(y.timestamp)
    BY DEF Admissible
  <2> QED
    BY <2>1, <2>2
<1>6. ASSUME NEW a \in T
      PROVE  Cardinality(Before(T, a)) <= MaxReboots
  <2> DEFINE c == f[a]
             h == [x \in Before(T, a) |-> f[x]]
  <2>1. c \in S /\ a = g[c]
    BY <1>1
  <2>2. ASSUME NEW x \in Before(T, a)
        PROVE  f[x] \in Before(S, c)
    <3>1. /\ x \in T /\ f[x] \in S /\ x = g[f[x]]
          /\ x.timestamp <= a.timestamp /\ x.timestamp >= Ceiling(a.timestamp) - RebootWindow
      BY <1>1 DEF Before
    <3>2. /\ f[x].timestamp \in Nat /\ c.timestamp \in Nat
          /\ x.timestamp \in Nat /\ a.timestamp \in Nat
          /\ x.timestamp <= f[x].timestamp /\ Ceiling(a.timestamp) = Ceiling(c.timestamp)
          /\ Ceiling(c.timestamp) \in Int
      BY <1>2, <1>4, <2>1, <3>1, CeilingBounds
    <3>3. f[x].timestamp <= c.timestamp
      BY <1>5, <2>1, <3>1, <3>2
    <3>4. f[x].timestamp >= Ceiling(c.timestamp) - RebootWindow
      BY <3>1, <3>2, PolicyAssumption
    <3> QED
      BY <3>1, <3>3, <3>4 DEF Before
  <2>3. h \in Injection(Before(T, a), Before(S, c))
    <3>1. h \in [Before(T, a) -> Before(S, c)]
      BY <2>2
    <3>2. \A x, z \in Before(T, a) : h[x] = h[z] => x = z
      BY <1>1 DEF Before
    <3> QED
      BY <3>1, <3>2 DEF Injection, IsInjective
  <2>4. IsFiniteSet(Before(S, c))
    BY FS_Subset DEF Admissible, Before
  <2> HIDE DEF c, h
  <2>5. Cardinality(Before(T, a)) <= Cardinality(Before(S, c)) /\ IsFiniteSet(Before(T, a))
    BY <2>3, <2>4, FS_Injection
  <2>6. Cardinality(Before(S, c)) <= MaxReboots
    BY <2>1 DEF Admissible
  <2> QED
    BY <2>4, <2>5, <2>6, FS_CardinalityType, PolicyAssumption
<1>7. ASSUME NEW a \in T, NEW b \in T
      PROVE  /\ a.timestamp <= n
             /\ a.timestamp = b.timestamp => a = b
             /\ a.timestamp < b.timestamp => Stored(a.timestamp) < Stored(b.timestamp)
  <2>1. f[a] \in S /\ a = g[f[a]] /\ f[b] \in S /\ b = g[f[b]]
    BY <1>1
  <2>2. f[a].timestamp \in Nat /\ f[a].timestamp <= n /\ a.timestamp <= f[a].timestamp /\ a.timestamp \in Nat
    BY <1>2, <1>4, <2>1 DEF Admissible
  <2>3. a.timestamp = b.timestamp => a = b
    BY <1>5, <2>1
  <2>4. a.timestamp < b.timestamp => Stored(a.timestamp) < Stored(b.timestamp)
    BY <1>4, <1>5, <2>1 DEF Admissible
  <2> QED
    BY <2>2, <2>3, <2>4
<1> QED
  BY <1>3, <1>6, <1>7 DEF Admissible

(* A new attempt, later than all others, that finds room in its window. *)
LEMMA AdmissibleAdd ==
    ASSUME NEW S \in SUBSET RebootAttempt, NEW n \in Nat, NEW new \in RebootAttempt,
           new.timestamp = n, Admissible(S, n), \A a \in S : Stored(a.timestamp) < Stored(n),
           Cardinality(RecentAttempts(S, n)) < MaxReboots
    PROVE  Admissible(S \union {new}, n)
<1> DEFINE T == S \union {new}
           C == RecentAttempts(S, n)
<1>1. \A a \in S : /\ a.timestamp \in Nat /\ a.timestamp <= n /\ Stored(a.timestamp) \in Nat
                   /\ Stored(a.timestamp) < Stored(n) /\ a.timestamp < n
  BY StoredBounds DEF Admissible, RebootAttempt
<1>2. IsFiniteSet(S) /\ IsFiniteSet(T) /\ IsFiniteSet(C)
  BY FS_AddElement, FS_Subset DEF Admissible, RecentAttempts
<1>3. Cardinality(Before(T, new)) <= MaxReboots
  <2>1. Before(T, new) \subseteq C \union {new}
    BY CeilingBounds, PolicyAssumption, <1>1 DEF Before, RecentAttempts
  <2> HIDE DEF T, C
  <2>2. IsFiniteSet(C \union {new}) /\ Cardinality(C \union {new}) <= Cardinality(C) + 1
    <3>1. /\ IsFiniteSet(C \union {new})
          /\ Cardinality(C \union {new}) = IF new \in C THEN Cardinality(C) ELSE Cardinality(C) + 1
      BY <1>2, FS_AddElement
    <3>2. Cardinality(C) \in Nat
      BY <1>2, FS_CardinalityType
    <3> QED
      BY <3>1, <3>2
  <2>3. Cardinality(Before(T, new)) <= Cardinality(C \union {new}) /\ IsFiniteSet(Before(T, new))
    BY <2>1, <2>2, FS_Subset
  <2>4. Cardinality(C) < MaxReboots
    BY DEF C
  <2> QED
    BY <1>2, <2>2, <2>3, <2>4, FS_CardinalityType, PolicyAssumption
<1>4. ASSUME NEW a \in S
      PROVE  Cardinality(Before(T, a)) <= MaxReboots
  <2>1. Before(T, a) = Before(S, a)
    BY <1>1 DEF Before
  <2> QED
    BY <2>1 DEF Admissible
<1>5. \A a, b \in T : /\ a.timestamp <= n
                      /\ a.timestamp = b.timestamp => a = b
                      /\ a.timestamp < b.timestamp => Stored(a.timestamp) < Stored(b.timestamp)
  BY <1>1 DEF Admissible
<1> QED
  BY <1>2, <1>3, <1>4, <1>5 DEF Admissible

-----------------------------------------------------------------------------
(* The invariant and its steps.                                            *)

BeforeRecord == {"measure", "alert", "alert_save", "recover", "act", "record"}

RecordPending ==
    \/ pc \in {"alert", "alert_save", "recover", "act"} /\ action = "REBOOT"
    \/ pc = "record"

RecordInv ==
    /\ TypeOK
    /\ mode # "restart"
    /\ Admissible(mem.reboot_history, now)
    /\ Admissible(disk.reboot_history, now)
    /\ pc \in BeforeRecord => \A a \in mem.reboot_history : Stored(a.timestamp) < Stored(now)
    /\ RecordPending => Cardinality(RecentAttempts(mem.reboot_history, now)) < MaxReboots

(* A step that records nothing: it keeps the histories, loads one, forgets *)
(* one or writes one to the file.                                          *)
RecordsNothing ==
    /\ mode' # "restart" /\ now' = now
    /\ mem'.reboot_history \in {mem.reboot_history, disk.reboot_history, {}}
    /\ disk'.reboot_history \in {disk.reboot_history, Persisted(mem).reboot_history}
    /\ \/ pc' \notin BeforeRecord
       \/ /\ pc \in BeforeRecord /\ mem'.reboot_history = mem.reboot_history
          /\ RecordPending' => RecordPending

LEMMA SavedRecord ==
    ASSUME NEW state \in WatchdogState, NEW saved, Save(state, saved)
    PROVE  disk'.reboot_history \in {disk.reboot_history, Persisted(state).reboot_history}
BY DEF Save

LEMMA PersistedRecord ==
    ASSUME NEW state \in WatchdogState, NEW other \in WatchdogState,
           other.reboot_history = state.reboot_history
    PROVE  Persisted(other).reboot_history = Persisted(state).reboot_history
BY DEF Persisted, WatchdogState

LEMMA RecordSteps ==
    ASSUME "restart" \notin Modes, RecordInv, [Next]_vars
    PROVE  \/ RecordsNothing
           \/ BeginCycle
           \/ \E status \in Status, saved \in SaveResults : Evaluate(status, saved)
           \/ \E saved \in SaveResults : RecordAttempt(saved)
           \/ \E saved \in SaveResults : MarkAccepted(saved)
<1> USE DEF RecordsNothing, BeforeRecord, RecordPending
<1>0. TypeOK' /\ mem \in WatchdogState /\ mem' \in WatchdogState /\ mode # "restart"
  BY TypeStep DEF RecordInv, TypeOK
<1>1. CASE \/ InitialDelayOver \/ HandleAction \/ CallFails \/ SettleOver \/ VerifyFails
           \/ GoToSleep \/ WakeUp \/ Signal \/ Tick \/ SendRecovery \/ UNCHANGED vars
  BY <1>0, <1>1 DEF InitialDelayOver, HandleAction, CallFails, SettleOver, VerifyFails,
     GoToSleep, WakeUp, Signal, Tick, SendRecovery, vars, process, history
<1>2. ASSUME NEW accepted \in BOOLEAN, CallDevice(accepted)
      PROVE  RecordsNothing
  BY <1>0, <1>2 DEF CallDevice, process
<1>3. ASSUME NEW sent \in BOOLEAN, SendAlert(sent)
      PROVE  RecordsNothing
  BY <1>0, <1>3 DEF SendAlert, WatchdogState
<1>4. ASSUME NEW saved \in SaveResults, SaveAlertFlag(saved)
      PROVE  RecordsNothing
  BY <1>0, <1>4, SavedRecord DEF SaveAlertFlag, process
<1>5. ASSUME NEW status \in Status, NEW saved \in SaveResults, Verify(status, saved)
      PROVE  RecordsNothing
  <2>1. mem'.reboot_history = mem.reboot_history
    BY <1>0, <1>5 DEF Verify, Verified, WatchdogState
  <2>2. disk'.reboot_history \in {disk.reboot_history, Persisted(mem).reboot_history}
    BY <1>0, <1>5, <2>1, SavedRecord, PersistedRecord DEF Verify
  <2> QED
    BY <1>0, <1>5, <2>1, <2>2 DEF Verify
<1>6. CASE LeaveLoop \/ Return \/ Crash
  BY <1>6 DEF LeaveLoop, Return, Crash, Vanish, FreshState
<1>7. CASE Start
  <2>1. mode' # "restart" /\ now' = now /\ disk' = disk /\ pc' \in {"delay", "loop"}
    BY <1>7 DEF Start
  <2>2. mem'.reboot_history \in {disk.reboot_history, {}}
    BY <1>7 DEF Start, LoadResults, FreshState
  <2> QED
    BY <2>1, <2>2
<1>8. CASE BeginRestartCommand
  BY <1>0, <1>8 DEF BeginRestartCommand
<1> QED
  BY <1>1, <1>2, <1>3, <1>4, <1>5, <1>6, <1>7, <1>8 DEF Next, Work, Environment

LEMMA EmptyAdmissible == \A n : Admissible({}, n)
BY FS_EmptySet DEF Admissible

LEMMA PersistedAdmissible ==
    ASSUME NEW state \in WatchdogState, NEW n \in Nat, Admissible(state.reboot_history, n)
    PROVE  Admissible(Persisted(state).reboot_history, n)
<1> DEFINE S == state.reboot_history
           T == Persisted(state).reboot_history
           g == [a \in S |-> [a EXCEPT !.timestamp = Stored(@)]]
<1>1. S \in SUBSET RebootAttempt /\ T \in SUBSET RebootAttempt
  BY PersistedType DEF WatchdogState
<1>2. T = {[a EXCEPT !.timestamp = Stored(@)] : a \in S}
  BY DEF Persisted, WatchdogState
<1>3. g \in [S -> T] /\ \A x \in T : \E y \in S : x = g[y]
  BY <1>2
<1>4. \A y \in S : g[y].timestamp = Stored(y.timestamp)
  BY <1>1 DEF RebootAttempt
<1> HIDE DEF g, T, S
<1>5. Admissible(T, n)
  BY <1>1, <1>3, <1>4, AdmissibleImage DEF S
<1> QED
  BY <1>5 DEF T

LEMMA AcceptedAdmissible ==
    ASSUME NEW state \in WatchdogState, NEW n \in Nat, NEW t \in Nat,
           Admissible(state.reboot_history, n)
    PROVE  Admissible(AcceptLast(state, t).reboot_history, n)
<1> DEFINE S == state.reboot_history
           T == AcceptLast(state, t).reboot_history
           g == [a \in S |-> IF a.timestamp = t THEN [a EXCEPT !.accepted = TRUE] ELSE a]
<1>1. S \in SUBSET RebootAttempt /\ T \in SUBSET RebootAttempt
  BY RequestType DEF WatchdogState
<1>2. T = {IF a.timestamp = t THEN [a EXCEPT !.accepted = TRUE] ELSE a : a \in S}
  BY DEF AcceptLast, WatchdogState
<1>3. g \in [S -> T] /\ \A x \in T : \E y \in S : x = g[y]
  BY <1>2
<1>4. \A y \in S : g[y].timestamp = y.timestamp
  BY <1>1 DEF RebootAttempt
<1> HIDE DEF g, T, S
<1>5. Admissible(T, n)
  BY <1>1, <1>3, <1>4, AdmissibleImage DEF S
<1> QED
  BY <1>5 DEF T

(* Saving an admissible record leaves an admissible file. *)
LEMMA SavedAdmissible ==
    ASSUME NEW state \in WatchdogState, NEW saved, NEW n \in Nat, Save(state, saved),
           Admissible(state.reboot_history, n), Admissible(disk.reboot_history, n)
    PROVE  Admissible(disk'.reboot_history, n)
BY SavedRecord, PersistedAdmissible

LEMMA RecordEvaluate ==
    ASSUME RecordInv, TypeOK', NEW status \in Status, NEW saved \in SaveResults,
           Evaluate(status, saved)
    PROVE  RecordInv'
<1> DEFINE next == Transition(mem, status, now)
<1>1. /\ pc = "measure" /\ pc' \in {"alert", "recover", "act"}
      /\ mode' = mode /\ now' = now /\ mem' = next.state /\ action' = next.action
      /\ Save(mem', saved)
  BY DEF Evaluate
<1>2. now \in Nat /\ mem' \in WatchdogState
  BY DEF RecordInv, TypeOK
<1>3. mem'.reboot_history = PruneHistory(mem.reboot_history, now)
  BY <1>1 DEF Transition
<1>4. mem'.reboot_history \in SUBSET mem.reboot_history
  BY <1>3 DEF PruneHistory
<1>5. Admissible(mem'.reboot_history, now)
  BY <1>4, AdmissibleSubset DEF RecordInv
<1>6. Admissible(disk'.reboot_history, now)
  BY <1>1, <1>2, <1>5, SavedAdmissible DEF RecordInv
<1>7. \A a \in mem'.reboot_history : Stored(a.timestamp) < Stored(now)
  BY <1>1, <1>4 DEF RecordInv, BeforeRecord
<1>8. ASSUME action' = "REBOOT"
      PROVE  Cardinality(RecentAttempts(mem'.reboot_history, now)) < MaxReboots
  <2> DEFINE R == RecentAttempts(mem'.reboot_history, now)
             exhausted == Cardinality(R) >= MaxReboots
  <2> DEFINE limit == Cardinality(InFailWindow(NotedTimestamps(mem.degraded_timestamps, status, now), now)) >= FailLimit
  <2>1. action' = Decision(limit, exhausted)
    BY <1>1, <1>3 DEF Transition
  <2>2. ~exhausted
    <3> HIDE DEF exhausted, limit
    <3> QED
      BY <1>8, <2>1, PolicyAssumption DEF Decision
  <2>3. IsFiniteSet(R)
    BY <1>5, FS_Subset DEF Admissible, RecentAttempts
  <2> HIDE DEF R
  <2>4. Cardinality(R) < MaxReboots
    BY <2>2, <2>3, FS_CardinalityType, PolicyAssumption
  <2> QED
    BY <2>4 DEF R
<1> QED
  BY <1>1, <1>5, <1>6, <1>7, <1>8 DEF RecordInv, RecordPending

LEMMA RecordRecord ==
    ASSUME RecordInv, TypeOK', NEW saved \in SaveResults, RecordAttempt(saved)
    PROVE  RecordInv'
<1> DEFINE new == [timestamp |-> now, accepted |-> FALSE]
<1>1. /\ pc = "record" /\ pc' \in {"call", "rest"}
      /\ mode' = mode /\ now' = now /\ mem' = RecordReboot(mem, now) /\ Save(mem', saved)
  BY DEF RecordAttempt
<1>2. now \in Nat /\ mem' \in WatchdogState /\ mem.reboot_history \in SUBSET RebootAttempt
  BY DEF RecordInv, TypeOK, WatchdogState
<1>3. mem'.reboot_history = mem.reboot_history \union {new}
  BY <1>1 DEF RecordReboot, RecordInv, TypeOK, WatchdogState
<1>4. new \in RebootAttempt /\ new.timestamp = now
  BY <1>2 DEF RebootAttempt
<1>5. Admissible(mem'.reboot_history, now)
  <2> HIDE DEF new
  <2> QED
    BY <1>1, <1>2, <1>3, <1>4, AdmissibleAdd DEF RecordInv, BeforeRecord, RecordPending
<1>6. Admissible(disk'.reboot_history, now)
  BY <1>1, <1>2, <1>5, SavedAdmissible DEF RecordInv
<1> QED
  BY <1>1, <1>5, <1>6 DEF RecordInv, RecordPending, BeforeRecord

LEMMA RecordMark ==
    ASSUME RecordInv, TypeOK', NEW saved \in SaveResults, MarkAccepted(saved)
    PROVE  RecordInv'
<1>1. /\ pc' \in {"rest", "settle"}
      /\ mode' = mode /\ now' = now /\ mem' = AcceptLast(mem, now) /\ Save(mem', saved)
  BY DEF MarkAccepted
<1>2. now \in Nat /\ mem \in WatchdogState /\ mem' \in WatchdogState
  BY DEF RecordInv, TypeOK
<1>3. Admissible(mem'.reboot_history, now)
  BY <1>1, <1>2, AcceptedAdmissible DEF RecordInv
<1>4. Admissible(disk'.reboot_history, now)
  BY <1>1, <1>2, <1>3, SavedAdmissible DEF RecordInv
<1> QED
  BY <1>1, <1>3, <1>4 DEF RecordInv, RecordPending, BeforeRecord

(* A cycle begins at least a grain after the latest one. *)
LEMMA RecordBegin ==
    ASSUME RecordInv, TypeOK', BeginCycle
    PROVE  RecordInv'
<1>1. /\ pc' = "measure" /\ mode' = mode /\ mem' = mem /\ disk' = disk
      /\ now' = clock /\ clock >= now + Grain
  BY DEF BeginCycle, Begin
<1>2. /\ now \in Nat /\ clock \in Nat /\ now <= clock
      /\ mem.reboot_history \in SUBSET RebootAttempt /\ disk.reboot_history \in SUBSET RebootAttempt
  BY <1>1, WatchdogAssumption DEF RecordInv, TypeOK, WatchdogState
<1>3. Admissible(mem.reboot_history, clock) /\ Admissible(disk.reboot_history, clock)
  BY <1>2, AdmissibleLater DEF RecordInv
<1>4. \A a \in mem.reboot_history : Stored(a.timestamp) < Stored(clock)
  <2> SUFFICES ASSUME NEW a \in mem.reboot_history PROVE Stored(a.timestamp) < Stored(clock)
    OBVIOUS
  <2>1. a.timestamp \in Nat /\ a.timestamp <= now
    BY <1>2 DEF RecordInv, Admissible, RebootAttempt
  <2>2. a.timestamp + Grain <= clock
    BY <1>1, <1>2, <2>1, WatchdogAssumption
  <2> QED
    BY <1>2, <2>1, <2>2, StoredBounds
<1> QED
  BY <1>1, <1>3, <1>4 DEF RecordInv, RecordPending

LEMMA RecordStep ==
    ASSUME "restart" \notin Modes, RecordInv, [Next]_vars
    PROVE  RecordInv'
<1>0. TypeOK' /\ now \in Nat /\ mem \in WatchdogState
  BY TypeStep DEF RecordInv, TypeOK
<1>1. CASE RecordsNothing
  <2>1. Admissible(mem'.reboot_history, now)
    BY <1>1, EmptyAdmissible DEF RecordsNothing, RecordInv
  <2>2. Admissible(disk'.reboot_history, now)
    BY <1>0, <1>1, PersistedAdmissible DEF RecordsNothing, RecordInv
  <2>3. pc' \notin BeforeRecord => ~RecordPending'
    BY DEF BeforeRecord, RecordPending
  <2> QED
    BY <1>0, <1>1, <2>1, <2>2, <2>3 DEF RecordsNothing, RecordInv
<1> QED
  BY <1>0, <1>1, RecordSteps, RecordBegin, RecordEvaluate, RecordRecord, RecordMark

LEMMA RecordInit == Init => RecordInv
BY InitTypeOK, EmptyAdmissible DEF Init, RecordInv, FreshState, BeforeRecord, RecordPending

LEMMA RecordKeepsLimit == RecordInv => RecordWithinLimit
<1> SUFFICES ASSUME RecordInv, NEW S \in {mem.reboot_history, disk.reboot_history}, NEW a \in S
             PROVE  Cardinality({b \in S : /\ b.timestamp >= a.timestamp - BudgetSpan
                                           /\ b.timestamp <= a.timestamp}) <= MaxReboots
  BY DEF RecordWithinLimit
<1> DEFINE W == {b \in S : b.timestamp >= a.timestamp - BudgetSpan /\ b.timestamp <= a.timestamp}
<1>1. Admissible(S, now) /\ S \in SUBSET RebootAttempt
  BY DEF RecordInv, TypeOK, WatchdogState
<1>2. \A b \in S : b.timestamp \in Nat
  BY <1>1 DEF RebootAttempt
<1>3. W \subseteq Before(S, a)
  BY <1>2, CeilingBounds, PolicyAssumption, WatchdogAssumption DEF Before, BudgetSpan
<1>4. IsFiniteSet(Before(S, a)) /\ Cardinality(Before(S, a)) <= MaxReboots
  BY <1>1, FS_Subset DEF Admissible, Before
<1> HIDE DEF W
<1>5. Cardinality(W) <= Cardinality(Before(S, a)) /\ IsFiniteSet(W)
  BY <1>3, <1>4, FS_Subset
<1>6. Cardinality(W) <= MaxReboots
  BY <1>4, <1>5, FS_CardinalityType, PolicyAssumption
<1> QED
  BY <1>6 DEF W

(* As long as no operator asks for restarts, what is on record, in memory  *)
(* and in the file, keeps the limit by itself: refused and dropped         *)
(* requests use up no more than the budget, whichever saves and loads fail.*)
THEOREM RecordIsLimited == Spec => []RecordWithinLimit
<1>1. CASE "restart" \in Modes
  <2>1. Spec => []TypeOK
    BY TypeCorrect
  <2>2. TypeOK => RecordWithinLimit
    BY <1>1 DEF RecordWithinLimit
  <2> QED
    BY <2>1, <2>2, PTL
<1>2. CASE "restart" \notin Modes
  <2>1. RecordInv /\ [Next]_vars => RecordInv'
    BY <1>2, RecordStep
  <2> QED
    BY <2>1, RecordInit, RecordKeepsLimit, PTL DEF Spec
<1> QED
  BY <1>1, <1>2

-----------------------------------------------------------------------------
(* The limit of one process.                                               *)

(* A step whose record is one of those there were, after a change or not. *)
LEMMA FiniteSteps ==
    ASSUME TypeOK, FiniteOK, mem' \in WatchdogState,
           calls' = calls \/ \E c : calls' = calls \union {c},
           \/ mem'.reboot_history \in {mem.reboot_history, disk.reboot_history, {}}
           \/ mem'.reboot_history = PruneHistory(mem.reboot_history, now)
           \/ mem' \in {RecordReboot(mem, now), AcceptLast(mem, now)},
           disk' \in {disk, Persisted(mem')}
    PROVE  FiniteOK'
<1>1. mem \in WatchdogState /\ disk \in WatchdogState /\ now \in Nat
  BY DEF TypeOK
<1>2. IsFiniteSet(calls')
  BY FS_AddElement DEF FiniteOK
<1>3. IsFiniteSet(mem'.reboot_history)
  BY <1>1, HistoryFinite, FS_EmptySet DEF FiniteOK
<1>4. IsFiniteSet(disk'.reboot_history)
  BY <1>1, <1>3, HistoryFinite DEF FiniteOK
<1> QED
  BY <1>2, <1>3, <1>4 DEF FiniteOK

LEMMA SavedIsOneOf ==
    ASSUME NEW state, NEW saved, Save(state, saved)
    PROVE  disk' \in {disk, Persisted(state)}
BY DEF Save

LEMMA FiniteStep == TypeOK /\ FiniteOK /\ [Next]_vars => FiniteOK'
<1> SUFFICES ASSUME TypeOK, FiniteOK, [Next]_vars PROVE FiniteOK'
  OBVIOUS
<1>0. mem' \in WatchdogState /\ mem \in WatchdogState /\ disk \in WatchdogState
  BY TypeStep DEF TypeOK
<1>1. CASE \/ InitialDelayOver \/ BeginCycle \/ BeginRestartCommand \/ HandleAction \/ CallFails
           \/ SettleOver \/ VerifyFails \/ GoToSleep \/ WakeUp \/ Signal \/ Tick \/ SendRecovery
           \/ UNCHANGED vars
  BY <1>1 DEF FiniteOK, InitialDelayOver, BeginCycle, BeginRestartCommand, Begin, HandleAction,
     CallFails, SettleOver, VerifyFails, GoToSleep, WakeUp, Signal, Tick, SendRecovery, vars,
     process, history
<1>2. ASSUME NEW accepted \in BOOLEAN, CallDevice(accepted)
      PROVE  FiniteOK'
  BY <1>0, <1>2, FiniteSteps DEF CallDevice, process
<1>3. ASSUME NEW sent \in BOOLEAN, SendAlert(sent)
      PROVE  FiniteOK'
  BY <1>0, <1>3, FiniteSteps DEF SendAlert, WatchdogState
<1>4. ASSUME NEW saved \in SaveResults, SaveAlertFlag(saved)
      PROVE  FiniteOK'
  BY <1>0, <1>4, SavedIsOneOf, FiniteSteps DEF SaveAlertFlag, process
<1>5. ASSUME NEW status \in Status, NEW saved \in SaveResults, Verify(status, saved)
      PROVE  FiniteOK'
  <2>1. mem'.reboot_history = mem.reboot_history
    BY <1>0, <1>5 DEF Verify, Verified, WatchdogState
  <2> QED
    BY <1>0, <1>5, <2>1, SavedIsOneOf, FiniteSteps DEF Verify
<1>6. CASE LeaveLoop \/ Return \/ Crash
  BY <1>0, <1>6, FiniteSteps DEF LeaveLoop, Return, Crash, Vanish, FreshState
<1>7. CASE Start
  BY <1>0, <1>7, FiniteSteps DEF Start, LoadResults, FreshState, history
<1>8. ASSUME NEW status \in Status, NEW saved \in SaveResults, Evaluate(status, saved)
      PROVE  FiniteOK'
  <2>1. mem'.reboot_history = PruneHistory(mem.reboot_history, now)
    BY <1>8 DEF Evaluate, Transition
  <2>2. disk' \in {disk, Persisted(mem')}
    BY <1>8, SavedIsOneOf DEF Evaluate
  <2>3. calls' = calls
    BY <1>8 DEF Evaluate
  <2> QED
    BY <1>0, <2>1, <2>2, <2>3, FiniteSteps
<1>9. ASSUME NEW saved \in SaveResults, RecordAttempt(saved)
      PROVE  FiniteOK'
  BY <1>0, <1>9, SavedIsOneOf, FiniteSteps DEF RecordAttempt
<1>10. ASSUME NEW saved \in SaveResults, MarkAccepted(saved)
       PROVE  FiniteOK'
  BY <1>0, <1>10, SavedIsOneOf, FiniteSteps DEF MarkAccepted
<1> QED
  BY <1>1, <1>2, <1>3, <1>4, <1>5, <1>6, <1>7, <1>8, <1>9, <1>10 DEF Next, Work, Environment

(* A set of past times is finite. *)
LEMMA PastIsFinite ==
    ASSUME NEW T \in SUBSET Nat, NEW n \in Nat, \A t \in T : t <= n
    PROVE  IsFiniteSet(T)
<1>1. T \subseteq 0 .. n
  OBVIOUS
<1>2. IsFiniteSet(0 .. n)
  BY FS_Interval
<1> QED
  BY <1>1, <1>2, FS_Subset

(* The calls of the process in the window are no more than the attempts    *)
(* the decision counts.                                                    *)
LEMMA OwnCounted ==
    ASSUME OwnInv, Alive
    PROVE  Cardinality({t \in own : t >= now - RebootWindow})
              <= Cardinality(RecentAttempts(PruneHistory(mem.reboot_history, now), now))
<1> DEFINE C == {t \in own : t >= now - RebootWindow}
           R == RecentAttempts(PruneHistory(mem.reboot_history, now), now)
           f == [t \in C |-> CHOOSE a \in R : a.timestamp = t]
<1>1. now \in Nat /\ own \in SUBSET Nat /\ mem \in WatchdogState /\ IsFiniteSet(mem.reboot_history)
  BY DEF OwnInv, TypeOK, FiniteOK
<1>2. ASSUME NEW t \in C
      PROVE  \E a \in R : a.timestamp = t
  <2>1. t \in own /\ t \in Nat /\ t >= now - RebootWindow
    BY <1>1
  <2>2. t >= now - Retention
    BY <1>1, <2>1, BudgetSpanType, PolicyAssumption
  <2>3. PICK a \in mem.reboot_history : a.timestamp = t
    BY <2>1, <2>2 DEF OwnInv, OwnRemembered, Remembered
  <2> QED
    BY <2>1, <2>2, <2>3 DEF RecentAttempts, PruneHistory
<1>3. \A t \in C : f[t] \in R /\ f[t].timestamp = t
  BY <1>2
<1>4. f \in Injection(C, R)
  <2>1. f \in [C -> R]
    BY <1>3
  <2>2. \A t, u \in C : f[t] = f[u] => t = u
    BY <1>3
  <2> QED
    BY <2>1, <2>2 DEF Injection, IsInjective
<1>5. IsFiniteSet(R)
  BY <1>1, HistoryFinite
<1> QED
  <2> HIDE DEF C, R, f
  <2>1. Cardinality(C) <= Cardinality(R)
    BY <1>4, <1>5, FS_Injection
  <2> QED
    BY <2>1 DEF C, R

(* A step that issues no call, begins no cycle and forgets no attempt.     *)
LEMMA OwnSame ==
    ASSUME OwnInv, TypeOK', FiniteOK', Alive, Alive',
           own' = own, now' = now, mode' = mode,
           \A t \in Nat : Remembered(mem.reboot_history, t) => Remembered(mem'.reboot_history, t),
           pc' \in BeforeCall => pc \in BeforeCall,
           pc' \in {"delay", "loop"} =>
               pc \in {"delay", "loop"} \union BeforeCall \/ mode # "restart",
           pc' = "call" => pc = "call",
           pc' = "sleep" => mode = "daemon",
           DecisionPending' => DecisionPending
    PROVE  OwnInv'
<1>1. own \in SUBSET Nat /\ now \in Nat
  BY DEF OwnInv, TypeOK
<1>2. OwnCallsPast'
  BY DEF OwnInv, OwnCallsPast, Alive
<1>3. OneOfCommand'
  BY DEF OwnInv, OneOfCommand
<1>4. OwnRemembered'
  BY <1>1 DEF OwnInv, OwnRemembered
<1>5. OwnBudgetLeft'
  BY DEF OwnInv, OwnBudgetLeft
<1>6. ProcessLimit'
  BY DEF OwnInv, ProcessLimit
<1> QED
  BY <1>2, <1>3, <1>4, <1>5, <1>6 DEF OwnInv

LEMMA OwnVanish ==
    ASSUME OwnInv, TypeOK', FiniteOK', Vanish
    PROVE  OwnInv'
<1>1. pc' = "down" /\ own' = {}
  BY DEF Vanish
<1>2. OwnCallsPast' /\ OneOfCommand' /\ OwnRemembered' /\ ProcessLimit'
  BY <1>1 DEF OwnCallsPast, OneOfCommand, OwnRemembered, ProcessLimit, BeforeCall
<1>3. OwnBudgetLeft'
  BY <1>1 DEF OwnBudgetLeft, DecisionPending
<1> QED
  BY <1>2, <1>3 DEF OwnInv

LEMMA OwnStart ==
    ASSUME OwnInv, TypeOK', FiniteOK', Start
    PROVE  OwnInv'
<1>1. pc' \in {"delay", "loop"} /\ own' = {}
  BY DEF Start, history, OwnInv, OwnCallsPast, Alive
<1>2. OwnCallsPast' /\ OneOfCommand' /\ OwnRemembered' /\ ProcessLimit'
  BY <1>1 DEF OwnCallsPast, OneOfCommand, OwnRemembered, ProcessLimit, BeforeCall
<1>3. OwnBudgetLeft'
  BY <1>1 DEF OwnBudgetLeft, DecisionPending
<1> QED
  BY <1>2, <1>3 DEF OwnInv

(* What a later cut keeps an earlier one kept. *)
LEMMA CutLater ==
    ASSUME NEW t \in Nat, NEW r \in Nat, NEW m \in Nat, NEW n \in Nat, m < n, t >= n - r
    PROVE  t >= m - r
OBVIOUS

LEMMA OwnBegin ==
    ASSUME OwnInv, TypeOK', FiniteOK', BeginCycle \/ BeginRestartCommand
    PROVE  OwnInv'
<1>1. /\ pc = "loop" /\ pc' \in {"measure", "record"} /\ mode' = mode /\ mem' = mem /\ own' = own
      /\ now + Grain <= now'
      /\ pc' = "record" => mode = "restart"
  BY DEF BeginCycle, BeginRestartCommand, Begin, history, OwnInv, TypeOK
<1>2. now \in Nat /\ now' \in Nat /\ now < now' /\ own \in SUBSET Nat
  BY <1>1, WatchdogAssumption DEF OwnInv, TypeOK
<1>3. \A t \in own : t < now'
  BY <1>2 DEF OwnInv, OwnCallsPast
<1>4. OwnCallsPast'
  BY <1>1, <1>2, <1>3 DEF OwnCallsPast, Alive
<1>5. OneOfCommand'
  BY <1>1 DEF OwnInv, OneOfCommand
<1>6. OwnRemembered'
  <2>1. ASSUME NEW t \in own, t >= now' - Retention
        PROVE  t >= now - Retention
    <3>1. t \in Nat
      BY <1>2
    <3> QED
      BY <1>2, <2>1, <3>1, BudgetSpanType, CutLater
  <2> QED
    BY <1>1, <2>1 DEF OwnInv, OwnRemembered
<1>7. OwnBudgetLeft'
  BY <1>1 DEF OwnBudgetLeft, DecisionPending
<1>8. ProcessLimit'
  BY <1>1 DEF OwnInv, ProcessLimit
<1> QED
  BY <1>4, <1>5, <1>6, <1>7, <1>8 DEF OwnInv

(* The decision: a reboot leaves room for the call to come. *)
LEMMA OwnEvaluate ==
    ASSUME OwnInv, TypeOK', FiniteOK', NEW status \in Status, NEW saved, Evaluate(status, saved)
    PROVE  OwnInv'
<1> DEFINE next == Transition(mem, status, now)
           W == {t \in own : t >= now - RebootWindow}
           R == RecentAttempts(PruneHistory(mem.reboot_history, now), now)
<1>1. /\ pc = "measure" /\ pc' \in {"alert", "recover", "act"}
      /\ own' = own /\ now' = now /\ mode' = mode /\ mem' = next.state /\ action' = next.action
  BY DEF Evaluate
<1>2. mem'.reboot_history = PruneHistory(mem.reboot_history, now)
  BY <1>1 DEF Transition
<1>3. own \in SUBSET Nat /\ now \in Nat /\ mem \in WatchdogState /\ IsFiniteSet(mem.reboot_history)
  BY DEF OwnInv, TypeOK, FiniteOK
<1>4. OwnCallsPast'
  BY <1>1 DEF OwnInv, OwnCallsPast, Alive, BeforeCall
<1>5. OneOfCommand'
  BY <1>1 DEF OwnInv, OneOfCommand, BeforeCall
<1>6. OwnRemembered'
  <2>1. \A t \in own : t >= now - Retention => Remembered(mem'.reboot_history, t)
    BY <1>2 DEF OwnInv, OwnRemembered, Remembered, PruneHistory
  <2> QED
    BY <1>1, <2>1 DEF OwnRemembered
<1>7. ASSUME action' = "REBOOT"
      PROVE  Cardinality(W) < MaxReboots
  <2> DEFINE exhausted == Cardinality(R) >= MaxReboots
             limit == Cardinality(InFailWindow(NotedTimestamps(mem.degraded_timestamps, status, now), now)) >= FailLimit
  <2>1. action' = Decision(limit, exhausted)
    BY <1>1 DEF Transition
  <2>2. ~exhausted
    <3> HIDE DEF exhausted, limit
    <3> QED
      BY <1>7, <2>1, PolicyAssumption DEF Decision
  <2>3. Cardinality(W) <= Cardinality(R)
    BY <1>1, OwnCounted DEF Alive
  <2>4. Cardinality(W) \in Nat /\ Cardinality(R) \in Nat
    <3>1. \A t \in W : t <= now
      BY DEF OwnInv, OwnCallsPast
    <3>2. IsFiniteSet(W)
      BY <1>3, <3>1, PastIsFinite
    <3>3. IsFiniteSet(R)
      BY <1>3, HistoryFinite
    <3> QED
      BY <3>2, <3>3, FS_CardinalityType
  <2> HIDE DEF W, R
  <2> QED
    BY <2>2, <2>3, <2>4, PolicyAssumption
<1>8. OwnBudgetLeft'
  BY <1>1, <1>7 DEF OwnBudgetLeft, DecisionPending
<1>9. ProcessLimit'
  BY <1>1 DEF OwnInv, ProcessLimit
<1> QED
  BY <1>4, <1>5, <1>6, <1>8, <1>9 DEF OwnInv

LEMMA OwnRecord ==
    ASSUME OwnInv, TypeOK', FiniteOK', NEW saved, RecordAttempt(saved)
    PROVE  OwnInv'
<1> DEFINE new == [timestamp |-> now, accepted |-> FALSE]
<1>1. /\ pc = "record" /\ pc' \in {"call", "rest"} /\ mem' = RecordReboot(mem, now)
      /\ own' = own /\ now' = now /\ mode' = mode /\ action' = action
  BY DEF RecordAttempt
<1>2. mem'.reboot_history = mem.reboot_history \union {new}
  BY <1>1 DEF RecordReboot, OwnInv, TypeOK, WatchdogState
<1>3. /\ \A t : Remembered(mem.reboot_history, t) => Remembered(mem'.reboot_history, t)
      /\ Remembered(mem'.reboot_history, now)
  <2>1. \A t : Remembered(mem.reboot_history, t) => Remembered(mem'.reboot_history, t)
    BY <1>2 DEF Remembered
  <2>2. new \in mem'.reboot_history /\ new.timestamp = now
    BY <1>2
  <2> QED
    BY <2>1, <2>2 DEF Remembered
<1>4. OwnCallsPast'
  BY <1>1 DEF OwnInv, OwnCallsPast, Alive, BeforeCall
<1>5. OneOfCommand'
  BY <1>1 DEF OwnInv, OneOfCommand, BeforeCall
<1>6. OwnRemembered'
  BY <1>1, <1>3 DEF OwnInv, OwnRemembered
<1>7. OwnBudgetLeft'
  BY <1>1 DEF OwnInv, OwnBudgetLeft, DecisionPending
<1>8. ProcessLimit'
  BY <1>1 DEF OwnInv, ProcessLimit
<1> QED
  BY <1>4, <1>5, <1>6, <1>7, <1>8 DEF OwnInv

(* The call itself: the room that was left is for it. *)
LEMMA OwnCall ==
    ASSUME OwnInv, TypeOK', FiniteOK', NEW accepted, CallDevice(accepted)
    PROVE  OwnInv'
<1> DEFINE W == {t \in own : t >= now - RebootWindow}
<1>1. /\ pc = "call" /\ pc' \in {"mark", "rest"} /\ own' = own \union {now}
      /\ now' = now /\ mem' = mem /\ mode' = mode
  BY DEF CallDevice, process
<1>2. now \in Nat /\ own \in SUBSET Nat /\ \A t \in own : t < now
  BY <1>1 DEF OwnInv, TypeOK, OwnCallsPast, BeforeCall
<1>3. OwnCallsPast'
  BY <1>1, <1>2 DEF OwnCallsPast, Alive, BeforeCall
<1>4. OneOfCommand'
  BY <1>1 DEF OneOfCommand, BeforeCall
<1>5. OwnRemembered'
  BY <1>1 DEF OwnInv, OwnRemembered
<1>6. OwnBudgetLeft'
  BY <1>1 DEF OwnBudgetLeft, DecisionPending
<1>7. Cardinality(W \union {now}) <= MaxReboots
  <2>1. Cardinality(W) < MaxReboots
    <3>1. CASE mode = "restart"
      <4>1. W = {}
        BY <1>1, <3>1 DEF OwnInv, OneOfCommand, BeforeCall
      <4> HIDE DEF W
      <4> QED
        BY <4>1, FS_EmptySet, PolicyAssumption
    <3>2. CASE mode # "restart"
      BY <1>1, <3>2 DEF OwnInv, OwnBudgetLeft, DecisionPending
    <3> QED
      BY <3>1, <3>2
  <2>2. IsFiniteSet(W) /\ now \notin W
    <3>1. W \in SUBSET Nat
      BY <1>2
    <3>2. \A t \in W : t < now /\ t <= now
      BY <1>2
    <3>3. ~(now < now)
      BY <1>2
    <3> HIDE DEF W
    <3> QED
      BY <1>2, <3>1, <3>2, <3>3, PastIsFinite
  <2> HIDE DEF W
  <2>3. Cardinality(W \union {now}) = Cardinality(W) + 1 /\ Cardinality(W) \in Nat
    BY <2>2, FS_AddElement, FS_CardinalityType
  <2> QED
    BY <2>1, <2>3, PolicyAssumption
<1>8. ProcessLimit'
  <2> SUFFICES ASSUME NEW t \in own'
               PROVE  Cardinality({u \in own' : u >= t - RebootWindow /\ u <= t}) <= MaxReboots
    BY DEF ProcessLimit
  <2>1. CASE t \in own
    <3>1. {u \in own' : u >= t - RebootWindow /\ u <= t} = {u \in own : u >= t - RebootWindow /\ u <= t}
      BY <1>1, <1>2, <2>1
    <3> QED
      BY <2>1, <3>1 DEF OwnInv, ProcessLimit
  <2>2. CASE t = now
    <3>1. \A u \in own' : u >= t - RebootWindow /\ u <= t <=> u \in W \union {now}
      <4>1. now >= now - RebootWindow /\ now <= now
        BY <1>2, PolicyAssumption
      <4>2. \A u \in own : u <= now
        BY <1>2
      <4> QED
        BY <1>1, <2>2, <4>1, <4>2
    <3>2. W \union {now} \subseteq own'
      BY <1>1
    <3> HIDE DEF W
    <3>3. {u \in own' : u >= t - RebootWindow /\ u <= t} = W \union {now}
      BY <3>1, <3>2, Zenon
    <3> QED
      BY <1>7, <3>3
  <2> QED
    BY <1>1, <2>1, <2>2
<1> QED
  BY <1>3, <1>4, <1>5, <1>6, <1>8 DEF OwnInv

LEMMA OwnStep == OwnInv /\ [Next]_vars => OwnInv'
<1> SUFFICES ASSUME OwnInv, [Next]_vars PROVE OwnInv'
  OBVIOUS
<1>0. TypeOK' /\ FiniteOK' /\ mem \in WatchdogState
  BY TypeStep, FiniteStep DEF OwnInv, TypeOK
<1>1. CASE \/ InitialDelayOver \/ HandleAction \/ CallFails \/ SettleOver \/ VerifyFails
           \/ GoToSleep \/ WakeUp \/ SendRecovery
  <2>1. /\ own' = own /\ now' = now /\ mode' = mode /\ mem' = mem /\ action' = action
        /\ Alive /\ Alive' /\ pc' # "call"
        /\ pc' \in BeforeCall => pc \in BeforeCall
        /\ pc' = "sleep" => mode = "daemon"
    BY <1>1 DEF InitialDelayOver, HandleAction, CallFails, SettleOver, VerifyFails,
       GoToSleep, WakeUp, SendRecovery, process, history, Alive, BeforeCall
  <2>2. pc' \in {"delay", "loop"} => pc \in {"delay", "loop"} \union BeforeCall \/ mode # "restart"
    BY <1>1 DEF InitialDelayOver, HandleAction, CallFails, SettleOver, VerifyFails,
       GoToSleep, WakeUp, SendRecovery, OwnInv, OneOfCommand
  <2>3. DecisionPending' => DecisionPending
    BY <1>1, <2>1 DEF InitialDelayOver, HandleAction, CallFails, SettleOver, VerifyFails,
       GoToSleep, WakeUp, SendRecovery, DecisionPending
  <2> QED
    BY <1>0, <2>1, <2>2, <2>3, OwnSame
<1>2. CASE Signal \/ Tick \/ UNCHANGED vars
  BY <1>0, <1>2 DEF Signal, Tick, vars, process, history, OwnInv, OwnCallsPast, OneOfCommand,
     OwnRemembered, OwnBudgetLeft, DecisionPending, ProcessLimit, Alive
<1>3. CASE BeginCycle \/ BeginRestartCommand
  BY <1>0, <1>3, OwnBegin
<1>4. ASSUME NEW sent \in BOOLEAN, SendAlert(sent)
      PROVE  OwnInv'
  <2>1. mem'.reboot_history = mem.reboot_history
    BY <1>0, <1>4 DEF SendAlert, WatchdogState
  <2> QED
    BY <1>0, <1>4, <2>1, OwnSame DEF SendAlert, Alive, BeforeCall, DecisionPending
<1>5. ASSUME NEW saved \in SaveResults, SaveAlertFlag(saved)
      PROVE  OwnInv'
  BY <1>0, <1>5, OwnSame DEF SaveAlertFlag, process, Alive, BeforeCall, DecisionPending
<1>6. ASSUME NEW status \in Status, NEW saved \in SaveResults, Verify(status, saved)
      PROVE  OwnInv'
  <2>1. mem'.reboot_history = mem.reboot_history
    BY <1>0, <1>6 DEF Verify, Verified, WatchdogState
  <2> QED
    BY <1>0, <1>6, <2>1, OwnSame DEF Verify, Alive, BeforeCall, DecisionPending
<1>7. CASE LeaveLoop \/ Return \/ Crash
  BY <1>0, <1>7, OwnVanish DEF LeaveLoop, Return, Crash
<1>8. CASE Start
  BY <1>0, <1>8, OwnStart
<1>9. ASSUME NEW status \in Status, NEW saved \in SaveResults, Evaluate(status, saved)
      PROVE  OwnInv'
  BY <1>0, <1>9, OwnEvaluate
<1>10. ASSUME NEW saved \in SaveResults, RecordAttempt(saved)
       PROVE  OwnInv'
  BY <1>0, <1>10, OwnRecord
<1>11. ASSUME NEW accepted \in BOOLEAN, CallDevice(accepted)
       PROVE  OwnInv'
  BY <1>0, <1>11, OwnCall
<1>12. ASSUME NEW saved \in SaveResults, MarkAccepted(saved)
       PROVE  OwnInv'
  <2>1. mem' = AcceptLast(mem, now)
    BY <1>12 DEF MarkAccepted
  <2>2. ASSUME NEW t \in Nat, Remembered(mem.reboot_history, t)
        PROVE  Remembered(mem'.reboot_history, t)
    <3>1. PICK a \in mem.reboot_history : a.timestamp = t
      BY <2>2 DEF Remembered
    <3> DEFINE b == IF a.timestamp = now THEN [a EXCEPT !.accepted = TRUE] ELSE a
    <3>2. b \in mem'.reboot_history
      BY <1>0, <2>1 DEF AcceptLast, WatchdogState
    <3>3. b.timestamp = t
      BY <1>0, <3>1 DEF WatchdogState, RebootAttempt
    <3> QED
      BY <3>2, <3>3 DEF Remembered
  <2> QED
    BY <1>0, <1>12, <2>2, OwnSame DEF MarkAccepted, Alive, BeforeCall, DecisionPending
<1> QED
  BY <1>1, <1>2, <1>3, <1>4, <1>5, <1>6, <1>7, <1>8, <1>9, <1>10, <1>11, <1>12
     DEF Next, Work, Environment

LEMMA OwnInit == Init => OwnInv
<1> SUFFICES ASSUME Init PROVE OwnInv
  OBVIOUS
<1>1. FiniteOK
  BY FS_EmptySet DEF Init, FiniteOK, FreshState
<1>2. pc = "down" /\ own = {}
  BY DEF Init
<1>3. OwnCallsPast /\ OneOfCommand /\ OwnRemembered /\ ProcessLimit
  BY <1>2 DEF OwnCallsPast, OneOfCommand, OwnRemembered, ProcessLimit, BeforeCall
<1>4. OwnBudgetLeft
  BY <1>2 DEF OwnBudgetLeft, DecisionPending
<1> QED
  BY <1>1, <1>3, <1>4, InitTypeOK DEF OwnInv

(* Without a state file, after one that could not be read, whichever saves *)
(* fail: each process keeps the limit for the calls it issues itself.      *)
THEOREM ProcessKeepsLimit == Spec => []ProcessLimit
<1>1. OwnInv => ProcessLimit
  BY DEF OwnInv
<1> QED
  BY <1>1, OwnInit, OwnStep, PTL DEF Spec
=============================================================================
