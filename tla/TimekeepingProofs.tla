-------------------------- MODULE TimekeepingProofs --------------------------
(* The guarantees of module Timekeeping, for all settings, durations and    *)
(* jumps of the wall clock.                                                 *)
EXTENDS Timekeeping, FiniteSetTheorems, TLAPS

(* The larger of two numbers. *)
LEMMA LargerIs ==
    ASSUME NEW a \in Int, NEW b \in Int
    PROVE  /\ Larger(a, b) \in Int
           /\ Larger(a, b) >= a /\ Larger(a, b) >= b
           /\ Larger(a, b) = a \/ Larger(a, b) = b
BY DEF Larger

(* A heartbeat written, or not written, keeps the history true and counts   *)
(* as tried now.                                                            *)
LEMMA WritingKeepsAge ==
    ASSUME TypeOK, HistoryBehind, AgeIsTrue, NEW written \in BOOLEAN,
           WriteHeartbeat(wall, written), UNCHANGED clocks
    PROVE  /\ heartbeat' \in Nat \union {NoBeat}
           /\ beatAt' \in Nat /\ slip' \in Int /\ troubleAt' \in Nat
           /\ beatAt' <= time /\ troubleAt' <= time
           /\ AgeIsTrue'
           /\ beatAt' = time \/ troubleAt' >= time
BY DEF TypeOK, HistoryBehind, AgeIsTrue, WriteHeartbeat, beats, clocks, NoBeat

(* The parts but the last two are kept by every step. *)
LEMMA TypeKept ==
    ASSUME TimeInv, [Next]_vars
    PROVE  TypeOK' /\ HistoryBehind' /\ AgeIsTrue'
<1> USE TimekeepingAssumption DEF TimeInv
<1>1. CASE \E written \in WriteResults : Start(written)
    <2>1. PICK written \in BOOLEAN : Start(written)
        BY <1>1 DEF WriteResults
    <2>2. CASE InitialDelay > 0
        <3>1. WriteHeartbeat(wall, written) /\ UNCHANGED clocks
            BY <2>1, <2>2 DEF Start
        <3>2. /\ pc' = "delay" /\ wakeAt' = time + InitialDelay
              /\ startedAt' = time /\ rebooted' \in BOOLEAN /\ once' \in BOOLEAN
              /\ UNCHANGED <<clocks, cycleStart, now, aheadAtStart, record, settings>>
            BY <2>1, <2>2 DEF Start
        <3>3. QED
            BY <3>1, <3>2, WritingKeepsAge
               DEF TypeOK, HistoryBehind, clocks, record, settings
    <2>3. CASE ~(InitialDelay > 0)
        <3>1. /\ pc' = "loop" /\ startedAt' = time
              /\ rebooted' \in BOOLEAN /\ once' \in BOOLEAN
              /\ UNCHANGED <<wakeAt, beats, troubleAt, clocks, cycleStart, now, aheadAtStart,
                             record, settings>>
            BY <2>1, <2>3 DEF Start
        <3>2. QED
            BY <3>1 DEF TypeOK, HistoryBehind, AgeIsTrue, clocks, record, settings, beats
    <2>4. QED
        BY <2>2, <2>3
<1>2. CASE \E written \in WriteResults : BeginCycle(written)
    <2>1. PICK written \in BOOLEAN : BeginCycle(written)
        BY <1>2 DEF WriteResults
    <2>2. WriteHeartbeat(wall, written) /\ UNCHANGED clocks
        BY <2>1 DEF BeginCycle
    <2>3. QED
        BY <2>1, <2>2, WritingKeepsAge
           DEF BeginCycle, TypeOK, HistoryBehind, clocks, record, settings
<1>3. CASE WakeUp
    BY <1>3 DEF WakeUp, TypeOK, HistoryBehind, AgeIsTrue, clocks, record, beats, settings
<1>4. CASE \E request \in BOOLEAN : Act(request)
    <2>1. PICK request \in BOOLEAN : Act(request)
        BY <1>4
    <2>2. rebooted' \in BOOLEAN
        BY <2>1 DEF Act
    <2>3. attempts' \in SUBSET Attempts /\ calls' \in SUBSET Attempts
        BY <2>1 DEF Act, TypeOK, Pruned, Attempts
    <2>4. QED
        BY <2>1, <2>2, <2>3
           DEF Act, TypeOK, HistoryBehind, AgeIsTrue, clocks, beats, settings
<1>5. CASE GoToSleep
    <2>1. WaitTarget \in Nat
        BY DEF WaitTarget
    <2>2. wakeAt' \in Nat
        BY <1>5, <2>1 DEF GoToSleep, Larger, TypeOK, HistoryBehind
    <2>3. QED
        BY <1>5, <2>2
           DEF GoToSleep, TypeOK, HistoryBehind, AgeIsTrue, clocks, record, beats, settings
<1>6. CASE Leave
    BY <1>6 DEF Leave, TypeOK, HistoryBehind, AgeIsTrue, clocks, record, beats, settings
<1>7. CASE Tick
    BY <1>7 DEF Tick, TypeOK, HistoryBehind, AgeIsTrue, daemon, record, beats, settings
<1>8. CASE \E j \in Jumps : Jump(j)
    <2>1. PICK j \in Int : Jump(j)
        BY <1>8
    <2>2. ahead' \in Nat
        BY <2>1 DEF Jump, Larger, TypeOK
    <2>3. QED
        BY <2>1, <2>2 DEF Jump, TypeOK, HistoryBehind, AgeIsTrue, daemon, record
<1>9. CASE UNCHANGED vars
    BY <1>9 DEF vars, TypeOK, HistoryBehind, AgeIsTrue, clocks, daemon, record, beats, settings
<1>10. CASE StartOnce
    <2>1. rebooted' \in BOOLEAN /\ once' \in BOOLEAN
        BY <1>10 DEF StartOnce
    <2>2. QED
        BY <1>10, <2>1
           DEF StartOnce, TypeOK, HistoryBehind, AgeIsTrue, clocks, record, settings, beats
<1>11. QED
    BY <1>1, <1>2, <1>3, <1>4, <1>5, <1>6, <1>7, <1>8, <1>9, <1>10 DEF Next

(* No phase outlasts its bound. *)
LEMMA BoundsKept ==
    ASSUME TimeInv, [Next]_vars
    PROVE  PhaseBounded'
<1> USE TimekeepingAssumption DEF TimeInv
<1>1. CASE \E written \in WriteResults : Start(written)
    <2>1. PICK written \in BOOLEAN : Start(written)
        BY <1>1 DEF WriteResults
    <2>2. CASE InitialDelay > 0
        <3>1. WriteHeartbeat(wall, written) /\ UNCHANGED clocks
            BY <2>1, <2>2 DEF Start
        <3>2. QED
            BY <2>1, <2>2, <3>1, WritingKeepsAge
               DEF Start, PhaseBounded, BeatTried, TypeOK, clocks
    <2>3. CASE ~(InitialDelay > 0)
        BY <2>1, <2>3 DEF Start, PhaseBounded
    <2>4. QED
        BY <2>2, <2>3
<1>2. CASE \E written \in WriteResults : BeginCycle(written)
    <2>1. PICK written \in BOOLEAN : BeginCycle(written)
        BY <1>2 DEF WriteResults
    <2>2. WriteHeartbeat(wall, written) /\ UNCHANGED clocks
        BY <2>1 DEF BeginCycle
    <2>3. QED
        BY <2>1, <2>2, WritingKeepsAge DEF BeginCycle, PhaseBounded, BeatTried, TypeOK, clocks
<1>3. CASE WakeUp
    BY <1>3 DEF WakeUp, PhaseBounded
<1>4. CASE \E request \in BOOLEAN : Act(request)
    BY <1>4 DEF Act, PhaseBounded, BeatTried, TypeOK, clocks, beats
<1>5. CASE GoToSleep
    <2>1. WaitTarget \in Nat /\ WaitTarget' = WaitTarget
        BY <1>5 DEF WaitTarget, GoToSleep
    <2>2. /\ time <= wakeAt'
          /\ wakeAt' >= cycleStart + WaitTarget
          /\ wakeAt' <= cycleStart + Larger(MaxCycle, WaitTarget)
        BY <1>5, <2>1 DEF GoToSleep, Larger, TypeOK, PhaseBounded
    <2>3. QED
        BY <1>5, <2>1, <2>2 DEF GoToSleep, PhaseBounded, BeatTried, clocks, beats
<1>6. CASE Leave
    BY <1>6 DEF Leave, PhaseBounded
<1>7. CASE Tick
    <2>1. WaitTarget' = WaitTarget
        BY <1>7 DEF WaitTarget, Tick, daemon
    <2>2. QED
        BY <1>7, <2>1 DEF Tick, PhaseBounded, BeatTried, TypeOK, daemon, beats
<1>8. CASE \E j \in Jumps : Jump(j)
    <2>1. PICK j \in Int : Jump(j)
        BY <1>8
    <2>2. WaitTarget' = WaitTarget
        BY <2>1 DEF WaitTarget, Jump, daemon
    <2>3. beatAt' = beatAt /\ troubleAt' >= troubleAt
        BY <2>1 DEF Jump, HistoryBehind, TypeOK
    <2>4. QED
        BY <2>1, <2>2, <2>3 DEF Jump, PhaseBounded, BeatTried, TypeOK, HistoryBehind, daemon
<1>9. CASE UNCHANGED vars
    <2>1. WaitTarget' = WaitTarget
        BY <1>9 DEF WaitTarget, vars, daemon
    <2>2. QED
        BY <1>9, <2>1 DEF vars, PhaseBounded, BeatTried, clocks, daemon, beats
<1>10. CASE StartOnce
    BY <1>10 DEF StartOnce, PhaseBounded
<1>11. QED
    BY <1>1, <1>2, <1>3, <1>4, <1>5, <1>6, <1>7, <1>8, <1>9, <1>10 DEF Next

(* The attempts the window of a cycle counts include all that were made     *)
(* within it in real time and by what the clock was set forward, so one     *)
(* more is within the limit.                                                *)
LEMMA OneMoreIsWithin ==
    ASSUME TimeInv, pc = "cycle", Cardinality(Recent(now)) < MaxReboots
    PROVE  LET d == [real |-> cycleStart, wall |-> now, ahead |-> aheadAtStart]
               W == {c \in calls : Apart(c, d) <= RebootWindow}
           IN  IsFiniteSet(W) /\ Cardinality(W \union {d}) <= MaxReboots
<1> USE TimekeepingAssumption DEF TimeInv
<1> DEFINE d == [real |-> cycleStart, wall |-> now, ahead |-> aheadAtStart]
           W == {c \in calls : Apart(c, d) <= RebootWindow}
<1>1. W \subseteq Recent(now)
    <2> SUFFICES ASSUME NEW c \in W PROVE c \in Recent(now)
        OBVIOUS
    <2>1. /\ c \in Attempts /\ c.real \in Nat /\ c.wall \in Nat /\ c.ahead \in Nat
          /\ cycleStart \in Nat /\ now \in Nat /\ aheadAtStart \in Nat
        BY DEF TypeOK, Attempts
    <2>2. (cycleStart - c.real) + (aheadAtStart - c.ahead) <= RebootWindow
        BY DEF Apart
    <2>3. now - c.wall <= (cycleStart - c.real) + (aheadAtStart - c.ahead)
        BY DEF CallsRemembered
    <2>4. c \in attempts
        BY <2>1, <2>2 DEF CallsRemembered
    <2>5. QED
        BY <2>1, <2>2, <2>3, <2>4 DEF Recent
<1>2. IsFiniteSet(Recent(now))
    <2>1. Recent(now) \subseteq calls
        BY DEF Recent, CallsRemembered
    <2>2. QED
        BY <2>1, FS_Subset DEF CallsRemembered
<1>3. IsFiniteSet(W) /\ Cardinality(W) <= Cardinality(Recent(now))
    BY <1>1, <1>2, FS_Subset
<1>4. Cardinality(W) \in Nat /\ Cardinality(Recent(now)) \in Nat
    BY <1>2, <1>3, FS_CardinalityType
<1> HIDE DEF d, W
<1>5. Cardinality(W \union {d}) <= Cardinality(W) + 1
    <2>1. Cardinality(W \union {d}) = IF d \in W THEN Cardinality(W) ELSE Cardinality(W) + 1
        BY <1>3, FS_AddElement
    <2>2. QED
        BY <1>4, <2>1
<1>6. Cardinality(W \union {d}) <= MaxReboots
    <2>1. Cardinality(W \union {d}) \in Nat
        BY <1>3, FS_AddElement, FS_CardinalityType
    <2>2. QED
        BY <1>3, <1>4, <1>5, <2>1
<1>7. QED
    BY <1>3, <1>6 DEF d, W

(* Attempts are remembered, and limited, whatever step is taken. *)
LEMMA CallsKept ==
    ASSUME TimeInv, [Next]_vars
    PROVE  CallsRemembered' /\ RealTimeLimit'
<1> USE TimekeepingAssumption DEF TimeInv
<1>a. /\ time \in Nat /\ wall \in Nat /\ cycleStart \in Nat /\ now \in Nat
      /\ ahead \in Nat /\ aheadAtStart \in Nat
      /\ \A c \in calls : c.real \in Nat /\ c.wall \in Nat /\ c.ahead \in Nat
    BY DEF TypeOK, Attempts
<1>1. CASE \E written \in WriteResults : Start(written)
    <2>1. UNCHANGED <<clocks, record, settings, cycleStart, now, aheadAtStart>> /\ pc' # "cycle"
        BY <1>1 DEF Start
    <2>2. QED
        BY <2>1 DEF CallsRemembered, RealTimeLimit, clocks, record, settings
<1>2. CASE \E written \in WriteResults : BeginCycle(written)
    <2>1. /\ UNCHANGED <<clocks, record, settings>>
          /\ pc' = "cycle" /\ time > cycleStart /\ cycleStart' = time /\ now' = wall
          /\ aheadAtStart' = ahead
        BY <1>2 DEF BeginCycle
    <2>2. RealTimeLimit'
        BY <2>1 DEF RealTimeLimit, record, settings
    <2>3. ASSUME NEW c \in calls
          PROVE  /\ c.real < time
                 /\ wall - c.wall <= (time - c.real) + (ahead - c.ahead)
                 /\ c \in attempts \/ (time - c.real) + (ahead - c.ahead) > Retention
        BY <1>a, <2>1 DEF CallsRemembered
    <2>4. QED
        BY <1>a, <2>1, <2>2, <2>3 DEF CallsRemembered, clocks, record, settings
<1>3. CASE WakeUp
    <2>1. UNCHANGED <<clocks, record, settings, cycleStart, now, aheadAtStart>> /\ pc' # "cycle"
        BY <1>3 DEF WakeUp
    <2>2. QED
        BY <2>1 DEF CallsRemembered, RealTimeLimit, clocks, record, settings
<1>4. CASE \E request \in BOOLEAN : Act(request)
    <2>1. PICK request \in BOOLEAN : Act(request)
        BY <1>4
    <2> DEFINE d == [real |-> cycleStart, wall |-> now, ahead |-> aheadAtStart]
               made == IF rebooted' THEN {d} ELSE {}
    <2>2. /\ pc = "cycle" /\ pc' = "acted"
          /\ attempts' = Pruned(now) \union made
          /\ calls' = calls \union made
          /\ UNCHANGED <<clocks, cycleStart, now, aheadAtStart, settings>>
        BY <2>1 DEF Act
    <2>3. IsFiniteSet(calls') /\ attempts' \subseteq calls'
        <3>1. IsFiniteSet(calls) /\ Pruned(now) \subseteq calls
            BY DEF CallsRemembered, Pruned
        <3>2. IsFiniteSet(calls \union {d}) /\ calls \union {} = calls
            BY <3>1, FS_AddElement
        <3>3. QED
            BY <2>2, <3>1, <3>2
    <2>4. ASSUME NEW c \in calls
          PROVE  /\ c.real <= cycleStart
                 /\ wall - c.wall <= (time - c.real) + (ahead - c.ahead)
                 /\ \/ c \in Pruned(now)
                    \/ (cycleStart - c.real) + (aheadAtStart - c.ahead) > Retention
        BY <1>a, <2>2 DEF CallsRemembered, Pruned
    <2>5. /\ d.real <= cycleStart
          /\ wall - d.wall <= (time - d.real) + (ahead - d.ahead)
        BY <1>a, <2>2 DEF CallsRemembered
    <2>6. CallsRemembered'
        <3>1. aheadAtStart <= ahead
            BY DEF CallsRemembered
        <3>2. \A c \in calls' :
                 /\ c.real <= cycleStart
                 /\ wall - c.wall <= (time - c.real) + (ahead - c.ahead)
                 /\ c \in attempts' \/ (cycleStart - c.real) + (aheadAtStart - c.ahead) > Retention
            BY <2>2, <2>4, <2>5
        <3>3. QED
            BY <2>2, <2>3, <3>1, <3>2 DEF CallsRemembered, clocks, settings
    <2>7. RealTimeLimit'
        <3> SUFFICES ASSUME NEW e \in calls'
                     PROVE  Cardinality({c \in calls' : c.real <= e.real
                                                        /\ Apart(c, e) <= RebootWindow})
                                <= MaxReboots
            BY DEF RealTimeLimit, Apart
        <3>1. CASE ~rebooted'
            BY <2>2, <3>1 DEF RealTimeLimit
        <3>2. CASE rebooted' /\ e \in calls
            <4>1. e.real < cycleStart /\ ~(cycleStart <= e.real)
                BY <1>a, <2>2, <3>2 DEF CallsRemembered
            <4>2. {c \in calls' : c.real <= e.real /\ Apart(c, e) <= RebootWindow}
                      = {c \in calls : c.real <= e.real /\ Apart(c, e) <= RebootWindow}
                BY <2>2, <3>2, <4>1
            <4>3. QED
                BY <3>2, <4>2 DEF RealTimeLimit
        <3>3. CASE rebooted' /\ e \notin calls
            <4> DEFINE W == {c \in calls : Apart(c, d) <= RebootWindow}
            <4>1. e = d
                BY <2>2, <3>3
            <4>2. Cardinality(Recent(now)) < MaxReboots
                BY <2>1, <3>3 DEF Act
            <4>3. {c \in calls' : c.real <= e.real /\ Apart(c, e) <= RebootWindow}
                      = W \union {d}
                <5>1. \A c \in calls : c.real <= d.real
                    BY DEF CallsRemembered
                <5>2. d.real <= d.real /\ Apart(d, d) <= RebootWindow
                    BY <1>a DEF Apart
                <5>3. calls' = calls \union {d}
                    BY <2>2, <3>3
                <5> HIDE DEF d
                <5>4. QED
                    BY <4>1, <5>1, <5>2, <5>3
            <4>4. Cardinality(W \union {d}) <= MaxReboots
                BY <2>2, <4>2, OneMoreIsWithin
            <4>5. QED
                BY <4>3, <4>4
        <3>4. QED
            BY <2>2, <3>1, <3>2, <3>3
    <2>8. QED
        BY <2>6, <2>7
<1>5. CASE GoToSleep
    <2>1. UNCHANGED <<clocks, record, settings, cycleStart, now, aheadAtStart>> /\ pc' # "cycle"
        BY <1>5 DEF GoToSleep
    <2>2. QED
        BY <2>1 DEF CallsRemembered, RealTimeLimit, clocks, record, settings
<1>6. CASE Leave
    <2>1. UNCHANGED <<clocks, record, settings, cycleStart, now, aheadAtStart>> /\ pc' # "cycle"
        BY <1>6 DEF Leave
    <2>2. QED
        BY <2>1 DEF CallsRemembered, RealTimeLimit, clocks, record, settings
<1>7. CASE Tick
    <2>1. /\ UNCHANGED <<daemon, record, settings>>
          /\ time' = time + 1 /\ wall' = wall + 1
        BY <1>7 DEF Tick
    <2>2. RealTimeLimit'
        BY <2>1 DEF RealTimeLimit, record, settings
    <2>3. QED
        BY <1>a, <2>1, <2>2 DEF CallsRemembered, daemon, record, settings
<1>8. CASE \E j \in Jumps : Jump(j)
    <2>1. PICK j \in Int : Jump(j)
        BY <1>8
    <2>2. /\ UNCHANGED <<daemon, record, time>>
          /\ wall' = wall + j
          /\ ahead' = ahead + Larger(0, j)
        BY <2>1 DEF Jump
    <2>3. RealTimeLimit'
        BY <2>2 DEF RealTimeLimit, record
    <2>4. ahead' \in Nat /\ ahead' >= ahead /\ ahead' >= ahead + j
        BY <1>a, <2>2 DEF Larger
    <2>5. CallsRemembered'
        BY <1>a, <2>2, <2>4 DEF CallsRemembered, daemon, record
    <2>6. QED
        BY <2>3, <2>5
<1>9. CASE UNCHANGED vars
    BY <1>9 DEF vars, CallsRemembered, RealTimeLimit, clocks, daemon, record, settings
<1>10. CASE StartOnce
    <2>1. UNCHANGED <<clocks, record, settings, cycleStart, now, aheadAtStart>> /\ pc' # "cycle"
        BY <1>10 DEF StartOnce
    <2>2. QED
        BY <2>1 DEF CallsRemembered, RealTimeLimit, clocks, record, settings
<1>11. QED
    BY <1>1, <1>2, <1>3, <1>4, <1>5, <1>6, <1>7, <1>8, <1>9, <1>10 DEF Next

LEMMA TimeInvInit == Init => TimeInv
<1> SUFFICES ASSUME Init PROVE TimeInv
    OBVIOUS
<1>1. TypeOK
    <2>1. rebooted \in BOOLEAN /\ once \in BOOLEAN
        BY DEF Init
    <2>2. QED
        BY <2>1, TimekeepingAssumption DEF Init, TypeOK
<1>2. HistoryBehind /\ AgeIsTrue /\ PhaseBounded /\ RealTimeLimit
    BY DEF Init, HistoryBehind, AgeIsTrue, PhaseBounded, RealTimeLimit, NoBeat
<1>3. CallsRemembered
    BY FS_EmptySet DEF Init, CallsRemembered
<1>4. QED
    BY <1>1, <1>2, <1>3 DEF TimeInv

(* The strengthening holds in every state, for all settings. *)
THEOREM TimeInvariant == Spec => []TimeInv
<1>1. TimeInv /\ [Next]_vars => TimeInv'
    BY TypeKept, BoundsKept, CallsKept DEF TimeInv
<1>2. QED
    BY TimeInvInit, <1>1, PTL DEF Spec

(* A process that runs is never reported stale when the limit covers its     *)
(* longest gap, and recovers its health after that gap.                     *)
THEOREM RunningIsReportedHealthy == Spec => []LiveIsHealthy
<1>1. TimeInv => LiveIsHealthy
    <2> SUFFICES ASSUME TimeInv, LongestGap <= MaxAge, pc \notin {"down", "loop"},
                        \/ beatAt > troubleAt
                        \/ time - Larger(troubleAt, startedAt) > LongestGap
                 PROVE  Healthy
        BY DEF LiveIsHealthy
    <2> USE TimekeepingAssumption DEF TimeInv
    <2>1. WaitTarget \in Nat /\ WaitTarget <= Larger(Interval, Cooldown)
        BY DEF WaitTarget, Larger
    <2>2. /\ LongestGap \in Nat /\ MaxAge \in Nat
          /\ InitialDelay <= LongestGap /\ Larger(MaxCycle, WaitTarget) <= LongestGap
          /\ MaxCycle <= LongestGap
        BY <2>1 DEF LongestGap, MaxAge, Larger
    <2> DEFINE since == IF pc = "delay" THEN startedAt ELSE cycleStart
    <2>3. since \in Nat /\ BeatTried(since)
        BY DEF TypeOK, PhaseBounded
    <2>4. time <= since + LongestGap
        <3>1. CASE pc = "delay"
            BY <3>1, <2>2 DEF PhaseBounded, TypeOK
        <3>2. CASE pc \in {"cycle", "acted"}
            BY <3>2, <2>2 DEF PhaseBounded, TypeOK
        <3>3. CASE pc = "sleep"
            <4>1. Larger(MaxCycle, WaitTarget) \in Nat
                BY <2>1 DEF Larger
            <4>2. QED
                BY <3>3, <2>2, <4>1 DEF PhaseBounded, TypeOK
        <3>4. QED
            BY <3>1, <3>2, <3>3 DEF TypeOK
    <2>5. beatAt > troubleAt
        <3> SUFFICES ASSUME time - Larger(troubleAt, startedAt) > LongestGap
                     PROVE  beatAt > troubleAt
            OBVIOUS
        <3>1. time - troubleAt > LongestGap /\ time - startedAt > LongestGap
            BY <2>2 DEF Larger, TypeOK
        <3>2. troubleAt < since
            BY <2>2, <2>3, <2>4, <3>1 DEF TypeOK
        <3>3. QED
            BY <2>3, <3>2 DEF BeatTried, TypeOK
    <2>6. beatAt = since
        BY <2>3, <2>5 DEF BeatTried, TypeOK
    <2>7. heartbeat # NoBeat /\ wall - heartbeat = time - beatAt
        BY <2>5 DEF AgeIsTrue, TypeOK
    <2>8. time - beatAt >= 0 /\ time - beatAt <= MaxAge
        BY <2>2, <2>4, <2>6 DEF HistoryBehind, TypeOK
    <2>9. QED
        BY <2>7, <2>8 DEF Healthy
<1>2. QED
    BY <1>1, TimeInvariant, PTL

(* A daemon that died is found out, however the wall clock is set. *)
THEOREM DeadIsFoundOut == Spec => []HealthyMeansAlive
<1>1. TimeInv => HealthyMeansAlive
    BY TimekeepingAssumption
       DEF TimeInv, HealthyMeansAlive, Healthy, AgeIsTrue, TypeOK, MaxAge, Larger, NoBeat
<1>2. QED
    BY <1>1, TimeInvariant, PTL

(* Setting the clock back never lets more restarts through in real time,    *)
(* setting it forward shortens the windows it falls into by as much, and no *)
(* other.                                                                   *)
THEOREM LimitHoldsInRealTime == Spec => []RealTimeLimit
<1>1. TimeInv => RealTimeLimit
    BY DEF TimeInv
<1>2. QED
    BY <1>1, TimeInvariant, PTL

(* Cycles are at least the interval, or the cooldown, apart in real time. *)
THEOREM PaceIsReal == Spec => PacedByMonotonicClock
<1>1. TimeInv /\ [Next]_vars => [pc = "sleep" /\ pc' = "loop" => time - cycleStart >= WaitTarget]_vars
    <2> SUFFICES ASSUME TimeInv, Next, pc = "sleep", pc' = "loop"
                 PROVE  time - cycleStart >= WaitTarget
        OBVIOUS
    <2>1. WakeUp
        BY DEF Next, Start, StartOnce, BeginCycle, Act, GoToSleep, Leave, Tick, Jump, daemon,
              WriteResults
    <2>2. time >= wakeAt /\ wakeAt >= cycleStart + WaitTarget
        BY <2>1 DEF WakeUp, TimeInv, PhaseBounded
    <2>3. QED
        BY <2>2, TimekeepingAssumption DEF TimeInv, TypeOK, WaitTarget
<1>2. QED
    BY <1>1, TimeInvariant, PTL DEF Spec, PacedByMonotonicClock
=============================================================================
