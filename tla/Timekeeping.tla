----------------------------- MODULE Timekeeping -----------------------------
(***************************************************************************)
(* The daemon in time: which clock it reads for what, how long its cycles  *)
(* and waits last, its heartbeat file, the healthcheck that reads it, and  *)
(* what a wall clock that is set forward or back does to all of these.     *)
(*                                                                         *)
(* Two clocks run: `time` (time.monotonic) and `wall` (time.time), which   *)
(* jumps.  Time passes only while the daemon is busy or waits; how long it *)
(* may be busy in one cycle is bounded by the timeouts of what it calls    *)
(* (MaxCycle).  A run --once has neither delay nor wait, but its cycle     *)
(* writes the same heartbeat file.  What a cycle measures and the state    *)
(* file are left to module Watchdog: a cycle may ask for a restart or not, *)
(* and saves and loads succeed.                                            *)
(***************************************************************************)
EXTENDS Integers, FiniteSets

CONSTANTS
    Interval,       \* DW_INTERVAL_SECONDS
    Cooldown,       \* DW_COOLDOWN_SECONDS
    InitialDelay,   \* DW_INITIAL_DELAY_SECONDS
    ExplicitMaxAge, \* DW_HEARTBEAT_MAX_AGE_SECONDS, 0 when it is not set
    LeastMaxAge,    \* the 90 seconds a derived limit has at least
    MaxCycle,       \* the longest a cycle takes before its wait
    MaxReboots,     \* DW_MAX_REBOOTS_IN_WINDOW
    RebootWindow,   \* DW_REBOOT_WINDOW_HOURS, as a duration
    Retention,      \* how long an attempt is remembered
    Jumps,          \* by how much the wall clock may be set forward or back
    WriteFaults,    \* writing the heartbeat may fail
    MaxJumps,       \* bound of the times the wall clock is set in a model
    MaxTime         \* bound of the clock in a model

(* What Settings.validate accepts, for the settings among them. *)
ASSUME TimekeepingAssumption ==
    /\ Interval \in Nat \ {0}
    /\ Cooldown \in Nat \ {0}
    /\ InitialDelay \in Nat
    /\ ExplicitMaxAge \in Nat
    /\ LeastMaxAge \in Nat \ {0}
    /\ MaxCycle \in Nat \ {0}
    /\ MaxReboots \in Nat \ {0}
    /\ RebootWindow \in Nat \ {0}
    /\ Retention \in Nat /\ Retention >= RebootWindow
    /\ Jumps \subseteq Int
    /\ WriteFaults \in BOOLEAN
    /\ MaxJumps \in Nat
    /\ MaxTime \in Nat \ {0}

VARIABLES
    time,       \* time.monotonic()
    wall,       \* time.time()
    pc,         \* where the process is
    once,       \* whether it is a run --once, else the daemon
    cycleStart, \* time at the start of the latest cycle
    now,        \* wall at the start of the latest cycle
    rebooted,   \* reboot_triggered of that cycle
    wakeAt,     \* time at which the wait in progress ends
    heartbeat,  \* the time in the heartbeat file; NoBeat when there is none
    attempts,   \* the attempts on record
    calls,      \* history: all attempts made
    startedAt,  \* history: time of the latest start
    beatAt,     \* history: time of the latest heartbeat that was written
    slip,       \* history: by how much the wall clock was set since then
    troubleAt,  \* history: time of the latest jump or failed write
    jumps,      \* history: how many times the wall clock was set
    ahead,      \* history: by how much it was set forward, in all
    aheadAtStart \* history: ahead at the start of the latest cycle

clocks   == <<time, wall>>
daemon   == <<pc, once, cycleStart, now, aheadAtStart, rebooted, wakeAt>>
record   == <<attempts, calls>>
settings == <<jumps, ahead>>
beats    == <<heartbeat, beatAt, slip>>
vars     == <<clocks, daemon, record, beats, startedAt, troubleAt, settings>>

NoBeat == -1

(* An attempt by the clocks at the start of its cycle; only the reading of  *)
(* the wall clock is on record, the rest is history.                       *)
Attempts == [real : Nat, wall : Nat, ahead : Nat]

TypeOK ==
    /\ time \in Nat
    /\ wall \in Nat
    /\ pc \in {"down", "delay", "loop", "cycle", "acted", "sleep"}
    /\ once \in BOOLEAN
    /\ cycleStart \in Nat
    /\ now \in Nat
    /\ rebooted \in BOOLEAN
    /\ wakeAt \in Nat
    /\ heartbeat \in Nat \union {NoBeat}
    /\ attempts \in SUBSET Attempts
    /\ calls \in SUBSET Attempts
    /\ startedAt \in Nat
    /\ beatAt \in Nat
    /\ slip \in Int
    /\ troubleAt \in Nat
    /\ jumps \in Nat
    /\ ahead \in Nat
    /\ aheadAtStart \in Nat

Larger(a, b) == IF a >= b THEN a ELSE b

-----------------------------------------------------------------------------
(* The heartbeat file and the healthcheck.                                 *)

WriteResults == IF WriteFaults THEN BOOLEAN ELSE {TRUE}

(* write_heartbeat: a failure is logged and the old file stays. *)
WriteHeartbeat(t, written) ==
    IF written
    THEN /\ heartbeat' = t
         /\ beatAt' = time
         /\ slip' = 0
         /\ troubleAt' = troubleAt
    ELSE /\ UNCHANGED beats
         /\ troubleAt' = time

(* heartbeat_max_age_seconds_from_env *)
MaxAge == IF ExplicitMaxAge # 0 THEN ExplicitMaxAge ELSE Larger(LeastMaxAge, 2 * Interval)

(* Faulty: a heartbeat from the future counts as fresh. *)
HealthyUnsigned == heartbeat # NoBeat /\ wall - heartbeat <= MaxAge

(* What check_heartbeat answers. *)
Healthy ==
    /\ heartbeat # NoBeat
    /\ wall - heartbeat >= 0
    /\ wall - heartbeat <= MaxAge

-----------------------------------------------------------------------------
(* The daemon, and run --once.                                             *)

(* The daemon up to the loop; a heartbeat is written only when there is a delay. *)
Start(written) ==
    /\ pc = "down"
    /\ IF InitialDelay > 0
       THEN /\ pc' = "delay"
            /\ wakeAt' = time + InitialDelay
            /\ WriteHeartbeat(wall, written)
       ELSE /\ pc' = "loop"
            /\ UNCHANGED <<wakeAt, beats, troubleAt>>
    /\ once' = FALSE
    /\ startedAt' = time
    /\ rebooted' = FALSE
    /\ UNCHANGED <<clocks, cycleStart, now, aheadAtStart, record, settings>>

(* A run --once has no delay; it leaves when it has acted. *)
StartOnce ==
    /\ pc = "down"
    /\ pc' = "loop"
    /\ once' = TRUE
    /\ startedAt' = time
    /\ rebooted' = FALSE
    /\ UNCHANGED <<clocks, cycleStart, now, aheadAtStart, wakeAt, record, beats, troubleAt,
                   settings>>

(* A wait for the stop event ends. *)
WakeUp ==
    /\ pc \in {"delay", "sleep"}
    /\ time >= wakeAt
    /\ pc' = "loop"
    /\ UNCHANGED <<clocks, once, cycleStart, now, aheadAtStart, rebooted, wakeAt, record, beats,
                   startedAt, troubleAt, settings>>

(* Faulty: the heartbeat carries the time of the cycle before. *)
BeginCycleStale(written) ==
    /\ pc = "loop"
    /\ time > cycleStart
    /\ pc' = "cycle"
    /\ cycleStart' = time
    /\ now' = wall
    /\ aheadAtStart' = ahead
    /\ WriteHeartbeat(now, written)
    /\ UNCHANGED <<clocks, once, rebooted, wakeAt, record, startedAt, settings>>

(* No two cycles start at one time: each takes a while, and so does the    *)
(* start of a process.                                                     *)
BeginCycle(written) ==
    /\ pc = "loop"
    /\ time > cycleStart
    /\ pc' = "cycle"
    /\ cycleStart' = time
    /\ now' = wall
    /\ aheadAtStart' = ahead
    /\ WriteHeartbeat(wall, written)
    /\ UNCHANGED <<clocks, once, rebooted, wakeAt, record, startedAt, settings>>

(* Faulty: the oldest instant of the window does not count. *)
RecentOpen(t) == {a \in attempts : a.wall > t - RebootWindow}

Recent(t) == {a \in attempts : a.wall >= t - RebootWindow}

(* prune_history *)
Pruned(t) == {a \in attempts : a.wall >= t - Retention}

(* The verdict, and the restart request if there is one and the budget     *)
(* allows it.  A measurement takes a while.                                *)
Act(request) ==
    /\ pc = "cycle"
    /\ time > cycleStart
    /\ pc' = "acted"
    /\ rebooted' = (request /\ Cardinality(Recent(now)) < MaxReboots)
    /\ LET attempt == [real |-> cycleStart, wall |-> now, ahead |-> aheadAtStart]
           made == IF rebooted' THEN {attempt} ELSE {}
       IN
       /\ attempts' = Pruned(now) \union made
       /\ calls' = calls \union made
    /\ UNCHANGED <<clocks, once, cycleStart, now, aheadAtStart, wakeAt, beats, startedAt,
                   troubleAt, settings>>

WaitTarget == IF rebooted THEN Cooldown ELSE Interval

(* Faulty: the wait starts when the cycle's work is done. *)
GoToSleepLate ==
    /\ pc = "acted"
    /\ ~once
    /\ pc' = "sleep"
    /\ wakeAt' = time + WaitTarget
    /\ UNCHANGED <<clocks, once, cycleStart, now, aheadAtStart, rebooted, record, beats, startedAt,
                   troubleAt, settings>>

(* Faulty: the time elapsed is taken from the wall clock. *)
GoToSleepByWall ==
    /\ pc = "acted"
    /\ ~once
    /\ pc' = "sleep"
    /\ wakeAt' = time + Larger(0, WaitTarget - (wall - now))
    /\ UNCHANGED <<clocks, once, cycleStart, now, aheadAtStart, rebooted, record, beats, startedAt,
                   troubleAt, settings>>

(* The end of the cycle: what is left of the interval or the cooldown. *)
GoToSleep ==
    /\ pc = "acted"
    /\ ~once
    /\ pc' = "sleep"
    /\ wakeAt' = time + Larger(0, WaitTarget - (time - cycleStart))
    /\ UNCHANGED <<clocks, once, cycleStart, now, aheadAtStart, rebooted, record, beats, startedAt,
                   troubleAt, settings>>

(* A signal, a crash, a kill, the end of a run --once: the process is gone. *)
Leave ==
    /\ pc # "down"
    /\ pc' = "down"
    /\ once' = FALSE
    /\ UNCHANGED <<clocks, cycleStart, now, aheadAtStart, rebooted, wakeAt, record, beats,
                   startedAt, troubleAt, settings>>

-----------------------------------------------------------------------------
(* The clocks.                                                             *)

(* Time passes: not beyond the end of a wait, nor the longest cycle. *)
Tick ==
    /\ time < MaxTime
    /\ pc = "loop" => time = cycleStart
    /\ pc \in {"delay", "sleep"} => time < wakeAt
    /\ pc \in {"cycle", "acted"} => time < cycleStart + MaxCycle
    /\ time' = time + 1
    /\ wall' = wall + 1
    /\ UNCHANGED <<daemon, record, beats, startedAt, troubleAt, settings>>

(* The wall clock is set. *)
Jump(j) ==
    /\ jumps < MaxJumps
    /\ jumps' = jumps + 1
    /\ wall + j >= 0
    /\ wall' = wall + j
    /\ slip' = slip + j
    /\ troubleAt' = time
    /\ ahead' = ahead + Larger(0, j)
    /\ UNCHANGED <<time, daemon, record, heartbeat, beatAt, startedAt>>

-----------------------------------------------------------------------------
Init ==
    /\ time = 1
    /\ wall = MaxTime
    /\ pc = "down"
    /\ once = FALSE
    /\ cycleStart = 0
    /\ now = 0
    /\ rebooted = FALSE
    /\ wakeAt = 0
    /\ heartbeat = NoBeat
    /\ attempts = {}
    /\ calls = {}
    /\ startedAt = 0
    /\ beatAt = 0
    /\ slip = 0
    /\ troubleAt = 0
    /\ jumps = 0
    /\ ahead = 0
    /\ aheadAtStart = 0

Next ==
    \/ \E written \in WriteResults : Start(written) \/ BeginCycle(written)
    \/ StartOnce
    \/ WakeUp
    \/ \E request \in BOOLEAN : Act(request)
    \/ GoToSleep
    \/ Leave
    \/ Tick
    \/ \E j \in Jumps : Jump(j)

Spec == Init /\ [][Next]_vars

-----------------------------------------------------------------------------
(* What must be true.                                                      *)

(* The longest two heartbeats of a running daemon are apart. *)
LongestGap == Larger(Larger(Interval, Cooldown), Larger(MaxCycle, InitialDelay))

(* A process that runs is never reported stale, however long its cycles,   *)
(* cooldowns and delays are, as long as the limit covers each of them:     *)
(* when the latest heartbeat was written, and the wall clock not set since *)
(* then, the healthcheck passes.  And whatever went wrong with either, it  *)
(* passes again after the longest gap.                                     *)
LiveIsHealthy ==
    /\ LongestGap <= MaxAge
    /\ pc \notin {"down", "loop"}
    /\ \/ beatAt > troubleAt
       \/ time - Larger(troubleAt, startedAt) > LongestGap
    => Healthy

(* A daemon that died or hangs, or a run --once that is over, is found     *)
(* out: the healthcheck passes no longer than the limit after the latest heartbeat, plus by how much the  *)
(* wall clock was set back since, and while the wall clock is behind the   *)
(* heartbeat it does not pass at all.                                      *)
HealthyMeansAlive ==
    Healthy => /\ time - beatAt <= MaxAge - slip
               /\ time - beatAt >= -slip

(* The rate limit is kept for attempts by wall clock, but what it is for   *)
(* is real time: setting the clock back, any number of times, never lets   *)
(* more restarts through, and setting it forward shortens the window by    *)
(* exactly what it was set forward within it, however many attempts that   *)
(* made the daemon forget, and no later window.                            *)
Apart(c, d) == (d.real - c.real) + (d.ahead - c.ahead)

RealTimeLimit ==
    \A d \in calls :
        Cardinality({c \in calls : c.real <= d.real /\ Apart(c, d) <= RebootWindow})
            <= MaxReboots

(* The distance of a daemon's cycles is kept in real time, too. *)
PacedByMonotonicClock ==
    [][pc = "sleep" /\ pc' = "loop" => time - cycleStart >= WaitTarget]_vars

(* config.py, heartbeat_max_age_seconds_from_env: the limit derived from   *)
(* the cycle interval is a safe one for a daemon that runs undisturbed.    *)
DerivedLimitIsSafe ==
    pc \notin {"down", "loop"} /\ beatAt > troubleAt => Healthy

(* The inductive strengthening of the above, from which the proofs of      *)
(* module TimekeepingProofs draw: the history never runs ahead of the      *)
(* clock, the age the healthcheck sees is the true one plus what the wall  *)
(* clock was set by, a running daemon tried to write a heartbeat when its  *)
(* delay or cycle began, no phase outlasts its bound, and an attempt is    *)
(* forgotten only when it is out of the window in real time.               *)
HistoryBehind ==
    /\ cycleStart <= time
    /\ startedAt <= time
    /\ beatAt <= time
    /\ troubleAt <= time

AgeIsTrue ==
    /\ heartbeat # NoBeat => wall - heartbeat = time - beatAt + slip
    /\ beatAt > troubleAt => heartbeat # NoBeat /\ slip = 0

BeatTried(since) == beatAt <= since /\ (beatAt = since \/ troubleAt >= since)

PhaseBounded ==
    /\ pc = "delay" => BeatTried(startedAt) /\ time <= startedAt + InitialDelay
                       /\ wakeAt = startedAt + InitialDelay
    /\ pc \in {"cycle", "acted", "sleep"} => BeatTried(cycleStart)
    /\ pc \in {"cycle", "acted"} => time <= cycleStart + MaxCycle
    /\ pc = "sleep" => /\ time <= wakeAt
                       /\ wakeAt >= cycleStart + WaitTarget
                       /\ wakeAt <= cycleStart + Larger(MaxCycle, WaitTarget)

(* No attempt looks older by the wall clock than it is by real time and    *)
(* what the clock was set forward by since.                                *)
CallsRemembered ==
    /\ IsFiniteSet(calls)
    /\ attempts \subseteq calls
    /\ aheadAtStart <= ahead
    /\ \A c \in calls :
          /\ c.real <= cycleStart
          /\ wall - c.wall <= (time - c.real) + (ahead - c.ahead)
          /\ c \in attempts \/ (cycleStart - c.real) + (aheadAtStart - c.ahead) > Retention
    /\ pc = "cycle" =>
          /\ wall - now <= (time - cycleStart) + (ahead - aheadAtStart)
          /\ \A c \in calls :
                /\ c.real < cycleStart
                /\ now - c.wall <= (cycleStart - c.real) + (aheadAtStart - c.ahead)

TimeInv == /\ TypeOK
           /\ HistoryBehind
           /\ AgeIsTrue
           /\ PhaseBounded
           /\ CallsRemembered
           /\ RealTimeLimit
=============================================================================
