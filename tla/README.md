# Verification of the devolo throughput watchdog

A TLA+ development beside the source: specifications of what the watchdog does,
TLC configurations that check them on small instances, and theorems about them
checked by TLAPS for every setting. Paths are relative to the repository
(source files without a directory are in `src/devolo_watchdog/` there); modules
are in this directory.

## 1. The system

The watchdog measures the network every `DW_INTERVAL_SECONDS` and restarts a
devolo powerline adapter when enough measurements of a window were degraded,
but not more than `DW_MAX_REBOOTS_IN_WINDOW` times in a moving window. It is
one Python process. What must survive it is a JSON state file; beside it there
are a heartbeat file that a healthcheck reads, and commands for the operator.

| Component (source) | State | Operations | Modelled in |
|---|---|---|---|
| Decision policy (`policy.py`, `models.py`) | none: functions on `WatchdogState` | `transition`, `record_reboot`, `prune_history`, `recent_reboot_count` | `Policy` |
| Monitoring loop (`runner.py`) | `WatchdogState` in memory, `stop` event, `now`, the cycle's result and action | `run_daemon`, `_handle_action`, `_execute_reboot`, `request_restart`, signal handler | `Watchdog` |
| State store (`state.py`) | the state file | `load`, `save`, `atomic_write_json` | `StateStore`, `AtomicStore`; as a cell in `Watchdog` |
| Measurement (`probes.py`, `collect_measurement_report`, `evaluate_report`) | one report at a time | ping, PLC query, iperf3 with port failover, evaluation | `Measurement` |
| Heartbeat, healthcheck, waits (`state.py`, `config.py`, `runner.py`) | heartbeat file | write per cycle, age check; interval, cooldown, delays | `Timekeeping`; exit codes in `Commands` |
| Configuration (`config.py`) | none | `from_env`, `validate`, `parse_ports`, `candidate_ports`, `heartbeat_max_age_seconds_from_env` | `Configuration` |
| Command line: run, restart, doctor, discover, calibrate, healthcheck (`__main__.py`) | of one invocation | parse, configure, dispatch, checks, exit code | `Commands`; the daemon of `run` is `Watchdog` |
| Restart command (`run_restart`) | `WatchdogState` in memory | one `request_restart` | `Watchdog` in turn with daemons, `StateStore` beside one, `Commands` for its exit codes |
| Device adapter (`actions.py`) | none | `read_password`, `restart_devolo` | `CallDevice`, `CallFails` of `Watchdog`; `RequestRestart` of `Commands` |
| Notifications (`notifications.py`) | none; the flag is in `WatchdogState` | ntfy publish, best effort | delivery only, `Watchdog` |
| HTTP endpoint (`http_server.py`) | none, a thread | GET loads the state file | a process of `StateStore` that loads and ends |
| Logging, `dev.py`, packaging | none | output, tooling | no |

**How they interact.** The loop calls everything else in turn, in one thread. It
shares the state file with its own earlier and later selves, with the restart
command and with the HTTP thread, the heartbeat file with the healthcheck, and
the `stop` event with the signal handler. A one-shot run (`run --once`) is the
same loop left after a cycle; it stops short of the device unless
`--allow-action` is given. Each process reads the environment for itself, the
healthcheck by a function of its own.

**What is hard.** The process can die between any two of: deciding, recording
an attempt, saving it, calling the device, marking the answer, sending an
alert, saving the alert's flag; and between any two system calls of a save. Each
save and each delivery can fail by itself. Two processes may save at once. The
file loses precision that the memory has. Waits must end on a signal. The
decision reads a window that neutral cycles neither extend nor clear. Attempts
and heartbeats carry wall-clock times, and the wall clock is set. The list of
hazards, each at its line, is in `PROJECT.json`.

**What makes each part correct.**

- loop: a call to the device is never forgotten while it counts, the rate limit
  holds whatever happened to earlier processes, refused and dropped requests do
  not use the budget up, an attempt marked accepted was accepted, a signal ends
  the process;
- policy: an automated call rests on enough really degraded cycles with no
  healthy one since, the breaker says what it says, cycles keep their distance;
- alerts: no repetition within an episode, the flag stands for a delivery, an
  alerted episode ends with a recovery alert;
- store: nobody sees half a save, a save that failed changed nothing, a save
  that succeeded is lost in three known ways only, no file leaks;
- time: a daemon that runs is reported healthy and a dead one is not, limit and
  pace hold in real time although the wall clock jumps;
- measurement: what each verdict rests on, that the short circuit changes
  nothing, that failover ends;
- commands: nothing is touched under a rejected configuration, no restart
  without consent, exit codes that tell what happened.

## 2. The modules

| Module | What it is |
|---|---|
| `Policy` | the operators of `policy.py` and `models.py` on the persisted record |
| `Watchdog` | the process, its state file as a cell, its starts, ends and waits: the core |
| `RebootBudget` | the abstract specification of the rate limit |
| `WatchdogProperties` | the properties of `Watchdog`, the refinement mapping to `RebootBudget`, the inductive invariant of the accounting |
| `WatchdogProofs`, `DecisionProofs`, `RecordProofs` | theorems: types, accounting and refinement; decisions and alerts; the record and the limit of one process |
| `RebootBudgetProofs` | that `RebootBudget` keeps its limit |
| `Measurement`, `MeasurementProofs` | one measurement after the other, with its properties; its theorems |
| `AtomicStore` | the abstract specification of the state store |
| `StateStore` | load and save, system call by system call, by several processes |
| `StateStoreProperties`, `StateStoreProofs` | its properties and the mapping to `AtomicStore`; its theorems |
| `Timekeeping`, `TimekeepingProofs` | the daemon between two clocks, its heartbeat and the healthcheck, with their properties; its theorems |
| `Configuration` | which environments are accepted, and what they mean |
| `Commands` | one invocation of the command line |
| `CommandsProperties`, `CommandsProofs` | its properties; its theorems |
| `MCWatchdog`, `MCStateStore`, `MCTimekeeping`, `MCCommands` | values for the `.cfg` files |

Operators introduced by "Faulty:" are plausible mistakes in the operator that
follows them. No specification uses them: they are substituted for the right
one to see that the property meant to catch the mistake does.

### 2.1 Policy

`WatchdogState` keeps the four fields a decision reads. The other four
(`last_status`, `last_reason`, `last_check_timestamp`,
`last_reboot_timestamp`) are written and printed, never read by the program.
The two lists are sets: no two cycles share a timestamp (2.2), and only the
number of entries, their times and their flags are ever used.

`Transition` follows `transition`: prune, count the recent attempts, re-arm the
breaker, note the verdict, cut the window, decide. The order of assignments is
folded into one record. `exhausted` is the comparison with
`max_reboots_in_window`, `refused` the branch that trips the breaker, and `kept`
says when a breaker that was up stays up: the budget is still used up and the
verdict is not HEALTHY.

### 2.2 Watchdog

`pc` names the place in `run_daemon` and its callees where the process is:

| `pc` | next in the code | action |
|---|---|---|
| `down` | no process | `Start` |
| `delay` | `stop.wait(initial_delay)` | `InitialDelayOver` |
| `loop` | `while not stop.is_set()` | `BeginCycle`, `BeginRestartCommand`, `LeaveLoop` |
| `measure` | measurement, `transition`, `store.save` | `Evaluate` |
| `alert`, `alert_save` | degradation alert, save of its flag | `SendAlert`, `SaveAlertFlag` |
| `recover` | recovery alert | `SendRecovery` |
| `act` | `_handle_action` | `HandleAction` |
| `record` | `record_reboot` and save | `RecordAttempt` |
| `call` | notification, `restart_devolo` | `CallDevice`, `CallFails` |
| `mark` | accepted flag and save | `MarkAccepted` |
| `settle` | post-reboot delay | `SettleOver` |
| `verify` | post-reboot measurement and save | `Verify`, `VerifyFails` |
| `rest` | end of the cycle or of the command | `GoToSleep`, `Return` |
| `sleep` | wait for the next cycle | `WakeUp` |

`Crash`, `Signal` and `Tick` interleave with all of them. `mem` is the record in
memory, `disk` what a process started now would load. A save is one step that
replaces `disk` by `Persisted(mem)` or, when it fails, leaves it; that this is
what `StateStore` amounts to is checked and proved there. `Persisted` cuts
timestamps to the grain of the file, as `to_dict` does with three decimals of
the second. Memory keeps full precision, so the two differ until the next start.

`calls`, `own`, `alert` and `evidence` are history: the calls issued, by whichever
process and by the running one, the alert of the episode as the world saw it,
and the degraded cycles as measured. No guard reads them. `alert` is `none`
(nothing delivered), `sent`, then `durable` once the flag is in the file; `lost`
when the process died between the two; `closed` from the end of an alerted
episode to its recovery alert; and `ghost` when an episode is over but its flag
still is in the file, because the save that cleared it failed and the process
died: the flag then comes back with the next process.

What is assumed of the world:

- one process at a time: daemons and commands take turns. Two at once are
  `StateStore`'s subject;
- the wall clock does not jump, which is `Timekeeping`'s subject, and two cycles
  are at least a millisecond apart (each runs `ping` before anything else);
- times are a clock's units, of at least the microsecond `datetime` rounds to.

### 2.3 Measurement

One action per probe, whose outcome is any the device or the host may produce;
a measurement ends with a verdict, and the next one starts on any port of the
rotation and with `iperf3` installed or not. A rate is "low", "ok" or "none".
A PLC query that raises and one that returns an unreachable result are read
alike everywhere, so they are one outcome. `Watchdog` does not compose with
this module: it lets a cycle have any `Status`, which is every verdict
`Measurement` reaches and the exception case besides.

### 2.4 StateStore and AtomicStore

`StateStore` takes `load` and `save` apart: looking the path up and reading it;
creating a temporary file, writing, syncing, renaming, and the clean-up after an
exception, each of which may fail. `Proc` are the processes that use the file at
once: a daemon, a restart command beside it, a request to the HTTP endpoint. A
process may be killed and the power may fail between any two steps. `file` is
what the path names; `durable` what it may name after a power failure, because
`atomic_write_json` syncs the file and not its directory, until `Flush`. A file
that was not synced may come out of a power failure torn. A `WatchdogState` is
the set of attempts on record: something that must not be lost.

A read may raise although the file is intact (`ReadFails`): `load` then gives a
fresh state, as it does for a file it cannot parse.

Histories say when an attempt may be lost: `confirmed` are the attempts in saves
that returned True, `missed` what a process does not know of the file, because it
could not read it or because others have saved since it loaded, and `lost` what
a save of such a process, or the power, has taken out of the file.

`AtomicStore` knows no files: a cell that is read at a start, where it gives what
it holds or a fresh state, and overwritten as a whole at one instant of a save,
not at all by a save that fails. The
mapping reads `value` off the path and takes `Replace` for that instant.

### 2.5 Timekeeping

The loop reads two clocks: `time` (`time.monotonic`) for its waits, `wall`
(`time.time`) for attempts and heartbeats. `Jump` sets the wall clock, forward or
back, at any time. `Tick` lets both pass, but not past the end of a wait nor past
`MaxCycle`, the sum of the timeouts of what a cycle calls: this is how the model
says that the daemon does not hang. A cycle may ask for a restart or not; what
else it does is `Watchdog`'s. `calls` keeps each attempt with its time by both
clocks and with `ahead`, what the wall clock had been set forward by in all when
its cycle began; of these the record has the wall clock's time only. `beatAt`,
`slip` and `troubleAt` are histories of the heartbeat: its true age, what the wall
clock was set by since, the latest jump or failed write. A `run --once`
(`StartOnce`) has no delay and no wait, but its cycle writes the heartbeat file
and counts attempts as the daemon's does.

### 2.6 Configuration and Commands

`Configuration` is `from_env` and `validate` as one predicate, `Accepted`: the
code raises at the first thing it does not like, always a ValueError, so the
order does not matter. What a text reads as is given by tables (constants):
which texts are integers, numbers, URLs, sizes, and the items a port list splits
into; what is done with the values is modelled.

`Commands` is one invocation, after the arguments are parsed: the environment
file, dispatch, then each command's checks in order, any answer of hosts, device and
files, and the exit code. `done` collects what was done outside the process.
`run` without `--once` ends in `daemon`, where `Watchdog` takes over; the cycle of
`run --once`, with its heartbeat and the alert of degradation or recovery that may
be due, is one step here.

## 3. The runs

| Run | What it checks | States |
|---|---|---|
| `accounting` | `TypeOK`, `AttemptsAccounted`, `RateLimit`, `AcceptedIsTrue`, `ProcessLimit`, `ImplementsBudget` | 1.1 million |
| `decisions` | `AutomatedCallJustified`, `BreakerTruthful`, `AlertNotRepeated`, `AlertFlagTrue`, `RecoveryNotLost`, `RecordWithinLimit`, `CyclesPaced`, `StopEnds` | 823 thousand |
| `measurement` | `TypeOK`, `DegradedIsProven`, `HealthyIsMeasured`, `ShortCircuitSound`, `FailoverExhausted`, `Concludes` | 708 |
| `state_store` | `Untorn`, `TempsAccounted`, `ConfirmedKept`, `ImplementsAtomicStore` | 464 thousand |
| `timekeeping` | `TimeInv`, `LiveIsHealthy`, `HealthyMeansAlive`, `RealTimeLimit`, `PacedByMonotonicClock` | 5.4 million |
| `commands` | `FailClosed`, `RestartNeedsConsent`, `ExitCodeTells`, `SameLimit`, `PortsApart`, `CalibrationFits` | 93 thousand |
| `reboot_only_when_degraded`, `breaker_waits_cooldown`, `recovered_waits_interval`, `missing_binary`, `derived_limit`, `invalid_configuration_exits_3` | one sentence of the documentation each, refuted (section 6) | |

**accounting.** Daemons and restart commands take turns, every save may fail,
processes die anywhere. `Grain = 2` makes the file coarser than the clock, so
that a stored time differs from the one in memory; one degraded cycle is enough
for a decision (`FailLimit = 1`). Calls are two units apart at least and the
window is five, so three calls fit in it and the limit is two: a third one must
be refused, and the first one leaves the window while others are in it. Attempts
are kept for at least three units, less than the window, so that pruning must
use the window.
Alerts are off, as they do not touch the attempts (checked by the other runs).

**decisions.** Daemons and one-shot runs with and without `--allow-action`
take turns, with an initial delay and a cooldown longer than the interval. Two
degraded cycles of a window of three are needed, the budget is one per three
units, so that it is used up and comes back. Saves and deliveries fail in every
combination, also the save of a window, or of an alert flag, that a healthy cycle
cleared, followed by the death of its process: the next one then loads the old
evidence, or the flag of an episode that is over. `StopEnds` is checked under
`FairSpec` with a clock that may stop for ever, so a wait that a signal does not
end is found. Six units reach every place a signal may arrive at, a second
request within the window of a first that was dropped, and a second episode.

**measurement.** Three ports and two tries: a rotation that wraps, a download
offset of one, failover that succeeds and that is exhausted. PLC evidence is not
required, so low throughput alone may count as degraded; `missing_binary` runs with
the default, evidence required.

**state_store.** Two processes, two attempts, two temporary names: two saves at
once, one by a process that missed what the other saved, or that could not read
the file, a name left behind by a death and the other still in use. No clock, no bound besides these.

**timekeeping.** Two settings of the clock, each by three units back or two
forward, in nine units: more than the window and the retention (six each), the
cooldown (three), the longest cycle (three) and the age limit (four). The budget
is one: an attempt three units back and two ahead still counts, one that is five
back and two ahead is forgotten, and stays so when the clock is set back again.
Heartbeats fail to be written, and runs `--once` and daemons take turns. The limit
covers each of the gaps here, which `LiveIsHealthy` asks for; `derived_limit` has a
cooldown that it does not cover.

**commands.** Every command with every variable set to each kind of text, one at
a time, and with two related variables in the process and the environment file;
a calibration of ten samples over two rates, the number at which a tenth
of them first is one.

**Deadlock** is checked where the system cannot stop: the watchdog and the
measurement can always go on, a process of the store can always start. It is
off in `commands` and `invalid_configuration_exits_3`, where an invocation ends,
and in `derived_limit`, where the bounded clock does. In `timekeeping`, a daemon
can be killed and started at any time, also at the bound.

**Fairness.** `FairSpec` is weak fairness of `Work`, the steps the process takes
by itself, as one: it is a single thread, and each of its blocking calls has a
timeout (subprocess timeouts, `DW_NTFY_TIMEOUT_SECONDS`, the device library's
HTTP timeouts). Starts, crashes, signals and the clock have none. In
`Measurement` the probes have weak fairness for the same reason. The other modules
state safety only.

## 4. The properties

**Accounting.** `AttemptsAccounted` relates every call ever issued to the file and
to the memory: until it is past retention it is on record in both. It is why the
attempt is saved before the call and why the call is skipped when the save fails
(CONTRIBUTING.md, points 3 and 4). `RateLimit` counts calls, not records: it is
the moving-window limit seen from the device. `RebootBudget` states the same as
a specification that knows nothing of files: requests come one after the other,
requested ones always, automated ones while fewer than `Limit` are in the span
before. The mapping keeps the time a call is accounted at (its cycle's start)
and who asked for it. The span is the window less what the file may cut off
(`BudgetSpan`), less than a millisecond: a call accounted by an
earlier process may leave the window that much early.

`ProcessLimit` is the limit of a process for its own calls. Its memory loses no
precision, so it is about the whole window. It is also what is left without a
file, which is the default, or after a file that could not be read: the run
checks it beside the other properties, with a file; that it needs none is proved.

`RecordWithinLimit` is the converse. Attempts may be on record without a call:
the save failed, or the process died in between. They count, which is
conservative; the property says that they never add up to more than the limit,
so that refusals do not prolong themselves. Operators are not limited, so it is
about their absence.

**Decisions and alerts.** `AutomatedCallJustified` and `BreakerTruthful` relate
the decision to what was measured and called, across processes. A healthy
verdict clears the evidence when it is saved: one whose save failed may be
forgotten with its process, and a later call then rests on degraded cycles from
before it. They are still measured, enough and of the window. `CyclesPaced` is
an action property: after a decision to reboot the next cycle begins no earlier
than the cooldown, dropped and refused requests included. It is about one
process; a new one does not know of the cooldown. A request whose verification
was HEALTHY is followed by the cooldown, too; the documents disagree about it
(section 6). `AlertNotRepeated` allows a second alert in an episode in one case,
after a process that died before the flag was saved. `AlertFlagTrue` says that
the flag of a live process stands for a delivery, of the open episode or of one
that is over when clearing the flag could not be saved. `RecoveryNotLost` is the
other half: an alerted episode ends with its recovery alert, unless the process
dies between the verdict and the alert.

**Measurement.** `ShortCircuitSound` says that the throughput test is skipped
exactly when every result of it would give the same verdict:
`plc_phy_is_degraded` and `_evaluate_plc_phy` are separate code.
`HealthyIsMeasured` holds although `evaluate_report` alone would accept a healthy
link without any test.

**Store.** `Untorn` is about the path now and after a power failure.
`TempsAccounted` says who owns each temporary file. `ConfirmedKept` is what
`request_restart` relies on, with its three exceptions spelled out: a save by a
process that could not read the file and started afresh; a save by one that
loaded before others saved, as a daemon makes with a restart command beside it
(the attempt of the command is then forgotten); and a power failure before the
directory is flushed. Nothing else is lost, and such a save loses nothing its
process had not missed. `ImplementsAtomicStore` is the refinement.

**Time.** `LiveIsHealthy` says when the healthcheck may be trusted not to kill a
running daemon: when the limit covers interval, cooldown, delay and the length
of a cycle; and that it recovers by itself within the longest of them from jumps
and failed writes. `HealthyMeansAlive` bounds how long a dead daemon passes.
`RealTimeLimit` is the rate limit by a true clock: setting the wall clock back
does not loosen it. Setting it forward does, which is in the nature of a
wall-clock limit, but by no more than that: two attempts are as far `Apart` as
the real time between them plus what the clock was set forward by between them,
and no window by this measure holds more than the limit. So it loosens the
windows it falls into, also when it made the daemon forget attempts for good,
and no window that begins after it. `PacedByMonotonicClock` is that interval and
cooldown do not depend on the wall clock.

**Commands.** `FailClosed` (CONTRIBUTING.md, invariant 5) and
`RestartNeedsConsent` (1 and 3) relate what was done to what was configured and
asked for; `ExitCodeTells` the exit code to the checks and to what became of a
restart. `SameLimit` compares the two readings of the heartbeat settings.
`PortsApart` is what an accepted configuration guarantees for the rotation,
duplicates and overlapping ranges included. `CalibrationFits` says what a
recommended threshold is worth, and that `Settings` accepts it, for rates of at
least 0.1 Mbit/s.

## 5. What is proved

For all values of the constants that the modules' assumptions allow (what
`Settings.validate` accepts, and more):

| Module | Theorem | Statement | Assuming |
|---|---|---|---|
| `WatchdogProofs` | `TypeCorrect` | `TypeOK` | |
| | `CallsAreAccounted` | `AttemptsAccounted` | a state file that loads |
| | `RateLimitHolds` | `RateLimit` | a state file that loads |
| | `WatchdogImplementsBudget` | `ImplementsBudget` | a state file that loads |
| `RebootBudgetProofs` | `BudgetIsKept` | `WithinBudget` of `RebootBudget` | numbers for its constants |
| `DecisionProofs` | `AlertIsNotRepeated` | `AlertNotRepeated` | loads succeed |
| | `AlertFlagIsTrue` | `AlertFlagTrue` | |
| | `RecoveryIsNotLost` | `RecoveryNotLost` | loads succeed |
| | `AcceptedMarksAreTrue` | `AcceptedIsTrue` | |
| | `CallsAreJustified` | `AutomatedCallJustified` | |
| | `BreakerIsTruthful` | `BreakerTruthful` | a state file that loads |
| | `CyclesArePaced` | `CyclesPaced` | |
| `RecordProofs` | `RecordIsLimited` | `RecordWithinLimit` | |
| | `ProcessKeepsLimit` | `ProcessLimit` | |
| `MeasurementProofs` | `TypeCorrect`, `DegradedRestsOnEvidence`, `HealthyRestsOnTests`, `SkippingIsSound`, `FailoverTriesAll` | the safety of `Measurement` | |
| `StateStoreProofs` | `NeverTorn`, `ConfirmedAreKept`, `NoLeaks`, `StoreImplementsAtomicStore` | everything the run checks | |
| `TimekeepingProofs` | `TimeInvariant`, `RunningIsReportedHealthy`, `DeadIsFoundOut`, `LimitHoldsInRealTime`, `PaceIsReal` | everything the run checks | |
| `CommandsProofs` | `RejectedMeansUntouched`, `RestartIsAskedFor`, `LimitsAgree` | `FailClosed`, `RestartNeedsConsent`, `SameLimit` | |
| | `ExitCodesTell` | `ExitCodeTells` | |
| | `ThresholdsFit` | `CalibrationFits` | rates of at least 0.1 Mbit/s |
| | `PortsAreApart` | `PortsApart` | |

"A state file that loads" is `HasStateFile` and `~LoadFaults`, "loads succeed"
the latter alone. Without `DW_STATE_FILE`, or
after a load that failed and gave a fresh state, the limit is a limit per process
only: `ProcessKeepsLimit`, which assumes nothing of the file. Faults that are not excluded are included: failing saves, crashes, lost
alerts, all modes.

**Accounting.** `RateLimit` is not inductive. What makes it so is
`AccountingInv`:

- `CallsOrdered`: calls are accounted at increasing times, a grain apart, so
  that a stored attempt stands for one call only, and before its own call a
  cycle is later than all calls;
- `AttemptsAccounted`, and `AttemptOnRecord` for the call about to be made;
- `BudgetLeft`: from the decision to the call, the calls in the window are fewer
  than the limit. At the decision this follows from counting attempts: every
  call of the span is accounted by an attempt that `RecentAttempts` counts, and
  different calls by different ones, so the calls are no more than the
  attempts (`FS_Injection`). Until the call no other call comes in between;
- `FiniteOK`, without which cardinalities mean nothing.

The call itself turns `BudgetLeft` into the new instance of `RateLimit`. The
refinement uses the same invariant with `ClockOK` for the bound of the times,
and a surjection from the calls of the span to the requests they map to.

**Decisions and alerts.** `DeliveryKnown` says which of memory and file know of a
delivered alert, `FlagHonest` that neither claims one that was not, but for the
flag of an episode that is over; the first needs loads that succeed. `MarksTrue` is about memory and file alike, and
about the call just accepted. `EvidenceInv` maps every entry of a window, in
memory and in the file, to a measured cycle, one to one up to the grain
(`Measured`), so that a full window means enough cycles; the mapping survives
pruning, saving and loading, and `DecisionGrounded` carries the count from the
decision to the call. Saves may fail: the file then keeps an older window, and
each of its entries is still in `evidence`, which only a saved healthy verdict
clears. `PaceInv` says that a wait is over only when the time of the decision
before it has passed. The breaker follows from the accounting: the calls in the
window are no more than the attempts (`CallsCounted`).

**Record.** `Admissible` is an invariant of histories: attempts are recorded one
after the other, a grain apart, and each had room when it came. It is stated
with the latest time that the file could have cut to the stored one (`Ceiling`),
which makes it indifferent to truncation (`AdmissibleImage`). It survives subsets
and the passing of time, and a new attempt that finds room (`AdmissibleAdd`).

The limit of one process rests on `OwnInv`: its own calls are on record in its
memory at their exact times until they are past retention (`OwnRemembered`), so
they are no more than the attempts that a decision counts, and from a decision to
its call there is room for one more (`OwnBudgetLeft`). A restart command decides
without counting; it has made no call before (`OneOfCommand`).

**Measurement.** `MeasurementInv` follows a report from step to step: what is
known when, that the ports tried are the first of the rotation (`TriedInOrder`),
and that the verdict given is the one `EvaluateReport` gives. That the rotation
meets no port twice is arithmetic (`TurnsApart`).

**Store.** `StoreInv` adds how far each save has brought its temporary file
(`TempProgress`), and that each copy has what the file holds but for what its
process missed (`CopiesCurrent`). The
refinement maps each of the steps to one of `AtomicStore` or a stutter.

**Time.** `AgeIsTrue`: the age the healthcheck computes is the true one plus
`slip`. `PhaseBounded`: a daemon tried to write a heartbeat when its delay or
cycle began, and no phase outlasts its bound. `CallsRemembered`: an attempt
looks no older than it is in real time plus what the clock was set forward by
since, so that it is pruned, or left out of the count, only when it is out of the
window by that measure. `ahead` is read with `now`, at the start of a cycle, and
the clock may be set during the cycle: `aheadAtStart` keeps the two together.

**Commands.** `StepInv` says, for each place of an invocation, how the process
must be configured and what it has been told to be there. `ExitInv`
adds which checks lie behind each place, passed or failed, and that a calibration
takes its samples of both directions or of neither.

`CalibrationFits` sorts no samples: `Ranked` is the least rate that more than
`k` samples do not exceed. That it exists, and that no more than `k` samples lie
below it, is counting (`RankedIsThere`); the rest is the rounding
(`RecommendedIsBelow`).

`PortsApart` rests on what two recursive functions compute: `FlattenSeq`, which
puts the items of a list together, and the removal of duplicates. The library's
induction theorems take an operator, which the provers cannot instantiate; `UpTo`
is induction with a set for it, from the least element of what is missing. The
existence of each recursive function is shown the same way. Then the rotation is
arithmetic: a turn of less than the length of a list without repetitions meets no
place twice, and some time of each round comes to each place (`SlotOfTime`).

**Only model-checked**: liveness (`StopEnds`, `Concludes`), which is out of the
prover's reach.

## 6. Where documents and code disagree

| Run | The document | The code |
|---|---|---|
| `reboot_only_when_degraded` | README.md:100, :130: a neutral result leads to the wait; README.md:487: its failure counter is reset | `transition` decides from the window alone (policy.py:175), so an UNAVAILABLE cycle may restart the device |
| `breaker_waits_cooldown` | README.md:91: with the breaker active, wait `cooldown_seconds` | the action is NONE, so the wait is `interval_seconds` (runner.py:396) |
| `recovered_waits_interval` | README.md:96, :99: a HEALTHY verification leads to the reset and from there to the interval wait | the wait after any reboot decided is `cooldown_seconds` (runner.py:396); README.md:512, "before the next cycle after a reboot decision", agrees |
| `missing_binary` | README.md:488: system binary missing, `misconfigured` | a missing `iperf3` is an `IperfError` like any other, `measurement-unavailable` (probes.py:143, policy.py:91) |
| `derived_limit` | config.py:40: a safe limit derived from the cycle interval | `max(90, 2 * interval)`, whatever the cooldown and the length of a cycle (config.py:49): an interval of 60 with the default cooldown of 600 fails the healthcheck of a daemon that waits as it should |
| `invalid_configuration_exits_3` | README.md:445: 3 for an invalid configuration | the healthcheck exits with 2 (`__main__.py:528`), doctor with 1 (`__main__.py:146`) |

The first does not need the crash of the shortest trace: after a restart whose
verification failed the window is still full, and any later cycle restarts
the device again until the budget is used up.

## 7. What is left out

- Texts, logging, reports, headers and tokens, sockets and status codes; the
  reported-only fields.
- Reading numbers, URLs, sizes and JSON: tables in `Configuration`, "cannot be
  read" in `StateStore` and `Watchdog` (`LoadFaults`).
- Rates beyond their comparison with thresholds, but in calibration.
- A delivery whose answer is lost: the alert is then sent again. Nothing in the
  code could know.
- Logging (`logging_config.py`): output only.
- Development and packaging (`dev.py`, scripts, container files): no part of the
  running system.

## 8. Plan

Done: the core with its accounting, decisions and record; measurement; the store
and its refinement; time; configuration and commands; the limit of one
process; proofs of every safety property of the runs that pass.

Left: a delivery whose answer is lost, and how often an alert is then repeated.
