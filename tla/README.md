# Verification of teslamate-watchdog

TLA+ specifications of the watchdog in `src/src/`, the TLC runs that check them
on small instances, and TLAPS proofs of the facts that hold for every choice of
the constants. Paths below are relative to the repository (`src/...` of the
project is `src/src/...` seen from here).

## 1. The system

The watchdog is a sidecar of a TeslaMate deployment. Every `CHECK_INTERVAL`
its loop gathers evidence (HTTP, MQTT, Docker, the log), maps it to a verdict,
counts verdicts until one is confirmed, publishes the state, and, for the few
failures a restart may fix and only if a guard agrees, restarts the TeslaMate
container and watches it recover.

| Component | State it keeps | Operations | Interacts with |
|---|---|---|---|
| State machine (`state_machine.py`) | `state`, `_candidate`, `_candidate_streak`, `_healthy_streak` | `evaluate`, `step`, `force_state` | stepped by the loop, forced by the recovery controller |
| Restart manager (`restart_manager.py`) | `_history`, and `restart_history.json` on the volume | `evaluate` (the guard), `record`, `_load`, `_save`, `_prune` | asked by the loop, told by the recovery controller |
| Recovery controller (`recovery.py`) | `_progress` (trigger, deadline, two streaks), `status` | `capture`, `begin`, `step`, the two outcomes | Docker client, restart manager, state machine, event topic |
| Check loop (`main.py`) | `_database_healthy_streak`, `_last_failure` | `check_once`, `_observe`, `_on_transition`, `_consider_recovery`, `_publish_status` | everything |
| Docker client (`docker_client.py`) | none | `resolve`, `status`, `logs`, `restart`, `check_database`, `tcp_probe` | socket proxy, called by loop and recovery |
| HTTP check (`http_check.py`) | none | `check` | TeslaMate's web UI |
| Log classifier (`log_classifier.py`) | patterns, thresholds | `classify`, `signals` | the text `logs` returned |
| MQTT client (`mqtt_client.py`) | `_cars`, `_connected`, `_connected_since`, `_warned_no_messages`, paho's queue | paho callbacks on a thread of their own, `logger_health`, `start`, `stop`, publications | broker, loop (shared `_cars` under a lock) |
| Discovery (`ha_discovery.py`) | none | `publish`, a hook of every connect | MQTT client |
| Configuration (`config.py`) | constant after the start | `from_env`, `validate`, `TopicLayout.derive`, `topic` | read by everything |
| Diagnostics (`diagnostics.py`) | bundles on disk | `capture`, `prune` | called by recovery |
| Logging (`logging_setup.py`) | none | | |

What is hard about it:

* **Counters against history.** Three confirmation counters and two recovery
  streaks are incremented, reset, held and forced in different places. What
  they are meant to stand for, so many equal verdicts in a row since the last
  restart, is nowhere a variable.
* **Two owners of the state.** The state machine holds `RECOVERING` until the
  recovery controller forces it out. If they ever disagree the state is held for
  ever, or a recovery runs unseen.
* **A check takes time.** Evidence is gathered by requests one after the other,
  each with a timeout; the deadline of a recovery is compared, the guard decides
  and the restart is issued after it, in a world that may have changed.
* **A blocking call in the middle of a cycle.** `DockerClient.restart` may take
  90 seconds. The restart is recorded after it, so time, a timeout or a crash in
  between separates what happened from what is remembered.
* **Persistence.** Only the history file survives a recreation, its save may
  fail, its clock is the wall clock.
* **Decisions on transitions only.** A restart is considered in the cycle in
  which the state changes and in no other, so what was withheld then has to be
  triggered by another change.
* **Evidence with a memory.** Log lines and heartbeats describe the past of a
  container that may have been restarted since.
* **Two threads.** `logger_health()` copies references under the lock and reads
  the objects behind them after it, while paho's thread writes them and the
  connection comes and goes.
* **Presence.** What Home Assistant shows is what the broker retains: wills,
  sessions, queues and retransmissions decide whether it is true.
* **Several requests for one answer.** A name is resolved, a container is
  inspected or restarted by its id, and containers are replaced in between.

What makes each component correct: the state machine announces what was
confirmed and nothing else; the restart manager keeps restarts a cooldown apart
and below a daily cap, whatever crashes; the recovery controller decides on
checks of the restarted container and ends, if checks conclude and agree; the loop restarts only on
justified, fresh evidence and keeps the retained topics current; the Docker
client restarts TeslaMate or nothing and makes up no verdict; the MQTT client
calls a car stale only for a silence it listened to, and shows on the broker
whether the watchdog is there and what it concluded; the deployment as a whole
converges to announcing what is the case.

The complete list of components and hazards, each at its line and with the
properties that cover it or the reason none does, is in `PROJECT.json`.

## 2. The modules

```
States ---- StateMachine ----+
   |             |           +-- Watchdog ---- Deployment
   +----- RestartManager ----+       :             |
   |             RestartBudget ......:             |
   +----- Probes ----------------------------------+
   +----- CarTopics
   +----- DockerClient ...... RestartCalls
                              Availability        (dots: refinement)
```

* **`States`**: the enumerations, the allowlists and `Evaluate`, the decision
  table of `evaluate()`. An observation is a record of categories and
  three-valued answers; `None` is `"unknown"`, a log without matches and no log
  are both `{}`, because no reader tells them apart.
* **`StateMachine`**: `StepMachine(obs)` is `step()`, `ForceState` is
  `force_state()`. `MachineSpec` composes them with the moments at which
  `recovery.py` forces the state, so it is both a model of the component and the
  abstract specification the whole watchdog is shown to implement. `evidence` is
  a history variable: the current run of equal conclusive verdicts and of
  failing ones, counted independently of the code's counters. It restarts empty
  with a restart, because what was seen before says nothing about the restarted
  TeslaMate.
* **`RestartBudget`**: the abstract specification of the restart policy:
  restarts at the container, at most one per cooldown and `CAP` per day.
* **`RestartManager`**: the guard, the history, its file. A history entry is its
  time; `last_restart` is `_history[-1]`, kept apart because after a clock step
  the last entry need not be the newest.
* **`Watchdog`**: a cycle of `check_once()` is two steps. `Observe` is
  `_observe()`: it leaves its result in `observed` and counts the database
  streak. What the cycle does with it is `Cycle` outside of a recovery (`step()`,
  `_on_transition()` as far as the Docker call, `_publish_status()`), and
  `WaitCycle` or `ConfirmCycle` when `RecoveryController.step()` runs, before and
  after the deadline. A cycle that restarts ends in `begin()` at the Docker call,
  with its observation in `in_flight`; `RestartSucceeds` and `RestartFails` are
  the rest of that cycle. Between any two of these steps `Recreate` may kill the
  watchdog, `Tick` lets time pass (so a check begun before the deadline may be
  counted after it), `ClockStep` sets the wall clock back. Two history
  variables: `executed`, the restarts Docker really made, and `early`, how many
  checks of the recovery were begun before its deadline and have not been
  dropped. A restart is dated when the call returns; it happens a little
  earlier, which only lengthens the gaps.
* **`Probes`**: `HttpCheck`, what `http_check.py` makes of a response or an
  exception, and `Signals`, what `log_classifier.py` makes of the number of
  lines in each category. Pure operators.
* **`Deployment`**: `Watchdog` with a world to watch: TeslaMate in one of nine
  conditions, the database and its health check, Docker's API, the way to Tesla,
  the tokens, the age of the newest sign-out line, and what the MQTT client has
  heard of the logger and how long ago (`heard`, `silence`: a restart of
  TeslaMate does not reset them). A check is four steps, as the code makes its
  requests: `AskTeslaMate` (`checker.check()` and `logger_health()`),
  `InspectContainers`, `ReadLog` and `Decide`, which probes Tesla, asks the guard
  and goes as far as the restart call; `RestartWorld` is the rest. What has been
  gathered is in `view`. `Outcomes` says how a TeslaMate in each condition may
  answer, `ContainerRunning`, `DatabaseHealthy`, `LogSignals` and `LoggerStale`
  what the probes report, unknown included, and `Views` what a check of a world
  that does not change may report. The world changes by itself at most
  `MaxDisturbances` times, at any moment, also between two requests of a check
  and during the restart call; so may the watchdog be recreated. History
  variables: `seen`, what has been the case since the check began, and
  `accepting_checks`, for how many checks in a row the database accepted
  connections at some moment of each.
* **`CarTopics`**: paho's thread against the loop. `OnHealthy` and
  `OnHealthyStamped` are the two writes of one message under the lock, `OnState`,
  `OnConnect` and `OnDisconnect` the other callbacks. `logger_health()` is a
  step for every read of shared state: `CopyCars` (under the lock), `ScanCar`
  (the list comprehension), `CheckHeard`, `ReadConnection`, `ReadHeartbeat`,
  `ReadState`, `ReadHealthy`. The code's timestamps are kept as ages, which are
  compared with a limit and capped above every comparison. `seen` is a history
  variable: what the verdict would have been at each moment of the call.
* **`Availability`**: a process from `start()` to its end, paho's queue and
  callbacks, the broker's sessions, wills and retained messages. A connection is
  made in two steps (`Dial`, `Connect`) and accepted in a third (`Accept`);
  `_on_connect` is three more, `OnConnect` (`_connected` is set), `Announce`
  (`"online"`) and `PublishDiscovery` (the hook). `Stop` is `stop()` as far as
  `loop_stop()`, at any moment, `Disconnect` its end, `Kill` a death at any
  moment. `Cycle` stands for `_publish_status()`, the eleven status topics as
  one; `"config"` for the configurations of all entities. What paho and the
  broker do is external: messages of QoS 1, sent again after a reconnect, a will
  published for a connection that dies or is taken over. paho's order is not
  that of publication: what it holds when it opens a socket it sends once
  `_on_connect` has returned, so what is published in between goes first
  (`early`, `held`, `PublishRaw`); after the next loss the order is that of
  publication again (`InOrder`). The history variable `excuses` records the four
  events after which the code does not keep what the properties ask for; see
  "Faults".
* **`DockerClient`**: one step for every request. `List` is `resolve()`, `Status`
  and `CheckDatabase` the inspection and what is concluded from it, `Probe` is
  `tcp_probe()`, `Post` and `PostRefused` are the second validation and the POST,
  `Restarted` and `NotRestarted` its outcomes. Between them Docker creates,
  removes and renames containers, changes their state, and ends the restarts it
  was asked for, late or never. `designated` is a history variable: the
  containers a configured name has ever meant.
* **`RestartCalls`**: the abstract specification of `restart()` the recovery
  controller builds upon.
* **`MCStateMachine`, `MCWatchdog`, `MCDeployment`, `MCCarTopics`,
  `MCAvailability`, `MCDockerClient`**: the instances for TLC.
* **`StateMachineProofs`, `RestartBudgetProofs`, `WatchdogProofs`,
  `WatchdogBudgetProofs`, `DeploymentProofs`, `CarTopicsProofs`,
  `AvailabilityProofs`, `DockerClientProofs`**: theorems and proofs.

`CarTopics`, `Availability` and `DockerClient` look into what `Watchdog` and
`Deployment` take as one answer: `LoggerStale` is the verdict `CarTopics` ends
in, `ContainerRunning` and `DatabaseHealthy` are the ones of `DockerClient`, and
a restart that fails and takes effect (`TookEffect`) is the latitude
`RestartCalls` leaves. They are not composed with `Deployment` step by step: the
product of their interleavings would say nothing about the loop that the single
answers do not.

Definitions whose comment starts with "Variant" are slightly wrong versions of
the definition that follows them. They are used by no specification; each is a
bug the code could plausibly have, which the named property of the named run
detects (`mutants` in `PROJECT.json`).

Counters saturate: `StreakCap` is at least every threshold a streak is compared
with, the database streak stops at `DATABASE_CONFIRMATION_COUNT`. The code
compares and never prints them into a decision, so nothing tells the models'
counters from the unbounded ones.

## 3. The runs

| Run | What it asks | Instance |
|---|---|---|
| `state_machine` | Do counters stand for checks, and does the state follow confirmed verdicts only? `StreaksAreEvidence`, `ConfirmedIsAnnounced`, `NoUnconfirmedVerdict` | counts 2, 2 and 3 (the logger's count differs, as the defaults do), 1350 observations |
| `control` | Do loop, machine, controller and guard agree? `RecoveryOwnsRecovering`, `RestartJustified`, `ProgressIsEvidence`, `RetainedTopicsAreCurrent`, `ImplementsStateMachine` | counts 2, 2 and 1, nine observations, one per verdict and per database reading, all faults, clock 0..2 |
| `budget` | Does the file keep the budget across recreations? `RestartsSpaced`, `RestartsCapped`, `RecreationNeverReopensBudget`, `ImplementsRestartBudget` | counts 1, cooldown 2, cap 2, day 6, clock 0..12, crashes at any point outside the call that takes effect |
| `deployment` | Does the whole converge? `Convergence`, `RecoveryEnds`, `RestartNotIntoOutage` | counts 2, 2 and 3, every observation, cooldown 6, day 12, clock 0..9, two disturbances |
| `car_topics` | Is staleness silence, and a verdict one moment's? `StaleIsSilence`, `VerdictIsAtomic`, `SilenceIsReported` | one car, configured as the primary or not, limits 1 and 2, calls that take up to 1 |
| `availability` | Does the broker show the truth as soon as it has everything, and end up with it? `OnlineIsBacked`, `StatusIsCurrent`, `PresentIsOnline`, `DeathIsShown`, `PresenceIsShown`, `ConclusionIsShown` | two processes, two conclusions, two messages queued on top of a connect's |
| `docker` | Is only TeslaMate restarted, is every verdict observed, is every report true? `RestartedIsTeslaMate`, `VerdictsAreObserved`, `ImplementsRestartCalls` | two containers in the course of time, of three kinds, two restarts |

The runs that end in a violation state what the documentation says and the code
does not keep:

| Run | Property | What happens |
|---|---|---|
| `timed_out_restart` | `RestartsSpaced` | the restart call times out, the restart happens, nothing is recorded, the next restart comes within the cooldown |
| `killed_in_restart` | `RestartsCapped` | the watchdog dies inside the restart call; its successor knows nothing of the restart |
| `logout` | `LogoutIsRecovered` | the logout was confirmed during the outage; the restart was withheld and is not reconsidered when Tesla is back |
| `stale_log` | `LogoutEscalatedOnlyIfNotCleared` | the restart cleared the logout, but the sign-out lines are still in the window and count as failures |
| `healthcheck` | `HealthcheckDecides` | the inspection of the database container fails, and an accepted connection decides in place of the health check the container has |

More divergences, which need no run:

* A restart of a logged-out TeslaMate that fails sends `authentication_required`
  in the same cycle (`main.py:229`, `RestartFails` and `Alert`), documented as
  "only sent when no restart was attempted" (`README.md:206-207`).
* Sign-in page and decryption failure together: `LOGGED_OUT` wins in
  `evaluate()` and is restarted, though a failure to decrypt "needs a human,
  never a restart" (`state_machine.py:206-207`).
* `main.py:4-5` ("the two restartable states"), `tests/test_state_machine.py:3-5`
  and `README.md:620-621` still speak of `LOGGED_OUT` as never restarted; it has
  been on the allowlist since.
* `capture()` "never raises" (`recovery.py:78`), but `_unique_directory()`
  (`diagnostics.py:112`) is outside its `try`: with a volume that may not be
  searched the cycle is abandoned after the transition, and no later cycle
  considers the restart.

**Bounds.** The machine's counters need three equal verdicts at most, so cap 3
is exact. With one observation per branch of `Evaluate` further observations
only repeat transitions, and `state_machine` has them all. The clock of
`budget` covers two days and six cooldowns: a day that fills, empties and fills
again. In `control` the clock only has to separate a restart from the next one
and to be set back; the day is as short as the cooldown because the budget has
its own run. In `deployment` two disturbances allow a failure and, at any point
of the checks, of the restart or of the recovery, a second one, a repair or a
recreation; the initial world is whole, so one of them is always the failure.
The two violations it documents need three. The cooldown of 6 is longer than a
recovery that fails and the confirmation of the failure after it
(`CooldownOutlastsRecovery`), as 6 hours are against some minutes. The wall
clock stops at `MaxTime` (then no restart with a fresh time is possible, and an
instance runs out of cooldowns); the monotonic deadline goes on, so stopping is
no deadlock, and no run switches the deadlock check off.

In `car_topics` one car is enough for what is asked: `VerdictIsAtomic` and
`SilenceIsReported` are about the configured car, which no other car's messages
touch, and `StaleIsSilence`, which is also about the scan, is proved for any
number of cars (with two cars the type and both action properties hold as well,
over 17 million states, too many for a regular run). The limits differ and a
call may outlast their difference, so an age can cross each limit within a call.
In `availability` the second process is what a restart, a takeover or a late
will needs; the queue holds two messages besides a connect's own, so an old
conclusion can be sent again behind a new one, or overtaken by one. In `docker`
two containers are the one replaced and its replacement, of the three kinds that
can be taken for each other: TeslaMate, its database with a health check, and a
container of the database service under TeslaMate's name; a third would only be
a second replacement.

**Faults.** `Watchdog`: each run says by name which faults its world has
(`Faults`): `restart_timeout`, `crash_in_restart` (the restart takes effect and
the watchdog dies before recording it), `save_error`, `history_unreadable`,
`clock_step`. `budget` has none of them, because each one breaks the budget; the
first two are shown to do so by runs of their own, the others are documented in
the code (`restart_manager.py:81`, `:119`). Recreation itself is in every run.

`Availability` excludes nothing: deaths, stops, lost connections, takeovers,
recreations and broker restarts come in every behaviour at any moment. Four of
these make what the properties ask for false, in the code as it is. Each is
recorded in `excuses` when it happens, the properties except what it breaks by
name, and what ends it is part of the model:

| Excuse | Event | What it breaks, until |
|---|---|---|
| `stopped_connecting` | `stop()` from the moment paho dials until `_on_connect` returns: the goodbye is queued before "online", or not published because `_connected` is not set, and `disconnect()` drops the will (`mqtt_client.py:185`) | `OnlineIsBacked`, `DeathIsShown`; until a running watchdog is accepted |
| `wills_forgotten` | a broker restarted with its retained messages and without its sessions | the same |
| `overwritten` | the will of an earlier process published over the "online" of a running one: each process has a client id of its own (`mqtt_client.py:110`) | the availability in `PresentIsOnline`, `PresenceIsShown`; until the next accepted connection |
| `overtaken` | a status published while a connection is being made that an older one is held for | `StatusIsCurrent`; until the next cycle |

Without any one of them TLC finds the property violated. `CarTopics` and
`DockerClient` have no faults to name: connections, requests and containers
fail at any time.

**Fairness.**

* `Deployment`: `WF(WatchdogStep)`: `run()` repeats `check_once()` and catches
  what a cycle throws, and every request and the restart call have a timeout, so
  a due check is made and a call in flight returns (a page that drips for ever
  would hold it up, see the hazard at `http_check.py:168`).
  `WF(NextInterval)`: time passes. Disturbances are neither fair nor timed. Restarts need not succeed.
  That is why `Convergence` has two parts: the right state is announced again
  and again, and for good if from some time on no restart is asked for. More is
  false, and rightly so: a refused restart leaves no record, so the watchdog
  asks again every few checks and its state alternates between the failure and
  `MANUAL_INTERVENTION_REQUIRED`. Its premise is a world whose checks agree
  (`Settled`): a TeslaMate that serves and fails in turns has no state to
  converge to, and keeps a recovery from ending, as does one that answers what
  nobody recognises; `RecoveryEnds` excepts these two and nothing else. The run
  `logout` assumes that restarts succeed (`RestartsSucceed`) as part of its
  property, so that Docker is not to blame.
* `CarTopics`: the loop calls `logger_health()` again and again (`WF`), the
  second write of a message follows the first (`WF`). The steps of the call and
  of time are strongly fair, since messages disable them again and again: the
  lock is held for a few assignments and is not withheld for ever. Messages and
  connections are not fair.
* `Availability`: a running loop comes to the end of its cycles, `stop()` ends,
  paho's thread runs on, the broker accepts, receives and notices a dead
  connection by its keepalive (each `WF`). Nothing is assumed of starts, stops,
  kills and the network.
* `DockerClient` has none: a call that hangs is bounded by the timeouts of
  `requests`, and all its properties are about what is done.

## 4. The proofs

All theorems hold for every value of the constants that satisfies the named
assumptions of the modules: the confirmation counts are positive
(`config.validate()`), `StreakCap` is at least each of them, the durations and
the cap are natural numbers, the history is retained for at least a day, the two
configured container names differ, and observations are observations. A theorem
that needs more says so in its statement; the table of theorems is in
`PROJECT.json`.

**The state machine** (`StateMachineProofs`): `MachineTypeOK`,
`StreaksAreEvidence`, `ConfirmedIsAnnounced` and the action property
`NoUnconfirmedVerdict`. The inductive invariant `MachineInv` adds two facts to
the three invariants. `BeingCounted`: a verdict the checks have seen and the
state does not show yet is being counted by the counter that belongs to it, and
the count is exact. `StreaksAreEvidence` makes a counter a lower bound only, and
a counter that had missed a check would let a verdict be confirmed and not
announced. `NothingImmediateFromNothing`: empty evidence is not immediate. The
step is proved action by action (`CheckPreserves`, `ResetPreserves`,
`SettlePreserves`, `ConfirmPreserves`), over lemmas about `Evaluate`, `Bump`,
`Confirmations` and `NoteVerdict`.

Two theorems are about `evaluate()` alone, for every observation.
`WorseIsNeverHealthier`: the first match wins, but which one wins never turns a
failure into health: evidence that shows all that other evidence shows to be
wrong (`ShowsAll`) is not judged healthier. `RestartableHasCause`: each of the
three restartable verdicts names what the check saw.

**The watchdog** (`WatchdogProofs`), under every fault: `WatchdogTypeOK`,
`RecoveryOwnsRecovering`, `RestartJustified`, `ProgressIsEvidence`,
`RetainedTopicsAreCurrent`, and `Spec => ImplementsStateMachine`. The refinement
and the invariants are one argument and share the inductive invariant
`WatchdogInv`: a recovery ends as `MachineSpec` allows because its streaks are
evidence (evidence (`ConfirmCounts`), a restart is justified because what the machine
announces was confirmed (`ChangesConfirmed`, from `StepPreserves` of the
machine), and that is available because the step is a step of the machine
(`MachineStep`). The theorems about the machine thereby hold of the watchdog.

Three more follow from the same invariant. `RefusedTokensNeverRestart`: where
the log shows that Tesla refuses the tokens, a restart is in flight only for a
sign-in page or a TeslaMate that does not answer; together with the divergence
about the sign-in page above this is exactly how far "needs a human, never a
restart" is kept. `SwitchedOffOnlyMonitors` and `SwitchedOffLeavesLogout` are
about configurations no run has: what the switches promise
(`README.md:198`, `:363`) holds of all that follows the guard they are read in,
up to the states that can be announced.

**The budget**: `RestartBudgetProofs` proves `Spaced` and `Capped` of
`RestartBudget`. Its invariant speaks of the pending permission: while
`granted`, the last restart is a cooldown away and the day up to now has room,
and both stay true as the clock advances, because days that end later hold fewer
of the restarts made so far. `WatchdogBudgetProofs` proves
`Spec => ImplementsRestartBudget` for `Faults = {}`. The invariant
`HistoryIsEnough` says what the history may forget: it lacks no restart of the
last day and not the last one, and the file equals it. From the refinement and
the theorems about `RestartBudget` follow `RestartsSpaced` and `RestartsCapped`
of the watchdog itself. That each fault really has to be excluded is what the
runs `timed_out_restart` and `killed_in_restart` show.
`RecreationNeverReopensBudget` needs less: only that the file can be read and
written (`FileIntact`), whatever the calls and the clock do. Its invariant
`FileIsHistory` says that the file is the history and that a history that is not
empty has a newest entry.

What remains of the budget under the other faults is
`WhatIsRememberedKeepsBudget`: the restarts in the history, and those in the
file, are spaced and capped, whatever calls time out, saves and reads fail and
watchdogs die, as long as the clock is not set back (`ClockRuns`). So these
faults hide restarts from the guard and do nothing else. The invariant
`MemoryInv`: nothing remembered lies ahead of the clock, the guard compares with
the newest entry, and a restart in flight is one the guard would still allow,
since waiting only lets days lose restarts. `LatestExists` and `FewerKeepBudget`
carry it over a load that finds a part of the file. A clock set back during the
call does break it, as TLC shows when it has that fault.

**The deployment** (`DeploymentProofs`): `DeploymentSpec => Spec`, so all that is
proved of the watchdog holds in every world of `Deployment`, if the observations
include what the probes can report. `ViewsAreObservations` is the lemma that
they report nothing else, through `HttpCheck` and `Signals`, whatever changes
between two requests. On top of it `DeploymentTypeOK` and
`RestartNotIntoOutage`. Its invariant `CheckInv` relates what has been gathered
to the history variables at each stage of a check: an answer that shows a failure
or a sign-in page was given by a TeslaMate in such a condition at some moment
since the check began, a database read as healthy accepted connections at one,
and the code's streak is at most the number of checks of which that is true. It
is needed because the guard sees `view` and the streak, and never the world; of
the world it only probes Tesla's host itself. The theorem says no more than
that: what breaks between a request and the restart is not seen.

**The car topics** (`CarTopicsProofs`): `CarTopicsTypeOK` and `StaleIsSilence`,
for any cars and limits. The invariant `SilenceInv` says what each point of a
call knows about its beginning: messages and reconnects only ever shorten an
age, so an age that is still long in the middle of a call was long when the call
began, and the two ages `_staleness()` combines may be read at different
moments. The types are part of it, since an age may only be calculated with
after it has been checked to be one.

`VerdictIsAtomic` needs the history variable in the invariant (`AtomicInv`), and
two facts. Inside a call the ages, taken at the call's own "now", only restart
and never grow (`AgesStep`), so whatever the call finds long was long before,
and together with what it has read before. And the payload is read last: it is
the one of the moment at which the call returns. `MomentsInv` then says which
verdicts the moments so far have had, `ReadingInv` what each value read so far
implies about them: "stale" was the case at one of them (`TRUE`), and a verdict
that is not "unhealthy" any more was the case too (`WasFine`), the moment
between the two writes of one message included (`handling`).

**The availability** (`AvailabilityProofs`): `AvailabilityTypeOK` and the three
invariants, unconditionally and for any number of processes and any queue, with
the exceptions their statements name. They rest on lemmas about the queue
(`PublishQueues`, `AcknowledgedQueue`, `DeliverSends`, `LoseResends`), which say
what each operation, paho's order included, does to `Unsent`, the messages the
broker has yet to receive on this connection.

`OnlineIsBacked` adds `LinkInv`, how the connection, the callback and the session
belong together, and `GoodbyeInv`: a process that is stopped while it is
connected, and not while a connection is made, has the goodbye as its last
message, and once the broker has all of them it has that one. Therefore
`disconnect()` may drop the will. `StatusIsCurrent`: `StatusInv` says that,
unless it was overtaken, the last status in the queue is the conclusion,
whatever is sent again in front of it, and that while none is unsent the broker
shows it or has lost it. `PresentIsOnline`: `PresenceInv` says that a running
process has no goodbye in its queue, and that from its announcement on "online"
is unsent or shown, unless another process's will came over it; its own will is
published before that, when the connection is taken over. What fairness adds,
that the broker does receive everything, is `PresenceIsShown` and
`ConclusionIsShown`.

**The Docker client** (`DockerClientProofs`), from `DockerConstants` alone:
`DockerTypeOK`, `RestartedIsTeslaMate`, `VerdictsAreObserved` and the refinement
of `RestartCalls`.
The invariant `DockerInv` adds three facts. `DesignatedInv`: what has the name
or the label now has been noted. `TargetInv`: a request, and a call that is
about to make one, is about a container that was TeslaMate when it was resolved
and whose label, which never changes, is not the database's. `NumberInv`: a call
makes one request, and no request is left once its restart took place. For the
verdicts `ObservedInv` relates the call to its history variable: all that is the
case at a moment of the call has been noted (`MomentFacts`), and what is
inspected has had the name or the label the call looks for.

**Model-checked only**: what needs fairness, which is beyond the prover:
`Convergence`, `RecoveryEnds`, `SilenceIsReported`, `DeathIsShown`,
`PresenceIsShown` and `ConclusionIsShown`. Every invariant and every action
property of the runs is stated by a theorem. That a fault which a theorem
excludes, or an event a property excepts, has to be is not proved but found by
TLC.

## 5. What is not modelled

* Reasons, payloads, logging, the configuration of each entity for Home
  Assistant: wording.
* `capture()` and the diagnostics writer: their result feeds no decision. The
  time they take is modelled, between the guard and the return of the call; the
  exception they may raise is not (see above).
* An exception that escapes a cycle (`main.py:105`): but for that one, every call
  the cycle makes handles its own failures, and what it reports is an
  observation. The signal handlers only end the loop.
* `DockerClient.logs()`, its demultiplexing and its limit of 2000 lines, and
  `ping()`: they return text or a line of the log. Loading `patterns.yaml` and
  matching a line: `Signals` starts from the number of matching lines.
* Reading, parsing and validating the environment, once, before anything runs.
  The bounds `validate()` enforces are assumptions on the constants.
* In `Deployment`: the log signals other than `auth_lost`. `evaluate()` draws the
  same verdict from a token that cannot be decrypted or a refresh that fails, and
  reads a database failure and a successful refresh nowhere; `state_machine`
  has them. TeslaMate's container missing, which is as unknown as
  one that cannot be inspected; a failure of single requests, which is in
  `DockerClient`, where here Docker's API answers, only lists containers or is
  silent for a while; a database container without a health check, whose TCP
  connect is in `DockerClient` too. The watchdog's own connection to the broker
  stays up there: what a lost one does to the heartbeat is `CarTopics`.
* In `CarTopics`: staleness detection switched off, which is the constant
  verdict, and topics of a shape `derive()` does not recognise. `NoCar` as the
  primary car stands for a configured id under which nothing is published.
* In `Availability`: paho's window of 20 messages in flight, which would only
  delay the rest, and a queue of its own that may be limited (it is not by
  default); events, which are not retained; credentials and TLS; a
  connection the broker refuses is one that is lost before it is accepted.
* In `DockerClient`: a `304` is a `204`; labels are unique to what they mean, so
  one-off containers of the service are TeslaMate for the model as for the code.

## 6. What is left

* An exception out of a cycle, and the diagnostics writer that may raise it, as
  steps of `Watchdog`: it leaves the transition made and the restart unasked.
* `logs()` with its window and its limit of lines, as a source of `LogLines`.
* A second watchdog beside the first one, as an orchestrator that starts the new
  container before the old one has ended would have.
