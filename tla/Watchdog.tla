------------------------------ MODULE Watchdog ------------------------------
(***************************************************************************)
(* The watchdog process: the check loop of src/src/main.py, the recovery   *)
(* controller of src/src/recovery.py, the state machine and the restart    *)
(* manager they drive, and the recreation of the watchdog's container at   *)
(* any moment.                                                             *)
(*                                                                         *)
(* The loop is one thread. A cycle waits in two places: while _observe()   *)
(* asks TeslaMate and Docker, and in a cycle that restarts from the guard  *)
(* to the end of the Docker call (capture() reads the logs first, and the  *)
(* call may take RESTART_HTTP_TIMEOUT). It is therefore two steps: Observe *)
(* gathers the evidence, Cycle, WaitCycle or ConfirmCycle acts upon it;    *)
(* and of a cycle that restarts the rest, from where the guard allowed it, *)
(* is a third one, RestartSucceeds or RestartFails. Time passes, and the   *)
(* container may be recreated, between any two.                            *)
(***************************************************************************)
EXTENDS StateMachine, RestartManager

CONSTANTS
    POST_RESTART_WAIT_SECONDS,
    MaxTime         \* the bound of the clock; see Tick

ASSUME WaitAndTime == POST_RESTART_WAIT_SECONDS \in Nat /\ MaxTime \in Nat

VARIABLES
    observed,                   \* the observation that was not acted upon yet,
                                \* {} between the cycles
    in_flight,                  \* the observation of the cycle that is inside
                                \* docker.restart(), {} while there is none
    progress,                   \* RecoveryController._progress
    wait_left,                  \* its monotonic deadline, as the time left
    recovery_status,            \* RecoveryController.status
    database_healthy_streak,    \* Watchdog._database_healthy_streak
    events,                     \* the events the last step published
    published,                  \* the retained topics state and recovery_status
    executed,                   \* history variable: the times at which
                                \* Docker restarted the container
    early                       \* history variable: the checks of this recovery
                                \* begun before its deadline and not dropped

recoveryVars == <<in_flight, progress, wait_left, recovery_status>>

vars == <<machineVars, now, restartVars, recoveryVars,
          observed, database_healthy_streak, events, published, executed, early>>

RecoveryStatus == {"idle", "waiting_after_restart", "confirming_recovery",
                   "recovered", "manual_intervention_required"}

\* The events that report an incident. diagnostics_captured is left out: it
\* says that the diagnostics writer could write a bundle.
Event == {"failure_detected", "recovery_started", "restart_executed", "recovered",
          "manual_intervention_required", "authentication_required",
          "database_unhealthy"}

Progress == [trigger_state : RESTART_ALLOWED_STATES \cup {None},
             healthy_streak : 0..StreakCap, failure_streak : 0..StreakCap]

NoRecovery == [trigger_state |-> None, healthy_streak |-> 0, failure_streak |-> 0]

\* RecoveryController.active
RecoveryActive == progress.trigger_state # None

-----------------------------------------------------------------------------
(* One check cycle.                                                        *)

\* Variant: a database check that could not tell counts as healthy.
CountUnknownDatabase(obs) ==
    database_healthy_streak' =
        IF obs.database_healthy = "false" THEN 0
        ELSE IF database_healthy_streak < DATABASE_CONFIRMATION_COUNT
        THEN database_healthy_streak + 1
        ELSE database_healthy_streak

\* The database streak of _observe(); the guard compares it with
\* DATABASE_CONFIRMATION_COUNT only, so it saturates there.
CountDatabase(obs) ==
    database_healthy_streak' =
        IF obs.database_healthy # "true" THEN 0
        ELSE IF database_healthy_streak < DATABASE_CONFIRMATION_COUNT
        THEN database_healthy_streak + 1
        ELSE database_healthy_streak

\* _observe(), the first part of every cycle.
Observe(obs) ==
    /\ observed = {} /\ in_flight = {}
    /\ observed' = {obs}
    /\ CountDatabase(obs)
    /\ early' = IF wait_left > 0 THEN early + 1 ELSE early
    /\ events' = {}
    /\ UNCHANGED <<machineVars, now, restartVars, recoveryVars, published, executed>>

\* The alert that ends _on_transition() when no restart is in progress.
Alert(s) ==
    CASE s \in AUTH_STATES           -> {"authentication_required"}
      [] s = "DATABASE_UNHEALTHY"    -> {"database_unhealthy"}
      [] OTHER                       -> {}

\* Variant: the status is published before the cycle's verdict is drawn.
PublishStatusFirst ==
    published' = [state |-> state, recovery_status |-> recovery_status']

\* _publish_status(), the end of every cycle.
PublishStatus == published' = [state |-> state', recovery_status |-> recovery_status']

\* _on_transition() and _consider_recovery(), as far as begin()'s Docker call.
OnTransition(obs, reachable) ==
    LET failed == state' # state /\ state' \in FAILURE_STATES
        restarting == failed /\ RestartAllowed(state', database_healthy_streak, reachable)
    IN  \/ /\ restarting
           /\ in_flight' = {obs}
           /\ events' = {"failure_detected", "recovery_started"}
           /\ UNCHANGED published
        \/ /\ ~restarting
           /\ in_flight' = {}
           /\ events' = IF failed THEN {"failure_detected"} \cup Alert(state') ELSE {}
           /\ PublishStatus

\* A cycle outside of a recovery acts upon its observation.
Cycle(obs, reachable) ==
    /\ observed = {obs} /\ observed' = {}
    /\ ~RecoveryActive
    /\ StepMachine(obs)
    /\ UNCHANGED <<now, restartVars, progress, wait_left, recovery_status,
                   database_healthy_streak, executed, early>>
    /\ OnTransition(obs, reachable)

\* RecoveryController.step() before the deadline: the observation is dropped.
WaitCycle(obs) ==
    /\ observed = {obs} /\ observed' = {}
    /\ RecoveryActive
    /\ wait_left > 0
    /\ early' = 0
    /\ recovery_status' = "waiting_after_restart"
    /\ events' = {}
    /\ evidence' = NoEvidence
    /\ HoldState
    /\ PublishStatus
    /\ UNCHANGED <<now, restartVars, in_flight, progress, wait_left,
                   database_healthy_streak, executed>>

\* Variant: the progress of a recovery that is over is not cleared.
FinishKeepingProgress(s, status, event) ==
    /\ UNCHANGED progress
    /\ recovery_status' = status
    /\ ForceState(s)
    /\ events' = {event}

\* _finish_recovered(), _finish_manual(): the recovery is over.
Finish(s, status, event) ==
    /\ progress' = NoRecovery
    /\ recovery_status' = status
    /\ ForceState(s)
    /\ events' = {event}

\* Variant: the check is not counted.
KeepConfirmingUncounted(p) ==
    /\ UNCHANGED progress
    /\ recovery_status' = "confirming_recovery"
    /\ events' = {}
    /\ HoldState

\* Variant: the event's name is published as the status.
KeepConfirmingMisnamed(p) ==
    /\ progress' = p
    /\ recovery_status' = "recovery_started"
    /\ events' = {}
    /\ HoldState

KeepConfirming(p) ==
    /\ progress' = p
    /\ recovery_status' = "confirming_recovery"
    /\ events' = {}
    /\ HoldState

HealthyCheck(p) == [p EXCEPT !.healthy_streak = Bump(@), !.failure_streak = 0]

\* Variant: a failing check does not end the healthy streak.
FailedCheckKeepingHealthy(p) == [p EXCEPT !.failure_streak = Bump(@)]

FailedCheck(p) == [p EXCEPT !.failure_streak = Bump(@), !.healthy_streak = 0]

\* What step() makes of an observation that counts.
CountCheck(obs) ==
    LET ev == Evaluate(obs)
        healthier == HealthyCheck(progress)
        worse == FailedCheck(progress)
    IN  /\ NoteVerdict(ev)
        /\ IF ev.inconclusive THEN KeepConfirming(progress)
           ELSE IF ev.state = "HEALTHY"
           THEN IF healthier.healthy_streak >= RECOVERY_CONFIRMATION_COUNT
                THEN Finish("HEALTHY", "recovered", "recovered")
                ELSE KeepConfirming(healthier)
           ELSE IF worse.failure_streak >= FAILURE_CONFIRMATION_COUNT
                THEN Finish("MANUAL_INTERVENTION_REQUIRED",
                            "manual_intervention_required",
                            "manual_intervention_required")
                ELSE KeepConfirming(worse)
        /\ PublishStatus

\* Variant: the deadline is not looked at.
ConfirmCycleAtOnce(obs) ==
    /\ observed = {obs} /\ observed' = {}
    /\ RecoveryActive
    /\ CountCheck(obs)
    /\ UNCHANGED <<now, restartVars, in_flight, wait_left,
                   database_healthy_streak, executed, early>>

\* RecoveryController.step() after the deadline.
ConfirmCycle(obs) ==
    /\ observed = {obs} /\ observed' = {}
    /\ RecoveryActive
    /\ wait_left = 0
    /\ CountCheck(obs)
    /\ UNCHANGED <<now, restartVars, in_flight, wait_left,
                   database_healthy_streak, executed, early>>

-----------------------------------------------------------------------------
(* The rest of a cycle that restarts: capture(), begin(), and the end of   *)
(* _on_transition().                                                       *)

RestartSucceeds(saved) ==
    /\ in_flight # {}
    /\ now \notin history \cup executed
    /\ executed' = executed \cup {now}
    /\ Record(saved)
    /\ progress' = [NoRecovery EXCEPT !.trigger_state = state]
    /\ wait_left' = POST_RESTART_WAIT_SECONDS
    /\ recovery_status' = "waiting_after_restart"
    /\ ForceState("RECOVERING")
    /\ evidence' = NoEvidence
    /\ in_flight' = {}
    /\ early' = 0
    /\ events' = {"restart_executed"}
    /\ PublishStatus
    /\ UNCHANGED <<now, observed, database_healthy_streak>>

\* Docker refused, or the call timed out. A restart that timed out may happen
\* all the same.
TookEffect(fault) ==
    /\ fault \in Faults
    /\ now \notin executed
    /\ executed' = executed \cup {now}

RestartFails ==
    /\ in_flight # {}
    /\ UNCHANGED executed \/ TookEffect("restart_timeout")
    /\ recovery_status' = "manual_intervention_required"
    /\ ForceState("MANUAL_INTERVENTION_REQUIRED")
    /\ evidence' = NoEvidence
    /\ in_flight' = {}
    /\ events' = {"restart_executed", "manual_intervention_required"} \cup Alert(state)
    /\ PublishStatus
    /\ UNCHANGED <<now, restartVars, observed, progress, wait_left,
                   database_healthy_streak, early>>

-----------------------------------------------------------------------------
(* The world around the loop.                                              *)

\* The watchdog is killed and recreated. Only the history file survives; a
\* restart in flight is abandoned, and may have reached Docker.
Recreate(loaded) ==
    /\ UNCHANGED executed \/ (in_flight # {} /\ TookEffect("crash_in_restart"))
    /\ RecreateMachine
    /\ Load(loaded)
    /\ observed' = {}
    /\ in_flight' = {}
    /\ progress' = NoRecovery
    /\ wait_left' = 0
    /\ recovery_status' = "idle"
    /\ database_healthy_streak' = 0
    /\ early' = 0
    /\ events' = {}
    /\ UNCHANGED <<now, published>>

\* Time passes. The wall clock stops at MaxTime, the monotonic one does not:
\* every deadline comes, and the history stays finite.
Tick ==
    /\ now' = IF now < MaxTime THEN now + 1 ELSE now
    /\ wait_left' = IF wait_left > 0 THEN wait_left - 1 ELSE 0
    /\ UNCHANGED <<machineVars, restartVars, observed, in_flight, progress,
                   recovery_status, database_healthy_streak, events, published,
                   executed, early>>

\* The wall clock is set back; the monotonic clock is not.
ClockStep ==
    /\ "clock_step" \in Faults
    /\ now' \in 0..(now - 1)
    /\ UNCHANGED <<machineVars, restartVars, recoveryVars, observed,
                   database_healthy_streak, events, published, executed, early>>

-----------------------------------------------------------------------------
Init ==
    /\ InitMachine
    /\ InitHistory
    /\ now = 0
    /\ observed = {}
    /\ in_flight = {}
    /\ progress = NoRecovery
    /\ wait_left = 0
    /\ recovery_status = "idle"
    /\ database_healthy_streak = 0
    /\ events = {}
    /\ published = [state |-> None, recovery_status |-> "idle"]
    /\ executed = {}
    /\ early = 0

\* check_once(): it observes, then it acts.
CheckOnce ==
    \/ \E obs \in Observations : Observe(obs)
    \/ \E obs \in observed :
           \/ \E reachable \in BOOLEAN : Cycle(obs, reachable)
           \/ WaitCycle(obs)
           \/ ConfirmCycle(obs)

RestartReturns == RestartFails \/ \E saved \in BOOLEAN : RestartSucceeds(saved)

Next ==
    \/ CheckOnce
    \/ RestartReturns
    \/ \E loaded \in SUBSET disk : Recreate(loaded)
    \/ Tick
    \/ ClockStep

Spec == Init /\ [][Next]_vars

-----------------------------------------------------------------------------
(* Properties.                                                             *)

WatchdogTypeOK ==
    /\ MachineTypeOK
    /\ HistoryTypeOK
    /\ now \in 0..MaxTime
    /\ observed \subseteq Observations /\ in_flight \subseteq Observations
    /\ progress \in Progress
    /\ wait_left \in 0..POST_RESTART_WAIT_SECONDS
    /\ recovery_status \in RecoveryStatus
    /\ database_healthy_streak \in 0..DATABASE_CONFIRMATION_COUNT
    /\ events \subseteq Event
    /\ published \in [state : State \cup {None}, recovery_status : RecoveryStatus]
    /\ executed \in SUBSET Nat
    /\ early \in Nat

\* The state machine and the recovery controller agree on who owns the state:
\* RECOVERING is announced exactly while a recovery is in progress, so no state
\* is held that nobody will leave and no recovery runs that nobody sees. While
\* a restart is in flight neither has begun.
RecoveryOwnsRecovering ==
    /\ state = "RECOVERING" <=> RecoveryActive
    /\ in_flight # {} => ~RecoveryActive

\* Between cycles the retained topics show what the watchdog concluded, through
\* every early return of a cycle. Only a new watchdog that has concluded nothing
\* yet leaves the topics of the old one in place.
RetainedTopicsAreCurrent ==
    in_flight = {} /\ state # "STARTING" =>
        published = [state |-> state, recovery_status |-> recovery_status]

\* A restart is only ever in flight for a failure that a restart may fix, seen
\* by this very cycle, confirmed by the checks since the last restart, with the
\* database healthy in the same check.
RestartJustified ==
    \A obs \in in_flight :
        /\ state = Evaluate(obs).state
        /\ state \in RESTART_ALLOWED_STATES
        /\ state = evidence.verdict /\ Confirmed(evidence)
        /\ obs.database_healthy = "true"
        /\ database_healthy_streak >= DATABASE_CONFIRMATION_COUNT

\* The outcome of a recovery rests on the restarted TeslaMate: its streaks count
\* checks begun after the restart call returned and no other, only one of them
\* runs, and nothing is counted before the deadline. The deadline is compared
\* when a check has been made, so one that was begun before it may be counted,
\* but never a second one.
ProgressIsEvidence ==
    /\ RecoveryActive =>
           /\ progress.failure_streak <= evidence.failing
           /\ progress.healthy_streak > 0 =>
                  /\ evidence.verdict = "HEALTHY"
                  /\ progress.healthy_streak <= evidence.count
                  /\ progress.failure_streak = 0
           /\ wait_left > 0 => evidence = NoEvidence
           /\ early <= 1
    /\ in_flight # {} => observed = {}

\* The whole watchdog drives its state machine as the state machine's own
\* specification allows: what MachineSpec guarantees holds here.
ImplementsStateMachine == MachineSpec

\* The guard, the history file and the order in which they are used keep the
\* promise about the restarts Docker makes, across every recreation, as long
\* as a restart is known to have happened and its record reaches the disk.
Budget == INSTANCE RestartBudget WITH
    COOLDOWN <- RESTART_COOLDOWN_SECONDS,
    CAP      <- MAX_RESTARTS_PER_24_HOURS,
    DAY      <- SECONDS_PER_DAY,
    Times    <- 0..MaxTime,
    clock    <- now,
    restarts <- executed,
    granted  <- (in_flight # {})

ImplementsRestartBudget == Budget!BudgetSpec

\* Recreating the container never makes the guard more permissive: the history
\* that is loaded counts as many restarts as the one that was lost, and its last
\* entry is no older. The code sorts what it loads, so that this is to hold even
\* where the clock was set back and the history is out of order; a clock that
\* is set back is a fault the run has not, and theorem RecreationKeepsBudget
\* includes.
RecreationNeverReopensBudget ==
    [][state' = "STARTING" /\ now' = now =>
           /\ RestartsIn24h' >= RestartsIn24h
           /\ \A at \in last_restart : \E again \in last_restart' : again >= at]_vars

\* Docker never restarts TeslaMate twice within a cooldown, nor more often in a
\* day than the cap allows, whenever the watchdog is recreated. README.md and
\* restart_manager.py promise it without reserve. It holds as long as every
\* restart Docker carries out is remembered: not if the call timed out or the
\* watchdog was killed during it, if the history could not be saved or read
\* back, or if the wall clock it is compared with was set back.
RestartsSpaced == Budget!Spaced

RestartsCapped == Budget!Capped
=============================================================================
