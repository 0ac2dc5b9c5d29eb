--------------------------- MODULE WatchdogProofs ---------------------------
(***************************************************************************)
(* Proofs about Watchdog, for every value of its constants and whatever    *)
(* faults the world has: the loop and the recovery controller agree about  *)
(* the state, drive the state machine as its specification allows, and     *)
(* restart on justified evidence only, and not at all where the user has   *)
(* switched that off.                                                      *)
(***************************************************************************)
EXTENDS Watchdog, StateMachineProofs, FiniteSetTheorems

\* There is a deadline in a recovery only, and while it has not passed only the
\* check that is being made can be an early one; those before it were dropped.
EarlyInv ==
    /\ early <= 1
    /\ wait_left > 0 => RecoveryActive /\ (observed = {} => early = 0)

\* The database streak that the guard will look at ends with the check that is
\* being made.
StreakIsFresh ==
    \A obs \in observed :
        database_healthy_streak >= DATABASE_CONFIRMATION_COUNT =>
            obs.database_healthy = "true"

\* The inductive invariant. That the loop implements the state machine and
\* that its own invariants hold is one argument: a recovery may only end on
\* streaks that are evidence, and the evidence is what the machine proves.
WatchdogInv ==
    /\ WatchdogTypeOK
    /\ MachineInv
    /\ RecoveryOwnsRecovering
    /\ RestartJustified
    /\ ProgressIsEvidence
    /\ EarlyInv
    /\ StreakIsFresh

-----------------------------------------------------------------------------
(* Lemmas about the operators.                                             *)

\* None is no state.
LEMMA NoneIsNoState ==
    /\ None \notin RESTART_ALLOWED_STATES
    /\ "RECOVERING" \notin RESTART_ALLOWED_STATES
    /\ "STARTING" \notin RESTART_ALLOWED_STATES
    /\ RESTART_ALLOWED_STATES \subseteq State
    /\ RESTART_ALLOWED_STATES \subseteq Verdict \ {"HEALTHY"}
BY DEF None, RESTART_ALLOWED_STATES, State, Verdict

\* A check moves one of the two streaks of a recovery and clears the other.
LEMMA ChecksCount ==
    ASSUME progress \in Progress
    PROVE  /\ HealthyCheck(progress) \in Progress
           /\ HealthyCheck(progress).trigger_state = progress.trigger_state
           /\ HealthyCheck(progress).healthy_streak = Bump(progress.healthy_streak)
           /\ HealthyCheck(progress).failure_streak = 0
           /\ FailedCheck(progress) \in Progress
           /\ FailedCheck(progress).trigger_state = progress.trigger_state
           /\ FailedCheck(progress).failure_streak = Bump(progress.failure_streak)
           /\ FailedCheck(progress).healthy_streak = 0
<1>1. /\ Bump(progress.healthy_streak) \in 0..StreakCap
      /\ Bump(progress.failure_streak) \in 0..StreakCap
      /\ 0 \in 0..StreakCap
  BY BumpBounds, StreakCapCoversCounts DEF Progress
<1>. QED
  BY <1>1 DEF Progress, HealthyCheck, FailedCheck

-----------------------------------------------------------------------------
(* Every step of the watchdog is one of the state machine, or none.        *)

\* A check outside of a recovery is a check of the machine.
LEMMA CycleChecks ==
    ASSUME WatchdogInv, NEW obs \in Observations, NEW reachable \in BOOLEAN,
           Cycle(obs, reachable)
    PROVE  Check(obs)
BY DEF WatchdogInv, RecoveryOwnsRecovering, Cycle, Check

\* A check before the deadline of a recovery lets it settle.
LEMMA WaitSettles ==
    ASSUME WatchdogInv, NEW obs \in Observations, WaitCycle(obs)
    PROVE  Settle
BY DEF WatchdogInv, RecoveryOwnsRecovering, WaitCycle, Settle

\* What a check after the deadline does to the evidence and the progress.
LEMMA ConfirmCounts ==
    ASSUME WatchdogInv, NEW obs \in Observations, ConfirmCycle(obs)
    PROVE  /\ evidence' \in Evidence
           /\ Evaluate(obs).inconclusive =>
                  /\ KeepConfirming(progress)
                  /\ evidence'.verdict = evidence.verdict
                  /\ evidence'.count = evidence.count
                  /\ evidence'.failing = evidence.failing
           /\ ~Evaluate(obs).inconclusive /\ Evaluate(obs).state = "HEALTHY" =>
                  /\ evidence'.verdict = "HEALTHY"
                  /\ HealthyCheck(progress).healthy_streak <= evidence'.count
                  /\ HealthyCheck(progress).failure_streak = 0
           /\ ~Evaluate(obs).inconclusive /\ Evaluate(obs).state # "HEALTHY" =>
                  /\ FailedCheck(progress).failure_streak <= evidence'.failing
                  /\ FailedCheck(progress).healthy_streak = 0
<1>. DEFINE ev == Evaluate(obs)
<1>1. ev \in Evaluation /\ NoteVerdict(ev)
  BY EvaluateType DEF ConfirmCycle, CountCheck
<1>2. ev.inconclusive => KeepConfirming(progress)
  BY DEF ConfirmCycle, CountCheck
<1>. HIDE DEF ev
<1>3. MachineTypeOK /\ progress \in Progress /\ ProgressIsEvidence /\ RecoveryActive
  BY DEF WatchdogInv, WatchdogTypeOK, ConfirmCycle
<1>4. /\ evidence \in Evidence
      /\ progress.healthy_streak \in 0..StreakCap
      /\ progress.failure_streak \in 0..StreakCap
  BY <1>3 DEF MachineTypeOK, Progress
<1>5. evidence.count \in 0..StreakCap /\ evidence.failing \in 0..StreakCap
  BY <1>4 DEF Evidence
<1>6. /\ evidence' \in Evidence
      /\ ev.inconclusive =>
             /\ evidence'.verdict = evidence.verdict
             /\ evidence'.count = evidence.count
             /\ evidence'.failing = evidence.failing
      /\ ~ev.inconclusive =>
             /\ evidence'.verdict = ev.state
             /\ evidence'.count = IF ev.state = evidence.verdict
                                  THEN Bump(evidence.count) ELSE 1
             /\ evidence'.failing = IF ev.state = "HEALTHY"
                                    THEN 0 ELSE Bump(evidence.failing)
  BY <1>1, <1>3, NoteVerdictFacts
<1>7. ASSUME ~ev.inconclusive, ev.state = "HEALTHY"
      PROVE  Bump(progress.healthy_streak) <= evidence'.count
  <2>1. CASE progress.healthy_streak = 0
    <3>1. evidence'.count >= 1
      BY <1>5, <1>6, <1>7, BumpBounds
    <3>2. evidence'.count \in 0..StreakCap
      BY <1>6 DEF Evidence
    <3>3. Bump(progress.healthy_streak) = 1
      BY <2>1, ConfirmationCounts, StreakCapCoversCounts DEF Bump
    <3>. QED
      BY <3>1, <3>2, <3>3
  <2>2. CASE progress.healthy_streak # 0
    <3>1. evidence.verdict = "HEALTHY" /\ progress.healthy_streak <= evidence.count
      BY <1>3, <1>4, <2>2 DEF ProgressIsEvidence
    <3>. QED
      BY <1>4, <1>5, <1>6, <1>7, <3>1, BumpBounds
  <2>. QED
    BY <2>1, <2>2
<1>8. ASSUME ~ev.inconclusive, ev.state # "HEALTHY"
      PROVE  Bump(progress.failure_streak) <= evidence'.failing
  <2>1. progress.failure_streak <= evidence.failing
    BY <1>3 DEF ProgressIsEvidence
  <2>. QED
    BY <1>4, <1>5, <1>6, <1>8, <2>1, BumpBounds
<1>. QED
  BY <1>2, <1>3, <1>6, <1>7, <1>8, ChecksCount DEF ev

\* A check after the deadline of a recovery confirms its outcome, or does not
\* end it.
LEMMA ConfirmConfirms ==
    ASSUME WatchdogInv, NEW obs \in Observations, ConfirmCycle(obs)
    PROVE  Confirm(obs)
<1>1. state = "RECOVERING" /\ NoteVerdict(Evaluate(obs))
  BY DEF WatchdogInv, RecoveryOwnsRecovering, ConfirmCycle, CountCheck
<1>2. evidence'.count \in Nat /\ evidence'.failing \in Nat
  BY ConfirmCounts DEF Evidence
<1>3. /\ progress \in Progress
      /\ HealthyCheck(progress).healthy_streak \in Nat
      /\ FailedCheck(progress).failure_streak \in Nat
  BY ChecksCount DEF Progress, WatchdogInv, WatchdogTypeOK
<1>4. CASE Evaluate(obs).inconclusive
  BY <1>1, <1>4, ConfirmCounts DEF Confirm, KeepConfirming
<1>5. CASE ~Evaluate(obs).inconclusive /\ Evaluate(obs).state = "HEALTHY"
  <2>1. CASE HealthyCheck(progress).healthy_streak >= RECOVERY_CONFIRMATION_COUNT
    <3>1. ForceState("HEALTHY")
      BY <1>5, <2>1 DEF ConfirmCycle, CountCheck, Finish
    <3>2. evidence'.verdict = "HEALTHY" /\ evidence'.count >= RECOVERY_CONFIRMATION_COUNT
      BY <1>2, <1>3, <1>5, <2>1, ConfirmCounts, ConfirmationCounts
    <3>. QED
      BY <1>1, <3>1, <3>2 DEF Confirm
  <2>2. CASE ~(HealthyCheck(progress).healthy_streak >= RECOVERY_CONFIRMATION_COUNT)
    <3>1. HoldState
      BY <1>5, <2>2 DEF ConfirmCycle, CountCheck, KeepConfirming
    <3>. QED
      BY <1>1, <3>1 DEF Confirm
  <2>. QED
    BY <2>1, <2>2
<1>6. CASE ~Evaluate(obs).inconclusive /\ Evaluate(obs).state # "HEALTHY"
  <2>1. CASE FailedCheck(progress).failure_streak >= FAILURE_CONFIRMATION_COUNT
    <3>1. ForceState("MANUAL_INTERVENTION_REQUIRED")
      BY <1>6, <2>1 DEF ConfirmCycle, CountCheck, Finish
    <3>2. evidence'.failing >= FAILURE_CONFIRMATION_COUNT
      BY <1>2, <1>3, <1>6, <2>1, ConfirmCounts, ConfirmationCounts
    <3>. QED
      BY <1>1, <3>1, <3>2 DEF Confirm
  <2>2. CASE ~(FailedCheck(progress).failure_streak >= FAILURE_CONFIRMATION_COUNT)
    <3>1. HoldState
      BY <1>6, <2>2 DEF ConfirmCycle, CountCheck, KeepConfirming
    <3>. QED
      BY <1>1, <3>1 DEF Confirm
  <2>. QED
    BY <2>1, <2>2
<1>. QED
  BY <1>4, <1>5, <1>6

\* The end of a cycle that restarts is the beginning of a recovery, or its
\* failure.
LEMMA RestartLeaves ==
    ASSUME WatchdogInv, RestartReturns
    PROVE  LeaveForRecovery
<1>1. state \in RESTART_ALLOWED_STATES
  BY DEF WatchdogInv, RestartJustified, RestartReturns, RestartSucceeds, RestartFails
<1>. QED
  BY <1>1 DEF RestartReturns, RestartSucceeds, RestartFails, LeaveForRecovery

\* Every step of the watchdog.
LEMMA MachineStep ==
    WatchdogInv /\ [Next]_vars => [MachineNext]_machineVars
<1>. SUFFICES ASSUME WatchdogInv, [Next]_vars PROVE [MachineNext]_machineVars
  OBVIOUS
<1>1. CASE CheckOnce
  <2>1. observed \subseteq Observations
    BY DEF WatchdogInv, WatchdogTypeOK
  <2>2. ASSUME NEW obs \in Observations, Observe(obs) PROVE UNCHANGED machineVars
    BY <2>2 DEF Observe
  <2>. QED
    BY <1>1, <2>1, <2>2, CycleChecks, WaitSettles, ConfirmConfirms
    DEF CheckOnce, MachineNext
<1>2. CASE RestartReturns
  BY <1>2, RestartLeaves DEF MachineNext
<1>3. CASE \E loaded \in SUBSET disk : Recreate(loaded)
  BY <1>3 DEF Recreate, MachineNext
<1>4. CASE Tick \/ ClockStep \/ UNCHANGED vars
  BY <1>4 DEF Tick, ClockStep, vars, machineVars
<1>. QED
  BY <1>1, <1>2, <1>3, <1>4 DEF Next
\* Hence the machine's invariant holds throughout, and what a step announces
\* was confirmed.
LEMMA MachineKept ==
    ASSUME WatchdogInv, [Next]_vars
    PROVE  MachineInv' /\ ChangesConfirmed
BY MachineStep, StepPreserves DEF WatchdogInv

-----------------------------------------------------------------------------
(* Every step keeps the invariant.                                         *)

\* An alert is an event.
LEMMA AlertType ==
    ASSUME NEW s
    PROVE  Alert(s) \subseteq Event
BY DEF Alert, Event

\* The database streak stays within its bound, and is only positive after a
\* check that saw a healthy database.
LEMMA DatabaseCounted ==
    ASSUME WatchdogTypeOK, NEW obs \in Observations, CountDatabase(obs)
    PROVE  /\ database_healthy_streak' \in 0..DATABASE_CONFIRMATION_COUNT
           /\ database_healthy_streak' >= DATABASE_CONFIRMATION_COUNT =>
                  obs.database_healthy = "true"
BY RestartConstants DEF WatchdogTypeOK, CountDatabase

\* Evidence is gathered while nothing is in flight, and nothing follows from it
\* yet.
LEMMA ObservePreserves ==
    ASSUME WatchdogInv, NEW obs \in Observations, Observe(obs), MachineInv'
    PROVE  WatchdogInv'
<1>1. /\ observed = {} /\ in_flight = {} /\ in_flight' = {}
      /\ observed' = {obs} /\ events' = {}
      /\ progress' = progress /\ wait_left' = wait_left
      /\ recovery_status' = recovery_status
      /\ state' = state /\ evidence' = evidence
      /\ early' = IF wait_left > 0 THEN early + 1 ELSE early
      /\ UNCHANGED <<now, history, last_restart, disk, published, executed>>
  BY DEF Observe, machineVars, recoveryVars, restartVars
<1>2. /\ database_healthy_streak' \in 0..DATABASE_CONFIRMATION_COUNT
      /\ database_healthy_streak' >= DATABASE_CONFIRMATION_COUNT =>
             obs.database_healthy = "true"
  BY DatabaseCounted DEF WatchdogInv, Observe
<1>3. early \in Nat /\ wait_left \in 0..POST_RESTART_WAIT_SECONDS
  BY DEF WatchdogInv, WatchdogTypeOK
<1>4. early' \in Nat /\ early' <= 1
  BY <1>1, <1>3, WaitAndTime DEF WatchdogInv, EarlyInv
<1>5. WatchdogTypeOK'
  <2>1. MachineTypeOK' /\ HistoryTypeOK'
    BY <1>1 DEF MachineInv, WatchdogInv, WatchdogTypeOK, HistoryTypeOK
  <2>. QED
    BY <1>1, <1>2, <1>4, <2>1 DEF WatchdogInv, WatchdogTypeOK, Progress
<1>6. EarlyInv' /\ StreakIsFresh'
  BY <1>1, <1>2, <1>4 DEF WatchdogInv, EarlyInv, StreakIsFresh, RecoveryActive
<1>7. ProgressIsEvidence'
  BY <1>1, <1>4 DEF WatchdogInv, ProgressIsEvidence, RecoveryActive
<1>. QED
  BY <1>1, <1>5, <1>6, <1>7
  DEF WatchdogInv, RecoveryOwnsRecovering, RecoveryActive, RestartJustified

\* A check outside of a recovery: a restart is only issued for the verdict of
\* this check, which the machine has just confirmed.
LEMMA CyclePreserves ==
    ASSUME WatchdogInv, NEW obs \in Observations, NEW reachable \in BOOLEAN,
           Cycle(obs, reachable), MachineInv', ChangesConfirmed
    PROVE  WatchdogInv'
<1>1. /\ state \in State /\ state # "RECOVERING"
      /\ progress' = progress /\ wait_left' = wait_left
      /\ recovery_status' = recovery_status
      /\ UNCHANGED <<now, restartVars, executed, early>>
      /\ observed' = {} /\ ~RecoveryActive
  BY DEF WatchdogInv, WatchdogTypeOK, MachineTypeOK, RecoveryOwnsRecovering, Cycle
<1>2. /\ database_healthy_streak' = database_healthy_streak
      /\ database_healthy_streak >= DATABASE_CONFIRMATION_COUNT =>
             obs.database_healthy = "true"
  BY DEF WatchdogInv, StreakIsFresh, Cycle
<1>3. \/ state' = state
      \/ state' = "HEALTHY"
      \/ state' = Evaluate(obs).state /\ state' # "HEALTHY"
  BY <1>1 DEF Cycle, StepMachine, HoldState, ObserveHealthy, ObserveFailure
<1>4. state' # "RECOVERING" /\ state' \in State
  <2>1. Evaluate(obs).state \in Verdict
    BY EvaluateType DEF Evaluation
  <2>. QED
    BY <1>1, <1>3, <2>1 DEF Verdict, State
<1>5. \/ /\ in_flight' = {obs}
         /\ state' # state /\ state' \in RESTART_ALLOWED_STATES
         /\ database_healthy_streak >= DATABASE_CONFIRMATION_COUNT
         /\ published' = published
      \/ in_flight' = {} /\ PublishStatus
  BY DEF Cycle, OnTransition, RestartAllowed
<1>6. WatchdogTypeOK'
  <2>1. MachineTypeOK' /\ HistoryTypeOK'
    BY <1>1 DEF MachineInv, WatchdogInv, WatchdogTypeOK, HistoryTypeOK, restartVars
  <2>2. events' \subseteq Event
    BY AlertType DEF Cycle, OnTransition, Event
  <2>3. published' \in [state : State \cup {None}, recovery_status : RecoveryStatus]
    BY <1>1, <1>4, <1>5 DEF PublishStatus, WatchdogInv, WatchdogTypeOK
  <2>4. in_flight' \subseteq Observations
    BY <1>5
  <2>. QED
    BY <1>1, <1>2, <2>1, <2>2, <2>3, <2>4 DEF WatchdogInv, WatchdogTypeOK, Progress
<1>7. RecoveryOwnsRecovering'
  BY <1>1, <1>4 DEF RecoveryOwnsRecovering, RecoveryActive
<1>8. RestartJustified'
  <2>1. CASE in_flight' = {}
    BY <2>1 DEF RestartJustified
  <2>2. CASE in_flight' = {obs} /\ state' # state /\ state' \in RESTART_ALLOWED_STATES
             /\ database_healthy_streak >= DATABASE_CONFIRMATION_COUNT
    <3>1. state' \in Verdict \ {"HEALTHY"}
      BY <2>2, NoneIsNoState
    <3>2. evidence'.verdict = state' /\ Confirmed(evidence')
      BY <2>2, <3>1 DEF ChangesConfirmed
    <3>3. state' = Evaluate(obs).state
      BY <1>3, <2>2, <3>1
    <3>. QED
      BY <1>2, <2>2, <3>2, <3>3 DEF RestartJustified, Confirmed
  <2>. QED
    BY <1>5, <2>1, <2>2
<1>9. ProgressIsEvidence' /\ StreakIsFresh'
  BY <1>1 DEF ProgressIsEvidence, RecoveryActive, StreakIsFresh
<1>10. EarlyInv'
  BY <1>1 DEF WatchdogInv, EarlyInv, RecoveryActive
<1>. QED
  BY <1>6, <1>7, <1>8, <1>9, <1>10 DEF WatchdogInv

\* A check before the deadline: no streak has begun, and none begins.
LEMMA WaitPreserves ==
    ASSUME WatchdogInv, NEW obs \in Observations, WaitCycle(obs), MachineInv'
    PROVE  WatchdogInv'
<1>1. /\ observed = {obs} /\ observed' = {} /\ in_flight' = in_flight
      /\ early' = 0 /\ database_healthy_streak' = database_healthy_streak
      /\ progress' = progress /\ wait_left' = wait_left /\ wait_left > 0
      /\ state' = state /\ evidence' = NoEvidence
      /\ recovery_status' = "waiting_after_restart"
      /\ events' = {}
      /\ published' = [state |-> state, recovery_status |-> "waiting_after_restart"]
      /\ UNCHANGED <<now, restartVars, executed>>
  BY DEF WaitCycle, HoldState, PublishStatus
<1>2. in_flight' = {} /\ RecoveryActive'
  BY <1>1 DEF WatchdogInv, ProgressIsEvidence, WaitCycle, RecoveryActive
<1>3. WatchdogTypeOK'
  <2>1. MachineTypeOK' /\ HistoryTypeOK'
    BY <1>1 DEF MachineInv, WatchdogInv, WatchdogTypeOK, HistoryTypeOK, restartVars
  <2>2. published' \in [state : State \cup {None}, recovery_status : RecoveryStatus]
    BY <1>1 DEF WatchdogInv, WatchdogTypeOK, MachineTypeOK, RecoveryStatus
  <2>. QED
    BY <1>1, <1>2, <2>1, <2>2
    DEF WatchdogInv, WatchdogTypeOK, Progress, RecoveryStatus
<1>4. ProgressIsEvidence'
  <2>1. /\ RecoveryActive
        /\ evidence = NoEvidence
        /\ progress.failure_streak <= evidence.failing
        /\ ~(progress.healthy_streak > 0)
    BY <1>1 DEF WatchdogInv, ProgressIsEvidence, WaitCycle, NoEvidence, None
  <2>. QED
    BY <1>1, <1>2, <2>1 DEF ProgressIsEvidence
<1>5. EarlyInv' /\ StreakIsFresh'
  BY <1>1, <1>2 DEF EarlyInv, StreakIsFresh
<1>. QED
  BY <1>1, <1>2, <1>3, <1>4, <1>5
  DEF WatchdogInv, RecoveryOwnsRecovering, RecoveryActive, RestartJustified

\* A check after the deadline: the recovery ends and gives the state back, or
\* its streaks have grown with the evidence.
LEMMA ConfirmCyclePreserves ==
    ASSUME WatchdogInv, NEW obs \in Observations, ConfirmCycle(obs), MachineInv'
    PROVE  WatchdogInv'
<1>1. /\ observed = {obs} /\ observed' = {} /\ in_flight' = in_flight
      /\ RecoveryActive /\ state = "RECOVERING"
      /\ wait_left = 0 /\ wait_left' = 0
      /\ progress \in Progress
      /\ PublishStatus
      /\ UNCHANGED <<now, restartVars, database_healthy_streak, executed, early>>
  BY DEF ConfirmCycle, CountCheck, WatchdogInv, WatchdogTypeOK, RecoveryOwnsRecovering
<1>2. in_flight' = {} /\ EarlyInv' /\ StreakIsFresh'
  BY <1>1 DEF WatchdogInv, ProgressIsEvidence, EarlyInv, StreakIsFresh
<1>3. NoRecovery \in Progress
  BY StreakCapCoversCounts DEF NoRecovery, Progress
\* The two ways such a check may go.
<1>4. \/ /\ progress' = NoRecovery
         /\ state' \in {"HEALTHY", "MANUAL_INTERVENTION_REQUIRED"}
         /\ recovery_status' \in {"recovered", "manual_intervention_required"}
         /\ events' \subseteq Event
      \/ /\ progress' \in Progress
         /\ progress'.trigger_state = progress.trigger_state
         /\ state' = state
         /\ recovery_status' = "confirming_recovery"
         /\ events' = {}
         /\ progress'.failure_streak <= evidence'.failing
         /\ progress'.healthy_streak > 0 =>
                /\ evidence'.verdict = "HEALTHY"
                /\ progress'.healthy_streak <= evidence'.count
                /\ progress'.failure_streak = 0
  <2>1. evidence'.failing \in Nat
    BY ConfirmCounts DEF Evidence
  <2>2. CASE Evaluate(obs).inconclusive
    <3>1. KeepConfirming(progress) /\ ProgressIsEvidence /\ RecoveryActive
      BY <1>1, <2>2, ConfirmCounts DEF WatchdogInv
    <3>2. /\ evidence'.verdict = evidence.verdict
          /\ evidence'.count = evidence.count
          /\ evidence'.failing = evidence.failing
      BY <2>2, ConfirmCounts
    <3>. QED
      BY <1>1, <3>1, <3>2 DEF KeepConfirming, HoldState, ProgressIsEvidence
  <2>3. CASE ~Evaluate(obs).inconclusive /\ Evaluate(obs).state = "HEALTHY"
    <3>1. \/ Finish("HEALTHY", "recovered", "recovered")
          \/ KeepConfirming(HealthyCheck(progress))
      BY <2>3 DEF ConfirmCycle, CountCheck
    <3>2. /\ HealthyCheck(progress) \in Progress
          /\ HealthyCheck(progress).trigger_state = progress.trigger_state
          /\ HealthyCheck(progress).failure_streak = 0
          /\ HealthyCheck(progress).healthy_streak <= evidence'.count
          /\ evidence'.verdict = "HEALTHY"
      BY <1>1, <2>3, ChecksCount, ConfirmCounts
    <3>. QED
      BY <2>1, <3>1, <3>2 DEF Finish, KeepConfirming, HoldState, ForceState, Event
  <2>4. CASE ~Evaluate(obs).inconclusive /\ Evaluate(obs).state # "HEALTHY"
    <3>1. \/ Finish("MANUAL_INTERVENTION_REQUIRED", "manual_intervention_required",
                    "manual_intervention_required")
          \/ KeepConfirming(FailedCheck(progress))
      BY <2>4 DEF ConfirmCycle, CountCheck
    <3>2. /\ FailedCheck(progress) \in Progress
          /\ FailedCheck(progress).trigger_state = progress.trigger_state
          /\ FailedCheck(progress).healthy_streak = 0
          /\ FailedCheck(progress).failure_streak <= evidence'.failing
      BY <1>1, <2>4, ChecksCount, ConfirmCounts
    <3>. QED
      BY <3>1, <3>2 DEF Finish, KeepConfirming, HoldState, ForceState, Event
  <2>. QED
    BY <2>2, <2>3, <2>4
<1>5. WatchdogTypeOK'
  <2>1. MachineTypeOK' /\ HistoryTypeOK'
    BY <1>1 DEF MachineInv, WatchdogInv, WatchdogTypeOK, HistoryTypeOK, restartVars
  <2>2. /\ progress' \in Progress
        /\ recovery_status' \in RecoveryStatus
        /\ events' \subseteq Event
    BY <1>3, <1>4 DEF RecoveryStatus
  <2>3. published' \in [state : State \cup {None}, recovery_status : RecoveryStatus]
    BY <1>1, <2>1, <2>2 DEF PublishStatus, MachineTypeOK
  <2>. QED
    BY <1>1, <1>2, <2>1, <2>2, <2>3 DEF WatchdogInv, WatchdogTypeOK
<1>6. RecoveryOwnsRecovering'
  BY <1>1, <1>2, <1>4 DEF RecoveryOwnsRecovering, RecoveryActive, NoRecovery
<1>7. ProgressIsEvidence'
  BY <1>1, <1>2, <1>4 DEF ProgressIsEvidence, RecoveryActive, NoRecovery, EarlyInv
<1>. QED
  BY <1>1, <1>2, <1>5, <1>6, <1>7 DEF WatchdogInv, RestartJustified

\* A restart that is known to have happened begins a recovery with nothing
\* counted yet.
LEMMA SuccessPreserves ==
    ASSUME WatchdogInv, NEW saved \in BOOLEAN, RestartSucceeds(saved), MachineInv'
    PROVE  WatchdogInv'
<1>1. state \in RESTART_ALLOWED_STATES
  BY DEF WatchdogInv, RestartJustified, RestartSucceeds
<1>2. progress' = [trigger_state |-> state, healthy_streak |-> 0, failure_streak |-> 0]
  BY DEF RestartSucceeds, NoRecovery
<1>3. /\ in_flight' = {} /\ now' = now
      /\ state' = "RECOVERING" /\ evidence' = NoEvidence
      /\ recovery_status' = "waiting_after_restart"
      /\ wait_left' = POST_RESTART_WAIT_SECONDS
      /\ events' = {"restart_executed"}
      /\ executed' = executed \cup {now}
      /\ published' = [state |-> "RECOVERING",
                       recovery_status |-> "waiting_after_restart"]
      /\ database_healthy_streak' = database_healthy_streak
      /\ observed' = observed /\ early' = 0
  BY DEF RestartSucceeds, ForceState, PublishStatus
<1>4. HistoryTypeOK'
  <2>1. /\ history' = Prune(history \cup {now})
        /\ last_restart' = {now}
        /\ disk' = history' \/ disk' = disk
    BY DEF RestartSucceeds, Record
  <2>2. /\ now \in Nat /\ history \in SUBSET Nat /\ disk \in SUBSET Nat
        /\ IsFiniteSet(history) /\ IsFiniteSet(disk)
    BY DEF WatchdogInv, WatchdogTypeOK, HistoryTypeOK
  <2>3. IsFiniteSet(history \cup {now})
    BY <2>2, FS_AddElement
  <2>4. history' \subseteq history \cup {now}
    BY <2>1 DEF Prune
  <2>5. now \in history'
    BY <2>1, <2>2, RestartConstants DEF Prune
  <2>6. IsFiniteSet(history')
    BY <2>3, <2>4, FS_Subset
  <2>. QED
    BY <1>3, <2>1, <2>2, <2>4, <2>5, <2>6 DEF HistoryTypeOK
<1>5. WatchdogTypeOK'
  <2>1. progress' \in Progress
    BY <1>1, <1>2, StreakCapCoversCounts DEF Progress
  <2>2. executed' \in SUBSET Nat /\ wait_left' \in 0..POST_RESTART_WAIT_SECONDS
    BY <1>3, WaitAndTime DEF WatchdogInv, WatchdogTypeOK
  <2>3. published' \in [state : State \cup {None}, recovery_status : RecoveryStatus]
    BY <1>3 DEF State, RecoveryStatus
  <2>4. MachineTypeOK'
    BY DEF MachineInv
  <2>. QED
    BY <1>3, <1>4, <2>1, <2>2, <2>3, <2>4
    DEF WatchdogInv, WatchdogTypeOK, RecoveryStatus, Event
<1>6. RecoveryOwnsRecovering'
  BY <1>1, <1>2, <1>3, NoneIsNoState DEF RecoveryOwnsRecovering, RecoveryActive
<1>7. ProgressIsEvidence' /\ EarlyInv'
  BY <1>1, <1>2, <1>3, NoneIsNoState
  DEF ProgressIsEvidence, NoEvidence, EarlyInv, RecoveryActive
<1>8. StreakIsFresh'
  BY <1>3 DEF WatchdogInv, StreakIsFresh
<1>. QED
  BY <1>3, <1>5, <1>6, <1>7, <1>8 DEF WatchdogInv, RestartJustified

\* A restart that is not known to have happened begins none.
LEMMA FailurePreserves ==
    ASSUME WatchdogInv, RestartFails, MachineInv'
    PROVE  WatchdogInv'
<1>1. /\ in_flight # {} /\ in_flight' = {}
      /\ progress' = progress /\ wait_left' = wait_left
      /\ state' = "MANUAL_INTERVENTION_REQUIRED"
      /\ recovery_status' = "manual_intervention_required"
      /\ published' = [state |-> "MANUAL_INTERVENTION_REQUIRED",
                       recovery_status |-> "manual_intervention_required"]
      /\ events' \subseteq Event
      /\ UNCHANGED <<now, restartVars, observed, database_healthy_streak, early>>
  BY AlertType DEF RestartFails, ForceState, PublishStatus, Event
<1>2. executed' = executed \/ executed' = executed \cup {now}
  BY DEF RestartFails, TookEffect
<1>3. ~RecoveryActive
  BY <1>1 DEF WatchdogInv, RecoveryOwnsRecovering
<1>4. WatchdogTypeOK'
  <2>1. MachineTypeOK' /\ HistoryTypeOK'
    BY <1>1 DEF MachineInv, WatchdogInv, WatchdogTypeOK, HistoryTypeOK, restartVars
  <2>2. published' \in [state : State \cup {None}, recovery_status : RecoveryStatus]
    BY <1>1 DEF State, RecoveryStatus
  <2>3. executed' \in SUBSET Nat
    BY <1>2 DEF WatchdogInv, WatchdogTypeOK, HistoryTypeOK
  <2>. QED
    BY <1>1, <2>1, <2>2, <2>3 DEF WatchdogInv, WatchdogTypeOK, Progress, RecoveryStatus
<1>. QED
  BY <1>1, <1>3, <1>4
  DEF WatchdogInv, RecoveryOwnsRecovering, RecoveryActive, RestartJustified,
      ProgressIsEvidence, EarlyInv, StreakIsFresh

\* A new watchdog has concluded nothing, restarts nothing and recovers nothing.
LEMMA RecreatePreserves ==
    ASSUME WatchdogInv, NEW loaded \in SUBSET disk, Recreate(loaded), MachineInv'
    PROVE  WatchdogInv'
<1>1. /\ observed' = {} /\ in_flight' = {} /\ progress' = NoRecovery
      /\ wait_left' = 0 /\ early' = 0
      /\ state' = "STARTING" /\ evidence' = NoEvidence
      /\ recovery_status' = "idle"
      /\ database_healthy_streak' = 0 /\ events' = {}
      /\ now' = now /\ published' = published
  BY DEF Recreate, RecreateMachine
<1>2. executed' = executed \/ executed' = executed \cup {now}
  BY DEF Recreate, TookEffect
<1>3. HistoryTypeOK'
  <2>1. /\ history' = loaded /\ disk' = disk
        /\ last_restart' = {at \in loaded : \A other \in loaded : other <= at}
    BY DEF Recreate, Load
  <2>2. now \in Nat /\ disk \in SUBSET Nat /\ IsFiniteSet(disk)
    BY DEF WatchdogInv, WatchdogTypeOK, HistoryTypeOK
  <2>3. IsFiniteSet(loaded)
    BY <2>2, FS_Subset
  <2>. QED
    BY <1>1, <2>1, <2>2, <2>3 DEF HistoryTypeOK
<1>4. NoRecovery \in Progress /\ ~RecoveryActive'
  BY <1>1, StreakCapCoversCounts DEF NoRecovery, Progress, RecoveryActive
<1>5. WatchdogTypeOK'
  <2>1. executed' \in SUBSET Nat
    BY <1>2 DEF WatchdogInv, WatchdogTypeOK, HistoryTypeOK
  <2>2. MachineTypeOK'
    BY DEF MachineInv
  <2>3. wait_left' \in 0..POST_RESTART_WAIT_SECONDS
        /\ database_healthy_streak' \in 0..DATABASE_CONFIRMATION_COUNT
    BY <1>1, WaitAndTime, RestartConstants
  <2>. QED
    BY <1>1, <1>3, <1>4, <2>1, <2>2, <2>3
    DEF WatchdogInv, WatchdogTypeOK, RecoveryStatus
<1>. QED
  BY <1>1, <1>4, <1>5
  DEF WatchdogInv, RecoveryOwnsRecovering, RestartJustified, ProgressIsEvidence,
      EarlyInv, StreakIsFresh

\* Time only brings a deadline closer, and the wall clock bears on nothing but
\* the guard.
LEMMA TimePreserves ==
    ASSUME WatchdogInv, Tick \/ ClockStep \/ UNCHANGED vars, MachineInv'
    PROVE  WatchdogInv'
<1>1. /\ UNCHANGED <<machineVars, restartVars, observed, in_flight, progress,
                     recovery_status, database_healthy_streak, events, published,
                     executed, early>>
      /\ wait_left' = wait_left \/ wait_left' = IF wait_left > 0 THEN wait_left - 1 ELSE 0
      /\ \/ now' = now
         \/ now' = IF now < MaxTime THEN now + 1 ELSE now
         \/ now' \in 0..(now - 1)
  BY DEF Tick, ClockStep, recoveryVars, vars
<1>2. now \in 0..MaxTime /\ wait_left \in 0..POST_RESTART_WAIT_SECONDS
  BY DEF WatchdogInv, WatchdogTypeOK
<1>3. now' \in 0..MaxTime /\ now' \in Nat
  BY <1>1, <1>2, WaitAndTime
<1>4. /\ wait_left' \in 0..POST_RESTART_WAIT_SECONDS
      /\ wait_left' > 0 => wait_left > 0
  BY <1>1, <1>2, WaitAndTime
<1>5. UNCHANGED <<state, evidence, history, last_restart, disk>>
  BY <1>1 DEF machineVars, restartVars
<1>6. WatchdogTypeOK'
  <2>1. MachineTypeOK' /\ HistoryTypeOK'
    BY <1>3, <1>5 DEF MachineInv, WatchdogInv, WatchdogTypeOK, HistoryTypeOK
  <2>. QED
    BY <1>1, <1>3, <1>4, <2>1 DEF WatchdogInv, WatchdogTypeOK, Progress
<1>7. RecoveryOwnsRecovering' /\ RestartJustified'
  BY <1>1, <1>5
  DEF WatchdogInv, RecoveryOwnsRecovering, RecoveryActive, RestartJustified, Confirmed
<1>8. ProgressIsEvidence'
  BY <1>1, <1>4, <1>5 DEF WatchdogInv, ProgressIsEvidence, RecoveryActive
<1>9. EarlyInv' /\ StreakIsFresh'
  BY <1>1, <1>4 DEF WatchdogInv, EarlyInv, StreakIsFresh, RecoveryActive
<1>. QED
  BY <1>6, <1>7, <1>8, <1>9 DEF WatchdogInv

-----------------------------------------------------------------------------
(* The theorems.                                                           *)

\* A first watchdog, with no history.
LEMMA InitInv == Init => WatchdogInv
<1>. SUFFICES ASSUME Init PROVE WatchdogInv
  OBVIOUS
<1>1. /\ state = "STARTING" /\ candidate = None /\ candidate_streak = 0
      /\ healthy_streak = 0 /\ evidence = NoEvidence
      /\ NoEvidence \in Evidence /\ NoRecovery \in Progress
  BY StreakCapCoversCounts
  DEF Init, InitMachine, NoEvidence, Evidence, NoRecovery, Progress
<1>2. MachineInv
  BY <1>1, StreakCapCoversCounts
  DEF NoEvidence, MachineInv, MachineTypeOK, State, StreaksAreEvidence,
      ConfirmedIsAnnounced, BeingCounted, NothingImmediateFromNothing, Confirmed
<1>3. HistoryTypeOK
  BY FS_EmptySet DEF Init, InitHistory, HistoryTypeOK
<1>4. WatchdogTypeOK
  <2>1. /\ now \in 0..MaxTime
        /\ wait_left \in 0..POST_RESTART_WAIT_SECONDS
        /\ database_healthy_streak \in 0..DATABASE_CONFIRMATION_COUNT
    BY WaitAndTime, RestartConstants DEF Init
  <2>. QED
    BY <1>1, <1>2, <1>3, <2>1 DEF Init, MachineInv, WatchdogTypeOK, RecoveryStatus
<1>. QED
  BY <1>1, <1>2, <1>4
  DEF Init, WatchdogInv, RecoveryOwnsRecovering, RecoveryActive, NoRecovery,
      RestartJustified, ProgressIsEvidence, EarlyInv, StreakIsFresh

\* One case per kind of step.
LEMMA NextPreserves == WatchdogInv /\ [Next]_vars => WatchdogInv'
<1>. SUFFICES ASSUME WatchdogInv, [Next]_vars PROVE WatchdogInv'
  OBVIOUS
<1>. MachineInv' /\ ChangesConfirmed
  BY MachineKept
<1>1. CASE CheckOnce
  <2>1. observed \subseteq Observations
    BY DEF WatchdogInv, WatchdogTypeOK
  <2>. QED
    BY <1>1, <2>1, ObservePreserves, CyclePreserves, WaitPreserves,
       ConfirmCyclePreserves DEF CheckOnce
<1>2. CASE RestartReturns
  BY <1>2, SuccessPreserves, FailurePreserves DEF RestartReturns
<1>3. CASE \E loaded \in SUBSET disk : Recreate(loaded)
  BY <1>3, RecreatePreserves
<1>4. CASE Tick \/ ClockStep \/ UNCHANGED vars
  BY <1>4, TimePreserves
<1>. QED
  BY <1>1, <1>2, <1>3, <1>4 DEF Next

\* The invariant holds in every reachable state of the watchdog.
THEOREM WatchdogInvariant == Spec => []WatchdogInv
BY InitInv, NextPreserves, PTL DEF Spec

\* The loop, the controller, the guard and the history keep their types.
THEOREM WatchdogTypeCorrect == Spec => []WatchdogTypeOK
<1>1. WatchdogInv => WatchdogTypeOK
  BY DEF WatchdogInv
<1>. QED
  BY <1>1, WatchdogInvariant, PTL

\* RECOVERING is announced exactly while the recovery controller will end it.
THEOREM RecoveryIsOwned == Spec => []RecoveryOwnsRecovering
<1>1. WatchdogInv => RecoveryOwnsRecovering
  BY DEF WatchdogInv
<1>. QED
  BY <1>1, WatchdogInvariant, PTL

\* No restart is ever issued but for a restartable failure that this very check
\* saw and confirmed, while the database was healthy.
THEOREM RestartsAreJustified == Spec => []RestartJustified
<1>1. WatchdogInv => RestartJustified
  BY DEF WatchdogInv
<1>. QED
  BY <1>1, WatchdogInvariant, PTL

\* A restart never answers tokens that Tesla refuses: where the log shows it,
\* only a sign-in page or a TeslaMate that does not answer, seen by the same
\* check, is restarted for.
RefusedTokensAreNoCause ==
    \A obs \in in_flight :
        obs.log_signals \cap AuthSignals # {} =>
            \/ state = "LOGGED_OUT" /\ obs.http = "logged_out"
            \/ /\ state = "TESLAMATE_UNREACHABLE"
               /\ \/ obs.teslamate_container_running = "false"
                  \/ obs.http \in {"unreachable", "application_error"}

\* It follows from the cause of every restart and the order of evaluate().
THEOREM RefusedTokensNeverRestart == Spec => []RefusedTokensAreNoCause
<1>1. WatchdogInv => RefusedTokensAreNoCause
  <2>. SUFFICES ASSUME WatchdogInv, NEW obs \in in_flight,
                       obs.log_signals \cap AuthSignals # {}
                PROVE  \/ state = "LOGGED_OUT" /\ obs.http = "logged_out"
                       \/ /\ state = "TESLAMATE_UNREACHABLE"
                          /\ \/ obs.teslamate_container_running = "false"
                             \/ obs.http \in {"unreachable", "application_error"}
    BY DEF RefusedTokensAreNoCause
  <2>1. obs \in Observation
    BY ObservationsAreObservations DEF WatchdogInv, WatchdogTypeOK
  <2>2. state = Evaluate(obs).state /\ state \in RESTART_ALLOWED_STATES
    BY DEF WatchdogInv, RestartJustified
  <2>3. state \in {"LOGGED_OUT", "TESLAMATE_UNREACHABLE", "LOGGER_UNHEALTHY"}
    BY <2>2 DEF RESTART_ALLOWED_STATES
  <2>. QED
    BY <2>1, <2>2, <2>3, RestartableHasCause
<1>. QED
  BY <1>1, WatchdogInvariant, PTL

\* The streaks that end a recovery count checks begun after the restart and, but
\* for one, after the time to settle: the deadline is compared when a check has
\* been made, and a check that was dropped is not counted later.
THEOREM OutcomesAreEvidence == Spec => []ProgressIsEvidence
<1>1. WatchdogInv => ProgressIsEvidence
  BY DEF WatchdogInv
<1>. QED
  BY <1>1, WatchdogInvariant, PTL

\* Whatever way a cycle takes, it leaves the retained topics up to date.
THEOREM RetainedTopicsCorrect == Spec => []RetainedTopicsAreCurrent
<1>1. Init => RetainedTopicsAreCurrent
  BY DEF Init, InitMachine, RetainedTopicsAreCurrent
<1>2. RetainedTopicsAreCurrent /\ [Next]_vars => RetainedTopicsAreCurrent'
  <2>. SUFFICES ASSUME RetainedTopicsAreCurrent, [Next]_vars
                PROVE  RetainedTopicsAreCurrent'
    OBVIOUS
  <2>1. ASSUME NEW obs \in observed, NEW reachable \in BOOLEAN,
               Cycle(obs, reachable)
        PROVE  RetainedTopicsAreCurrent'
    <3>1. in_flight' = {obs} \/ PublishStatus
      BY <2>1 DEF Cycle, OnTransition
    <3>. QED
      BY <3>1 DEF PublishStatus, RetainedTopicsAreCurrent
  <2>2. ASSUME PublishStatus PROVE RetainedTopicsAreCurrent'
    BY <2>2 DEF PublishStatus, RetainedTopicsAreCurrent
  <2>3. CASE \E loaded \in SUBSET disk : Recreate(loaded)
    BY <2>3 DEF Recreate, RecreateMachine, RetainedTopicsAreCurrent
  <2>4. CASE Tick \/ ClockStep \/ UNCHANGED vars
    BY <2>4
    DEF Tick, ClockStep, vars, machineVars, recoveryVars, RetainedTopicsAreCurrent
  <2>5. ASSUME NEW obs \in Observations, Observe(obs)
        PROVE  RetainedTopicsAreCurrent'
    BY <2>5 DEF Observe, machineVars, recoveryVars, RetainedTopicsAreCurrent
  <2>. QED
    BY <2>1, <2>2, <2>3, <2>4, <2>5
    DEF Next, CheckOnce, WaitCycle, ConfirmCycle, CountCheck, RestartReturns,
        RestartSucceeds, RestartFails
<1>. QED
  BY <1>1, <1>2, PTL DEF Spec

\* The watchdog implements the specification of its state machine, so every
\* theorem about that one holds of the watchdog.
THEOREM WatchdogImplementsStateMachine == Spec => ImplementsStateMachine
<1>1. Init => MachineInit
  BY DEF Init, MachineInit
<1>. QED
  BY <1>1, MachineStep, WatchdogInvariant, PTL
  DEF Spec, MachineSpec, ImplementsStateMachine
-----------------------------------------------------------------------------
(* The switches of the restart policy. Each is read in one guard, and what *)
(* the user expects of it is about everything that follows that guard.     *)

\* The watchdog watches and reports, and touches nothing.
OnlyMonitors ==
    /\ in_flight = {} /\ executed = {} /\ ~RecoveryActive
    /\ state \notin {"RECOVERING", "MANUAL_INTERVENTION_REQUIRED"}

\* A check reaches no state but those an observation leads to.
LEMMA ChecksReachVerdicts ==
    ASSUME NEW obs \in Observations, NEW reachable \in BOOLEAN, Cycle(obs, reachable)
    PROVE  state' = state \/ state' \in Verdict
<1>1. Evaluate(obs).state \in Verdict
  BY EvaluateType DEF Evaluation
<1>. QED
  BY <1>1
  DEF Cycle, StepMachine, HoldState, ObserveHealthy, ObserveFailure, Verdict

\* AUTO_RESTART_ENABLED=false monitors without ever restarting, and so does a
\* cap of no restarts: no call is made, no recovery is announced and nobody is
\* ever told that a recovery has failed.
THEOREM SwitchedOffOnlyMonitors ==
    ASSUME ~AUTO_RESTART_ENABLED \/ MAX_RESTARTS_PER_24_HOURS = 0
    PROVE  Spec => []OnlyMonitors
<1>1. Init => OnlyMonitors
  BY DEF Init, InitMachine, OnlyMonitors, RecoveryActive, NoRecovery
<1>2. WatchdogInv /\ OnlyMonitors /\ [Next]_vars => OnlyMonitors'
  <2>. SUFFICES ASSUME WatchdogInv, OnlyMonitors, [Next]_vars PROVE OnlyMonitors'
    OBVIOUS
  <2>1. ~(AUTO_RESTART_ENABLED /\ RestartsIn24h < MAX_RESTARTS_PER_24_HOURS)
    <3>1. IsFiniteSet({at \in history : at >= now - SECONDS_PER_DAY})
      BY FS_Subset DEF WatchdogInv, WatchdogTypeOK, HistoryTypeOK
    <3>2. RestartsIn24h \in Nat
      BY <3>1, FS_CardinalityType DEF RestartsIn24h
    <3>. QED
      BY <3>2
  <2>. observed \subseteq Observations
    BY DEF WatchdogInv, WatchdogTypeOK
  <2>2. ASSUME NEW obs \in observed, NEW reachable \in BOOLEAN,
               Cycle(obs, reachable)
        PROVE  OnlyMonitors'
    <3>1. in_flight' = {}
      BY <2>1, <2>2 DEF Cycle, OnTransition, RestartAllowed
    <3>2. state' \notin {"RECOVERING", "MANUAL_INTERVENTION_REQUIRED"}
      BY <2>2, ChecksReachVerdicts DEF OnlyMonitors, Verdict
    <3>. QED
      BY <2>2, <3>1, <3>2 DEF Cycle, OnlyMonitors, RecoveryActive
  <2>3. CASE \E loaded \in SUBSET disk : Recreate(loaded)
    BY <2>3
    DEF Recreate, RecreateMachine, OnlyMonitors, RecoveryActive, NoRecovery
  <2>4. CASE Tick \/ ClockStep \/ UNCHANGED vars
    BY <2>4
    DEF Tick, ClockStep, vars, machineVars, recoveryVars, OnlyMonitors, RecoveryActive
  <2>5. ASSUME NEW obs \in Observations, Observe(obs) PROVE OnlyMonitors'
    BY <2>5 DEF Observe, machineVars, recoveryVars, OnlyMonitors, RecoveryActive
  <2>. QED
    BY <2>2, <2>3, <2>4, <2>5
    DEF Next, CheckOnce, WaitCycle, ConfirmCycle, RestartReturns, RestartFails,
        RestartSucceeds, OnlyMonitors
<1>. QED
  BY <1>1, <1>2, WatchdogInvariant, PTL DEF Spec

\* A logout is neither being answered with a restart nor has been.
LogoutLeftAlone ==
    /\ in_flight # {} => state # "LOGGED_OUT"
    /\ progress.trigger_state # "LOGGED_OUT"

\* LOGGED_OUT_RESTART_ENABLED=false goes back to never restarting on logout,
\* whatever Tesla's auth host answers.
THEOREM SwitchedOffLeavesLogout ==
    ASSUME ~LOGGED_OUT_RESTART_ENABLED
    PROVE  Spec => []LogoutLeftAlone
<1>1. Init => LogoutLeftAlone
  BY DEF Init, LogoutLeftAlone, NoRecovery, None
<1>2. WatchdogInv /\ LogoutLeftAlone /\ [Next]_vars => LogoutLeftAlone'
  <2>. SUFFICES ASSUME WatchdogInv, LogoutLeftAlone, [Next]_vars
                PROVE  LogoutLeftAlone'
    OBVIOUS
  <2>. observed \subseteq Observations
    BY DEF WatchdogInv, WatchdogTypeOK
  <2>1. ASSUME NEW obs \in observed, NEW reachable \in BOOLEAN,
               Cycle(obs, reachable)
        PROVE  LogoutLeftAlone'
    BY <2>1
    DEF Cycle, OnTransition, RestartAllowed, RESTART_NEEDS_TESLA_AUTH, LogoutLeftAlone
  <2>2. ASSUME NEW obs \in observed, ConfirmCycle(obs) PROVE LogoutLeftAlone'
    <3>1. /\ HealthyCheck(progress).trigger_state = progress.trigger_state
          /\ FailedCheck(progress).trigger_state = progress.trigger_state
      BY ChecksCount DEF WatchdogInv, WatchdogTypeOK
    <3>2. progress'.trigger_state \in {progress.trigger_state, None}
      BY <2>2, <3>1 DEF ConfirmCycle, CountCheck, KeepConfirming, Finish, NoRecovery
    <3>3. in_flight' = {}
      BY <2>2 DEF ConfirmCycle, WatchdogInv, ProgressIsEvidence
    <3>. QED
      BY <3>2, <3>3 DEF LogoutLeftAlone, None
  <2>3. CASE \E saved \in BOOLEAN : RestartSucceeds(saved)
    BY <2>3 DEF RestartSucceeds, NoRecovery, LogoutLeftAlone
  <2>4. CASE RestartFails
    BY <2>4 DEF RestartFails, LogoutLeftAlone
  <2>5. CASE \E loaded \in SUBSET disk : Recreate(loaded)
    BY <2>5 DEF Recreate, NoRecovery, None, LogoutLeftAlone
  <2>6. CASE Tick \/ ClockStep \/ UNCHANGED vars
    BY <2>6 DEF Tick, ClockStep, vars, machineVars, recoveryVars, LogoutLeftAlone
  <2>7. ASSUME NEW obs \in Observations, Observe(obs) PROVE LogoutLeftAlone'
    BY <2>7 DEF Observe, machineVars, recoveryVars, LogoutLeftAlone
  <2>8. ASSUME NEW obs \in observed, WaitCycle(obs) PROVE LogoutLeftAlone'
    BY <2>8 DEF WaitCycle, WatchdogInv, ProgressIsEvidence, LogoutLeftAlone
  <2>. QED
    BY <2>1, <2>2, <2>3, <2>4, <2>5, <2>6, <2>7, <2>8
    DEF Next, CheckOnce, RestartReturns
<1>. QED
  BY <1>1, <1>2, WatchdogInvariant, PTL DEF Spec
=============================================================================
