---------------------------- MODULE StateMachine ----------------------------
(***************************************************************************)
(* src/src/state_machine.py: the confirmation-counting state machine.      *)
(*                                                                         *)
(* A check cycle feeds one observation to step(); a verdict becomes the    *)
(* state once it was reached by enough checks in a row. While a restart is *)
(* being confirmed the state is held at RECOVERING, and the recovery       *)
(* controller leaves it through force_state().                             *)
(*                                                                         *)
(* MachineSpec is what the rest of the watchdog relies on: it lets the     *)
(* recovery controller force the state at the moments recovery.py does,    *)
(* and module Watchdog is shown to implement it.                           *)
(***************************************************************************)
EXTENDS States, Naturals

CONSTANTS
    FAILURE_CONFIRMATION_COUNT,
    RECOVERY_CONFIRMATION_COUNT,
    LOGGER_UNHEALTHY_CONFIRMATION_COUNT,
    StreakCap,      \* where the model stops counting; see Bump
    Observations    \* the observations a check can make

\* config.validate() rejects counts below 1.
ASSUME ConfirmationCounts ==
    /\ FAILURE_CONFIRMATION_COUNT \in Nat \ {0}
    /\ RECOVERY_CONFIRMATION_COUNT \in Nat \ {0}
    /\ LOGGER_UNHEALTHY_CONFIRMATION_COUNT \in Nat \ {0}

ASSUME StreakCapCoversCounts ==
    /\ StreakCap \in Nat
    /\ StreakCap >= FAILURE_CONFIRMATION_COUNT
    /\ StreakCap >= RECOVERY_CONFIRMATION_COUNT
    /\ StreakCap >= LOGGER_UNHEALTHY_CONFIRMATION_COUNT

ASSUME ObservationsAreObservations == Observations \subseteq Observation

VARIABLES
    state,              \* StateMachine.state
    candidate,          \* _candidate
    candidate_streak,   \* _candidate_streak
    healthy_streak,     \* _healthy_streak
    evidence            \* history variable, see NoteVerdict

machineVars ==
    <<state, candidate, candidate_streak, healthy_streak, evidence>>

-----------------------------------------------------------------------------
(* Counting.                                                               *)

\* n + 1, saturating. The counters are only ever compared with thresholds of
\* at most StreakCap, so nothing the code decides tells the two apart.
Bump(n) == IF n < StreakCap THEN n + 1 ELSE n

\* The checks in a row a verdict needs before it becomes the state.
Confirmations(verdict) ==
    CASE verdict = "HEALTHY"          -> RECOVERY_CONFIRMATION_COUNT
      [] verdict = "LOGGER_UNHEALTHY" -> LOGGER_UNHEALTHY_CONFIRMATION_COUNT
      [] OTHER                        -> FAILURE_CONFIRMATION_COUNT

-----------------------------------------------------------------------------
(* The evidence: not a variable of the code, but what its counters are     *)
(* meant to stand for. It records, over the checks whose verdict counts,   *)
(* the current run of equal verdicts and the current run of failing ones.  *)
(* Inconclusive checks neither extend a run nor end it.                    *)

Evidence == [verdict : Verdict \cup {None}, count : 0..StreakCap,
             failing : 0..StreakCap, immediate : BOOLEAN]

NoEvidence == [verdict |-> None, count |-> 0, failing |-> 0, immediate |-> FALSE]

NoteVerdict(ev) ==
    evidence' =
        IF ev.inconclusive THEN [evidence EXCEPT !.immediate = FALSE]
        ELSE [verdict   |-> ev.state,
              count     |-> IF ev.state = evidence.verdict
                            THEN Bump(evidence.count) ELSE 1,
              failing   |-> IF ev.state = "HEALTHY"
                            THEN 0 ELSE Bump(evidence.failing),
              immediate |-> ev.immediate]

Confirmed(e) ==
    e.immediate \/ (e.verdict # None /\ e.count >= Confirmations(e.verdict))

-----------------------------------------------------------------------------
(* The operations of the state machine.                                    *)

ForceState(s) ==
    /\ state' = s
    /\ candidate' = None
    /\ candidate_streak' = 0
    /\ healthy_streak' = 0

\* Variant: a healthy check that forgets to clear the failure candidate.
ObserveHealthyKeepingCandidate ==
    /\ healthy_streak' = Bump(healthy_streak)
    /\ UNCHANGED <<candidate, candidate_streak>>
    /\ state' = IF healthy_streak' >= RECOVERY_CONFIRMATION_COUNT
                THEN "HEALTHY" ELSE state

ObserveHealthy ==
    /\ healthy_streak' = Bump(healthy_streak)
    /\ candidate' = None
    /\ candidate_streak' = 0
    /\ state' = IF healthy_streak' >= RECOVERY_CONFIRMATION_COUNT
                THEN "HEALTHY" ELSE state

\* Variant: the healthy streak survives a failing check.
ObserveFailureKeepingHealthy(ev) ==
    /\ UNCHANGED healthy_streak
    /\ candidate' = ev.state
    /\ candidate_streak' =
           IF ev.state = candidate THEN Bump(candidate_streak) ELSE 1
    /\ state' = IF ev.immediate \/ candidate_streak' >= Confirmations(ev.state)
                THEN ev.state ELSE state

\* Variant: one check more than configured.
ObserveFailureLate(ev) ==
    /\ healthy_streak' = 0
    /\ candidate' = ev.state
    /\ candidate_streak' =
           IF ev.state = candidate THEN Bump(candidate_streak) ELSE 1
    /\ state' = IF ev.immediate \/ candidate_streak' > Confirmations(ev.state)
                THEN ev.state ELSE state

\* Variant: the streak is counted for the current state, not the verdict.
ObserveFailureOfState(ev) ==
    /\ healthy_streak' = 0
    /\ candidate' = state
    /\ candidate_streak' = Bump(candidate_streak)
    /\ state' = IF ev.immediate \/ candidate_streak' >= Confirmations(ev.state)
                THEN ev.state ELSE state

ObserveFailure(ev) ==
    /\ healthy_streak' = 0
    /\ candidate' = ev.state
    /\ candidate_streak' =
           IF ev.state = candidate THEN Bump(candidate_streak) ELSE 1
    /\ state' = IF ev.immediate \/ candidate_streak' >= Confirmations(ev.state)
                THEN ev.state ELSE state

HoldState ==
    UNCHANGED <<state, candidate, candidate_streak, healthy_streak>>

\* step(): ordinary checks do not move a state the recovery controller holds.
StepMachine(obs) ==
    LET ev == Evaluate(obs)
    IN  /\ NoteVerdict(ev)
        /\ \/ (state = "RECOVERING" \/ ev.inconclusive) /\ HoldState
           \/ /\ state # "RECOVERING"
              /\ ~ev.inconclusive
              /\ \/ ev.state = "HEALTHY" /\ ObserveHealthy
                 \/ ev.state # "HEALTHY" /\ ObserveFailure(ev)

InitMachine ==
    /\ state = "STARTING"
    /\ candidate = None
    /\ candidate_streak = 0
    /\ healthy_streak = 0
    /\ evidence = NoEvidence

-----------------------------------------------------------------------------
(* The state machine and the moments at which its owner forces the state.  *)

\* A check while no recovery is in progress.
Check(obs) == state # "RECOVERING" /\ StepMachine(obs)

\* begin(): the restart succeeded (RECOVERING) or failed (MANUAL). What was
\* seen before it says nothing about the restarted TeslaMate.
LeaveForRecovery ==
    /\ state \in RESTART_ALLOWED_STATES
    /\ \/ ForceState("RECOVERING")
       \/ ForceState("MANUAL_INTERVENTION_REQUIRED")
    /\ evidence' = NoEvidence

\* A check before the restarted container is given time to settle.
Settle ==
    /\ state = "RECOVERING"
    /\ HoldState
    /\ evidence' = NoEvidence

\* A check after it: the recovery goes on, or ends.
Confirm(obs) ==
    /\ state = "RECOVERING"
    /\ NoteVerdict(Evaluate(obs))
    /\ \/ HoldState
       \/ /\ evidence'.verdict = "HEALTHY"
          /\ evidence'.count >= RECOVERY_CONFIRMATION_COUNT
          /\ ForceState("HEALTHY")
       \/ /\ evidence'.failing >= FAILURE_CONFIRMATION_COUNT
          /\ ForceState("MANUAL_INTERVENTION_REQUIRED")

\* The watchdog is recreated; nothing of the state machine is persisted.
RecreateMachine ==
    /\ state' = "STARTING"
    /\ candidate' = None
    /\ candidate_streak' = 0
    /\ healthy_streak' = 0
    /\ evidence' = NoEvidence

MachineInit == InitMachine

MachineNext ==
    \/ \E obs \in Observations : Check(obs)
    \/ LeaveForRecovery
    \/ Settle
    \/ \E obs \in Observations : Confirm(obs)
    \/ RecreateMachine

MachineSpec == MachineInit /\ [][MachineNext]_machineVars

-----------------------------------------------------------------------------
(* Properties.                                                             *)

MachineTypeOK ==
    /\ state \in State
    /\ candidate \in Verdict \cup {None}
    /\ candidate_streak \in 0..StreakCap
    /\ healthy_streak \in 0..StreakCap
    /\ evidence \in Evidence

\* The counters never claim more than was observed: a streak is a lower bound
\* of the run of equal verdicts it stands for, whatever was forced, held,
\* inconclusive or interrupted in between, and at most one of them runs.
StreaksAreEvidence ==
    /\ candidate # None =>
           candidate = evidence.verdict /\ candidate_streak <= evidence.count
    /\ candidate = None => candidate_streak = 0
    /\ healthy_streak > 0 =>
           /\ candidate = None
           /\ evidence.verdict = "HEALTHY"
           /\ healthy_streak <= evidence.count
    /\ state = "RECOVERING" => candidate = None /\ healthy_streak = 0

\* And nothing confirmed is lost: a verdict confirmed by the checks since the
\* last restart is the announced state. RECOVERING is held on purpose;
\* MANUAL_INTERVENTION_REQUIRED starts counting afresh after the outcome.
ConfirmedIsAnnounced ==
    /\ Confirmed(evidence)
    /\ state \notin {"RECOVERING", "MANUAL_INTERVENTION_REQUIRED"}
    => state = evidence.verdict

\* No check changes the state to a verdict the checks did not confirm: one
\* unambiguous check, or as many equal verdicts in a row as the verdict needs.
\* A flapping check (down, healthy, down, ...) never gets there.
NoUnconfirmedVerdict ==
    [][state' # state /\ state' \in Verdict =>
           evidence'.verdict = state' /\ Confirmed(evidence')]_machineVars
=============================================================================
