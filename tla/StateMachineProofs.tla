------------------------- MODULE StateMachineProofs -------------------------
(***************************************************************************)
(* Proofs about StateMachine, for every value of the confirmation counts   *)
(* and every set of observations, and about evaluate() for every one.      *)
(***************************************************************************)
EXTENDS StateMachine, TLAPS

-----------------------------------------------------------------------------
(* Lemmas about the operators.                                             *)

\* evaluate() returns a verdict; what is inconclusive counts for no failure,
\* and what needs no confirmation is one.
LEMMA EvaluateType ==
    ASSUME NEW obs \in Observations
    PROVE  /\ Evaluate(obs) \in Evaluation
           /\ Evaluate(obs).immediate => Evaluate(obs).state # "HEALTHY"
           /\ Evaluate(obs).inconclusive => Evaluate(obs).state = "HEALTHY"
<1>1. \/ \E s \in Verdict \ {"HEALTHY"} : Evaluate(obs) = Conclude(s)
      \/ Evaluate(obs) = [Conclude("TESLAMATE_UNREACHABLE") EXCEPT !.immediate = TRUE]
      \/ \E b \in BOOLEAN :
             Evaluate(obs) = [Conclude("HEALTHY") EXCEPT !.inconclusive = b]
  BY Zenon DEF Evaluate, Verdict
<1>2. CASE \E s \in Verdict \ {"HEALTHY"} : Evaluate(obs) = Conclude(s)
  <2>1. PICK s \in Verdict \ {"HEALTHY"} : Evaluate(obs) = Conclude(s)
    BY <1>2
  <2>. QED
    BY <2>1 DEF Conclude, Evaluation
<1>3. CASE Evaluate(obs)
             = [Conclude("TESLAMATE_UNREACHABLE") EXCEPT !.immediate = TRUE]
  <2>1. Evaluate(obs) =
            [state |-> "TESLAMATE_UNREACHABLE", immediate |-> TRUE, inconclusive |-> FALSE]
    BY <1>3 DEF Conclude
  <2>. QED
    BY <2>1 DEF Evaluation, Verdict
<1>4. CASE \E b \in BOOLEAN :
             Evaluate(obs) = [Conclude("HEALTHY") EXCEPT !.inconclusive = b]
  <2>1. PICK b \in BOOLEAN :
             Evaluate(obs) = [Conclude("HEALTHY") EXCEPT !.inconclusive = b]
    BY <1>4
  <2>2. Evaluate(obs) = [state |-> "HEALTHY", immediate |-> FALSE, inconclusive |-> b]
    BY <2>1 DEF Conclude
  <2>. QED
    BY <2>2 DEF Evaluation, Verdict
<1>. QED
  BY <1>1, <1>2, <1>3, <1>4

\* The log signals that evaluate() takes for a refusal of the tokens.
AuthSignals == {"token_decryption_failure", "auth_refresh_failing", "auth_lost"}

\* obs shows all that other shows to be wrong, and maybe more.
ShowsAll(obs, other) ==
    /\ obs.database_healthy \in {other.database_healthy, "false"}
    /\ obs.teslamate_container_running \in {other.teslamate_container_running, "false"}
    /\ obs.http = "authenticated" => other.http = "authenticated"
    /\ obs.http = "unknown" => other.http \in {"authenticated", "unknown"}
    /\ other.log_signals \cap AuthSignals \subseteq obs.log_signals
    /\ obs.logger_healthy \in {other.logger_healthy, "false"}
    /\ other.logger_stale => obs.logger_stale

\* What else is wrong never hides a failure, whatever the order in which the
\* evidence is looked at: worse evidence is neither taken for health nor for
\* more than the doubt there was.
THEOREM WorseIsNeverHealthier ==
    ASSUME NEW obs \in Observation, NEW other \in Observation, ShowsAll(obs, other),
           Evaluate(obs).state = "HEALTHY"
    PROVE  /\ Evaluate(other).state = "HEALTHY"
           /\ Evaluate(other).inconclusive => Evaluate(obs).inconclusive
<1>1. ASSUME NEW o \in Observation
      PROVE  /\ Evaluate(o).state = "HEALTHY" <=>
                    /\ o.database_healthy # "false"
                    /\ o.teslamate_container_running # "false"
                    /\ o.http \in {"authenticated", "unknown"}
                    /\ o.log_signals \cap AuthSignals = {}
                    /\ o.logger_healthy # "false" /\ ~o.logger_stale
             /\ Evaluate(o).state = "HEALTHY" =>
                    (Evaluate(o).inconclusive <=> o.http = "unknown")
  BY <1>1 DEF Evaluate, Conclude, AuthSignals, Observation, HttpCategory
<1>. QED
  BY <1>1 DEF ShowsAll

\* A verdict that lets TeslaMate be restarted names a cause that the check saw
\* and that the restart may fix: a logger is only blamed where TeslaMate serves
\* its pages and accepts its tokens, and never while the database is down.
THEOREM RestartableHasCause ==
    ASSUME NEW obs \in Observation, Evaluate(obs).state \in RESTART_ALLOWED_STATES
    PROVE  /\ obs.database_healthy # "false"
           /\ Evaluate(obs).state = "LOGGED_OUT" =>
                  /\ obs.http = "logged_out"
                  /\ obs.teslamate_container_running # "false"
           /\ Evaluate(obs).state = "TESLAMATE_UNREACHABLE" =>
                  \/ obs.teslamate_container_running = "false"
                  \/ obs.http \in {"unreachable", "application_error"}
           /\ Evaluate(obs).state = "LOGGER_UNHEALTHY" =>
                  /\ obs.teslamate_container_running # "false"
                  /\ obs.http \in {"authenticated", "unknown"}
                  /\ obs.log_signals \cap AuthSignals = {}
                  /\ obs.logger_healthy = "false" \/ obs.logger_stale
BY DEF Evaluate, Conclude, AuthSignals, Observation, HttpCategory, RESTART_ALLOWED_STATES

\* A saturating counter stays within its cap and never decreases; two of them
\* keep their order.
LEMMA BumpBounds ==
    ASSUME NEW n \in 0..StreakCap
    PROVE  /\ Bump(n) \in 0..StreakCap
           /\ Bump(n) >= n
           /\ Bump(n) >= 1
           /\ \A m \in 0..StreakCap : m <= n => Bump(m) <= Bump(n)
BY ConfirmationCounts, StreakCapCoversCounts DEF Bump

\* Every count is a positive number within the cap of the streaks.
LEMMA ConfirmationsType ==
    ASSUME NEW v
    PROVE  Confirmations(v) \in 1..StreakCap
BY ConfirmationCounts, StreakCapCoversCounts DEF Confirmations

\* The verdicts are states, and no observation makes the watchdog announce a
\* recovery, ask for a human or start.
LEMMA VerdictIsState ==
    /\ Verdict \subseteq State
    /\ None \notin Verdict
    /\ "RECOVERING" \notin Verdict
    /\ "MANUAL_INTERVENTION_REQUIRED" \notin Verdict
    /\ "STARTING" \notin Verdict
BY DEF Verdict, State, None

\* What a check adds to the evidence.
LEMMA NoteVerdictFacts ==
    ASSUME MachineTypeOK,
           NEW ev \in Evaluation,
           NoteVerdict(ev)
    PROVE  /\ evidence' \in Evidence
           /\ ev.inconclusive =>
                  /\ evidence'.verdict = evidence.verdict
                  /\ evidence'.count = evidence.count
                  /\ evidence'.failing = evidence.failing
                  /\ ~evidence'.immediate
           /\ ~ev.inconclusive =>
                  /\ evidence'.verdict = ev.state
                  /\ evidence'.count = IF ev.state = evidence.verdict
                                       THEN Bump(evidence.count) ELSE 1
                  /\ evidence'.failing = IF ev.state = "HEALTHY"
                                         THEN 0 ELSE Bump(evidence.failing)
                  /\ evidence'.immediate = ev.immediate
<1>. evidence \in Evidence
  BY DEF MachineTypeOK
<1>1. CASE ev.inconclusive
  <2>1. evidence' = [evidence EXCEPT !.immediate = FALSE]
    BY <1>1 DEF NoteVerdict
  <2>. QED
    BY <1>1, <2>1 DEF Evidence
<1>2. CASE ~ev.inconclusive
  <2>1. evidence' = [verdict   |-> ev.state,
                     count     |-> IF ev.state = evidence.verdict
                                   THEN Bump(evidence.count) ELSE 1,
                     failing   |-> IF ev.state = "HEALTHY"
                                   THEN 0 ELSE Bump(evidence.failing),
                     immediate |-> ev.immediate]
    BY <1>2 DEF NoteVerdict
  <2>2. /\ Bump(evidence.count) \in 0..StreakCap
        /\ Bump(evidence.failing) \in 0..StreakCap
        /\ 1 \in 0..StreakCap /\ 0 \in 0..StreakCap
    BY ConfirmationCounts, StreakCapCoversCounts DEF Bump, Evidence
  <2>3. ev.state \in Verdict /\ ev.immediate \in BOOLEAN
    BY DEF Evaluation
  <2>. QED
    BY <1>2, <2>1, <2>2, <2>3 DEF Evidence
<1>. QED
  BY <1>1, <1>2

-----------------------------------------------------------------------------
(* The inductive invariant. A verdict that the checks have seen and the    *)
(* state does not show yet is being counted, and the count is exact: this  *)
(* is what makes the checks that follow confirm it at the right moment.    *)

BeingCounted ==
    /\ state \notin {"RECOVERING", "MANUAL_INTERVENTION_REQUIRED"}
    /\ evidence.verdict \notin {None, state}
    => /\ evidence.verdict # "HEALTHY" =>
              /\ candidate = evidence.verdict
              /\ candidate_streak = evidence.count
       /\ evidence.verdict = "HEALTHY" => healthy_streak = evidence.count

NothingImmediateFromNothing ==
    evidence.verdict = None => ~evidence.immediate

MachineInv ==
    /\ MachineTypeOK
    /\ StreaksAreEvidence
    /\ ConfirmedIsAnnounced
    /\ BeingCounted
    /\ NothingImmediateFromNothing

\* The claim of NoUnconfirmedVerdict about one step.
ChangesConfirmed ==
    state' # state /\ state' \in Verdict =>
        evidence'.verdict = state' /\ Confirmed(evidence')

\* A check of the state machine keeps the invariant and confirms what it
\* changes: one case per branch of step().
LEMMA CheckPreserves ==
    ASSUME MachineInv, NEW obs \in Observations, Check(obs)
    PROVE  MachineInv' /\ ChangesConfirmed
<1>. DEFINE ev == Evaluate(obs)
<1>1. /\ ev \in Evaluation
      /\ ev.immediate => ev.state # "HEALTHY"
      /\ ev.inconclusive => ev.state = "HEALTHY"
  BY EvaluateType
<1>2. NoteVerdict(ev) /\ state # "RECOVERING"
  BY DEF Check, StepMachine
<1>. HIDE DEF ev
<1>3. /\ evidence' \in Evidence
      /\ ev.inconclusive =>
             /\ evidence'.verdict = evidence.verdict
             /\ evidence'.count = evidence.count
             /\ evidence'.failing = evidence.failing
             /\ ~evidence'.immediate
      /\ ~ev.inconclusive =>
             /\ evidence'.verdict = ev.state
             /\ evidence'.count = IF ev.state = evidence.verdict
                                  THEN Bump(evidence.count) ELSE 1
             /\ evidence'.failing = IF ev.state = "HEALTHY"
                                    THEN 0 ELSE Bump(evidence.failing)
             /\ evidence'.immediate = ev.immediate
  BY <1>1, <1>2, NoteVerdictFacts DEF MachineInv
<1>4. /\ evidence \in Evidence
      /\ state \in State
      /\ candidate \in Verdict \cup {None}
      /\ candidate_streak \in 0..StreakCap
      /\ healthy_streak \in 0..StreakCap
  BY DEF MachineInv, MachineTypeOK
<1>5. ev.state \in Verdict /\ ev.immediate \in BOOLEAN /\ ev.inconclusive \in BOOLEAN
  BY <1>1 DEF Evaluation
<1>6. /\ evidence.count \in 0..StreakCap /\ evidence.failing \in 0..StreakCap
      /\ evidence'.count \in 0..StreakCap
  BY <1>3, <1>4 DEF Evidence
<1>7. \A v : Confirmations(v) \in 1..StreakCap
  BY ConfirmationsType
<1>8. Confirmations("HEALTHY") = RECOVERY_CONFIRMATION_COUNT
  BY DEF Confirmations
<1>9. CASE ev.inconclusive
  <2>1. HoldState
    BY <1>2, <1>9 DEF Check, StepMachine, ev
  <2>2. Confirmed(evidence') => Confirmed(evidence)
    BY <1>3, <1>9 DEF Confirmed
  <2>. QED
    BY <1>3, <1>4, <1>9, <2>1, <2>2
    DEF MachineInv, MachineTypeOK, StreaksAreEvidence, ConfirmedIsAnnounced,
        BeingCounted, NothingImmediateFromNothing, HoldState, ChangesConfirmed
<1>10. CASE ~ev.inconclusive /\ ev.state = "HEALTHY"
  <2>1. ObserveHealthy
    BY <1>2, <1>10 DEF Check, StepMachine, ev
  <2>2. ~ev.immediate
    BY <1>1, <1>10
  <2>3. MachineTypeOK'
    BY <2>1, <1>3, <1>4, BumpBounds, StreakCapCoversCounts
    DEF ObserveHealthy, MachineTypeOK, State
  <2>4. StreaksAreEvidence'
    BY <2>1, <1>2, <1>3, <1>4, <1>6, <1>10, StreakCapCoversCounts
    DEF ObserveHealthy, StreaksAreEvidence, MachineInv, Bump
  <2>5. BeingCounted'
    BY <2>1, <1>2, <1>3, <1>4, <1>6, <1>10, BumpBounds, VerdictIsState
    DEF ObserveHealthy, StreaksAreEvidence, MachineInv, BeingCounted, Bump
  <2>6. ConfirmedIsAnnounced'
    BY <2>1, <2>2, <2>5, <1>2, <1>3, <1>6, <1>8, <1>10, VerdictIsState
    DEF ObserveHealthy, ConfirmedIsAnnounced, Confirmed, BeingCounted
  <2>7. NothingImmediateFromNothing'
    BY <2>2, <1>3, <1>10 DEF NothingImmediateFromNothing
  <2>8. ChangesConfirmed
    <3>1. SUFFICES ASSUME state' # state PROVE state' = "HEALTHY" /\ Confirmed(evidence')
      BY <1>3, <1>10 DEF ChangesConfirmed
    <3>2. healthy_streak' >= RECOVERY_CONFIRMATION_COUNT /\ state' = "HEALTHY"
      BY <2>1, <3>1 DEF ObserveHealthy
    <3>3. healthy_streak' <= evidence'.count /\ evidence'.verdict = "HEALTHY"
      BY <3>2, <2>3, <2>4, <1>8, <1>7, ConfirmationCounts
      DEF StreaksAreEvidence, MachineTypeOK
    <3>. QED
      BY <3>2, <3>3, <2>3, <1>6, <1>8, ConfirmationCounts
      DEF Confirmed, MachineTypeOK, None
  <2>. QED
    BY <2>3, <2>4, <2>5, <2>6, <2>7, <2>8 DEF MachineInv
<1>11. CASE ~ev.inconclusive /\ ev.state # "HEALTHY"
  <2>1. ObserveFailure(ev)
    BY <1>2, <1>11 DEF Check, StepMachine, ev
  <2>2. MachineTypeOK'
    BY <2>1, <1>3, <1>4, <1>5, BumpBounds, StreakCapCoversCounts, ConfirmationCounts,
       VerdictIsState
    DEF ObserveFailure, MachineTypeOK
  <2>3. StreaksAreEvidence'
    BY <2>1, <1>2, <1>3, <1>4, <1>5, <1>6, <1>11, BumpBounds, VerdictIsState
    DEF ObserveFailure, StreaksAreEvidence, MachineInv
  <2>4. BeingCounted'
    BY <2>1, <1>2, <1>3, <1>4, <1>5, <1>6, <1>11, BumpBounds, VerdictIsState
    DEF ObserveFailure, StreaksAreEvidence, MachineInv, BeingCounted, Bump
  <2>5. ConfirmedIsAnnounced'
    BY <2>1, <2>4, <1>2, <1>3, <1>5, <1>6, <1>7, <1>11, VerdictIsState
    DEF ObserveFailure, ConfirmedIsAnnounced, Confirmed, BeingCounted
  <2>6. NothingImmediateFromNothing'
    BY <1>3, <1>5, <1>11, VerdictIsState DEF NothingImmediateFromNothing
  <2>7. ChangesConfirmed
    <3>1. SUFFICES ASSUME state' # state PROVE state' = ev.state /\ Confirmed(evidence')
      BY <1>3, <1>11 DEF ChangesConfirmed
    <3>2. /\ state' = ev.state
          /\ ev.immediate \/ candidate_streak' >= Confirmations(ev.state)
      BY <2>1, <3>1 DEF ObserveFailure
    <3>3. candidate_streak' <= evidence'.count
      BY <2>1, <2>3, <1>5, VerdictIsState DEF ObserveFailure, StreaksAreEvidence
    <3>. QED
      BY <3>2, <3>3, <2>2, <1>3, <1>5, <1>6, <1>7, <1>11, VerdictIsState
      DEF Confirmed, MachineTypeOK
  <2>. QED
    BY <2>2, <2>3, <2>4, <2>5, <2>6, <2>7 DEF MachineInv
<1>. QED
  BY <1>5, <1>9, <1>10, <1>11

\* Forcing the state when there is no evidence keeps the invariant, and
\* announces no verdict.
LEMMA ResetPreserves ==
    ASSUME NEW s \in State \ Verdict, ForceState(s), evidence' = NoEvidence
    PROVE  MachineInv' /\ ChangesConfirmed
<1>1. evidence' \in Evidence
  BY StreakCapCoversCounts DEF Evidence, NoEvidence
<1>. QED
  BY <1>1, StreakCapCoversCounts
  DEF ForceState, NoEvidence, MachineInv, MachineTypeOK, StreaksAreEvidence,
      ConfirmedIsAnnounced, BeingCounted, NothingImmediateFromNothing,
      ChangesConfirmed, Confirmed

\* A check before the restarted container has settled changes nothing.
LEMMA SettlePreserves ==
    ASSUME MachineInv, Settle
    PROVE  MachineInv' /\ ChangesConfirmed
<1>1. evidence' \in Evidence
  BY StreakCapCoversCounts DEF Evidence, NoEvidence, Settle
<1>. QED
  BY <1>1, VerdictIsState
  DEF Settle, HoldState, NoEvidence, MachineInv, MachineTypeOK, StreaksAreEvidence,
      ConfirmedIsAnnounced, BeingCounted, NothingImmediateFromNothing,
      ChangesConfirmed, Confirmed

\* A check that confirms the outcome of a recovery, or goes on doing so.
LEMMA ConfirmPreserves ==
    ASSUME MachineInv, NEW obs \in Observations, Confirm(obs)
    PROVE  MachineInv' /\ ChangesConfirmed
<1>. DEFINE ev == Evaluate(obs)
<1>1. ev \in Evaluation /\ NoteVerdict(ev) /\ state = "RECOVERING"
  BY EvaluateType DEF Confirm
<1>. HIDE DEF ev
<1>2. /\ evidence' \in Evidence
      /\ evidence'.verdict = None => ~evidence'.immediate
  BY <1>1, NoteVerdictFacts, VerdictIsState DEF MachineInv, Evaluation
<1>3. candidate = None /\ healthy_streak = 0 /\ candidate_streak = 0
  BY <1>1 DEF MachineInv, StreaksAreEvidence
<1>4. CASE HoldState
  BY <1>1, <1>2, <1>3, <1>4
  DEF HoldState, MachineInv, MachineTypeOK, StreaksAreEvidence,
      ConfirmedIsAnnounced, BeingCounted, NothingImmediateFromNothing,
      ChangesConfirmed
<1>5. CASE /\ evidence'.verdict = "HEALTHY"
           /\ evidence'.count >= RECOVERY_CONFIRMATION_COUNT
           /\ ForceState("HEALTHY")
  BY <1>2, <1>5, StreakCapCoversCounts
  DEF ForceState, MachineInv, MachineTypeOK, StreaksAreEvidence, State, None,
      ConfirmedIsAnnounced, BeingCounted, NothingImmediateFromNothing,
      ChangesConfirmed, Confirmed, Confirmations
<1>6. CASE ForceState("MANUAL_INTERVENTION_REQUIRED")
  BY <1>2, <1>6, StreakCapCoversCounts, VerdictIsState
  DEF ForceState, MachineInv, MachineTypeOK, StreaksAreEvidence, State,
      ConfirmedIsAnnounced, BeingCounted, NothingImmediateFromNothing,
      ChangesConfirmed
<1>. QED
  BY <1>4, <1>5, <1>6 DEF Confirm

-----------------------------------------------------------------------------
(* The theorems.                                                           *)

\* Every step keeps the invariant and confirms what it changes.
LEMMA StepPreserves ==
    MachineInv /\ [MachineNext]_machineVars => MachineInv' /\ ChangesConfirmed
<1>. SUFFICES ASSUME MachineInv, [MachineNext]_machineVars
              PROVE  MachineInv' /\ ChangesConfirmed
  OBVIOUS
<1>1. CASE \E obs \in Observations : Check(obs)
  BY <1>1, CheckPreserves
<1>2. CASE LeaveForRecovery
  BY <1>2, ResetPreserves DEF LeaveForRecovery, State, Verdict
<1>3. CASE Settle
  BY <1>3, SettlePreserves
<1>4. CASE \E obs \in Observations : Confirm(obs)
  BY <1>4, ConfirmPreserves
<1>5. CASE RecreateMachine
  <2>1. ForceState("STARTING") /\ evidence' = NoEvidence
    BY <1>5 DEF RecreateMachine, ForceState
  <2>. QED
    BY <2>1, ResetPreserves DEF State, Verdict
<1>6. CASE UNCHANGED machineVars
  BY <1>6
  DEF machineVars, MachineInv, MachineTypeOK, StreaksAreEvidence,
      ConfirmedIsAnnounced, BeingCounted, NothingImmediateFromNothing,
      ChangesConfirmed, Confirmed
<1>. QED
  BY <1>1, <1>2, <1>3, <1>4, <1>5, <1>6 DEF MachineNext

\* The invariant holds in every reachable state.
THEOREM MachineInvariant == MachineSpec => []MachineInv
<1>1. MachineInit => MachineInv
  <2>1. NoEvidence \in Evidence
    BY StreakCapCoversCounts DEF NoEvidence, Evidence
  <2>. QED
    BY <2>1, StreakCapCoversCounts
    DEF MachineInit, InitMachine, NoEvidence, MachineInv, MachineTypeOK, State,
        StreaksAreEvidence, ConfirmedIsAnnounced, BeingCounted,
        NothingImmediateFromNothing, Confirmed
<1>2. MachineInv /\ [MachineNext]_machineVars => MachineInv'
  BY StepPreserves
<1>. QED
  BY <1>1, <1>2, PTL DEF MachineSpec

\* The counters and the evidence stay within their types.
THEOREM MachineTypeCorrect == MachineSpec => []MachineTypeOK
<1>1. MachineInv => MachineTypeOK
  BY DEF MachineInv
<1>. QED
  BY <1>1, MachineInvariant, PTL

\* The streaks of the code never claim more than the checks showed.
THEOREM StreaksCorrect == MachineSpec => []StreaksAreEvidence
<1>1. MachineInv => StreaksAreEvidence
  BY DEF MachineInv
<1>. QED
  BY <1>1, MachineInvariant, PTL

\* A confirmed verdict is announced: none is lost.
THEOREM ConfirmedAnnounced == MachineSpec => []ConfirmedIsAnnounced
<1>1. MachineInv => ConfirmedIsAnnounced
  BY DEF MachineInv
<1>. QED
  BY <1>1, MachineInvariant, PTL

\* An announced verdict is confirmed: none is premature.
THEOREM VerdictsConfirmed == MachineSpec => NoUnconfirmedVerdict
<1>1. MachineInv /\ [MachineNext]_machineVars => [ChangesConfirmed]_machineVars
  BY StepPreserves
<1>2. [ChangesConfirmed]_machineVars <=>
          [state' # state /\ state' \in Verdict =>
               evidence'.verdict = state' /\ Confirmed(evidence')]_machineVars
  BY DEF ChangesConfirmed
<1>. QED
  BY <1>1, <1>2, MachineInvariant, PTL DEF MachineSpec, NoUnconfirmedVerdict
=============================================================================
