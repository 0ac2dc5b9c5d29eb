---------------------------- MODULE MCDeployment ----------------------------
(***************************************************************************)
(* Small instances of Deployment. The cooldown is longer than a recovery   *)
(* that fails and the confirmation of the failure after it, as it is in    *)
(* every sensible configuration (6 hours against some minutes).            *)
(***************************************************************************)
EXTENDS Deployment

ASSUME CooldownOutlastsRecovery ==
    RESTART_COOLDOWN_SECONDS >
        POST_RESTART_WAIT_SECONDS + 2 * FAILURE_CONFIRMATION_COUNT

MCObservations == Observation

NoFaults == {}
=============================================================================
