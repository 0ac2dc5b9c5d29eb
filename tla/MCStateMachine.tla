--------------------------- MODULE MCStateMachine ---------------------------
(***************************************************************************)
(* Small instance of StateMachine. The observations are every combination  *)
(* of the inputs evaluate() distinguishes, so that the order of its        *)
(* branches matters; of the log signals, one of each kind.                 *)
(***************************************************************************)
EXTENDS StateMachine

MCObservations ==
    [http : HttpCategory, logger_healthy : TriState, logger_stale : BOOLEAN,
     database_healthy : TriState, teslamate_container_running : TriState,
     log_signals : {{}, {"auth_lost"}, {"auth_refresh_failing", "refresh_success"},
                    {"token_decryption_failure"}, {"database_failure"}}]
=============================================================================
