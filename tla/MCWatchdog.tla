----------------------------- MODULE MCWatchdog -----------------------------
(***************************************************************************)
(* Small instances of Watchdog. The observations are one of each verdict,  *)
(* one inconclusive, and those whose database reading matters to the guard.*)
(***************************************************************************)
EXTENDS Watchdog

Clean == [http |-> "authenticated", logger_healthy |-> "true",
          logger_stale |-> FALSE, database_healthy |-> "true",
          teslamate_container_running |-> "true", log_signals |-> {}]

MCObservations ==
    {Clean,
     [Clean EXCEPT !.http = "unknown"],
     [Clean EXCEPT !.http = "logged_out"],
     [Clean EXCEPT !.http = "unreachable"],
     [Clean EXCEPT !.http = "unreachable", !.database_healthy = "unknown"],
     [Clean EXCEPT !.teslamate_container_running = "false"],
     [Clean EXCEPT !.logger_stale = TRUE],
     [Clean EXCEPT !.log_signals = {"auth_lost"}],
     [Clean EXCEPT !.database_healthy = "false"]}

\* The observations of the runs that ask about the history and the clock.
FewObservations ==
    {Clean,
     [Clean EXCEPT !.http = "unreachable"],
     [Clean EXCEPT !.database_healthy = "false"]}

NoFaults == {}
AllFaults == FaultKind
RestartTimeout == {"restart_timeout"}
CrashInRestart == {"crash_in_restart"}
=============================================================================
