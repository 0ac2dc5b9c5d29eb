------------------------------- MODULE States -------------------------------
(***************************************************************************)
(* The vocabulary the watchdog's components share: the states it can       *)
(* announce, the allowlist of states TeslaMate may be restarted from, and  *)
(* evaluate(), which maps what one check cycle learned to a verdict        *)
(* (src/src/state_machine.py, with the categories of http_check.py and the *)
(* signals of log_classifier.py).                                          *)
(***************************************************************************)
State == {"STARTING", "HEALTHY", "LOGGED_OUT", "LOGGER_UNHEALTHY",
          "TESLAMATE_UNREACHABLE", "DATABASE_UNHEALTHY",
          "AUTH_REFRESH_FAILED", "RECOVERING", "MANUAL_INTERVENTION_REQUIRED"}

\* Python's None where a State is expected.
None == "None"

RESTART_ALLOWED_STATES ==
    {"LOGGER_UNHEALTHY", "TESLAMATE_UNREACHABLE", "LOGGED_OUT"}

RESTART_NEEDS_TESLA_AUTH == {"LOGGED_OUT"}

RESTART_FORBIDDEN_STATES == {"AUTH_REFRESH_FAILED", "DATABASE_UNHEALTHY"}

\* The module-level assert that closes the allowlist.
ASSUME AllowlistDisjoint ==
    RESTART_ALLOWED_STATES \cap RESTART_FORBIDDEN_STATES = {}

FAILURE_STATES ==
    {"LOGGED_OUT", "LOGGER_UNHEALTHY", "TESLAMATE_UNREACHABLE",
     "DATABASE_UNHEALTHY", "AUTH_REFRESH_FAILED", "MANUAL_INTERVENTION_REQUIRED"}

AUTH_STATES == {"LOGGED_OUT", "AUTH_REFRESH_FAILED"}

-----------------------------------------------------------------------------
HttpCategory == {"authenticated", "logged_out", "unreachable",
                 "application_error", "unknown"}

\* bool | None: "unknown" is None, the answer of a check that could not tell.
TriState == {"true", "false", "unknown"}

\* The signals that can be raised together; evaluate() must not look at
\* "refresh_success" nor at "database_failure".
LogSignal == {"auth_refresh_failing", "auth_lost", "database_failure",
              "token_decryption_failure", "refresh_success"}

\* What one check cycle learned. No log text at all (log_signals is None) and
\* a log that matches nothing are told apart by no reader: both are {}.
Observation ==
    [http : HttpCategory, logger_healthy : TriState, logger_stale : BOOLEAN,
     database_healthy : TriState, teslamate_container_running : TriState,
     log_signals : SUBSET LogSignal]

\* The verdicts of one check. STARTING, RECOVERING and MANUAL_... are not
\* verdicts: no observation leads to them.
Verdict == {"HEALTHY", "LOGGED_OUT", "LOGGER_UNHEALTHY",
            "TESLAMATE_UNREACHABLE", "DATABASE_UNHEALTHY", "AUTH_REFRESH_FAILED"}

Evaluation == [state : Verdict, immediate : BOOLEAN, inconclusive : BOOLEAN]

Conclude(s) == [state |-> s, immediate |-> FALSE, inconclusive |-> FALSE]

\* First match wins.
Evaluate(obs) ==
    IF obs.database_healthy = "false"
    THEN Conclude("DATABASE_UNHEALTHY")
    ELSE IF obs.teslamate_container_running = "false"
    THEN [Conclude("TESLAMATE_UNREACHABLE") EXCEPT !.immediate = TRUE]
    ELSE IF obs.http = "logged_out"
    THEN Conclude("LOGGED_OUT")
    ELSE IF obs.http \in {"unreachable", "application_error"}
    THEN Conclude("TESLAMATE_UNREACHABLE")
    ELSE IF obs.log_signals \cap {"token_decryption_failure",
                                  "auth_refresh_failing", "auth_lost"} # {}
    THEN Conclude("AUTH_REFRESH_FAILED")
    ELSE IF obs.logger_healthy = "false" \/ obs.logger_stale
    THEN Conclude("LOGGER_UNHEALTHY")
    ELSE [Conclude("HEALTHY") EXCEPT !.inconclusive = obs.http # "authenticated"]
=============================================================================
