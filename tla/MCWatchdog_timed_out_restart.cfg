SPECIFICATION Spec
CONSTANTS
    FAILURE_CONFIRMATION_COUNT = 1
    RECOVERY_CONFIRMATION_COUNT = 1
    LOGGER_UNHEALTHY_CONFIRMATION_COUNT = 1
    StreakCap = 1
    Observations <- FewObservations
    AUTO_RESTART_ENABLED = TRUE
    LOGGED_OUT_RESTART_ENABLED = TRUE
    RESTART_COOLDOWN_SECONDS = 2
    MAX_RESTARTS_PER_24_HOURS = 2
    DATABASE_CONFIRMATION_COUNT = 2
    SECONDS_PER_DAY = 6
    HISTORY_RETENTION_SECONDS = 7
    POST_RESTART_WAIT_SECONDS = 1
    MaxTime = 12
    Faults <- RestartTimeout
INVARIANTS
    RestartsSpaced
