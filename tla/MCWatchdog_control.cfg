SPECIFICATION Spec
CONSTANTS
    FAILURE_CONFIRMATION_COUNT = 2
    RECOVERY_CONFIRMATION_COUNT = 2
    LOGGER_UNHEALTHY_CONFIRMATION_COUNT = 1
    StreakCap = 2
    Observations <- MCObservations
    AUTO_RESTART_ENABLED = TRUE
    LOGGED_OUT_RESTART_ENABLED = TRUE
    RESTART_COOLDOWN_SECONDS = 1
    MAX_RESTARTS_PER_24_HOURS = 1
    DATABASE_CONFIRMATION_COUNT = 2
    SECONDS_PER_DAY = 1
    HISTORY_RETENTION_SECONDS = 1
    POST_RESTART_WAIT_SECONDS = 1
    MaxTime = 2
    Faults <- AllFaults
INVARIANTS
    WatchdogTypeOK
    RecoveryOwnsRecovering
    RestartJustified
    ProgressIsEvidence
    RetainedTopicsAreCurrent
PROPERTIES
    ImplementsStateMachine
