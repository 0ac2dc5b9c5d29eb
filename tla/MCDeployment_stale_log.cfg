SPECIFICATION DeploymentSpec
CONSTANTS
    FAILURE_CONFIRMATION_COUNT = 2
    RECOVERY_CONFIRMATION_COUNT = 2
    LOGGER_UNHEALTHY_CONFIRMATION_COUNT = 2
    StreakCap = 2
    Observations <- MCObservations
    AUTO_RESTART_ENABLED = TRUE
    LOGGED_OUT_RESTART_ENABLED = TRUE
    RESTART_COOLDOWN_SECONDS = 6
    MAX_RESTARTS_PER_24_HOURS = 2
    DATABASE_CONFIRMATION_COUNT = 2
    SECONDS_PER_DAY = 12
    HISTORY_RETENTION_SECONDS = 12
    POST_RESTART_WAIT_SECONDS = 1
    MaxTime = 6
    Faults <- NoFaults
    LOG_ANALYSIS_LOOKBACK_SECONDS = 6
    MQTT_STALE_SECONDS = 1
    MaxBodyChunks = 2
    MaxDisturbances = 3
PROPERTIES
    LogoutEscalatedOnlyIfNotCleared
