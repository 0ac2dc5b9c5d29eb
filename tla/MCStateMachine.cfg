SPECIFICATION MachineSpec
CONSTANTS
    FAILURE_CONFIRMATION_COUNT = 2
    RECOVERY_CONFIRMATION_COUNT = 2
    LOGGER_UNHEALTHY_CONFIRMATION_COUNT = 3
    StreakCap = 3
    Observations <- MCObservations
INVARIANTS
    MachineTypeOK
    StreaksAreEvidence
    ConfirmedIsAnnounced
PROPERTIES
    NoUnconfirmedVerdict
