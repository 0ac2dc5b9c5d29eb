SPECIFICATION Spec
CONSTANTS
    c1 = c1
    NoCar = NoCar
    Cars <- MCCars
    Primaries <- MCPrimaries
    MQTT_STALE_SECONDS = 1
    MQTT_PARKED_STALE_SECONDS = 2
    MaxCallTime = 1
INVARIANTS
    CarTopicsTypeOK
PROPERTIES
    StaleIsSilence
    VerdictIsAtomic
    SilenceIsReported
