SPECIFICATION Spec
CONSTANTS
    TESLAMATE_CONTAINER = "teslamate"
    DATABASE_CONTAINER = "database"
    NoName = ""
    Kinds <- MCKinds
    Renames <- MCRenames
    MaxContainers = 2
    MaxRestarts = 2
INVARIANTS
    DockerTypeOK
PROPERTIES
    RestartedIsTeslaMate
    VerdictsAreObserved
    ImplementsRestartCalls
