SPECIFICATION Spec
CONSTANTS
    Conclusions <- MCConclusions
    Nothing = Nothing
    MaxProcesses = 2
    MaxOutbox = 2
INVARIANTS
    AvailabilityTypeOK
    OnlineIsBacked
    StatusIsCurrent
    PresentIsOnline
PROPERTIES
    DeathIsShown
    PresenceIsShown
    ConclusionIsShown
