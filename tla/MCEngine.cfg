SPECIFICATION FairSpec
CONSTANTS
    ModeAttempts = 4
    StartAttempts = 6
    MaxUnlucky = 2
INVARIANTS
    TypeOK
    HealthyUntouched
PROPERTIES
    ArmedInMode
    VerifiedNotSwallowing
    ImplementsService
    CallsEnd
