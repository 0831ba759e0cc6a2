SPECIFICATION Spec
CHECK_DEADLOCK FALSE
CONSTANTS
    u1 = u1
    u2 = u2
    v2 = v2
    v3 = v3
    Old = v1
    Damaged = damaged
    Missing = missing
    Updaters <- TwoUpdaters
    Builds <- TwoBuilds
    MaxPublished = 2
    MaxRollbacks = 1
    MaxFaults = 2
INVARIANTS
    TypeOK
    ACopySurvives
    AllOrNothing
PROPERTIES
    OnlyVerified
    ImplementsInstallation
