SPECIFICATION Spec
CONSTANTS
    MaxCommands = 3
    MaxFaults = 3
CHECK_DEADLOCK FALSE
INVARIANTS
    TypeOK
    CardIsHandedBack
    SetupHolds
    TeardownHolds
    FailedSetupRolledBack
    HopperDeathIsReported
PROPERTIES
    HopperStopsTuning
    CommandEnds
