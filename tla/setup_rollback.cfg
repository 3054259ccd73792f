SPECIFICATION Spec
CONSTANTS
    MaxCommands = 1
    MaxFaults = 1
CHECK_DEADLOCK FALSE
INVARIANT
    PartialSetupIsUndone
