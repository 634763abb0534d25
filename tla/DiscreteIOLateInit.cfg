SPECIFICATION Spec
CONSTANTS
    Top = 1
    Commands <- SomeCommands
    Faults = {"install"}
    EarlyWrites = FALSE
    MaxFaults = 1
    MaxResets = 0
INVARIANT
    RelaysAsCached
