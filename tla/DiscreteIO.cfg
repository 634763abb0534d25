SPECIFICATION Spec
CONSTANTS
    Top = 1
    Commands <- SomeCommands
    Faults = {"install", "read", "write", "mutex"}
    EarlyWrites = TRUE
    MaxFaults = 1
    MaxResets = 1
INVARIANTS
    TypeOK
    OutputsAgree
    ReadIsCurrent
    DriverBeforeUse
PROPERTIES
    SafeWhenReady
    CommandEnds
    EventuallyReady
