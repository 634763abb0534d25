SPECIFICATION Spec
CONSTANTS
    WordModulus = 3
    MaxCycles = 5
    MaxResets = 1
CHECK_DEADLOCK FALSE
INVARIANTS
    TypeOK
    TallyAddsUp
    ReliableMeansWritten
    OutputsReset
PROPERTIES
    GoodReadsAreCurrent
    KeyStops
