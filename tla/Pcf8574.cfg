SPECIFICATION Spec
CONSTANTS
    Callers = {a, b}
    Bits <- SomeBits
    Calls <- SomeCalls
    MaxFaults = 2
INVARIANTS
    TypeOK
    NoBlindWrite
PROPERTY
    OthersKept
