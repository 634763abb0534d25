SPECIFICATION Spec
CONSTANTS
    Callers = {a}
    Bits <- SomeBits
    Calls <- OnlyBitCalls
    MaxFaults = 0
INVARIANT
    SetBitSucceeds
