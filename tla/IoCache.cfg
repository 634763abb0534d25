SPECIFICATION Spec
CONSTANTS
    poll = poll
    opc = opc
    di = di
    do = do
    Inputs = di
    Outputs = do
    NumAdc = 2
    Tasks = {poll, opc}
    Calls <- WholeApi
    Value = {0, 1}
    TickModulus = 2
    MaxUptime = 1
INVARIANTS
    TypeOK
    MutualExclusion
    ReadIsCommitted
    StampOrder
    ChannelReadWasWritten
PROPERTIES
    NeverOlder
    CallsReturn
    AtomicRegisters
