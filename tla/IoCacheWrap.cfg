SPECIFICATION Spec
CONSTANTS
    poll = poll
    opc = opc
    di = di
    do = do
    Inputs = di
    Outputs = do
    NumAdc = 2
    Tasks = {poll, opc}
    Calls <- ProgramCalls
    Value = {0, 1}
    TickModulus = 3
    MaxUptime = 3
INVARIANT
    StampOrder
