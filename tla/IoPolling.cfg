SPECIFICATION Spec
CONSTANTS
    InputsInterval = 4
    AdcInterval = 9
    LoopDelay = 1
    MaxInputsTime = 2
    MaxAdcTime = 3
    MaxLag = 1
    TickModulus = 24
INVARIANTS
    ElapsedIsAge
    NeitherStarves
PROPERTIES
    NeitherEarly
    PollsForEver
