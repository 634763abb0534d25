SPECIFICATION Spec
CONSTANTS
    NumAdc = 2
    WordModulus = 2
    MsPerSecond = 2
    MaxUptime = 3
    MaxScans = 3
    MaxLost = 2
    MaxAborts = 1
INVARIANTS
    TypeOK
    ReadIsFresh
    ReadsGoForward
    CachesAgree
