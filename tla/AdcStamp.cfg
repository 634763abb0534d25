SPECIFICATION Spec
CONSTANTS
    NumAdc = 2
    WordModulus = 64
    MsPerSecond = 2
    MaxUptime = 8
    MaxScans = 2
    MaxLost = 0
    MaxAborts = 0
INVARIANTS
    StampIsOfScan
