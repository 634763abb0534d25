SPECIFICATION Spec
CONSTANTS
    Servers <- TwoServers
    MaxWdtErrors = 2
    NtpRetries = 1
    Faults = {}
    MaxFaults = 0
    MaxIncidents = 1
CHECK_DEADLOCK FALSE
PROPERTY
    ServerReturns
