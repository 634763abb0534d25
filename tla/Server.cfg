SPECIFICATION Spec
CONSTANTS
    Servers <- TwoServers
    MaxWdtErrors = 3
    NtpRetries = 2
    Faults = {"add", "new", "startup", "create", "wifi"}
    MaxFaults = 2
    MaxIncidents = 3
CHECK_DEADLOCK FALSE
INVARIANTS
    TypeOK
    AtMostOneServer
    WatchedWhileWorking
PROPERTIES
    ServerStops
    NetworkReturns
    AppReturns
    StaysUp
