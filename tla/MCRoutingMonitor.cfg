CONSTANTS
    Family = {4}
    Config <- MCConfigsFixed
    MainRoute <- MCRoutes
    NoConfig = NoConfig
    Closer = {c1}
    MaxCalls = 2
    MaxFails = 1
    MaxChanges = 2
    MaxCrashes = 0
SPECIFICATION Spec
INVARIANTS
    TypeOK
    FailClosed
    SafeTableCurrent
    PolicyMet
    AdapterNotUsedAfterClose
PROPERTIES
    NoCallAfterClose
CHECK_DEADLOCK FALSE
