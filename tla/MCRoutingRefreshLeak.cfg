CONSTANTS
    Family = {4}
    Config <- MCConfigSingle
    MainRoute <- MCRoutesDefault
    NoConfig = NoConfig
    Closer = {}
    MaxCalls = 3
    MaxFails = 1
    MaxChanges = 0
    MaxCrashes = 0
SPECIFICATION Spec
INVARIANTS
    NoLeak
CHECK_DEADLOCK FALSE
