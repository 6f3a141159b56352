CONSTANTS
    Family = {4}
    Config <- MCConfigSingle
    MainRoute <- MCRoutesDefault
    NoConfig = NoConfig
    Closer = {c1, c2}
    MaxCalls = 1
    MaxFails = 1
    MaxChanges = 1
    MaxCrashes = 0
SPECIFICATION FairSpec
INVARIANTS
    CloseWaits
    IInv
PROPERTIES
    ChangeServed
    CloseReturns
CHECK_DEADLOCK FALSE
