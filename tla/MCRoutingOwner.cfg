\* Two configurations that differ in block, tables, TUN and families; failures
\* and a crash of the process between any two adapter calls.
CONSTANTS
    Family = {4, 6}
    Config <- MCConfigsMoved
    MainRoute <- MCRoutesLan
    NoConfig = NoConfig
    Closer = {}
    MaxCalls = 3
    MaxFails = 1
    MaxChanges = 0
    MaxCrashes = 1
SPECIFICATION Spec
INVARIANTS
    FailClosed
    PolicyMet
    OwnedExactly
CHECK_DEADLOCK FALSE
