SPECIFICATION FileSpec
CONSTANTS
    Server = {s1, s2, s3}
    NoServer = NoServer
    Fallback = {s3}
    Setter = {g1}
    Closer = {g1}
    MaxDNSCalls = 3
    MaxDNSFails = 0
    MaxForeign = 1
    MaxCrashes = 0
INVARIANT RestoresPrevious
CHECK_DEADLOCK FALSE
