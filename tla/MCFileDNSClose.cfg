SPECIFICATION FileSpec
CONSTANTS
    Server = {s1, s2, s3}
    NoServer = NoServer
    Fallback = {s3}
    Setter = {g1}
    Closer = {g2}
    MaxDNSCalls = 2
    MaxDNSFails = 0
    MaxForeign = 0
    MaxCrashes = 0
INVARIANT RolledBackOnClose
CHECK_DEADLOCK FALSE
