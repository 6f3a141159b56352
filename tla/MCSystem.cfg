CONSTANTS
    Proc = {p1, p2, p3}
    Nobody = Nobody
    Tun = {t1}
    Default = Default
    FeatureSets <- MCFeatureSets
    MaxCalls = 4
    MaxFails = 1
    Server = {s1, s2, s3}
    NoServer = NoServer
    Fallback = {s3}
    Setter = {g1}
    Closer = {g1, g2}
    MaxDNSCalls = 3
    MaxDNSFails = 1
    MaxForeign = 1
    MaxCrashes = 1
SPECIFICATION MCSpec
INVARIANTS NothingOpen UsedOpen NoWaitCycle ReportSound NoLoop RolledBack ClientsReleased
SYMMETRY MCSymmetry
CHECK_DEADLOCK FALSE
