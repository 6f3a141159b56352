CONSTANTS
    IP = {ip1, ip2}
    Resolver = {r1}
    NoResolver = NoResolver
    MaxBuilds = 2
    MaxFails = 2
    MaxLost = 1
    V4 = {0, 1}
    V6 = {10}
    Width = 2
    Bits4 = {1, 2}
    Bits6 = {64, 128}
    MaxTable = 2
    MaxWanted = 2
    MaxFaults = 1
    Bit = {b0, b1}
    MaxMarks = 2
    Pid = {q1, q2}
    RuleTypes = {"comm", "cmd", "pid", "user"}
    IPFamily = {4}
    SubnetWidth = 2
    Broad = 1
    MaxLocal = 2
SPECIFICATION MCSpec
INVARIANTS  StateMatchesHost OneServerPerAddress RetryVisible
    ProtectedOutsideRestore AddrsReconciled LinkRestored ReplySelected MatchAnswers KeptApart
CHECK_DEADLOCK FALSE
