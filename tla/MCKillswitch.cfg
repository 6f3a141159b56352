CONSTANTS
    Policy <- MCPolicy
    Iface = {eth0}
    MaxId = 2
    MaxSessions = 2
    SocketCap = 2
    Budgets <- MCBudgets
SPECIFICATION FairSpec
INVARIANTS
    TypeOK
    Converged
PROPERTIES
    Register
    EventuallyEnforced
    CloseEnds
CHECK_DEADLOCK FALSE
