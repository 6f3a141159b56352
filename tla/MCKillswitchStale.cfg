CONSTANTS
    Policy <- MCPolicy
    Iface = {eth0}
    MaxId = 1
    MaxSessions = 2
    SocketCap = 2
    Budgets <- MCStaleBudgets
SPECIFICATION Spec
INVARIANTS
    AttachedToEveryInterface
CHECK_DEADLOCK FALSE
