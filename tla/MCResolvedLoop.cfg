\* Two calls, and the monitor between their steps.
SPECIFICATION Spec
CONSTANTS
    Server = {s1, s2}
    NoServer = NoServer
    Fallback = {}
    Link = {1}
    First = {1}
    DomainSets <- MCDomainSets
    Name <- MCName
    Flags = {"no"}
    Budgets <- MCQuiet
INVARIANTS
    NoLoop
CHECK_DEADLOCK FALSE
