\* Two links, two servers, a site with a domain of its own: every order of two
\* calls, Close and the monitor, around one failure or foreign change.
SPECIFICATION MCSpec
CONSTANTS
    Server = {s1, s2}
    NoServer = NoServer
    Fallback = {}
    Link = {1, 2}
    First = {0, 1}
    DomainSets <- MCDomainSets
    Name <- MCName
    Flags = {"no", "unknown"}
    Budgets <- MCBudgets
INVARIANTS
    TypeOK
    Maintained
    Followed
    LeavesNothing
CHECK_DEADLOCK FALSE
SYMMETRY MCSymmetry
