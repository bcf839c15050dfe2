SPECIFICATION Spec
CONSTANTS
    h1 = h1
    h2 = h2
    r1 = r1
    c1 = c1
    c2 = c2
    c3 = c3
    q1 = q1
    q2 = q2
    AHosts = {h1, h2}
    ARelays = {h2}
    BHosts = {r1}
    ComponentCount = 1
    Ties = {1, 2}
    ATies = {2}
    ARoles = {TRUE}
    BRoles = {FALSE}
    Trickle = FALSE
    CheckIds = {c1, c2}
    MaxPending = 2
    MaxRounds = 1
    HandlerIds = {q1}
    MaxInst = 1
    QueueBound = 2
    Lossy = FALSE
    Late = FALSE
    Component <- MCComponent
    Foundation <- MCFoundation
    Priority <- MCPriority
SYMMETRY MCSymmetry
CHECK_DEADLOCK FALSE
INVARIANTS
    Agreement
