SPECIFICATION Spec
CONSTANTS
    h1 = h1
    h2 = h2
    r1 = r1
    c1 = c1
    c2 = c2
    c3 = c3
    q1 = q1
    q2 = q2
    AHosts = {h1}
    ARelays = {}
    BHosts = {r1}
    ComponentCount = 1
    Ties = {1, 2}
    ATies = {2}
    ARoles = {TRUE}
    BRoles = {TRUE, FALSE}
    Trickle = FALSE
    CheckIds = {c1}
    MaxPending = 1
    MaxRounds = 2
    HandlerIds = {q1}
    MaxInst = 1
    QueueBound = 2
    Lossy = TRUE
    Late = TRUE
    Component <- MCComponent
    Foundation <- MCFoundation
    Priority <- MCPriority
SYMMETRY MCSymmetry
CHECK_DEADLOCK FALSE
INVARIANTS
    NominationAsked
PROPERTIES
    RolesStayApart
