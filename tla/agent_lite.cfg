SPECIFICATION Spec
CONSTANTS
    h1 = h1
    h2 = h2
    m1 = m1
    r1 = r1
    r2 = r2
    s1 = s1
    c1 = c1
    c2 = c2
    c3 = c3
    q1 = q1
    Hosts = {h1, h2}
    Relays = {h2}
    Reflexive = {}
    Srflx = {}
    Remotes = {r1, r2, s1}
    Mdns = {s1}
    ComponentCount = 2
    Ties = {1}
    Roles = {TRUE, FALSE}
    Answers = {"ok", "conflict", "error"}
    Trickle = FALSE
    RemoteLite = TRUE
    CheckIds = {c1, c2, c3}
    MaxPending = 2
    MaxRounds = 1
    HandlerIds = {}
    MaxInst = 1
    QueueBound = 3
    Component <- MCComponent
    Foundation <- MCOwnFoundations
    Priority <- MCPriority
    Seen <- MCSeen
SYMMETRY MCSymmetry
CHECK_DEADLOCK FALSE
INVARIANTS
    NominatedUnique
PROPERTIES
    NominationKept
    ConnectionPromise
