SPECIFICATION FairSpec
CONSTANTS
    h1 = h1
    h2 = h2
    m1 = m1
    r1 = r1
    r2 = r2
    s1 = s1
    c1 = c1
    c2 = c2
    c3 = c3
    q1 = q1
    Hosts = {h1}
    Relays = {}
    Reflexive = {}
    Srflx = {}
    Remotes = {r1, r2}
    Mdns = {}
    ComponentCount = 1
    Ties = {1}
    Roles = {TRUE, FALSE}
    Answers = {"ok", "conflict", "error"}
    Trickle = FALSE
    RemoteLite = FALSE
    CheckIds = {c1, c2}
    MaxPending = 2
    MaxRounds = 2
    HandlerIds = {}
    MaxInst = 1
    QueueBound = 4
    Component <- MCComponent
    Foundation <- MCOneFoundation
    Priority <- MCPriority
    Seen <- MCSeen
CHECK_DEADLOCK FALSE
INVARIANTS
    PendingAccounting
    SourcePresent
PROPERTIES
    ConnectReturns
    CloseEnds
