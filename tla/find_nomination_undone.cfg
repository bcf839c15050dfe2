SPECIFICATION PromptSpec
CONSTANTS
    h1 = h1
    h2 = h2
    m1 = m1
    r1 = r1
    r2 = r2
    s1 = s1
    c1 = c1
    c2 = c2
    c3 = c3
    q1 = q1
    Hosts = {h1, h2}
    Relays = {}
    Reflexive = {m1}
    Srflx = {}
    Remotes = {r1, s1}
    Mdns = {}
    ComponentCount = 2
    Ties = {1}
    Roles = {TRUE, FALSE}
    Answers = {"ok"}
    Trickle = FALSE
    RemoteLite = FALSE
    CheckIds = {c1, c2, c3}
    MaxPending = 3
    MaxRounds = 1
    HandlerIds = {}
    MaxInst = 1
    QueueBound = 4
    Component <- MCComponent
    Foundation <- MCOneFoundation
    Priority <- MCPriority
    Seen <- MCSeen
SYMMETRY MCSymmetry
CHECK_DEADLOCK FALSE
PROPERTIES
    NominationKept
