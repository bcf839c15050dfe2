SPECIFICATION PromptFairSpec
CONSTANTS
    h1 = h1
    h2 = h2
    m1 = m1
    r1 = r1
    r2 = r2
    s1 = s1
    c1 = c1
    c2 = c2
    c3 = c3
    q1 = q1
    Hosts = {h1}
    Relays = {}
    Reflexive = {}
    Srflx = {}
    Remotes = {r1, r2}
    Mdns = {}
    ComponentCount = 1
    Ties = {1}
    Roles = {TRUE}
    Answers = {"ok"}
    Trickle = FALSE
    RemoteLite = FALSE
    CheckIds = {c1, c2}
    MaxPending = 2
    MaxRounds = 1
    HandlerIds = {}
    MaxInst = 1
    QueueBound = 3
    Component <- MCComponent
    Foundation <- MCOwnFoundations
    Priority <- MCPriority
    Seen <- MCSeen
CHECK_DEADLOCK FALSE
PROPERTIES
    FailedNominationEnds
