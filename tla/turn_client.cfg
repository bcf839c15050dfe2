SPECIFICATION PromptSpec
CONSTANTS
    i1 = i1
    i2 = i2
    p1 = p1
    p2 = p2
    Ips = {i1, i2}
    Peers = {p1, p2}
    IpOf <- MCIpOf
    MinNumber = 1
    MaxNumber = 2
    Calls = {1, 2, 3}
    PermIds = {1, 2}
    ChanIds = {1, 2}
CHECK_DEADLOCK FALSE
INVARIANTS
    RoutesAgree
    BoundHangsOnPermission
    TablesRefreshed
    CreatingHasOwner
PROPERTIES
    CallsReturn
    StopEndsTasks
