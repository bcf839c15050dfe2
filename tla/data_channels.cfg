SPECIFICATION Spec
CONSTANTS
    ObjMax = 6
    Plans <- MCPlans
    IdMax = 3
    MaxStreams = 2
    CacheMax = 2
    Sizes = {1, 2}
    ReadersMax = 1
CHECK_DEADLOCK FALSE
INVARIANTS
    EntriesLive
    ChannelsReachable
    CacheAccounted
    LoopWaitsForRoom
    ReaderFinds
    CloseReturnsClosed
    OpensPaired
PROPERTIES
    StatesAdvance
    ClosingEnds
    OpensAnswered
    BothEndsClose
