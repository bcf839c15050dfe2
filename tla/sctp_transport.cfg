SPECIFICATION PromptSpec
CONSTANTS
    t1 = t1
    t2 = t2
    Timers = {t1, t2}
    Calls = {1, 2}
    Plans <- MCPlans
    InMax = 2
    SslBatch = 1
    QueueMax = 2
    QueueHigh = 1
    SendBatch = 2
    BufferMax = 1
    BufferLow = 0
    InboxMax = 1
    Horizon = 2
CHECK_DEADLOCK FALSE
INVARIANTS
    OutBelongsToHolder
    DtlsWaitsForReason
    SenderWakes
    CallsWaitForReason
    MutexesHandedOn
    HandlerSleepsToFirst
PROPERTIES
    StopEnds
    QueueDrains
