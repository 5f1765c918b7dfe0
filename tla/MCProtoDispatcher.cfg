CONSTANTS
    o = o
    c = c
    s1 = s1
    s2 = s2
    d = d
    Controllers <- Both
    Owner = o
    Thread = Thread
    NoThread = NoThread
    Streams <- OneStream
    Deadlines <- OneDeadline
    NoDeadline = NoDeadline
    MaxDepth = 2
    Restarts = FALSE
    MaxLoad = 4
    Cost = 1
SPECIFICATION FairSpec
INVARIANTS
    SuspendedMeansAsleep
    SignaledMeansOutsideWait
    LocksAreCounted
    ThreadNeverBlocksOnSignal
    NothingUnnoticed
    NoStaleEvent
PROPERTIES
    CallsReturn
    StopReturns
    PromptIsServed
    InputIsServed
CHECK_DEADLOCK FALSE
