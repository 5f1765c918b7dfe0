CONSTANTS
    o = o
    c = c
    s1 = s1
    s2 = s2
    d = d
    Controllers <- Alone
    Owner = o
    Thread = Thread
    NoThread = NoThread
    Streams <- OneStream
    Deadlines <- OneDeadline
    NoDeadline = NoDeadline
    MaxDepth = 1
    Restarts = TRUE
    MaxLoad = 2
    Cost = 1
SPECIFICATION FairSpec
PROPERTIES
    StopReturns
CHECK_DEADLOCK FALSE
