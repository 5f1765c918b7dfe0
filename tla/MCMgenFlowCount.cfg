CONSTANTS
    Flow = {1, 2}
    NoFlow = 0
    Setups <- QueueAndCount
    MaxRefusals = 1
    MaxPending = 1
SPECIFICATION FairSpec
PROPERTIES
    OffStopsFlow
CHECK_DEADLOCK FALSE
