CONSTANTS
    Flow = {1, 2, 3}
    NoFlow = 0
    Setups <- Mixed
    MaxRefusals = 1
    MaxPending = 1
SPECIFICATION FairSpec
INVARIANTS
    ListOK
    PendingIsListed
    ReferencesAreUsers
PROPERTIES
    OffStopsUnlessLeftOff
    TimerComesBackUnlessLeftOff
CHECK_DEADLOCK FALSE
