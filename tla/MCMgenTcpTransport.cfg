CONSTANTS
    TxBufferSize = 8
    MaxFragSize = 20
    MinFragSize = 4
    ChecksumSize = 2
    Base = 10
    ChecksumEnable = TRUE
    Sizes = {4, 9, 17, 23}
    Splits = {}
    Capacity = 5
    MaxMessages = 2
    MaxBreaks = 1
SPECIFICATION FairSpec
INVARIANTS
    ReceivedInOrder
    FragmentsTile
    ChecksumHasRoom
    RestIsWaitedFor
PROPERTIES
    EveryFragmentArrives
CHECK_DEADLOCK FALSE
