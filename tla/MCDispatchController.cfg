CONSTANTS
    Thread = thread
    Gui = gui
    NoThread = none
    MaxBacklog = 2
SPECIFICATION FairSpec
INVARIANTS
    OneDispatchPerWait
    UnlocksItsOwn
PROPERTIES
    TurnEnds
    HandlersReturn
CHECK_DEADLOCK FALSE
