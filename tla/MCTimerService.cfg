SPECIFICATION FairSpec
CONSTANTS
    Timers = {t1}
    Pulse = pulse
    NoTimer = none
    PulseInterval = 2
    PrecisionThreshold = 3
    Intervals = {0, 1, 4}
    Repeats <- OnceTwiceOrForever
    Factors <- NoFactors
    Horizon = 3
    MaxTime = 14
    MaxLag = 3
PROPERTIES
    EveryTimerExpires
    LoopEnds
    ImplementsTimerService
CHECK_DEADLOCK FALSE
