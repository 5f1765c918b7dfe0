SPECIFICATION Spec
CONSTANTS
    Timers = {t1, t2}
    Pulse = pulse
    NoTimer = none
    PulseInterval = 2
    PrecisionThreshold = 3
    Intervals = {1, 4}
    Repeats <- OnceOrForever
    Factors <- Double
    Horizon = 4
    MaxTime = 6
    MaxLag = 3
SYMMETRY Symmetry
VIEW View
INVARIANTS
    ListsOK
    PulseRuns
    InvokedIsLinked
    NoLostWakeup
    LongIsFar
    ShortNeverEarly
    BoundedEarliness
CHECK_DEADLOCK FALSE
