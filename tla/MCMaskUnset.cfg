SPECIFICATION Spec
CONSTANTS
    NumBits = 5
    RangeSize = 16
INVARIANT
    UnsetBitsKeepsEnds
