SPECIFICATION Spec
CONSTANTS
    NCpu = 2
    FifoSize = 2
    NChar = 3
INVARIANT
    InOrder
