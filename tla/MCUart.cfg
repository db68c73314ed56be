SPECIFICATION FairSpec
CONSTANTS
    NCpu = 2
    FifoSize = 2
    NChar = 2
INVARIANTS
    TypeOK
    Conserved
    LatchHasIrq
PROPERTY
    RxServiced
