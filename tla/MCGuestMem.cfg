SPECIFICATION GmSpec
CONSTANTS
    Vcpu = {0, 1}
    None = None
    Fanout = 3
    Levels = 2
    NPages = 6
    BootMap = {7}
    MaxVcpus = 2
    VcpuCount = 2
    GicdPage = 0
    GicrPage = 1
    GicrFrames = 2
    Words = {0}
    Bits = {1}
    RamPage = 6
    RamPages = 2
    UartPage = 5
    UartPages = 1
    DistRegs = {"ISENABLER"}
    RdRegs = {"WAKER"}
    SgiRegs = {"ISENABLER", "ICENABLER"}
    MaxAcc = 3
CHECK_DEADLOCK FALSE
INVARIANTS
    GmTypeOK
    TablesAreTree
    OnlyWildPanics
    OwnFrameKept
PROPERTIES
    ViewGrows
    AccessEnds
