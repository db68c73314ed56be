SPECIFICATION RvSpec
CONSTANTS
    NCpu = 2
    NVcpu = 3
    Created = {1, 3}
    Units = {"f", "v"}
    Menus <- MCMenus
    Calls <- MCCalls
    HartSpan = 16
    MaxOps = 2
    MaxRx = 1
    GuestUartIrq = 10
    Irq = {10}
    Ctx = {0, 1, 2}
    MaxPriority = 7
    FifoSize = 1
INVARIANTS
    RvTypeOK
    OnePlace
    HvipCoversImage
    OwnContext
    FenceDone
    LevelSettled
PROPERTIES
    TimerFires
    SyncEnds
