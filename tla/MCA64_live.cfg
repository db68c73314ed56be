SPECIFICATION FairSpec
CONSTANTS
    NCpu = 2
    NVcpu = 2
    NTask = 2
    Prio <- MCPrio
    Sgi = {1}
    SgiAll = {}
    UartEnabled = FALSE
    TimerIrq = 27
    UartIrq = 33
    Virq = {1, 27, 33}
    NLr = 1
    QMax = 3
PROPERTIES
    VcpuRuns
    VirqDelivered
