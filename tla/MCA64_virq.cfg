SPECIFICATION Spec
CONSTANTS
    NCpu = 2
    NVcpu = 2
    NTask = 2
    Prio <- MCPrio
    Sgi = {1}
    SgiAll = {1}
    UartEnabled = TRUE
    TimerIrq = 27
    UartIrq = 33
    Virq = {1, 27, 33}
    NLr = 1
    QMax = 2
INVARIANTS
    OneLiveContext
    NoLostVirq
    TimerNotStuck
