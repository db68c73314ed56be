SPECIFICATION Spec
CONSTANTS
    NCpu = 2
    NVcpu = 2
    NTask = 2
    Prio <- MCPrio
    Sgi = {}
    SgiAll = {}
    UartEnabled = FALSE
    TimerIrq = 27
    UartIrq = 33
    Virq = {27, 33}
    NLr = 1
    QMax = 2
INVARIANT
    RunsWithIdentity
