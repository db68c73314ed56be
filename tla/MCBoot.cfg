SPECIFICATION Spec
CONSTANTS
    Cell = 8
    AffSpan = 8
    MaxVcpus = 3
    Defaults <- MCDefaults
    Fan = 4
    NPages = 40
    ImageAt = 16
    ImageSize = 5
    UartAt = 9
    DirectAt = 96
    KmapAt = 64
    KmapSize = 16
    Cleared = 4
    HostTrees <- MCHostTrees
    GuestTrees <- MCGuestTrees
    Junks <- MCJunks
    PaRanges = {1, 3, 5}
    WindowJunk <- MCWindowJunk
    Secondary = {1, 2}
    RdistAff <- MCRdistAff
    RdistStride = 2
    SmpCpuNum = 3
    GiccPage = 18
    FdtPage = 48
    FdtPages = 2
    SgiFixAt = 92
    HeapPages = 2
    KmapL2 = 1
    KmapL3 = 1
    S2Tables = 3
    RvDefaults <- MCRvDefaults
    RvCpuNum = 3
    Timebase = 4
    GuestUart <- MCGuestUart
    GuestPlic <- MCGuestPlic
    PlicPhandle = 7
    StringsSize = 32
    PageBytes = 2
    RvHostFdts <- MCRvHostFdts
    Harts = {0, 1, 2}
    RegionUart <- MCRegionUart
    RegionPlic <- MCRegionPlic
    RvImage <- MCRvImage
    RvUart <- MCRvUart
    RvPlic <- MCRvPlic
    RvDirect <- MCRvDirect
    RvHeapPages = 2
INVARIANTS BootTypeOK GuestAgrees MapsKept OwnRedist RvGuestMapped RvHarts RvDtbDescribes
PROPERTY BootEnds
CHECK_DEADLOCK FALSE
