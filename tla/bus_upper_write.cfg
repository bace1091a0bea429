SPECIFICATION Spec
CONSTANTS
    LoSize = 2
    HiSize = 2
    Byte = {0, 1}
    PullUp = 1
    AddrBits = AddrBits
    BufSize = 2
    IMod = 8
    Header <- MCHeader
    HeaderWords = 1
    Transfers <- MCUpperWrite
    HeaderWhileBusy = FALSE
CHECK_DEADLOCK TRUE
INVARIANTS
    WriteDrivesLanes
