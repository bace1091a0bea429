SPECIFICATION FairSpec
CONSTANTS
    LoSize = 2
    HiSize = 2
    Byte = {1}
    PullUp = 1
    AddrBits = AddrBits
    BufSize = 2
    IMod = 8
    Header <- MCHeader
    HeaderWords = 1
    Transfers <- MCReturningTransfers
    HeaderWhileBusy = FALSE
CHECK_DEADLOCK TRUE
PROPERTIES
    Returns
