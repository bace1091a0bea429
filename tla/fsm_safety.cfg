SPECIFICATION FairSpec
CONSTANTS
    EPSize = 2
    CmdSize = 1
    Lens = {0, 1, 2, 3}
    Invalid = TRUE
    Splits = FALSE
    Unruly = FALSE
    HostWaits = TRUE
    Opens = "resetting"
INVARIANTS
    TypeOK
    CommandFraming
    WriteInOrder
    ReadInOrder
    NothingLeftOver
    IdleTogether
    LengthAddsUp
    InBankFree
PROPERTIES
    ImplementsTransfer
    ResetStopsAccess
    TransferCompletes
