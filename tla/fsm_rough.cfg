SPECIFICATION FairDevice
CONSTANTS
    EPSize = 2
    CmdSize = 2
    Lens = {0, 3}
    Invalid = FALSE
    Splits = TRUE
    Unruly = TRUE
    HostWaits = FALSE
    Opens = "never"
INVARIANTS
    LengthAddsUp
PROPERTIES
    EndsComplete
    ResetStopsAccess
    ResetServed
