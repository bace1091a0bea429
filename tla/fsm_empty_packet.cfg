SPECIFICATION Spec
CONSTANTS
    EPSize = 2
    CmdSize = 1
    Lens = {0, 2}
    Invalid = FALSE
    Splits = FALSE
    Unruly = FALSE
    HostWaits = TRUE
    Opens = "never"
INVARIANTS
    NoEmptyPacket
