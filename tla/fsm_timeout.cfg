SPECIFICATION Spec
CONSTANTS
    EPSize = 2
    CmdSize = 1
    Lens = {0, 2, 3}
    Invalid = FALSE
    Splits = TRUE
    Unruly = FALSE
    HostWaits = TRUE
    Opens = "never"
INVARIANTS
    WriteInOrder
