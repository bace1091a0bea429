SPECIFICATION FairSpec
CONSTANTS
    Names = {"SET_ADDRESS", "SET_CONFIGURATION", "ZERO_ADDRESS", "UNSET_CONFIGURATION", "FEATURE", "GET_STATUS", "GET_CONFIGURATION", "CONFIGURATION", "PRODUCT", "DEVICE", "SERIAL", "READ_HEADER", "READ_DEBUG", "RESET_ALL", "WRITE_DEBUG", "VENDOR_OTHER", "BAD_CONFIGURATION", "BAD_FEATURE", "NO_DESCRIPTOR", "UNKNOWN"}
    Lengths = {8, 32, 64}
    Resets = FALSE
    Suspends = TRUE
    Aborts = FALSE
    Hasty = FALSE
INVARIANTS TypeOK SelectionHeld ReplyComplete StallsUnknown
PROPERTIES AddressAfterStatus RequestsEnd
CHECK_DEADLOCK FALSE
