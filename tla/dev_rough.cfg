SPECIFICATION Spec
CONSTANTS
    Names = {"SET_ADDRESS", "ZERO_ADDRESS", "SET_CONFIGURATION", "FEATURE", "PRODUCT", "READ_HEADER", "GET_STATUS_VENDOR", "RESET_ALL", "UNKNOWN"}
    Lengths = {64}
    Resets = TRUE
    Suspends = TRUE
    Aborts = TRUE
    Hasty = TRUE
INVARIANTS NeverLost
CHECK_DEADLOCK FALSE
