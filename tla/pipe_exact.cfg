SPECIFICATION Spec
CONSTANTS
    Clears = {"OUT", "IN"}
    Careful = TRUE
INVARIANTS ExactlyOnce NothingStale ResetBeforeUse
