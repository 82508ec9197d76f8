SPECIFICATION Spec
CONSTANTS
    Ids = {1, 2, 3}
    Sends <- BigFile
    FreeText = FALSE
    MaxCrashes = 0
    None = None
INVARIANTS FailureHonest
CHECK_DEADLOCK FALSE
