SPECIFICATION Spec
CONSTANTS
    Asks <- Once
    MaxNames = 2
    MaxConcurrent = 2
    MaxBytes = 3
    Fs = "link"
    Faults = {}
    UserData = {"A"}
    MaxCrashes = 1
    MaxUser = 0
    User = User
    None = None
    Partial = Partial
INVARIANTS PartsOwned
CHECK_DEADLOCK FALSE
