SPECIFICATION Spec
CONSTANTS
    Asks <- Repeated
    MaxNames = 2
    MaxConcurrent = 2
    MaxBytes = 3
    Fs = "link"
    Faults = {"sync"}
    UserData = {"A"}
    MaxCrashes = 0
    MaxUser = 0
    User = User
    None = None
    Partial = Partial
INVARIANTS RepeatLandsOnce
CHECK_DEADLOCK FALSE
