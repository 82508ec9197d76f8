SPECIFICATION Spec
CONSTANTS
    Asks <- Repeated
    MaxNames = 2
    MaxConcurrent = 2
    MaxBytes = 3
    Fs = "link"
    Faults = {}
    UserData = {"A"}
    MaxCrashes = 0
    MaxUser = 0
    User = User
    None = None
    Partial = Partial
PROPERTIES IdempotentPrepare
CHECK_DEADLOCK FALSE
