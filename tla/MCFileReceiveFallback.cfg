SPECIFICATION Spec
CONSTANTS
    Asks <- Once
    MaxNames = 2
    MaxConcurrent = 2
    MaxBytes = 3
    Fs = "copy"
    Faults = {"link", "copy", "sync", "rm"}
    UserData = {"A"}
    MaxCrashes = 2
    MaxUser = 2
    User = User
    None = None
    Partial = Partial
INVARIANTS FallbackSound
CHECK_DEADLOCK FALSE
