SPECIFICATION Spec
CONSTANTS
    Asks <- TwoFiles
    MaxNames = 3
    MaxConcurrent = 2
    MaxBytes = 3
    Fs = "rename"
    Faults = {}
    UserData = {"A"}
    MaxCrashes = 0
    MaxUser = 0
    User = User
    None = None
    Partial = Partial
PROPERTIES NoClobber
CHECK_DEADLOCK FALSE
