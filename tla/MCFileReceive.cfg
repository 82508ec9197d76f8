SPECIFICATION Spec
CONSTANTS
    Asks <- TwoFiles
    MaxNames = 2
    MaxConcurrent = 2
    MaxBytes = 3
    Fs = "link"
    Faults = {"save", "link", "sync", "rm"}
    UserData = {"A"}
    MaxCrashes = 2
    MaxUser = 2
    User = User
    None = None
    Partial = Partial
INVARIANTS TypeOK CommittedSound FailureConfirmed LandsOnce
PROPERTIES NoClobber CommitIsFinal
CHECK_DEADLOCK FALSE
