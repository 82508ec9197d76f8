SPECIFICATION FairSpec
CONSTANTS
    Asks <- Crowd
    MaxNames = 1
    MaxConcurrent = 2
    MaxBytes = 2
    Fs = "link"
    Faults = {"link"}
    UserData = {"A"}
    MaxCrashes = 1
    MaxUser = 0
    User = User
    None = None
    Partial = Partial
INVARIANTS AdmissionExact NoLostPart
PROPERTIES ReceivesSettle RecordsDecided OutcomeImplemented
CHECK_DEADLOCK FALSE
