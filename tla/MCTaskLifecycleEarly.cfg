SPECIFICATION Spec
CONSTANTS
    Tasks = {t1, t2}
    Limits <- OneSlot
    MaxEvents = 1
    MaxCrashes = 0
    Expiring = {t1, t2}
    None = None
PROPERTIES RecoveryOfPreviousRun
CHECK_DEADLOCK FALSE
