SPECIFICATION FairSpec
CONSTANTS
    Tasks = {t1, t2}
    Limits <- AllLimits
    MaxEvents = 1
    MaxCrashes = 2
    Expiring = {t1}
    None = None
INVARIANTS SlotsExact NoStaleTask
PROPERTIES RecordsFinal TasksDecided
CHECK_DEADLOCK FALSE
