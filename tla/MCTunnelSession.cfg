SPECIFICATION FairSpec
CONSTANTS
    Confs <- AllConfs
    Requests = {r1}
    MaxFlows = 3
    MaxFaults = 4
    None = None
INVARIANTS TypeOK NeverStranded StoppedQuiet
PROPERTIES Reregisters CallsSettle
CHECK_DEADLOCK FALSE
