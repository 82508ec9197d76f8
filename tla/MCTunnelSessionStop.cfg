SPECIFICATION Spec
CONSTANTS
    Confs <- Enriched
    Requests = {r1}
    MaxFlows = 1
    MaxFaults = 0
    None = None
INVARIANTS StoppedOffAir
CHECK_DEADLOCK FALSE
