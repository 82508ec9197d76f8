SPECIFICATION FairSpec
CONSTANTS
    Confs <- AllConfs
    Calls = {c1, c2}
    Checks = {k1, k2}
    MaxFaults = 6
    None = None
INVARIANTS BreakerConsistent ProbeExact
PROPERTIES Recovers
CHECK_DEADLOCK FALSE
