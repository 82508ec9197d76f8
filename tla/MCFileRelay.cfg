SPECIFICATION Spec
CONSTANTS
    Sockets = {s1, s2, s3}
    None = None
    Ids = {"x", "y"}
    Tokens = {"t", "u"}
    Devices = {"d1", "d2", "d3"}
    Headers <- MCHeaders
    MaxSessions = 1
    MaxConnections = 3
    MaxInFlight = 2
    MaxChunk = 2
SYMMETRY Symmetry
INVARIANTS
    TypeOK
    PayloadAccounted
    AckMeansDelivered
    TimersMatchPhase
    NoOrphanSocket
    NoWedgedSender
PROPERTY
    ForwardsAsPipe
CHECK_DEADLOCK FALSE
