SPECIFICATION FairSpec
CONSTANTS
    Sockets = {s1, s2, s3}
    None = None
    Ids = {"x", "y"}
    Tokens = {"t"}
    Devices = {"d1", "d2"}
    Headers <- LiveHeaders
    MaxSessions = 2
    MaxConnections = 2
    MaxInFlight = 1
    MaxChunk = 1
INVARIANTS AccountingExact
PROPERTIES
    SessionsReleased
    SocketsClosed
CHECK_DEADLOCK FALSE
