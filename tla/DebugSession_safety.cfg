SPECIFICATION SessionSpec
CONSTANTS
    Loggers = {l1, l2}
    None = None
    MaxMessages = 3
    MaxSessions = 2
    MaxConnections = 2
INVARIANTS
    OutputContiguous
    ErrorFollowsItsLine
    NothingMissed
