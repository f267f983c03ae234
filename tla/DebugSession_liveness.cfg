SPECIFICATION SessionLiveSpec
CONSTANTS
    Loggers = {l1, l2}
    None = None
    MaxMessages = 2
    MaxSessions = 2
    MaxConnections = 2
PROPERTIES
    PrintedReachesClient
