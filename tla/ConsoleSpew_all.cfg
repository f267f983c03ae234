SPECIFICATION LiveSpec
CONSTANTS
    Loggers = {l1, l2}
    None = None
    MaxMessages = 3
    MaxSessions = 2
INVARIANTS
    OwnSessionOnly
    LostOnlyToAStop
PROPERTIES
    KeepsConsoleContract
    SetCallbackReturns
    QueuedIsDelivered
