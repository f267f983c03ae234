SPECIFICATION LiveSpec
CONSTANTS
    Loggers = {l1, l2}
    None = None
    MaxMessages = 4
    MaxSessions = 3
INVARIANTS
    NoUseAfterFree
    LateByOneSession
    NoDeadlock
PROPERTIES
    KeepsConsoleContract
    SetCallbackReturns
