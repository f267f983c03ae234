SPECIFICATION LiveSpec
CONSTANTS
    MaxConnections = 2
    MaxErrors = 2
    MaxBatch = 2
    MaxAttach = 2
INVARIANTS
    HoldIsReal
    NoLineBeforeHoldEnds
    NoFreezeWithoutClient
    NoLeakedPause
    NoForeignErrors
    ConnectionAccounting
PROPERTIES
    StatusProtocol
    ErrorPauseNotDropped
    KeepsConsoleContract
    HoldEnds
    TurnOffReturns
    ErrorPauseIsServed
