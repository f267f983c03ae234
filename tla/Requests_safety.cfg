SPECIFICATION Spec
CONSTANTS
    MaxMessages = 2
    MaxNotifications = 2
    Lines = {1, 2}
INVARIANTS
    EveryMessageAnswered
    SendsAccounted
PROPERTIES
    RefusedChangesNothing
