SPECIFICATION Spec
CONSTANTS
    MaxLoads = 3
    MaxServers = 6
INVARIANTS
    NoDoubleDelete
    OneServer
    NothingLeaked
