SPECIFICATION Spec
CONSTANTS
    MaxDepth = 2
    LUA_MINSTACK = 20
INVARIANTS
    CallsWellFormed
    StaysInFrame
    ReportsWhatItDid
PROPERTIES
    StackRestored
