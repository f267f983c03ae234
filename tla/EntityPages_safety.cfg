SPECIFICATION Spec
CONSTANTS
    MaxIndex = 4
    Classes = {c1, c2}
    Free = Free
    Unnamed = Unnamed
    kMaxEntityListLimit = 2
    kMaxPageLimit = 2
    MaxLimit = 3
    MaxChanges = 2
SYMMETRY ClassSymmetry
INVARIANTS
    PageIsSlice
    ShortPageIsLast
    OffByChangesOnly
