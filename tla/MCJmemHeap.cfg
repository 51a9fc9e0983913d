SPECIFICATION Spec
CONSTANTS
    Area = 7
    GCLimit = 2
    Blocks = {b1, b2, b3, b4}
    NoBlock = NoBlock
    Fresh = Fresh
SYMMETRY Symmetry
INVARIANTS
    BlocksIntact
    FreeListSorted
    NothingStale
    Accounting
PROPERTIES
    FailsOnlyWhenFull
