CONSTANTS
    MaxRows = 3
    Keys = {1, 2}
    NoFilter = NoFilter
    MaxLimit = 2
    DefaultLimit = 2
    MaxInt = 3
SPECIFICATION Spec
INVARIANTS
    ListingInv
    CursorComplete
    PagesPartition
    CursorOnce
