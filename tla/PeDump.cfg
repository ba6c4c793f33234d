SPECIFICATION Spec
CONSTANTS
    FA = 2
    SA = 4
    Huge = 12
    Reserve = 8
    ImportInit = 3
    ImportMin = 8
    MinRaw = 1
    Sizes = {3, 18}
    Useds = {1}
    DataSections = 2
    PdataSizes = {0, 5}
    ImportSizes = {0, 9}
    Estimates = {3, 11}
    TableSizes = {3, 10}
    ShellLast = TRUE
INVARIANTS
    ProductIsWhole
    NothingLost
    PointersFollowTheBase64
CHECK_DEADLOCK FALSE
