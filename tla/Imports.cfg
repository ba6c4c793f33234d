CONSTANTS
    Text = 3
    Slots = {1, 3, 4}
    SectionOf <- MCSectionOf
    DelphiSkip = 2
    FollowDepth = 2
    InstrLimit = 3
    Kinds = {"zero", "api", "tramp", "rva"}
    Reads = {4, 7}
    Lead = 3
    MaxSlots = 7
    ZeroRun = 1
    BackwardCap = 2
    ForwardGap = 1
    BackwardGap = 1
    EarlierGap = 2
    BackwardHead = 4
    Modules = {1, 2, 3}
    Worlds <- MCWorlds
    Home <- MCHome
    Priority <- MCPriority
    Score <- MCScore
    Values = {0, 1, 2, 3, 9, 11}
    TableSlots = 4
    MaxGap = 2
SPECIFICATION ImportsSpec
INVARIANTS
    SearchFindsAnImport NeighbouringStubsKept TableIsTight
    LoaderFindsTheSame ThunksInTheirSlots DenseTablesAreRead UndescribedUntouched
