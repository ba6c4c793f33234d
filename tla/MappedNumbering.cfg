SPECIFICATION Spec
CONSTANTS
    Versions = {"V2"}
    Bases = {low, high}
    Packed = packed
    NoBase = NoBase
    SnapshotCap = 2
PROPERTY
    CandidatesKept
