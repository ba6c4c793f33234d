SPECIFICATION Spec
CONSTANTS
    Versions = {"V1", "Ancient", "V2"}
    Bases = {low, high}
    Packed = packed
    NoBase = NoBase
    SnapshotCap = 2
SYMMETRY MCSymmetry
INVARIANTS
    LastChanceTaken
PROPERTY
    SnapshotsKept
