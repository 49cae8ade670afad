SPECIFICATION FairSpec
CONSTANTS
    RangeIp = 2
    MaxScans = 3
    None = None
INVARIANTS
    FoundPaired
    SavedIsCompleted
    ShownIsSaved
PROPERTIES
    ScanEnds
