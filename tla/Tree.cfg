SPECIFICATION Spec
CONSTANTS
    Key = {1, 2, 3}
    None = 0
    LeafCap = 1
    InternalCap = 1
    PerOsPage = 2
    ReadKeys = {2}
    MaxOps = 5
    MaxOpsRead = 3
    MaxCrashes = 1
INVARIANTS
    ScanIsExact
    FreelistIsSound
    ReaderExactUnlessReclaimed
PROPERTIES
    IsAtomicMap
CHECK_DEADLOCK FALSE
