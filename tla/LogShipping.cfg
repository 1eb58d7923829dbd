SPECIFICATION FairSpec
CONSTANTS
    Id = {a, b}
    Value = {x, y}
    None = None
    MaxRecords = 3
    MaxMishaps = 2
INVARIANTS TypeOK LogTellsAll PrefixUnlessRewound CaughtUpIsEqual
PROPERTIES ShipsInOrder CatchesUp
CHECK_DEADLOCK FALSE
