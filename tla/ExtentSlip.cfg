SPECIFICATION Spec
CONSTANTS
    Region = 4
    Prefix = 1
    Page = 4
    Sizes = {1, 2, 4}
    MaxExtents = 3
    MaxOps = 5
    MaxCrashes = 1
INVARIANT ReadsBack
CHECK_DEADLOCK FALSE
