SPECIFICATION ComponentsSpec
CONSTANTS
    ShardMap <- MCShardMap
    Bytes = {0}
    Placements <- MCPlacements
    Templates <- MCTemplates
    NameSets <- MCNameSets
    Picked = {2, 5}
    Fields = {1, 2}
    Threads = {1, 2}
    Secret = "w"
    MaxRequests = 2
    MaxFaults = 1
INVARIANTS
    EnforcedReads
    SomeoneAdministers
    BitmapsAreSets
    QueriesMeanWhatTheySay
    RoundTrips
    StreamsInOrder
    ReadsBack
CHECK_DEADLOCK FALSE
