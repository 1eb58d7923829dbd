SPECIFICATION ServicesSpec
CONSTANTS
    Entity = {1, 2}
    NoAttr = "absent"
    Unseen = "unseen"
    Records <- MCRecords
    Watches <- MCWatches
    Predicates <- MCPredicates
    MaxLog = 2
    MaxSubs = 2
    MaxViews = 1
    MaxFaults = 1
INVARIANTS ViewsExact SubscribersKnow
PROPERTIES Detection
CHECK_DEADLOCK FALSE
