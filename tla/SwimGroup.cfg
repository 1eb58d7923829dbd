SPECIFICATION Spec
CONSTANTS
    Size = 3
    Node <- MCNode
    PingOrder <- MCPingOrder
    ProtocolPeriod = 1
    PingTimeout = 1
    SuspicionTimeout = 3
    RetransmitCount = 4
    MaxGossip = 8
    SeqModulus = 2
    MaxFaults = 1
    MaxCrashes = 1
    MaxRestarts = 1
    Polled = {1}
CONSTRAINT OneMishap
INVARIANTS TypeOK SuspicionsAreTimed IncarnationsAreOwned NoFalseDeath
PROPERTIES BeliefsOnlyGrow
CHECK_DEADLOCK FALSE
