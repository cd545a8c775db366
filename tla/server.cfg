SPECIFICATION FairSpec
CONSTANTS
    Servers = {"s1"}
    Conns = {"c1", "c2", "c3"}
    Streams = {"t1", "t2"}
    ConnOf <- AcrossConnections
    AlpnOf <- OneApp
    MaxConns = 1
    MaxStreams = 1
    NoServer = NoServer
INVARIANTS TypeOK PermitsConserved ConnectionIdsUnique WireNeverRefused
PROPERTIES ArrivalsNotStarved WaitersServed
CHECK_DEADLOCK FALSE
