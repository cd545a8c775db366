SPECIFICATION FairSpec
CONSTANTS
    Ids = {"i1"}
    Sessions = {"h1", "h2"}
    Conns = {"c1", "c2"}
    Frames = {"f1", "f2", "f3"}
    SessionId <- OneId
    ConnOf <- TwoConns
    Prefix <- SomeBroken
    MaxInFlight = 1
    NoSession = NoSession
INVARIANTS TypeOK InFlightBounded RegisteredReachable
PROPERTIES UnregisterIsFinal FramesSettle
CHECK_DEADLOCK FALSE
