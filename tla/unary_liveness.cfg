SPECIFICATION FairSpec
CONSTANTS
    Unary = {"a", "b"}
    Streaming = {}
    Oversize = {"b"}
    Outcomes = {"ok", "huge", "Codec", "panic"}
    MaxDials = 1
PROPERTIES CallsReturn
CHECK_DEADLOCK FALSE
