SPECIFICATION Spec
CONSTANTS
    Unary = {"u"}
    Streaming = {"s"}
    Oversize = {}
    Outcomes = {"ok"}
    MaxDials = 1
PROPERTIES DeadEntryNotReplayed
CHECK_DEADLOCK FALSE
