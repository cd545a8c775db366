SPECIFICATION Spec
CONSTANTS
    Relays = {0, 1}
    NodeIds = {0, 1}
    Expiries = {1, 3}
    Base = 2
    Width = 2
    MaxMade = 2
INVARIANTS AcceptedWasIssued OneFrameExactly
CHECK_DEADLOCK FALSE
