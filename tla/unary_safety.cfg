SPECIFICATION Spec
CONSTANTS
    Unary = {"a", "b"}
    Streaming = {"s"}
    Oversize = {"b"}
    Outcomes = {"ok", "panic", "TransportRead"}
    MaxDials = 2
INVARIANTS TypeOK AnswerComplete FailedConnectionForgotten TransportErrorsAreLocal
CHECK_DEADLOCK FALSE
